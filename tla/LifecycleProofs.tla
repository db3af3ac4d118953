---------------------------- MODULE LifecycleProofs ----------------------------
(***************************************************************************)
(* Two window managers never manage the screen at once, for any processes, *)
(* signals, events and timeouts.  What excludes the second is the one      *)
(* SubstructureRedirect the server grants, not the selection; what keeps a *)
(* previous owner gone is that an owner has a timestamp, and a process     *)
(* that has one is not launched again.                                     *)
(***************************************************************************)
EXTENDS Lifecycle, FiniteSetTheorems, TLAPS

Inside  == {"loading", "installed"} \cup Looping       \* past X11::init
Waited  == {"announcing", "redirecting"} \cup Inside   \* done with the previous owner
Stamped == {"stamped", "claiming", "waiting"} \cup Waited

ProcessesTyped ==
    /\ pc \in [Managers -> Starting \cup Looping \cup Gone]
    /\ prev \in [Managers -> Managers \cup {Nobody}]
    /\ stamp \in [Managers -> Nat] /\ clock \in Nat
    /\ owner \in Managers \cup {Nobody}

\* An owner, now or before, has a timestamp, as has every process that asked for the owner.
OwnersStamped ==
    /\ \A p \in Managers : pc[p] \in Stamped => stamp[p] # 0
    /\ \A p \in Managers : prev[p] # Nobody => stamp[prev[p]] # 0
    /\ owner # Nobody => stamp[owner] # 0

PreviousGone == \A p \in Managers : pc[p] \in Waited /\ prev[p] # Nobody => pc[prev[p]] \in Gone

InsideRedirects == \A p \in Managers : pc[p] \in Inside => redirect = p

LInv == ProcessesTyped /\ OwnersStamped /\ PreviousGone /\ InsideRedirects

-----------------------------------------------------------------------------
(* The kinds of step. *)

\* A step that only moves events.
LEMMA KeepInv ==
    ASSUME LInv, UNCHANGED <<pc, prev, stamp, clock, owner, redirect>>
    PROVE  LInv'
BY DEF LInv, ProcessesTyped, OwnersStamped, PreviousGone, InsideRedirects

\* The end of a process: its redirection and its selection end with it.
LEMMA ExitInv ==
    ASSUME LInv, NEW p \in Managers, NEW how \in Gone, Exit(p, how)
    PROVE  LInv'
<1> USE DEF LInv
<1>1. /\ pc' = [pc EXCEPT ![p] = how] /\ UNCHANGED <<prev, stamp, clock>>
      /\ owner' = IF owner = p THEN Nobody ELSE owner
      /\ redirect' = IF redirect = p THEN Nobody ELSE redirect
  BY DEF Exit, Goto
<1>2. \A q \in Managers : pc'[q] = IF q = p THEN how ELSE pc[q]  BY <1>1 DEF ProcessesTyped
<1>3. how \notin Stamped  BY DEF Gone, Stamped, Waited, Inside, Looping
<1>4. ProcessesTyped'  BY <1>1 DEF ProcessesTyped
<1>5. OwnersStamped'  BY <1>1, <1>2, <1>3 DEF OwnersStamped
<1>6. PreviousGone'
  <2> SUFFICES ASSUME NEW q \in Managers, pc'[q] \in Waited, prev[q] # Nobody
               PROVE  pc'[prev[q]] \in Gone
    BY <1>1 DEF PreviousGone
  <2>1. q # p  BY <1>2, <1>3 DEF Stamped
  <2>2. pc[prev[q]] \in Gone /\ prev[q] \in Managers
    BY <1>2, <2>1 DEF PreviousGone, ProcessesTyped
  <2> QED  BY <1>2, <2>2
<1>7. InsideRedirects'
  <2> SUFFICES ASSUME NEW q \in Managers, pc'[q] \in Inside  PROVE redirect' = q
    BY DEF InsideRedirects
  <2>1. q # p /\ pc[q] \in Inside  BY <1>2, <1>3 DEF Stamped, Waited
  <2> QED  BY <1>1, <2>1 DEF InsideRedirects
<1> QED  BY <1>4, <1>5, <1>6, <1>7

\* A step of p from one place to another.  No process that is past waiting had p for its
\* previous owner, as p is not gone, or has no timestamp yet.
LEMMA GotoInv ==
    ASSUME LInv, NEW p \in Managers, NEW there \in Starting \cup Looping, Goto(p, there),
           pc[p] \notin Gone \/ stamp[p] = 0,
           UNCHANGED <<prev, stamp, clock>>,
           owner' = owner \/ owner' = p,
           redirect' = redirect \/ (redirect = Nobody /\ redirect' = p),
           there = "start" \/ (stamp[p] # 0 /\ pc[p] \notin Gone),
           owner' = p => stamp[p] # 0,
           there \in Waited => pc[p] \in Waited \/ prev[p] = Nobody \/ pc[prev[p]] \in Gone,
           there \in Inside => pc[p] \in Inside \/ redirect' = p
    PROVE  LInv'
<1> USE DEF LInv
<1>1. pc' = [pc EXCEPT ![p] = there]  BY DEF Goto
<1>2. \A q \in Managers : pc'[q] = IF q = p THEN there ELSE pc[q]  BY <1>1 DEF ProcessesTyped
<1>3. "start" \notin Stamped  BY DEF Stamped, Waited, Inside, Looping
<1>4. ProcessesTyped'  BY <1>1 DEF ProcessesTyped
<1>5. OwnersStamped'
  <2>1. \A q \in Managers : pc'[q] \in Stamped => stamp'[q] # 0
    BY <1>2, <1>3 DEF OwnersStamped
  <2>2. \A q \in Managers : prev'[q] # Nobody => stamp'[prev'[q]] # 0  BY DEF OwnersStamped
  <2>3. owner' # Nobody => stamp'[owner'] # 0  BY DEF OwnersStamped
  <2> QED  BY <2>1, <2>2, <2>3 DEF OwnersStamped
<1>6. PreviousGone'
  <2> SUFFICES ASSUME NEW q \in Managers, pc'[q] \in Waited, prev[q] # Nobody
               PROVE  pc'[prev[q]] \in Gone
    BY DEF PreviousGone
  <2>1. prev[q] \in Managers /\ stamp[prev[q]] # 0  BY DEF ProcessesTyped, OwnersStamped
  <2>2. pc[prev[q]] \in Gone
    <3>1. CASE q = p  BY <1>2, <3>1 DEF PreviousGone
    <3>2. CASE q # p  BY <1>2, <3>2 DEF PreviousGone
    <3> QED  BY <3>1, <3>2
  <2>3. prev[q] # p  BY <2>1, <2>2
  <2> QED  BY <1>2, <2>1, <2>2, <2>3
<1>7. InsideRedirects'
  <2> SUFFICES ASSUME NEW q \in Managers, pc'[q] \in Inside  PROVE redirect' = q
    BY DEF InsideRedirects
  <2>1. CASE q = p
    <3>1. CASE pc[p] \in Inside
      <4>1. redirect = p /\ p # Nobody  BY <3>1, LifecycleAssumption DEF InsideRedirects
      <4> QED  BY <2>1, <4>1
    <3>2. CASE pc[p] \notin Inside  BY <1>2, <2>1, <3>2
    <3> QED  BY <3>1, <3>2
  <2>2. CASE q # p
    <3>1. redirect = q /\ q # Nobody  BY <1>2, <2>2, LifecycleAssumption DEF InsideRedirects
    <3> QED  BY <3>1
  <2> QED  BY <2>1, <2>2
<1> QED  BY <1>4, <1>5, <1>6, <1>7

\* A step of p from where it has a timestamp to the place after it.
LEMMA OnwardInv ==
    ASSUME LInv, NEW p \in Managers, NEW there \in Stamped, Goto(p, there),
           pc[p] \in Stamped,
           UNCHANGED <<prev, stamp, clock, owner>>,
           redirect' = redirect \/ (redirect = Nobody /\ redirect' = p),
           there \in Waited => pc[p] \in Waited \/ prev[p] = Nobody \/ pc[prev[p]] \in Gone,
           there \in Inside => pc[p] \in Inside \/ redirect' = p
    PROVE  LInv'
<1>1. there \in Starting \cup Looping /\ pc[p] \notin Gone
  BY DEF Stamped, Waited, Inside, Starting, Looping, Gone
<1>2. stamp[p] # 0  BY DEF LInv, OwnersStamped
<1>3. owner' = p => stamp[p] # 0  BY <1>2
<1> QED  BY <1>1, <1>2, <1>3, GotoInv

-----------------------------------------------------------------------------
(* The steps of X11::init. *)

\* A process is launched once.
LEMMA LaunchInv ==
    ASSUME LInv, NEW p \in Managers, Launch(p)
    PROVE  LInv'
<1>1. /\ Goto(p, "start") /\ pc[p] = "not started" /\ stamp[p] = 0
      /\ UNCHANGED <<prev, stamp, clock, owner, redirect>>
  BY DEF Launch
<1>2. "start" \in Starting \cup Looping /\ "start" \notin Waited /\ "start" \notin Inside
  BY DEF Starting, Waited, Inside, Looping
<1>3. owner' = p => stamp[p] # 0
  BY <1>1, LifecycleAssumption DEF LInv, OwnersStamped
<1> QED  BY <1>1, <1>2, <1>3, GotoInv

\* Timestamp::get: from here on the process has a timestamp.
LEMMA GetTimestampInv ==
    ASSUME LInv, NEW p \in Managers, GetTimestamp(p)
    PROVE  LInv'
<1> USE DEF LInv
<1>1. /\ pc' = [pc EXCEPT ![p] = "stamped"] /\ pc[p] = "start"
      /\ clock' = clock + 1 /\ stamp' = [stamp EXCEPT ![p] = clock + 1]
      /\ UNCHANGED <<prev, owner, redirect>>
  BY DEF GetTimestamp, Goto
<1>2. \A q \in Managers : pc'[q] = IF q = p THEN "stamped" ELSE pc[q]  BY <1>1 DEF ProcessesTyped
<1>3. \A q \in Managers : stamp'[q] = IF q = p THEN clock + 1 ELSE stamp[q]
  BY <1>1 DEF ProcessesTyped
<1>4. clock + 1 # 0 /\ clock + 1 \in Nat  BY DEF ProcessesTyped
<1>5. "stamped" \notin Waited /\ "start" \notin Gone /\ "stamped" \in Starting
  BY DEF Waited, Inside, Looping, Gone, Starting
<1>6. ProcessesTyped'
  <2>1. pc' \in [Managers -> Starting \cup Looping \cup Gone]  BY <1>1, <1>5 DEF ProcessesTyped
  <2>2. stamp' \in [Managers -> Nat] /\ clock' \in Nat  BY <1>1, <1>4 DEF ProcessesTyped
  <2> QED  BY <1>1, <2>1, <2>2 DEF ProcessesTyped
<1>7. OwnersStamped'
  <2>1. \A q \in Managers : pc'[q] \in Stamped => stamp'[q] # 0
    BY <1>2, <1>3, <1>4 DEF OwnersStamped
  <2>2. \A q \in Managers : stamp[q] # 0 => stamp'[q] # 0  BY <1>3, <1>4
  <2>3. \A q \in Managers : prev'[q] # Nobody => stamp'[prev'[q]] # 0
    BY <1>1, <2>2 DEF OwnersStamped, ProcessesTyped
  <2>4. owner' # Nobody => stamp'[owner'] # 0
    BY <1>1, <2>2 DEF OwnersStamped, ProcessesTyped
  <2> QED  BY <2>1, <2>3, <2>4 DEF OwnersStamped
<1>8. PreviousGone'
  <2> SUFFICES ASSUME NEW q \in Managers, pc'[q] \in Waited, prev[q] # Nobody
               PROVE  pc'[prev[q]] \in Gone
    BY <1>1 DEF PreviousGone
  <2>1. pc[prev[q]] \in Gone /\ prev[q] \in Managers
    BY <1>2, <1>5 DEF PreviousGone, ProcessesTyped
  <2>2. prev[q] # p  BY <1>1, <1>5, <2>1
  <2> QED  BY <1>2, <2>1, <2>2
<1>9. InsideRedirects'  BY <1>1, <1>2, <1>5 DEF InsideRedirects, Waited
<1> QED  BY <1>6, <1>7, <1>8, <1>9

\* The owner is remembered, and the process goes on or gives up.
LEMMA GetSelectionOwnerInv ==
    ASSUME LInv, NEW p \in Managers, GetSelectionOwner(p)
    PROVE  LInv'
<1>1. CASE Exit(p, "failed")  BY <1>1, ExitInv DEF Gone
<1>2. CASE /\ Goto(p, "claiming") /\ prev' = [prev EXCEPT ![p] = owner]
           /\ UNCHANGED <<stamp, clock, owner, redirect>>
  <2> USE DEF LInv
  <2>1. pc' = [pc EXCEPT ![p] = "claiming"] /\ pc[p] = "stamped"
    BY <1>2 DEF Goto, GetSelectionOwner
  <2>2. \A q \in Managers : pc'[q] = IF q = p THEN "claiming" ELSE pc[q]
    BY <2>1 DEF ProcessesTyped
  <2>3. \A q \in Managers : prev'[q] = IF q = p THEN owner ELSE prev[q]
    BY <1>2 DEF ProcessesTyped
  <2>4. "claiming" \notin Waited /\ "stamped" \notin Gone /\ "claiming" \in Starting
        /\ "stamped" \in Stamped
    BY DEF Waited, Inside, Looping, Gone, Starting, Stamped
  <2>5. ProcessesTyped'
    <3>1. pc' \in [Managers -> Starting \cup Looping \cup Gone]  BY <2>1, <2>4 DEF ProcessesTyped
    <3>2. prev' \in [Managers -> Managers \cup {Nobody}]  BY <1>2 DEF ProcessesTyped
    <3> QED  BY <1>2, <3>1, <3>2 DEF ProcessesTyped
  <2>6. OwnersStamped'
    <3>1. \A q \in Managers : pc'[q] \in Stamped => stamp[q] # 0
      BY <2>1, <2>2, <2>4 DEF OwnersStamped
    <3>2. \A q \in Managers : prev'[q] # Nobody => stamp[prev'[q]] # 0
      BY <2>3 DEF OwnersStamped
    <3>3. owner # Nobody => stamp[owner] # 0  BY DEF OwnersStamped
    <3> QED  BY <1>2, <3>1, <3>2, <3>3 DEF OwnersStamped
  <2>7. PreviousGone'
    <3> SUFFICES ASSUME NEW q \in Managers, pc'[q] \in Waited, prev'[q] # Nobody
                 PROVE  pc'[prev'[q]] \in Gone
      BY DEF PreviousGone
    <3>1. q # p /\ prev'[q] = prev[q]  BY <2>2, <2>3, <2>4
    <3>2. pc[prev[q]] \in Gone /\ prev[q] \in Managers
      BY <2>2, <3>1 DEF PreviousGone, ProcessesTyped
    <3>3. prev[q] # p  BY <2>1, <2>4, <3>2
    <3> QED  BY <2>2, <3>1, <3>2, <3>3
  <2>8. InsideRedirects'  BY <1>2, <2>2, <2>4 DEF InsideRedirects, Waited
  <2> QED  BY <2>5, <2>6, <2>7, <2>8
<1> QED  BY <1>1, <1>2 DEF GetSelectionOwner

\* The selection changes hands, or does not; either way the process goes on.
LEMMA SetSelectionOwnerInv ==
    ASSUME LInv, NEW p \in Managers, SetSelectionOwner(p)
    PROVE  LInv'
<1> DEFINE there == IF prev[p] = Nobody THEN "announcing" ELSE "waiting"
<1>1. /\ Goto(p, there) /\ pc[p] = "claiming"
      /\ UNCHANGED <<prev, stamp, clock, redirect>> /\ (owner' = owner \/ owner' = p)
  BY DEF SetSelectionOwner
<1>2. /\ there \in Starting \cup Looping /\ there \notin Inside
      /\ there \in Waited => prev[p] = Nobody
  BY DEF Starting, Inside, Looping, Waited
<1>3. pc[p] \in Stamped /\ pc[p] \notin Gone  BY <1>1 DEF Stamped, Gone
<1>4. stamp[p] # 0  BY <1>3 DEF LInv, OwnersStamped
<1> HIDE DEF there
<1> QED  BY <1>1, <1>2, <1>3, <1>4, GotoInv

\* Past the wait the previous owner is gone.
LEMMA WaitForPreviousInv ==
    ASSUME LInv, NEW p \in Managers, WaitForPrevious(p)
    PROVE  LInv'
<1>1. CASE Exit(p, "failed")  BY <1>1, ExitInv DEF Gone
<1>2. CASE /\ UNCHANGED <<prev, stamp, clock, owner, redirect>>
           /\ pc[prev[p]] \in Gone /\ Goto(p, "announcing")
  <2>1. pc[p] \in Stamped  BY DEF WaitForPrevious, Stamped
  <2>2. "announcing" \in Stamped /\ "announcing" \notin Inside
    BY DEF Stamped, Waited, Inside, Looping
  <2> QED  BY <1>2, <2>1, <2>2, OnwardInv
<1>3. CASE UNCHANGED <<pc, prev, stamp, clock, owner, redirect>>  BY <1>3, KeepInv
<1> QED  BY <1>1, <1>2, <1>3 DEF WaitForPrevious

\* SubstructureRedirect is granted to one.
LEMMA RedirectInv ==
    ASSUME LInv, NEW p \in Managers, Redirect(p)
    PROVE  LInv'
<1>1. CASE Exit(p, "failed")  BY <1>1, ExitInv DEF Gone
<1>2. CASE /\ redirect = Nobody /\ redirect' = p /\ Goto(p, "loading")
           /\ UNCHANGED <<prev, stamp, clock, owner>>
  <2>1. pc[p] \in Stamped /\ pc[p] \in Waited  BY DEF Redirect, Stamped, Waited
  <2>2. "loading" \in Stamped  BY DEF Stamped, Waited, Inside
  <2> QED  BY <1>2, <2>1, <2>2, OnwardInv
<1> QED  BY <1>1, <1>2 DEF Redirect

\* The steps without a choice, from one place to the next.
LEMMA PlainStepInv ==
    ASSUME LInv, NEW p \in Managers, NEW there,
           \/ pc[p] = "announcing" /\ there = "redirecting"
           \/ pc[p] \in Inside /\ there \in Inside,
           Goto(p, there), UNCHANGED <<prev, stamp, clock, owner, redirect>>
    PROVE  LInv'
<1>1. "announcing" \in Waited /\ "redirecting" \in Waited /\ "redirecting" \notin Inside
  BY DEF Waited, Inside, Looping
<1>2. pc[p] \in Waited /\ there \in Waited /\ (there \in Inside => pc[p] \in Inside)
  BY <1>1 DEF Waited
<1>3. pc[p] \in Stamped /\ there \in Stamped  BY <1>2 DEF Stamped
<1> QED  BY <1>2, <1>3, OnwardInv

-----------------------------------------------------------------------------
(* Every step. *)

\* Every step of every process, and of the world, preserves the inductive invariant.
LEMMA LifeStepInv ==
    ASSUME LInv, [LifeNext]_lvars
    PROVE  LInv'
<1>1. ASSUME NEW p \in Managers, Step(p)  PROVE LInv'
  <2>1. CASE GetTimestamp(p)  BY <2>1, GetTimestampInv
  <2>2. CASE GetSelectionOwner(p)  BY <2>2, GetSelectionOwnerInv
  <2>3. CASE SetSelectionOwner(p)  BY <2>3, SetSelectionOwnerInv
  <2>4. CASE WaitForPrevious(p)  BY <2>4, WaitForPreviousInv
  <2>5. CASE Announce(p)  BY <2>5, PlainStepInv DEF Announce
  <2>6. CASE Redirect(p)  BY <2>6, RedirectInv
  <2>7. CASE LoadState(p)  BY <2>7, PlainStepInv DEF LoadState, Inside
  <2>8. CASE Start(p)  BY <2>8, PlainStepInv DEF Start, Inside, Looping
  <2>9. CASE TestRunning(p)
    <3>1. CASE Exit(p, "stopped")  BY <3>1, ExitInv DEF Gone
    <3>2. CASE Goto(p, "entering") /\ UNCHANGED <<prev, stamp, clock, owner, redirect>>
      BY <2>9, <3>2, PlainStepInv DEF TestRunning, Inside, Looping
    <3> QED  BY <2>9, <3>1, <3>2 DEF TestRunning
  <2>10. CASE Select(p)
    <3>1. UNCHANGED <<prev, stamp, clock, owner, redirect>>  BY <2>10 DEF Select
    <3>2. \/ pc[p] = "entering" /\ Goto(p, "blocked")
          \/ pc[p] = "blocked" /\ Goto(p, "polling")
      BY <2>10 DEF Select
    <3> QED  BY <3>1, <3>2, PlainStepInv DEF Inside, Looping
  <2>11. CASE Poll(p)
    <3>1. CASE Exit(p, "failed")  BY <3>1, ExitInv DEF Gone
    <3>2. CASE Goto(p, "testing") /\ UNCHANGED <<prev, stamp, clock, owner, redirect>>
      BY <2>11, <3>2, PlainStepInv DEF Poll, Inside, Looping
    <3>3. CASE UNCHANGED <<pc, prev, stamp, clock, owner, redirect>>  BY <3>3, KeepInv
    <3> QED  BY <2>11, <3>1, <3>2, <3>3 DEF Poll
  <2> QED
    BY <1>1, <2>1, <2>2, <2>3, <2>4, <2>5, <2>6, <2>7, <2>8, <2>9, <2>10, <2>11 DEF Step
<1>2. ASSUME NEW p \in Managers, Launch(p)  PROVE LInv'  BY <1>2, LaunchInv
<1>3. ASSUME NEW p \in Managers, SendOther(p)  PROVE LInv'  BY <1>3, KeepInv DEF SendOther
<1>4. ASSUME NEW p \in Managers, Signal(p)  PROVE LInv'
  <2>1. CASE Exit(p, "terminated")  BY <2>1, ExitInv DEF Gone
  <2>2. CASE /\ Goto(p, IF pc[p] = "blocked" THEN "polling" ELSE pc[p])
             /\ UNCHANGED <<prev, stamp, clock, owner, redirect>>
    <3>1. CASE pc[p] = "blocked"  BY <2>2, <3>1, PlainStepInv DEF Inside, Looping
    <3>2. CASE pc[p] # "blocked"
      <4>1. Goto(p, pc[p])  BY <2>2, <3>2
      <4>2. pc' = pc  BY <4>1 DEF Goto, LInv, ProcessesTyped
      <4> QED  BY <2>2, <4>2, KeepInv
    <3> QED  BY <3>1, <3>2
  <2> QED  BY <1>4, <2>1, <2>2 DEF Signal
<1>5. CASE UNCHANGED lvars  BY <1>5, KeepInv DEF lvars
<1> QED  BY <1>1, <1>2, <1>3, <1>4, <1>5 DEF LifeNext

\* The inductive invariant holds at every step of every behaviour.
THEOREM LifeInductive == LifeSpec => []LInv
<1>1. LifeInit => LInv
  <2> SUFFICES ASSUME LifeInit  PROVE LInv
    OBVIOUS
  <2>1. "not started" \in Gone /\ "not started" \notin Stamped
    BY DEF Gone, Stamped, Waited, Inside, Looping
  <2>2. ProcessesTyped  BY <2>1 DEF LifeInit, ProcessesTyped
  <2>3. OwnersStamped  BY <2>1 DEF LifeInit, OwnersStamped
  <2>4. PreviousGone  BY <2>1 DEF LifeInit, PreviousGone
  <2>5. InsideRedirects  BY <2>1 DEF LifeInit, InsideRedirects, Stamped, Waited
  <2> QED  BY <2>2, <2>3, <2>4, <2>5 DEF LInv
<1>2. LInv /\ [LifeNext]_lvars => LInv'  BY LifeStepInv
<1> QED  BY <1>1, <1>2, PTL DEF LifeSpec

\* Two window managers never manage the screen at once, however many are launched with
\* --replace at the same time and whoever owns the selection.
THEOREM NeverTwoManagers == LifeSpec => []OneManager
<1>1. LInv => OneManager
  <2> SUFFICES ASSUME LInv  PROVE OneManager
    OBVIOUS
  <2>1. Managing \subseteq {redirect}  BY DEF Managing, LInv, InsideRedirects, Inside
  <2>2. IsFiniteSet({redirect}) /\ Cardinality({redirect}) = 1  BY FS_Singleton
  <2>3. Cardinality(Managing) <= Cardinality({redirect})  BY <2>1, <2>2, FS_Subset
  <2> QED  BY <2>2, <2>3 DEF OneManager
<1> QED  BY <1>1, LifeInductive, PTL

\* A process that replaces another manages the screen only after the other has ended,
\* whatever the timeout and wherever the other was when it lost the selection.
THEOREM PreviousHasEnded == LifeSpec => []HandOver
<1>1. LInv => HandOver
  BY DEF LInv, PreviousGone, HandOver, Managing, Waited, Inside
<1> QED  BY <1>1, LifeInductive, PTL

-----------------------------------------------------------------------------
(* The types of the rest. *)

\* What LInv leaves out of the type invariant: the main loops, the queues, the counters.
RestTyped ==
    /\ checkTimes \in [Managers -> 0..CheckTimes]
    /\ running \subseteq {p \in Managers : pc[p] \in Looping}
    /\ socket \in [Managers -> SUBSET Events] /\ buffered \in [Managers -> SUBSET Events]
    /\ redirect \in Managers \cup {Nobody}
    /\ \A p \in Managers : stamp[p] \in 0..clock

\* A step of p that leaves the queues alone, or reads the socket.
LEMMA MoveTyped ==
    ASSUME LInv, RestTyped, NEW p \in Managers,
           NEW there, Goto(p, there) \/ (pc' = pc /\ there = pc[p]),
           pc[p] \in Looping => there \in Looping,
           running' \subseteq running \/ (running' = running \cup {p} /\ there \in Looping),
           UNCHANGED <<socket, buffered>> \/ RoundTrip(p),
           checkTimes' = checkTimes, redirect' \in {redirect, p},
           UNCHANGED <<stamp, clock>>
    PROVE  RestTyped'
<1>1. \A q \in Managers : pc'[q] = IF q = p THEN there ELSE pc[q]
  BY DEF Goto, LInv, ProcessesTyped
<1>2. running' \subseteq {q \in Managers : pc'[q] \in Looping}  BY <1>1 DEF RestTyped
<1>3. socket' \in [Managers -> SUBSET Events] /\ buffered' \in [Managers -> SUBSET Events]
  BY DEF RestTyped, RoundTrip
<1> QED  BY <1>2, <1>3 DEF RestTyped

\* The end of p.
LEMMA ExitTyped ==
    ASSUME LInv, RestTyped, NEW p \in Managers, NEW how, Exit(p, how)
    PROVE  RestTyped'
<1>1. \A q \in Managers : q # p => pc'[q] = pc[q]  BY DEF Exit, Goto, LInv, ProcessesTyped
<1>2. /\ running' = running \ {p} /\ UNCHANGED <<checkTimes, stamp, clock>>
      /\ redirect' \in {redirect, Nobody}
      /\ socket' = [socket EXCEPT ![p] = {}] /\ buffered' = [buffered EXCEPT ![p] = {}]
  BY DEF Exit
<1>3. running' \subseteq {q \in Managers : pc'[q] \in Looping}  BY <1>1, <1>2 DEF RestTyped
<1>4. socket' \in [Managers -> SUBSET Events] /\ buffered' \in [Managers -> SUBSET Events]
  BY <1>2 DEF RestTyped
<1> QED  BY <1>2, <1>3, <1>4 DEF RestTyped

\* No step of a process leaves the types.
LEMMA StepTyped ==
    ASSUME LInv, RestTyped, NEW p \in Managers, Step(p)
    PROVE  RestTyped'
<1>1. CASE GetTimestamp(p)
  <2>1. /\ pc' = [pc EXCEPT ![p] = "stamped"] /\ pc[p] = "start"
        /\ clock' = clock + 1 /\ stamp' = [stamp EXCEPT ![p] = clock + 1]
        /\ UNCHANGED <<checkTimes, running, socket, buffered, redirect>>
    BY <1>1 DEF GetTimestamp, Goto
  <2>2. clock \in Nat /\ stamp \in [Managers -> Nat]  BY DEF LInv, ProcessesTyped
  <2>3. \A q \in Managers : stamp'[q] \in 0..clock'  BY <2>1, <2>2 DEF RestTyped
  <2>4. "start" \notin Looping  BY DEF Looping
  <2>5. running' \subseteq {q \in Managers : pc'[q] \in Looping}
    BY <2>1, <2>4 DEF RestTyped, LInv, ProcessesTyped
  <2> QED  BY <2>1, <2>3, <2>5 DEF RestTyped
<1>2. CASE GetSelectionOwner(p)
  <2>1. \/ Exit(p, "failed")
        \/ /\ Goto(p, "claiming") /\ pc[p] \notin Looping
           /\ UNCHANGED <<checkTimes, stamp, running, socket, buffered, clock, redirect>>
    BY <1>2 DEF GetSelectionOwner, Looping
  <2> QED  BY <2>1, ExitTyped, MoveTyped
<1>3. CASE SetSelectionOwner(p)
  <2> DEFINE there == IF prev[p] = Nobody THEN "announcing" ELSE "waiting"
  <2>1. /\ Goto(p, there) /\ pc[p] = "claiming"
        /\ UNCHANGED <<checkTimes, stamp, running, buffered, clock, redirect>>
    BY <1>3 DEF SetSelectionOwner
  <2>2. socket' \in [Managers -> SUBSET Events]
    <3>1. CASE socket' = socket  BY <3>1 DEF RestTyped
    <3>2. CASE socket' = [q \in Managers |->
                             IF q = owner THEN socket[q] \cup {"SelectionClear"} ELSE socket[q]]
      <4>1. "SelectionClear" \in Events  BY DEF Events
      <4> QED  BY <3>2, <4>1 DEF RestTyped
    <3> QED  BY <1>3, <3>1, <3>2 DEF SetSelectionOwner
  <2>3. \A q \in Managers : q # p => pc'[q] = pc[q]  BY <2>1 DEF Goto, LInv, ProcessesTyped
  <2>4. p \notin running  BY <2>1 DEF RestTyped, Looping
  <2>5. running' \subseteq {q \in Managers : pc'[q] \in Looping}
    BY <2>1, <2>3, <2>4 DEF RestTyped
  <2> QED  BY <2>1, <2>2, <2>5 DEF RestTyped
<1>4. CASE WaitForPrevious(p)
  <2>1. CASE Exit(p, "failed")  BY <2>1, ExitTyped
  <2>2. CASE ~Exit(p, "failed")
    <3>1. /\ RoundTrip(p) /\ pc[p] = "waiting"
          /\ UNCHANGED <<stamp, running, clock, redirect>>
          /\ \/ Goto(p, "announcing") /\ UNCHANGED checkTimes
             \/ /\ checkTimes' = [checkTimes EXCEPT ![p] = @ - 1] /\ UNCHANGED pc
                /\ checkTimes[p] # 0
      BY <1>4, <2>2 DEF WaitForPrevious
    <3>2. CASE Goto(p, "announcing") /\ UNCHANGED checkTimes
      <4>1. pc[p] \notin Looping  BY <3>1 DEF Looping
      <4> QED  BY <3>1, <3>2, <4>1, MoveTyped
    <3>3. CASE /\ checkTimes' = [checkTimes EXCEPT ![p] = @ - 1] /\ UNCHANGED pc
               /\ checkTimes[p] # 0
      <4>1. checkTimes' \in [Managers -> 0..CheckTimes]
        BY <3>3, LifecycleAssumption DEF RestTyped
      <4>2. socket' \in [Managers -> SUBSET Events] /\ buffered' \in [Managers -> SUBSET Events]
        BY <3>1 DEF RestTyped, RoundTrip
      <4> QED  BY <3>1, <3>3, <4>1, <4>2 DEF RestTyped
    <3> QED  BY <3>1, <3>2, <3>3
  <2> QED  BY <2>1, <2>2
<1>5. CASE Announce(p) \/ Redirect(p) \/ LoadState(p)
  <2>1. \/ Exit(p, "failed")
        \/ /\ \E there : Goto(p, there)
           /\ pc[p] \notin Looping
           /\ UNCHANGED <<socket, buffered>> \/ RoundTrip(p)
           /\ UNCHANGED <<checkTimes, stamp, running, clock>> /\ redirect' \in {redirect, p}
    BY <1>5 DEF Announce, Redirect, LoadState, Looping
  <2> QED  BY <2>1, ExitTyped, MoveTyped
<1>6. CASE Start(p) \/ Select(p) \/ TestRunning(p)
  <2>1. \/ Exit(p, "stopped")
        \/ /\ \E there \in Looping : Goto(p, there)
           /\ running' \subseteq running \/ running' = running \cup {p}
           /\ UNCHANGED <<checkTimes, stamp, socket, buffered, clock, redirect>>
    BY <1>6 DEF Start, Select, TestRunning, Looping
  <2> QED  BY <2>1, ExitTyped, MoveTyped
<1>7. CASE Poll(p)
  <2>1. CASE Exit(p, "failed")  BY <2>1, ExitTyped
  <2>2. CASE Goto(p, "testing") /\ UNCHANGED <<running, socket, buffered, checkTimes, stamp, clock, redirect>>
    <3>1. "testing" \in Looping  BY DEF Looping
    <3> QED  BY <2>2, <3>1, MoveTyped
  <2>3. CASE \E e \in buffered[p] \cup socket[p] :
               /\ buffered' = [buffered EXCEPT ![p] = (@ \cup socket[p]) \ {e}]
               /\ socket' = [socket EXCEPT ![p] = {}]
               /\ running' = IF e = "SelectionClear" THEN running \ {p} ELSE running
               /\ UNCHANGED <<pc, checkTimes, stamp, clock, redirect>>
    <3>1. socket' \in [Managers -> SUBSET Events] /\ buffered' \in [Managers -> SUBSET Events]
      BY <2>3 DEF RestTyped
    <3>2. running' \subseteq running  BY <2>3
    <3> QED  BY <2>3, <3>1, <3>2 DEF RestTyped
  <2> QED  BY <1>7, <2>1, <2>2, <2>3 DEF Poll
<1> QED  BY <1>1, <1>2, <1>3, <1>4, <1>5, <1>6, <1>7 DEF Step

\* Nor does the world.
LEMMA RestStep ==
    ASSUME LInv, RestTyped, [LifeNext]_lvars
    PROVE  RestTyped'
<1>1. ASSUME NEW p \in Managers, Launch(p)  PROVE RestTyped'
  <2>1. Goto(p, "start") /\ pc[p] \notin Looping
        /\ UNCHANGED <<checkTimes, stamp, running, socket, buffered, clock, redirect>>
    BY <1>1 DEF Launch, Looping
  <2> QED  BY <2>1, MoveTyped
<1>2. ASSUME NEW p \in Managers, SendOther(p)  PROVE RestTyped'
  <2>1. /\ socket' = [socket EXCEPT ![p] = @ \cup {"other"}] /\ "other" \in Events
        /\ UNCHANGED <<pc, checkTimes, stamp, running, buffered, clock, redirect>>
    BY <1>2 DEF SendOther, Events
  <2>2. socket' \in [Managers -> SUBSET Events]  BY <2>1 DEF RestTyped
  <2> QED  BY <2>1, <2>2 DEF RestTyped
<1>3. ASSUME NEW p \in Managers, Signal(p)  PROVE RestTyped'
  <2>1. CASE Exit(p, "terminated")  BY <2>1, ExitTyped
  <2>2. CASE /\ running' = running \ {p}
             /\ Goto(p, IF pc[p] = "blocked" THEN "polling" ELSE pc[p])
             /\ UNCHANGED <<checkTimes, stamp, socket, buffered, clock, redirect>>
    <3> DEFINE there == IF pc[p] = "blocked" THEN "polling" ELSE pc[p]
    <3>1. pc[p] \in Looping => there \in Looping  BY DEF Looping
    <3>2. Goto(p, there)  BY <2>2
    <3> HIDE DEF there
    <3> QED  BY <2>2, <3>1, <3>2, MoveTyped
  <2> QED  BY <1>3, <2>1, <2>2 DEF Signal
<1>4. CASE UNCHANGED lvars  BY <1>4 DEF lvars, RestTyped
<1> QED  BY <1>1, <1>2, <1>3, <1>4, StepTyped DEF LifeNext

\* Whoever starts, ends or is told to, every process keeps its types: only one in the
\* main loop is running, and no timestamp is ahead of the server's clock.
THEOREM LifeTypeCorrect == LifeSpec => []LifeTypeOK
<1>1. LifeInit => RestTyped
  <2> SUFFICES ASSUME LifeInit  PROVE RestTyped  OBVIOUS
  <2>1. checkTimes \in [Managers -> 0..CheckTimes]
    <3>1. CheckTimes \in 0..CheckTimes  BY LifecycleAssumption
    <3> QED  BY <3>1 DEF LifeInit
  <2>2. socket \in [Managers -> SUBSET Events] /\ buffered \in [Managers -> SUBSET Events]
    BY DEF LifeInit
  <2>3. \A p \in Managers : stamp[p] \in 0..clock
    <3>1. 0 \in 0..0  OBVIOUS
    <3>2. clock = 0 /\ \A p \in Managers : stamp[p] = 0  BY DEF LifeInit
    <3> QED  BY <3>1, <3>2
  <2>4. running = {} /\ redirect = Nobody  BY DEF LifeInit
  <2> QED  BY <2>1, <2>2, <2>3, <2>4 DEF RestTyped
<1>2. LInv /\ RestTyped /\ [LifeNext]_lvars => RestTyped'  BY RestStep
<1>3. LInv /\ RestTyped => LifeTypeOK  BY DEF LInv, ProcessesTyped, RestTyped, LifeTypeOK
<1> QED  BY <1>1, <1>2, <1>3, LifeInductive, PTL DEF LifeSpec
=============================================================================
