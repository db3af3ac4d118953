---------------------------- MODULE ProtocolProofs ----------------------------
(***************************************************************************)
(* The window manager and the X server agree, for any windows, workspaces, *)
(* queues and bounds: the counts of ignored unmaps cover the manager's own *)
(* ones, only a client ends the management of its window, a restart loses  *)
(* none, and a pager reads what the manager has.                           *)
(*                                                                         *)
(* Three invariants carry this.  The save-set holds the managed windows    *)
(* whose clients want them.  The count of a window is compared with the    *)
(* events on their way: it covers the manager's own, and is smaller than   *)
(* the number of all as long as one of them has news.  The root window's   *)
(* properties are those of the state the handlers of Desktop keep.         *)
(***************************************************************************)
EXTENDS UnmapProtocol, DesktopProofs, FiniteSetTheorems

\* How often a sequence has an element of S.
Occ(q, S) == Cardinality({i \in DOMAIN q : q[i] \in S})

-----------------------------------------------------------------------------
(* Counting the elements of a sequence. *)

\* A count is a natural number.
LEMMA OccType ==
    ASSUME NEW T, NEW q \in Seq(T), NEW S
    PROVE  /\ IsFiniteSet({i \in DOMAIN q : q[i] \in S})
           /\ Occ(q, S) \in Nat
<1> DEFINE I == {i \in DOMAIN q : q[i] \in S}
<1>1. DOMAIN q = 1..Len(q) /\ Len(q) \in Nat  BY LenProperties
<1>2. IsFiniteSet(1..Len(q))  BY <1>1, FS_Interval
<1>3. I \in SUBSET (1..Len(q))  BY <1>1
<1> HIDE DEF I
<1>4. IsFiniteSet(I)  BY <1>2, <1>3, FS_Subset
<1>5. Cardinality(I) \in Nat  BY <1>4, FS_CardinalityType
<1> QED  BY <1>4, <1>5 DEF Occ, I

\* It is zero when there is none, and only then.
LEMMA OccNone ==
    ASSUME NEW T, NEW q \in Seq(T), NEW S
    PROVE  Occ(q, S) = 0 <=> \A i \in 1..Len(q) : q[i] \notin S
<1> DEFINE I == {i \in DOMAIN q : q[i] \in S}
<1>1. DOMAIN q = 1..Len(q)  BY LenProperties
<1>2. IsFiniteSet(I)  BY OccType
<1>3. I = {} <=> \A i \in 1..Len(q) : q[i] \notin S  BY <1>1
<1> HIDE DEF I
<1>4. Cardinality(I) = 0 <=> I = {}  BY <1>2, FS_EmptySet
<1> QED  BY <1>3, <1>4 DEF Occ, I

\* The empty sequence has no element.
LEMMA OccEmpty ==
    ASSUME NEW S
    PROVE  Occ(<<>>, S) = 0
<1>1. <<>> \in Seq({}) /\ Len(<<>>) = 0  OBVIOUS
<1>2. \A i \in 1..Len(<<>>) : <<>>[i] \notin S  BY <1>1
<1> QED  BY <1>1, <1>2, OccNone

\* A sequence of one element.
LEMMA OccOne ==
    ASSUME NEW S, NEW e
    PROVE  Occ(<<e>>, S) = IF e \in S THEN 1 ELSE 0
<1>1. DOMAIN <<e>> = {1} /\ <<e>>[1] = e  OBVIOUS
<1>2. {i \in DOMAIN <<e>> : <<e>>[i] \in S} = IF e \in S THEN {1} ELSE {}  BY <1>1
<1>3. Cardinality({1}) = 1 /\ Cardinality({}) = 0  BY FS_Singleton, FS_EmptySet
<1> QED  BY <1>2, <1>3 DEF Occ

\* The counts of two sequences add up in their concatenation.
LEMMA OccConcat ==
    ASSUME NEW T, NEW q \in Seq(T), NEW r \in Seq(T), NEW S
    PROVE  Occ(q \o r, S) = Occ(q, S) + Occ(r, S)
<1> DEFINE I == {i \in DOMAIN q : q[i] \in S}
           J == {i \in DOMAIN r : r[i] \in S}
           n == Len(q)
           K == {n + j : j \in J}
           f == [j \in J |-> n + j]
<1>1. /\ n \in Nat /\ DOMAIN q = 1..n
      /\ Len(r) \in Nat /\ DOMAIN r = 1..Len(r)
  BY LenProperties
<1>2. /\ q \o r \in Seq(T) /\ Len(q \o r) = n + Len(r)
      /\ \A i \in 1..n + Len(r) : (q \o r)[i] = IF i <= n THEN q[i] ELSE r[i - n]
  BY ConcatProperties
<1>3. DOMAIN (q \o r) = 1..n + Len(r)  BY <1>2, LenProperties
<1>4. {i \in DOMAIN (q \o r) : (q \o r)[i] \in S} = I \cup K
  <2>1. ASSUME NEW i \in DOMAIN (q \o r), (q \o r)[i] \in S  PROVE i \in I \cup K
    <3>1. CASE i <= n  BY <1>1, <1>2, <1>3, <2>1, <3>1
    <3>2. CASE i > n
      <4>1. i - n \in J  BY <1>1, <1>2, <1>3, <2>1, <3>2
      <4>2. i = n + (i - n)  BY <1>1, <1>3
      <4> QED  BY <4>1, <4>2
    <3> QED  BY <1>1, <1>3, <3>1, <3>2
  <2>2. ASSUME NEW i \in I  PROVE i \in DOMAIN (q \o r) /\ (q \o r)[i] \in S
    <3>1. i \in 1..n /\ i <= n /\ i \in 1..n + Len(r)  BY <1>1
    <3> QED  BY <1>2, <1>3, <3>1
  <2>3. ASSUME NEW j \in J  PROVE n + j \in DOMAIN (q \o r) /\ (q \o r)[n + j] \in S
    <3>1. j \in 1..Len(r) /\ ~(n + j <= n) /\ n + j \in 1..n + Len(r) /\ (n + j) - n = j  BY <1>1
    <3> QED  BY <1>2, <1>3, <3>1
  <2> QED  BY <2>1, <2>2, <2>3
<1>5. IsFiniteSet(I) /\ IsFiniteSet(J) /\ Cardinality(I) \in Nat /\ Cardinality(J) \in Nat
  BY OccType DEF Occ
<1>6. IsFiniteSet(K) /\ Cardinality(K) = Cardinality(J)
  <2>1. f \in Bijection(J, K)
    <3>1. f \in [J -> K]  OBVIOUS
    <3>2. \A i, j \in J : f[i] = f[j] => i = j  BY <1>1
    <3>3. \A k \in K : \E j \in J : f[j] = k  OBVIOUS
    <3> QED  BY <3>1, <3>2, <3>3 DEF Bijection, Injection, Surjection, IsInjective
  <2> HIDE DEF f, K, J
  <2>2. ExistsBijection(J, K)  BY <2>1 DEF ExistsBijection
  <2> QED  BY <2>2, <1>5, FS_Bijection
<1>7. I \cap K = {}  BY <1>1
<1>10. /\ Occ(q \o r, S) = Cardinality({i \in DOMAIN (q \o r) : (q \o r)[i] \in S})
       /\ Occ(q, S) = Cardinality(I) /\ Occ(r, S) = Cardinality(J)
  BY DEF Occ
<1> HIDE DEF I, J, K, f
<1>8. Cardinality(I \cup K) = Cardinality(I) + Cardinality(K) - Cardinality(I \cap K)
  BY <1>5, <1>6, FS_Union
<1>9. Cardinality(I \cap K) = 0  BY <1>7, FS_EmptySet
<1>11. Occ(q \o r, S) = Cardinality(I \cup K)  BY <1>4, <1>10
<1>12. Cardinality(I \cup K) = Cardinality(I) + Cardinality(J)  BY <1>5, <1>6, <1>8, <1>9
<1> QED  BY <1>10, <1>11, <1>12, Zenon

\* Taking the head off lowers the counts of the sets that have it.
LEMMA OccTail ==
    ASSUME NEW T, NEW q \in Seq(T), q # <<>>, NEW S
    PROVE  Occ(q, S) = Occ(Tail(q), S) + (IF Head(q) \in S THEN 1 ELSE 0)
<1> DEFINE h == <<Head(q)>>
           t == Tail(q)
<1>1. /\ Head(q) \in T /\ t \in Seq(T) /\ Len(t) = Len(q) - 1
      /\ \A i \in 1..Len(t) : t[i] = q[i + 1]
      /\ Head(q) = q[1] /\ Len(q) \in Nat /\ Len(q) >= 1
  BY HeadTailProperties, EmptySeq, LenProperties
<1>2. h \in Seq(T) /\ Len(h) = 1 /\ h[1] = q[1]  BY <1>1
<1> HIDE DEF h, t
<1>0. h \in Seq(T) /\ t \in Seq(T)  BY <1>1, <1>2
<1>8. /\ h \o t \in Seq(T) /\ Len(h \o t) = Len(h) + Len(t)
      /\ \A i \in 1..Len(h) + Len(t) : (h \o t)[i] = IF i <= Len(h) THEN h[i] ELSE t[i - Len(h)]
  BY <1>0, ConcatProperties
<1>3. /\ h \o t \in Seq(T) /\ Len(h \o t) = 1 + Len(t)
      /\ \A i \in 1..1 + Len(t) : (h \o t)[i] = IF i <= 1 THEN h[i] ELSE t[i - 1]
  BY <1>2, <1>8
<1>4. h \o t = q
  <2>1. Len(h \o t) = Len(q)  BY <1>1, <1>3
  <2>2. ASSUME NEW i \in 1..Len(h \o t)  PROVE (h \o t)[i] = q[i]
    <3>1. CASE i = 1  BY <3>1, <1>1, <1>2, <1>3
    <3>2. CASE i # 1
      <4>1. i - 1 \in 1..Len(t) /\ ~(i <= 1) /\ (i - 1) + 1 = i  BY <3>2, <1>1, <1>3
      <4>2. (h \o t)[i] = t[i - 1]  BY <4>1, <1>3
      <4>3. t[i - 1] = q[(i - 1) + 1]  BY <4>1, <1>1
      <4> QED  BY <4>1, <4>2, <4>3
    <3> QED  BY <3>1, <3>2
  <2> QED  BY <1>3, <2>1, <2>2, SeqEqual
<1>5. Occ(h \o t, S) = Occ(h, S) + Occ(t, S)  BY <1>1, <1>2, OccConcat
<1>6. Occ(h, S) = IF Head(q) \in S THEN 1 ELSE 0  BY OccOne DEF h
<1>7. Occ(t, S) \in Nat  BY <1>1, OccType
<1>9. Occ(q, S) = Occ(h, S) + Occ(t, S)  BY <1>4, <1>5
<1>10. Occ(q, S) = Occ(t, S) + (IF Head(q) \in S THEN 1 ELSE 0)  BY <1>6, <1>7, <1>9
<1> QED  BY <1>10 DEF t

\* A finite set made a sequence has each of its elements once.
LEMMA OccSetToSeq ==
    ASSUME NEW F, IsFiniteSet(F), NEW S
    PROVE  /\ SetToSeq(F) \in Seq(F)
           /\ Occ(SetToSeq(F), S) = Cardinality(F \cap S)
<1> DEFINE n == Cardinality(F)
           s == SetToSeq(F)
           I == {i \in DOMAIN s : s[i] \in S}
           f == [i \in I |-> s[i]]
<1>1. n \in Nat /\ \E g : g \in Bijection(1..n, F)
  BY FS_CardinalityType DEF ExistsBijection
<1>2. \E g \in [1..n -> F] : IsInjective(g)  BY <1>1 DEF Bijection, Injection
<1>3. s \in [1..n -> F] /\ IsInjective(s)  BY <1>2 DEF SetToSeq
<1> HIDE DEF s
<1>4. s \in Injection(1..n, F) /\ IsFiniteSet(1..n) /\ Cardinality(1..n) = n
  BY <1>1, <1>3, FS_Interval DEF Injection
<1>5. s \in Surjection(1..n, F)
  <2> HIDE DEF n
  <2> QED  BY <1>1, <1>4, FS_Injection DEF n
<1>6. s \in Seq(F)
  <2> HIDE DEF n
  <2> QED  BY <1>1, <1>3
<1>7. f \in Bijection(I, F \cap S)
  <2>1. f \in [I -> F \cap S]  BY <1>3
  <2>2. \A i, j \in I : f[i] = f[j] => i = j  BY <1>3 DEF IsInjective
  <2>3. ASSUME NEW x \in F \cap S  PROVE \E i \in I : f[i] = x
    <3>1. PICK i \in 1..n : s[i] = x  BY <1>5 DEF Surjection
    <3>2. i \in I  BY <3>1, <1>3
    <3> QED  BY <3>1, <3>2
  <2> QED  BY <2>1, <2>2, <2>3 DEF Bijection, Injection, Surjection, IsInjective
<1>8. IsFiniteSet(I)  BY <1>6, OccType
<1> HIDE DEF I, f
<1>9. ExistsBijection(I, F \cap S)  BY <1>7 DEF ExistsBijection
<1>10. Cardinality(F \cap S) = Cardinality(I)  BY <1>8, <1>9, FS_Bijection
<1> QED  BY <1>6, <1>10 DEF Occ, I, s
-----------------------------------------------------------------------------
(* The save-set: no restart loses a window. *)

\* The server has what it maps and saves.
ServerHas == mapped \subseteq alive /\ saved \subseteq alive

\* A managed window that is gone was destroyed by its client.
GoneWereAsked == managed \ alive \subseteq asked

\* The save-set covers the windows the next window manager is owed.
SaveSetCovers == (managed \cap alive) \ asked \subseteq saved

\* What is owed is mapped, from the end of one window manager to the start of the next.
OwedAreMapped ==
    /\ owed \subseteq mapped
    /\ status \notin {"gone", "loading"} => owed = {}

RInv == ServerHas /\ GoneWereAsked /\ SaveSetCovers /\ OwedAreMapped

-----------------------------------------------------------------------------
(* What the handlers of Desktop do to the managed windows and the status.  *)

\* Workspace::focus_window manages and unmanages no window.
LEMMA FocusKeepsManaged ==
    ASSUME NEW w, NEW ws, FocusWindow(w, ws)
    PROVE  managed' = managed
BY DEF FocusWindow, Abort

\* Nor does a switch of workspaces.
LEMMA SwitchKeepsManaged ==
    ASSUME NEW w, NEW ws, SwitchWorkspace(ws, w)
    PROVE  managed' = managed
BY DEF SwitchWorkspace, Abort

\* Nor do the switches, messages and events of focus.
LEMMA OthersKeepManaged ==
    ASSUME HandleOther
    PROVE  managed' = managed /\ Running
<1>1. ASSUME NEW ws, SwitchBinding(ws)  PROVE managed' = managed /\ Running
  BY <1>1, SwitchKeepsManaged DEF SwitchBinding, SwitchTo
<1>2. ASSUME NEW w, NetActiveWindow(w)  PROVE managed' = managed /\ Running
  BY <1>2, SwitchKeepsManaged, FocusKeepsManaged DEF NetActiveWindow
<1>3. ASSUME NEW w, FocusInWindow(w)  PROVE managed' = managed /\ Running
  BY <1>3, FocusKeepsManaged DEF FocusInWindow, TryFocusWindow
<1>4. ASSUME NEW w, NEW ws, NetWmDesktop(w, ws)  PROVE managed' = managed /\ Running
  BY <1>4 DEF NetWmDesktop
<1>5. ASSUME NEW w, NEW action, NetWmState(w, action)  PROVE managed' = managed /\ Running
  BY <1>5 DEF NetWmState
<1> QED  BY <1>1, <1>2, <1>3, <1>4, <1>5 DEF HandleOther

-----------------------------------------------------------------------------
(* The window manager's steps. *)

\* _on_unmap_notify: a window no longer managed leaves the save-set.
LEMMA UnmapInv ==
    ASSUME RInv, Running, NEW e, HandleUnmap(e)
    PROVE  RInv'
<1>1. managed' \subseteq managed /\ status' = status
  BY DEF HandleUnmap, UnmapNotify, UnmanageWindow, vars
<1>2. UNCHANGED <<alive, mapped, owed>> /\ asked' = asked \cap managed'
      /\ saved' = saved \ (managed \ managed')
  BY DEF HandleUnmap, Unsave
<1>3. ServerHas'  BY <1>2 DEF RInv, ServerHas
<1>4. GoneWereAsked'  BY <1>1, <1>2 DEF RInv, GoneWereAsked
<1>5. SaveSetCovers'  BY <1>1, <1>2 DEF RInv, SaveSetCovers
<1>6. OwedAreMapped'  BY <1>1, <1>2 DEF RInv, OwedAreMapped
<1> QED  BY <1>3, <1>4, <1>5, <1>6 DEF RInv

\* _on_map_request: a window newly managed exists, and joins the save-set.
LEMMA MapRequestInv ==
    ASSUME RInv, Running, NEW e, HandleMapRequest(e)
    PROVE  RInv'
<1> DEFINE w == e.window
<1>1. owed' = owed /\ alive' = alive /\ owed = {}
  BY DEF HandleMapRequest, RInv, OwedAreMapped, Running
<1>2. CASE w \notin managed
  <2>1. /\ managed' = managed \cup {w} /\ w \in alive
        /\ asked \subseteq asked'
        /\ mapped' = mapped \cup ({w} \cap alive) /\ saved' = saved \cup ({w} \cap alive)
    BY <1>2 DEF HandleMapRequest, ManageWindow, Adopt
  <2>2. ServerHas'  BY <1>1, <2>1 DEF RInv, ServerHas
  <2>3. GoneWereAsked'  BY <1>1, <2>1 DEF RInv, GoneWereAsked
  <2>4. SaveSetCovers'  BY <1>1, <2>1 DEF RInv, SaveSetCovers
  <2>5. OwedAreMapped'  BY <1>1, <2>1 DEF OwedAreMapped
  <2> QED  BY <2>2, <2>3, <2>4, <2>5 DEF RInv
<1>3. CASE w \in managed
  <2>1. /\ managed' = managed /\ UNCHANGED <<asked, saved>>
        /\ mapped' = mapped \/ mapped' = mapped \cup ({w} \cap alive)
    <3>1. ASSUME Home(w) # cur  PROVE managed' = managed /\ mapped' = mapped
      BY <1>3, <3>1 DEF HandleMapRequest, vars
    <3>2. ASSUME Home(w) = cur
          PROVE  managed' = managed /\ mapped' = mapped \cup ({w} \cap alive)
      BY <1>3, <3>2, FocusKeepsManaged DEF HandleMapRequest, RemapWindow
    <3>3. UNCHANGED <<asked, saved>>  BY <1>3 DEF HandleMapRequest
    <3> QED  BY <3>1, <3>2, <3>3
  <2>2. ServerHas'  BY <1>1, <2>1 DEF RInv, ServerHas
  <2>3. GoneWereAsked'  BY <1>1, <2>1 DEF RInv, GoneWereAsked
  <2>4. SaveSetCovers'  BY <1>1, <2>1 DEF RInv, SaveSetCovers
  <2>5. OwedAreMapped'  BY <1>1, <2>1 DEF OwedAreMapped
  <2> QED  BY <2>2, <2>3, <2>4, <2>5 DEF RInv
<1> QED  BY <1>2, <1>3

\* A MapRequest of a window that is gone ends the process, which keeps what it has.
LEMMA NoWindowInv ==
    ASSUME RInv, Running, NEW e, MapRequestOfNoWindow(e)
    PROVE  RInv'
<1>1. UNCHANGED <<managed, alive, mapped, saved, asked, owed>>
  BY DEF MapRequestOfNoWindow, Abort, xvars
<1>2. owed = {}  BY DEF RInv, OwedAreMapped, Running
<1> QED  BY <1>1, <1>2 DEF RInv, ServerHas, GoneWereAsked, SaveSetCovers, OwedAreMapped

\* Hiding and showing windows changes what is mapped, while nothing is owed.
LEMMA OtherInv ==
    ASSUME RInv, HandleOther
    PROVE  RInv'
<1>1. managed' = managed /\ Running  BY OthersKeepManaged
<1>2. /\ UNCHANGED <<alive, asked, saved, owed>>
      /\ mapped' = (mapped \ Hidden) \cup (Shown \cap alive)
  BY DEF HandleOther, UpdateState
<1>3. owed = {}  BY <1>1 DEF RInv, OwedAreMapped, Running
<1>4. ServerHas'  BY <1>2 DEF RInv, ServerHas
<1> QED  BY <1>1, <1>2, <1>3, <1>4 DEF RInv, GoneWereAsked, SaveSetCovers, OwedAreMapped

\* _NET_CLOSE_WINDOW: the window leaves the managed windows and the save-set.
LEMMA CloseInv ==
    ASSUME RInv, NEW w, CloseAskingTheClient(w) \/ CloseDestroying(w)
    PROVE  RInv'
<1>1. managed' = managed \ {w} /\ Running /\ asked' = asked \ {w} /\ owed' = owed
      /\ saved' = saved \ (managed \ managed') /\ w \in managed
  BY DEF CloseAskingTheClient, CloseDestroying, NetCloseWindow, UnmanageWindow, Unsave
<1>2. owed = {}  BY <1>1 DEF RInv, OwedAreMapped, Running
<1>3. \/ alive' = alive /\ mapped' = mapped
      \/ alive' = alive \ {w} /\ mapped' = mapped \ {w}
  BY DEF CloseAskingTheClient, CloseDestroying
<1>4. saved' = saved \ {w}  BY <1>1
<1>5. ServerHas'  BY <1>3, <1>4 DEF RInv, ServerHas
<1>6. GoneWereAsked'  BY <1>1, <1>3 DEF RInv, GoneWereAsked
<1>7. SaveSetCovers'  BY <1>1, <1>3, <1>4 DEF RInv, SaveSetCovers
<1>8. OwedAreMapped'  BY <1>1, <1>2 DEF OwedAreMapped
<1> QED  BY <1>5, <1>6, <1>7, <1>8 DEF RInv

\* load_all: a viewable window is managed and joins the save-set.
LEMMA LoadInv ==
    ASSUME RInv, NEW w, NEW ws, LoadMapped(w, ws)
    PROVE  RInv'
<1>1. /\ managed' = managed \cup {w} /\ w \in mapped /\ w \in alive
      /\ asked \subseteq asked' /\ status' = status
      /\ mapped' = mapped \cup ({w} \cap alive) /\ saved' = saved \cup ({w} \cap alive)
      /\ UNCHANGED <<alive, owed>>
  BY DEF LoadMapped, LoadWindow, Adopt, RInv, ServerHas
<1>2. ServerHas'  BY <1>1 DEF RInv, ServerHas
<1>3. GoneWereAsked'  BY <1>1 DEF RInv, GoneWereAsked
<1>4. SaveSetCovers'  BY <1>1 DEF RInv, SaveSetCovers
<1>5. OwedAreMapped'  BY <1>1 DEF RInv, OwedAreMapped
<1> QED  BY <1>2, <1>3, <1>4, <1>5 DEF RInv

-----------------------------------------------------------------------------
(* The end of the window manager. *)

\* CloseDown maps what is owed; the next window manager starts with nothing.
LEMMA EndInv ==
    ASSUME RInv, End
    PROVE  RInv'
<1>1. /\ managed' = {} /\ saved' = {} /\ asked' = {} /\ status' = "gone"
      /\ mapped' = mapped \cup saved /\ alive' = alive
      /\ owed' = owed \cup ((managed \cap alive) \ asked)
  BY DEF End, ForgetAll, CloseDown, Owing
<1>2. ServerHas'  BY <1>1 DEF RInv, ServerHas
<1>3. GoneWereAsked' /\ SaveSetCovers'  BY <1>1 DEF GoneWereAsked, SaveSetCovers
<1>4. owed' \subseteq mapped'  BY <1>1 DEF RInv, SaveSetCovers, OwedAreMapped
<1>5. OwedAreMapped'  BY <1>1, <1>4 DEF OwedAreMapped
<1> QED  BY <1>2, <1>3, <1>5 DEF RInv

\* So does a start that fails, for all windows but the one that was destroyed.
LEMMA FailedStartInv ==
    ASSUME RInv, NEW w, LoadDestroyed(w)
    PROVE  RInv'
<1>1. /\ managed' = {} /\ saved' = {} /\ asked' = {} /\ status' = "gone"
      /\ mapped' = (mapped \cup saved) \ {w} /\ alive' = alive \ {w}
      /\ owed' = (owed \cup ((managed \cap alive) \ asked)) \ {w}
  BY DEF LoadDestroyed, ForgetAll, Owing
<1>2. ServerHas'  BY <1>1 DEF RInv, ServerHas
<1>3. GoneWereAsked' /\ SaveSetCovers'  BY <1>1 DEF GoneWereAsked, SaveSetCovers
<1>4. owed' \subseteq mapped'  BY <1>1 DEF RInv, SaveSetCovers, OwedAreMapped
<1>5. OwedAreMapped'  BY <1>1, <1>4 DEF OwedAreMapped
<1> QED  BY <1>2, <1>3, <1>5 DEF RInv

-----------------------------------------------------------------------------
(* The clients' steps. *)

\* A client creates or maps a window.
LEMMA ClientAddsInv ==
    ASSUME RInv, NEW w, ClientCreate(w) \/ ClientMap(w)
    PROVE  RInv'
<1>1. UNCHANGED <<managed, status, saved, asked, owed>>
  BY DEF ClientCreate, ClientMap, ClientSends, vars
<1>2. \/ alive' = alive \cup {w} /\ w \notin alive /\ mapped' = mapped
      \/ alive' = alive /\ w \in alive /\ mapped \subseteq mapped' /\ mapped' \subseteq mapped \cup {w}
  BY DEF ClientCreate, ClientMap
<1>3. ServerHas'  BY <1>1, <1>2 DEF RInv, ServerHas
<1>4. GoneWereAsked'  BY <1>1, <1>2 DEF RInv, GoneWereAsked
<1>5. SaveSetCovers'  BY <1>1, <1>2 DEF RInv, SaveSetCovers, GoneWereAsked
<1>6. OwedAreMapped'  BY <1>1, <1>2 DEF RInv, OwedAreMapped
<1> QED  BY <1>3, <1>4, <1>5, <1>6 DEF RInv

\* A client withdraws or destroys a window.
LEMMA ClientEndsInv ==
    ASSUME RInv, NEW w, ClientWithdraw(w) \/ ClientUnmap(w) \/ ClientDestroy(w)
    PROVE  RInv'
<1>1. /\ UNCHANGED <<managed, status>>
      /\ mapped' = mapped \ {w} /\ asked' = asked \cup ({w} \cap managed) /\ owed' = owed \ {w}
  BY DEF ClientWithdraw, ClientUnmap, ClientDestroy, ClientSends, ClientEnds, vars
<1>2. \/ alive' = alive /\ saved' = saved
      \/ alive' = alive \ {w} /\ saved' = saved \ {w}
  BY DEF ClientWithdraw, ClientUnmap, ClientDestroy
<1>3. ServerHas'  BY <1>1, <1>2 DEF RInv, ServerHas
<1>4. GoneWereAsked'  BY <1>1, <1>2 DEF RInv, GoneWereAsked
<1>5. SaveSetCovers'  BY <1>1, <1>2 DEF RInv, SaveSetCovers
<1>6. OwedAreMapped'  BY <1>1 DEF RInv, OwedAreMapped
<1> QED  BY <1>3, <1>4, <1>5, <1>6 DEF RInv

-----------------------------------------------------------------------------
(* Every step. *)

\* The save-set covers what is owed after every step of server, clients and manager.
LEMMA ProtocolStepInv ==
    ASSUME RInv, [ProtocolNext]_protocolVars
    PROVE  RInv'
<1>1. ASSUME NEW w, NEW ws, LoadMapped(w, ws)  PROVE RInv'
  BY <1>1, LoadInv
<1>2. ASSUME NEW ws, LoadUnmapped(ws)  PROVE RInv'
  <2>1. UNCHANGED <<status, managed, alive, mapped, saved, asked, owed>>
    BY <1>2 DEF LoadUnmapped, LoadNothing, xvars
  <2> QED  BY <2>1 DEF RInv, ServerHas, GoneWereAsked, SaveSetCovers, OwedAreMapped
<1>3. CASE FinishLoad
  <2>1. UNCHANGED <<managed, alive, mapped, saved, asked>> /\ owed' = {}
    BY <1>3 DEF FinishLoad, FinishInit
  <2> QED  BY <2>1 DEF RInv, ServerHas, GoneWereAsked, SaveSetCovers, OwedAreMapped
<1>4. CASE HandleEvent
  <2>1. Running /\ \E e : HandleUnmap(e) \/ HandleMapRequest(e) \/ MapRequestOfNoWindow(e)
    BY <1>4 DEF HandleEvent
  <2> QED  BY <2>1, UnmapInv, MapRequestInv, NoWindowInv
<1>5. CASE HandleOther  BY <1>5, OtherInv
<1>6. CASE End  BY <1>6, EndInv
<1>7. CASE Relaunch
  <2>1. UNCHANGED <<managed, alive, mapped, saved, asked, owed>> /\ status' = "loading"
    BY <1>7 DEF Relaunch, xvars
  <2> QED  BY <2>1 DEF RInv, ServerHas, GoneWereAsked, SaveSetCovers, OwedAreMapped
<1>8. ASSUME NEW w, ClientCreate(w) \/ ClientMap(w)  PROVE RInv'
  BY <1>8, ClientAddsInv
<1>9. ASSUME NEW w, ClientWithdraw(w) \/ ClientUnmap(w) \/ ClientDestroy(w)  PROVE RInv'
  BY <1>9, ClientEndsInv
<1>10. ASSUME NEW w, CloseAskingTheClient(w) \/ CloseDestroying(w)  PROVE RInv'
  BY <1>10, CloseInv
<1>11. ASSUME NEW w, LoadDestroyed(w)  PROVE RInv'
  BY <1>11, FailedStartInv
<1>12. CASE UNCHANGED protocolVars
  <2>1. UNCHANGED <<status, managed, alive, mapped, saved, asked, owed>>
    BY <1>12 DEF protocolVars, vars, xvars
  <2> QED  BY <2>1 DEF RInv, ServerHas, GoneWereAsked, SaveSetCovers, OwedAreMapped
<1> QED
  BY <1>1, <1>2, <1>3, <1>4, <1>5, <1>6, <1>7, <1>8, <1>9, <1>10, <1>11, <1>12
     DEF ProtocolNext, ProtocolStep

\* The save-set invariant holds at every step of every behaviour.
THEOREM SaveSetInductive == ProtocolSpec => []RInv
<1>1. ProtocolInit => RInv
  BY DEF ProtocolInit, Init, RInv, ServerHas, GoneWereAsked, SaveSetCovers, OwedAreMapped
<1>2. RInv /\ [ProtocolNext]_protocolVars => RInv'  BY ProtocolStepInv
<1> QED  BY <1>1, <1>2, PTL DEF ProtocolSpec

\* Whenever a start finishes, however many ended or failed before it and whatever the
\* windows' states then, it manages every window that was managed and whose client has
\* not withdrawn or destroyed it.
THEOREM RestartLosesNothing == ProtocolSpec => RestartKeepsWindows
<1>1. RInv /\ [ProtocolNext]_protocolVars => [FinishLoad => owed \subseteq managed']_protocolVars
  <2> SUFFICES ASSUME RInv, FinishLoad  PROVE owed \subseteq managed'
    OBVIOUS
  <2>1. owed \subseteq mapped  BY DEF RInv, OwedAreMapped
  <2>2. mapped \subseteq managed /\ managed' = managed  BY DEF FinishLoad, FinishInit
  <2> QED  BY <2>1, <2>2
<1> QED  BY <1>1, SaveSetInductive, PTL DEF ProtocolSpec, RestartKeepsWindows
-----------------------------------------------------------------------------
(* What Desktop keeps, in the steps of the protocol. *)

\* The handler of the event at the head of the queue: its event, and its window.
LEMMA HeadOfQueue ==
    ASSUME queue \in Seq(Event), queue # <<>>
    PROVE  Head(queue) \in Event /\ Head(queue).window \in Windows
<1>1. Head(queue) \in Event  BY HeadTailProperties
<1> QED  BY <1>1 DEF Event

\* A step of the protocol is a step of Desktop, or changes nothing of it, or ends the
\* process, or starts it over.
LEMMA StepOfDesktop ==
    ASSUME CoreInv, ProtocolTypeOK, ProtocolStep
    PROVE  \/ Next /\ status \in {"loading", "running"}
           \/ UNCHANGED vars
           \/ Running /\ Abort("null attribute")
           \/ Blank' /\ status' = "gone" /\ netActive' = netActive
           \/ Relaunch
<1> DEFINE Goal == \/ Next /\ status \in {"loading", "running"}
                   \/ UNCHANGED vars
                   \/ Running /\ Abort("null attribute")
                   \/ Blank' /\ status' = "gone" /\ netActive' = netActive
                   \/ Relaunch
<1>1. ASSUME NEW w \in Windows, NEW ws \in Workspaces, LoadMapped(w, ws)  PROVE Goal
  BY <1>1 DEF LoadMapped, LoadWindow, Next
<1>2. ASSUME NEW ws \in Workspaces, LoadUnmapped(ws)  PROVE Goal
  BY <1>2 DEF LoadUnmapped, LoadNothing, Next
<1>3. ASSUME FinishLoad  PROVE Goal  BY <1>3 DEF FinishLoad, FinishInit, Next
<1>4. ASSUME HandleEvent  PROVE Goal
  <2> DEFINE e == Head(queue)
  <2>1. e.window \in Windows /\ Running  BY <1>4, HeadOfQueue DEF HandleEvent, ProtocolTypeOK
  <2>2. HandleUnmap(e) => Goal
    BY <2>1 DEF HandleUnmap, UnmapNotify, Running, Next
  <2>3. HandleMapRequest(e) => Goal
    BY <2>1 DEF HandleMapRequest, ManageWindow, RemapWindow, Running, Next, vars
  <2>4. MapRequestOfNoWindow(e) => Goal
    BY <2>1 DEF MapRequestOfNoWindow
  <2> QED  BY <1>4, <2>2, <2>3, <2>4 DEF HandleEvent
<1>5. ASSUME HandleOther  PROVE Goal
  <2>1. Running => status \in {"loading", "running"}  BY DEF Running
  <2>2. ASSUME NEW ws \in Workspaces, SwitchBinding(ws)  PROVE Goal
    BY <2>1, <2>2 DEF SwitchBinding, Next
  <2>3. ASSUME NEW w \in Windows, NetActiveWindow(w) \/ FocusInWindow(w)  PROVE Goal
    BY <2>1, <2>3 DEF NetActiveWindow, FocusInWindow, Next
  <2>4. ASSUME NEW w \in Windows, NEW ws \in Workspaces, NetWmDesktop(w, ws)  PROVE Goal
    BY <2>1, <2>4 DEF NetWmDesktop, Next
  <2>5. ASSUME NEW w \in Windows, NEW action \in {"remove", "add"}, NetWmState(w, action)  PROVE Goal
    BY <2>1, <2>5 DEF NetWmState, Next
  <2> QED  BY <1>5, <2>2, <2>3, <2>4, <2>5 DEF HandleOther
<1>6. ASSUME Relaunch  PROVE Goal  BY <1>6
<1>7. ForgetAll /\ status' = "gone" => Goal  BY DEF ForgetAll, Blank, CoreInv, StateOK
<1>8. ASSUME End  PROVE Goal  BY <1>7, <1>8 DEF End
<1>9. ASSUME NEW w \in Windows, LoadDestroyed(w)  PROVE Goal
  BY <1>7, <1>9 DEF LoadDestroyed
<1>10. ASSUME NEW w \in Windows, \/ ClientCreate(w) \/ ClientMap(w) \/ ClientWithdraw(w)
                                 \/ ClientUnmap(w) \/ ClientDestroy(w)
       PROVE  Goal
  BY <1>10 DEF ClientCreate, ClientMap, ClientWithdraw, ClientUnmap, ClientDestroy, ClientSends
<1>11. ASSUME NEW w \in Windows, CloseAskingTheClient(w) \/ CloseDestroying(w)  PROVE Goal
  BY <1>11 DEF CloseAskingTheClient, CloseDestroying, NetCloseWindow, Running, Next
<1>12. Restless \subseteq Windows  BY BoundsAssumption
<1> HIDE DEF Goal
<1>13. ASSUME NEW w \in Restless, \/ ClientCreate(w) \/ ClientMap(w) \/ ClientWithdraw(w)
                                  \/ ClientUnmap(w) \/ ClientDestroy(w)
                                  \/ CloseAskingTheClient(w) \/ CloseDestroying(w)
                                  \/ LoadDestroyed(w)
       PROVE  Goal
  <2>1. w \in Windows  BY <1>12
  <2> QED  BY <1>9, <1>10, <1>11, <1>13, <2>1
<1>14. Goal  BY <1>1, <1>2, <1>3, <1>4, <1>5, <1>6, <1>8, <1>13 DEF ProtocolStep
<1> QED  BY <1>14 DEF Goal

\* The lists, the focus and the states are as Desktop keeps them, ends and starts included.
LEMMA CoreStep ==
    ASSUME CoreInv, ProtocolTypeOK, [ProtocolNext]_protocolVars
    PROVE  /\ CoreInv'
           /\ status' \in {"loading", "running", "gone", "null attribute"} \cup AssertFailures
           /\ ActiveIsFocused /\ status' # "gone" => ActiveIsFocused'
<1> DEFINE Goal == /\ CoreInv'
                   /\ status' \in {"loading", "running", "gone", "null attribute"} \cup AssertFailures
                   /\ ActiveIsFocused /\ status' # "gone" => ActiveIsFocused'
<1>1. ASSUME [Next]_vars /\ (UNCHANGED vars \/ status \in {"loading", "running"})  PROVE Goal
  <2>1. Kept  BY <1>1, CoreKept
  <2>2. CASE UNCHANGED vars  BY <2>1, <2>2 DEF Kept, vars, ProtocolTypeOK
  <2>3. CASE status \in {"loading", "running"}
    <3>1. TypeOK  BY <2>3 DEF CoreInv, TypeOK
    <3> QED  BY <1>1, <2>1, <3>1, StatusKept DEF Kept
  <2> QED  BY <1>1, <2>2, <2>3
<1>2. ASSUME Abort("null attribute")  PROVE Goal
  <2>1. Kept  BY <1>2, AbortInv
  <2> QED  BY <1>2, <2>1 DEF Kept, Abort
<1>3. ASSUME Blank' /\ status' = "gone"  PROVE Goal
  <2>1. Blank' => CoreInv'  BY BlankInv, PTL
  <2> QED  BY <1>3, <2>1
<1>4. ASSUME Relaunch  PROVE Goal
  <2> USE <1>4 DEF Relaunch
  <2>1. StateOK'  BY DEF CoreInv, StateOK
  <2>2. OneHome'  BY DEF CoreInv, OneHome
  <2>3. OnlyFrontFocused'  BY DEF CoreInv, OnlyFrontFocused, IsCurrentWindow
  <2>4. OneWorkspaceFocused'  BY DEF CoreInv, OneWorkspaceFocused
  <2>5. CurrentWorkspaceShown' /\ UnmanagedNormal'  BY DEF CoreInv, CurrentWorkspaceShown, UnmanagedNormal
  <2>6. ActiveIsFocused => ActiveIsFocused'  BY DEF ActiveIsFocused
  <2> QED  BY <2>1, <2>2, <2>3, <2>4, <2>5, <2>6 DEF CoreInv
<1>5. UNCHANGED protocolVars => UNCHANGED vars  BY DEF protocolVars
<1> HIDE DEF Goal
<1>6. ASSUME UNCHANGED vars  PROVE Goal  BY <1>1, <1>6
<1>7. ASSUME ProtocolStep  PROVE Goal
  <2>1. CASE Next /\ status \in {"loading", "running"}  BY <1>1, <2>1
  <2> QED  BY <1>2, <1>3, <1>4, <1>6, <1>7, <2>1, StepOfDesktop
<1>8. Goal  BY <1>5, <1>6, <1>7 DEF ProtocolNext
<1> QED  BY <1>8 DEF Goal

-----------------------------------------------------------------------------
(* The properties of the root window. *)

\* While the window manager runs, what pagers read is what it has.
Told == Running => /\ netClients = managed /\ netDesktops = exists /\ netDesktop = cur
                   /\ ActiveIsFocused

\* A handler that changes the current workspace announces it.
LEMMA DesktopAnnounced ==
    ASSUME Next, Running, netDesktop = cur
    PROVE  netDesktop' = cur'
<1> DEFINE Goal == netDesktop' = cur'
<1>1. ASSUME NEW w, NEW ws, FocusWindow(w, ws)  PROVE Goal
  BY <1>1 DEF FocusWindow, Abort, shown
<1>2. ASSUME NEW w, NEW ws, SwitchWorkspace(ws, w)  PROVE Goal
  BY <1>2 DEF SwitchWorkspace, AnnounceDesktop, Abort
<1>3. ASSUME NEW w, NEW ws, LoadWindow(w, ws) \/ NetWmDesktop(w, ws)  PROVE Goal
  BY <1>3 DEF LoadWindow, NetWmDesktop, shown
<1>4. ASSUME NEW ws, LoadNothing(ws) \/ SwitchBinding(ws) \/ NetCurrentDesktop(ws)  PROVE Goal
  BY <1>2, <1>4 DEF LoadNothing, SwitchBinding, NetCurrentDesktop, SwitchTo, shown
<1>5. FinishInit \/ FocusInRoot => Goal
  BY <1>1 DEF FinishInit, FocusInRoot, Running
<1>6. ASSUME NEW w, \/ ManageWindow(w) \/ RemapWindow(w) \/ UnmapNotify(w) \/ FocusInWindow(w)
                    \/ MoveFocus(w) \/ NetActiveWindow(w) \/ NetCloseWindow(w)
      PROVE  Goal
  BY <1>6, <1>1, <1>2 DEF ManageWindow, RemapWindow, UnmapNotify, FocusInWindow, TryFocusWindow,
     MoveFocus, NetActiveWindow, NetCloseWindow, UnmanageWindow, shown
<1>7. ASSUME NEW w, NEW action, NetWmState(w, action)  PROVE Goal
  BY <1>7 DEF NetWmState, shown
<1> HIDE DEF Goal
<1>8. Goal  BY <1>3, <1>4, <1>5, <1>6, <1>7 DEF Next
<1> QED  BY <1>8 DEF Goal

\* Only the end of State::init starts the event loop.
LEMMA StartOfTheLoop ==
    ASSUME CoreInv, ProtocolTypeOK, ProtocolStep, Running'
    PROVE  Running \/ FinishInit
<1>1. CASE Next /\ status = "loading"
  <2>1. ASSUME NEW w, NEW ws, LoadWindow(w, ws)  PROVE FALSE
    BY <1>1, <2>1 DEF LoadWindow, Running
  <2>2. ASSUME NEW ws, LoadNothing(ws)  PROVE FALSE
    BY <1>1, <2>2 DEF LoadNothing, Running
  <2>3. FinishInit
    BY <1>1, <2>1, <2>2 DEF Next, NetWmDesktop, SwitchBinding, NetCurrentDesktop, FocusInRoot,
       ManageWindow, RemapWindow, UnmapNotify, FocusInWindow, MoveFocus, NetActiveWindow,
       NetCloseWindow, NetWmState, Running
  <2> QED  BY <2>3
<1>2. CASE UNCHANGED vars  BY <1>2 DEF vars, Running
<1>3. CASE Relaunch  BY <1>3 DEF Relaunch, Running
<1> QED  BY <1>1, <1>2, <1>3, StepOfDesktop DEF Running

\* The observers run in the step that changes a manager, and once when they are connected.
LEMMA ToldStep ==
    ASSUME CoreInv, ProtocolTypeOK, Told, [ProtocolNext]_protocolVars
    PROVE  Told'
<1>1. CASE UNCHANGED protocolVars
  BY <1>1 DEF protocolVars, vars, ewmhVars, Told, Running, ActiveIsFocused
<1>2. CASE ProtocolNext
  <2> SUFFICES ASSUME Running'
               PROVE  /\ netClients' = managed' /\ netDesktops' = exists' /\ netDesktop' = cur'
                      /\ ActiveIsFocused'
    BY DEF Told
  <2>1. Running \/ FinishInit  BY <1>2, StartOfTheLoop DEF ProtocolNext
  <2>2. CASE Running
    <3>1. netClients' = managed' /\ netDesktops' = exists'
      BY <1>2, <2>2 DEF ProtocolNext, UpdateEwmh, Notified, Told
    <3>2. ActiveIsFocused'
      BY <2>2, CoreStep DEF Told, Running
    <3>3. netDesktop' = cur'
      BY <1>2, <2>2, DesktopAnnounced, StepOfDesktop DEF ProtocolNext, Told, Running, vars, Abort, Relaunch
    <3> QED  BY <3>1, <3>2, <3>3
  <2>3. CASE FinishInit
    <3>1. netClients' = managed' /\ netDesktops' = exists'
      BY <1>2, <2>3 DEF ProtocolNext, UpdateEwmh, Notified, Connect, FinishInit
    <3> QED  BY <2>3, <3>1 DEF FinishInit, AnnounceDesktop, ActiveIsFocused
  <2> QED  BY <2>1, <2>2, <2>3
<1> QED  BY <1>1, <1>2

-----------------------------------------------------------------------------
(* The counts. *)

\* What tells the manager that w has left: the event of its own unmap, and any other.
Own(w) == Ev("UnmapNotify", w, "hide")
Departures(w) == {e \in Event : e.window = w /\ e.kind # "MapRequest"}
Others(w) == Departures(w) \ {Own(w)}

\* How many of them a queue has.
Counts(q, w) == <<Occ(q, {Own(w)}), Occ(q, Others(w)), Occ(q, Departures(w))>>

\* Only the manager's own unmaps of w are on their way, and all of them are counted.
Covered(w) == Occ(queue, Others(w)) = 0 /\ Occ(queue, {Own(w)}) <= ignored[w]

\* w exists and is on the screen or not as its state says.
Agrees(w) ==
    /\ w \in alive
    /\ wstate[w] = "Normal" => w \in mapped
    /\ wstate[w] = "Minimized" => w \notin mapped

\* No count outlives the events it is for, and when the state of w is not what the
\* server has, there is an event more than the count swallows.
Balanced(w) ==
    /\ ignored[w] <= Occ(queue, Departures(w))
    /\ Agrees(w) \/ ignored[w] < Occ(queue, Departures(w))
    /\ w \in alive => w \in selected

CountInv ==
    /\ \A w \in managed \ asked : Covered(w)
    /\ \A w \in managed \ spare : Balanced(w)
    /\ \A w \in Windows \ (managed \cup spare) : ignored[w] = 0

\* When the process has ended there is nothing to count.
Ended == status = "gone" => managed = {} /\ queue = <<>>

CInv == CoreInv /\ ProtocolTypeOK /\ IsFiniteSet(managed) /\ Ended /\ CountInv

\* What an action keeps besides.
Sound ==
    /\ mapped \subseteq alive /\ alive \subseteq Windows /\ selected \subseteq alive
    /\ saved \subseteq alive
    /\ queue \in Seq(Event)
    /\ ignored \in [Windows -> 0..MaxIgnored]
    /\ IsFiniteSet(managed)
    /\ Ended

\* Nothing that bears on the count of w changes.
Untouched(w) ==
    /\ Counts(queue', w) = Counts(queue, w)
    /\ ignored'[w] = ignored[w] /\ wstate'[w] = wstate[w]
    /\ w \in managed' <=> w \in managed
    /\ w \in asked \cap managed => w \in asked'
    /\ w \in spare => w \in spare'
    /\ w \in alive' <=> w \in alive
    /\ w \in mapped' <=> w \in mapped
    /\ w \in selected' <=> w \in selected

\* The part of CountInv about one window.
CountOf(w) ==
    /\ w \in managed \ asked => Covered(w)
    /\ w \in managed \ spare => Balanced(w)
    /\ w \notin managed \cup spare => ignored[w] = 0

\* The invariant, window by window.
LEMMA CountByWindow ==
    ASSUME managed \subseteq Windows, CountInv, NEW w \in Windows
    PROVE  CountOf(w)
BY DEF CountInv, CountOf

\* So it is after a step.
LEMMA CountByWindowNext ==
    ASSUME managed' \subseteq Windows, \A w \in Windows : CountOf(w)'
    PROVE  CountInv'
BY DEF CountInv, CountOf

\* A window untouched has its count as it had.
LEMMA UntouchedCount ==
    ASSUME NEW v \in Windows, CountOf(v), Untouched(v)
    PROVE  CountOf(v)'
<1>1. /\ Occ(queue', {Own(v)}) = Occ(queue, {Own(v)})
      /\ Occ(queue', Others(v)) = Occ(queue, Others(v))
      /\ Occ(queue', Departures(v)) = Occ(queue, Departures(v))
  BY DEF Untouched, Counts
<1>2. ASSUME v \in managed' \ asked'  PROVE Covered(v)'
  <2>1. Covered(v)  BY <1>2 DEF CountOf, Untouched
  <2> QED  BY <1>1, <2>1 DEF Covered, Untouched
<1>3. ASSUME v \in managed' \ spare'  PROVE Balanced(v)'
  <2>1. Balanced(v)  BY <1>3 DEF CountOf, Untouched
  <2>2. Agrees(v) => Agrees(v)'  BY DEF Agrees, Untouched
  <2> QED  BY <1>1, <2>1, <2>2 DEF Balanced, Untouched
<1>4. ASSUME v \notin managed' \cup spare'  PROVE ignored'[v] = 0
  BY <1>4 DEF CountOf, Untouched
<1> QED  BY <1>2, <1>3, <1>4 DEF CountOf

-----------------------------------------------------------------------------
(* What a queue counts when events join and leave it. *)

\* The own unmap of a window is one of its departures, and of no other window's.
LEMMA OwnEvents ==
    ASSUME NEW w \in Windows
    PROVE  /\ Own(w) \in Departures(w) /\ Own(w) \in Event
           /\ \A v \in Windows : v # w => Own(w) \notin Departures(v)
           /\ Departures(w) = {Own(w)} \cup Others(w)
BY DEF Own, Departures, Others, Ev, Event, Kinds, Origins

\* Counts are natural numbers.
LEMMA CountsType ==
    ASSUME NEW q \in Seq(Event), NEW w
    PROVE  /\ Occ(q, {Own(w)}) \in Nat
           /\ Occ(q, Others(w)) \in Nat
           /\ Occ(q, Departures(w)) \in Nat
BY OccType

\* Events that tell of no departure of v leave its counts alone.
LEMMA UnrelatedEvents ==
    ASSUME NEW q \in Seq(Event), NEW r \in Seq(Event), NEW v \in Windows,
           Occ(r, Departures(v)) = 0
    PROVE  Counts(q \o r, v) = Counts(q, v)
<1>1. ASSUME NEW S \in SUBSET Departures(v)  PROVE Occ(q \o r, S) = Occ(q, S)
  <2>1. Occ(r, S) = 0  BY OccNone
  <2>2. Occ(q \o r, S) = Occ(q, S) + Occ(r, S) /\ Occ(q, S) \in Nat  BY OccConcat, OccType
  <2> QED  BY <2>1, <2>2
<1>2. {Own(v)} \in SUBSET Departures(v) /\ Others(v) \in SUBSET Departures(v)
  BY OwnEvents DEF Others
<1> QED  BY <1>1, <1>2 DEF Counts

\* An event at the head of the queue that tells of no departure of v.
LEMMA UnrelatedHead ==
    ASSUME NEW q \in Seq(Event), q # <<>>, NEW v \in Windows, Head(q) \notin Departures(v)
    PROVE  Counts(Tail(q), v) = Counts(q, v)
<1>0. Tail(q) \in Seq(Event)  BY HeadTailProperties
<1>1. ASSUME NEW S \in SUBSET Departures(v)  PROVE Occ(Tail(q), S) = Occ(q, S)
  <2>1. Occ(q, S) = Occ(Tail(q), S) + (IF Head(q) \in S THEN 1 ELSE 0)  BY OccTail
  <2>2. Occ(Tail(q), S) \in Nat  BY <1>0, OccType
  <2> QED  BY <2>1, <2>2
<1>2. {Own(v)} \in SUBSET Departures(v) /\ Others(v) \in SUBSET Departures(v)
  BY OwnEvents DEF Others
<1> QED  BY <1>1, <1>2 DEF Counts

\* A departure that joins a queue raises the count of departures.
LEMMA DepartureJoins ==
    ASSUME NEW q \in Seq(Event), NEW r \in Seq(Event), NEW w \in Windows,
           Occ(r, Departures(w)) # 0
    PROVE  /\ Occ(q \o r, Departures(w)) \in Nat /\ Occ(q, Departures(w)) \in Nat
           /\ Occ(q, Departures(w)) < Occ(q \o r, Departures(w))
<1>1. Occ(q \o r, Departures(w)) = Occ(q, Departures(w)) + Occ(r, Departures(w))  BY OccConcat
<1>2. Occ(r, Departures(w)) \in Nat /\ Occ(q, Departures(w)) \in Nat  BY OccType
<1> QED  BY <1>1, <1>2

\* A departure that leaves it lowers that count by one, and one of the two others.
LEMMA DepartureLeaves ==
    ASSUME NEW q \in Seq(Event), q # <<>>, NEW w \in Windows, Head(q) \in Departures(w)
    PROVE  /\ Tail(q) \in Seq(Event)
           /\ Occ(Tail(q), Departures(w)) = Occ(q, Departures(w)) - 1
           /\ \/ /\ Occ(Tail(q), {Own(w)}) = Occ(q, {Own(w)}) - 1
                 /\ Occ(Tail(q), Others(w)) = Occ(q, Others(w))
              \/ Occ(q, Others(w)) > 0
<1>0. Tail(q) \in Seq(Event)  BY HeadTailProperties
<1>1. /\ Occ(Tail(q), Departures(w)) \in Nat
      /\ Occ(Tail(q), Others(w)) \in Nat
      /\ Occ(Tail(q), {Own(w)}) \in Nat
  BY <1>0, CountsType
<1>2. Occ(Tail(q), Departures(w)) = Occ(q, Departures(w)) - 1
  <2>1. Occ(q, Departures(w)) = Occ(Tail(q), Departures(w)) + 1  BY OccTail
  <2> QED  BY <1>1, <2>1
<1>3. CASE Head(q) = Own(w)
  <2>1. Occ(q, {Own(w)}) = Occ(Tail(q), {Own(w)}) + 1  BY <1>3, OccTail
  <2>2. Head(q) \notin Others(w)  BY <1>3 DEF Others
  <2>3. Occ(q, Others(w)) = Occ(Tail(q), Others(w)) + 0  BY <2>2, OccTail
  <2> QED  BY <1>0, <1>1, <1>2, <1>3, <2>1, <2>3
<1>4. CASE Head(q) # Own(w)
  <2>1. Head(q) \in Others(w)  BY <1>4 DEF Others
  <2>2. Occ(q, Others(w)) = Occ(Tail(q), Others(w)) + 1  BY <2>1, OccTail
  <2> QED  BY <1>0, <1>1, <1>2, <2>2
<1> QED  BY <1>3, <1>4

-----------------------------------------------------------------------------
(* The window manager's steps. *)

\* What the lemmas below start from.
LEMMA CInvFacts ==
    ASSUME CInv
    PROVE  /\ Sound /\ managed \subseteq Windows
           /\ wstate \in [Windows -> States]
           /\ \A w \in Windows : CountOf(w) /\ ignored[w] \in Nat
<1>1. managed \subseteq Windows /\ wstate \in [Windows -> States]  BY DEF CInv, CoreInv, StateOK
<1>2. \A w \in Windows : CountOf(w)  BY <1>1, CountByWindow DEF CInv
<1>3. \A w \in Windows : ignored[w] \in Nat
  <2>1. ignored \in [Windows -> 0..MaxIgnored]  BY DEF CInv, ProtocolTypeOK
  <2>2. 0..MaxIgnored \subseteq Nat  BY BoundsAssumption
  <2> QED  BY <2>1, <2>2
<1> QED  BY <1>1, <1>2, <1>3 DEF CInv, ProtocolTypeOK, Sound

\* An UnmapNotify or DestroyNotify leaves the queue, and its window the managed ones
\* unless the count says that the manager unmapped it.
LEMMA UnmapCounts ==
    ASSUME CInv, Running, queue # <<>>,
           NEW e, e = Head(queue), NEW w, w = e.window, HandleUnmap(e)
    PROVE  Sound' /\ CountInv'
<1>1. /\ Sound /\ managed \subseteq Windows /\ wstate \in [Windows -> States]
      /\ \A v \in Windows : CountOf(v) /\ ignored[v] \in Nat
      /\ queue \in Seq(Event) /\ ignored \in [Windows -> 0..MaxIgnored]
  BY CInvFacts DEF Sound
<1>2. e \in Event /\ w \in Windows  BY <1>1, HeadOfQueue
<1>3. /\ queue' = Tail(queue) /\ asked' = asked \cap managed' /\ saved' \subseteq saved
      /\ UNCHANGED <<alive, mapped, selected, spare>>
  BY DEF HandleUnmap, Unsave
<1>4. e \in Departures(w)  BY <1>2 DEF HandleUnmap, Departures
<1>5. \A v \in Windows : v # w => e \notin Departures(v)  BY <1>2 DEF Departures
<1>6. Tail(queue) \in Seq(Event)  BY <1>1, HeadTailProperties
<1>7. \/ w \notin managed /\ UNCHANGED <<managed, wstate, ignored, status>>
      \/ w \in managed /\ ignored[w] > 0 /\ ignored' = [ignored EXCEPT ![w] = @ - 1]
                       /\ UNCHANGED <<managed, wstate, status>>
      \/ /\ w \in managed /\ ~(ignored[w] > 0) /\ managed' = managed \ {w} /\ ignored' = ignored
         /\ wstate' = [wstate EXCEPT ![w] = "Normal"] /\ status' = status
  BY DEF HandleUnmap, IsUnmapIgnored, UnmapNotify, UnmanageWindow, vars
<1>8. managed' \subseteq managed  BY <1>7
<1>9. Sound'
  <2>1. ignored' \in [Windows -> 0..MaxIgnored]  BY <1>1, <1>2, <1>7, BoundsAssumption
  <2>2. IsFiniteSet(managed')  BY <1>1, <1>8, FS_Subset DEF Sound
  <2>3. Ended'  BY <1>7 DEF Running, Ended
  <2> QED  BY <1>1, <1>3, <1>6, <2>1, <2>2, <2>3 DEF Sound
<1>10. ASSUME NEW v \in Windows, v # w  PROVE CountOf(v)'
  <2>1. Counts(queue', v) = Counts(queue, v)
    BY <1>1, <1>3, <1>5, <1>10, UnrelatedHead
  <2>2. ignored'[v] = ignored[v] /\ wstate'[v] = wstate[v] /\ (v \in managed' <=> v \in managed)
    BY <1>1, <1>7, <1>10
  <2>3. Untouched(v)  BY <1>3, <2>1, <2>2 DEF Untouched
  <2> QED  BY <1>1, <2>3, UntouchedCount
<1>11. CountOf(w)'
  <2>1. CASE w \notin managed
    BY <1>1, <1>2, <1>3, <1>7, <2>1 DEF CountOf
  <2>2. CASE w \in managed /\ ~(ignored[w] > 0)
    BY <1>1, <1>2, <1>7, <2>2 DEF CountOf
  <2>3. CASE w \in managed /\ ignored[w] > 0
    <3>1. ignored[w] \in Nat /\ ignored'[w] = ignored[w] - 1 /\ managed' = managed /\ wstate' = wstate
      BY <1>1, <1>2, <1>7, <2>3
    <3>2. /\ Occ(queue', Departures(w)) = Occ(queue, Departures(w)) - 1
          /\ \/ /\ Occ(queue', {Own(w)}) = Occ(queue, {Own(w)}) - 1
                /\ Occ(queue', Others(w)) = Occ(queue, Others(w))
             \/ Occ(queue, Others(w)) > 0
      BY <1>1, <1>2, <1>3, <1>4, DepartureLeaves
    <3>3. /\ Occ(queue, {Own(w)}) \in Nat /\ Occ(queue, Others(w)) \in Nat
          /\ Occ(queue, Departures(w)) \in Nat
      BY <1>1, CountsType
    <3>4. ASSUME w \notin asked'  PROVE Covered(w)'
      <4>1. Covered(w)  BY <1>1, <1>2, <1>3, <2>3, <3>1, <3>4 DEF CountOf
      <4> QED  BY <3>1, <3>2, <3>3, <4>1 DEF Covered
    <3>5. ASSUME w \notin spare'  PROVE Balanced(w)'
      <4>1. Balanced(w)  BY <1>1, <1>2, <1>3, <2>3, <3>5 DEF CountOf
      <4>2. Agrees(w) => Agrees(w)'  BY <1>3, <3>1 DEF Agrees
      <4> QED  BY <1>3, <3>1, <3>2, <3>3, <4>1, <4>2 DEF Balanced
    <3> QED  BY <2>3, <3>1, <3>4, <3>5 DEF CountOf
  <2> QED  BY <2>1, <2>2, <2>3
<1>12. \A v \in Windows : CountOf(v)'  BY <1>10, <1>11
<1> QED  BY <1>1, <1>8, <1>9, <1>12, CountByWindowNext

\* A MapRequest takes no departure off the queue; its window, newly managed, has no count
\* and is mapped, and if it has a past nothing is claimed of it.
LEMMA MapRequestCounts ==
    ASSUME CInv, Running, queue # <<>>,
           NEW e, e = Head(queue), NEW w, w = e.window, HandleMapRequest(e)
    PROVE  Sound' /\ CountInv'
<1>1. /\ Sound /\ managed \subseteq Windows /\ wstate \in [Windows -> States]
      /\ \A v \in Windows : CountOf(v) /\ ignored[v] \in Nat
      /\ queue \in Seq(Event) /\ ignored \in [Windows -> 0..MaxIgnored]
      /\ mapped \subseteq alive /\ alive \subseteq Windows
  BY CInvFacts DEF Sound
<1>2. e \in Event /\ w \in Windows  BY <1>1, HeadOfQueue
<1>3. queue' = Tail(queue) /\ UNCHANGED <<alive, ignored, spare>>  BY DEF HandleMapRequest
<1>4. \A v \in Windows : e \notin Departures(v)  BY DEF HandleMapRequest, Departures
<1>5. Tail(queue) \in Seq(Event)  BY <1>1, HeadTailProperties
<1>6. \A v \in Windows : Counts(queue', v) = Counts(queue, v)
  BY <1>1, <1>3, <1>4, UnrelatedHead
<1>7. CASE w \notin managed
  <2>1. /\ w \in alive /\ managed' = managed \cup {w} /\ wstate' = wstate /\ status' = status
        /\ mapped' = mapped \cup ({w} \cap alive)
        /\ selected' = selected \cup ({w} \cap alive)
        /\ saved' = saved \cup ({w} \cap alive)
        /\ asked' = IF HasAPast(w) THEN asked \cup {w} ELSE asked
    BY <1>7 DEF HandleMapRequest, ManageWindow, Adopt
  <2>2. Sound'
    <3>1. IsFiniteSet(managed')  BY <1>1, <2>1, FS_AddElement DEF Sound
    <3>2. Ended'  BY <2>1 DEF Ended, Running
    <3> QED  BY <1>1, <1>3, <1>5, <2>1, <3>1, <3>2 DEF Sound
  <2>3. ASSUME NEW v \in Windows, v # w  PROVE CountOf(v)'
    <3>1. Untouched(v)  BY <1>3, <1>6, <2>1, <2>3 DEF Untouched
    <3> QED  BY <1>1, <3>1, UntouchedCount
  <2>4. CountOf(w)'
    <3>1. w \notin spare => ignored[w] = 0  BY <1>1, <1>2, <1>7 DEF CountOf
    <3>2. wstate[w] = "Normal"  BY <1>2, <1>7 DEF CInv, CoreInv, UnmanagedNormal
    <3>3. /\ Occ(queue', {Own(w)}) \in Nat /\ Occ(queue', Others(w)) \in Nat
          /\ Occ(queue', Departures(w)) \in Nat
      BY <1>3, <1>5, CountsType
    <3>4. ASSUME w \notin asked'  PROVE Covered(w)'
      <4>1. ~HasAPast(w)  BY <2>1, <3>4
      <4>2. \A i \in 1..Len(queue) : queue[i] \notin Departures(w)
        BY <1>1, <4>1, LenProperties DEF HasAPast, Departures
      <4>3. {Own(w)} \subseteq Departures(w) /\ Others(w) \subseteq Departures(w)
        BY <1>2, OwnEvents DEF Others
      <4>4. Occ(queue, {Own(w)}) = 0 /\ Occ(queue, Others(w)) = 0
        BY <1>1, <4>2, <4>3, OccNone
      <4>5. Occ(queue', {Own(w)}) = 0 /\ Occ(queue', Others(w)) = 0
        BY <1>2, <1>6, <4>4 DEF Counts
      <4>6. ignored'[w] \in Nat  BY <1>1, <1>2, <1>3
      <4> QED  BY <4>5, <4>6 DEF Covered
    <3>5. ASSUME w \notin spare'  PROVE Balanced(w)'
      <4>1. ignored'[w] = 0  BY <1>3, <3>1, <3>5
      <4>2. Agrees(w)'  BY <1>3, <2>1, <3>2 DEF Agrees
      <4> QED  BY <2>1, <3>3, <4>1, <4>2 DEF Balanced
    <3> QED  BY <2>1, <3>4, <3>5 DEF CountOf
  <2>5. \A v \in Windows : CountOf(v)'  BY <2>3, <2>4
  <2>6. managed' \subseteq Windows  BY <1>1, <1>2, <2>1
  <2> QED  BY <2>2, <2>5, <2>6, CountByWindowNext
<1>8. CASE w \in managed
  <2>1. /\ managed' = managed /\ wstate' = wstate /\ status' # "gone"
        /\ UNCHANGED <<selected, asked, saved>>
        /\ \/ mapped' = mapped
           \/ mapped' = mapped \cup ({w} \cap alive) /\ Home(w) = cur
    <3>1. CASE Home(w) # cur
      BY <1>8, <3>1 DEF HandleMapRequest, vars, Running
    <3>2. CASE Home(w) = cur
      <4>1. FocusWindow(w, cur) /\ mapped' = mapped \cup ({w} \cap alive)
            /\ UNCHANGED <<selected, asked, saved>>
        BY <1>8, <3>2 DEF HandleMapRequest, RemapWindow
      <4>2. managed' = managed /\ wstate' = wstate /\ status' # "gone"
        BY <4>1 DEF FocusWindow, Abort, Running
      <4> QED  BY <3>2, <4>1, <4>2
    <3> QED  BY <3>1, <3>2
  <2>2. Sound'
    <3>1. Ended'  BY <2>1 DEF Ended
    <3> QED  BY <1>1, <1>3, <1>5, <2>1, <3>1 DEF Sound
  <2>3. ASSUME NEW v \in Windows, v # w \/ mapped' = mapped  PROVE CountOf(v)'
    <3>1. Untouched(v)  BY <1>3, <1>6, <2>1, <2>3 DEF Untouched
    <3> QED  BY <1>1, <3>1, UntouchedCount
  <2>4. \A v \in Windows : CountOf(v)'
    <3>1. CASE mapped' = mapped  BY <2>3, <3>1
    <3>2. CASE mapped' # mapped
      <4>1. mapped' = mapped \cup ({w} \cap alive) /\ Home(w) = cur  BY <2>1, <3>2
      <4>2. CountOf(w)'
        <5>1. wstate[w] # "Minimized"
          <6>1. w \in Elements(list[cur])  BY <1>8, <4>1, HomeOf DEF CInv, CoreInv
          <6> QED  BY <6>1 DEF CInv, CoreInv, CurrentWorkspaceShown
        <5>2. Agrees(w) => Agrees(w)'  BY <1>3, <2>1, <4>1, <5>1 DEF Agrees
        <5>3. Balanced(w) => Balanced(w)'
          BY <1>2, <1>3, <1>6, <2>1, <5>2 DEF Balanced, Counts
        <5>4. Covered(w) => Covered(w)'
          BY <1>2, <1>3, <1>6 DEF Covered, Counts
        <5> QED  BY <1>1, <1>2, <1>3, <2>1, <5>3, <5>4 DEF CountOf
      <4> QED  BY <2>3, <4>2
    <3> QED  BY <3>1, <3>2
  <2>5. managed' \subseteq Windows  BY <1>1, <2>1
  <2> QED  BY <2>2, <2>4, <2>5, CountByWindowNext
<1> QED  BY <1>7, <1>8

\* The other handlers end the process only by an assert.
LEMMA OthersKeepRunning ==
    ASSUME HandleOther
    PROVE  status' # "gone"
<1> DEFINE OK == status' # "gone"
<1>1. ASSUME NEW w, NEW ws, FocusWindow(w, ws), Running  PROVE OK
  BY <1>1 DEF FocusWindow, Abort, Running
<1>2. ASSUME NEW w, NEW ws, SwitchWorkspace(ws, w), Running  PROVE OK
  BY <1>2 DEF SwitchWorkspace, Abort, Running
<1>3. ASSUME NEW ws, SwitchBinding(ws)  PROVE OK
  BY <1>2, <1>3 DEF SwitchBinding, SwitchTo
<1>4. ASSUME NEW w, NetActiveWindow(w) \/ FocusInWindow(w)  PROVE OK
  BY <1>1, <1>2, <1>4 DEF NetActiveWindow, FocusInWindow, TryFocusWindow
<1>5. ASSUME NEW w, NEW ws, NetWmDesktop(w, ws)  PROVE OK
  BY <1>5 DEF NetWmDesktop, Running
<1>6. ASSUME NEW w, NEW action, NetWmState(w, action)  PROVE OK
  BY <1>6 DEF NetWmState, Running
<1> HIDE DEF OK
<1>7. OK  BY <1>3, <1>4, <1>5, <1>6 DEF HandleOther
<1> QED  BY <1>7 DEF OK

\* Hiding windows sends their events and counts them, one for one unless a window was
\* already unmapped; showing one maps it.
LEMMA OtherCounts ==
    ASSUME CInv, HandleOther
    PROVE  Sound' /\ CountInv'
<1> DEFINE H == Hidden \cap mapped \cap selected
           E == {Own(w) : w \in H}
           r == SetToSeq(E)
<1>1. /\ Sound /\ managed \subseteq Windows
      /\ \A v \in Windows : CountOf(v) /\ ignored[v] \in Nat
      /\ queue \in Seq(Event) /\ ignored \in [Windows -> 0..MaxIgnored]
      /\ mapped \subseteq alive /\ alive \subseteq Windows
  BY CInvFacts DEF Sound
<1>2. managed' = managed /\ Running /\ status' # "gone"  BY OthersKeepManaged, OthersKeepRunning
<1>3. /\ queue' = queue \o r
      /\ ignored' = [w \in Windows |-> IF w \in Hidden THEN ignored[w] + 1 ELSE ignored[w]]
      /\ \A w \in Windows : ignored'[w] <= MaxIgnored
      /\ mapped' = (mapped \ Hidden) \cup (Shown \cap alive)
      /\ spare' = spare \cup (Hidden \ mapped)
      /\ UNCHANGED <<alive, selected, asked, saved, owed>>
  BY DEF HandleOther, UpdateState, IgnoreUnmap, Own
<1>4. Hidden \subseteq managed /\ H \subseteq Windows  BY <1>1 DEF Hidden
<1>5. IsFiniteSet(H)  BY <1>1, <1>4, FS_Subset DEF Sound
<1>6. IsFiniteSet(E)
  <2> DEFINE f == [w \in H |-> Own(w)]
  <2> HIDE DEF H
  <2>1. f \in Surjection(H, E)  BY DEF Surjection
  <2> HIDE DEF f, E
  <2> QED  BY <1>5, <2>1, FS_Surjection
<1>7. E \subseteq Event  BY <1>4, OwnEvents
<1>8. r \in Seq(Event) /\ \A S : Occ(r, S) = Cardinality(E \cap S)
  <2> HIDE DEF E
  <2>1. r \in Seq(E) /\ \A S : Occ(r, S) = Cardinality(E \cap S)  BY <1>6, OccSetToSeq
  <2> HIDE DEF r
  <2>2. r \in Seq(Event)
    <3>1. Len(r) \in Nat /\ \A i \in 1..Len(r) : r[i] \in Event
      BY <1>7, <2>1, LenProperties, ElementOfSeq
    <3>2. r = [i \in 1..Len(r) |-> r[i]]  BY <2>1, LenProperties
    <3> QED  BY <3>1, <3>2
  <2> QED  BY <2>1, <2>2
<1> HIDE DEF r
<1>9. Sound'
  <2>1. queue' \in Seq(Event)  BY <1>1, <1>3, <1>8, ConcatProperties
  <2>2. ignored' \in [Windows -> 0..MaxIgnored]
    <3>1. \A w \in Windows : ignored'[w] \in 0..MaxIgnored  BY <1>1, <1>3, BoundsAssumption
    <3> QED  BY <1>3, <3>1
  <2>3. Ended'  BY <1>2 DEF Ended
  <2> QED  BY <1>1, <1>2, <1>3, <2>1, <2>2, <2>3 DEF Sound
<1>10. ASSUME NEW v \in Windows  PROVE CountOf(v)'
  <2> DEFINE n == IF v \in H THEN 1 ELSE 0
  <2>1. /\ Occ(queue', {Own(v)}) = Occ(queue, {Own(v)}) + n
        /\ Occ(queue', Departures(v)) = Occ(queue, Departures(v)) + n
        /\ Occ(queue', Others(v)) = Occ(queue, Others(v))
    <3>1. E \cap Others(v) = {}  BY <1>4, OwnEvents DEF Others
    <3>2. E \cap {Own(v)} = IF v \in H THEN {Own(v)} ELSE {}  BY <1>4, OwnEvents
    <3>3. E \cap Departures(v) = E \cap {Own(v)}  BY <1>4, OwnEvents
    <3>4. Cardinality({}) = 0 /\ Cardinality({Own(v)}) = 1  BY FS_EmptySet, FS_Singleton
    <3> HIDE DEF E, H
    <3>5. Occ(r, {Own(v)}) = n /\ Occ(r, Departures(v)) = n /\ Occ(r, Others(v)) = 0
      BY <1>8, <3>1, <3>2, <3>3, <3>4
    <3>6. \A S : Occ(queue', S) = Occ(queue, S) + Occ(r, S)  BY <1>1, <1>3, <1>8, OccConcat
    <3>7. Occ(queue, Others(v)) \in Nat  BY <1>1, CountsType
    <3> QED  BY <3>5, <3>6, <3>7
  <2>2. /\ Occ(queue, {Own(v)}) \in Nat /\ Occ(queue, Others(v)) \in Nat
        /\ Occ(queue, Departures(v)) \in Nat /\ ignored[v] \in Nat
    BY <1>1, CountsType
  <2>3. ignored'[v] = ignored[v] + (IF v \in Hidden THEN 1 ELSE 0)  BY <1>3, <2>2
  <2>4. ASSUME v \in managed \ asked  PROVE Covered(v)'
    <3>1. Covered(v)  BY <1>1, <2>4 DEF CountOf
    <3> QED  BY <2>1, <2>2, <2>3, <3>1 DEF Covered
  <2>5. ASSUME v \in managed \ spare'  PROVE Balanced(v)'
    <3>1. Balanced(v) /\ v \notin Hidden \ mapped  BY <1>1, <1>3, <2>5 DEF CountOf
    <3>2. CASE v \in Hidden
      <4>1. v \in alive /\ v \in H  BY <1>1, <3>1, <3>2 DEF Balanced
      <4>2. Agrees(v)'
        BY <1>3, <3>2, <4>1 DEF Agrees, Hidden, Shown
      <4> QED  BY <1>3, <2>1, <2>2, <2>3, <3>1, <3>2, <4>1, <4>2 DEF Balanced
    <3>3. CASE v \notin Hidden
      <4>1. Agrees(v) => Agrees(v)'
        BY <1>3, <2>5, <3>3 DEF Agrees, Hidden, Shown
      <4>2. v \notin H  BY <3>3
      <4> QED  BY <1>3, <2>1, <2>2, <2>3, <3>1, <3>3, <4>1, <4>2 DEF Balanced
    <3> QED  BY <3>2, <3>3
  <2>6. ASSUME v \notin managed \cup spare'  PROVE ignored'[v] = 0
    <3>1. v \notin Hidden /\ ignored[v] = 0  BY <1>1, <1>3, <1>4, <2>6 DEF CountOf
    <3> QED  BY <2>3, <3>1
  <2> QED  BY <1>2, <1>3, <2>4, <2>5, <2>6 DEF CountOf
<1>11. managed' \subseteq Windows  BY <1>1, <1>2
<1> QED  BY <1>9, <1>10, <1>11, CountByWindowNext

\* One event about w.
LEMMA RequestEvent ==
    ASSUME NEW w \in Windows, NEW k \in Kinds
    PROVE  /\ <<Ev(k, w, "request")>> \in Seq(Event)
           /\ \A v \in Windows : Occ(<<Ev(k, w, "request")>>, Departures(v)) =
                  IF v = w /\ k # "MapRequest" THEN 1 ELSE 0
<1> DEFINE e == Ev(k, w, "request")
<1>1. /\ e \in Event
      /\ \A v \in Windows : e \in Departures(v) <=> v = w /\ k # "MapRequest"
  BY DEF Ev, Event, Origins, Departures
<1> HIDE DEF e
<1>2. \A v \in Windows : Occ(<<e>>, Departures(v)) = IF e \in Departures(v) THEN 1 ELSE 0  BY OccOne
<1>3. <<e>> \in Seq(Event)  BY <1>1
<1> QED  BY <1>1, <1>2, <1>3 DEF e

\* Two batches of events about w.
LEMMA RequestEvents ==
    ASSUME NEW w \in Windows, NEW r \in Seq(Event), NEW s \in Seq(Event),
           \A v \in Windows \ {w} : Occ(r, Departures(v)) = 0 /\ Occ(s, Departures(v)) = 0
    PROVE  /\ r \o s \in Seq(Event)
           /\ \A v \in Windows \ {w} : Occ(r \o s, Departures(v)) = 0
           /\ Occ(s, Departures(w)) # 0 => Occ(r \o s, Departures(w)) # 0
<1>1. r \o s \in Seq(Event)  BY ConcatProperties
<1>2. \A v \in Windows : /\ Occ(r \o s, Departures(v)) = Occ(r, Departures(v)) + Occ(s, Departures(v))
                          /\ Occ(r, Departures(v)) \in Nat /\ Occ(s, Departures(v)) \in Nat
  BY OccConcat, OccType
<1>3. \A v \in Windows \ {w} : Occ(r \o s, Departures(v)) = 0  BY <1>2
<1>4. Occ(s, Departures(w)) # 0 => Occ(r \o s, Departures(w)) # 0  BY <1>2
<1> QED  BY <1>1, <1>3, <1>4

\* What the server sends when w is unmapped.
LEMMA UnmapEventsOf ==
    ASSUME NEW w \in Windows
    PROVE  /\ UnmapEvents(w, "request") \in Seq(Event)
           /\ \A v \in Windows \ {w} : Occ(UnmapEvents(w, "request"), Departures(v)) = 0
           /\ w \in mapped \cap selected => Occ(UnmapEvents(w, "request"), Departures(w)) # 0
<1>1. CASE w \in mapped \cap selected
  <2> DEFINE e == Ev("UnmapNotify", w, "request")
  <2>1. UnmapEvents(w, "request") = <<e>>  BY <1>1 DEF UnmapEvents
  <2>2. "UnmapNotify" \in Kinds /\ "UnmapNotify" # "MapRequest"  BY DEF Kinds
  <2>3. /\ <<e>> \in Seq(Event)
        /\ \A v \in Windows : Occ(<<e>>, Departures(v)) = IF v = w THEN 1 ELSE 0
    BY <2>2, RequestEvent
  <2> DEFINE u == <<e>>
  <2>4. UnmapEvents(w, "request") = u  BY <2>1
  <2> HIDE DEF e, u
  <2>5. u \in Seq(Event) /\ Occ(u, Departures(w)) # 0  BY <2>3 DEF u
  <2>6. \A v \in Windows \ {w} : Occ(u, Departures(v)) = 0  BY <2>3 DEF u
  <2> QED  BY <2>4, <2>5, <2>6
<1>2. CASE w \notin mapped \cap selected
  <2>1. UnmapEvents(w, "request") = <<>>  BY <1>2 DEF UnmapEvents
  <2>2. <<>> \in Seq(Event)  OBVIOUS
  <2> QED  BY <1>2, <2>1, <2>2, OccEmpty
<1> QED  BY <1>1, <1>2

\* And when it is destroyed.
LEMMA DestroyEventsOf ==
    ASSUME NEW w \in Windows
    PROVE  /\ DestroyEvents(w, "request") \in Seq(Event)
           /\ \A v \in Windows \ {w} : Occ(DestroyEvents(w, "request"), Departures(v)) = 0
           /\ w \in selected => Occ(DestroyEvents(w, "request"), Departures(w)) # 0
<1> DEFINE u == UnmapEvents(w, "request")
           d == IF w \in selected THEN <<Ev("DestroyNotify", w, "request")>> ELSE <<>>
<1>1. DestroyEvents(w, "request") = u \o d  BY DEF DestroyEvents
<1>2. u \in Seq(Event) /\ \A v \in Windows \ {w} : Occ(u, Departures(v)) = 0  BY UnmapEventsOf
<1>3. /\ d \in Seq(Event) /\ \A v \in Windows \ {w} : Occ(d, Departures(v)) = 0
      /\ w \in selected => Occ(d, Departures(w)) # 0
  <2>1. CASE w \in selected
    <3> DEFINE e == Ev("DestroyNotify", w, "request")
    <3>1. d = <<e>>  BY <2>1
    <3>2. "DestroyNotify" \in Kinds /\ "DestroyNotify" # "MapRequest"  BY DEF Kinds
    <3>3. /\ <<e>> \in Seq(Event)
          /\ \A v \in Windows : Occ(<<e>>, Departures(v)) = IF v = w THEN 1 ELSE 0
      BY <3>2, RequestEvent
    <3> HIDE DEF e, d
    <3> QED  BY <3>1, <3>3
  <2>2. CASE w \notin selected
    <3>1. d = <<>>  BY <2>2
    <3>2. <<>> \in Seq(Event)  OBVIOUS
    <3> HIDE DEF d
    <3> QED  BY <2>2, <3>1, <3>2, OccEmpty
  <2> QED  BY <2>1, <2>2
<1> HIDE DEF u, d
<1>4. \A v \in Windows \ {w} : Occ(u, Departures(v)) = 0 /\ Occ(d, Departures(v)) = 0  BY <1>2, <1>3
<1>5. /\ u \o d \in Seq(Event)
      /\ \A v \in Windows \ {w} : Occ(u \o d, Departures(v)) = 0
      /\ Occ(d, Departures(w)) # 0 => Occ(u \o d, Departures(w)) # 0
  BY <1>2, <1>3, <1>4, RequestEvents
<1> QED  BY <1>1, <1>3, <1>5

\* _NET_CLOSE_WINDOW: the window is no longer managed, and a count it had is spare.
LEMMA CloseCounts ==
    ASSUME CInv, NEW w \in Windows, CloseAskingTheClient(w) \/ CloseDestroying(w)
    PROVE  Sound' /\ CountInv'
<1>1. /\ Sound /\ managed \subseteq Windows /\ wstate \in [Windows -> States]
      /\ \A v \in Windows : CountOf(v) /\ ignored[v] \in Nat
      /\ queue \in Seq(Event)
  BY CInvFacts DEF Sound
<1>2. /\ managed' = managed \ {w} /\ status' = status /\ Running
      /\ wstate' = [wstate EXCEPT ![w] = "Normal"]
      /\ asked' = asked \ {w} /\ ignored' = ignored
      /\ saved' = saved \ (managed \ managed') /\ w \in managed
      /\ spare' = IF ignored[w] > 0 THEN spare \cup {w} ELSE spare
  BY DEF CloseAskingTheClient, CloseDestroying, NetCloseWindow, UnmanageWindow, Unsave
<1>3. \/ UNCHANGED <<alive, mapped, selected, queue>>
      \/ /\ alive' = alive \ {w} /\ mapped' = mapped \ {w} /\ selected' = selected \ {w}
         /\ queue' = queue \o DestroyEvents(w, "request")
  BY DEF CloseAskingTheClient, CloseDestroying
<1>4. /\ queue' \in Seq(Event)
      /\ \A v \in Windows \ {w} : Counts(queue', v) = Counts(queue, v)
  <2> DEFINE d == DestroyEvents(w, "request")
  <2>1. d \in Seq(Event) /\ \A v \in Windows \ {w} : Occ(d, Departures(v)) = 0  BY DestroyEventsOf
  <2>2. queue' = queue \/ queue' = queue \o d  BY <1>3
  <2> HIDE DEF d
  <2>3. queue \o d \in Seq(Event)  BY <1>1, <2>1, ConcatProperties
  <2>4. \A v \in Windows \ {w} : Counts(queue \o d, v) = Counts(queue, v)
    BY <1>1, <2>1, UnrelatedEvents
  <2> QED  BY <1>1, <2>2, <2>3, <2>4
<1>5. Sound'
  <2>1. IsFiniteSet(managed')  BY <1>1, <1>2, FS_Subset DEF Sound
  <2>2. Ended'  BY <1>2 DEF Ended, Running
  <2>3. saved' = saved \ {w}  BY <1>2
  <2> QED  BY <1>1, <1>2, <1>3, <1>4, <2>1, <2>2, <2>3 DEF Sound
<1>6. ASSUME NEW v \in Windows, v # w  PROVE CountOf(v)'
  <2>1. Untouched(v)  BY <1>1, <1>2, <1>3, <1>4, <1>6 DEF Untouched
  <2> QED  BY <1>1, <2>1, UntouchedCount
<1>7. CountOf(w)'  BY <1>1, <1>2 DEF CountOf
<1>8. \A v \in Windows : CountOf(v)'  BY <1>6, <1>7
<1>9. managed' \subseteq Windows  BY <1>1, <1>2
<1> QED  BY <1>5, <1>8, <1>9, CountByWindowNext

\* load_all: a viewable window is managed, with no count, as one that is mapped by its client.
LEMMA LoadCounts ==
    ASSUME CInv, NEW w \in Windows, NEW ws, LoadMapped(w, ws)
    PROVE  Sound' /\ CountInv'
<1>1. /\ Sound /\ managed \subseteq Windows
      /\ \A v \in Windows : CountOf(v) /\ ignored[v] \in Nat
      /\ queue \in Seq(Event) /\ mapped \subseteq alive
  BY CInvFacts DEF Sound
<1>2. /\ w \in mapped /\ w \notin managed /\ managed' = managed \cup {w}
      /\ status = "loading" /\ status' = status
      /\ UNCHANGED <<alive, queue, ignored, spare, wstate>>
      /\ mapped' = mapped \cup ({w} \cap alive)
      /\ selected' = selected \cup ({w} \cap alive)
      /\ saved' = saved \cup ({w} \cap alive)
      /\ asked' = IF HasAPast(w) THEN asked \cup {w} ELSE asked
  BY DEF LoadMapped, LoadWindow, Adopt
<1>3. Sound'
  <2>1. IsFiniteSet(managed')  BY <1>1, <1>2, FS_AddElement DEF Sound
  <2>2. Ended'  BY <1>2 DEF Ended
  <2> QED  BY <1>1, <1>2, <2>1, <2>2 DEF Sound
<1>4. ASSUME NEW v \in Windows, v # w  PROVE CountOf(v)'
  <2>1. Untouched(v)  BY <1>2, <1>4 DEF Untouched
  <2> QED  BY <1>1, <2>1, UntouchedCount
<1>5. CountOf(w)'
  <2>1. w \notin spare => ignored[w] = 0  BY <1>1, <1>2 DEF CountOf
  <2>2. wstate[w] = "Normal"  BY <1>2 DEF CInv, CoreInv, UnmanagedNormal
  <2>3. Occ(queue, Departures(w)) \in Nat  BY <1>1, CountsType
  <2>4. ASSUME w \notin asked'  PROVE Covered(w)'
    <3>1. ~HasAPast(w)  BY <1>2, <2>4
    <3>2. \A i \in 1..Len(queue) : queue[i] \notin Departures(w)
      BY <1>1, <3>1, LenProperties DEF HasAPast, Departures
    <3>3. {Own(w)} \subseteq Departures(w) /\ Others(w) \subseteq Departures(w)
      BY OwnEvents DEF Others
    <3>4. Occ(queue, {Own(w)}) = 0 /\ Occ(queue, Others(w)) = 0
      BY <1>1, <3>2, <3>3, OccNone
    <3> QED  BY <1>1, <1>2, <3>4 DEF Covered
  <2>5. ASSUME w \notin spare'  PROVE Balanced(w)'
    <3>1. Agrees(w)'  BY <1>1, <1>2, <2>2 DEF Agrees
    <3> QED  BY <1>1, <1>2, <2>1, <2>3, <2>5, <3>1 DEF Balanced
  <2> QED  BY <1>2, <2>4, <2>5 DEF CountOf
<1>6. \A v \in Windows : CountOf(v)'  BY <1>4, <1>5
<1>7. managed' \subseteq Windows  BY <1>1, <1>2
<1> QED  BY <1>3, <1>6, <1>7, CountByWindowNext

\* When the process ends, or fails to start, there is nothing to count.
LEMMA EndCounts ==
    ASSUME CInv, End \/ \E w \in Windows : LoadDestroyed(w)
    PROVE  Sound' /\ CountInv'
<1>1. /\ managed' = {} /\ queue' = <<>> /\ ignored' = [v \in Windows |-> 0]
      /\ selected' = {} /\ saved' = {} /\ spare' = {} /\ asked' = {}
      /\ \E gone \in SUBSET Windows : mapped' = (mapped \cup saved) \ gone /\ alive' = alive \ gone
  <2>1. CASE End
    <3>1. mapped' = (mapped \cup saved) \ {} /\ alive' = alive \ {}  BY <2>1 DEF End, CloseDown
    <3> QED  BY <2>1, <3>1 DEF End, ForgetAll
  <2>2. CASE \E w \in Windows : LoadDestroyed(w)
    <3>1. PICK w \in Windows : LoadDestroyed(w)  BY <2>2
    <3> QED  BY <3>1 DEF LoadDestroyed, ForgetAll
  <2> QED  BY <2>1, <2>2
<1>2. Sound'
  <2>1. mapped \subseteq alive /\ saved \subseteq alive /\ alive \subseteq Windows
    BY CInvFacts DEF Sound
  <2>2. ignored' \in [Windows -> 0..MaxIgnored]  BY <1>1, BoundsAssumption
  <2>3. IsFiniteSet(managed') /\ Ended'  BY <1>1, FS_EmptySet DEF Ended
  <2>4. queue' \in Seq(Event)  BY <1>1
  <2> QED  BY <1>1, <2>1, <2>2, <2>3, <2>4 DEF Sound
<1> QED  BY <1>1, <1>2 DEF CountInv

-----------------------------------------------------------------------------
(* The clients' steps. *)

\* A client sends its events to a window manager that runs.
LEMMA ClientFacts ==
    ASSUME CInv, NEW events \in Seq(Event), ClientSends(events)
    PROVE  /\ UNCHANGED <<managed, wstate, ignored, spare, status>>
           /\ queue' \in Seq(Event) /\ Ended'
           /\ \/ queue' = queue \o events
              \/ queue' = queue /\ managed = {}
<1>1. UNCHANGED <<managed, wstate, ignored, spare, status>>  BY DEF ClientSends, vars
<1>2. \/ Running /\ queue' = queue \o events
      \/ Gone /\ queue' = queue
  BY DEF ClientSends
<1>3. queue \in Seq(Event) /\ Ended  BY DEF CInv, ProtocolTypeOK
<1>4. queue' \in Seq(Event)  BY <1>2, <1>3, ConcatProperties
<1> QED  BY <1>1, <1>2, <1>3, <1>4 DEF Ended, Gone, Running

\* A new window has no events on their way; one to be mapped is asked for, not left.
LEMMA ClientAddsCounts ==
    ASSUME CInv, NEW w \in Windows, ClientCreate(w) \/ ClientMap(w)
    PROVE  Sound' /\ CountInv'
<1>1. /\ Sound /\ managed \subseteq Windows
      /\ \A v \in Windows : CountOf(v) /\ ignored[v] \in Nat
      /\ queue \in Seq(Event)
  BY CInvFacts DEF Sound
<1>2. UNCHANGED <<selected, asked, saved, owed>>  BY DEF ClientCreate, ClientMap
<1>3. CASE ClientCreate(w)
  <2>1. /\ w \notin alive /\ alive' = alive \cup {w} /\ mapped' = mapped
        /\ \A i \in DOMAIN queue : queue[i].window # w
    BY <1>3 DEF ClientCreate
  <2>2. /\ UNCHANGED <<managed, wstate, ignored, spare, status>>
        /\ queue' = queue /\ Ended'
    <3>1. <<>> \in Seq(Event) /\ queue \o <<>> = queue  BY <1>1, ConcatEmptySeq
    <3> QED  BY <1>3, <3>1, ClientFacts DEF ClientCreate
  <2>3. Sound'  BY <1>1, <1>2, <2>1, <2>2 DEF Sound
  <2>4. ASSUME NEW v \in Windows, v # w  PROVE CountOf(v)'
    <3>1. Untouched(v)  BY <1>2, <2>1, <2>2, <2>4 DEF Untouched
    <3> QED  BY <1>1, <3>1, UntouchedCount
  <2>5. CountOf(w)'
    <3>1. Occ(queue, Departures(w)) = 0
      <4>1. \A i \in 1..Len(queue) : queue[i] \notin Departures(w)
        BY <1>1, <2>1, LenProperties DEF Departures
      <4> QED  BY <1>1, <4>1, OccNone
    <3>2. w \in managed => w \in spare
      <4>1. ~Agrees(w)  BY <2>1 DEF Agrees
      <4>2. ~Balanced(w)  BY <1>1, <3>1, <4>1 DEF Balanced
      <4> QED  BY <1>1, <4>2 DEF CountOf
    <3>3. w \in managed \ asked => Covered(w)'  BY <1>1, <1>2, <2>2 DEF CountOf, Covered
    <3> QED  BY <1>1, <1>2, <2>2, <3>2, <3>3 DEF CountOf
  <2>6. \A v \in Windows : CountOf(v)'  BY <2>4, <2>5
  <2> QED  BY <1>1, <2>2, <2>3, <2>6, CountByWindowNext
<1>4. CASE ClientMap(w)
  <2> DEFINE e == Ev("MapRequest", w, "request")
  <2>1. /\ <<e>> \in Seq(Event)
        /\ \A v \in Windows : Occ(<<e>>, Departures(v)) = 0
    <3>1. "MapRequest" \in Kinds  BY DEF Kinds
    <3> QED  BY <3>1, RequestEvent
  <2> DEFINE r == <<e>>
  <2>2. ClientSends(r) /\ w \in alive /\ alive' = alive
        /\ mapped' = IF Gone THEN mapped \cup {w} ELSE mapped
    BY <1>4 DEF ClientMap
  <2>3. r \in Seq(Event) /\ \A v \in Windows : Occ(r, Departures(v)) = 0  BY <2>1
  <2> HIDE DEF e, r
  <2>4. /\ UNCHANGED <<managed, wstate, ignored, spare, status>>
        /\ queue' \in Seq(Event) /\ Ended'
        /\ queue' = queue \o r \/ queue' = queue
    BY <2>2, <2>3, ClientFacts
  <2>5. Sound'  BY <1>1, <1>2, <2>2, <2>4 DEF Sound
  <2>6. \A v \in Windows : Counts(queue', v) = Counts(queue, v)
    <3>1. \A v \in Windows : Counts(queue \o r, v) = Counts(queue, v)
      BY <1>1, <2>3, UnrelatedEvents
    <3> QED  BY <2>4, <3>1
  <2>7. ASSUME NEW v \in Windows  PROVE CountOf(v)'
    <3>1. CASE Gone
      <4>1. managed = {}  BY <3>1 DEF CInv, Ended, Gone
      <4> QED  BY <1>1, <2>4, <4>1 DEF CountOf
    <3>2. CASE ~Gone
      <4>1. Untouched(v)  BY <1>2, <2>2, <2>4, <2>6, <3>2 DEF Untouched
      <4> QED  BY <1>1, <4>1, UntouchedCount
    <3> QED  BY <3>1, <3>2
  <2> QED  BY <1>1, <2>4, <2>5, <2>7, CountByWindowNext
<1> QED  BY <1>3, <1>4

\* What a client sends when it takes a managed window off the screen is one departure
\* at least, if the manager is told of the window's at all.
LEMMA ClientEndsEvents ==
    ASSUME mapped \subseteq alive,
           NEW w \in Windows, ClientWithdraw(w) \/ ClientUnmap(w) \/ ClientDestroy(w)
    PROVE  \E r \in Seq(Event) :
               /\ ClientSends(r)
               /\ \A v \in Windows \ {w} : Occ(r, Departures(v)) = 0
               /\ w \in alive
               /\ w \in selected => Occ(r, Departures(w)) # 0
<1> DEFINE u == UnmapEvents(w, "request")
           e == Ev("UnmapNotify", w, "request")
           s == <<e>>
           d == DestroyEvents(w, "request")
<1>1. /\ u \in Seq(Event) /\ \A v \in Windows \ {w} : Occ(u, Departures(v)) = 0
      /\ w \in mapped \cap selected => Occ(u, Departures(w)) # 0
  BY UnmapEventsOf
<1>2. /\ d \in Seq(Event) /\ \A v \in Windows \ {w} : Occ(d, Departures(v)) = 0
      /\ w \in selected => Occ(d, Departures(w)) # 0
  BY DestroyEventsOf
<1>3. /\ s \in Seq(Event)
      /\ \A v \in Windows : Occ(s, Departures(v)) = IF v = w THEN 1 ELSE 0
  <2>1. "UnmapNotify" \in Kinds /\ "UnmapNotify" # "MapRequest"  BY DEF Kinds
  <2> QED  BY <2>1, RequestEvent
<1>4. CASE ClientWithdraw(w)
  <2>1. ClientSends(u \o s) /\ w \in alive  BY <1>4 DEF ClientWithdraw
  <2> HIDE DEF u, s
  <2>2. /\ \A v \in Windows \ {w} : Occ(u, Departures(v)) = 0 /\ Occ(s, Departures(v)) = 0
        /\ Occ(s, Departures(w)) # 0
    BY <1>1, <1>3
  <2>3. /\ u \o s \in Seq(Event)
        /\ \A v \in Windows \ {w} : Occ(u \o s, Departures(v)) = 0
        /\ Occ(u \o s, Departures(w)) # 0
    BY <1>1, <1>3, <2>2, RequestEvents
  <2> QED  BY <2>1, <2>3
<1>5. CASE ClientUnmap(w)
  <2>1. ClientSends(u) /\ w \in mapped /\ w \in alive  BY <1>5 DEF ClientUnmap
  <2> HIDE DEF u
  <2> QED  BY <1>1, <1>5, <2>1
<1>6. CASE ClientDestroy(w)
  <2>1. ClientSends(d) /\ w \in alive  BY <1>6 DEF ClientDestroy
  <2> HIDE DEF d
  <2> QED  BY <1>2, <2>1
<1> QED  BY <1>4, <1>5, <1>6

\* A window its client takes off the screen is one it has asked about; the event that tells
\* of it is one more than the count swallows.
LEMMA ClientEndsCounts ==
    ASSUME CInv, NEW w \in Windows, ClientWithdraw(w) \/ ClientUnmap(w) \/ ClientDestroy(w)
    PROVE  Sound' /\ CountInv'
<1>1. /\ Sound /\ managed \subseteq Windows
      /\ \A v \in Windows : CountOf(v) /\ ignored[v] \in Nat
      /\ queue \in Seq(Event) /\ mapped \subseteq alive
  BY CInvFacts DEF Sound
<1>2. PICK r \in Seq(Event) :
          /\ ClientSends(r)
          /\ \A v \in Windows \ {w} : Occ(r, Departures(v)) = 0
          /\ w \in alive
          /\ w \in selected => Occ(r, Departures(w)) # 0
  BY <1>1, ClientEndsEvents
<1>3. /\ UNCHANGED <<managed, wstate, ignored, spare, status>>
      /\ queue' \in Seq(Event) /\ Ended'
      /\ queue' = queue \o r \/ (queue' = queue /\ managed = {})
  BY <1>2, ClientFacts
<1>4. /\ mapped' = mapped \ {w} /\ asked' = asked \cup ({w} \cap managed)
      /\ \/ UNCHANGED <<alive, selected, saved>>
         \/ alive' = alive \ {w} /\ selected' = selected \ {w} /\ saved' = saved \ {w}
  BY DEF ClientWithdraw, ClientUnmap, ClientDestroy, ClientEnds
<1>5. Sound'  BY <1>1, <1>3, <1>4 DEF Sound
<1>6. ASSUME NEW v \in Windows, v # w  PROVE CountOf(v)'
  <2>1. Counts(queue \o r, v) = Counts(queue, v)  BY <1>1, <1>2, <1>6, UnrelatedEvents
  <2>2. Untouched(v)  BY <1>3, <1>4, <1>6, <2>1 DEF Untouched
  <2> QED  BY <1>1, <2>2, UntouchedCount
<1>7. CountOf(w)'
  <2>1. ASSUME w \in managed \ spare  PROVE Balanced(w)'
    <3>1. Balanced(w) /\ queue' = queue \o r  BY <1>1, <1>3, <2>1 DEF CountOf
    <3>2. w \in selected  BY <1>2, <3>1 DEF Balanced
    <3>3. /\ Occ(queue \o r, Departures(w)) \in Nat /\ Occ(queue, Departures(w)) \in Nat
          /\ Occ(queue, Departures(w)) < Occ(queue \o r, Departures(w))
      BY <1>1, <1>2, <3>2, DepartureJoins
    <3>4. ignored[w] \in Nat /\ ignored' = ignored  BY <1>1, <1>3
    <3>5. w \in alive' => w \in selected'  BY <1>4, <3>2
    <3> QED  BY <3>1, <3>3, <3>4, <3>5 DEF Balanced
  <2>2. w \in managed' => w \in asked'  BY <1>3, <1>4
  <2>3. w \notin managed \cup spare => ignored[w] = 0  BY <1>1 DEF CountOf
  <2> QED  BY <1>3, <2>1, <2>2, <2>3 DEF CountOf
<1>8. \A v \in Windows : CountOf(v)'  BY <1>6, <1>7
<1>9. managed' \subseteq Windows  BY <1>1, <1>3
<1> QED  BY <1>5, <1>8, <1>9, CountByWindowNext

-----------------------------------------------------------------------------
(* Every step. *)

\* The steps that bear on no window.
LEMMA IdleCounts ==
    ASSUME CInv, UNCHANGED <<managed, wstate, alive, mapped, selected, queue, ignored, asked, spare, saved>>,
           status' # "gone" \/ status = "gone"
    PROVE  Sound' /\ CountInv'
<1>1. /\ Sound /\ managed \subseteq Windows /\ \A v \in Windows : CountOf(v)
      /\ Ended
  BY CInvFacts DEF Sound
<1>2. Sound'  BY <1>1 DEF Sound, Ended
<1>3. ASSUME NEW v \in Windows  PROVE CountOf(v)'
  <2>1. Untouched(v)  BY DEF Untouched
  <2> QED  BY <1>1, <2>1, UntouchedCount
<1> QED  BY <1>1, <1>2, <1>3, CountByWindowNext

\* The counts agree with the queue after every step of server, clients and manager.
LEMMA CountStep ==
    ASSUME CInv, [ProtocolNext]_protocolVars
    PROVE  CInv'
<1> DEFINE Goal == Sound' /\ CountInv'
<1>1. ASSUME NEW w \in Windows, NEW ws, LoadMapped(w, ws)  PROVE Goal
  BY <1>1, LoadCounts
<1>2. ASSUME NEW ws, LoadUnmapped(ws)  PROVE Goal
  <2>1. UNCHANGED <<managed, wstate, status, xvars>>  BY <1>2 DEF LoadUnmapped, LoadNothing
  <2> QED  BY <2>1, IdleCounts DEF xvars
<1>3. ASSUME FinishLoad  PROVE Goal
  BY <1>3, IdleCounts DEF FinishLoad, FinishInit
<1>4. ASSUME HandleEvent  PROVE Goal
  <2>1. Running /\ queue # <<>>  BY <1>4 DEF HandleEvent
  <2>2. PICK e : e = Head(queue)  OBVIOUS
  <2>3. PICK w : w = e.window  OBVIOUS
  <2>4. HandleUnmap(e) => Goal  BY <2>1, <2>2, <2>3, UnmapCounts
  <2>5. HandleMapRequest(e) => Goal  BY <2>1, <2>2, <2>3, MapRequestCounts
  <2>6. MapRequestOfNoWindow(e) => Goal
    BY IdleCounts DEF MapRequestOfNoWindow, Abort, xvars
  <2> QED  BY <1>4, <2>2, <2>4, <2>5, <2>6 DEF HandleEvent
<1>5. ASSUME HandleOther  PROVE Goal  BY <1>5, OtherCounts
<1>6. ASSUME End \/ \E w \in Windows : LoadDestroyed(w)  PROVE Goal  BY <1>6, EndCounts
<1>7. ASSUME Relaunch  PROVE Goal  BY <1>7, IdleCounts DEF Relaunch, xvars
<1>8. ASSUME NEW w \in Windows, \/ ClientCreate(w) \/ ClientMap(w) \/ ClientWithdraw(w)
                                \/ ClientUnmap(w) \/ ClientDestroy(w)
      PROVE  Goal
  BY <1>8, ClientAddsCounts, ClientEndsCounts
<1>9. ASSUME NEW w \in Windows, CloseAskingTheClient(w) \/ CloseDestroying(w)  PROVE Goal
  BY <1>9, CloseCounts
<1>10. ASSUME UNCHANGED protocolVars  PROVE Goal
  BY <1>10, IdleCounts DEF protocolVars, vars, xvars
<1>11. Restless \subseteq Windows  BY BoundsAssumption
<1> HIDE DEF Goal
<1>12. ASSUME NEW w \in Restless, \/ ClientCreate(w) \/ ClientMap(w) \/ ClientWithdraw(w)
                                  \/ ClientUnmap(w) \/ ClientDestroy(w)
                                  \/ CloseAskingTheClient(w) \/ CloseDestroying(w)
                                  \/ LoadDestroyed(w)
       PROVE  Goal
  <2>1. w \in Windows  BY <1>11
  <2> QED  BY <1>6, <1>8, <1>9, <1>12, <2>1
<1>13. ASSUME ProtocolStep  PROVE Goal
  BY <1>13, <1>1, <1>2, <1>3, <1>4, <1>5, <1>6, <1>7, <1>12 DEF ProtocolStep
<1>14. Goal  BY <1>10, <1>13 DEF ProtocolNext
<1>15. /\ CoreInv'
       /\ status' \in {"loading", "running", "gone", "null attribute"} \cup AssertFailures
  BY CoreStep DEF CInv
<1> QED  BY <1>14, <1>15 DEF Goal, CInv, Sound, ProtocolTypeOK

\* All windows are unmanaged at first, and all counts zero.
LEMMA CountInit ==
    ASSUME ProtocolInit
    PROVE  CInv /\ Told
<1>1. IInv  BY InitInv DEF ProtocolInit
<1>2. ProtocolTypeOK
  <2>1. ignored \in [Windows -> 0..MaxIgnored]  BY BoundsAssumption DEF ProtocolInit
  <2>2. queue \in Seq(Event)  BY DEF ProtocolInit
  <2> QED  BY <2>1, <2>2 DEF ProtocolInit, Init, ProtocolTypeOK
<1>3. managed = {} /\ ignored = [w \in Windows |-> 0] /\ queue = <<>> /\ status = "loading"
  BY DEF ProtocolInit, Init
<1>4. IsFiniteSet(managed)  BY <1>3, FS_EmptySet
<1> QED  BY <1>1, <1>2, <1>3, <1>4 DEF IInv, CInv, CountInv, Ended, Told, Running

\* The counts and the root window's properties agree with the rest at every step of
\* every behaviour.
THEOREM CountsInductive == ProtocolSpec => [](CInv /\ Told)
<1>1. ProtocolInit => CInv /\ Told  BY CountInit
<1>2. CInv /\ Told /\ [ProtocolNext]_protocolVars => (CInv /\ Told)'
  BY CountStep, ToldStep DEF CInv
<1> QED  BY <1>1, <1>2, PTL DEF ProtocolSpec

-----------------------------------------------------------------------------
(* What follows. *)

\* The window manager, the server and the queue keep their types, for any windows,
\* clients and bounds, however often the window manager ends and starts again.
THEOREM ProtocolTypeCorrect == ProtocolSpec => []ProtocolTypeOK
<1>1. CInv /\ Told => ProtocolTypeOK  BY DEF CInv
<1> QED  BY <1>1, CountsInductive, PTL

\* Every unmap of its own that the window manager has not been told of yet is counted,
\* as long as the window's client asks for nothing.
THEOREM OwnUnmapsAreCounted == ProtocolSpec => []IgnoredCoversOwnUnmaps
<1>1. CInv => IgnoredCoversOwnUnmaps
  <2> SUFFICES ASSUME CInv, NEW w \in managed \ asked
               PROVE  Cardinality(OwnUnmaps(w)) <= ignored[w]
    BY DEF IgnoredCoversOwnUnmaps
  <2>1. OwnUnmaps(w) = {i \in DOMAIN queue : queue[i] \in {Own(w)}}  BY DEF OwnUnmaps, Own
  <2>2. Occ(queue, {Own(w)}) <= ignored[w]  BY DEF CInv, CountInv, Covered
  <2> QED  BY <2>1, <2>2 DEF Occ
<1> QED  BY <1>1, CountsInductive, PTL

\* No unmap or destroy event ends the management of a window whose client has neither
\* withdrawn nor destroyed it, whatever the window manager hid and showed meanwhile.
THEOREM HidingLosesNothing == ProtocolSpec => OnlyTheClientUnmanages
<1>1. CInv /\ [ProtocolNext]_protocolVars
      => [HandleEvent => \A w \in managed \ managed' : w \in asked]_protocolVars
  <2> SUFFICES ASSUME CInv, HandleEvent, NEW w \in managed \ managed', w \notin asked
               PROVE  FALSE
    OBVIOUS
  <2> DEFINE e == Head(queue)
  <2>1. /\ queue \in Seq(Event) /\ queue # <<>> /\ w \in Windows
        /\ CountOf(w) /\ ignored[w] \in Nat
    BY CInvFacts DEF HandleEvent, Sound
  <2>2. e \in Event  BY <2>1, HeadOfQueue
  <2>3. HandleUnmap(e)
    <3>1. HandleMapRequest(e) => managed \subseteq managed'
      BY FocusKeepsManaged DEF HandleMapRequest, ManageWindow, RemapWindow, vars
    <3>2. MapRequestOfNoWindow(e) => managed' = managed
      BY DEF MapRequestOfNoWindow, Abort
    <3> QED  BY <3>1, <3>2 DEF HandleEvent
  <2>4. w = e.window /\ ~(ignored[w] > 0)
    BY <2>3 DEF HandleUnmap, IsUnmapIgnored, UnmapNotify, UnmanageWindow, vars
  <2>5. e \in Departures(w)  BY <2>2, <2>3, <2>4 DEF HandleUnmap, Departures
  <2>6. Occ(queue, Others(w)) = 0 /\ Occ(queue, {Own(w)}) = 0
    <3>1. Covered(w)  BY <2>1 DEF CountOf
    <3>2. Occ(queue, {Own(w)}) \in Nat  BY <2>1, CountsType
    <3> QED  BY <2>1, <2>4, <3>1, <3>2 DEF Covered
  <2>7. \A i \in 1..Len(queue) : queue[i] \notin Others(w) /\ queue[i] \notin {Own(w)}
    BY <2>1, <2>6, OccNone
  <2>8. 1 \in 1..Len(queue) /\ e = queue[1]
    BY <2>1, HeadTailProperties, LenProperties, EmptySeq
  <2> QED  BY <2>5, <2>7, <2>8 DEF Others
<1> QED  BY <1>1, CountsInductive, PTL DEF ProtocolSpec, OnlyTheClientUnmanages

\* When all events are handled, every managed window exists and is on the screen or not as
\* its state says, but for those with a count that nothing will match.
THEOREM ServerAndManagerAgree == ProtocolSpec => []ServerAgrees
<1>1. CInv => ServerAgrees
  <2> SUFFICES ASSUME CInv, queue = <<>>, NEW w \in managed \ spare
               PROVE  Agrees(w)
    BY DEF ServerAgrees, Agrees
  <2>1. Occ(queue, Departures(w)) = 0  BY OccEmpty
  <2>2. Balanced(w) /\ ignored[w] \in Nat  BY CInvFacts DEF CInv, CountInv
  <2> QED  BY <2>1, <2>2 DEF Balanced
<1> QED  BY <1>1, CountsInductive, PTL

\* While it runs, pagers read the windows, the workspaces and the desktop it has, and the
\* active window they read is one of the windows.
THEOREM PagersAgree == ProtocolSpec => []PagerAgrees
<1>1. CInv /\ Told => PagerAgrees
  <2> SUFFICES ASSUME CInv, Told, Running  PROVE PagerAgrees
    BY DEF PagerAgrees
  <2>1. netClients = managed /\ netDesktops = exists /\ netDesktop = cur /\ ActiveIsFocused
    BY DEF Told
  <2>2. ASSUME netActive # Nil  PROVE netActive \in managed
    <3>1. netActive \in focused  BY <2>1, <2>2 DEF ActiveIsFocused
    <3>2. PICK ws \in exists : IsCurrentWindow(netActive, ws)
      BY <3>1 DEF CInv, CoreInv, OnlyFrontFocused
    <3>3. ws \in Workspaces /\ list[ws] \in Seq(Windows)  BY DEF CInv, CoreInv, StateOK
    <3>4. netActive \in Elements(list[ws])
      BY <3>2, <3>3, ElementsAreWindows DEF IsCurrentWindow, AtFront
    <3> QED  BY <3>3, <3>4 DEF CInv, CoreInv, OneHome, Tidy
  <2> QED  BY <2>1, <2>2 DEF PagerAgrees
<1> QED  BY <1>1, CountsInductive, PTL
=============================================================================
