------------------------------ MODULE Lifecycle ------------------------------
(***************************************************************************)
(* The life of a window manager process, beside others on the same X       *)
(* server: main.cpp, X11::init (x11.cpp), Server (server.cpp) and the main *)
(* loop (x11/server.cpp).  A process takes the WM_Sn selection, waits for  *)
(* the previous owner to leave, takes the root window's events, loads its  *)
(* state, and then handles events until it loses the selection or gets a   *)
(* signal.                                                                 *)
(*                                                                         *)
(* An event sent to a process is on its socket first.  Every reply a       *)
(* process waits for makes xcb read the socket, events included, into a    *)
(* queue in memory; select() sees the socket and not that queue.           *)
(***************************************************************************)
EXTENDS Integers, FiniteSets

CONSTANTS Managers,      \* the processes
          Replacing,     \* those started with --replace
          Nobody,        \* XCB_NONE
          CheckTimes,    \* how often the previous owner is waited for (10 in the code)
          MaxSignals,    \* bound on the signals a process gets
          MaxOthers      \* bound on the other events a process gets

ASSUME LifecycleAssumption ==
    /\ Replacing \subseteq Managers /\ Nobody \notin Managers
    /\ CheckTimes \in Nat /\ MaxSignals \in Nat /\ MaxOthers \in Nat

VARIABLES
    pc,           \* where each process is
    prev,         \* prev_owner
    checkTimes,   \* check_times
    stamp,        \* Timestamp::get()
    running,      \* the processes whose Server::_running is set
    socket,       \* the events sent to a process and not read
    buffered,     \* the events xcb has read and the process has not asked for
    signals,      \* how many signals a process got
    others,       \* how many other events it got
    clock,        \* the time of the X server
    owner,        \* the owner of WM_Sn
    ownedSince,   \* when the selection last changed hands
    redirect      \* who has SubstructureRedirect on the root window

lvars == <<pc, prev, checkTimes, stamp, running, socket, buffered, signals, others,
           clock, owner, ownedSince, redirect>>

Starting == {"start", "stamped", "claiming", "waiting", "announcing", "redirecting",
             "loading", "installed"}
Looping  == {"testing", "entering", "blocked", "polling"}
Gone     == {"not started", "stopped", "failed", "terminated"}
Events   == {"SelectionClear", "other"}

LifeInit ==
    /\ pc = [p \in Managers |-> "not started"]
    /\ prev = [p \in Managers |-> Nobody]
    /\ checkTimes = [p \in Managers |-> CheckTimes]
    /\ stamp = [p \in Managers |-> 0]
    /\ running = {}
    /\ socket = [p \in Managers |-> {}] /\ buffered = [p \in Managers |-> {}]
    /\ signals = [p \in Managers |-> 0] /\ others = [p \in Managers |-> 0]
    /\ clock = 0 /\ owner = Nobody /\ ownedSince = 0 /\ redirect = Nobody

Goto(p, there) == pc' = [pc EXCEPT ![p] = there]

\* Waiting for a reply reads the socket.
RoundTrip(p) ==
    /\ buffered' = [buffered EXCEPT ![p] = @ \cup socket[p]]
    /\ socket' = [socket EXCEPT ![p] = {}]

\* The process ends; the server closes its connection and destroys its windows.
Exit(p, how) ==
    /\ Goto(p, how)
    /\ running' = running \ {p}
    /\ socket' = [socket EXCEPT ![p] = {}] /\ buffered' = [buffered EXCEPT ![p] = {}]
    /\ owner' = IF owner = p THEN Nobody ELSE owner
    /\ redirect' = IF redirect = p THEN Nobody ELSE redirect
    /\ UNCHANGED <<prev, checkTimes, stamp, signals, others, clock, ownedSince>>

-----------------------------------------------------------------------------
(* X11::init *)

\* Somebody starts a process; nothing obliges them to.
Launch(p) ==
    /\ pc[p] = "not started" /\ stamp[p] = 0
    /\ Goto(p, "start")
    /\ UNCHANGED <<prev, checkTimes, stamp, running, socket, buffered, signals, others,
                   clock, owner, ownedSince, redirect>>

GetTimestamp(p) ==
    /\ pc[p] = "start" /\ Goto(p, "stamped")
    /\ clock' = clock + 1
    /\ stamp' = [stamp EXCEPT ![p] = clock + 1]
    /\ UNCHANGED <<prev, checkTimes, running, socket, buffered, signals, others,
                   owner, ownedSince, redirect>>

GetSelectionOwner(p) ==
    /\ pc[p] = "stamped"
    /\ IF owner # Nobody /\ p \notin Replacing THEN Exit(p, "failed")
       ELSE /\ Goto(p, "claiming")
            /\ prev' = [prev EXCEPT ![p] = owner]
            /\ UNCHANGED <<checkTimes, stamp, running, socket, buffered, signals, others,
                           clock, owner, ownedSince, redirect>>

\* xcb_set_selection_owner: the server ignores a request older than the last change,
\* and the code does not ask whether it was.
SetSelectionOwner(p) ==
    /\ pc[p] = "claiming"
    /\ Goto(p, IF prev[p] = Nobody THEN "announcing" ELSE "waiting")
    /\ IF stamp[p] < ownedSince THEN UNCHANGED <<owner, ownedSince, socket>>
       ELSE /\ owner' = p
            /\ ownedSince' = stamp[p]
            /\ socket' = [q \in Managers |->
                             IF q = owner THEN socket[q] \cup {"SelectionClear"} ELSE socket[q]]
    /\ UNCHANGED <<prev, checkTimes, stamp, running, buffered, signals, others, clock, redirect>>

WaitNoLonger(p) ==              \* Seeded fault: at the timeout the process goes on.
    /\ pc[p] = "waiting" /\ RoundTrip(p)
    /\ IF pc[prev[p]] \in Gone \/ checkTimes[p] = 0
       THEN Goto(p, "announcing") /\ UNCHANGED checkTimes
       ELSE checkTimes' = [checkTimes EXCEPT ![p] = @ - 1] /\ UNCHANGED pc
    /\ UNCHANGED <<prev, stamp, running, signals, others, clock, owner, ownedSince, redirect>>

WaitUnchecked(p) ==             \* Seeded fault: the assertion on check_times is dropped.
    /\ pc[p] = "waiting" /\ RoundTrip(p)
    /\ IF pc[prev[p]] \in Gone THEN Goto(p, "announcing") /\ UNCHANGED checkTimes
       ELSE checkTimes' = [checkTimes EXCEPT ![p] = @ - 1] /\ UNCHANGED pc
    /\ UNCHANGED <<prev, stamp, running, signals, others, clock, owner, ownedSince, redirect>>

WaitForever(p) ==               \* Seeded fault: check_times is not decremented.
    /\ pc[p] = "waiting" /\ RoundTrip(p)
    /\ IF pc[prev[p]] \in Gone THEN Goto(p, "announcing") ELSE UNCHANGED pc
    /\ UNCHANGED <<prev, checkTimes, stamp, running, signals, others, clock, owner, ownedSince, redirect>>

\* One turn of the loop that looks for the window of the previous owner.
WaitForPrevious(p) ==
    /\ pc[p] = "waiting"
    /\ IF pc[prev[p]] \notin Gone /\ checkTimes[p] = 0 THEN Exit(p, "failed")
       ELSE /\ RoundTrip(p)
            /\ IF pc[prev[p]] \in Gone THEN Goto(p, "announcing") /\ UNCHANGED checkTimes
               ELSE checkTimes' = [checkTimes EXCEPT ![p] = @ - 1] /\ UNCHANGED pc
            /\ UNCHANGED <<prev, stamp, running, signals, others, clock, owner, ownedSince, redirect>>

\* The MANAGER message.
Announce(p) ==
    /\ pc[p] = "announcing" /\ Goto(p, "redirecting")
    /\ UNCHANGED <<prev, checkTimes, stamp, running, socket, buffered, signals, others,
                   clock, owner, ownedSince, redirect>>

RedirectUnchecked(p) ==         \* Seeded fault: the request's error is not looked at.
    /\ pc[p] = "redirecting" /\ Goto(p, "loading")
    /\ RoundTrip(p)
    /\ redirect' = IF redirect = Nobody THEN p ELSE redirect
    /\ UNCHANGED <<prev, checkTimes, stamp, running, signals, others, clock, owner, ownedSince>>

\* event::init: the server lets one client redirect the root window's children.
Redirect(p) ==
    /\ pc[p] = "redirecting"
    /\ IF redirect # Nobody THEN Exit(p, "failed")
       ELSE /\ Goto(p, "loading") /\ RoundTrip(p)
            /\ redirect' = p
            /\ UNCHANGED <<prev, checkTimes, stamp, running, signals, others, clock, owner, ownedSince>>

\* State::init, with all its round trips, and Server::Server, which sets the handlers.
LoadState(p) ==
    /\ pc[p] = "loading" /\ Goto(p, "installed")
    /\ RoundTrip(p)
    /\ UNCHANGED <<prev, checkTimes, stamp, running, signals, others, clock, owner, ownedSince, redirect>>

-----------------------------------------------------------------------------
(* Server::start and _main_loop *)

Start(p) ==
    /\ pc[p] = "installed" /\ Goto(p, "testing")
    /\ running' = running \cup {p}
    /\ UNCHANGED <<prev, checkTimes, stamp, socket, buffered, signals, others,
                   clock, owner, ownedSince, redirect>>

TestRunning(p) ==
    /\ pc[p] = "testing"
    /\ IF p \notin running THEN Exit(p, "stopped")
       ELSE /\ Goto(p, "entering")
            /\ UNCHANGED <<prev, checkTimes, stamp, running, socket, buffered, signals, others,
                           clock, owner, ownedSince, redirect>>

\* The call of select(), and its return when the socket has something to read.
Select(p) ==
    /\ \/ pc[p] = "entering" /\ Goto(p, "blocked")
       \/ pc[p] = "blocked" /\ socket[p] # {} /\ Goto(p, "polling")
    /\ UNCHANGED <<prev, checkTimes, stamp, running, socket, buffered, signals, others,
                   clock, owner, ownedSince, redirect>>

PollOnce(p) ==                  \* Seeded fault: `if` for the `while` around poll_for_event.
    /\ pc[p] = "polling"
    /\ IF buffered[p] \cup socket[p] = {}
       THEN Goto(p, "testing") /\ UNCHANGED <<running, socket, buffered>>
       ELSE \E e \in buffered[p] \cup socket[p] :
              /\ buffered' = [buffered EXCEPT ![p] = (@ \cup socket[p]) \ {e}]
              /\ socket' = [socket EXCEPT ![p] = {}]
              /\ running' = IF e = "SelectionClear" THEN running \ {p} ELSE running
              /\ Goto(p, "testing")
    /\ UNCHANGED <<prev, checkTimes, stamp, signals, others, clock, owner, ownedSince, redirect>>

\* xcb_poll_for_event and the handler of its event.  stop() when already stopped
\* throws, out of the loop and to main.
Poll(p) ==
    /\ pc[p] = "polling"
    /\ IF buffered[p] \cup socket[p] = {}
       THEN Goto(p, "testing") /\ UNCHANGED <<running, socket, buffered, owner, redirect, prev,
                checkTimes, stamp, signals, others, clock, ownedSince>>
       ELSE \E e \in buffered[p] \cup socket[p] :
              IF e = "SelectionClear" /\ p \notin running THEN Exit(p, "failed")
              ELSE /\ buffered' = [buffered EXCEPT ![p] = (@ \cup socket[p]) \ {e}]
                   /\ socket' = [socket EXCEPT ![p] = {}]
                   /\ running' = IF e = "SelectionClear" THEN running \ {p} ELSE running
                   /\ UNCHANGED <<pc, prev, checkTimes, stamp, signals, others,
                                  clock, owner, ownedSince, redirect>>

-----------------------------------------------------------------------------
(* The world *)

\* A process that listens to the root window gets other events.
SendOther(p) ==
    /\ pc[p] \in Looping
    /\ others[p] < MaxOthers
    /\ others' = [others EXCEPT ![p] = @ + 1]
    /\ socket' = [socket EXCEPT ![p] = @ \cup {"other"}]
    /\ UNCHANGED <<pc, prev, checkTimes, stamp, running, buffered, signals,
                   clock, owner, ownedSince, redirect>>

\* SIGINT, SIGQUIT or SIGTERM.  Before the handlers are set the process dies of it;
\* after, stop() throws out of a noexcept handler when the server is not running.
\* select() returns, but a signal that comes before the call is not seen by it.
Signal(p) ==
    /\ signals[p] < MaxSignals
    /\ pc[p] \in Starting \cup Looping
    /\ IF p \in running
       THEN /\ running' = running \ {p}
            /\ Goto(p, IF pc[p] = "blocked" THEN "polling" ELSE pc[p])
            /\ signals' = [signals EXCEPT ![p] = @ + 1]
            /\ UNCHANGED <<prev, checkTimes, stamp, socket, buffered, others,
                           clock, owner, ownedSince, redirect>>
       ELSE Exit(p, "terminated")

Step(p) ==
    \/ GetTimestamp(p) \/ GetSelectionOwner(p) \/ SetSelectionOwner(p) \/ WaitForPrevious(p)
    \/ Announce(p) \/ Redirect(p) \/ LoadState(p)
    \/ Start(p) \/ TestRunning(p) \/ Select(p) \/ Poll(p)

LifeNext == \E p \in Managers : Step(p) \/ Launch(p) \/ SendOther(p) \/ Signal(p)

\* The system runs a process that is not blocked; nobody need launch one, send it
\* an event or a signal.
LifeSpec == LifeInit /\ [][LifeNext]_lvars /\ \A p \in Managers : WF_lvars(Step(p))

-----------------------------------------------------------------------------
\* The type invariant.
LifeTypeOK ==
    /\ pc \in [Managers -> Starting \cup Looping \cup Gone]
    /\ prev \in [Managers -> Managers \cup {Nobody}]
    /\ checkTimes \in [Managers -> 0..CheckTimes]
    /\ running \subseteq {p \in Managers : pc[p] \in Looping}
    /\ socket \in [Managers -> SUBSET Events] /\ buffered \in [Managers -> SUBSET Events]
    /\ owner \in Managers \cup {Nobody} /\ redirect \in Managers \cup {Nobody}
    /\ \A p \in Managers : stamp[p] \in 0..clock

\* The processes that have got past X11::init.
Managing == {p \in Managers : pc[p] \in {"loading", "installed"} \cup Looping}

\* Two window managers never manage the screen at once, whoever owns the selection:
\* neither loads its windows before the other is gone.
OneManager == Cardinality(Managing) <= 1

\* A window manager that replaces another starts only when that one has ended, even
\* when the other was itself still starting, or takes longer than the timeout.
HandOver == \A p \in Managing : prev[p] # Nobody => pc[prev[p]] \in Gone

\* A process that is launched gets to its main loop or gives up: no one waits
\* forever for a previous owner that does not leave.
Settles == \A p \in Managers : pc[p] \in Starting ~> pc[p] \in {"blocked"} \cup Gone

\* A SelectionClear that comes once the main loop runs ends the process, whatever
\* signals and other events come with it.
ClearStops ==
    \A p \in Managers :
        pc[p] \in Looping /\ "SelectionClear" \in socket[p] ~> pc[p] \in Gone

\* x11.cpp:103, on the MANAGER message: "Announce that we're the new selection owner".
\* The process that announces owns the selection, or has been sent its loss.
AnnouncesOwnership ==
    \A p \in Managers : pc[p] = "announcing" =>
        owner = p \/ "SelectionClear" \in socket[p] \cup buffered[p]
=============================================================================
