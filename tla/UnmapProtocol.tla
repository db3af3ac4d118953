---------------------------- MODULE UnmapProtocol ----------------------------
(***************************************************************************)
(* How the window manager and the X server agree on which windows exist.   *)
(* A client withdraws a window by unmapping it; the window manager unmaps  *)
(* windows too, to hide them, and gets the same UnmapNotify.  It tells the *)
(* two apart by counting its own unmaps (_ignored_unmap_ids) and ignoring  *)
(* as many events.  Clients and server run while events are queued, so the *)
(* state an event was sent in is not the state it is handled in.           *)
(*                                                                         *)
(* The queue holds the structure events only: a key press or a client      *)
(* message may be ahead of any of them, so its handler may run any time.   *)
(*                                                                         *)
(* The window manager may end at any time, by a signal, an exception or a  *)
(* failed assert, and be launched again.  What it knew is lost then; what  *)
(* the server keeps, and does when the connection closes, decides which    *)
(* windows the next one finds.                                             *)
(***************************************************************************)
EXTENDS Ewmh

CONSTANTS Restless,      \* bound: the windows whose clients do anything
          MaxQueue,      \* bound on the structure events in flight
          MaxIgnored     \* bound on the count of one window

ASSUME BoundsAssumption ==
    Restless \subseteq Windows /\ MaxQueue \in Nat /\ MaxIgnored \in Nat

VARIABLES
    alive,      \* the windows that exist on the X server
    mapped,     \* those that are mapped
    selected,   \* those whose structure events are sent to the window manager
    queue,      \* the structure events not yet handled
    ignored,    \* _ignored_unmap_ids, 0 for an absent key
    asked,      \* ghost: the managed windows withdrawn or destroyed since they were managed,
                \* or managed while events of their earlier life were on their way
    spare,      \* ghost: the windows with a count that no event will match
    saved,      \* the save-set of the window manager's connection
    owed        \* ghost: the windows it managed when it ended, but for those its
                \* clients have withdrawn or destroyed

xvars == <<alive, mapped, selected, queue, ignored, asked, spare, saved, owed>>
protocolVars == <<vars, xvars, ewmhVars>>

Kinds   == {"UnmapNotify", "DestroyNotify", "MapRequest"}
Origins == {"hide", "request"}     \* the manager hid the window, or anything else
Event   == [kind : Kinds, window : Windows, origin : Origins]

Ev(k, w, o) == [kind |-> k, window |-> w, origin |-> o]

ProtocolInit ==
    /\ Init /\ EwmhInit
    /\ alive \in SUBSET Windows /\ mapped \in SUBSET alive
    /\ selected = {} /\ queue = <<>>
    /\ ignored = [w \in Windows |-> 0]
    /\ asked = {} /\ spare = {}
    /\ saved = {} /\ owed = {}

-----------------------------------------------------------------------------
(* The server and its clients.  An unmapped or destroyed window is reported *)
(* to the window manager when it has selected the window's events.          *)

UnmapEvents(w, o) ==
    IF w \in mapped \cap selected THEN <<Ev("UnmapNotify", w, o)>> ELSE <<>>

DestroyEvents(w, o) ==
    UnmapEvents(w, o) \o (IF w \in selected THEN <<Ev("DestroyNotify", w, o)>> ELSE <<>>)

Gone == status = "gone"

\* Without a window manager nobody has asked for the events.
ClientSends(events) ==
    /\ \/ Running /\ Len(queue) + Len(events) <= MaxQueue /\ queue' = queue \o events
       \/ Gone /\ UNCHANGED queue
    /\ UNCHANGED <<vars, ignored, spare>>

\* Its client takes w off the screen.
ClientEnds(w) ==
    /\ mapped' = mapped \ {w}
    /\ asked' = asked \cup ({w} \cap managed)
    /\ owed' = owed \ {w}

\* An id is used again long after it is freed, as xcb_generate_id counts up.
ClientCreate(w) ==
    /\ w \notin alive
    /\ \A i \in DOMAIN queue : queue[i].window # w
    /\ ClientSends(<<>>)
    /\ alive' = alive \cup {w}
    /\ UNCHANGED <<mapped, selected, asked, saved, owed>>

\* The map is redirected to the window manager, if there is one.
ClientMap(w) ==
    /\ w \in alive \ mapped
    /\ ClientSends(<<Ev("MapRequest", w, "request")>>)
    /\ mapped' = IF Gone THEN mapped \cup {w} ELSE mapped
    /\ UNCHANGED <<alive, selected, asked, saved, owed>>

\* ICCCM: an unmap and, sent to the root window, a synthetic UnmapNotify.
ClientWithdraw(w) ==
    /\ w \in alive
    /\ ClientSends(UnmapEvents(w, "request") \o <<Ev("UnmapNotify", w, "request")>>)
    /\ ClientEnds(w)
    /\ UNCHANGED <<alive, selected, saved>>

ClientUnmap(w) ==
    /\ w \in mapped
    /\ ClientSends(UnmapEvents(w, "request"))
    /\ ClientEnds(w)
    /\ UNCHANGED <<alive, selected, saved>>

ClientDestroy(w) ==
    /\ w \in alive
    /\ ClientSends(DestroyEvents(w, "request"))
    /\ ClientEnds(w)
    /\ alive' = alive \ {w}
    /\ selected' = selected \ {w}
    /\ saved' = saved \ {w}

-----------------------------------------------------------------------------
(* What a handler of Desktop asks of the server: Window_impl::update_state  *)
(* unmaps and counts each window that becomes minimized, and maps each that *)
(* becomes normal.                                                          *)

Hidden == {w \in managed : wstate[w] # "Minimized" /\ wstate'[w] = "Minimized"}
Shown  == {w \in managed : wstate[w] # "Normal" /\ wstate'[w] = "Normal"}

\* Seeded faults: fullscreen windows are not counted; the count is a flag.
IgnoreUnmapOfNormal ==
    [w \in Windows |-> IF w \in Hidden /\ wstate[w] = "Normal" THEN ignored[w] + 1 ELSE ignored[w]]
IgnoreUnmapOnce == [w \in Windows |-> IF w \in Hidden THEN 1 ELSE ignored[w]]

\* ignore_unmap: an unmap is counted whether the window is mapped or not.
IgnoreUnmap == [w \in Windows |-> IF w \in Hidden THEN ignored[w] + 1 ELSE ignored[w]]

\* The events of windows hidden at once are in any order.
UpdateState ==
    /\ ignored' = IgnoreUnmap
    /\ \A w \in Windows : ignored'[w] <= MaxIgnored
    /\ queue' = queue \o SetToSeq({Ev("UnmapNotify", w, "hide") : w \in Hidden \cap mapped \cap selected})
    /\ mapped' = (mapped \ Hidden) \cup (Shown \cap alive)
    /\ spare' = spare \cup (Hidden \ mapped)
    /\ UNCHANGED <<alive, selected, asked, saved, owed>>

IsUnmapIgnoredAlways(w) == w \in managed      \* Seeded fault: the key is not looked up.

\* is_unmap_ignored, of a managed window.
IsUnmapIgnored(w) == ignored[w] > 0

\* Window_impl::~Window_impl, of the windows no longer managed.
Unsave == saved' = saved \ (managed \ managed')

HandleUnmapNotDestroy(e) ==     \* Seeded fault: DestroyNotify is not converted.
    /\ e.kind \in {"UnmapNotify", "DestroyNotify"}
    /\ IF e.window \notin managed \/ e.kind = "DestroyNotify" THEN UNCHANGED <<vars, ignored>>
       ELSE IF IsUnmapIgnored(e.window)
       THEN ignored' = [ignored EXCEPT ![e.window] = @ - 1] /\ UNCHANGED vars
       ELSE UnmapNotify(e.window) /\ UNCHANGED ignored
    /\ queue' = Tail(queue)
    /\ asked' = asked \cap managed'
    /\ Unsave
    /\ UNCHANGED <<alive, mapped, selected, spare, owed>>

\* _on_unmap_notify, and _on_destroy_notify, which converts its event.
HandleUnmap(e) ==
    /\ e.kind \in {"UnmapNotify", "DestroyNotify"}
    /\ IF e.window \notin managed THEN UNCHANGED <<vars, ignored>>
       ELSE IF IsUnmapIgnored(e.window)
       THEN ignored' = [ignored EXCEPT ![e.window] = @ - 1] /\ UNCHANGED vars
       ELSE UnmapNotify(e.window) /\ UNCHANGED ignored
    /\ queue' = Tail(queue)
    /\ asked' = asked \cap managed'
    /\ Unsave
    /\ UNCHANGED <<alive, mapped, selected, spare, owed>>

\* Events of an earlier life of the window are on their way.
HasAPast(w) == \E i \in DOMAIN queue : queue[i].window = w /\ queue[i].kind # "MapRequest"

\* Window_impl::Window_impl: a window that exists is mapped, its events are selected,
\* and it is put in the save-set.
Adopt(w) ==
    /\ mapped' = mapped \cup ({w} \cap alive)
    /\ selected' = selected \cup ({w} \cap alive)
    /\ saved' = saved \cup ({w} \cap alive)

\* _on_map_request of a window that is managed, or can be.
HandleMapRequest(e) ==
    LET w == e.window IN
    /\ e.kind = "MapRequest"
    /\ w \in managed \cup alive
    /\ IF w \notin managed
       THEN /\ ManageWindow(w) /\ Adopt(w)
            /\ asked' = IF HasAPast(w) THEN asked \cup {w} ELSE asked
       ELSE /\ IF Home(w) # cur THEN UNCHANGED <<vars, mapped>>
               ELSE RemapWindow(w) /\ mapped' = mapped \cup ({w} \cap alive)
            /\ UNCHANGED <<selected, asked, saved>>
    /\ queue' = Tail(queue)
    /\ UNCHANGED <<alive, ignored, spare, owed>>

\* The window is gone: get_attribute returns null, and _manage reads through it.
MapRequestOfNoWindow(e) ==
    /\ e.kind = "MapRequest"
    /\ e.window \notin managed \cup alive
    /\ Abort("null attribute")
    /\ UNCHANGED xvars

HandleEvent ==
    /\ Running /\ queue # <<>>
    /\ LET e == Head(queue)
       IN  HandleUnmap(e) \/ HandleMapRequest(e) \/ MapRequestOfNoWindow(e)

\* Switches, messages and the focus.  The other handlers do what one of these does
\* in some state: NetCurrentDesktop a SwitchBinding, MoveFocus and FocusInRoot a
\* NetActiveWindow; a toggle of fullscreen ends as an add.
HandleOther ==
    /\ \/ \E ws \in Workspaces : SwitchBinding(ws)
       \/ \E w \in Windows : NetActiveWindow(w) \/ FocusInWindow(w)
       \/ \E w \in Windows, ws \in Workspaces : NetWmDesktop(w, ws)
       \/ \E w \in Windows, action \in {"remove", "add"} : NetWmState(w, action)
    /\ UpdateState

\* _NET_CLOSE_WINDOW of a client that takes WM_DELETE_WINDOW: it may stay.
CloseAskingTheClient(w) ==
    /\ NetCloseWindow(w)
    /\ spare' = IF ignored[w] > 0 THEN spare \cup {w} ELSE spare
    /\ asked' = asked \ {w}
    /\ Unsave
    /\ UNCHANGED <<alive, mapped, selected, queue, ignored, owed>>

\* Of any other client: the window is destroyed.
CloseDestroying(w) ==
    /\ NetCloseWindow(w)
    /\ Len(queue) + 2 <= MaxQueue
    /\ alive' = alive \ {w}
    /\ mapped' = mapped \ {w}
    /\ selected' = selected \ {w}
    /\ queue' = queue \o DestroyEvents(w, "request")
    /\ spare' = IF ignored[w] > 0 THEN spare \cup {w} ELSE spare
    /\ asked' = asked \ {w}
    /\ Unsave
    /\ UNCHANGED <<ignored, owed>>

\* load_all, with the server grabbed: a viewable window is managed.
LoadMapped(w, ws) ==
    /\ w \in mapped
    /\ LoadWindow(w, ws)
    /\ Adopt(w)
    /\ asked' = IF HasAPast(w) THEN asked \cup {w} ELSE asked
    /\ UNCHANGED <<alive, queue, ignored, spare, owed>>

LoadUnmapped(ws) ==
    /\ alive \ mapped # {}
    /\ LoadNothing(ws)
    /\ UNCHANGED xvars

\* load_all has seen every window.
FinishLoad ==
    /\ FinishInit /\ mapped \subseteq managed
    /\ owed' = {}
    /\ UNCHANGED <<alive, mapped, selected, queue, ignored, asked, spare, saved>>

-----------------------------------------------------------------------------
(* The end of the window manager.  ~State deletes every window, and        *)
(* ~Window_impl takes it out of the save-set; but xcb_disconnect drops the *)
(* requests that were not flushed, so that the server has them all still   *)
(* (the buffer holds those of some 800 windows).  It maps them and forgets *)
(* what the connection had selected; the root window's properties stay.    *)

EndFlushed ==                   \* Seeded fault: the requests of ~Window_impl reach the server.
    mapped' = mapped

\* X server: CloseDown of a connection.
CloseDown == mapped' = mapped \cup saved

ForgetAll ==
    /\ cur' = FirstWorkspace
    /\ exists' = {FirstWorkspace}
    /\ list' = [ws \in Workspaces |-> <<>>]
    /\ wsFocused' = {FirstWorkspace}
    /\ focused' = {} /\ managed' = {}
    /\ wstate' = [w \in Windows |-> "Normal"]
    /\ selected' = {} /\ queue' = <<>>
    /\ ignored' = [w \in Windows |-> 0]
    /\ asked' = {} /\ spare' = {} /\ saved' = {}
    /\ UNCHANGED <<netActive, netDesktop>>

Owing == owed \cup ((managed \cap alive) \ asked)

End ==
    /\ ~Gone
    /\ status' = "gone"
    /\ owed' = Owing
    /\ CloseDown /\ ForgetAll
    /\ UNCHANGED alive

\* A window of the tree was destroyed before load_all had grabbed the server: the
\* request for its workspace fails, and the start with it.
LoadDestroyed(w) ==
    /\ status = "loading"
    /\ w \in alive \ managed
    /\ status' = "gone"
    /\ alive' = alive \ {w}
    /\ mapped' = (mapped \cup saved) \ {w}
    /\ owed' = Owing \ {w}
    /\ ForgetAll

Relaunch ==
    /\ Gone
    /\ status' = "loading"
    /\ UNCHANGED <<cur, exists, list, wsFocused, focused, managed, wstate, netActive, netDesktop, xvars>>

ProtocolStep ==
    \/ \E w \in Windows, ws \in Workspaces : LoadMapped(w, ws)
    \/ \E ws \in Workspaces : LoadUnmapped(ws)
    \/ FinishLoad \/ HandleEvent \/ HandleOther \/ End \/ Relaunch
    \/ \E w \in Restless : \/ ClientCreate(w) \/ ClientMap(w) \/ ClientWithdraw(w)
                           \/ ClientUnmap(w) \/ ClientDestroy(w)
                           \/ CloseAskingTheClient(w) \/ CloseDestroying(w)
                           \/ LoadDestroyed(w)

ProtocolNext == ProtocolStep /\ UpdateEwmh

ProtocolSpec == ProtocolInit /\ [][ProtocolNext]_protocolVars

-----------------------------------------------------------------------------
\* The type invariant; a mapped window exists, and one count is kept per window.
ProtocolTypeOK ==
    /\ status \in {"loading", "running", "gone", "null attribute"} \cup AssertFailures
    /\ mapped \subseteq alive /\ alive \subseteq Windows /\ selected \subseteq alive
    /\ saved \subseteq alive
    /\ queue \in Seq(Event)
    /\ ignored \in [Windows -> 0..MaxIgnored]

OwnUnmaps(w) == {i \in DOMAIN queue : queue[i] = Ev("UnmapNotify", w, "hide")}

\* Every UnmapNotify on its way that the window manager caused by hiding a window
\* is covered by the count, as long as the client asks for nothing.
IgnoredCoversOwnUnmaps ==
    \A w \in managed \ asked : Cardinality(OwnUnmaps(w)) <= ignored[w]

\* Hiding a window never makes the manager lose it: an UnmapNotify or DestroyNotify
\* ends the management of a window only when its client has withdrawn or destroyed
\* it since it was managed, whatever the switches meanwhile.  Not so for a window
\* managed again while events of its earlier life were on their way: the client's
\* unmap may have used up the count of the manager's.
OnlyTheClientUnmanages ==
    [][ HandleEvent => \A w \in managed \ managed' : w \in asked ]_protocolVars

\* Once every event is handled, a managed window exists, and is mapped or not as
\* its state says, unless the manager once hid it when it was already unmapped or
\* closed it while a count was open (is_unmap_ignored then swallows the client's
\* own event).
ServerAgrees ==
    Running /\ queue = <<>> =>
        \A w \in managed \ spare :
            /\ w \in alive
            /\ wstate[w] = "Normal" => w \in mapped
            /\ wstate[w] = "Minimized" => w \notin mapped

\* A restart loses no window: whatever the manager was doing when it ended, however
\* often it ended since, and whatever it had hidden, the next one that finishes its
\* start manages every window whose client has not withdrawn or destroyed it.
RestartKeepsWindows == [][ FinishLoad => owed \subseteq managed' ]_protocolVars
=============================================================================
