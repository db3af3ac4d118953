------------------------------ MODULE Desktop -------------------------------
(***************************************************************************)
(* Workspaces, focus lists and window states: state.cpp, workspace.cpp,    *)
(* monitor.cpp and the handlers of x11/event.cpp that change them.  The    *)
(* event loop runs one handler at a time, so a handler is one step; the    *)
(* hard part is that the event it handles may have been queued when the    *)
(* state was another.  Asserts are compiled in (no build defines NDEBUG):  *)
(* one that fails ends the process, which `status` records.                *)
(*                                                                         *)
(* One monitor: every workspace is created on the current monitor, which   *)
(* is monitor 0 from State::init on.                                       *)
(***************************************************************************)
EXTENDS NodeList

CONSTANT FirstWorkspace      \* id 0, created by State::init

ASSUME FirstAssumption == FirstWorkspace \in Workspaces
ASSUME NilAssumption   == Nil \notin Windows \cup Workspaces

VARIABLES
    status,      \* "loading" (State::init), "running", or the assert that failed
    cur,         \* _current_workspace
    exists,      \* the keys of Manager<Workspace>
    list,        \* the _Window_list of each workspace, current window first
    wsFocused,   \* the workspaces whose Container::_focused is set
    focused,     \* the windows whose Container::_focused is set
    managed,     \* the keys of Manager<Window>
    wstate,      \* Window::State of each managed window
    netActive,   \* the _NET_ACTIVE_WINDOW property
    netDesktop   \* the _NET_CURRENT_DESKTOP property

vars == <<status, cur, exists, list, wsFocused, focused, managed, wstate, netActive, netDesktop>>
shown == <<cur, wsFocused, netDesktop>>        \* which workspace is current, and its flags

AssertFailures == {"assert(!_focused)", "assert(_focused)"}
States == {"Normal", "Minimized", "Maximized"}

Init ==
    /\ status = "loading"
    /\ cur = FirstWorkspace
    /\ exists = {FirstWorkspace}
    /\ list = [ws \in Workspaces |-> <<>>]
    /\ wsFocused = {FirstWorkspace}
    /\ focused = {}
    /\ managed = {}
    /\ wstate = [w \in Windows |-> "Normal"]
    /\ netActive = Nil
    /\ netDesktop = Nil

-----------------------------------------------------------------------------
(* Helpers: the workspace of a window, and what the list operations give. *)

Home(w) == CHOOSE ws \in Workspaces : w \in Elements(list[ws])

IsCurrentWindow(w, ws) == AtFront(list[ws], w)

FocusedFrontOfCurrent(ws) ==    \* Seeded fault: unfocuses the one on the screen, whatever the list.
    {w \in focused : IsCurrentWindow(w, cur)}

\* The windows that _Window_list::add and ::focus unfocus: the focused front.
FocusedFront(ws) == {w \in focused : IsCurrentWindow(w, ws)}

ToFront(w, l) == PushFront(Erase(l, w), w)

Abort(assertion) ==
    /\ status' = assertion
    /\ UNCHANGED <<cur, exists, list, wsFocused, focused, managed, wstate, netActive, netDesktop>>

-----------------------------------------------------------------------------
(* workspace.cpp *)

FocusWindowToo(w, ws) ==        \* Seeded fault: the window in front keeps its flag.
    IF ~IsCurrentWindow(w, ws) /\ w \in focused THEN Abort("assert(!_focused)")
    ELSE /\ list' = [list EXCEPT ![ws] = ToFront(w, @)]
         /\ focused' = focused \cup {w}
         /\ netActive' = w
         /\ UNCHANGED <<status, exists, managed, wstate, shown>>

\* Workspace::focus_window.  The front window is unfocused and focused again; any
\* other must not be focused already.
FocusWindow(w, ws) ==
    IF ~IsCurrentWindow(w, ws) /\ w \in focused THEN Abort("assert(!_focused)")
    ELSE /\ list' = [list EXCEPT ![ws] = ToFront(w, @)]
         /\ focused' = (focused \ FocusedFront(ws)) \cup {w}
         /\ netActive' = w
         /\ UNCHANGED <<status, exists, managed, wstate, shown>>

\* Window::try_focus_window
TryFocusWindow(w) == w \notin focused /\ FocusWindow(w, Home(w))

AlsoMovedTo(w, ws) ==           \* Seeded fault: the window stays in the list it leaves.
    [list EXCEPT ![ws] = PushFront(@, w)]

\* window::move_to_workspace, what it does to the lists: w leaves its list, if it is
\* in one, for the front of the list of ws (_Window_list::remove and ::add).
MovedTo(w, ws) ==
    LET removed == IF w \in managed THEN [list EXCEPT ![Home(w)] = Erase(@, w)] ELSE list
    IN  [removed EXCEPT ![ws] = PushFront(@, w)]

MoveToWorkspaceQuietly(w, ws) ==      \* Seeded fault: the property is not cleared.
    /\ list' = MovedTo(w, ws)
    /\ focused' = focused \ (FocusedFront(ws) \cup {w})
    /\ UNCHANGED netActive

\* Each unfocus of a focused window clears _NET_ACTIVE_WINDOW.
MoveToWorkspace(w, ws) ==
    LET losers == FocusedFront(ws) \cup (focused \cap {w})
    IN  /\ list' = MovedTo(w, ws)
        /\ focused' = focused \ losers
        /\ netActive' = IF losers = {} THEN netActive ELSE Nil

-----------------------------------------------------------------------------
(* state.cpp *)

StateOfFront(ws, st, state) ==  \* Seeded fault: only the current window changes state.
    [w \in Windows |-> IF IsCurrentWindow(w, ws) THEN state ELSE st[w]]

\* The windows of ws in their new state after minimize() or normalize().
StatesOf(ws, st, state) == [w \in Windows |-> IF w \in Elements(list[ws]) THEN state ELSE st[w]]

LeftWhenEmptied == {v \in {cur'} : list[v] = <<>>}   \* Seeded fault: _current_workspace is already the new one.

\* The workspace that switch_workspace destroys: the one left behind, when it is empty.
LeftEmpty == {v \in {cur} : list[v] = <<>>}

\* current_workspace_update: the desktop and its window are announced to pagers.
AnnounceDesktop(ws, w) == netDesktop' = ws /\ netActive' = w

\* State::switch_workspace to ws, then, for a pager's _NET_ACTIVE_WINDOW, the
\* focus of w; w is the current window of ws, Nil if it has none, otherwise.
SwitchWorkspace(ws, w) ==
    LET left == FocusedFront(cur)
        next == IF list[ws] = <<>> THEN {} ELSE {Head(list[ws])}
    IN  IF cur \notin wsFocused \/ (list[cur] # <<>> /\ left = {})
        THEN Abort("assert(_focused)")
        ELSE IF ws \in wsFocused \/ next \cap focused # {} \/ (w \notin next /\ w \in focused)
        THEN Abort("assert(!_focused)")
        ELSE /\ cur' = ws
             /\ wsFocused' = (wsFocused \ {cur}) \cup {ws}
             /\ AnnounceDesktop(ws, w)
             /\ focused' = (focused \ left) \cup ({w} \ {Nil})
             /\ list' = IF w = Nil THEN list ELSE [list EXCEPT ![ws] = ToFront(w, @)]
             /\ wstate' = StatesOf(ws, StatesOf(cur, wstate, "Minimized"), "Normal")
             /\ exists' = (exists \cup {ws}) \ LeftEmpty
             /\ UNCHANGED <<status, managed>>

SwitchTo(ws) == SwitchWorkspace(ws, IF list[ws] = <<>> THEN Nil ELSE Head(list[ws]))

\* State::unmanage_window: the focus goes to no other window.
UnmanageWindow(w) ==
    /\ w \in managed
    /\ list' = [list EXCEPT ![Home(w)] = Erase(@, w)]
    /\ focused' = focused \ {w}
    /\ netActive' = IF w \in focused THEN Nil ELSE netActive
    /\ managed' = managed \ {w}
    /\ wstate' = [wstate EXCEPT ![w] = "Normal"]
    /\ UNCHANGED <<status, exists, shown>>

-----------------------------------------------------------------------------
(* State::init: load_all, one window at a time, then the focus of the front. *)

\* A viewable window found at startup goes to the workspace its _NET_WM_DESKTOP names.
LoadWindow(w, ws) ==
    /\ status = "loading" /\ w \notin managed
    /\ MoveToWorkspace(w, ws)
    /\ managed' = managed \cup {w}
    /\ exists' = exists \cup {ws}
    /\ UNCHANGED <<status, wstate, shown>>

\* load_all creates the workspace before it finds the window cannot be managed.
LoadNothing(ws) ==
    /\ status = "loading"
    /\ exists' = exists \cup {ws}
    /\ UNCHANGED <<status, list, focused, managed, wstate, netActive, shown>>

FinishInitUnchecked ==          \* Seeded fault: focuses the front of an empty list too.
    /\ status = "loading"
    /\ status' = "running"
    /\ focused' = focused \cup {IF list[cur] = <<>> THEN Nil ELSE Head(list[cur])}
    /\ UNCHANGED <<cur, exists, list, wsFocused, managed, wstate, netActive, netDesktop>>

FinishInit ==
    /\ status = "loading"
    /\ status' = "running"
    /\ focused' = IF list[cur] = <<>> THEN focused ELSE focused \cup {Head(list[cur])}
    /\ AnnounceDesktop(cur, IF list[cur] = <<>> THEN Nil ELSE Head(list[cur]))
    /\ UNCHANGED <<cur, exists, list, wsFocused, managed, wstate>>

-----------------------------------------------------------------------------
(* The handlers of x11/event.cpp, while the event loop runs. *)

Running == status = "running"

\* MapRequest of a window not yet managed: State::manage_window.
ManageWindow(w) ==
    /\ Running /\ w \notin managed
    /\ list' = MovedTo(w, cur)
    /\ focused' = (focused \ FocusedFront(cur)) \cup {w}
    /\ netActive' = w
    /\ managed' = managed \cup {w}
    /\ UNCHANGED <<status, exists, wstate, shown>>

\* MapRequest of a managed window.
RemapWindow(w) ==
    /\ Running /\ w \in managed /\ Home(w) = cur
    /\ FocusWindow(w, cur)

\* UnmapNotify or DestroyNotify that no earlier minimize made the manager ignore.
UnmapNotify(w) == Running /\ UnmanageWindow(w)

\* FocusIn of the root window.
FocusInRoot ==
    /\ Running /\ list[cur] # <<>>
    /\ FocusWindow(Head(list[cur]), cur)

\* FocusIn of a managed window, or a ButtonPress in it.  When it is handled the
\* window may be on a workspace that is no longer current.
FocusInWindow(w) == Running /\ w \in managed /\ TryFocusWindow(w)

\* The binding Mod4+digit.
SwitchBinding(ws) == Running /\ ws # cur /\ SwitchTo(ws)

\* The binding Mod4+arrow focuses another window of the current workspace, which
\* the container tree chooses.
MoveFocus(w) ==
    /\ Running /\ w \in Elements(list[cur]) /\ ~IsCurrentWindow(w, cur)
    /\ FocusWindow(w, cur)

\* Client messages.
NetWmState(w, action) ==
    LET first  == IF wstate[w] = "Maximized" /\ action \in {"remove", "toggle"}
                  THEN "Normal" ELSE wstate[w]
        second == IF first # "Maximized" /\ action \in {"add", "toggle"}
                  THEN "Maximized" ELSE first
    IN  /\ Running /\ w \in managed
        /\ wstate' = [wstate EXCEPT ![w] = second]
        /\ UNCHANGED <<status, exists, list, focused, managed, netActive, shown>>

\* From a pager: the source indication is 2.
NetActiveWindow(w) ==
    /\ Running /\ w \in managed
    /\ IF Home(w) = cur THEN FocusWindow(w, cur) ELSE SwitchWorkspace(Home(w), w)

NetCurrentDesktop(ws) == Running /\ ws # cur /\ ws \in exists /\ SwitchTo(ws)

NetWmDesktopAnywhere(w, ws) ==  \* Seeded fault: the current workspace is not refused.
    /\ Running /\ w \in managed
    /\ exists' = exists \cup {ws}
    /\ IF ws = Home(w) THEN UNCHANGED <<list, focused, netActive>> ELSE MoveToWorkspace(w, ws)
    /\ UNCHANGED <<status, managed, wstate, shown>>

NetWmDesktop(w, ws) ==
    /\ Running /\ w \in managed /\ ws # cur
    /\ exists' = exists \cup {ws}
    /\ IF ws = Home(w) THEN UNCHANGED <<list, focused, netActive>> ELSE MoveToWorkspace(w, ws)
    /\ UNCHANGED <<status, managed, wstate, shown>>

\* The client is asked to close, or destroyed, and unmanaged at once.
NetCloseWindow(w) == Running /\ UnmanageWindow(w)

Next ==
    \/ \E w \in Windows, ws \in Workspaces : LoadWindow(w, ws) \/ NetWmDesktop(w, ws)
    \/ \E ws \in Workspaces : LoadNothing(ws) \/ SwitchBinding(ws) \/ NetCurrentDesktop(ws)
    \/ FinishInit \/ FocusInRoot
    \/ \E w \in Windows : \/ ManageWindow(w) \/ RemapWindow(w) \/ UnmapNotify(w)
                          \/ FocusInWindow(w) \/ MoveFocus(w)
                          \/ NetActiveWindow(w) \/ NetCloseWindow(w)
    \/ \E w \in Windows, action \in {"remove", "add", "toggle"} : NetWmState(w, action)

Spec == Init /\ [][Next]_vars

-----------------------------------------------------------------------------
\* The type invariant: every list, flag and property is of its kind.
StateOK ==
    /\ cur \in Workspaces
    /\ exists \subseteq Workspaces
    /\ list \in [Workspaces -> Seq(Windows)]
    /\ wsFocused \subseteq Workspaces
    /\ focused \subseteq Windows
    /\ managed \subseteq Windows
    /\ wstate \in [Windows -> States]
    /\ netActive \in Windows \cup {Nil}
    /\ netDesktop \in Workspaces \cup {Nil}

TypeOK == StateOK /\ status \in {"loading", "running"} \cup AssertFailures

\* The focus lists of the workspaces wss partition the windows.
Tidy(lists, wss, windows) ==
    /\ \A ws \in Workspaces : NoDuplicates(lists[ws])
    /\ \A ws1, ws2 \in Workspaces :
         ws1 # ws2 => Elements(lists[ws1]) \cap Elements(lists[ws2]) = {}
    /\ \A ws \in Workspaces \ wss : lists[ws] = <<>>
    /\ windows = UNION {Elements(lists[ws]) : ws \in Workspaces}

\* A managed window is in the focus list of one workspace, once, and that
\* workspace has not been destroyed: what window.root<Workspace>() and the
\* find + assert of workspace.cpp:82 and :92 rely on.
OneHome == Tidy(list, exists, managed)

\* Only the current window of a workspace can have the focus flag: the assert of
\* container.h:42 cannot fail when another window of the list is focused
\* (workspace.cpp:23), whatever the order of events.
OnlyFrontFocused == \A w \in focused : \E ws \in exists : IsCurrentWindow(w, ws)

\* The current workspace exists and it alone has the workspace focus flag, so the
\* asserts on workspaces in switch_workspace and destroy_workspace hold.
OneWorkspaceFocused == cur \in exists /\ wsFocused = {cur}

\* No window of the current workspace is minimized, whatever moves between
\* workspaces and fullscreen requests came before.
CurrentWorkspaceShown == \A w \in Elements(list[cur]) : wstate[w] # "Minimized"

\* The next MapRequest of a window finds it as a new Window object is: normal.
UnmanagedNormal == \A w \in Windows \ managed : wstate[w] = "Normal"

\* _NET_ACTIVE_WINDOW never names a window that is gone or has lost the focus.
ActiveIsFocused == netActive # Nil => netActive \in focused

\* The current window of the workspace on the screen, if there is one, has the focus flag.
FrontHasFocus == \A w \in Windows : IsCurrentWindow(w, cur) => w \in focused

\* Once State::init is done, the screen loses the focus only with its window: a step
\* after which the current window of the current workspace lacks the flag took the one
\* that had it away (closed, or sent to another workspace), or found it lacking.  No
\* switch ends like that, and nothing done to a hidden workspace takes the flag from
\* the window on the screen (state.cpp:102-145, window.cpp:99-158, workspace.cpp:8-33).
FocusLeavesWithItsWindow ==
    [][ status' = "running" /\ ~FrontHasFocus' =>
          /\ status = "running" /\ cur' = cur
          /\ FrontHasFocus => \E w \in focused : /\ IsCurrentWindow(w, cur)
                                               /\ w \notin Elements(list'[cur]) ]_vars

\* container.h:48 asserts that what loses the focus had it.
UnfocusAssertHolds == status # "assert(_focused)"

\* container.h:42 asserts that what gets the focus did not have it.
FocusAssertHolds == status # "assert(!_focused)"

-----------------------------------------------------------------------------
\* The windows' homes, as Placement promises them.
Homes == [w \in Windows |-> IF w \in managed THEN Home(w) ELSE Nil]

Promised == INSTANCE Placement WITH home <- Homes, current <- cur

\* The handlers implement Placement: a window changes its home only by a request
\* about that window, and never by a switch of workspaces.
ImplementsPlacement == Promised!Spec

=============================================================================
