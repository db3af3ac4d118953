------------------------------- MODULE Cubewm -------------------------------
(***************************************************************************)
(* The window manager's state as a whole: the focus lists, flags and       *)
(* window states of Desktop and the container tree of LayoutTree, changed  *)
(* together by each handler.  The tree is told the current window of a     *)
(* workspace by the focus list, and which windows take their geometry by   *)
(* their state.                                                            *)
(***************************************************************************)
EXTENDS Desktop, LayoutTree

VARIABLE tree

allVars == <<vars, tree>>

CubewmInit == Init /\ tree = EmptyTree

-----------------------------------------------------------------------------
CurrentWindow(ws) == IF list[ws] = <<>> THEN Nil ELSE Head(list[ws])

\* Monitor::_update_rect_fn lays out every workspace again.
UpdateMonitorRect(t) == [t EXCEPT !.stale = @ \ (Layouts \cup t.normal)]

\* get_or_create_workspace: a workspace is created with the layout of them all.
Created(ws) == IF ws \in exists THEN tree ELSE UpdateMonitorRect(tree)

\* The handler leaves the tree t; its windows follow the states of the same step.
TreeBecomes(t) == tree' = [t EXCEPT !.normal = {w \in Windows : wstate'[w] = "Normal"}]

-----------------------------------------------------------------------------
(* Each action is a handler of Desktop with what it does to the tree.  The  *)
(* handlers not named do what one of these does: NetCloseWindow what        *)
(* UnmapNotify does, NetCurrentDesktop a SwitchBinding, RemapWindow and     *)
(* FocusInRoot a NetActiveWindow; a toggle of fullscreen ends as an add.    *)

Load(w, ws) ==
    /\ LoadWindow(w, ws)
    /\ TreeBecomes(MoveToWorkspaceTree(Created(ws), w, ws, CurrentWindow(ws)))

LoadOnlyWorkspace(ws) == LoadNothing(ws) /\ TreeBecomes(Created(ws))

Arrive(w) ==
    /\ ManageWindow(w)
    /\ TreeBecomes(MoveToWorkspaceTree(tree, w, cur, CurrentWindow(cur)))

LeaveTheTree(w) ==              \* Seeded fault: the window is not taken out of the tree.
    /\ UnmapNotify(w)
    /\ TreeBecomes(Forget(tree, w))

LeaveTheMark(w) ==              \* Seeded fault: the mark outlives the Window object.
    /\ UnmapNotify(w)
    /\ TreeBecomes(PurgeAndReconfigure(tree, w))

Leave(w) ==
    /\ UnmapNotify(w)
    /\ TreeBecomes(Forget(PurgeAndReconfigure(tree, w), w))

Send(w, ws) ==
    /\ NetWmDesktop(w, ws)
    /\ TreeBecomes(MoveToWorkspaceTree(Created(ws), w, ws, CurrentWindow(ws)))

Switch(ws) ==
    /\ SwitchBinding(ws)
    /\ TreeBecomes(Created(ws))

\* Mod4+arrow: the tree chooses the window.
FocusNeighbour(dir) ==
    /\ list[cur] # <<>>
    /\ MoveFocus(MoveFocusTarget(tree, Head(list[cur]), dir))
    /\ TreeBecomes(tree)

Focus(w) == (FocusInWindow(w) \/ NetActiveWindow(w)) /\ TreeBecomes(tree)

Fullscreen(w, action) == NetWmState(w, action) /\ TreeBecomes(tree)

\* The bindings Mod4+Shift+arrow, Mod4+v and Mod4+h act on the current window.
MoveContainer(dir) ==
    /\ Running /\ list[cur] # <<>>
    /\ tree' = MoveContainerTree(tree, Head(list[cur]), cur, dir)
    /\ UNCHANGED vars

ChangeLayoutType(ty) ==
    /\ Running /\ list[cur] # <<>>
    /\ tree' = [tree EXCEPT !.mark[Head(list[cur])] = ty]
    /\ UNCHANGED vars

FinishLoading == FinishInit /\ TreeBecomes(tree)

CubewmNext ==
    \/ \E w \in Windows, ws \in Workspaces : Load(w, ws) \/ Send(w, ws)
    \/ \E ws \in Workspaces : LoadOnlyWorkspace(ws) \/ Switch(ws)
    \/ FinishLoading
    \/ \E w \in Windows : Arrive(w) \/ Leave(w) \/ Focus(w)
    \/ \E w \in Windows, action \in {"remove", "add"} : Fullscreen(w, action)
    \/ \E dir \in Directions : FocusNeighbour(dir) \/ MoveContainer(dir)
    \/ \E ty \in Types : ChangeLayoutType(ty)

CubewmSpec == CubewmInit /\ [][CubewmNext]_allVars

-----------------------------------------------------------------------------
\* The type invariant of Desktop, and of the tree beside it.
CubewmTypeOK == TypeOK /\ tree \in Tree

\* The tree of a workspace holds the windows of its focus list and no others.  So
\* has_window() implies that tiling_layout() does not throw, the size() == 1 of
\* switch_workspace destroys no workspace that has windows, and current_window
\* has a parent on the workspace a window is placed on.
TreeMatchesLists ==
    \A ws \in Workspaces : WindowsOf(tree, ws) = Elements(list[ws])

\* Mod4+arrow picks a window of the current workspace, whose focus list
\* focus_window then searches (the assert of workspace.cpp:82).
NeighbourIsHere ==
    list[cur] # <<>> => \A dir \in Directions :
        MoveFocusTarget(tree, Head(list[cur]), dir) \in Elements(list[cur])

\* Rectangles are always right, and the geometry of a window stops being the one
\* of its place only by a step that finds the window hidden or fullscreen.
OnlyUnseenGoStale ==
    [][ tree'.stale \ tree.stale \subseteq {w \in managed : wstate[w] # "Normal"} ]_allVars

\* The handlers change the tree as Tiling allows, with the current window that
\* the focus list names.  Which windows are configured is not Tiling's concern.
Structure == [tree EXCEPT !.normal = Windows, !.stale = {}]

Tiled == INSTANCE Tiling WITH tree <- Structure, Sparse <- {}

ImplementsTiling == Tiled!Spec

\* window.h:126: normalize() is to "Show window if its minimized, or return window
\* to its place from maximize": a normal window of the current workspace has the
\* geometry of its place in the tree.
NormalWindowInPlace ==
    status = "running" =>
        \A w \in Elements(list[cur]) : wstate[w] = "Normal" => w \notin tree.stale

=============================================================================
