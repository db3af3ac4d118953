------------------------------- MODULE Tiling -------------------------------
(***************************************************************************)
(* The container tree as a state machine: what MapRequest, UnmapNotify,    *)
(* _NET_WM_DESKTOP and the key bindings do to it.  The current window of a *)
(* workspace is the front of its focus list, which the module Desktop      *)
(* models; here it is any window of the workspace, as a click can focus    *)
(* any of them.  Every window is in State::Normal.                         *)
(***************************************************************************)
EXTENDS LayoutTree

CONSTANT Sparse      \* bound: the workspaces that hold no more than one window

ASSUME SparseAssumption == Sparse \subseteq Workspaces

VARIABLE tree

Init == tree = EmptyTree

\* The possible answers of workspace.current_window().
Currents(ws) == IF WindowsOf(tree, ws) = {} THEN {Nil} ELSE WindowsOf(tree, ws)

HasRoom(ws) == ws \in Sparse => WindowsOf(tree, ws) = {}

\* A new window is managed on a workspace.
Manage(w, ws) ==
    /\ w \notin Placed(tree) /\ HasRoom(ws)
    /\ \E current \in Currents(ws) : tree' = MoveToWorkspaceTree(tree, w, ws, current)

\* A managed window is moved to another workspace.
Move(w, ws) ==
    /\ w \in Placed(tree)
    /\ ws \notin RootsOf(tree, w) /\ HasRoom(ws)
    /\ \E current \in Currents(ws) : tree' = MoveToWorkspaceTree(tree, w, ws, current)

Unmanage(w) ==
    /\ w \in Placed(tree)
    /\ tree' = Forget(PurgeAndReconfigure(tree, w), w)

\* The binding Mod4+Shift+arrow.
MoveContainer(w, dir) ==
    \E ws \in RootsOf(tree, w) : tree' = MoveContainerTree(tree, w, ws, dir)

\* The bindings Mod4+v and Mod4+h mark the current window.
ChangeLayoutType(w, ty) ==
    /\ w \in Placed(tree)
    /\ tree' = [tree EXCEPT !.mark[w] = ty]

Next ==
    \/ \E w \in Windows, ws \in Workspaces : Manage(w, ws) \/ Move(w, ws)
    \/ \E w \in Windows : Unmanage(w)
    \/ \E w \in Windows, dir \in Directions : MoveContainer(w, dir)
    \/ \E w \in Windows, ty \in Types : ChangeLayoutType(w, ty)

Spec == Init /\ [][Next]_tree

-----------------------------------------------------------------------------
\* Every link of the tree is to a node of its kind, marks and types are legal.
TypeOK == tree \in Tree

\* Parent pointers and child lists agree, no node is listed twice, no list
\* holds a deleted layout, and a deleted layout holds nothing: what the raw
\* pointers of node.h need for `find` and `delete` to be safe.
LinksAgree ==
    /\ \A p \in Parents : NoDuplicates(tree.kids[p])
    /\ \A p \in Parents, n \in Items :
         (tree.parent[n] = p) <=> (n \in Elements(tree.kids[p]))
    /\ \A p \in Parents : tree.kids[p] # <<>> => p \in tree.live \cup Workspaces
    /\ \A p \in Parents : Elements(tree.kids[p]) \cap Layouts \subseteq tree.live

\* get_root reaches a workspace from every window and every layout that was
\* not deleted (the assert of node.h:170), so no layout leaks and there is no cycle.
Rooted ==
    \A n \in Placed(tree) \cup tree.live : Cardinality(RootsOf(tree, n)) = 1

\* A workspace has at most one tiling layout and no window of its own
\* (the assert of node.h:114), as tiling_layout() and size() == 1 assume.
OneTilingLayout ==
    \A ws \in Workspaces : /\ Len(tree.kids[ws]) <= 1
                           /\ Elements(tree.kids[ws]) \subseteq Layouts

\* No operation leaves an empty layout, nor a layout with a single child,
\* except a top layout whose only child is a window.
NoHollowLayout ==
    \A l \in tree.live :
        /\ tree.kids[l] # <<>>
        /\ Len(tree.kids[l]) = 1 => /\ tree.parent[l] \in Workspaces
                                    /\ tree.kids[l][1] \in Windows

\* Every operation that changes the tree ends with an update_rect that reaches
\* every node whose rectangle it changed.
GeometryFresh == tree.stale = {}

\* The list without one of its windows.
Without(s, w) == IF w \in Elements(s) THEN Erase(s, w) ELSE s

\* A step moves one window: on every workspace the other windows stay, in the
\* same left-to-right, top-to-bottom order, whatever layouts the step creates,
\* collapses, wraps or inverts.
OthersKeepOrder ==
    [][ LET before == [ws \in Workspaces |-> LeafOrder(tree, ws)]
            after  == [ws \in Workspaces |-> LeafOrder(tree', ws)]
        IN  \E w \in Windows : \A ws \in Workspaces :
                Without(before[ws], w) = Without(after[ws], w) ]_tree

\* The top layout holds the window and one layout, which replaces it when the window leaves.
TopCollapses(t, w, ws) ==
    LET top == TilingLayout(t, ws)
    IN  t.parent[w] = top /\ Len(t.kids[top]) = 2 /\ Elements(t.kids[top]) \cap Layouts # {}

\* Mod4+Shift+arrow moves the window the way the arrow points or leaves it in
\* place: Right and Down never put it earlier in the order of the windows, Left
\* and Up never later.  The exception: when its departure collapses the top
\* layout, _move_to_top_node appends it whatever the direction.
MovesInDirection ==
    \A w \in Windows, dir \in Directions : \A ws \in RootsOf(tree, w) :
        ~TopCollapses(tree, w, ws) =>
            LET before == Position(LeafOrder(tree, ws), w)
                after  == Position(LeafOrder(MoveContainerTree(tree, w, ws, dir), ws), w)
            IN  IF dir \in Backward THEN after <= before ELSE after >= before

\* binding.cpp:102 on the search of _find_direction_compatible_node:
\* "If the implementation consistent, it will only loop 2 times max."
LoopsTwiceAtMost ==
    \A w \in Placed(tree), dir \in Directions : SearchLength(tree, w, dir) <= 2

=============================================================================
