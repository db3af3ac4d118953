----------------------------- MODULE LayoutTree -----------------------------
(***************************************************************************)
(* The container tree of cubewm: node.h, layout.h, the tree surgery of     *)
(* window.cpp and of binding.cpp, as operators from a tree to a tree.      *)
(*                                                                         *)
(* A workspace is a root, a window is a leaf, a layout is an inner node.   *)
(* The floating layout every workspace owns is left out: no call of the    *)
(* program ever puts a window in it, so "workspace.size() == 1" in the     *)
(* code is kids[workspace] = <<>> here.                                    *)
(***************************************************************************)
EXTENDS NodeList

CONSTANT Layouts      \* the addresses `new Layout` may return

ASSUME KindsAssumption ==
    /\ Windows \cap Layouts = {} /\ Windows \cap Workspaces = {}
    /\ Layouts \cap Workspaces = {}
    /\ Nil \notin Windows \cup Layouts \cup Workspaces

ASSUME PoolAssumption ==
    /\ IsFiniteSet(Layouts)
    /\ IsFiniteSet(Windows)
    /\ Cardinality(Layouts) >= Cardinality(Windows)

Items   == Windows \cup Layouts      \* the nodes that have a parent
Parents == Layouts \cup Workspaces   \* the nodes that have children

Types      == {"Horizontal", "Vertical"}
Marks      == Types \cup {"Floating"}    \* "Floating" is the mark of an unmarked window
Directions == {"Left", "Up", "Right", "Down"}
Backward   == {"Left", "Up"}             \* _direction_action calls prev_fn for these

(***************************************************************************)
(* A tree: `live` are the layouts not yet deleted, `mark` the layout mark  *)
(* of each window, `normal` the windows in State::Normal.  `stale` is a    *)
(* ghost: the nodes whose rectangle (for a window: the geometry given to   *)
(* the X server) is not the one the tree prescribes.                       *)
(***************************************************************************)
Tree == [parent : [Items -> Parents \cup {Nil}],
         kids   : [Parents -> Seq(Items)],
         type   : [Layouts -> Types],
         live   : SUBSET Layouts,
         mark   : [Windows -> Marks],
         normal : SUBSET Windows,
         stale  : SUBSET Items]

EmptyTree == [parent |-> [n \in Items |-> Nil],
              kids   |-> [p \in Parents |-> <<>>],
              type   |-> [l \in Layouts |-> "Horizontal"],
              live   |-> {},
              mark   |-> [w \in Windows |-> "Floating"],
              normal |-> Windows,
              stale  |-> {}]

-----------------------------------------------------------------------------
(* Walking up.  Climb(t, n)[k] is the k-th ancestor of n, Nil past the root. *)

Height == Cardinality(Layouts) + 1

Climb(t, n) ==
    LET up[k \in 0..Height] ==
            IF k = 0 THEN n
            ELSE IF up[k-1] \in Items THEN t.parent[up[k-1]] ELSE Nil
    IN  up

Ancestors(t, n) == LET up == Climb(t, n) IN {up[k] : k \in 1..Height} \ {Nil}

\* What lies below n, level by level.
Levels(t, n) ==
    LET level[k \in 0..Height] ==
            IF k = 0 THEN {n}
            ELSE UNION {Elements(t.kids[p]) : p \in level[k-1] \cap Parents}
    IN  level

Below(t, n) == UNION {Levels(t, n)[k] : k \in 1..Height}

\* get_root: the workspaces above a node (exactly one when it is placed).
RootsOf(t, n)      == Ancestors(t, n) \cap Workspaces
WindowsOf(t, ws)   == Below(t, ws) \cap Windows
Placed(t)          == {w \in Windows : t.parent[w] # Nil}
TilingLayout(t, ws) == Last(t.kids[ws])

IndexOf(t, n)      == Position(t.kids[t.parent[n]], n)

\* The windows of a workspace in the order of the tree, left to right and top to bottom.
LeafOrder(t, ws) ==
    LET Expand(n)  == IF n \in Windows THEN <<n>> ELSE t.kids[n]
        row[k \in 0..Height] ==
            IF k = 0 THEN <<ws>>
            ELSE LET last == row[k-1] IN FlattenSeq([i \in DOMAIN last |-> Expand(last[i])])
    IN  row[Height]

-----------------------------------------------------------------------------
(* node.h.  Every change of a child list makes the rectangles below stale. *)

Touch(t, p) == [t EXCEPT !.stale = @ \cup Below(t, p)]

RemoveChild(t, p, n) ==
    Touch([t EXCEPT !.parent[n] = Nil, !.kids[p] = Erase(@, n)], p)

InsertChild(t, p, i, n) ==
    Touch([t EXCEPT !.parent[n] = p, !.kids[p] = InsertAt(@, i, n)], p)

AddChild(t, p, n) == InsertChild(t, p, Len(t.kids[p]) + 1, n)

\* shift_child_forward / shift_child_backward: n changes places with its neighbour at j.
ShiftChild(t, p, i, j) ==
    Touch([t EXCEPT !.kids[p] = [@ EXCEPT ![i] = t.kids[p][j], ![j] = t.kids[p][i]]], p)

\* `new Layout(type)`; the address is the pool's choice.
Fresh(t)          == CHOOSE l \in Layouts : l \notin t.live
New(t, l, ty)     == [t EXCEPT !.live = @ \cup {l}, !.type[l] = ty]
\* `delete layout`, whose fields are reset so that equal trees are equal values.
Delete(t, l)      == [t EXCEPT !.live = @ \ {l}, !.type[l] = "Horizontal", !.stale = @ \ {l}]

(***************************************************************************)
(* Container::update_rect recomputes what lies below n from n's own        *)
(* rectangle.  Window_impl::update_rect hands the new rectangle to the X   *)
(* server only when the window is in State::Normal.                        *)
(***************************************************************************)
UpdateRectShallow(t, n) ==      \* Seeded fault: only the children of n are laid out.
    [t EXCEPT !.stale = @ \ (Elements(t.kids[n]) \cap (Layouts \cup t.normal))]

UpdateRect(t, n) ==
    IF n \in t.stale THEN t
    ELSE [t EXCEPT !.stale = @ \ (Below(t, n) \cap (Layouts \cup t.normal))]

SetTypeOnly(t, l, ty) ==        \* Seeded fault: the type setter lays nothing out.
    Touch([t EXCEPT !.type[l] = ty], l)

SetType(t, l, ty) == UpdateRect(Touch([t EXCEPT !.type[l] = ty], l), l)

-----------------------------------------------------------------------------
(* window.cpp *)

IsMarkedAtAll(t, w) ==          \* Seeded fault: unmarked windows count as marked.
    t.parent[w] # Nil /\ t.mark[w] # t.type[t.parent[w]]

IsMarked(t, w) ==
    /\ t.parent[w] # Nil
    /\ t.mark[w] # "Floating"
    /\ t.mark[w] # t.type[t.parent[w]]

IsSoleAnywhere(t, n) ==         \* Seeded fault: a top layout is purged for a window too.
    Len(t.kids[n]) = 1

\* When _purge_sole_node replaces n by its only child.
IsSole(t, n) ==
    /\ Len(t.kids[n]) = 1
    /\ t.kids[n][1] \in Windows => t.parent[n] \notin Workspaces

\* Puts n, which has no parent, where the child m of p is, and detaches m.
Replace(t, p, m, n) ==
    Touch([t EXCEPT !.parent = [@ EXCEPT ![m] = Nil, ![n] = p],
                    !.kids[p] = [@ EXCEPT ![IndexOf(t, m)] = n]], p)

PurgeSoleNodeLeaking(t, n) ==   \* Seeded fault: the purged layout is not deleted.
    IF ~IsSole(t, n) THEN t
    ELSE LET p == t.parent[n]
             child == t.kids[n][1]
         IN  UpdateRect(Replace(RemoveChild(t, n, child), p, n, child), p)

PurgeSoleNodeAtEnd(t, n) ==     \* Seeded fault: the child goes to the end of its new siblings.
    IF ~IsSole(t, n) THEN t
    ELSE LET p == t.parent[n]
             child == t.kids[n][1]
             t1 == RemoveChild(RemoveChild(t, n, child), p, n)
         IN  UpdateRect(Delete(AddChild(t1, p, child), n), p)

PurgeSoleNode(t, n) ==
    IF ~IsSole(t, n) THEN t
    ELSE LET p     == t.parent[n]
             child == t.kids[n][1]
         IN  UpdateRect(Delete(Replace(RemoveChild(t, n, child), p, n, child), n), p)

PurgeAndReconfigure(t, w) ==
    LET p  == t.parent[w]
        g  == t.parent[p]
        t1 == RemoveChild(t, p, w)
    IN  IF t1.kids[p] = <<>> THEN UpdateRect(Delete(RemoveChild(t1, g, p), p), g)
        ELSE IF IsSole(t1, p) THEN PurgeSoleNode(t1, p)
        ELSE UpdateRect(t1, p)

MoveToLayoutLeaving(t, w, l, i) ==    \* Seeded fault: the layout left behind is not purged.
    LET t1 == InsertChild(RemoveChild(t, t.parent[w], w), l, i, w)
    IN  UpdateRect(UpdateRect(t1, t.parent[w]), t1.parent[l])

MoveToLayoutThere(t, w, l, i) ==      \* Seeded fault: only the layout joined is laid out.
    LET p  == t.parent[w]
        t1 == InsertChild(RemoveChild(t, p, w), l, i, w)
    IN  UpdateRect(PurgeSoleNode(t1, p), l)

\* The window leaves its parent for position i of layout l.
MoveToLayout(t, w, l, i) ==
    LET p  == t.parent[w]
        t1 == InsertChild(RemoveChild(t, p, w), l, i, w)
        t2 == PurgeSoleNode(t1, p)
    IN  UpdateRect(t2, t2.parent[l])

\* The mark's type is read before the window is purged, as the code's copy of it is.
MoveToMarkedWindow(t, w, marked) ==
    LET ty == t.mark[marked]
        t1 == IF t.parent[w] # Nil THEN PurgeAndReconfigure(t, w) ELSE t
        p  == t1.parent[marked]
        l  == Fresh(t1)
    IN  IF Len(t1.kids[p]) > 1
        THEN UpdateRect(AddChild(AddChild(
                 Replace(New(t1, l, ty), p, marked, l), l, marked), l, w), p)
        ELSE SetType(AddChild(t1, p, w), p, ty)

\* The part of move_to_workspace that follows the removal from the last workspace.
\* `current` is the workspace's current window, Nil when it has none.
PlaceWindow(t, w, ws, current) ==
    IF t.kids[ws] = <<>>
    THEN LET l == Fresh(t)
         IN  UpdateRect(AddChild(AddChild(New(t, l, "Horizontal"), l, w), ws, l), ws)
    ELSE IF IsMarked(t, current) THEN MoveToMarkedWindow(t, w, current)
    ELSE LET p == t.parent[current]
         IN  UpdateRect(InsertChild(t, p, IndexOf(t, current) + 1, w), p)

MoveToWorkspaceTree(t, w, ws, current) ==
    IF ws \in RootsOf(t, w) THEN t
    ELSE PlaceWindow(IF t.parent[w] # Nil THEN PurgeAndReconfigure(t, w) ELSE t,
                     w, ws, current)

\* What deleting the Window object takes with it: its mark.
Forget(t, w) == [t EXCEPT !.mark[w] = "Floating", !.stale = @ \ {w}]

-----------------------------------------------------------------------------
(* binding.cpp *)

IsCompatible(ty, dir) == (ty = "Horizontal") <=> (dir \in {"Left", "Right"})
InverseType(ty) == IF ty = "Horizontal" THEN "Vertical" ELSE "Horizontal"

\* The iterations of _find_direction_compatible_node at which the parent is compatible.
CompatibleSteps(t, n, dir) ==
    {k \in 1..Height : /\ Climb(t, n)[k] \in Layouts
                       /\ IsCompatible(t.type[Climb(t, n)[k]], dir)}

\* How many times the loop of _find_direction_compatible_node runs.
SearchLength(t, n, dir) ==
    LET steps == CompatibleSteps(t, n, dir)
    IN  IF steps = {} THEN Cardinality(Ancestors(t, n) \cap Layouts) ELSE Min(steps)

FindDirectionCompatibleNode(t, n, dir) ==
    LET steps == CompatibleSteps(t, n, dir)
    IN  IF steps = {} THEN Nil
        ELSE LET node == Climb(t, n)[Min(steps) - 1]
             IN  IF Len(t.kids[t.parent[node]]) = 1 THEN Nil ELSE node

MoveToAdjacentNode(t, w, node, dir) ==
    LET t0   == [t EXCEPT !.mark[w] = "Floating"]
        p    == t.parent[node]
        i    == IndexOf(t, node)
        back == dir \in Backward
        j    == IF back THEN i - 1 ELSE i + 1
        adj  == t.kids[p][j]
    IN  IF j \notin 1..Len(t.kids[p])
        THEN IF t.type[p] = t.type[t.parent[w]] THEN t0
             ELSE MoveToLayout(t0, w, p, IF back THEN 1 ELSE Len(t.kids[p]) + 1)
        ELSE IF adj \in Layouts THEN MoveToLayout(t0, w, adj, Len(t.kids[adj]) + 1)
        ELSE IF IsMarked(t0, adj) THEN MoveToMarkedWindow(t0, w, adj)
        ELSE IF p = t.parent[w] THEN UpdateRect(ShiftChild(t0, p, i, j), p)
        ELSE MoveToLayout(t0, w, p, IF back THEN i ELSE j)

WrapTopAtEnd(t, w, ws, dir) ==        \* Seeded fault: the direction is not looked at.
    LET top == TilingLayout(t, ws)
        l   == Fresh(t)
        t1  == New(RemoveChild(t, ws, top), l, InverseType(t.type[top]))
    IN  AddChild(AddChild(AddChild(t1, l, top), l, w), ws, l)

\* A new top layout holding the window and the old top layout.
WrapTop(t, w, ws, dir) ==
    LET top == TilingLayout(t, ws)
        l   == Fresh(t)
        t1  == New(RemoveChild(t, ws, top), l, InverseType(t.type[top]))
    IN  AddChild(IF dir \in Backward THEN AddChild(AddChild(t1, l, w), l, top)
                 ELSE AddChild(AddChild(t1, l, top), l, w), ws, l)

MoveToTopNodeStale(t, w, ws, dir) ==  \* Seeded fault: the top layout is read before the purge.
    LET top == TilingLayout(t, ws)
        t1  == PurgeAndReconfigure(t, w)
    IN  UpdateRect(AddChild(t1, top, w), ws)

MoveToTopNode(t, w, ws, dir) ==
    LET t1  == PurgeAndReconfigure(t, w)
        top == TilingLayout(t1, ws)
        ty  == t1.type[top]
    IN  UpdateRect(
          IF IsCompatible(ty, dir) THEN AddChild(t1, top, w)
          ELSE IF Len(t1.kids[top]) = 1
          THEN InsertChild(SetType(t1, top, InverseType(ty)), top,
                           IF dir \in Backward THEN 1 ELSE Len(t1.kids[top]) + 1, w)
          ELSE WrapTop(t1, w, ws, dir), ws)

\* Move_container::execute for the current window w of workspace ws.
MoveContainerTree(t, w, ws, dir) ==
    LET node == FindDirectionCompatibleNode(t, w, dir)
        top  == TilingLayout(t, ws)
    IN  IF node # Nil THEN MoveToAdjacentNode(t, w, node, dir)
        ELSE IF Len(t.kids[top]) = 1 \/ IsCompatible(t.type[top], dir) THEN t
        ELSE MoveToTopNode(t, w, ws, dir)

\* get_front_leaf, step by step: the first child, until a window is met.
FrontWalk(t, n) ==
    LET down[k \in 0..Height] ==
            IF k = 0 THEN n
            ELSE IF down[k-1] \in Windows THEN down[k-1] ELSE Head(t.kids[down[k-1]])
    IN  down

FrontLeaf(t, n) == FrontWalk(t, n)[Height]

MoveFocusToNode(t, w, dir) ==         \* Seeded fault: the neighbour itself, not its front leaf.
    LET node == FindDirectionCompatibleNode(t, w, dir)
        sibs == t.kids[t.parent[node]]
        i    == IndexOf(t, node)
    IN  IF node = Nil THEN w ELSE sibs[IF i = 1 THEN Len(sibs) ELSE i - 1]

\* Move_focus::execute: the window that gets the focus, w itself when the focus stays.
MoveFocusTarget(t, w, dir) ==
    LET node == FindDirectionCompatibleNode(t, w, dir)
        sibs == t.kids[t.parent[node]]
        i    == IndexOf(t, node)
        j    == IF dir \in Backward THEN (IF i = 1 THEN Len(sibs) ELSE i - 1)
                                    ELSE (IF i = Len(sibs) THEN 1 ELSE i + 1)
    IN  IF node = Nil THEN w ELSE FrontLeaf(t, sibs[j])
=============================================================================
