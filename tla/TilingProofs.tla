---------------------------- MODULE TilingProofs ----------------------------
(***************************************************************************)
(* The container tree stays a tree: the invariants of Tiling for any       *)
(* number of windows, layouts and workspaces.                              *)
(***************************************************************************)
EXTENDS Tiling, LayoutTreeProofs

\* Every handler takes a tree to a tree.
LEMMA StepKeepsTree == ASSUME TreeInv(tree), [Next]_tree  PROVE TreeInv(tree')

<1>1. ASSUME NEW w \in Windows, NEW ws \in Workspaces, Manage(w, ws)  PROVE TreeInv(tree')
  <2>1. PICK current \in Currents(ws) : tree' = MoveToWorkspaceTree(tree, w, ws, current)
    BY <1>1 DEF Manage
  <2>2. ws \notin RootsOf(tree, w)
    BY <1>1, LooseHasNoRoot DEF Manage, Placed, TreeInv

  <2>3. tree.kids[ws] # <<>> => current \in Windows \ {w} /\ tree.parent[current] # Nil
    BY <2>2, CurrentIsBelow DEF Currents
  <2>4. TreeInv(MoveToWorkspaceTree(tree, w, ws, current))  BY <2>3, MoveToWorkspaceKeeps
  <2> QED  BY <2>1, <2>4

<1>2. ASSUME NEW w \in Windows, NEW ws \in Workspaces, Move(w, ws)  PROVE TreeInv(tree')
  <2>1. PICK current \in Currents(ws) : tree' = MoveToWorkspaceTree(tree, w, ws, current)
    BY <1>2 DEF Move
  <2>2. tree.kids[ws] # <<>> => current \in Windows \ {w} /\ tree.parent[current] # Nil
    BY <1>2, CurrentIsBelow DEF Move, Currents
  <2>3. TreeInv(MoveToWorkspaceTree(tree, w, ws, current))  BY <2>2, MoveToWorkspaceKeeps
  <2> QED  BY <2>1, <2>3
<1>3. ASSUME NEW w \in Windows, Unmanage(w)  PROVE TreeInv(tree')
  <2> DEFINE u == PurgeAndReconfigure(tree, w)
  <2>1. tree' = Forget(u, w) /\ tree.parent[w] # Nil  BY <1>3 DEF Unmanage, Placed
  <2>2. TreeInv(u)  BY <2>1, PurgeKeeps
  <2> HIDE DEF u
  <2>3. u \in Tree  BY <2>2 DEF TreeInv, Linked
  <2>4. /\ tree' \in Tree /\ tree'.parent = u.parent /\ tree'.kids = u.kids
        /\ tree'.live = u.live
    BY <2>1, <2>3 DEF Forget, Tree, Marks
  <2> QED  BY <2>2, <2>4 DEF TreeInv, Linked, Acyclic, Ranks, Shaped, Full
<1>4. ASSUME NEW w \in Windows, NEW dir \in Directions, MoveContainer(w, dir)
      PROVE  TreeInv(tree')
  <2>1. PICK ws \in RootsOf(tree, w) : tree' = MoveContainerTree(tree, w, ws, dir)
    BY <1>4 DEF MoveContainer
  <2>2. TreeInv(MoveContainerTree(tree, w, ws, dir))  BY MoveContainerKeeps
  <2> QED  BY <2>1, <2>2
<1>5. ASSUME NEW w \in Windows, NEW ty \in Types, ChangeLayoutType(w, ty)
      PROVE  TreeInv(tree')
  <2>1. tree \in Tree /\ tree' = [tree EXCEPT !.mark[w] = ty]
    BY <1>5 DEF TreeInv, Linked, ChangeLayoutType
  <2>2. /\ tree' \in Tree /\ tree'.parent = tree.parent /\ tree'.kids = tree.kids
        /\ tree'.live = tree.live
    BY <2>1 DEF Tree, Marks
  <2> QED  BY <2>2 DEF TreeInv, Linked, Acyclic, Ranks, Shaped, Full
<1>6. CASE UNCHANGED tree  BY <1>6
<1> QED  BY <1>1, <1>2, <1>3, <1>4, <1>5, <1>6 DEF Next

\* Links agree, ranks exist and layouts are full in every reachable state: the
\* inductive invariant of all that move_to_workspace, _purge_and_reconfigure and
\* Move_container do to the tree.
THEOREM AlwaysATree == Spec => []TreeInv(tree)
<1>1. Init => TreeInv(tree)  BY EmptyIsTree DEF Init
<1>2. TreeInv(tree) /\ [Next]_tree => TreeInv(tree)'
  <2> SUFFICES ASSUME TreeInv(tree), [Next]_tree  PROVE TreeInv(tree')  OBVIOUS
  <2> QED  BY StepKeepsTree
<1> QED  BY <1>1, <1>2, PTL DEF Spec

-----------------------------------------------------------------------------
(* What the runs check, for any number of windows, layouts and workspaces.  *)

\* Links, types and marks are always of their kinds.
THEOREM TilingTypeCorrect == Spec => []TypeOK
<1>1. TreeInv(tree) => TypeOK  BY DEF TreeInv, Linked, TypeOK
<1> QED  BY <1>1, AlwaysATree, PTL

\* _parent and _children agree after every operation of window.cpp and
\* binding.cpp, and nothing refers to a deleted layout.
THEOREM LinksAlwaysAgree == Spec => []LinksAgree
<1>1. TreeInv(tree) => LinksAgree
  <2> SUFFICES ASSUME TreeInv(tree)  PROVE LinksAgree  OBVIOUS
  <2>1. ASSUME NEW p \in Parents, NEW n \in Elements(tree.kids[p]), n \in Layouts
        PROVE  n \in tree.live
    BY <2>1, KindsAssumption DEF TreeInv, Linked, Parents, Items
  <2> QED  BY <2>1 DEF LinksAgree, TreeInv, Linked
<1> QED  BY <1>1, AlwaysATree, PTL

\* get_root (node.h:156) ends at exactly one workspace, from every window that is
\* placed and every layout that was not deleted: no cycle and no leaked layout.
THEOREM AlwaysRooted == Spec => []Rooted
<1>1. TreeInv(tree) => Rooted
  <2> SUFFICES ASSUME TreeInv(tree), NEW n \in Placed(tree) \cup tree.live
               PROVE  Cardinality(RootsOf(tree, n)) = 1
    BY DEF Rooted
  <2>1. n \in Items /\ tree.parent[n] # Nil
    BY DEF TreeInv, Linked, Tree, Shaped, Placed, Items
  <2> QED  BY <2>1, OneRoot
<1> QED  BY <1>1, AlwaysATree, PTL

\* A workspace never has two tiling layouts, nor a window as its own child.
THEOREM AlwaysOneTilingLayout == Spec => []OneTilingLayout
<1>1. TreeInv(tree) => OneTilingLayout  BY DEF TreeInv, Shaped, OneTilingLayout
<1> QED  BY <1>1, AlwaysATree, PTL

\* No operation leaves an empty layout, or a layout around a single child other
\* than a window in a top layout: _purge_sole_node is called wherever it must be.
THEOREM NeverHollow == Spec => []NoHollowLayout
<1>1. TreeInv(tree) => NoHollowLayout
  <2> SUFFICES ASSUME TreeInv(tree), NEW l \in tree.live
               PROVE  /\ tree.kids[l] # <<>>
                      /\ Len(tree.kids[l]) = 1 => /\ tree.parent[l] \in Workspaces
                                                  /\ tree.kids[l][1] \in Windows
    BY DEF NoHollowLayout
  <2>1. tree \in Tree /\ l \in Parents /\ Full(tree, l)
    BY DEF TreeInv, Linked, Shaped, Tree, Parents
  <2>2. Len(tree.kids[l]) = 1 => tree.kids[l][1] \in Elements(tree.kids[l])
    BY <2>1, KidsAreLists
  <2> QED  BY <2>1, <2>2 DEF Full
<1> QED  BY <1>1, AlwaysATree, PTL

-----------------------------------------------------------------------------
(* Rectangles.                                                              *)

\* Every window takes its geometry, and every rectangle is the one of its place.
Laid(t) == t.normal = Windows /\ t.stale = {}

\* Every handler ends with the update_rect that its changes need.
LEMMA StepKeepsLaid ==
    ASSUME TreeInv(tree), Laid(tree), [Next]_tree  PROVE Laid(tree')
<1>1. tree.normal = Windows /\ tree.stale \subseteq {} /\ Unseen(tree, {})
  BY DEF Laid, Unseen
<1>2. tree \in Tree /\ Twins(tree, tree, Windows, Windows)
  BY <1>1, TreeHasFields DEF TreeInv, Linked, Twins
<1>3. ASSUME NEW w \in Windows, NEW ws \in Workspaces, Manage(w, ws) \/ Move(w, ws)
      PROVE  Laid(tree')
  <2>1. PICK current \in Currents(ws) : tree' = MoveToWorkspaceTree(tree, w, ws, current)
    BY <1>3 DEF Manage, Move
  <2>2. ws \notin RootsOf(tree, w)
    BY <1>3, LooseHasNoRoot DEF Manage, Move, Placed, TreeInv
  <2>3. tree.kids[ws] # <<>> => current \in Windows \ {w} /\ tree.parent[current] # Nil
    BY <2>2, CurrentIsBelow DEF Currents
  <2> DEFINE u == MoveToWorkspaceTree(tree, w, ws, current)
  <2>4. u.stale \subseteq {}  BY <1>1, <2>3, MoveToWorkspaceFresh
  <2>5. Twins(u, u, Windows, Windows)  BY <1>2, TwinsPlace
  <2> HIDE DEF u
  <2>6. Laid(u)  BY <2>4, <2>5 DEF Laid, Twins
  <2> QED  BY <2>1, <2>6 DEF u
<1>4. ASSUME NEW w \in Windows, Unmanage(w)  PROVE Laid(tree')
  <2> DEFINE u == PurgeAndReconfigure(tree, w)
  <2>1. tree' = Forget(u, w) /\ tree.parent[w] # Nil  BY <1>4 DEF Unmanage, Placed
  <2>2. u.stale \subseteq {}  BY <1>1, <2>1, PurgeFresh
  <2>3. Twins(u, u, Windows, Windows)  BY <1>2, TwinsPurge
  <2>4. u \in Tree  BY <2>1, PurgeKeeps DEF TreeInv, Linked
  <2> HIDE DEF u
  <2> QED  BY <2>1, <2>2, <2>3, <2>4 DEF Laid, Twins, Forget, Tree
<1>5. ASSUME NEW w \in Windows, NEW dir \in Directions, MoveContainer(w, dir)
      PROVE  Laid(tree')
  <2>1. PICK ws \in RootsOf(tree, w) : tree' = MoveContainerTree(tree, w, ws, dir)
    BY <1>5 DEF MoveContainer
  <2> DEFINE u == MoveContainerTree(tree, w, ws, dir)
  <2>2. u.stale \subseteq {}  BY <1>1, MoveContainerFresh
  <2>3. Twins(u, u, Windows, Windows)  BY <1>2, TwinsMove
  <2> HIDE DEF u
  <2>4. Laid(u)  BY <2>2, <2>3 DEF Laid, Twins
  <2> QED  BY <2>1, <2>4 DEF u
<1>6. ASSUME NEW w \in Windows, NEW ty \in Types, ChangeLayoutType(w, ty)  PROVE Laid(tree')
  BY <1>2, <1>6 DEF ChangeLayoutType, Laid, Tree
<1>7. CASE UNCHANGED tree  BY <1>7 DEF Laid
<1> QED  BY <1>3, <1>4, <1>5, <1>6, <1>7 DEF Next

\* After every handler each layout has the rectangle, and each window the geometry,
\* that the tree prescribes: the updates written by hand into window.cpp and
\* binding.cpp reach every node that a change of the tree moves.
THEOREM GeometryAlwaysFresh == Spec => []GeometryFresh
<1> DEFINE Inv == TreeInv(tree) /\ Laid(tree)
<1>1. Init => Inv  BY EmptyIsTree DEF Init, EmptyTree, Laid
<1>2. Inv /\ [Next]_tree => Inv'
  <2> SUFFICES ASSUME Inv, [Next]_tree  PROVE TreeInv(tree') /\ Laid(tree')  OBVIOUS
  <2> QED  BY StepKeepsTree, StepKeepsLaid
<1>3. Inv => GeometryFresh  BY DEF Laid, GeometryFresh
<1> QED  BY <1>1, <1>2, <1>3, PTL DEF Spec

-----------------------------------------------------------------------------
(* The order of windows.                                                    *)

\* The members of g are the lists of ss appended one after another, up to the n-th.
Appends(g, ss, n) == g[1] = ss[1] /\ \A i \in 1..n : i # 1 => g[i] = g[i-1] \o ss[i]

\* The lists of a sequence can be appended.
LEMMA AppendedExist ==
    ASSUME NEW X, \A y, z \in X : y \o z \in X, NEW n \in Nat, n >= 1,
           NEW ss, \A i \in 1..n : ss[i] \in X
    PROVE  \E g \in [1..n -> X] : Appends(g, ss, n)
<1> DEFINE P(j) == \E g \in [1..j -> X] : Appends(g, ss, j)
           A == {m \in Nat : m + 1 <= n => P(m + 1)}
<1>1. P(1)
  <2>1. 1 \in 1..n /\ 1..1 = {1}  OBVIOUS
  <2> DEFINE g == [i \in 1..1 |-> ss[1]]
  <2>2. g \in [1..1 -> X] /\ g[1] = ss[1]  BY <2>1
  <2> HIDE DEF g
  <2>3. Appends(g, ss, 1)  BY <2>1, <2>2 DEF Appends
  <2> QED  BY <2>2, <2>3
<1>2. ASSUME NEW q \in Nat, q >= 1, q + 1 <= n, P(q)  PROVE P(q + 1)
  <2>1. PICK g \in [1..q -> X] : Appends(g, ss, q)  BY <1>2
  <2>2. q + 1 \in 1..n /\ q \in 1..q /\ 1 \in 1..q  BY <1>2
  <2> DEFINE h == [i \in 1..q+1 |-> IF i = q + 1 THEN g[q] \o ss[i] ELSE g[i]]
  <2>3. h \in [1..q+1 -> X]
    <3>1. g[q] \in X /\ ss[q+1] \in X  BY <2>1, <2>2
    <3>2. g[q] \o ss[q+1] \in X  BY <3>1
    <3>3. ASSUME NEW i \in 1..q+1, i # q + 1  PROVE g[i] \in X
      <4>1. i \in 1..q  BY <1>2, <3>3
      <4> QED  BY <4>1
    <3> QED  BY <3>2, <3>3
  <2>4. h[1] = ss[1]  BY <1>2, <2>1, <2>2 DEF Appends
  <2>5. ASSUME NEW i \in 1..q+1, i # 1  PROVE h[i] = h[i-1] \o ss[i]
    <3>1. i - 1 \in 1..q+1 /\ i - 1 # q + 1  BY <1>2, <2>5
    <3>2. h[i-1] = g[i-1]  BY <3>1
    <3>3. CASE i = q + 1
      <4>1. h[i] = g[q] \o ss[i] /\ i - 1 = q  BY <3>3, <1>2
      <4> QED  BY <4>1, <3>2
    <3>4. CASE i # q + 1
      <4>1. i \in 1..q /\ h[i] = g[i]  BY <3>4, <1>2
      <4> QED  BY <4>1, <3>2, <2>1, <2>5 DEF Appends
    <3> QED  BY <3>3, <3>4
  <2> HIDE DEF h
  <2>6. Appends(h, ss, q + 1)  BY <2>4, <2>5 DEF Appends
  <2> QED  BY <2>3, <2>6
<1> HIDE DEF P
<1>3. 0 \in A  BY <1>1
<1>4. ASSUME NEW m \in Nat, m \in A  PROVE m + 1 \in A
  <2> DEFINE q == m + 1
  <2>1. q \in Nat /\ q >= 1  OBVIOUS
  <2>2. q <= n => P(q)  BY <1>4
  <2> HIDE DEF q
  <2>3. q + 1 <= n => P(q + 1)  BY <2>1, <2>2, <1>2
  <2> QED  BY <2>1, <2>3 DEF q
<1>5. Nat \subseteq A
  <2> HIDE DEF A
  <2> QED  BY <1>3, <1>4, EveryNumber
<1> DEFINE m == n - 1
<1>6. m \in A /\ m + 1 = n /\ m + 1 <= n
  <2>1. m \in Nat  OBVIOUS
  <2>2. m \in A
    <3> HIDE DEF m, A
    <3> QED  BY <2>1, <1>5
  <2> QED  BY <2>2
<1> HIDE DEF m
<1>7. P(m + 1)  BY <1>6
<1> QED  BY <1>6, <1>7 DEF P

\* What FlattenSeq computes: the lists are appended one after another.
LEMMA FlattenSteps ==
    ASSUME NEW S, NEW ss \in Seq(Seq(S)), Len(ss) # 0
    PROVE  \E c : /\ FlattenSeq(ss) = c[Len(ss)]
                  /\ c[1] = ss[1]
                  /\ \A i \in 1..Len(ss) : i # 1 => c[i] = c[i-1] \o ss[i]
<1> DEFINE n == Len(ss)
           X == Seq(S)
           F(g) == [i \in 1..n |-> IF i = 1 THEN ss[i] ELSE g[i-1] \o ss[i]]
<1>1. n \in Nat /\ n >= 1 /\ \A i \in 1..n : ss[i] \in X
  BY LenProperties, ElementOfSeq
<1> HIDE DEF n, X, F
<1>2. \A y, z \in X : y \o z \in X  BY ConcatProperties DEF X
<1>3. PICK g \in [1..n -> X] : Appends(g, ss, n)  BY <1>1, <1>2, AppendedExist
<1>4. g = F(g)
  <2>1. \A i \in 1..n : g[i] = F(g)[i]  BY <1>3 DEF F, Appends
  <2> QED  BY <2>1 DEF F
<1> DEFINE c == CHOOSE h : h = F(h)
<1>5. FlattenSeq(ss) = c[n]  BY DEF FlattenSeq, n, F
<1>6. c = F(c)  BY <1>4
<1> HIDE DEF c
<1>7. c[1] = ss[1] /\ \A i \in 1..n : i # 1 => c[i] = c[i-1] \o ss[i]
  <2>1. 1 \in 1..n  BY <1>1
  <2> QED  BY <1>6, <2>1 DEF F
<1> QED  BY <1>5, <1>7 DEF n

\* Of two members of a list, the first ends where the second begins, or before.
Ranged(s, lo, hi) == \A i, j \in 1..Len(s) : i < j => hi[s[i]] <= lo[s[j]]

\* Lists of which each is ranged and ends where the next begin are ranged when appended.
LEMMA ConcatRanged ==
    ASSUME NEW S, NEW a \in Seq(S), NEW b \in Seq(S), NEW lo, NEW hi,
           Ranged(a, lo, hi), Ranged(b, lo, hi),
           \A x \in Elements(a), y \in Elements(b) : hi[x] <= lo[y]
    PROVE  /\ a \o b \in Seq(S) /\ Ranged(a \o b, lo, hi)
           /\ Elements(a \o b) = Elements(a) \cup Elements(b)
<1> DEFINE c == a \o b
<1>1. /\ c \in Seq(S) /\ Len(c) = Len(a) + Len(b)
      /\ \A i \in 1..Len(a) + Len(b) : c[i] = IF i <= Len(a) THEN a[i] ELSE b[i - Len(a)]
  BY ConcatProperties
<1>2. Len(a) \in Nat /\ Len(b) \in Nat  BY LenProperties
<1> HIDE DEF c
<1>3. ASSUME NEW i \in 1..Len(c)
      PROVE  \/ i \in 1..Len(a) /\ c[i] = a[i]
             \/ i > Len(a) /\ i - Len(a) \in 1..Len(b) /\ c[i] = b[i - Len(a)]
  BY <1>1, <1>2
<1>4. \A i \in 1..Len(a) : i \in 1..Len(c) /\ c[i] = a[i]  BY <1>1, <1>2
<1>5. ASSUME NEW i \in 1..Len(b)  PROVE i + Len(a) \in 1..Len(c) /\ c[i + Len(a)] = b[i]
  <2>1. /\ i + Len(a) \in 1..Len(c) /\ ~(i + Len(a) <= Len(a)) /\ (i + Len(a)) - Len(a) = i
    BY <1>1, <1>2
  <2>2. i + Len(a) \in 1..Len(a) + Len(b)  BY <2>1, <1>1
  <2> QED  BY <2>1, <2>2, <1>1
<1>6. Elements(c) \subseteq Elements(a) \cup Elements(b)  BY <1>3 DEF Elements
<1>7. Elements(a) \subseteq Elements(c)  BY <1>4 DEF Elements
<1>8. Elements(b) \subseteq Elements(c)  BY <1>5 DEF Elements
<1>9. Ranged(c, lo, hi)
  <2> SUFFICES ASSUME NEW i \in 1..Len(c), NEW j \in 1..Len(c), i < j
               PROVE  hi[c[i]] <= lo[c[j]]
    BY DEF Ranged
  <2>1. CASE j <= Len(a)
    <3>1. i \in 1..Len(a) /\ j \in 1..Len(a)  BY <2>1, <1>2
    <3> QED  BY <3>1, <1>4 DEF Ranged
  <2>2. CASE i > Len(a)
    <3>1. j > Len(a) /\ i - Len(a) < j - Len(a)  BY <2>2, <1>1, <1>2
    <3>2. i - Len(a) \in 1..Len(b) /\ c[i] = b[i - Len(a)]  BY <2>2, <1>2, <1>3
    <3>3. j - Len(a) \in 1..Len(b) /\ c[j] = b[j - Len(a)]  BY <3>1, <1>2, <1>3
    <3> QED  BY <3>1, <3>2, <3>3 DEF Ranged
  <2>3. CASE i <= Len(a) /\ j > Len(a)
    <3>1. /\ i \in 1..Len(a) /\ c[i] = a[i]
          /\ j - Len(a) \in 1..Len(b) /\ c[j] = b[j - Len(a)]
      BY <2>3, <1>2, <1>3
    <3>2. c[i] \in Elements(a) /\ c[j] \in Elements(b)  BY <3>1 DEF Elements
    <3> QED  BY <3>2
  <2> QED  BY <2>1, <2>2, <2>3, <1>1, <1>2
<1> QED  BY <1>1, <1>6, <1>7, <1>8, <1>9 DEF c

\* The same for any number of lists.
LEMMA FlattenRanged ==
    ASSUME NEW S, NEW ss \in Seq(Seq(S)), NEW lo, NEW hi,
           \A i \in 1..Len(ss) : Ranged(ss[i], lo, hi),
           \A i, j \in 1..Len(ss) : i < j =>
              \A x \in Elements(ss[i]), y \in Elements(ss[j]) : hi[x] <= lo[y]
    PROVE  /\ FlattenSeq(ss) \in Seq(S) /\ Ranged(FlattenSeq(ss), lo, hi)
           /\ \A x : x \in Elements(FlattenSeq(ss)) <=> \E i \in 1..Len(ss) : x \in Elements(ss[i])
<1>1. Len(ss) \in Nat /\ \A i \in 1..Len(ss) : ss[i] \in Seq(S)
  BY LenProperties, ElementOfSeq
<1>2. CASE Len(ss) = 0
  <2>1. FlattenSeq(ss) = ss /\ ss = <<>>  BY <1>2, EmptySeq DEF FlattenSeq
  <2>2. <<>> \in Seq(S) /\ Len(<<>>) = 0  BY EmptySeq
  <2>3. Ranged(ss, lo, hi) /\ \A x : x \notin Elements(ss)  BY <1>2 DEF Ranged, Elements
  <2> QED  BY <1>2, <2>1, <2>2, <2>3
<1>3. CASE Len(ss) # 0
  <2>1. PICK c : /\ FlattenSeq(ss) = c[Len(ss)] /\ c[1] = ss[1]
                 /\ \A i \in 1..Len(ss) : i # 1 => c[i] = c[i-1] \o ss[i]
    BY <1>3, FlattenSteps
  <2> DEFINE Good(k) == /\ c[k] \in Seq(S) /\ Ranged(c[k], lo, hi)
                        /\ \A x : x \in Elements(c[k]) <=> \E i \in 1..k : x \in Elements(ss[i])
             A == {k \in Nat : k + 1 <= Len(ss) => Good(k + 1)}
  <2>2. 0 \in A
    <3>1. 1 \in 1..Len(ss) /\ 0 + 1 = 1 /\ \A i \in 1..1 : i = 1  BY <1>1, <1>3
    <3> QED  BY <3>1, <2>1, <1>1
  <2>3. ASSUME NEW k \in Nat, k \in A  PROVE k + 1 \in A
    <3> DEFINE m == k + 1
    <3> SUFFICES ASSUME m + 1 <= Len(ss)  PROVE Good(m + 1)  OBVIOUS
    <3>1. /\ m \in 1..Len(ss) /\ m + 1 \in 1..Len(ss) /\ m + 1 # 1 /\ (m + 1) - 1 = m
          /\ \A i \in 1..m + 1 : i \in 1..m \/ i = m + 1
          /\ \A i \in 1..m : i \in 1..Len(ss) /\ i < m + 1 /\ i \in 1..m + 1
      BY <1>1
    <3>2. Good(m)  BY <2>3, <3>1
    <3> HIDE DEF m
    <3>3. c[m + 1] = c[m] \o ss[m + 1]  BY <2>1, <3>1
    <3>4. ss[m + 1] \in Seq(S) /\ Ranged(ss[m + 1], lo, hi)  BY <1>1, <3>1
    <3>5. \A x \in Elements(c[m]), y \in Elements(ss[m + 1]) : hi[x] <= lo[y]
      BY <3>1, <3>2
    <3>6. /\ c[m + 1] \in Seq(S) /\ Ranged(c[m + 1], lo, hi)
          /\ Elements(c[m + 1]) = Elements(c[m]) \cup Elements(ss[m + 1])
      BY <3>2, <3>3, <3>4, <3>5, ConcatRanged
    <3> QED  BY <3>1, <3>2, <3>6
  <2>4. Nat \subseteq A
    <3> HIDE DEF A
    <3> QED  BY <2>2, <2>3, EveryNumber
  <2>5. Good(Len(ss))
    <3> DEFINE m == Len(ss) - 1
    <3>1. m \in Nat /\ m + 1 = Len(ss) /\ m + 1 <= Len(ss)  BY <1>1, <1>3
    <3> HIDE DEF m
    <3>2. Good(m + 1)
      <4> HIDE DEF Good
      <4> QED  BY <2>4, <3>1
    <3> QED  BY <3>1, <3>2
  <2> QED  BY <2>1, <2>5
<1> QED  BY <1>2, <1>3

\* An interval for each node: within the one of its layout, and before those of the
\* children that follow it.
Nested(t, lo, hi) ==
    /\ lo \in [Items -> Int] /\ hi \in [Items -> Int]
    /\ \A n \in Items : lo[n] < hi[n]
    /\ \A l \in Layouts : \A n \in Elements(t.kids[l]) : lo[l] < lo[n] /\ hi[n] < hi[l]
    /\ \A l \in Layouts : Ranged(t.kids[l], lo, hi)

\* What the walk down the tree replaces a node by.
Expanded(t, n) == IF n \in Windows THEN <<n>> ELSE t.kids[n]

\* What LeafOrder computes: each row has the children of the one above.
LEMMA RowSteps ==
    ASSUME NEW t \in Tree, NEW ws \in Workspaces
    PROVE  \E row : /\ LeafOrder(t, ws) = row[Height]
                    /\ row[0] = <<ws>>
                    /\ \A k \in 0..Height : row[k] \in Seq(Items \cup Workspaces)
                    /\ \A k \in 1..Height :
                          row[k] = FlattenSeq([i \in DOMAIN row[k-1] |-> Expanded(t, row[k-1][i])])
<1> DEFINE X == Seq(Items \cup Workspaces)
           Down(r) == FlattenSeq([i \in DOMAIN r |-> Expanded(t, r[i])])
           f == [r \in X |-> Down(r)]
           F(g) == [k \in 0..Height |-> IF k = 0 THEN <<ws>> ELSE Down(g[k-1])]
<1>1. ASSUME NEW r \in X  PROVE Down(r) \in X
  <2> DEFINE ss == [i \in DOMAIN r |-> Expanded(t, r[i])]
             lo == [n \in Items \cup Workspaces |-> 0]
  <2>1. /\ DOMAIN r = 1..Len(r) /\ Len(r) \in Nat
        /\ \A i \in 1..Len(r) : r[i] \in Items \cup Workspaces
    BY LenProperties, ElementOfSeq
  <2>2. ASSUME NEW n \in Items \cup Workspaces  PROVE Expanded(t, n) \in X
    <3>1. CASE n \in Windows  BY <3>1 DEF Expanded, Items
    <3>2. CASE n \notin Windows
      <4>1. n \in Parents  BY <3>2 DEF Items, Parents
      <4>2. t.kids[n] \in Seq(Items)  BY <4>1, KidsAreLists
      <4>3. Seq(Items) \subseteq X  BY SeqMonotonic
      <4> QED  BY <3>2, <4>2, <4>3 DEF Expanded
    <3> QED  BY <3>1, <3>2
  <2> HIDE DEF X
  <2>3. ss \in Seq(X)
    <3>1. \A i \in 1..Len(r) : ss[i] \in X  BY <2>1, <2>2
    <3>2. ss = [i \in 1..Len(r) |-> ss[i]]  BY <2>1
    <3> HIDE DEF ss
    <3> QED  BY <3>1, <3>2, <2>1, IsASeq
  <2>4. ASSUME NEW i \in 1..Len(ss)  PROVE ss[i] \in Seq(Items \cup Workspaces)
    BY <2>3, ElementOfSeq DEF X
  <2>5. \A x \in Items \cup Workspaces :
            lo[x] <= lo[x] /\ \A y \in Items \cup Workspaces : lo[x] <= lo[y]
    OBVIOUS
  <2>6. \A s \in Seq(Items \cup Workspaces) :
           Elements(s) \subseteq Items \cup Workspaces
    BY ElementOfSeq DEF Elements
  <2> HIDE DEF lo, ss
  <2>7. \A i \in 1..Len(ss) : Ranged(ss[i], lo, lo)
    <3> SUFFICES ASSUME NEW i \in 1..Len(ss), NEW a \in 1..Len(ss[i]), NEW b \in 1..Len(ss[i])
                 PROVE  lo[ss[i][a]] <= lo[ss[i][b]]
      BY DEF Ranged
    <3>1. ss[i][a] \in Items \cup Workspaces /\ ss[i][b] \in Items \cup Workspaces
      BY <2>4, ElementOfSeq
    <3> QED  BY <3>1, <2>5
  <2>8. \A i, j \in 1..Len(ss) :
           \A x \in Elements(ss[i]), y \in Elements(ss[j]) : lo[x] <= lo[y]
    BY <2>4, <2>5, <2>6
  <2>9. FlattenSeq(ss) \in Seq(Items \cup Workspaces)
    BY <2>3, <2>7, <2>8, FlattenRanged DEF X
  <2> QED  BY <2>9 DEF X, ss
<1>2. <<ws>> \in X  OBVIOUS
<1> HIDE DEF X, Down
<1>3. f \in [X -> X]  BY <1>1
<1> HIDE DEF f
<1>4. PICK g \in [0..Height -> X] : IsChain(g, f, <<ws>>, Height)
  BY <1>2, <1>3, HeightIsNat, ChainExists
<1>5. g = F(g)
  <2>1. \A k \in 1..Height : g[k-1] \in X  BY HeightIsNat
  <2>2. \A k \in 1..Height : g[k] = Down(g[k-1])  BY <1>4, <2>1 DEF IsChain, f
  <2>3. \A k \in 0..Height : k = 0 \/ k \in 1..Height  BY HeightIsNat
  <2>4. \A k \in 0..Height : g[k] = F(g)[k]  BY <1>4, <2>2, <2>3 DEF IsChain
  <2> QED  BY <2>4
<1> DEFINE c == CHOOSE h : h = F(h)
<1>6. LeafOrder(t, ws) = c[Height]  BY DEF LeafOrder, Down, Expanded
<1>7. c = F(c)
  <2> HIDE DEF F
  <2> QED  BY <1>5
<1> HIDE DEF c
<1>8. c[0] = <<ws>> /\ \A k \in 1..Height : c[k] = Down(c[k-1])
  <2>1. 0 \in 0..Height /\ \A k \in 1..Height : k \in 0..Height /\ k # 0  BY HeightIsNat
  <2> QED  BY <1>7, <2>1
<1>9. \A k \in 0..Height : c[k] \in X
  <2> DEFINE A == {k \in Nat : k <= Height => c[k] \in X}
  <2>1. 0 \in A  BY <1>2, <1>8
  <2>2. ASSUME NEW k \in Nat, k \in A  PROVE k + 1 \in A
    <3>1. k + 1 <= Height => k + 1 \in 1..Height /\ (k + 1) - 1 = k /\ k <= Height
      BY HeightIsNat
    <3> QED  BY <3>1, <2>2, <1>1, <1>8
  <2>3. Nat \subseteq A
    <3> HIDE DEF A
    <3> QED  BY <2>1, <2>2, EveryNumber
  <2> QED  BY <2>3, HeightIsNat
<1> QED  BY <1>6, <1>8, <1>9 DEF X, Down

\* The walk down reaches all windows: no layout is so deep that it is not replaced.
LEMMA LayoutsAreHigh ==
    ASSUME NEW t, TreeInv(t), NEW ws \in Workspaces
    PROVE  Levels(t, ws)[Height] \subseteq Windows
<1>1. t \in Tree /\ Linked(t) /\ ws \in Parents  BY DEF TreeInv, Linked, Parents
<1>2. Levels(t, ws)[Height] \subseteq Items  BY <1>1, LevelSteps, HeightIsNat
<1> SUFFICES ASSUME NEW l \in Levels(t, ws)[Height], l \in Layouts  PROVE FALSE
  BY <1>2 DEF Items
<1> DEFINE c == Climb(t, l)
<1>3. PICK r : Ranks(t, r)  BY DEF TreeInv, Acyclic
<1>4. Height \in 1..Height /\ l \in Items /\ Height \in Nat  BY HeightIsNat DEF Items
<1>5. c[Height] = ws  BY <1>1, <1>4, LevelIsClimb
<1>6. /\ c \in [0..Height -> Items \cup Parents \cup {Nil}] /\ c[0] = l
      /\ \A k \in 1..Height : c[k] = IF c[k-1] \in Items THEN t.parent[c[k-1]] ELSE Nil
  BY <1>1, <1>4, ClimbSteps
<1> HIDE DEF c
<1>7. ws # Nil /\ ws \notin Items  BY KindsAssumption DEF Items
<1>8. ASSUME NEW j \in 0..Height-1  PROVE c[j] \in Items
  <2> SUFFICES ASSUME c[j] \notin Items  PROVE FALSE  OBVIOUS
  <2>1. j \in 0..Height /\ j < Height  BY <1>4
  <2>2. c[Height] = Nil  BY <1>1, <1>4, <2>1, ClimbEnds DEF c
  <2> QED  BY <2>2, <1>5, <1>7
<1>9. ASSUME NEW j \in 1..Height-1  PROVE c[j] \in Layouts
  <2>1. j - 1 \in 0..Height-1 /\ j \in 1..Height /\ j \in 0..Height-1  BY <1>4
  <2>2. c[j] = t.parent[c[j-1]] /\ c[j-1] \in Items /\ c[j] \in Items  BY <2>1, <1>6, <1>8
  <2>3. t.parent[c[j-1]] \in Parents \cup {Nil}  BY <2>2, <1>1 DEF Tree
  <2> QED  BY <2>2, <2>3, KindsAssumption DEF Items, Parents
<1> DEFINE f == [i \in 1..Height |-> c[i-1]]
<1>10. f \in [1..Height -> Layouts]
  <2> SUFFICES ASSUME NEW i \in 1..Height  PROVE c[i-1] \in Layouts  OBVIOUS
  <2>1. CASE i = 1  BY <2>1, <1>6
  <2>2. CASE i # 1
    <3>1. i - 1 \in 1..Height-1  BY <2>2, <1>4
    <3> QED  BY <3>1, <1>9
  <2> QED  BY <2>1, <2>2
<1>11. PICK i \in 1..Height, j \in 1..Height : i < j /\ f[i] = f[j]
  <2> HIDE DEF f
  <2> QED  BY <1>10, TooManyLayouts
<1>12. c[i-1] = c[j-1] /\ j - 1 \in 1..Height-1 /\ i - 1 < j - 1  BY <1>11, <1>4
<1>13. j - 1 \in 1..Height /\ c[j-1] \in Layouts  BY <1>12, <1>9, <1>4
<1>14. r \in [Layouts -> Nat]  BY <1>3 DEF Ranks
<1>15. CASE i = 1
  <2>1. c[j-1] = l  BY <1>12, <1>15, <1>6
  <2>2. 1 \in 1..Height /\ 1 - 1 = 0 /\ c[0] \in Items  BY <1>4, <1>6
  <2>3. c[1] = t.parent[l]  BY <2>2, <1>6
  <2>4. CASE j - 1 = 1
    <3>1. t.parent[l] = l  BY <2>1, <2>3, <2>4
    <3> QED  BY <3>1, <1>3, <1>14 DEF Ranks
  <2>5. CASE j - 1 # 1
    <3>1. 1 < j - 1  BY <2>5, <1>12
    <3>2. c[1] \in Layouts /\ r[c[j-1]] < r[c[1]]
      BY <3>1, <2>2, <1>13, <1>1, <1>3, <1>4, ClimbRanks DEF c
    <3>3. r[c[1]] < r[l]  BY <2>3, <3>2, <1>3 DEF Ranks
    <3> QED  BY <2>1, <3>2, <3>3, <1>14
  <2> QED  BY <2>4, <2>5
<1>16. CASE i # 1
  <2>1. i - 1 \in 1..Height  BY <1>16, <1>4
  <2>2. r[c[j-1]] < r[c[i-1]]
    BY <2>1, <1>12, <1>13, <1>1, <1>3, <1>4, ClimbRanks DEF c
  <2> QED  BY <2>2, <1>12, <1>13, <1>14
<1> QED  BY <1>15, <1>16

\* What a node is replaced by lies within its interval.
LEMMA ExpandedWithin ==
    ASSUME NEW t \in Tree, NEW lo, NEW hi, Nested(t, lo, hi), NEW n \in Items
    PROVE  /\ Expanded(t, n) \in Seq(Items) /\ Ranged(Expanded(t, n), lo, hi)
           /\ \A x \in Elements(Expanded(t, n)) : x \in Items /\ lo[n] <= lo[x] /\ hi[x] <= hi[n]
<1>1. lo[n] \in Int /\ hi[n] \in Int  BY DEF Nested
<1>2. CASE n \in Windows
  <2>1. Expanded(t, n) = <<n>>  BY <1>2 DEF Expanded
  <2>2. <<n>> \in Seq(Items) /\ Len(<<n>>) = 1 /\ <<n>>[1] = n  OBVIOUS
  <2>3. Elements(<<n>>) = {n}  BY <2>2 DEF Elements
  <2>4. Ranged(<<n>>, lo, hi)  BY <2>2 DEF Ranged
  <2> QED  BY <2>1, <2>2, <2>3, <2>4, <1>1
<1>3. CASE n \notin Windows
  <2>1. n \in Layouts /\ n \in Parents /\ Expanded(t, n) = t.kids[n]
    BY <1>3 DEF Items, Parents, Expanded
  <2>2. t.kids[n] \in Seq(Items) /\ Elements(t.kids[n]) \subseteq Items
    BY <2>1, KidsAreLists DEF Elements
  <2>3. \A x \in Items : lo[x] \in Int /\ hi[x] \in Int  BY DEF Nested
  <2>4. \A x \in Elements(t.kids[n]) : lo[n] < lo[x] /\ hi[x] < hi[n]  BY <2>1 DEF Nested
  <2>5. Ranged(t.kids[n], lo, hi)  BY <2>1 DEF Nested
  <2> QED  BY <2>1, <2>2, <2>3, <2>4, <2>5, <1>1
<1> QED  BY <1>2, <1>3

\* The order of the tree is the order of the intervals.
LEMMA LeafOrderRanged ==
    ASSUME NEW t, TreeInv(t), NEW lo, NEW hi, Nested(t, lo, hi), NEW ws \in Workspaces
    PROVE  /\ LeafOrder(t, ws) \in Seq(Windows)
           /\ Elements(LeafOrder(t, ws)) = WindowsOf(t, ws)
           /\ Ranged(LeafOrder(t, ws), lo, hi)
<1> DEFINE lv == Levels(t, ws)
<1>1. t \in Tree /\ ws \in Parents /\ ws \notin Items /\ ws \notin Windows
      /\ Len(t.kids[ws]) <= 1 /\ Len(t.kids[ws]) \in Nat /\ t.kids[ws] \in Seq(Items)
  <2>1. t \in Tree /\ ws \in Parents  BY DEF TreeInv, Linked, Parents
  <2>2. Len(t.kids[ws]) \in Nat /\ t.kids[ws] \in Seq(Items)  BY <2>1, KidsAreLists
  <2> QED  BY <2>1, <2>2, KindsAssumption DEF TreeInv, Shaped, Items
<1>2. PICK row : /\ LeafOrder(t, ws) = row[Height]
                 /\ row[0] = <<ws>>
                 /\ \A k \in 0..Height : row[k] \in Seq(Items \cup Workspaces)
                 /\ \A k \in 1..Height :
                       row[k] = FlattenSeq([i \in DOMAIN row[k-1] |-> Expanded(t, row[k-1][i])])
  BY <1>1, RowSteps
<1>3. /\ lv[0] = {ws}
      /\ \A k \in 1..Height :
            /\ lv[k] = UNION {Elements(t.kids[p]) : p \in lv[k-1] \cap Parents}
            /\ lv[k] \subseteq Items
  BY <1>1, LevelSteps
<1>4. Height \in Nat /\ Height >= 1  BY HeightIsNat
<1> HIDE DEF lv
<1> DEFINE Holds(k) ==
              /\ row[k] \in Seq(Items) /\ Ranged(row[k], lo, hi)
              /\ \A x : x \in Elements(row[k]) <=>
                    \/ x \in lv[k]
                    \/ x \in Windows /\ \E j \in 1..k : x \in lv[j]
           A == {k \in Nat : k + 1 <= Height => Holds(k + 1)}
<1>5. \A k : Ranged(t.kids[ws], lo, hi)  BY <1>1 DEF Ranged
<1>6. Holds(1)
  <2> DEFINE ss == [i \in DOMAIN row[0] |-> Expanded(t, row[0][i])]
  <2>1. 1 \in 1..Height /\ 1 - 1 = 0  BY <1>4
  <2>2. row[1] = FlattenSeq(ss)  BY <1>2, <2>1
  <2>3. DOMAIN <<ws>> = 1..1 /\ <<ws>>[1] = ws  OBVIOUS
  <2>4. ss = [i \in 1..1 |-> t.kids[ws]]  BY <1>1, <1>2, <2>3 DEF Expanded
  <2> HIDE DEF ss
  <2>5. ss \in Seq(Seq(Items)) /\ Len(ss) = 1 /\ ss[1] = t.kids[ws]
    <3>1. 1 \in Nat /\ \A i \in 1..1 : t.kids[ws] \in Seq(Items)  BY <1>1
    <3> DEFINE s == t.kids[ws]
               T == Seq(Items)
    <3>2. s \in T  BY <1>1
    <3>3. ss = [i \in 1..1 |-> s]  BY <2>4
    <3> HIDE DEF s, T
    <3>4. ss \in [1..1 -> T] /\ ss[1] = s  BY <3>2, <3>3
    <3>5. ss \in Seq(T) /\ Len(ss) = 1  BY <3>3, <3>2, IsASeq, LenProperties
    <3> QED  BY <3>4, <3>5 DEF s, T
  <2>6. \A i \in 1..Len(ss) : i = 1  BY <2>5
  <2>7. /\ FlattenSeq(ss) \in Seq(Items) /\ Ranged(FlattenSeq(ss), lo, hi)
        /\ \A x : x \in Elements(FlattenSeq(ss)) <=> \E i \in 1..Len(ss) : x \in Elements(ss[i])
    <3>1. \A i \in 1..Len(ss) : Ranged(ss[i], lo, hi)  BY <2>5, <2>6, <1>5
    <3>2. \A i, j \in 1..Len(ss) : i < j =>
             \A x \in Elements(ss[i]), y \in Elements(ss[j]) : hi[x] <= lo[y]
      BY <2>6
    <3> QED  BY <3>1, <3>2, <2>5, FlattenRanged
  <2>8. lv[1] = Elements(t.kids[ws])
    <3>1. lv[1] = UNION {Elements(t.kids[p]) : p \in {ws} \cap Parents}  BY <2>1, <1>3
    <3>2. {ws} \cap Parents = {ws}  BY <1>1
    <3> QED  BY <3>1, <3>2
  <2>9. \A j \in 1..1 : j = 1  OBVIOUS
  <2> QED  BY <2>2, <2>5, <2>6, <2>7, <2>8, <2>9
<1>7. ASSUME NEW k \in Nat, k \in A  PROVE k + 1 \in A
  <2> DEFINE m == k + 1
             r == row[m]
             ss == [i \in DOMAIN r |-> Expanded(t, r[i])]
  <2> SUFFICES ASSUME m + 1 <= Height  PROVE Holds(m + 1)  OBVIOUS
  <2>1. Holds(m)
    <3> HIDE DEF Holds
    <3> QED  BY <1>4, <1>7
  <2>2. m \in Nat /\ m \in 1..Height /\ m + 1 \in 1..Height /\ (m + 1) - 1 = m
    BY <1>4
  <2> HIDE DEF m
  <2>3. row[m + 1] = FlattenSeq(ss)  BY <1>2, <2>2
  <2>4. r \in Seq(Items) /\ Ranged(r, lo, hi)  BY <2>1
  <2>5. \A x : x \in Elements(r) <=>
            \/ x \in lv[m]
            \/ x \in Windows /\ \E j \in 1..m : x \in lv[j]
    BY <2>1
  <2>6. lv[m + 1] = UNION {Elements(t.kids[p]) : p \in lv[m] \cap Parents}
    BY <1>3, <2>2
  <2>7. lv[m] \subseteq Items  BY <1>3, <2>2
  <2> HIDE DEF r
  <2>8. DOMAIN r = 1..Len(r) /\ Len(r) \in Nat /\ \A i \in 1..Len(r) : r[i] \in Items
    BY <2>4, LenProperties, ElementOfSeq
  <2>9. \A i \in 1..Len(r) :
           /\ Expanded(t, r[i]) \in Seq(Items) /\ Ranged(Expanded(t, r[i]), lo, hi)
           /\ \A x \in Elements(Expanded(t, r[i])) :
                 x \in Items /\ lo[r[i]] <= lo[x] /\ hi[x] <= hi[r[i]]
    BY <1>1, <2>8, ExpandedWithin
  <2>10. /\ ss \in Seq(Seq(Items)) /\ Len(ss) = Len(r)
         /\ \A i \in 1..Len(r) : ss[i] = Expanded(t, r[i])
    <3> DEFINE T == Seq(Items)
    <3>1. \A i \in 1..Len(r) : Expanded(t, r[i]) \in T  BY <2>9
    <3>2. ss = [i \in 1..Len(r) |-> Expanded(t, r[i])]  BY <2>8
    <3> HIDE DEF T, ss
    <3>3. ss \in Seq(T)  BY <3>1, <3>2, <2>8, IsASeq
    <3>4. DOMAIN ss = 1..Len(r)  BY <3>2
    <3>5. Len(ss) = Len(r)  BY <3>3, <3>4, <2>8, LenProperties
    <3> QED  BY <3>2, <3>3, <3>5 DEF T
  <2> HIDE DEF ss
  <2>11. \A i, j \in 1..Len(ss) : i < j =>
            \A x \in Elements(ss[i]), y \in Elements(ss[j]) : hi[x] <= lo[y]
    <3> SUFFICES ASSUME NEW i \in 1..Len(r), NEW j \in 1..Len(r), i < j,
                        NEW x \in Elements(ss[i]), NEW y \in Elements(ss[j])
                 PROVE  hi[x] <= lo[y]
      BY <2>10
    <3>1. hi[x] <= hi[r[i]] /\ x \in Items  BY <2>9, <2>10
    <3>2. lo[r[j]] <= lo[y] /\ y \in Items  BY <2>9, <2>10
    <3>3. hi[r[i]] <= lo[r[j]]  BY <2>4 DEF Ranged
    <3>4. hi[x] \in Int /\ lo[y] \in Int /\ hi[r[i]] \in Int /\ lo[r[j]] \in Int
      BY <3>1, <3>2, <2>8 DEF Nested
    <3> QED  BY <3>1, <3>2, <3>3, <3>4
  <2>12. /\ FlattenSeq(ss) \in Seq(Items) /\ Ranged(FlattenSeq(ss), lo, hi)
         /\ \A x : x \in Elements(FlattenSeq(ss)) <=> \E i \in 1..Len(ss) : x \in Elements(ss[i])
    <3>1. \A i \in 1..Len(ss) : Ranged(ss[i], lo, hi)  BY <2>9, <2>10
    <3> QED  BY <3>1, <2>10, <2>11, FlattenRanged
  <2>13. \A x :
             x \in Elements(FlattenSeq(ss)) <=>
                 \E n \in Elements(r) : x \in Elements(Expanded(t, n))
    <3>1. \A n : n \in Elements(r) <=> \E i \in 1..Len(r) : n = r[i]  BY DEF Elements
    <3> QED  BY <3>1, <2>10, <2>12
  <2>14. \A n \in Items : \A x : x \in Elements(Expanded(t, n)) <=>
            IF n \in Windows THEN x = n ELSE x \in Elements(t.kids[n])
    <3>1. \A n : Elements(<<n>>) = {n}
      <4>1. \A n : Len(<<n>>) = 1 /\ <<n>>[1] = n  OBVIOUS
      <4> QED  BY <4>1 DEF Elements
    <3> QED  BY <3>1 DEF Expanded
  <2>15. Elements(r) \subseteq Items  BY <2>8 DEF Elements
  <2>16. \A x : x \in Elements(FlattenSeq(ss)) <=>
            \/ x \in Elements(r) /\ x \in Windows
            \/ \E n \in Elements(r) : n \notin Windows /\ x \in Elements(t.kids[n])
    BY <2>13, <2>14, <2>15
  <2>17. \A n : n \in Elements(r) /\ n \notin Windows <=> n \in lv[m] \cap Parents
    BY <2>5, <2>7, KindsAssumption DEF Items, Parents
  <2>18. \A x : x \in lv[m + 1] <=>
            \E n \in Elements(r) : n \notin Windows /\ x \in Elements(t.kids[n])
    BY <2>6, <2>17
  <2>19. \A j \in 1..m + 1 : j \in 1..m \/ j = m + 1  BY <2>2
  <2>20. \A j \in 1..m : j \in 1..m + 1  BY <2>2
  <2>21. m \in 1..m  BY <2>2
  <2>22. \A x : x \in Windows /\ x \in Elements(r) <=> x \in Windows /\ \E j \in 1..m : x \in lv[j]
    BY <2>5, <2>21
  <2>23. \A x : x \in Elements(FlattenSeq(ss)) <=>
            \/ x \in lv[m + 1]
            \/ x \in Windows /\ \E j \in 1..m + 1 : x \in lv[j]
    BY <2>16, <2>18, <2>19, <2>20, <2>22
  <2> QED  BY <2>3, <2>12, <2>23
<1>8. Holds(Height)
  <2>1. 0 \in A  BY <1>6
  <2> HIDE DEF Holds
  <2>2. Nat \subseteq A
    <3> HIDE DEF A
    <3> QED  BY <2>1, <1>7, EveryNumber
  <2> DEFINE h == Height - 1
  <2>3. h \in Nat /\ h + 1 = Height /\ h + 1 <= Height  BY <1>4
  <2> HIDE DEF h
  <2>4. Holds(h + 1)  BY <2>2, <2>3
  <2> QED  BY <2>3, <2>4
<1>9. lv[Height] \subseteq Windows  BY LayoutsAreHigh DEF lv
<1>10. Height \in 1..Height  BY <1>4
<1>11. Elements(row[Height]) = WindowsOf(t, ws)
  BY <1>8, <1>9, <1>10 DEF WindowsOf, Below, lv
<1>12. row[Height] \in Seq(Windows)
  <2> DEFINE s == row[Height]
  <2>1. s \in Seq(Items) /\ Elements(s) \subseteq Windows  BY <1>8, <1>11 DEF WindowsOf
  <2> HIDE DEF s
  <2>2. \A i \in 1..Len(s) : s[i] \in Windows  BY <2>1 DEF Elements
  <2>3. Len(s) \in Nat /\ s = [i \in 1..Len(s) |-> s[i]]  BY <2>1, LenProperties
  <2>4. s \in Seq(Windows)  BY <2>2, <2>3, IsASeq
  <2> QED  BY <2>4 DEF s
<1> QED  BY <1>2, <1>8, <1>11, <1>12

-----------------------------------------------------------------------------
(* What the operations of node.h do to the lists of children.              *)

\* Taking a member out leaves the others in order.
LEMMA EraseRanged ==
    ASSUME NEW S, NEW s \in Seq(S), NEW x \in Elements(s), NEW lo, NEW hi, Ranged(s, lo, hi)
    PROVE  Ranged(Erase(s, x), lo, hi)
<1> DEFINE c == Erase(s, x)
           q == Position(s, x)
           Src(i) == IF i < q THEN i ELSE i + 1
<1>1. /\ Len(c) = Len(s) - 1
      /\ \A i \in 1..Len(s) - 1 : c[i] = IF i < q THEN s[i] ELSE s[i + 1]
  BY EraseIsSeq
<1>2. Len(s) \in Nat /\ q \in 1..Len(s)  BY LenProperties, PositionFound
<1> HIDE DEF c, q
<1>3. \A i \in 1..Len(s) - 1 : Src(i) \in 1..Len(s) /\ c[i] = s[Src(i)]  BY <1>1, <1>2
<1>4. \A i, j \in 1..Len(s) - 1 : i < j => Src(i) < Src(j)  BY <1>2
<1> HIDE DEF Src
<1>5. Ranged(c, lo, hi)  BY <1>1, <1>3, <1>4 DEF Ranged
<1> QED  BY <1>5 DEF c

\* A member more stays in order where it has room.
LEMMA InsertRanged ==
    ASSUME NEW S, NEW s \in Seq(S), NEW x \in S, NEW i \in 1..Len(s) + 1, NEW lo, NEW hi,
           Ranged(s, lo, hi),
           \A k \in 1..Len(s) : /\ k < i => hi[s[k]] <= lo[x]
                                /\ k >= i => hi[x] <= lo[s[k]]
    PROVE  Ranged(InsertAt(s, i, x), lo, hi)
<1> DEFINE c == InsertAt(s, i, x)
<1>1. /\ Len(c) = Len(s) + 1
      /\ \A j \in 1..Len(s) + 1 : c[j] = IF j < i THEN s[j] ELSE IF j = i THEN x ELSE s[j - 1]
  BY InsertIsSeq, SMTT(30)
<1>2. Len(s) \in Nat  BY LenProperties
<1> HIDE DEF c
<1> SUFFICES ASSUME NEW a \in 1..Len(c), NEW b \in 1..Len(c), a < b
             PROVE  hi[c[a]] <= lo[c[b]]
  BY DEF Ranged, c
<1>3. a \in 1..Len(s) + 1 /\ b \in 1..Len(s) + 1  BY <1>1
<1>4. CASE b < i
  <2>1. a \in 1..Len(s) /\ b \in 1..Len(s) /\ a < i  BY <1>2, <1>3, <1>4
  <2> QED  BY <2>1, <1>1, <1>3, <1>4 DEF Ranged
<1>5. CASE b = i
  <2>1. a \in 1..Len(s) /\ a < i  BY <1>2, <1>3, <1>5
  <2> QED  BY <2>1, <1>1, <1>3, <1>5
<1>6. CASE b > i /\ a < i
  <2>1. a \in 1..Len(s) /\ b - 1 \in 1..Len(s) /\ a < b - 1  BY <1>2, <1>3, <1>6
  <2>2. c[a] = s[a] /\ c[b] = s[b - 1]  BY <1>1, <1>3, <1>6
  <2> QED  BY <2>1, <2>2 DEF Ranged
<1>7. CASE b > i /\ a = i
  <2>1. b - 1 \in 1..Len(s) /\ b - 1 >= i  BY <1>2, <1>3, <1>7
  <2>2. c[a] = x /\ c[b] = s[b - 1]  BY <1>1, <1>3, <1>7
  <2> QED  BY <2>1, <2>2
<1>8. CASE b > i /\ a > i
  <2>1. a - 1 \in 1..Len(s) /\ b - 1 \in 1..Len(s) /\ a - 1 < b - 1  BY <1>2, <1>3, <1>8
  <2>2. c[a] = s[a - 1] /\ c[b] = s[b - 1]  BY <1>1, <1>3, <1>8
  <2> QED  BY <2>1, <2>2 DEF Ranged
<1> QED  BY <1>3, <1>4, <1>5, <1>6, <1>7, <1>8

\* A member within the interval of the one it replaces stays in order.
LEMMA AssignRanged ==
    ASSUME NEW S, NEW s \in Seq(S), NEW x \in S, NEW i \in 1..Len(s),
           NEW lo, NEW hi, \A n \in S : lo[n] \in Int /\ hi[n] \in Int,
           Ranged(s, lo, hi), lo[s[i]] <= lo[x], hi[x] <= hi[s[i]]
    PROVE  Ranged([s EXCEPT ![i] = x], lo, hi)
<1> DEFINE c == [s EXCEPT ![i] = x]
<1>1. Len(c) = Len(s) /\ \A j \in 1..Len(s) : c[j] = IF j = i THEN x ELSE s[j]
  BY ExceptSeq
<1>2. \A j \in 1..Len(s) : s[j] \in S  BY ElementOfSeq
<1> HIDE DEF c
<1> SUFFICES ASSUME NEW a \in 1..Len(s), NEW b \in 1..Len(s), a < b
             PROVE  hi[c[a]] <= lo[c[b]]
  BY <1>1 DEF Ranged, c
<1>3. hi[s[a]] <= lo[s[b]]  BY DEF Ranged
<1>4. hi[c[a]] <= hi[s[a]] /\ hi[c[a]] \in Int /\ hi[s[a]] \in Int  BY <1>1, <1>2
<1>5. lo[s[b]] <= lo[c[b]] /\ lo[c[b]] \in Int /\ lo[s[b]] \in Int  BY <1>1, <1>2
<1> QED  BY <1>3, <1>4, <1>5

\* Setting the rectangles after the links.
LEMMA KidsSet ==
    ASSUME NEW t \in Tree, NEW a, NEW b, NEW X
    PROVE  [[t EXCEPT !.parent = a, !.kids = b] EXCEPT !.stale = X].kids = b
<1> DEFINE v == [t EXCEPT !.parent = a, !.kids = b]
<1>1. v \in [parent : {a}, kids : {b}, type : {t.type}, live : {t.live}, mark : {t.mark},
             normal : {t.normal}, stale : {t.stale}]
  BY DEF Tree
<1> HIDE DEF v
<1>2. [v EXCEPT !.stale = X].kids = v.kids  BY <1>1
<1>3. v.kids = b  BY <1>1
<1> QED  BY <1>2, <1>3 DEF v

\* The lists after remove_child.
LEMMA RemoveChildKids ==
    ASSUME NEW t \in Tree, NEW p \in Parents, NEW n
    PROVE  RemoveChild(t, p, n).kids = [t.kids EXCEPT ![p] = Erase(t.kids[p], n)]
<1> DEFINE a == [t.parent EXCEPT ![n] = Nil]
           b == [t.kids EXCEPT ![p] = Erase(t.kids[p], n)]
           v == [t EXCEPT !.parent[n] = Nil, !.kids[p] = Erase(@, n)]
           X == v.stale \cup Below(v, p)
<1>1. RemoveChild(t, p, n) = [v EXCEPT !.stale = X]  BY DEF RemoveChild, Touch
<1>2. v = [t EXCEPT !.parent = a, !.kids = b]
  <2> DEFINE s == Erase(t.kids[p], n)
  <2>1. v = [t EXCEPT !.parent[n] = Nil, !.kids[p] = s]  OBVIOUS
  <2>2. b = [t.kids EXCEPT ![p] = s]  OBVIOUS
  <2> HIDE DEF s, v, b
  <2> QED  BY <2>1, <2>2
<1> HIDE DEF a, b, v, X
<1> QED  BY <1>1, <1>2, KidsSet DEF b

\* The lists after insert_child.
LEMMA InsertChildKids ==
    ASSUME NEW t \in Tree, NEW p \in Parents, NEW i, NEW n
    PROVE  InsertChild(t, p, i, n).kids = [t.kids EXCEPT ![p] = InsertAt(t.kids[p], i, n)]
<1> DEFINE a == [t.parent EXCEPT ![n] = p]
           b == [t.kids EXCEPT ![p] = InsertAt(t.kids[p], i, n)]
           v == [t EXCEPT !.parent[n] = p, !.kids[p] = InsertAt(@, i, n)]
           X == v.stale \cup Below(v, p)
<1>1. InsertChild(t, p, i, n) = [v EXCEPT !.stale = X]  BY DEF InsertChild, Touch
<1>2. v = [t EXCEPT !.parent = a, !.kids = b]
  <2> DEFINE s == InsertAt(t.kids[p], i, n)
  <2>1. v = [t EXCEPT !.parent[n] = p, !.kids[p] = s]  OBVIOUS
  <2>2. b = [t.kids EXCEPT ![p] = s]  OBVIOUS
  <2> HIDE DEF s, v, b
  <2> QED  BY <2>1, <2>2
<1> HIDE DEF a, b, v, X
<1> QED  BY <1>1, <1>2, KidsSet DEF b

\* The lists after a node takes the place of another.
LEMMA ReplaceKids ==
    ASSUME NEW t \in Tree, NEW p \in Parents, NEW m, NEW n
    PROVE  Replace(t, p, m, n).kids =
              [t.kids EXCEPT ![p] = [t.kids[p] EXCEPT ![IndexOf(t, m)] = n]]
<1> DEFINE a == [t.parent EXCEPT ![m] = Nil, ![n] = p]
           s == [t.kids[p] EXCEPT ![IndexOf(t, m)] = n]
           b == [t.kids EXCEPT ![p] = s]
           v == [t EXCEPT !.parent = [@ EXCEPT ![m] = Nil, ![n] = p],
                          !.kids[p] = [@ EXCEPT ![IndexOf(t, m)] = n]]
           X == v.stale \cup Below(v, p)
<1>1. Replace(t, p, m, n) = [v EXCEPT !.stale = X]  BY DEF Replace, Touch
<1>2. v = [t EXCEPT !.parent = a, !.kids = b]
  <2>1. v = [t EXCEPT !.parent = a, !.kids[p] = s]  OBVIOUS
  <2> HIDE DEF s, v, a
  <2> QED  BY <2>1
<1> HIDE DEF a, b, v, X
<1> QED  BY <1>1, <1>2, KidsSet DEF b, s

\* A list with two of its members in each other's place.
Swapped(s, i, j) == [s EXCEPT ![i] = s[j], ![j] = s[i]]

\* The lists after shift_child.
LEMMA ShiftChildKids ==
    ASSUME NEW t \in Tree, NEW p \in Parents,
           NEW i \in 1..Len(t.kids[p]), NEW j \in 1..Len(t.kids[p])
    PROVE  ShiftChild(t, p, i, j).kids = [t.kids EXCEPT ![p] = Swapped(t.kids[p], i, j)]
<1> DEFINE a == t.parent
           s == [t.kids[p] EXCEPT ![i] = t.kids[p][j], ![j] = t.kids[p][i]]
           b == [t.kids EXCEPT ![p] = s]
           v == [t EXCEPT !.kids[p] = [@ EXCEPT ![i] = t.kids[p][j], ![j] = t.kids[p][i]]]
           X == v.stale \cup Below(v, p)
<1>1. ShiftChild(t, p, i, j) = [v EXCEPT !.stale = X]  BY DEF ShiftChild, Touch
<1>2. v = [t EXCEPT !.parent = a, !.kids = b]
  <2>1. v = [t EXCEPT !.kids[p] = s]  OBVIOUS
  <2> HIDE DEF s, v
  <2> QED  BY <2>1 DEF Tree
<1> HIDE DEF a, b, v, X
<1> QED  BY <1>1, <1>2, KidsSet DEF b, s, Swapped

-----------------------------------------------------------------------------
(* What the operations of node.h and window.cpp do to the intervals.       *)

\* The intervals are those of the lists alone.
LEMMA NestedSame ==
    ASSUME NEW t, NEW u, u.kids = t.kids, NEW lo, NEW hi, Nested(t, lo, hi)
    PROVE  Nested(u, lo, hi)
BY DEF Nested

\* The same, for one new list.
LEMMA NestedList ==
    ASSUME NEW t \in Tree, NEW lo, NEW hi, Nested(t, lo, hi), NEW u, NEW p \in Parents, NEW s,
           u.kids = [t.kids EXCEPT ![p] = s],
           p \in Layouts => /\ \A n \in Elements(s) : lo[p] < lo[n] /\ hi[n] < hi[p]
                            /\ Ranged(s, lo, hi)
    PROVE  Nested(u, lo, hi)
<1>1. \A q \in Parents : u.kids[q] = IF q = p THEN s ELSE t.kids[q]  BY DEF Tree
<1>2. \A l \in Layouts : l \in Parents  BY DEF Parents
<1>3. \A l \in Layouts : /\ \A n \in Elements(u.kids[l]) : lo[l] < lo[n] /\ hi[n] < hi[l]
                         /\ Ranged(u.kids[l], lo, hi)
  <2> SUFFICES ASSUME NEW l \in Layouts
               PROVE  /\ \A n \in Elements(u.kids[l]) : lo[l] < lo[n] /\ hi[n] < hi[l]
                      /\ Ranged(u.kids[l], lo, hi)
    OBVIOUS
  <2>1. CASE l = p  BY <2>1, <1>1, <1>2
  <2>2. CASE l # p
    <3>1. u.kids[l] = t.kids[l]  BY <2>2, <1>1, <1>2
    <3> QED  BY <3>1 DEF Nested
  <2> QED  BY <2>1, <2>2
<1> QED  BY <1>3 DEF Nested

\* remove_child
LEMMA RemoveNested ==
    ASSUME NEW t, Linked(t), NEW n \in Items, NEW p \in Parents, t.parent[n] = p,
           NEW lo, NEW hi, Nested(t, lo, hi)
    PROVE  Nested(RemoveChild(t, p, n), lo, hi)
<1> DEFINE s == Erase(t.kids[p], n)
<1>1. t \in Tree /\ t.kids[p] \in Seq(Items) /\ NoDuplicates(t.kids[p]) /\ n \in Elements(t.kids[p])
  BY KidsAreLists DEF Linked
<1>2. Elements(s) \subseteq Elements(t.kids[p])  BY <1>1, EraseElements
<1>3. RemoveChild(t, p, n).kids = [t.kids EXCEPT ![p] = s]  BY <1>1, RemoveChildKids
<1>4. Ranged(t.kids[p], lo, hi) => Ranged(s, lo, hi)  BY <1>1, EraseRanged
<1> HIDE DEF s
<1>5. p \in Layouts => /\ \A m \in Elements(s) : lo[p] < lo[m] /\ hi[m] < hi[p]
                       /\ Ranged(s, lo, hi)
  BY <1>2, <1>4 DEF Nested
<1> QED  BY <1>1, <1>3, <1>5, NestedList

\* The interval of n is within the one of p and between those of p's i-th child
\* and of the one before it.
Fits(t, p, i, n, lo, hi) ==
    /\ lo[p] < lo[n] /\ hi[n] < hi[p]
    /\ \A k \in 1..Len(t.kids[p]) : /\ k < i => hi[t.kids[p][k]] <= lo[n]
                                    /\ k >= i => hi[n] <= lo[t.kids[p][k]]

\* insert_child, where the new child fits.
LEMMA InsertNested ==
    ASSUME NEW t \in Tree, NEW p \in Parents, NEW n \in Items, NEW i \in 1..Len(t.kids[p]) + 1,
           NEW lo, NEW hi, Nested(t, lo, hi), p \in Layouts => Fits(t, p, i, n, lo, hi)
    PROVE  Nested(InsertChild(t, p, i, n), lo, hi)
<1> DEFINE s == InsertAt(t.kids[p], i, n)
<1>1. t.kids[p] \in Seq(Items)  BY KidsAreLists
<1>2. Elements(s) = Elements(t.kids[p]) \cup {n}  BY <1>1, InsertElements
<1>3. InsertChild(t, p, i, n).kids = [t.kids EXCEPT ![p] = s]  BY InsertChildKids
<1>4. p \in Layouts => Ranged(s, lo, hi)
  <2> SUFFICES ASSUME p \in Layouts  PROVE Ranged(s, lo, hi)  OBVIOUS
  <2>1. Ranged(t.kids[p], lo, hi)  BY DEF Nested
  <2>2. \A k \in 1..Len(t.kids[p]) : /\ k < i => hi[t.kids[p][k]] <= lo[n]
                                     /\ k >= i => hi[n] <= lo[t.kids[p][k]]
    BY DEF Fits
  <2> QED  BY <1>1, <2>1, <2>2, InsertRanged
<1> HIDE DEF s
<1>5. p \in Layouts => /\ \A m \in Elements(s) : lo[p] < lo[m] /\ hi[m] < hi[p]
                       /\ Ranged(s, lo, hi)
  BY <1>2, <1>4 DEF Nested, Fits
<1> QED  BY <1>3, <1>5, NestedList

\* A node takes the place of another, within the interval of that one.
LEMMA ReplaceNested ==
    ASSUME NEW t, Linked(t), NEW p \in Parents, NEW m \in Items, t.parent[m] = p, NEW n \in Items,
           NEW lo, NEW hi, Nested(t, lo, hi),
           p \in Layouts => lo[m] <= lo[n] /\ hi[n] <= hi[m]
    PROVE  Nested(Replace(t, p, m, n), lo, hi)
<1> DEFINE i == IndexOf(t, m)
           s == [t.kids[p] EXCEPT ![i] = n]
<1>1. /\ t \in Tree /\ t.kids[p] \in Seq(Items) /\ NoDuplicates(t.kids[p])
      /\ m \in Elements(t.kids[p])
  BY KidsAreLists DEF Linked
<1>2. i \in 1..Len(t.kids[p]) /\ t.kids[p][i] = m  BY <1>1, PositionFound DEF IndexOf
<1>3. Replace(t, p, m, n).kids = [t.kids EXCEPT ![p] = s]  BY <1>1, ReplaceKids
<1> HIDE DEF i
<1>4. Elements(s) = (Elements(t.kids[p]) \ {m}) \cup {n}  BY <1>1, <1>2, AssignElements
<1>5. \A x \in Items : lo[x] \in Int /\ hi[x] \in Int  BY DEF Nested
<1>6. p \in Layouts => Ranged(s, lo, hi)
  <2> SUFFICES ASSUME p \in Layouts  PROVE Ranged(s, lo, hi)  OBVIOUS
  <2>1. Ranged(t.kids[p], lo, hi)  BY DEF Nested
  <2>2. lo[t.kids[p][i]] <= lo[n] /\ hi[n] <= hi[t.kids[p][i]]  BY <1>2
  <2> QED  BY <1>1, <1>2, <1>5, <2>1, <2>2, AssignRanged
<1> HIDE DEF s
<1>7. ASSUME p \in Layouts  PROVE lo[p] < lo[n] /\ hi[n] < hi[p]
  <2>1. lo[p] < lo[m] /\ hi[m] < hi[p]  BY <1>1, <1>7 DEF Nested
  <2>2. p \in Items  BY <1>7 DEF Items
  <2> QED  BY <2>1, <2>2, <1>5, <1>7
<1>8. p \in Layouts => /\ \A x \in Elements(s) : lo[p] < lo[x] /\ hi[x] < hi[p]
                       /\ Ranged(s, lo, hi)
  BY <1>4, <1>6, <1>7 DEF Nested
<1> QED  BY <1>1, <1>3, <1>8, NestedList

\* The intervals lo2, hi2 are lo, hi with room between any two, but for those of X.
Spread(lo, hi, lo2, hi2, X) ==
    /\ lo2 \in [Items -> Int] /\ hi2 \in [Items -> Int]
    /\ \A n \in Items : lo2[n] < hi2[n]
    /\ \A n \in Items \ X : lo2[n] = 8 * lo[n] + 3 /\ hi2[n] = 8 * hi[n] - 3

\* The nodes of X, which hang nowhere, get any interval.
LEMMA RoomMade ==
    ASSUME NEW t, Linked(t), NEW lo, NEW hi, Nested(t, lo, hi), NEW X \in SUBSET Items,
           \A n \in X : t.parent[n] = Nil /\ (n \in Layouts => t.kids[n] = <<>>),
           NEW lo2, NEW hi2, Spread(lo, hi, lo2, hi2, X)
    PROVE  Nested(t, lo2, hi2)
<1>6. /\ lo2 \in [Items -> Int] /\ hi2 \in [Items -> Int]
      /\ \A n \in Items : lo2[n] < hi2[n]
      /\ \A n \in Items \ X : lo2[n] = 8 * lo[n] + 3 /\ hi2[n] = 8 * hi[n] - 3
  BY DEF Spread
<1>1. t \in Tree /\ \A l \in Layouts : l \in Parents /\ l \in Items  BY DEF Linked, Parents, Items
<1>2. \A n \in Items : lo[n] \in Int /\ hi[n] \in Int  BY DEF Nested
<1>3. ASSUME NEW l \in Layouts, NEW n \in Elements(t.kids[l])
      PROVE  n \in Items \ X /\ l \in Items \ X
  <2>1. n \in Items  BY <1>1, KidsAreLists DEF Elements
  <2>2. t.parent[n] = l /\ l # Nil  BY <1>1, <2>1, KindsAssumption DEF Linked
  <2>3. t.kids[l] # <<>>  BY <1>1, KidsAreLists
  <2> QED  BY <1>1, <2>1, <2>2, <2>3
<1>4. ASSUME NEW l \in Layouts, NEW n \in Elements(t.kids[l])
      PROVE  lo2[l] < lo2[n] /\ hi2[n] < hi2[l]
  <2>1. n \in Items \ X /\ l \in Items \ X  BY <1>3
  <2>2. lo[l] < lo[n] /\ hi[n] < hi[l]  BY DEF Nested
  <2>3. lo2[l] = 8 * lo[l] + 3 /\ hi2[l] = 8 * hi[l] - 3  BY <2>1, <1>6
  <2>4. lo2[n] = 8 * lo[n] + 3 /\ hi2[n] = 8 * hi[n] - 3  BY <2>1, <1>6
  <2>5. lo[l] \in Int /\ hi[l] \in Int /\ lo[n] \in Int /\ hi[n] \in Int  BY <1>2, <2>1
  <2>6. lo2[l] < lo2[n]  BY <2>2, <2>3, <2>4, <2>5
  <2>7. hi2[n] < hi2[l]  BY <2>2, <2>3, <2>4, <2>5
  <2> QED  BY <2>6, <2>7
<1>5. ASSUME NEW l \in Layouts  PROVE Ranged(t.kids[l], lo2, hi2)
  <2> SUFFICES ASSUME NEW i \in 1..Len(t.kids[l]), NEW j \in 1..Len(t.kids[l]), i < j
               PROVE  hi2[t.kids[l][i]] <= lo2[t.kids[l][j]]
    BY DEF Ranged
  <2> DEFINE a == t.kids[l][i]
             b == t.kids[l][j]
  <2>1. a \in Elements(t.kids[l]) /\ b \in Elements(t.kids[l])  BY DEF Elements
  <2>2. hi[a] <= lo[b]  BY DEF Nested, Ranged
  <2> HIDE DEF a, b
  <2>3. a \in Items \ X /\ b \in Items \ X  BY <2>1, <1>3
  <2>4. hi2[a] = 8 * hi[a] - 3 /\ lo2[b] = 8 * lo[b] + 3  BY <2>3, <1>6
  <2>5. hi[a] \in Int /\ lo[b] \in Int  BY <1>2, <2>3
  <2>6. hi2[a] <= lo2[b]  BY <2>2, <2>4, <2>5
  <2> QED  BY <2>6 DEF a, b
<1> QED  BY <1>4, <1>5, <1>6 DEF Nested

-----------------------------------------------------------------------------
(* Where the operations put a window.                                       *)

\* lo2 orders the other windows as lo does, and has w before those that lo has at q
\* or after it.
Put(lo, lo2, w, q) ==
    /\ q \in Int
    /\ \A u, v \in Windows \ {w} : lo2[u] < lo2[v] <=> lo[u] < lo[v]
    /\ \A v \in Windows \ {w} : lo2[v] < lo2[w] <=> lo[v] < q

\* The windows of u are in the order of lo, but for w, which is at q.
PutAt(u, lo, w, q) == \E lo2, hi2 : Nested(u, lo2, hi2) /\ Put(lo, lo2, w, q)

\* The intervals make room for a window where lo has q.
LEMMA RoomIsPut ==
    ASSUME NEW lo \in [Items -> Int], NEW lo2, NEW w \in Windows, NEW q \in Int,
           \A v \in Windows \ {w} : lo2[v] = 8 * lo[v] + 3,
           lo2[w] \in Int, 8 * q - 4 <= lo2[w], lo2[w] <= 8 * q + 3
    PROVE  Put(lo, lo2, w, q)
<1>1. \A v \in Windows : lo[v] \in Int  BY DEF Items
<1>2. ASSUME NEW u \in Windows \ {w}, NEW v \in Windows \ {w}
      PROVE  lo2[u] < lo2[v] <=> lo[u] < lo[v]
  <2>1. lo[u] \in Int /\ lo[v] \in Int /\ lo2[u] = 8 * lo[u] + 3 /\ lo2[v] = 8 * lo[v] + 3
    BY <1>1
  <2> QED  BY <2>1
<1>3. ASSUME NEW v \in Windows \ {w}  PROVE lo2[v] < lo2[w] <=> lo[v] < q
  <2>1. lo[v] \in Int /\ lo2[v] = 8 * lo[v] + 3  BY <1>1
  <2> QED  BY <2>1
<1> QED  BY <1>2, <1>3 DEF Put

\* Between L and H, once they have been spread, there is room for the interval from a
\* to a + 1, which is where the unspread numbers have q.
Roomy(L, H, q, a) ==
    /\ q \in Int /\ a \in Int /\ 8 * q - 4 <= a /\ a <= 8 * q + 3
    /\ 8 * L + 3 < a /\ a + 1 < 8 * H - 3

\* An interval that ends at y, or begins at x, does not reach into that one.
EndsBefore(y, a)  == 8 * y - 3 <= a
BeginsAfter(x, a) == a + 1 <= 8 * x + 3

\* The four places: at the beginning, at the end, before x, after y.
LEMMA RoomNumbers ==
    ASSUME NEW L \in Int, NEW H \in Int, NEW x \in Int, NEW y \in Int, L < x, x < y, y < H
    PROVE  /\ Roomy(L, H, L + 1, 8 * L + 4) /\ Roomy(L, H, H - 1, 8 * H - 5)
           /\ Roomy(L, H, x, 8 * x + 2) /\ Roomy(L, H, y, 8 * y - 3)
BY DEF Roomy

\* What lies beside them.
LEMMA SideNumbers ==
    ASSUME NEW x \in Int, NEW y \in Int
    PROVE  /\ x < y => BeginsAfter(y, 8 * x + 4) /\ EndsBefore(x, 8 * y - 5)
           /\ x <= y => /\ BeginsAfter(y, 8 * x + 2) /\ EndsBefore(x, 8 * y + 2)
                        /\ BeginsAfter(y, 8 * x - 3) /\ EndsBefore(x, 8 * y - 3)
BY DEF BeginsAfter, EndsBefore

\* There is such room below p, before the i-th child.
RoomAt(t, lo, hi, p, i, q, a) ==
    /\ Roomy(lo[p], hi[p], q, a)
    /\ \A k \in 1..Len(t.kids[p]) : /\ k < i => EndsBefore(hi[t.kids[p][k]], a)
                                    /\ k >= i => BeginsAfter(lo[t.kids[p][k]], a)

\* A window that hangs nowhere is put below p, at a place that has room.
LEMMA InsertAtRoom ==
    ASSUME NEW t, Linked(t), NEW lo, NEW hi, Nested(t, lo, hi),
           NEW w \in Windows, t.parent[w] = Nil, NEW p \in Layouts,
           NEW i \in 1..Len(t.kids[p]) + 1, NEW q, NEW a, RoomAt(t, lo, hi, p, i, q, a)
    PROVE  PutAt(InsertChild(t, p, i, w), lo, w, q)
<1> DEFINE lo2 == [n \in Items |-> IF n = w THEN a ELSE 8 * lo[n] + 3]
           hi2 == [n \in Items |-> IF n = w THEN a + 1 ELSE 8 * hi[n] - 3]
           X == {w}
<1>1. /\ t \in Tree /\ w \in Items /\ w \notin Layouts /\ p \in Items /\ p \in Parents /\ p # w
  BY KindsAssumption DEF Linked, Items, Parents
<1>2. /\ lo \in [Items -> Int]
      /\ \A n \in Items : lo[n] \in Int /\ hi[n] \in Int /\ lo[n] < hi[n]
  BY DEF Nested
<1>9. /\ q \in Int /\ a \in Int /\ 8 * q - 4 <= a /\ a <= 8 * q + 3
      /\ 8 * lo[p] + 3 < a /\ a + 1 < 8 * hi[p] - 3
  BY DEF RoomAt, Roomy
<1>10. a \in Int  BY <1>9
<1>3. /\ lo2 \in [Items -> Int] /\ hi2 \in [Items -> Int]
      /\ lo2[w] = a /\ hi2[w] = a + 1
      /\ \A n \in Items \ {w} : lo2[n] = 8 * lo[n] + 3 /\ hi2[n] = 8 * hi[n] - 3
  BY <1>1, <1>2, <1>10
<1> HIDE DEF lo2, hi2
<1>4. ASSUME NEW n \in Items  PROVE lo2[n] < hi2[n]
  <2>1. CASE n = w  BY <2>1, <1>3, <1>9
  <2>2. CASE n # w
    <3>1. /\ lo[n] \in Int /\ hi[n] \in Int /\ lo[n] < hi[n]
          /\ lo2[n] = 8 * lo[n] + 3 /\ hi2[n] = 8 * hi[n] - 3
      BY <2>2, <1>2, <1>3
    <3> QED  BY <3>1
  <2> QED  BY <2>1, <2>2
<1>5. Nested(t, lo2, hi2)
  <2>1. X \in SUBSET Items /\ \A n \in X : t.parent[n] = Nil /\ (n \in Layouts => t.kids[n] = <<>>)
    BY <1>1
  <2>2. Spread(lo, hi, lo2, hi2, X)  BY <1>3, <1>4 DEF Spread
  <2> HIDE DEF X
  <2> QED  BY <2>1, <2>2, RoomMade
<1>6. Fits(t, p, i, w, lo2, hi2)
  <2>1. lo2[p] = 8 * lo[p] + 3 /\ hi2[p] = 8 * hi[p] - 3  BY <1>1, <1>3
  <2>2. ASSUME NEW k \in 1..Len(t.kids[p])
        PROVE  /\ k < i => hi2[t.kids[p][k]] <= lo2[w]
               /\ k >= i => hi2[w] <= lo2[t.kids[p][k]]
    <3> DEFINE x == t.kids[p][k]
    <3>1. x \in Items /\ x \in Elements(t.kids[p])  BY <1>1, KidsAreLists
    <3>2. x # w  BY <3>1, <1>1, KindsAssumption DEF Linked, Parents
    <3>3. lo2[x] = 8 * lo[x] + 3 /\ hi2[x] = 8 * hi[x] - 3  BY <3>1, <3>2, <1>3
    <3>4. /\ k < i => 8 * hi[x] - 3 <= a
          /\ k >= i => a + 1 <= 8 * lo[x] + 3
      BY DEF RoomAt, EndsBefore, BeginsAfter
    <3> HIDE DEF x
    <3>5. /\ k < i => hi2[x] <= lo2[w]
          /\ k >= i => hi2[w] <= lo2[x]
      BY <3>3, <3>4, <1>3
    <3> QED  BY <3>5 DEF x
  <2> QED  BY <2>1, <2>2, <1>3, <1>9 DEF Fits
<1>7. Nested(InsertChild(t, p, i, w), lo2, hi2)  BY <1>1, <1>5, <1>6, InsertNested
<1>8. Put(lo, lo2, w, q)
  <2>1. \A v \in Windows \ {w} : lo2[v] = 8 * lo[v] + 3  BY <1>3 DEF Items
  <2> QED  BY <2>1, <1>2, <1>3, <1>9, RoomIsPut
<1> QED  BY <1>7, <1>8 DEF PutAt

\* The intervals of the children of a node, one by one.
LEMMA KidsNested ==
    ASSUME NEW t \in Tree, NEW lo, NEW hi, Nested(t, lo, hi), NEW p \in Layouts
    PROVE  /\ lo[p] \in Int /\ hi[p] \in Int /\ Len(t.kids[p]) \in Nat
           /\ \A k \in 1..Len(t.kids[p]) :
                 /\ lo[t.kids[p][k]] \in Int /\ hi[t.kids[p][k]] \in Int
                 /\ lo[p] < lo[t.kids[p][k]] /\ hi[t.kids[p][k]] < hi[p]
                 /\ lo[t.kids[p][k]] < hi[t.kids[p][k]]
           /\ \A j, k \in 1..Len(t.kids[p]) : j < k => hi[t.kids[p][j]] <= lo[t.kids[p][k]]
<1>1. p \in Items /\ p \in Parents  BY DEF Items, Parents
<1>2. /\ Len(t.kids[p]) \in Nat
      /\ \A k \in 1..Len(t.kids[p]) : t.kids[p][k] \in Items /\ t.kids[p][k] \in Elements(t.kids[p])
  BY <1>1, KidsAreLists
<1>3. \A n \in Items : lo[n] \in Int /\ hi[n] \in Int /\ lo[n] < hi[n]  BY DEF Nested
<1>4. \A n \in Elements(t.kids[p]) : lo[p] < lo[n] /\ hi[n] < hi[p]  BY DEF Nested
<1>5. \A j, k \in 1..Len(t.kids[p]) : j < k => hi[t.kids[p][j]] <= lo[t.kids[p][k]]
  BY DEF Nested, Ranged
<1> QED  BY <1>1, <1>2, <1>3, <1>4, <1>5

\* A window is put first or last below a layout that has children, or next to one of them.
LEMMA InsertPut ==
    ASSUME NEW t, Linked(t), NEW lo, NEW hi, Nested(t, lo, hi),
           NEW w \in Windows, t.parent[w] = Nil, NEW p \in Layouts, t.kids[p] # <<>>,
           NEW i \in 1..Len(t.kids[p]) + 1
    PROVE  LET u == InsertChild(t, p, i, w)
           IN  /\ i = 1 => PutAt(u, lo, w, lo[p] + 1)
               /\ i = Len(t.kids[p]) + 1 => PutAt(u, lo, w, hi[p] - 1)
               /\ i <= Len(t.kids[p]) => PutAt(u, lo, w, lo[t.kids[p][i]])
               /\ i > 1 => PutAt(u, lo, w, hi[t.kids[p][i - 1]])
<1> DEFINE s == t.kids[p]
           u == InsertChild(t, p, i, w)
<1>1. t \in Tree /\ p \in Parents  BY DEF Linked, Parents
<1>2. /\ lo[p] \in Int /\ hi[p] \in Int /\ Len(s) \in Nat
      /\ \A k \in 1..Len(s) : /\ lo[s[k]] \in Int /\ hi[s[k]] \in Int
                              /\ lo[p] < lo[s[k]] /\ hi[s[k]] < hi[p]
                              /\ lo[s[k]] < hi[s[k]]
      /\ \A j, k \in 1..Len(s) : j < k => hi[s[j]] <= lo[s[k]]
  BY <1>1, KidsNested
<1>3. Len(s) >= 1
  <2>1. Len(s) # 0  BY <1>1, KidsAreLists
  <2> QED  BY <2>1, <1>2
<1>4. \A q, a : RoomAt(t, lo, hi, p, i, q, a) => PutAt(u, lo, w, q)  BY InsertAtRoom
<1>5. i \in 1..Len(s) + 1 /\ 1 \in 1..Len(s)  BY <1>2, <1>3
<1>6. \A k \in 1..Len(s) :
         /\ Roomy(lo[p], hi[p], lo[p] + 1, 8 * lo[p] + 4)
         /\ Roomy(lo[p], hi[p], hi[p] - 1, 8 * hi[p] - 5)
         /\ Roomy(lo[p], hi[p], lo[s[k]], 8 * lo[s[k]] + 2)
         /\ Roomy(lo[p], hi[p], hi[s[k]], 8 * hi[s[k]] - 3)
  BY <1>2, RoomNumbers
<1> DEFINE G(q, a) == /\ Roomy(lo[p], hi[p], q, a)
                      /\ \A k \in 1..Len(s) : /\ k < i => EndsBefore(hi[s[k]], a)
                                              /\ k >= i => BeginsAfter(lo[s[k]], a)
<1>7. \A q, a : G(q, a) => PutAt(u, lo, w, q)  BY <1>4 DEF RoomAt
<1> HIDE DEF u, s
<1>8. ASSUME i = 1  PROVE PutAt(u, lo, w, lo[p] + 1)
  <2>1. \A k \in 1..Len(s) : ~(k < i) /\ BeginsAfter(lo[s[k]], 8 * lo[p] + 4)
    <3> SUFFICES ASSUME NEW k \in 1..Len(s)
                 PROVE  ~(k < i) /\ BeginsAfter(lo[s[k]], 8 * lo[p] + 4)
      OBVIOUS
    <3>1. lo[p] \in Int /\ lo[s[k]] \in Int /\ lo[p] < lo[s[k]]  BY <1>2
    <3>2. BeginsAfter(lo[s[k]], 8 * lo[p] + 4)  BY <3>1, SideNumbers
    <3> QED  BY <3>2, <1>8
  <2>2. G(lo[p] + 1, 8 * lo[p] + 4)  BY <1>5, <1>6, <2>1
  <2> HIDE DEF G
  <2> QED  BY <2>2, <1>7
<1>9. ASSUME i = Len(s) + 1  PROVE PutAt(u, lo, w, hi[p] - 1)
  <2>1. \A k \in 1..Len(s) : ~(k >= i) /\ EndsBefore(hi[s[k]], 8 * hi[p] - 5)
    BY <1>2, <1>9, SideNumbers
  <2>2. G(hi[p] - 1, 8 * hi[p] - 5)  BY <1>5, <1>6, <2>1
  <2> HIDE DEF G
  <2> QED  BY <2>2, <1>7
<1>10. ASSUME i <= Len(s)  PROVE PutAt(u, lo, w, lo[s[i]])
  <2>1. i \in 1..Len(s)  BY <1>2, <1>5, <1>10
  <2>2. ASSUME NEW k \in 1..Len(s)
        PROVE  /\ k < i => EndsBefore(hi[s[k]], 8 * lo[s[i]] + 2)
               /\ k >= i => BeginsAfter(lo[s[k]], 8 * lo[s[i]] + 2)
    <3>1. k < i => hi[s[k]] <= lo[s[i]]  BY <2>1, <1>2
    <3>2. k >= i => lo[s[i]] <= lo[s[k]]
      <4>1. CASE k = i  BY <4>1, <1>2
      <4>2. CASE k > i
        <5>1. hi[s[i]] <= lo[s[k]] /\ lo[s[i]] < hi[s[i]]  BY <4>2, <2>1, <1>2
        <5>2. lo[s[i]] \in Int /\ hi[s[i]] \in Int /\ lo[s[k]] \in Int  BY <2>1, <1>2
        <5> QED  BY <5>1, <5>2
      <4> QED  BY <4>1, <4>2, <2>1
    <3>3. hi[s[k]] \in Int /\ lo[s[k]] \in Int /\ lo[s[i]] \in Int  BY <2>1, <1>2
    <3> QED  BY <3>1, <3>2, <3>3, SideNumbers
  <2>3. G(lo[s[i]], 8 * lo[s[i]] + 2)  BY <2>1, <2>2, <1>6
  <2> HIDE DEF G
  <2> QED  BY <2>3, <1>7
<1>11. ASSUME i > 1  PROVE PutAt(u, lo, w, hi[s[i - 1]])
  <2> DEFINE j == i - 1
  <2>1. j \in 1..Len(s) /\ \A k \in 1..Len(s) : /\ k < i => k < j \/ k = j
                                                /\ k >= i => j < k
    BY <1>2, <1>5, <1>11
  <2> HIDE DEF j
  <2>2. ASSUME NEW k \in 1..Len(s)
        PROVE  /\ k < i => EndsBefore(hi[s[k]], 8 * hi[s[j]] - 3)
               /\ k >= i => BeginsAfter(lo[s[k]], 8 * hi[s[j]] - 3)
    <3>1. k >= i => hi[s[j]] <= lo[s[k]]  BY <2>1, <1>2
    <3>2. k < i => hi[s[k]] <= hi[s[j]]
      <4>1. CASE k = j  BY <4>1, <1>2
      <4>2. CASE k < j
        <5>1. hi[s[k]] <= lo[s[j]] /\ lo[s[j]] < hi[s[j]]  BY <4>2, <2>1, <1>2
        <5>2. hi[s[k]] \in Int /\ hi[s[j]] \in Int /\ lo[s[j]] \in Int  BY <2>1, <1>2
        <5> QED  BY <5>1, <5>2
      <4> QED  BY <4>1, <4>2, <2>1
    <3>3. hi[s[k]] \in Int /\ lo[s[k]] \in Int /\ hi[s[j]] \in Int  BY <2>1, <1>2
    <3> QED  BY <3>1, <3>2, <3>3, SideNumbers
  <2>3. G(hi[s[j]], 8 * hi[s[j]] - 3)  BY <2>1, <2>2, <1>6
  <2> HIDE DEF G
  <2>4. PutAt(u, lo, w, hi[s[j]])  BY <2>3, <1>7
  <2> QED  BY <2>4 DEF j
<1> QED  BY <1>8, <1>9, <1>10, <1>11 DEF s, u

\* update_rect moves no node.
LEMMA UpdateNested ==
    ASSUME NEW t \in Tree, NEW n, NEW lo, NEW hi, Nested(t, lo, hi)
    PROVE  Nested(UpdateRect(t, n), lo, hi)
<1>1. UpdateRect(t, n).kids = t.kids  BY UpdateRectSame DEF Same
<1> QED  BY <1>1, NestedSame

\* _purge_sole_node: the only child takes the place of the node it replaces.
LEMMA PurgeSoleNested ==
    ASSUME NEW t, Linked(t), Acyclic(t), NEW p \in t.live, Shaped(t, t.live \ {p}),
           NEW lo, NEW hi, Nested(t, lo, hi)
    PROVE  Nested(PurgeSoleNode(t, p), lo, hi)
<1>1. t \in Tree /\ p \in Layouts /\ p \in Parents /\ p \in Items
  BY DEF Linked, Tree, Parents, Items
<1>2. CASE ~IsSole(t, p)  BY <1>2 DEF PurgeSoleNode
<1>3. CASE IsSole(t, p)
  <2> DEFINE g  == t.parent[p]
             c  == t.kids[p][1]
             v1 == RemoveChild(t, p, c)
             v2 == Replace(v1, g, p, c)
             v3 == Delete(v2, p)
             u  == PurgeSoleNode(t, p)
  <2>1. u = UpdateRect(v3, g)  BY <1>3 DEF PurgeSoleNode
  <2>2. c \in Items /\ Elements(t.kids[p]) = {c} /\ Len(t.kids[p]) = 1
    BY <1>1, <1>3, OnlyKid DEF IsSole
  <2>3. g # Nil  BY DEF Shaped
  <2>4. g \in t.live \cup Workspaces  BY <1>1, <2>3, ParentKinds
  <2> HIDE DEF g, c, v1, v2, v3, u
  <2>5. t.parent[c] = p  BY <1>1, <2>2 DEF Linked
  <2>6. p # Nil /\ p \notin Workspaces /\ g \in Parents
    BY <1>1, <2>4, KindsAssumption DEF Tree, Parents
  <2>7. c \in Windows \cup t.live  BY <2>2, <2>5, <2>6 DEF Linked, Items
  <2>8. c # p /\ g # p
    <3>1. c \in Windows => c # p  BY <1>1, KindsAssumption
    <3>2. c \in Layouts => c # p  BY <1>1, <2>5, NoSelfParent
    <3>3. g \in Layouts => g # p  BY <1>1, NoSelfParent DEF g
    <3> QED  BY <3>1, <3>2, <3>3, <2>2, <2>6 DEF Items, Parents
  <2>9. Removed(t, v1, p, c)  BY <1>1, <2>2, <2>5, RemoveChildLinks DEF v1
  <2>10. /\ Linked(v1) /\ v1.live = t.live /\ v1.parent[p] = g /\ v1.parent[c] = Nil
         /\ Elements(v1.kids[p]) = {} /\ v1 \in Tree
    BY <1>1, <2>2, <2>8, <2>9 DEF Removed, Rest, Linked, Tree, g
  <2>11. Replaced(v1, v2, g, p, c)
    BY <1>1, <2>6, <2>7, <2>10, ReplaceLinks DEF v2
  <2>12. Linked(v2) /\ v2.parent[p] = Nil /\ v2.kids[p] = <<>>
    <3>1. v1.kids[p] = <<>>  BY <1>1, <2>10, KidsAreLists
    <3>2. v1.parent \in [Items -> Parents \cup {Nil}]  BY <2>10 DEF Tree
    <3>3. v2.parent[p] = Nil  BY <1>1, <2>2, <2>8, <2>11, <3>2 DEF Replaced
    <3> QED  BY <1>1, <2>8, <2>11, <3>1, <3>3 DEF Replaced
  <2>13. Linked(v3) /\ v3.kids = v2.kids  BY <1>1, <2>12, DeleteLinks DEF v3
  <2>14. Nested(v1, lo, hi)  BY <1>1, <2>2, <2>5, RemoveNested DEF v1
  <2>15. lo[p] <= lo[c] /\ hi[c] <= hi[p]
    <3>1. lo[p] < lo[c] /\ hi[c] < hi[p]  BY <1>1, <2>2 DEF Nested
    <3>2. lo[p] \in Int /\ lo[c] \in Int /\ hi[c] \in Int /\ hi[p] \in Int
      BY <1>1, <2>2 DEF Nested
    <3> QED  BY <3>1, <3>2
  <2>16. Nested(v2, lo, hi)  BY <1>1, <2>2, <2>6, <2>10, <2>14, <2>15, ReplaceNested DEF v2
  <2>17. Nested(v3, lo, hi)  BY <2>13, <2>16, NestedSame
  <2>18. Nested(UpdateRect(v3, g), lo, hi)  BY <2>13, <2>17, UpdateNested DEF Linked
  <2> QED  BY <2>1, <2>18 DEF u
<1> QED  BY <1>2, <1>3

\* _purge_and_reconfigure leaves every node that stays at its place.
LEMMA PurgeNested ==
    ASSUME NEW t, TreeInv(t), NEW w \in Windows, t.parent[w] # Nil,
           NEW lo, NEW hi, Nested(t, lo, hi)
    PROVE  Nested(PurgeAndReconfigure(t, w), lo, hi)
<1> DEFINE p  == t.parent[w]
           g  == t.parent[p]
           t1 == RemoveChild(t, p, w)
           u  == PurgeAndReconfigure(t, w)
<1>1. t \in Tree /\ Linked(t) /\ Shaped(t, t.live) /\ w \in Items
  BY DEF TreeInv, Linked, Items
<1>2. /\ p \in t.live /\ Removed(t, t1, p, w) /\ t1.live = t.live
      /\ Linked(t1) /\ Acyclic(t1) /\ Shaped(t1, t1.live \ {p})
      /\ \A m \in Items : t1.parent[m] = IF m = w THEN Nil ELSE t.parent[m]
  BY RemoveWindowShape
<1>3. u = IF t1.kids[p] = <<>> THEN UpdateRect(Delete(RemoveChild(t1, g, p), p), g)
          ELSE IF IsSole(t1, p) THEN PurgeSoleNode(t1, p)
          ELSE UpdateRect(t1, p)
  BY DEF PurgeAndReconfigure
<1>4. p \in Parents /\ p \in Items /\ p # w /\ p \in Layouts
  BY <1>1, <1>2, KindsAssumption DEF Tree, Parents, Items
<1>5. Nested(t1, lo, hi)  BY <1>1, <1>4, RemoveNested
<1> HIDE DEF p, t1, u
<1>6. t1 \in Tree  BY <1>2 DEF Linked
<1>7. CASE t1.kids[p] # <<>>
  <2>1. Nested(PurgeSoleNode(t1, p), lo, hi)  BY <1>2, <1>5, PurgeSoleNested
  <2>2. Nested(UpdateRect(t1, p), lo, hi)  BY <1>5, <1>6, UpdateNested
  <2> QED  BY <2>1, <2>2, <1>3, <1>7 DEF u
<1>8. CASE t1.kids[p] = <<>>
  <2> DEFINE v2 == RemoveChild(t1, g, p)
             v3 == Delete(v2, p)
  <2>1. g # Nil  BY <1>1, <1>2 DEF Shaped
  <2>2. g \in Parents /\ t1.parent[p] = g  BY <1>1, <1>2, <1>4, <2>1 DEF Tree
  <2>3. g # p
    <3>1. Acyclic(t)  BY DEF TreeInv
    <3> HIDE DEF g
    <3>2. g \in Layouts => t.parent[p] # p  BY <1>4, <3>1, NoSelfParent DEF g
    <3> QED  BY <3>2, <1>4 DEF g
  <2> HIDE DEF g, v2, v3
  <2>4. Removed(t1, v2, g, p)  BY <1>2, <1>4, <2>2, RemoveChildLinks DEF v2
  <2>5. Linked(v2) /\ v2.parent[p] = Nil /\ v2.kids[p] = <<>>
    BY <1>4, <1>6, <1>8, <2>3, <2>4 DEF Removed, Tree
  <2>6. Linked(v3) /\ v3.kids = v2.kids  BY <1>4, <2>5, DeleteLinks DEF v3
  <2>7. Nested(v2, lo, hi)  BY <1>2, <1>4, <1>5, <2>2, RemoveNested DEF v2
  <2>8. Nested(v3, lo, hi)  BY <2>6, <2>7, NestedSame
  <2>9. Nested(UpdateRect(v3, g), lo, hi)  BY <2>6, <2>8, UpdateNested DEF Linked
  <2>10. u = UpdateRect(v3, g)  BY <1>3, <1>8 DEF v3, v2
  <2> QED  BY <2>9, <2>10 DEF u
<1> QED  BY <1>7, <1>8

\* What moves no window to another interval leaves it where it was put.
LEMMA PutStays ==
    ASSUME NEW t, NEW u, NEW lo, NEW w,
           \A lo2, hi2 : Nested(t, lo2, hi2) => Nested(u, lo2, hi2)
    PROVE  \A q : PutAt(t, lo, w, q) => PutAt(u, lo, w, q)
BY DEF PutAt

\* The window leaves its layout p, which has another child, for position i of the layout l.
LEMMA MoveToLayoutPut ==
    ASSUME NEW t, TreeInv(t), NEW w \in Windows, t.parent[w] # Nil,
           Len(t.kids[t.parent[w]]) # 1, NEW l \in t.live, l # t.parent[w],
           NEW i \in 1..Len(t.kids[l]) + 1, NEW lo, NEW hi, Nested(t, lo, hi)
    PROVE  LET u == MoveToLayout(t, w, l, i)
           IN  /\ i = 1 => PutAt(u, lo, w, lo[l] + 1)
               /\ i = Len(t.kids[l]) + 1 => PutAt(u, lo, w, hi[l] - 1)
               /\ i <= Len(t.kids[l]) => PutAt(u, lo, w, lo[t.kids[l][i]])
               /\ i > 1 => PutAt(u, lo, w, hi[t.kids[l][i - 1]])
<1> DEFINE p  == t.parent[w]
           t0 == RemoveChild(t, p, w)
           t1 == InsertChild(t0, l, i, w)
           t2 == PurgeSoleNode(t1, p)
           u  == MoveToLayout(t, w, l, i)
<1>1. t \in Tree /\ Linked(t) /\ Shaped(t, t.live) /\ w \in Items
  BY DEF TreeInv, Linked, Items
<1>2. /\ p \in t.live /\ Removed(t, t0, p, w) /\ t0.live = t.live
      /\ Linked(t0) /\ Acyclic(t0) /\ Shaped(t0, t0.live \ {p})
      /\ \A m \in Items : t0.parent[m] = IF m = w THEN Nil ELSE t.parent[m]
  BY RemoveWindowShape
<1>3. u = UpdateRect(t2, t2.parent[l])  BY DEF MoveToLayout
<1>4. /\ p \in Layouts /\ p \in Parents /\ l \in Parents /\ l \in Layouts /\ l # p /\ t0 \in Tree
  BY <1>1, <1>2 DEF Tree, Parents, Linked
<1>5. Nested(t0, lo, hi)  BY <1>1, <1>4, RemoveNested
<1> HIDE DEF p, t0, t1, t2, u
<1>6. t0.kids[l] = t.kids[l]  BY <1>2, <1>4 DEF Removed
<1>7. t0.kids[l] # <<>>  BY <1>1, <1>6 DEF Shaped, Full
<1>8. t0.parent[w] = Nil  BY <1>1, <1>2
<1>9. i \in 1..Len(t0.kids[l]) + 1  BY <1>6
<1>10. Linked(t1) /\ Acyclic(t1) /\ Shaped(t1, t1.live \ {p}) /\ Inserted(t0, t1, l, w)
  <2>1. Shaped(t0, t0.live \ ({p} \cup {l}))  BY <1>2 DEF Shaped
  <2>2. l \in t0.live  BY <1>2
  <2> QED  BY <2>1, <2>2, <1>2, <1>7, <1>8, <1>9, InsertWindowShape DEF t1
<1>11. p \in t1.live  BY <1>2, <1>10 DEF Inserted, Rest
<1>12. \A lo2, hi2 : Nested(t1, lo2, hi2) => Nested(u, lo2, hi2)
  <2> SUFFICES ASSUME NEW lo2, NEW hi2, Nested(t1, lo2, hi2)  PROVE Nested(u, lo2, hi2)
    OBVIOUS
  <2>1. Nested(t2, lo2, hi2)  BY <1>10, <1>11, PurgeSoleNested DEF t2
  <2>2. t2 \in Tree
    <3>1. t1.kids[p] # <<>>
      <4>1. Len(t0.kids[p]) = Len(t.kids[p]) - 1  BY <1>2 DEF Removed
      <4>2. Len(t.kids[p]) # 1  BY DEF p
      <4>3. Len(t.kids[p]) \in Nat  BY <1>1, <1>4, KidsAreLists
      <4>4. \A k \in Nat : k # 1 => k - 1 # 0  OBVIOUS
      <4>5. Len(t0.kids[p]) # 0  BY <4>1, <4>2, <4>3, <4>4
      <4>6. t1.kids[p] = t0.kids[p]  BY <1>4, <1>10 DEF Inserted
      <4> QED  BY <4>5, <4>6, <1>4, KidsAreLists
    <3> QED  BY <3>1, <1>10, <1>11, PurgeSoleKeeps DEF t2, TreeInv, Linked
  <2> QED  BY <2>1, <2>2, <1>3, UpdateNested
<1>13. \A q : PutAt(t1, lo, w, q) => PutAt(u, lo, w, q)  BY <1>12, PutStays
<1>14. /\ i = 1 => PutAt(t1, lo, w, lo[l] + 1)
       /\ i = Len(t0.kids[l]) + 1 => PutAt(t1, lo, w, hi[l] - 1)
       /\ i <= Len(t0.kids[l]) => PutAt(t1, lo, w, lo[t0.kids[l][i]])
       /\ i > 1 => PutAt(t1, lo, w, hi[t0.kids[l][i - 1]])
  BY <1>2, <1>4, <1>5, <1>7, <1>8, <1>9, InsertPut DEF t1
<1> QED  BY <1>6, <1>13, <1>14 DEF u

\* shift_child_forward and shift_child_backward: the window goes over its neighbour.
LEMMA ShiftPut ==
    ASSUME NEW t, Linked(t), NEW p \in Layouts, NEW i \in 1..Len(t.kids[p]),
           NEW j \in 1..Len(t.kids[p]), t.kids[p][i] \in Windows,
           NEW lo, NEW hi, Nested(t, lo, hi)
    PROVE  LET u == ShiftChild(t, p, i, j)
               w == t.kids[p][i]
           IN  /\ j = i - 1 => PutAt(u, lo, w, lo[t.kids[p][j]])
               /\ j = i + 1 => PutAt(u, lo, w, hi[t.kids[p][j]])
<1>0. ShiftChild(t, p, i, j).kids = [t.kids EXCEPT ![p] = Swapped(t.kids[p], i, j)]
  <2>1. t \in Tree  BY DEF Linked
  <2>2. p \in Parents  BY DEF Parents
  <2> QED  BY <2>1, <2>2, ShiftChildKids
<1> DEFINE s == t.kids[p]
           w == t.kids[p][i]
           e == Erase(t.kids[p], w)
           c == InsertAt(e, j, w)
           d == [s EXCEPT ![i] = s[j], ![j] = s[i]]
           r == RemoveChild(t, p, w)
           y == InsertChild(r, p, j, w)
           u == ShiftChild(t, p, i, j)
<1>1. t \in Tree /\ p \in Parents /\ w \in Items /\ w \in Windows
  BY DEF Linked, Parents, Items
<1>2. /\ s \in Seq(Items) /\ NoDuplicates(s) /\ Len(s) \in Nat
      /\ \A k \in 1..Len(s) : s[k] \in Items /\ s[k] \in Elements(s)
  BY <1>1, KidsAreLists DEF Linked
<1>3. t.parent[w] = p  BY <1>1, <1>2 DEF Linked
<1>4. Removed(t, r, p, w)  BY <1>1, <1>3, RemoveChildLinks
<1>5. Nested(r, lo, hi)  BY <1>1, <1>3, RemoveNested
<1>6. r.kids = [t.kids EXCEPT ![p] = e]  BY <1>1, RemoveChildKids
<1>7. u.kids = [t.kids EXCEPT ![p] = d]
  BY <1>0, Zenon DEF Swapped
<1> HIDE DEF r
<1>8. Linked(r) /\ r \in Tree /\ r.parent[w] = Nil
  BY <1>1, <1>4 DEF Removed, Linked, Tree
<1>9. y.kids = [r.kids EXCEPT ![p] = InsertAt(r.kids[p], j, w)]  BY <1>1, <1>8, InsertChildKids
<1>10. r.kids[p] = e /\ y.kids = [t.kids EXCEPT ![p] = c]
  BY <1>1, <1>6, <1>9 DEF Tree
<1>11. /\ e \in Seq(Items) /\ Len(e) = Len(s) - 1
       /\ \A k \in 1..Len(s) - 1 : e[k] = IF k < i THEN s[k] ELSE s[k + 1]
  <2>1. w \in Elements(s)  BY <1>2
  <2>2. Position(s, w) = i
    <3>1. Position(s, w) \in 1..Len(s) /\ s[Position(s, w)] = s[i]  BY <1>2, <2>1, PositionFound
    <3> QED  BY <3>1, <1>2 DEF NoDuplicates
  <2> QED  BY <1>2, <2>1, <2>2, EraseIsSeq
<1> HIDE DEF s, e, y, u
<1>12. ASSUME j = i - 1 \/ j = i + 1
       PROVE  y.kids = u.kids /\ e # <<>> /\ j \in 1..Len(e) + 1
  <2>1. /\ c \in Seq(Items) /\ Len(c) = Len(e) + 1
        /\ \A k \in 1..Len(e) + 1 : c[k] = IF k < j THEN e[k] ELSE IF k = j THEN w ELSE e[k - 1]
    <3>1. j \in 1..Len(e) + 1  BY <1>2, <1>11 DEF s
    <3> QED  BY <3>1, <1>1, <1>11, InsertIsSeq
  <2>2. d \in Seq(Items) /\ Len(d) = Len(s)
        /\ \A k \in 1..Len(s) : d[k] = IF k = j THEN s[i] ELSE IF k = i THEN s[j] ELSE s[k]
    <3>1. i \in 1..Len(s) /\ j \in 1..Len(s)  BY DEF s
    <3>2. DOMAIN s = 1..Len(s)  BY <1>2, LenProperties
    <3>3. d = [k \in 1..Len(s) |-> IF k = j THEN s[i] ELSE IF k = i THEN s[j] ELSE s[k]]
      BY <3>1, <3>2
    <3> HIDE DEF d
    <3>4. \A k \in 1..Len(s) : d[k] = IF k = j THEN s[i] ELSE IF k = i THEN s[j] ELSE s[k]
      BY <3>3
    <3>5. \A k \in 1..Len(s) : d[k] \in Items  BY <3>1, <3>4, <1>2
    <3>6. d \in Seq(Items) /\ Len(d) = Len(s)
      <4>1. d \in [1..Len(s) -> Items]  BY <3>3, <3>5
      <4>2. d = [k \in 1..Len(s) |-> d[k]]  BY <4>1
      <4> QED  BY <4>1, <1>2, <4>2, IsASeq, LenProperties
    <3> QED  BY <3>4, <3>6
  <2>3. \A k \in 1..Len(s) : c[k] = d[k]
    <3> SUFFICES ASSUME NEW k \in 1..Len(s)  PROVE c[k] = d[k]  OBVIOUS
    <3>1. w = s[i]  BY DEF s
    <3>2. i \in Nat /\ j \in Nat /\ i >= 1 /\ j >= 1 /\ i <= Len(s) /\ j <= Len(s)  BY <1>2 DEF s
    <3> HIDE DEF c, d, w
    <3>3. k \in 1..Len(e) + 1  BY <1>2, <1>11
    <3>4. c[k] = IF k < j THEN e[k] ELSE IF k = j THEN w ELSE e[k - 1]  BY <3>3, <2>1
    <3>5. k < j => k \in 1..Len(s) - 1  BY <3>2, <1>2
    <3>6. k > j => k - 1 \in 1..Len(s) - 1 /\ (k - 1) + 1 = k  BY <3>2, <1>2
    <3>7. k < j => e[k] = IF k < i THEN s[k] ELSE s[k + 1]  BY <3>5, <1>11
    <3>8. k > j => e[k - 1] = IF k - 1 < i THEN s[k - 1] ELSE s[k]  BY <3>6, <1>11
    <3>9. d[k] = IF k = j THEN s[i] ELSE IF k = i THEN s[j] ELSE s[k]  BY <2>2
    <3>10. CASE k = j  BY <3>10, <3>1, <3>2, <3>4, <3>9
    <3>11. CASE k < j
      <4>1. c[k] = IF k < i THEN s[k] ELSE s[k + 1]  BY <3>4, <3>7, <3>11
      <4>2. CASE j = i - 1  BY <4>1, <4>2, <3>2, <3>9, <3>11
      <4>3. CASE j = i + 1
        <5>1. k = i \/ k < i  BY <4>3, <3>2, <3>11
        <5>2. k = i => c[k] = s[j]  BY <4>1, <4>3, <3>2
        <5>3. k < i => c[k] = s[k]  BY <4>1
        <5> QED  BY <5>1, <5>2, <5>3, <3>2, <3>9, <3>11
      <4> QED  BY <4>2, <4>3, <1>12
    <3>12. CASE k > j
      <4>1. c[k] = IF k - 1 < i THEN s[k - 1] ELSE s[k]  BY <3>2, <3>4, <3>8, <3>12
      <4>2. CASE j = i + 1
        <5>1. ~(k - 1 < i) /\ k # j /\ k # i  BY <4>2, <3>2, <3>12
        <5> QED  BY <5>1, <4>1, <3>9
      <4>3. CASE j = i - 1
        <5>1. k = i \/ k > i  BY <4>3, <3>2, <3>12
        <5>2. k = i => k - 1 < i /\ k - 1 = j  BY <4>3, <3>2
        <5>3. k > i => ~(k - 1 < i) /\ k # i  BY <3>2
        <5>4. k = i => c[k] = s[j]  BY <5>2, <4>1
        <5>5. k > i => c[k] = s[k]  BY <5>3, <4>1
        <5>6. k # j  BY <3>2, <3>12
        <5> QED  BY <5>1, <5>3, <5>4, <5>5, <5>6, <3>9
      <4> QED  BY <4>2, <4>3, <1>12
    <3> QED  BY <3>2, <3>10, <3>11, <3>12
  <2> HIDE DEF c, d
  <2>4. c = d
    <3>1. Len(c) = Len(s) /\ Len(d) = Len(s)  BY <2>1, <2>2, <1>2, <1>11
    <3> QED  BY <3>1, <2>1, <2>2, <2>3, SeqEqual
  <2>5. i \in 1..Len(s) /\ j \in 1..Len(s)  BY DEF s
  <2>6. Len(e) # 0 /\ j \in 1..Len(e) + 1  BY <2>5, <1>2, <1>11, <1>12
  <2>7. e # <<>>  BY <2>6, <1>11, EmptySeq
  <2> QED  BY <2>4, <2>6, <2>7, <1>7, <1>10
<1>13. ASSUME j = i - 1 \/ j = i + 1
       PROVE  /\ j <= Len(e) => PutAt(u, lo, w, lo[e[j]])
              /\ j > 1 => PutAt(u, lo, w, hi[e[j - 1]])
  <2>1. /\ y.kids = u.kids /\ r.kids[p] # <<>> /\ j \in 1..Len(r.kids[p]) + 1
    BY <1>12, <1>13, <1>10
  <2>2. /\ j <= Len(r.kids[p]) => PutAt(y, lo, w, lo[r.kids[p][j]])
        /\ j > 1 => PutAt(y, lo, w, hi[r.kids[p][j - 1]])
    BY <2>1, <1>1, <1>5, <1>8, InsertPut DEF y
  <2>3. \A lo2, hi2 : Nested(y, lo2, hi2) => Nested(u, lo2, hi2)  BY <2>1, NestedSame
  <2> HIDE DEF w
  <2>4. \A q : PutAt(y, lo, w, q) => PutAt(u, lo, w, q)  BY <2>3, PutStays
  <2> QED  BY <2>2, <2>4, <1>10
<1>14. i \in Nat /\ j \in Nat /\ 1 <= i /\ 1 <= j /\ i <= Len(s) /\ j <= Len(s)  BY <1>2 DEF s
<1>15. ASSUME j = i - 1  PROVE PutAt(u, lo, w, lo[s[j]])
  <2>1. j <= Len(e) /\ j \in 1..Len(s) - 1 /\ j < i  BY <1>15, <1>14, <1>2, <1>11
  <2>2. e[j] = s[j]  BY <2>1, <1>11
  <2> QED  BY <2>1, <2>2, <1>13, <1>15
<1>16. ASSUME j = i + 1  PROVE PutAt(u, lo, w, hi[s[j]])
  <2>1. j > 1 /\ j - 1 = i /\ i \in 1..Len(s) - 1  BY <1>16, <1>14, <1>2
  <2>2. e[j - 1] = s[j]  BY <2>1, <1>11, <1>16, <1>14
  <2> QED  BY <2>1, <2>2, <1>13, <1>16
<1> QED  BY <1>15, <1>16 DEF s, u

\* A list in which a member takes the place of another, between the same neighbours.
LEMMA AssignFits ==
    ASSUME NEW S, NEW s \in Seq(S), NEW x \in S, NEW i \in 1..Len(s), NEW lo, NEW hi,
           Ranged(s, lo, hi),
           \A k \in 1..Len(s) : /\ k < i => hi[s[k]] <= lo[x]
                                /\ k > i => hi[x] <= lo[s[k]]
    PROVE  Ranged([s EXCEPT ![i] = x], lo, hi)
<1> DEFINE c == [s EXCEPT ![i] = x]
<1>1. Len(c) = Len(s) /\ \A j \in 1..Len(s) : c[j] = IF j = i THEN x ELSE s[j]  BY ExceptSeq
<1>2. Len(s) \in Nat  BY LenProperties
<1> SUFFICES ASSUME NEW a \in 1..Len(s), NEW b \in 1..Len(s), a < b
             PROVE  hi[c[a]] <= lo[c[b]]
  BY <1>1 DEF Ranged
<1> HIDE DEF c
<1>3. CASE a # i /\ b # i  BY <1>1, <1>3 DEF Ranged
<1>4. CASE a = i
  <2>1. b # i /\ b > i  BY <1>2, <1>4
  <2> QED  BY <2>1, <1>1, <1>4
<1>5. CASE b = i
  <2>1. a # i /\ a < i  BY <1>2, <1>5
  <2> QED  BY <2>1, <1>1, <1>5
<1> QED  BY <1>3, <1>4, <1>5

\* A node takes the place of another, between the neighbours of that one.
LEMMA ReplaceFits ==
    ASSUME NEW t, Linked(t), NEW p \in Layouts, NEW m \in Items, t.parent[m] = p, NEW n \in Items,
           NEW lo, NEW hi, Nested(t, lo, hi), lo[p] < lo[n], hi[n] < hi[p],
           \A k \in 1..Len(t.kids[p]) : /\ k < IndexOf(t, m) => hi[t.kids[p][k]] <= lo[n]
                                        /\ k > IndexOf(t, m) => hi[n] <= lo[t.kids[p][k]]
    PROVE  Nested(Replace(t, p, m, n), lo, hi)
<1> DEFINE i == IndexOf(t, m)
           s == [t.kids[p] EXCEPT ![i] = n]
<1>1. /\ t \in Tree /\ p \in Parents /\ t.kids[p] \in Seq(Items) /\ NoDuplicates(t.kids[p])
      /\ m \in Elements(t.kids[p])
  BY KidsAreLists DEF Linked, Parents
<1>2. i \in 1..Len(t.kids[p]) /\ t.kids[p][i] = m  BY <1>1, PositionFound DEF IndexOf
<1>3. Replace(t, p, m, n).kids = [t.kids EXCEPT ![p] = s]  BY <1>1, ReplaceKids
<1> HIDE DEF i
<1>4. Elements(s) = (Elements(t.kids[p]) \ {m}) \cup {n}  BY <1>1, <1>2, AssignElements
<1>5. Ranged(s, lo, hi)
  <2>1. Ranged(t.kids[p], lo, hi)  BY DEF Nested
  <2>2. \A k \in 1..Len(t.kids[p]) : /\ k < i => hi[t.kids[p][k]] <= lo[n]
                                     /\ k > i => hi[n] <= lo[t.kids[p][k]]
    BY DEF i
  <2> QED  BY <1>1, <1>2, <2>1, <2>2, AssignFits
<1> HIDE DEF s
<1>6. p \in Layouts => /\ \A x \in Elements(s) : lo[p] < lo[x] /\ hi[x] < hi[p]
                       /\ Ranged(s, lo, hi)
  BY <1>4, <1>5 DEF Nested
<1> QED  BY <1>1, <1>3, <1>6, NestedList

\* insert_child keeps every link of its kind.
LEMMA InsertIsTree ==
    ASSUME NEW t \in Tree, NEW p \in Parents, NEW n \in Items, NEW i \in 1..Len(t.kids[p]) + 1
    PROVE  InsertChild(t, p, i, n) \in Tree
<1> DEFINE v == [t EXCEPT !.parent[n] = p, !.kids[p] = InsertAt(@, i, n)]
<1>1. t.kids[p] \in Seq(Items)  BY KidsAreLists
<1>2. InsertAt(t.kids[p], i, n) \in Seq(Items)  BY <1>1, InsertIsSeq
<1>3. v \in Tree  BY <1>2 DEF Tree
<1>4. InsertChild(t, p, i, n) = Touch(v, p)  BY DEF InsertChild
<1> HIDE DEF v
<1> QED  BY <1>3, <1>4, TouchSame DEF Same

\* A layout without children gets two, within its interval.
LEMMA PairNested ==
    ASSUME NEW t \in Tree, NEW l \in Layouts, t.kids[l] = <<>>, NEW a \in Items, NEW b \in Items,
           NEW lo, NEW hi, Nested(t, lo, hi), lo[l] < lo[a], hi[a] <= lo[b], hi[b] < hi[l]
    PROVE  LET u == AddChild(AddChild(t, l, a), l, b)
           IN  u \in Tree /\ Nested(u, lo, hi)
<1> DEFINE v == AddChild(t, l, a)
           u == AddChild(v, l, b)
<1>1. l \in Parents /\ l \in Items /\ <<>> \in Seq(Items) /\ Len(<<>>) = 0
  BY EmptySeq DEF Parents, Items
<1>2. v = InsertChild(t, l, 1, a)  BY <1>1 DEF AddChild
<1>3. 1 \in 1..Len(t.kids[l]) + 1  BY <1>1
<1>4. /\ lo[l] \in Int /\ lo[a] \in Int /\ hi[a] \in Int /\ lo[b] \in Int /\ hi[b] \in Int
      /\ hi[l] \in Int /\ lo[a] < hi[a] /\ lo[b] < hi[b]
  BY <1>1 DEF Nested
<1>5. lo[l] < lo[b] /\ hi[a] < hi[l]  BY <1>4
<1>6. v \in Tree /\ Nested(v, lo, hi)
  <2>1. v \in Tree  BY <1>1, <1>2, <1>3, InsertIsTree
  <2>2. Fits(t, l, 1, a, lo, hi)  BY <1>1, <1>5 DEF Fits
  <2>3. Nested(InsertChild(t, l, 1, a), lo, hi)  BY <2>2, <1>1, <1>3, InsertNested
  <2> QED  BY <2>1, <2>3, <1>2
<1>7. Len(v.kids[l]) = 1 /\ v.kids[l][1] = a
  <2>1. v.kids = [t.kids EXCEPT ![l] = InsertAt(t.kids[l], 1, a)]
    BY <1>1, <1>2, InsertChildKids
  <2> DEFINE e == t.kids[l]
  <2>2. v.kids[l] = InsertAt(e, 1, a)  BY <2>1, <1>1 DEF Tree
  <2>3. e \in Seq(Items)  BY <1>1
  <2> DEFINE i == 1
  <2>4. Len(e) = 0 /\ i \in 1..Len(e) + 1  BY <1>1
  <2>5. i \in 1..Len(e) + 1  BY <2>4
  <2> HIDE DEF e, i
  <2>6. /\ Len(InsertAt(e, i, a)) = Len(e) + 1
        /\ \A j \in 1..Len(e) + 1 :
              InsertAt(e, i, a)[j] = IF j < i THEN e[j] ELSE IF j = i THEN a ELSE e[j - 1]
    BY <2>3, <2>5, InsertIsSeq
  <2>7. InsertAt(e, i, a)[i] = a  BY <2>5, <2>6 DEF i
  <2> QED  BY <2>2, <2>4, <2>6, <2>7 DEF i
<1> HIDE DEF v
<1>8. u = InsertChild(v, l, 2, b)  BY <1>7 DEF AddChild
<1>9. 2 \in 1..Len(v.kids[l]) + 1  BY <1>7
<1>10. Fits(v, l, 2, b, lo, hi)  BY <1>5, <1>7 DEF Fits
<1>11. Nested(InsertChild(v, l, 2, b), lo, hi)  BY <1>1, <1>6, <1>9, <1>10, InsertNested
<1>12. InsertChild(v, l, 2, b) \in Tree  BY <1>1, <1>6, <1>9, InsertIsTree
<1> QED  BY <1>8, <1>11, <1>12 DEF v

\* [a, b] and [c, d] are intervals for w and l, which are both in X.
Two(w, l, X, a, b, c, d) ==
    /\ w \in Items /\ l \in Items /\ w # l /\ w \in X /\ l \in X
    /\ a \in Int /\ b \in Int /\ c \in Int /\ d \in Int /\ a < b /\ c < d

\* Two nodes get intervals of their own, the others have room between them.
LEMMA TwoSpread ==
    ASSUME NEW t, NEW lo, NEW hi, Nested(t, lo, hi),
           NEW w, NEW l, NEW X, NEW a, NEW b, NEW c, NEW d, Two(w, l, X, a, b, c, d)
    PROVE  \E lo2, hi2 : /\ Spread(lo, hi, lo2, hi2, X)
                         /\ lo2[w] = a /\ hi2[w] = b /\ lo2[l] = c /\ hi2[l] = d
<1> DEFINE lo2 == [n \in Items |-> IF n = w THEN a ELSE IF n = l THEN c ELSE 8 * lo[n] + 3]
           hi2 == [n \in Items |-> IF n = w THEN b ELSE IF n = l THEN d ELSE 8 * hi[n] - 3]
<1>6. /\ w \in Items /\ l \in Items /\ w # l /\ w \in X /\ l \in X
      /\ a \in Int /\ b \in Int /\ c \in Int /\ d \in Int /\ a < b /\ c < d
  BY DEF Two
<1>5. /\ lo \in [Items -> Int] /\ hi \in [Items -> Int]
      /\ \A n \in Items : lo[n] < hi[n]
  BY DEF Nested
<1>1. lo2 \in [Items -> Int] /\ hi2 \in [Items -> Int]  BY <1>5, <1>6
<1>2. /\ lo2[w] = a /\ hi2[w] = b /\ lo2[l] = c /\ hi2[l] = d
      /\ \A n \in Items \ {w, l} : lo2[n] = 8 * lo[n] + 3 /\ hi2[n] = 8 * hi[n] - 3
  BY <1>6
<1> HIDE DEF lo2, hi2
<1>3. ASSUME NEW n \in Items  PROVE lo2[n] < hi2[n]
  <2>1. CASE n = w \/ n = l  BY <2>1, <1>2, <1>6
  <2>2. CASE n \in Items \ {w, l}
    <3>1. /\ lo[n] \in Int /\ hi[n] \in Int /\ lo[n] < hi[n]
          /\ lo2[n] = 8 * lo[n] + 3 /\ hi2[n] = 8 * hi[n] - 3
      BY <2>2, <1>2, <1>5
    <3> QED  BY <3>1
  <2> QED  BY <2>1, <2>2
<1>4. Spread(lo, hi, lo2, hi2, X)  BY <1>1, <1>2, <1>3, <1>6 DEF Spread
<1> QED  BY <1>2, <1>4

\* _move_to_marked_window puts the window right after the marked one.
LEMMA MarkedPut ==
    ASSUME NEW t, TreeInv(t), NEW w \in Windows, NEW marked \in Windows, marked # w,
           t.parent[marked] # Nil, t.mark[marked] \in Types, NEW lo, NEW hi, Nested(t, lo, hi)
    PROVE  PutAt(MoveToMarkedWindow(t, w, marked), lo, w, hi[marked])
<1> DEFINE ty == t.mark[marked]
           t1 == IF t.parent[w] # Nil THEN PurgeAndReconfigure(t, w) ELSE t
           p  == t1.parent[marked]
           l  == Fresh(t1)
           v1 == New(t1, l, ty)
           v2 == Replace(v1, p, marked, l)
           v4 == AddChild(AddChild(v2, l, marked), l, w)
           x1 == AddChild(t1, p, w)
           u  == MoveToMarkedWindow(t, w, marked)
           L  == lo[marked]
           H  == hi[marked]
<1>1. u = IF Len(t1.kids[p]) > 1 THEN UpdateRect(v4, p) ELSE SetType(x1, p, ty)
  BY DEF MoveToMarkedWindow
<1>2. TreeInv(t1) /\ t1.parent[w] = Nil /\ p # Nil  BY PurgeKeeps
<1>3. Nested(t1, lo, hi)
  <2>1. CASE t.parent[w] = Nil  BY <2>1
  <2>2. CASE t.parent[w] # Nil
    <3>1. Nested(PurgeAndReconfigure(t, w), lo, hi)  BY <2>2, PurgeNested
    <3> QED  BY <3>1, <2>2
  <2> QED  BY <2>1, <2>2
<1>4. l \in Layouts /\ l \notin t1.live  BY <1>2, FreshExists
<1>5. ty \in Types  OBVIOUS
<1> HIDE DEF ty, t1, l, p, v1, v2, v4, x1, u
<1>6. t1 \in Tree /\ Linked(t1) /\ Shaped(t1, t1.live) /\ Acyclic(t1)
  BY <1>2 DEF TreeInv, Linked
<1>7. p \in t1.live /\ marked \in Items /\ marked \in Elements(t1.kids[p]) /\ w \in Items
  <2>1. marked \in Items /\ w \in Items  BY DEF Items
  <2> QED  BY <2>1, <1>2, <1>6, ParentKinds DEF p
<1>8. /\ p \in Layouts /\ p \in Parents /\ p \in Items /\ p # l /\ p # w
      /\ l \in Parents /\ l \in Items /\ l # w /\ l # marked
  BY <1>4, <1>6, <1>7, KindsAssumption DEF Tree, Parents, Items
<1>9. L \in Int /\ H \in Int /\ L < H  BY <1>7 DEF Nested
<1>10. CASE Len(t1.kids[p]) > 1
  <2>1. /\ Linked(v1) /\ v1.parent = t1.parent /\ v1.kids = t1.kids
        /\ v1.live = t1.live \cup {l}
        /\ t1.parent[l] = Nil /\ t1.kids[l] = <<>>
    BY <1>4, <1>5, <1>6, NewLinks DEF v1
  <2>2. Nested(v1, lo, hi)  BY <2>1, <1>3, NestedSame
  <2> DEFINE X == {w, l}
  <2>3. PICK lo2, hi2 : /\ Spread(lo, hi, lo2, hi2, X)
                        /\ lo2[w] = 8 * H - 3 /\ hi2[w] = 8 * H - 2
                        /\ lo2[l] = 8 * L + 1 /\ hi2[l] = 8 * H - 1
    <3> HIDE DEF L, H
    <3> DEFINE a == 8 * H - 3
               b == 8 * H - 2
               c == 8 * L + 1
               d == 8 * H - 1
    <3>1. a \in Int /\ b \in Int /\ c \in Int /\ d \in Int /\ a < b /\ c < d  BY <1>9
    <3>4. Two(w, l, X, a, b, c, d)
      <4>1. w \in Items /\ l \in Items /\ w # l /\ w \in X /\ l \in X  BY <1>7, <1>8
      <4> HIDE DEF a, b, c, d, X
      <4> QED  BY <4>1, <3>1 DEF Two
    <3> HIDE DEF a, b, c, d, X
    <3>3. \E lo2, hi2 : /\ Spread(lo, hi, lo2, hi2, X)
                        /\ lo2[w] = a /\ hi2[w] = b /\ lo2[l] = c /\ hi2[l] = d
      BY <3>4, <1>3, TwoSpread
    <3> QED  BY <3>3 DEF a, b, c, d
  <2>4. \A n \in Items : n # w /\ n # l => lo2[n] = 8 * lo[n] + 3 /\ hi2[n] = 8 * hi[n] - 3
    BY <2>3 DEF Spread
  <2>5. Nested(v1, lo2, hi2)
    <3>1. /\ X \in SUBSET Items
          /\ \A n \in X : v1.parent[n] = Nil /\ (n \in Layouts => v1.kids[n] = <<>>)
      BY <2>1, <1>2, <1>7, <1>8, KindsAssumption
    <3> HIDE DEF X
    <3> QED  BY <3>1, <2>3, <2>1, <2>2, RoomMade
  <2>6. lo2[marked] = 8 * L + 3 /\ hi2[marked] = 8 * H - 3  BY <2>4, <1>7, <1>8
  <2>7. lo2[p] < lo2[l] /\ hi2[l] < hi2[p]
    <3>1. lo[p] < L /\ H < hi[p]  BY <1>3, <1>7, <1>8 DEF Nested
    <3> DEFINE P == lo[p]
               Q == hi[p]
    <3>2. P \in Int /\ Q \in Int /\ P < L /\ H < Q  BY <3>1, <1>8 DEF Nested
    <3>3. lo2[p] = 8 * P + 3 /\ hi2[p] = 8 * Q - 3  BY <2>4, <1>8
    <3> HIDE DEF P, Q, L, H
    <3> QED  BY <3>2, <3>3, <2>3, <1>9
  <2>8. Nested(v2, lo2, hi2)
    <3> DEFINE i == IndexOf(v1, marked)
    <3>1. v1.parent[marked] = p  BY <2>1 DEF p
    <3>2. i \in 1..Len(v1.kids[p]) /\ v1.kids[p][i] = marked
      <4>1. v1.kids[p] \in Seq(Items) /\ marked \in Elements(v1.kids[p])
        BY <2>1, <1>6, <1>7, <1>8, KidsAreLists
      <4> QED  BY <4>1, <3>1, PositionFound DEF IndexOf
    <3> HIDE DEF i
    <3>3. ASSUME NEW k \in 1..Len(v1.kids[p])
          PROVE  /\ k < i => hi2[v1.kids[p][k]] <= lo2[l]
                 /\ k > i => hi2[l] <= lo2[v1.kids[p][k]]
      <4> DEFINE x == v1.kids[p][k]
      <4>1. x \in Items /\ v1.parent[x] = p
        <5>1. x \in Items /\ x \in Elements(v1.kids[p])  BY <2>1, <1>6, <1>8, KidsAreLists
        <5> QED  BY <5>1, <2>1, <1>8 DEF Linked
      <4>2. x # w /\ x # l  BY <4>1, <2>1, <1>2, <1>8, KindsAssumption DEF Parents
      <4>3. /\ k < i => hi[x] <= L
            /\ k > i => H <= lo[x]
        BY <3>2, <2>2, <1>8 DEF Nested, Ranged
      <4>4. lo[x] \in Int /\ hi[x] \in Int  BY <4>1 DEF Nested
      <4>5. lo2[x] = 8 * lo[x] + 3 /\ hi2[x] = 8 * hi[x] - 3  BY <4>1, <4>2, <2>4
      <4> HIDE DEF x, L, H
      <4>6. k < i => hi2[x] <= lo2[l]  BY <4>3, <4>4, <4>5, <2>3, <1>9
      <4>7. k > i => hi2[l] <= lo2[x]  BY <4>3, <4>4, <4>5, <2>3, <1>9
      <4> QED  BY <4>6, <4>7 DEF x
    <3>4. \A k \in 1..Len(v1.kids[p]) :
             /\ k < IndexOf(v1, marked) => hi2[v1.kids[p][k]] <= lo2[l]
             /\ k > IndexOf(v1, marked) => hi2[l] <= lo2[v1.kids[p][k]]
      BY <3>3 DEF i
    <3> QED  BY <3>1, <3>4, <2>1, <2>5, <2>7, <1>7, <1>8, ReplaceFits DEF v2
  <2>9. v2 \in Tree /\ v2.kids[l] = <<>>
    <3>1. v1.parent[marked] = p  BY <2>1 DEF p
    <3>2. l \in Windows \cup v1.live /\ v1.parent[l] = Nil  BY <2>1
    <3>3. Replaced(v1, v2, p, marked, l)  BY <3>1, <3>2, <2>1, <1>7, <1>8, ReplaceLinks DEF v2
    <3> QED  BY <3>3, <2>1, <1>8 DEF Replaced, Linked
  <2>10. v4 \in Tree /\ Nested(v4, lo2, hi2)
    <3>1. lo2[l] < lo2[marked] /\ hi2[marked] <= lo2[w] /\ hi2[w] < hi2[l]
      <4> HIDE DEF L, H
      <4> QED  BY <2>3, <2>6, <1>9
    <3> QED  BY <3>1, <2>8, <2>9, <1>4, <1>7, PairNested DEF v4
  <2>11. Nested(u, lo2, hi2)  BY <2>10, <1>1, <1>10, UpdateNested
  <2>12. Put(lo, lo2, w, H)
    <3>1. \A v \in Windows \ {w} : lo2[v] = 8 * lo[v] + 3  BY <2>4, <1>4, KindsAssumption DEF Items
    <3>2. lo \in [Items -> Int]  BY DEF Nested
    <3> DEFINE a == lo2[w]
    <3>3. a \in Int /\ 8 * H - 4 <= a /\ a <= 8 * H + 3
      <4> HIDE DEF H
      <4> QED  BY <2>3, <1>9
    <3> QED  BY <3>1, <3>2, <3>3, <1>9, RoomIsPut
  <2> QED  BY <2>11, <2>12 DEF PutAt, u
<1>11. CASE ~(Len(t1.kids[p]) > 1)
  <2>1. t1.kids[p] # <<>> /\ Len(t1.kids[p]) = 1
    <3>1. Len(t1.kids[p]) \in Nat /\ Len(t1.kids[p]) # 0  BY <1>6, <1>7, <1>8, KidsAreLists
    <3>2. \A k \in Nat : k # 0 /\ ~(k > 1) => k = 1  OBVIOUS
    <3>3. Len(t1.kids[p]) = 1  BY <3>1, <3>2, <1>11
    <3> QED  BY <3>1, <3>3, <1>6, <1>8, KidsAreLists
  <2>2. t1.kids[p][1] = marked  BY <2>1, <1>6, <1>7, <1>8, OnlyKid
  <2> DEFINE i == 2
  <2>3. x1 = InsertChild(t1, p, i, w) /\ i \in 1..Len(t1.kids[p]) + 1 /\ i > 1 /\ i - 1 = 1
    BY <2>1 DEF x1, AddChild
  <2> HIDE DEF i
  <2>4. i > 1 => PutAt(x1, lo, w, hi[t1.kids[p][i - 1]])
    BY <2>1, <2>3, <1>2, <1>3, <1>6, <1>8, InsertPut
  <2>5. PutAt(x1, lo, w, H)  BY <2>2, <2>3, <2>4
  <2>6. Inserted(t1, x1, p, w)
    BY <2>1, <2>3, <1>2, <1>6, <1>7, InsertChildLinks
  <2>7. SetType(x1, p, ty).kids = x1.kids  BY <2>6, <1>5, <1>8, SetTypeLinks DEF Inserted
  <2>8. \A lo2, hi2 : Nested(x1, lo2, hi2) => Nested(u, lo2, hi2)
    BY <2>7, <1>1, <1>11, NestedSame
  <2>9. \A q : PutAt(x1, lo, w, q) => PutAt(u, lo, w, q)  BY <2>8, PutStays
  <2> QED  BY <2>5, <2>9 DEF u
<1> QED  BY <1>10, <1>11

\* move_to_workspace, once the window has left the last workspace.
LEMMA PlacePut ==
    ASSUME NEW t, TreeInv(t), NEW w \in Windows, t.parent[w] = Nil, NEW ws \in Workspaces,
           NEW current,
           t.kids[ws] # <<>> => current \in Windows \ {w} /\ t.parent[current] # Nil,
           NEW lo, NEW hi, Nested(t, lo, hi)
    PROVE  \E q : PutAt(PlaceWindow(t, w, ws, current), lo, w, q)
<1> DEFINE u == PlaceWindow(t, w, ws, current)
<1>1. t \in Tree /\ Linked(t) /\ Shaped(t, t.live) /\ Acyclic(t) /\ w \in Items /\ ws \in Parents
  BY DEF TreeInv, Linked, Items, Parents
<1>2. CASE t.kids[ws] = <<>>
  <2> DEFINE l  == Fresh(t)
             v1 == New(t, l, "Horizontal")
             v2 == AddChild(v1, l, w)
             v3 == AddChild(v2, ws, l)
             X  == {w, l}
  <2>1. u = UpdateRect(v3, ws)  BY <1>2 DEF PlaceWindow
  <2>2. l \in Layouts /\ l \notin t.live  BY FreshExists
  <2> HIDE DEF l, v1, v2, v3, u
  <2>3. l \in Parents /\ l \in Items /\ l # w /\ ws \notin Layouts
    BY <2>2, KindsAssumption DEF Items, Parents
  <2>4. /\ Linked(v1) /\ v1.parent = t.parent /\ v1.kids = t.kids
        /\ v1.live = t.live \cup {l} /\ t.parent[l] = Nil /\ t.kids[l] = <<>>
    BY <1>1, <2>2, NewLinks DEF v1, Types
  <2>5. Nested(v1, lo, hi)  BY <2>4, NestedSame
  <2>6. PICK lo2, hi2 : /\ Spread(lo, hi, lo2, hi2, X)
                        /\ lo2[w] = 1 /\ hi2[w] = 2 /\ lo2[l] = 0 /\ hi2[l] = 3
    <3> DEFINE a == 1
               b == 2
               c == 0
               d == 3
    <3>1. Two(w, l, X, a, b, c, d)  BY <1>1, <2>3 DEF Two
    <3> HIDE DEF a, b, c, d, X
    <3>2. \E lo2, hi2 : /\ Spread(lo, hi, lo2, hi2, X)
                        /\ lo2[w] = a /\ hi2[w] = b /\ lo2[l] = c /\ hi2[l] = d
      BY <2>5, <3>1, TwoSpread
    <3> QED  BY <3>2 DEF a, b, c, d
  <2>7. Nested(v1, lo2, hi2)
    <3>1. /\ X \in SUBSET Items
          /\ \A n \in X : v1.parent[n] = Nil /\ (n \in Layouts => v1.kids[n] = <<>>)
      BY <1>1, <2>3, <2>4, KindsAssumption
    <3> HIDE DEF X
    <3> QED  BY <3>1, <2>4, <2>5, <2>6, RoomMade
  <2>8. v1 \in Tree /\ v1.kids[l] = <<>> /\ Len(v1.kids[l]) = 0
    <3>1. v1 \in Tree /\ v1.kids[l] = <<>>  BY <2>4 DEF Linked
    <3> QED  BY <3>1, EmptySeq
  <2>9. v2 \in Tree /\ Nested(v2, lo2, hi2)
    <3> DEFINE i == Len(v1.kids[l]) + 1
    <3>1. v2 = InsertChild(v1, l, i, w)  BY DEF v2, AddChild
    <3>2. i \in 1..Len(v1.kids[l]) + 1  BY <2>8
    <3>3. Fits(v1, l, i, w, lo2, hi2)  BY <2>6, <2>8 DEF Fits
    <3> HIDE DEF i
    <3> QED  BY <3>1, <3>2, <3>3, <1>1, <2>3, <2>7, <2>8, InsertNested, InsertIsTree
  <2>10. v3 \in Tree /\ Nested(v3, lo2, hi2)
    <3> DEFINE i == Len(v2.kids[ws]) + 1
    <3>1. v3 = InsertChild(v2, ws, i, l)  BY DEF v3, AddChild
    <3>2. i \in 1..Len(v2.kids[ws]) + 1
      <4>1. Len(v2.kids[ws]) \in Nat  BY <1>1, <2>9, KidsAreLists
      <4> QED  BY <4>1
    <3>3. ws \in Layouts => Fits(v2, ws, i, l, lo2, hi2)  BY <2>3
    <3> HIDE DEF i
    <3> QED  BY <3>1, <3>2, <3>3, <1>1, <2>3, <2>9, InsertNested, InsertIsTree
  <2>11. Nested(u, lo2, hi2)  BY <2>1, <2>10, UpdateNested
  <2>12. Put(lo, lo2, w, 0)
    <3>1. \A v \in Windows \ {w} : lo2[v] = 8 * lo[v] + 3
      BY <2>2, <2>6, KindsAssumption DEF Spread, Items
    <3>2. lo \in [Items -> Int]  BY DEF Nested
    <3> DEFINE q == 0
    <3>3. q \in Int /\ lo2[w] \in Int /\ 8 * q - 4 <= lo2[w] /\ lo2[w] <= 8 * q + 3  BY <2>6
    <3>4. Put(lo, lo2, w, q)
      <4> HIDE DEF q
      <4> QED  BY <3>1, <3>2, <3>3, RoomIsPut
    <3> QED  BY <3>4
  <2> QED  BY <2>11, <2>12 DEF PutAt, u
<1>3. CASE t.kids[ws] # <<>> /\ IsMarked(t, current)
  <2>1. u = MoveToMarkedWindow(t, w, current)  BY <1>3 DEF PlaceWindow
  <2>2. current \in Windows /\ current # w /\ t.parent[current] # Nil  BY <1>3
  <2>3. t.mark[current] \in Types  BY <1>1, <1>3, <2>2 DEF IsMarked, Tree, Marks
  <2> QED  BY <2>1, <2>2, <2>3, MarkedPut
<1>4. CASE t.kids[ws] # <<>> /\ ~IsMarked(t, current)
  <2> DEFINE p == t.parent[current]
             m == IndexOf(t, current)
             i == m + 1
             v == InsertChild(t, p, i, w)
  <2>1. u = UpdateRect(v, p)  BY <1>4 DEF PlaceWindow
  <2>2. current \in Windows /\ current \in Items /\ p # Nil  BY <1>4 DEF Items
  <2>3. p \in t.live /\ current \in Elements(t.kids[p])  BY <1>1, <2>2, ParentKinds
  <2>4. p \in Parents /\ p \in Layouts  BY <1>1, <2>3 DEF Tree, Parents
  <2>5. i \in 1..Len(t.kids[p]) + 1 /\ i > 1
    <3>1. t.kids[p] \in Seq(Items) /\ Len(t.kids[p]) \in Nat  BY <1>1, <2>4, KidsAreLists
    <3>2. m \in 1..Len(t.kids[p])  BY <2>3, <3>1, PositionFound DEF IndexOf
    <3> HIDE DEF m
    <3> QED  BY <3>1, <3>2
  <2>6. t.kids[p] # <<>>  BY <1>1, <2>3 DEF Shaped, Full
  <2> HIDE DEF p, i, v, u
  <2>7. i > 1 => PutAt(v, lo, w, hi[t.kids[p][i - 1]])
    BY <1>1, <2>4, <2>5, <2>6, InsertPut DEF v
  <2>8. v \in Tree  BY <1>1, <2>4, <2>5, InsertIsTree DEF v
  <2>9. \A lo2, hi2 : Nested(v, lo2, hi2) => Nested(u, lo2, hi2)  BY <2>1, <2>8, UpdateNested
  <2>10. \A q : PutAt(v, lo, w, q) => PutAt(u, lo, w, q)  BY <2>9, PutStays
  <2> QED  BY <2>5, <2>7, <2>10 DEF u
<1> QED  BY <1>2, <1>3, <1>4

\* move_to_workspace
LEMMA MoveToWorkspacePut ==
    ASSUME NEW t, TreeInv(t), NEW w \in Windows, NEW ws \in Workspaces, ws \notin RootsOf(t, w),
           NEW current,
           t.kids[ws] # <<>> => current \in Windows \ {w} /\ t.parent[current] # Nil,
           NEW lo, NEW hi, Nested(t, lo, hi)
    PROVE  \E q : PutAt(MoveToWorkspaceTree(t, w, ws, current), lo, w, q)
<1> DEFINE t1 == IF t.parent[w] # Nil THEN PurgeAndReconfigure(t, w) ELSE t
<1>1. MoveToWorkspaceTree(t, w, ws, current) = PlaceWindow(t1, w, ws, current)
  BY DEF MoveToWorkspaceTree
<1>2. /\ TreeInv(t1) /\ t1.parent[w] = Nil /\ Nested(t1, lo, hi)
      /\ t1.kids[ws] # <<>> => current \in Windows \ {w} /\ t1.parent[current] # Nil
  <2>1. CASE t.parent[w] = Nil  BY <2>1
  <2>2. CASE t.parent[w] # Nil
    <3>1. TreeInv(t1)  BY <2>2, PurgeKeeps
    <3>2. t1.parent[w] = Nil  BY <2>2, PurgeKeeps
    <3>3. t.kids[ws] = <<>> => t1.kids[ws] = <<>>  BY <2>2, PurgeKeeps
    <3>4. \A v \in Windows : (t1.parent[v] = Nil) <=> (v = w \/ t.parent[v] = Nil)
      BY <2>2, PurgeKeeps
    <3>5. Nested(PurgeAndReconfigure(t, w), lo, hi)  BY <2>2, PurgeNested
    <3>6. Nested(t1, lo, hi)  BY <3>5, <2>2
    <3> HIDE DEF t1
    <3> QED  BY <3>1, <3>2, <3>3, <3>4, <3>6
  <2> QED  BY <2>1, <2>2
<1> HIDE DEF t1
<1> QED  BY <1>1, <1>2, PlacePut

-----------------------------------------------------------------------------
(* Mod4+Shift+arrow puts the window where the arrow points.                 *)

\* q is not on the wrong side of the window.
Aims(lo, w, dir, q) == IF dir \in Backward THEN q <= lo[w] ELSE lo[w] <= q

\* What is below a layout is within its interval.
LEMMA BelowWithin ==
    ASSUME NEW t \in Tree, NEW lo, NEW hi, Nested(t, lo, hi), NEW p \in Layouts
    PROVE  \A n \in Below(t, p) : n \in Items /\ lo[p] < lo[n] /\ hi[n] < hi[p]
<1> DEFINE S == {n \in Items : lo[p] < lo[n] /\ hi[n] < hi[p]}
<1>1. p \in Parents /\ p \in Items  BY DEF Parents, Items
<1>2. \A n \in Items : lo[n] \in Int /\ hi[n] \in Int  BY DEF Nested
<1>3. \A l \in Layouts : \A n \in Elements(t.kids[l]) :
         n \in Items /\ lo[l] < lo[n] /\ hi[n] < hi[l]
  <2> SUFFICES ASSUME NEW l \in Layouts, NEW n \in Elements(t.kids[l])
               PROVE  n \in Items /\ lo[l] < lo[n] /\ hi[n] < hi[l]
    OBVIOUS
  <2>1. l \in Parents  BY DEF Parents
  <2>2. n \in Items  BY <2>1, KidsAreLists DEF Elements
  <2> QED  BY <2>2 DEF Nested
<1>4. Elements(t.kids[p]) \subseteq S  BY <1>3
<1>5. ASSUME NEW l \in S \cap Parents, NEW n \in Elements(t.kids[l])  PROVE n \in S
  <2>1. l \in Layouts /\ l \in Items /\ lo[p] < lo[l] /\ hi[l] < hi[p]
    BY KindsAssumption DEF Items, Parents
  <2>2. n \in Items /\ lo[l] < lo[n] /\ hi[n] < hi[l]  BY <2>1, <1>3
  <2>3. /\ lo[p] \in Int /\ lo[l] \in Int /\ lo[n] \in Int
        /\ hi[p] \in Int /\ hi[l] \in Int /\ hi[n] \in Int
    BY <1>1, <1>2, <2>1, <2>2
  <2> QED  BY <2>1, <2>2, <2>3
<1>6. Below(t, p) \subseteq S
  <2> HIDE DEF S
  <2> QED  BY <1>1, <1>4, <1>5, BelowLeast
<1> QED  BY <1>6

\* _find_direction_compatible_node finds the window or a layout above it.
LEMMA FoundOver ==
    ASSUME NEW t, TreeInv(t), NEW w \in Windows, NEW dir,
           FindDirectionCompatibleNode(t, w, dir) # Nil
    PROVE  LET node == FindDirectionCompatibleNode(t, w, dir)
           IN  node = w \/ (node \in Layouts /\ w \in Below(t, node))
<1> DEFINE c     == Climb(t, w)
           steps == CompatibleSteps(t, w, dir)
           node  == FindDirectionCompatibleNode(t, w, dir)
           k     == Min(steps)
<1>1. t \in Tree /\ Linked(t) /\ w \in Items
  BY DEF TreeInv, Linked, Items
<1>2. Height \in Nat /\ Height >= 1  BY HeightIsNat
<1>3. c[0] = w /\ \A j \in 1..Height : c[j] = IF c[j-1] \in Items THEN t.parent[c[j-1]] ELSE Nil
  BY <1>1, ClimbSteps
<1>4. steps # {} /\ node = c[k-1]  BY DEF FindDirectionCompatibleNode
<1>5. k \in 1..Height /\ c[k] \in Layouts
  <2>1. steps \subseteq Nat /\ steps \subseteq {j \in 1..Height : c[j] \in Layouts}
    BY <1>2 DEF CompatibleSteps
  <2>2. \E m \in steps : \A j \in steps : m <= j  BY <2>1, <1>4, LeastOfSet
  <2>3. k \in steps  BY <2>2 DEF Min
  <2> QED  BY <2>1, <2>3
<1>6. PICK r : Ranks(t, r)  BY DEF TreeInv, Acyclic
<1> HIDE DEF c, steps, node, k
<1>7. CASE k = 1  BY <1>3, <1>4, <1>7 DEF node
<1>8. CASE k # 1
  <2>1. k - 1 \in 1..Height /\ k - 1 < k  BY <1>2, <1>5, <1>8
  <2>2. node \in Layouts  BY <2>1, <1>1, <1>4, <1>5, <1>6, ClimbRanks DEF c
  <2>3. node \in Parents  BY <2>2 DEF Parents
  <2>4. w \in Levels(t, node)[k-1]  BY <2>1, <2>3, <1>1, <1>4, ClimbIsLevel DEF c
  <2> QED  BY <2>1, <2>2, <2>4 DEF Below, node
<1> QED  BY <1>7, <1>8

\* So that it has the window within its interval.
LEMMA FoundHolds ==
    ASSUME NEW t, TreeInv(t), NEW w \in Windows, NEW dir,
           FindDirectionCompatibleNode(t, w, dir) # Nil, NEW lo, NEW hi, Nested(t, lo, hi)
    PROVE  LET node == FindDirectionCompatibleNode(t, w, dir)
           IN  lo[node] <= lo[w] /\ hi[w] <= hi[node]
<1> DEFINE node == FindDirectionCompatibleNode(t, w, dir)
<1>1. t \in Tree /\ w \in Items  BY DEF TreeInv, Linked, Items
<1>2. node = w \/ (node \in Layouts /\ w \in Below(t, node))  BY FoundOver
<1> HIDE DEF node
<1>3. \A n \in Items : lo[n] \in Int /\ hi[n] \in Int  BY DEF Nested
<1>4. CASE node = w  BY <1>1, <1>3, <1>4 DEF node
<1>5. CASE node \in Layouts /\ w \in Below(t, node)
  <2>1. lo[node] < lo[w] /\ hi[w] < hi[node]  BY <1>1, <1>5, BelowWithin
  <2>2. node \in Items  BY <1>5 DEF Items
  <2>3. lo[node] <= lo[w] /\ hi[w] <= hi[node]  BY <2>1, <2>2, <1>1, <1>3
  <2> QED  BY <2>3 DEF node
<1> QED  BY <1>2, <1>4, <1>5

\* The top layout has every window of its workspace within its interval.
LEMMA TopHolds ==
    ASSUME NEW t, TreeInv(t), NEW w \in Windows, NEW ws \in RootsOf(t, w),
           NEW lo, NEW hi, Nested(t, lo, hi)
    PROVE  LET top == TilingLayout(t, ws)
           IN  lo[top] < lo[w] /\ hi[w] < hi[top]
<1> DEFINE top == TilingLayout(t, ws)
           S == {top} \cup Below(t, top)
<1>1. t \in Tree /\ Linked(t) /\ Acyclic(t) /\ Shaped(t, t.live) /\ w \in Items
  BY DEF TreeInv, Linked, Items
<1>2. ws \in Workspaces /\ t.kids[ws] # <<>> /\ ws \in Parents
  BY RootHolds DEF TreeInv, Items, Parents
<1>3. top \in Layouts /\ Elements(t.kids[ws]) = {top} /\ top \in Parents
  BY <1>1, <1>2, TopLayout DEF Parents
<1>4. w \in Below(t, ws)
  <2>1. PICK k \in 1..Height : Climb(t, w)[k] = ws  BY DEF RootsOf, Ancestors
  <2>2. w \in Levels(t, ws)[k]  BY <2>1, <1>1, <1>2, ClimbIsLevel
  <2> QED  BY <2>2 DEF Below
<1> HIDE DEF top
<1>5. Below(t, ws) \subseteq S
  <2>1. Elements(t.kids[ws]) \subseteq S  BY <1>3
  <2>2. \A p \in S \cap Parents : Elements(t.kids[p]) \subseteq S
    BY <1>1, <1>3, BelowClosed DEF Over
  <2> HIDE DEF S
  <2> QED  BY <2>1, <2>2, <1>1, <1>2, BelowLeast
<1>6. w # top  BY <1>3, KindsAssumption
<1>7. lo[top] < lo[w] /\ hi[w] < hi[top]  BY <1>1, <1>3, <1>4, <1>5, <1>6, BelowWithin
<1> QED  BY <1>7 DEF top

\* A workspace that is left behind, collapsing aside, keeps its top layout and its type.
LEMMA TopStays ==
    ASSUME NEW t, TreeInv(t), NEW w \in Windows, t.parent[w] # Nil, NEW ws \in Workspaces,
           t.kids[ws] # <<>>, Len(t.kids[TilingLayout(t, ws)]) # 1, ~TopCollapses(t, w, ws)
    PROVE  LET u == PurgeAndReconfigure(t, w)
           IN  /\ u.kids[ws] = t.kids[ws]
               /\ u.type[TilingLayout(t, ws)] = t.type[TilingLayout(t, ws)]
<1> DEFINE top == TilingLayout(t, ws)
           p   == t.parent[w]
           g   == t.parent[p]
           t1  == RemoveChild(t, p, w)
           u   == PurgeAndReconfigure(t, w)
<1>1. /\ t \in Tree /\ Linked(t) /\ Shaped(t, t.live) /\ Acyclic(t) /\ w \in Items
      /\ ws \in Parents /\ ws \notin Layouts
  BY KindsAssumption DEF TreeInv, Linked, Items, Parents
<1>2. /\ p \in t.live /\ Removed(t, t1, p, w) /\ t1.live = t.live
      /\ Linked(t1) /\ Acyclic(t1) /\ Shaped(t1, t1.live \ {p})
      /\ \A m \in Items : t1.parent[m] = IF m = w THEN Nil ELSE t.parent[m]
  BY RemoveWindowShape
<1>3. top \in Layouts /\ t.parent[top] = ws /\ Elements(t.kids[ws]) = {top}
  BY <1>1, TopLayout
<1>4. /\ Len(t.kids[top]) # 1
      /\ ~(p = top /\ Len(t.kids[top]) = 2 /\ Elements(t.kids[top]) \cap Layouts # {})
  BY DEF TopCollapses
<1>5. u = IF t1.kids[p] = <<>> THEN UpdateRect(Delete(RemoveChild(t1, g, p), p), g)
          ELSE IF IsSole(t1, p) THEN PurgeSoleNode(t1, p)
          ELSE UpdateRect(t1, p)
  BY DEF PurgeAndReconfigure
<1>6. p \in Parents /\ p \in Items /\ p # w /\ p \in Layouts /\ p # ws
  BY <1>1, <1>2, KindsAssumption DEF Tree, Parents, Items
<1>7. p # Nil /\ w \in Elements(t.kids[p])  BY <1>1, ParentKinds
<1> HIDE DEF p, t1, u, top
<1>8. /\ t1 \in Tree /\ t1.kids[ws] = t.kids[ws] /\ t1.type = t.type /\ t1.parent[p] = g
      /\ Len(t1.kids[p]) = Len(t.kids[p]) - 1
      /\ Elements(t1.kids[p]) = Elements(t.kids[p]) \ {w}
  BY <1>1, <1>2, <1>6 DEF Removed, Rest, Linked
<1>9. Len(t.kids[p]) \in Nat /\ Len(t1.kids[p]) \in Nat  BY <1>1, <1>6, <1>8, KidsAreLists
<1>10. g = ws => p = top
  <2> SUFFICES ASSUME g = ws  PROVE p = top  OBVIOUS
  <2>1. p \in Elements(t.kids[ws])  BY <1>1, <1>6 DEF Linked
  <2> QED  BY <2>1, <1>3
<1>11. g # Nil /\ g \in Parents /\ g # p
  <2>1. g # Nil  BY <1>1, <1>2 DEF Shaped
  <2>2. g \in Parents  BY <2>1, <1>1, <1>6 DEF Tree
  <2>3. g # p
    <3> HIDE DEF g
    <3>1. g \in Layouts => t.parent[p] # p  BY <1>1, <1>6, NoSelfParent DEF g
    <3> QED  BY <3>1, <1>6 DEF g
  <2> QED  BY <2>1, <2>2, <2>3
<1>12. CASE t1.kids[p] # <<>> /\ ~IsSole(t1, p)
  <2>1. u.kids = t1.kids /\ u.type = t1.type
    BY <1>5, <1>8, <1>12, UpdateRectSame DEF Same, Rest
  <2> QED  BY <2>1, <1>8 DEF u, top
<1>13. CASE t1.kids[p] = <<>>
  <2> DEFINE v2 == RemoveChild(t1, g, p)
             v3 == Delete(v2, p)
  <2>1. p # top /\ g # ws
    <3>1. Len(t1.kids[p]) = 0  BY <1>6, <1>8, <1>13, KidsAreLists
    <3>2. \A k \in Nat : k - 1 = 0 => k = 1  OBVIOUS
    <3>4. Len(t.kids[p]) = 1  BY <3>1, <3>2, <1>8, <1>9
    <3>3. p # top  BY <3>4, <1>4
    <3> QED  BY <3>3, <1>10
  <2> HIDE DEF g, v2, v3
  <2>2. Removed(t1, v2, g, p)  BY <1>2, <1>6, <1>8, <1>11, RemoveChildLinks DEF v2
  <2>3. /\ v2.kids[ws] = t1.kids[ws] /\ v2.type = t1.type /\ v2 \in Tree
        /\ Linked(v2) /\ v2.parent[p] = Nil /\ v2.kids[p] = <<>>
    BY <1>1, <1>6, <1>8, <1>11, <1>13, <2>1, <2>2 DEF Removed, Rest, Linked, Tree
  <2>4. v3.kids = v2.kids /\ v3 \in Tree /\ v3.type = [v2.type EXCEPT ![p] = "Horizontal"]
    <3>1. v3.kids = v2.kids /\ v3 \in Tree  BY <1>6, <2>3, DeleteLinks DEF v3, Linked
    <3>2. v3.type = [v2.type EXCEPT ![p] = "Horizontal"]  BY <2>3 DEF v3, Delete, Tree
    <3> QED  BY <3>1, <3>2
  <2>5. v3.type[top] = v2.type[top]  BY <1>3, <2>1, <2>3, <2>4 DEF Tree
  <2>6. u = UpdateRect(v3, g)  BY <1>5, <1>13 DEF v2, v3
  <2>7. u.kids = v3.kids /\ u.type = v3.type  BY <2>4, <2>6, UpdateRectSame DEF Same, Rest
  <2> QED  BY <2>3, <2>4, <2>5, <2>7, <1>8 DEF u, top
<1>14. CASE t1.kids[p] # <<>> /\ IsSole(t1, p)
  <2> DEFINE c  == t1.kids[p][1]
             v1 == RemoveChild(t1, p, c)
             v2 == Replace(v1, g, p, c)
             v3 == Delete(v2, p)
  <2>1. c \in Items /\ Elements(t1.kids[p]) = {c} /\ Len(t1.kids[p]) = 1
    BY <1>6, <1>8, <1>14, OnlyKid DEF IsSole
  <2>2. p # top /\ g # ws
    <3> SUFFICES ASSUME p = top  PROVE FALSE  BY <1>10
    <3>4. \A k \in Nat : k - 1 = 1 => k = 2  OBVIOUS
    <3>1. Len(t.kids[top]) = 2  BY <3>4, <2>1, <1>8, <1>9
    <3>2. c \notin Windows  BY <1>3, <1>8, <1>14 DEF IsSole, g
    <3>3. c \in Elements(t.kids[top]) \cap Layouts  BY <3>2, <2>1, <1>8 DEF Items
    <3> QED  BY <3>1, <3>3, <1>4
  <2>3. u = PurgeSoleNode(t1, p)  BY <1>5, <1>14
  <2>4. u = UpdateRect(v3, g)  BY <2>3, <1>8, <1>14 DEF PurgeSoleNode
  <2> HIDE DEF g, c, v1, v2, v3
  <2>5. t1.parent[c] = p  BY <1>2, <1>6, <2>1 DEF Linked
  <2>6. c \in Windows \cup t1.live
    BY <1>2, <1>7, <2>1, <2>5, <1>6, KindsAssumption DEF Linked, Items
  <2>7. c # p
    <3>1. c \in Windows => c # p  BY <1>6, KindsAssumption
    <3>2. c \in Layouts => c # p  BY <1>2, <2>5, NoSelfParent
    <3> QED  BY <3>1, <3>2, <2>1 DEF Items
  <2>8. Removed(t1, v1, p, c)  BY <1>2, <1>6, <2>1, <2>5, RemoveChildLinks DEF v1
  <2>9. /\ Linked(v1) /\ v1.live = t1.live /\ v1.parent[p] = g /\ v1.parent[c] = Nil
        /\ v1 \in Tree /\ v1.kids[ws] = t1.kids[ws] /\ v1.type = t1.type
        /\ Elements(v1.kids[p]) = {}
    BY <1>1, <1>6, <1>8, <2>1, <2>7, <2>8 DEF Removed, Rest, Linked, Tree
  <2>10. Replaced(v1, v2, g, p, c)
    BY <1>6, <1>11, <2>1, <2>6, <2>9, ReplaceLinks DEF v2
  <2>11. /\ v2.kids[ws] = v1.kids[ws] /\ v2.type = v1.type /\ v2 \in Tree
         /\ Linked(v2) /\ v2.parent[p] = Nil /\ v2.kids[p] = <<>>
    <3>1. v1.kids[p] = <<>>  BY <1>6, <2>9, KidsAreLists
    <3>2. v1.parent \in [Items -> Parents \cup {Nil}]  BY <2>9 DEF Tree
    <3>3. v2.parent[p] = Nil  BY <1>6, <2>1, <2>7, <2>10, <3>2 DEF Replaced
    <3> QED  BY <1>1, <1>6, <1>11, <2>2, <2>10, <3>1, <3>3 DEF Replaced, Rest, Linked
  <2>12. v3.kids = v2.kids /\ v3 \in Tree /\ v3.type = [v2.type EXCEPT ![p] = "Horizontal"]
    <3>1. v3.kids = v2.kids /\ v3 \in Tree  BY <1>6, <2>11, DeleteLinks DEF v3, Linked
    <3>2. v3.type = [v2.type EXCEPT ![p] = "Horizontal"]  BY <2>11 DEF v3, Delete, Tree
    <3> QED  BY <3>1, <3>2
  <2>13. v3.type[top] = v2.type[top]  BY <1>3, <2>2, <2>11, <2>12 DEF Tree
  <2>14. u.kids = v3.kids /\ u.type = v3.type  BY <2>4, <2>12, UpdateRectSame DEF Same, Rest
  <2> QED  BY <2>9, <2>11, <2>12, <2>13, <2>14, <1>8 DEF u, top
<1> QED  BY <1>12, <1>13, <1>14

\* A layout l with the children x and y, one of them the window, is made the child of a
\* workspace that has no other: what the top layout gets around it.
LEMMA WrapNested ==
    ASSUME NEW t \in Tree, NEW ws \in Workspaces, NEW l \in Layouts, t.kids[l] = <<>>,
           NEW x \in Items, NEW y \in Items, NEW lo, NEW hi, Nested(t, lo, hi),
           lo[l] < lo[x], hi[x] <= lo[y], hi[y] < hi[l]
    PROVE  LET u == AddChild(AddChild(AddChild(t, l, x), l, y), ws, l)
           IN  u \in Tree /\ Nested(u, lo, hi)
<1> DEFINE v == AddChild(AddChild(t, l, x), l, y)
           i == Len(v.kids[ws]) + 1
<1>1. v \in Tree /\ Nested(v, lo, hi)  BY PairNested
<1> HIDE DEF v
<1>2. ws \in Parents /\ ws \notin Layouts /\ l \in Items  BY KindsAssumption DEF Parents, Items
<1>3. i \in 1..Len(v.kids[ws]) + 1
  <2>1. Len(v.kids[ws]) \in Nat  BY <1>1, <1>2, KidsAreLists
  <2> QED  BY <2>1
<1>4. AddChild(v, ws, l) = InsertChild(v, ws, i, l)  BY DEF AddChild
<1>5. ws \in Layouts => Fits(v, ws, i, l, lo, hi)  BY <1>2
<1> HIDE DEF i
<1>6. InsertChild(v, ws, i, l) \in Tree  BY <1>1, <1>2, <1>3, InsertIsTree
<1>7. Nested(InsertChild(v, ws, i, l), lo, hi)  BY <1>1, <1>2, <1>3, <1>5, InsertNested
<1> QED  BY <1>4, <1>6, <1>7 DEF v

\* The new top layout has the window before the old one, or after it.
LEMMA WrapTopPut ==
    ASSUME NEW t, TreeInv(t), NEW w \in Windows, t.parent[w] = Nil, NEW ws \in Workspaces,
           t.kids[ws] # <<>>, NEW dir, NEW lo, NEW hi, Nested(t, lo, hi)
    PROVE  LET top == TilingLayout(t, ws)
           IN  PutAt(WrapTop(t, w, ws, dir), lo, w, IF dir \in Backward THEN lo[top] ELSE hi[top])
<1> DEFINE top == TilingLayout(t, ws)
           l   == Fresh(t)
           v0  == RemoveChild(t, ws, top)
           ty  == InverseType(t.type[top])
           v1  == New(v0, l, ty)
           u   == WrapTop(t, w, ws, dir)
           L   == lo[top]
           H   == hi[top]
           X   == {w, l}
<1>1. /\ t \in Tree /\ Linked(t) /\ Shaped(t, t.live) /\ w \in Items /\ ws \in Parents
      /\ ws \notin Layouts
  BY KindsAssumption DEF TreeInv, Linked, Items, Parents
<1>2. top \in Layouts /\ top \in t.live /\ t.parent[top] = ws  BY <1>1, TopLayout
<1>3. l \in Layouts /\ l \notin t.live  BY FreshExists
<1>4. ty \in Types  BY DEF InverseType, Types
<1> HIDE DEF l, ty
<1>5. u = AddChild(IF dir \in Backward THEN AddChild(AddChild(v1, l, w), l, top)
                   ELSE AddChild(AddChild(v1, l, top), l, w), ws, l)
  BY DEF WrapTop, l, ty
<1> HIDE DEF top, v0, v1, u
<1>6. /\ top \in Items /\ top \in Parents /\ top # w /\ top # l
      /\ l \in Items /\ l \in Parents /\ l # w /\ l # ws
  BY <1>1, <1>2, <1>3, KindsAssumption DEF Items, Parents
<1>7. Removed(t, v0, ws, top)  BY <1>1, <1>2, <1>6, RemoveChildLinks DEF v0
<1>8. /\ Linked(v0) /\ v0 \in Tree /\ v0.live = t.live /\ v0.parent[w] = Nil
  BY <1>1, <1>6, <1>7 DEF Removed, Rest, Linked, Tree
<1>9. /\ Linked(v1) /\ v1.parent = v0.parent /\ v1.kids = v0.kids
      /\ v0.parent[l] = Nil /\ v0.kids[l] = <<>>
  BY <1>3, <1>4, <1>8, NewLinks DEF v1
<1>10. Nested(v1, lo, hi)
  <2>1. Nested(v0, lo, hi)  BY <1>1, <1>2, <1>6, RemoveNested DEF v0
  <2> QED  BY <2>1, <1>9, NestedSame
<1>11. L \in Int /\ H \in Int /\ L < H  BY <1>6 DEF Nested
<1>12. X \in SUBSET Items /\ \A n \in X : v1.parent[n] = Nil /\ (n \in Layouts => v1.kids[n] = <<>>)
  BY <1>1, <1>6, <1>8, <1>9, KindsAssumption
<1>13. v1 \in Tree /\ v1.kids[l] = <<>>  BY <1>9 DEF Linked
<1>14. lo \in [Items -> Int]  BY DEF Nested
<1>15. w \in X /\ l \in X /\ top \notin X /\ \A v \in Windows \ {w} : v \in Items \ X
  BY <1>3, <1>6, KindsAssumption DEF Items
<1> HIDE DEF L, H, X
<1>16. ASSUME NEW a \in Int, NEW q \in Int, 8 * L < a, a + 1 < 8 * H,
              8 * q - 4 <= a, a <= 8 * q + 3
       PROVE  \E lo2, hi2 : /\ Nested(v1, lo2, hi2) /\ Put(lo, lo2, w, q)
                            /\ lo2[w] = a /\ hi2[w] = a + 1
                            /\ lo2[l] = 8 * L /\ hi2[l] = 8 * H
                            /\ lo2[top] = 8 * L + 3 /\ hi2[top] = 8 * H - 3
  <2> DEFINE b == a + 1
             c == 8 * L
             d == 8 * H
  <2>1. b \in Int /\ c \in Int /\ d \in Int /\ a < b /\ c < d  BY <1>11
  <2> HIDE DEF b, c, d
  <2>2. Two(w, l, X, a, b, c, d)  BY <2>1, <1>1, <1>6, <1>15 DEF Two
  <2>3. PICK lo2, hi2 : /\ Spread(lo, hi, lo2, hi2, X)
                        /\ lo2[w] = a /\ hi2[w] = b /\ lo2[l] = c /\ hi2[l] = d
    BY <2>2, <1>10, TwoSpread
  <2>4. Nested(v1, lo2, hi2)  BY <2>3, <1>9, <1>10, <1>12, RoomMade
  <2>5. lo2[top] = 8 * L + 3 /\ hi2[top] = 8 * H - 3
    BY <2>3, <1>6, <1>15 DEF Spread, L, H
  <2>6. Put(lo, lo2, w, q)
    <3>1. \A v \in Windows \ {w} : lo2[v] = 8 * lo[v] + 3  BY <2>3, <1>15 DEF Spread
    <3> DEFINE m == lo2[w]
    <3>2. m \in Int /\ 8 * q - 4 <= m /\ m <= 8 * q + 3  BY <2>3, <1>16
    <3> QED  BY <3>1, <3>2, <1>14, RoomIsPut
  <2> QED  BY <2>3, <2>4, <2>5, <2>6 DEF b, c, d
<1>17. CASE dir \in Backward
  <2> DEFINE a == 8 * L + 1
  <2>1. a \in Int /\ 8 * L < a /\ a + 1 < 8 * H /\ 8 * L - 4 <= a /\ a <= 8 * L + 3  BY <1>11
  <2> HIDE DEF a
  <2>2. PICK lo2, hi2 : /\ Nested(v1, lo2, hi2) /\ Put(lo, lo2, w, L)
                        /\ lo2[w] = a /\ hi2[w] = a + 1
                        /\ lo2[l] = 8 * L /\ hi2[l] = 8 * H
                        /\ lo2[top] = 8 * L + 3 /\ hi2[top] = 8 * H - 3
    BY <2>1, <1>11, <1>16
  <2>3. lo2[l] < lo2[w] /\ hi2[w] <= lo2[top] /\ hi2[top] < hi2[l]
    BY <2>1, <2>2, <1>11 DEF a
  <2>4. Nested(AddChild(AddChild(AddChild(v1, l, w), l, top), ws, l), lo2, hi2)
    BY <2>2, <2>3, <1>1, <1>3, <1>6, <1>13, WrapNested
  <2>5. u = AddChild(AddChild(AddChild(v1, l, w), l, top), ws, l)  BY <1>5, <1>17
  <2>6. PutAt(u, lo, w, L)  BY <2>2, <2>4, <2>5 DEF PutAt
  <2> QED  BY <2>6, <1>17 DEF u, L, top
<1>18. CASE dir \notin Backward
  <2> DEFINE a == 8 * H - 2
  <2>1. a \in Int /\ 8 * L < a /\ a + 1 < 8 * H /\ 8 * H - 4 <= a /\ a <= 8 * H + 3  BY <1>11
  <2> HIDE DEF a
  <2>2. PICK lo2, hi2 : /\ Nested(v1, lo2, hi2) /\ Put(lo, lo2, w, H)
                        /\ lo2[w] = a /\ hi2[w] = a + 1
                        /\ lo2[l] = 8 * L /\ hi2[l] = 8 * H
                        /\ lo2[top] = 8 * L + 3 /\ hi2[top] = 8 * H - 3
    BY <2>1, <1>11, <1>16
  <2>3. lo2[l] < lo2[top] /\ hi2[top] <= lo2[w] /\ hi2[w] < hi2[l]
    BY <2>1, <2>2, <1>11 DEF a
  <2>4. Nested(AddChild(AddChild(AddChild(v1, l, top), l, w), ws, l), lo2, hi2)
    BY <2>2, <2>3, <1>1, <1>3, <1>6, <1>13, WrapNested
  <2>5. u = AddChild(AddChild(AddChild(v1, l, top), l, w), ws, l)  BY <1>5, <1>18
  <2>6. PutAt(u, lo, w, H)  BY <2>2, <2>4, <2>5 DEF PutAt
  <2> QED  BY <2>6, <1>18 DEF u, H, top
<1> QED  BY <1>17, <1>18

\* _move_to_top_node
LEMMA MoveToTopNodePut ==
    ASSUME NEW t, TreeInv(t), NEW w \in Windows, NEW ws \in RootsOf(t, w),
           Len(t.kids[TilingLayout(t, ws)]) # 1, NEW dir,
           ~IsCompatible(t.type[TilingLayout(t, ws)], dir), NEW lo, NEW hi, Nested(t, lo, hi)
    PROVE  \E q : /\ PutAt(MoveToTopNode(t, w, ws, dir), lo, w, q)
                  /\ ~TopCollapses(t, w, ws) => Aims(lo, w, dir, q)
<1> DEFINE t1  == PurgeAndReconfigure(t, w)
           top == TilingLayout(t1, ws)
           ty  == t1.type[top]
           inv == InverseType(ty)
           t2  == SetType(t1, top, inv)
           n   == Len(t1.kids[top])
           i   == IF dir \in Backward THEN 1 ELSE n + 1
           u   == IF IsCompatible(ty, dir) THEN AddChild(t1, top, w)
                  ELSE IF n = 1 THEN InsertChild(t2, top, i, w)
                  ELSE WrapTop(t1, w, ws, dir)
           L   == lo[top]
           H   == hi[top]
           Good(q) == ~TopCollapses(t, w, ws) => Aims(lo, w, dir, q)
<1>1. MoveToTopNode(t, w, ws, dir) = UpdateRect(u, ws)  BY DEF MoveToTopNode
<1>2. ws \in Workspaces /\ t.parent[w] # Nil /\ t.kids[ws] # <<>> /\ w \in Items
  BY RootHolds DEF TreeInv, Items
<1>3. TreeInv(t1) /\ t1.parent[w] = Nil /\ t1.kids[ws] # <<>>
  <2>1. TreeInv(t1)  BY <1>2, PurgeKeeps
  <2>2. t1.parent[w] = Nil  BY <1>2, PurgeKeeps
  <2>3. t1.kids[ws] # <<>>  BY <1>2, PurgeKeeps
  <2> QED  BY <2>1, <2>2, <2>3
<1>4. Nested(t1, lo, hi)  BY <1>2, PurgeNested
<1>5. ASSUME ~TopCollapses(t, w, ws)
      PROVE  ~IsCompatible(ty, dir) /\ L < lo[w] /\ hi[w] < H
  <2>1. t1.kids[ws] = t.kids[ws] /\ t1.type[TilingLayout(t, ws)] = t.type[TilingLayout(t, ws)]
    BY <1>2, <1>5, TopStays
  <2>2. top = TilingLayout(t, ws)  BY <2>1 DEF TilingLayout
  <2>3. lo[TilingLayout(t, ws)] < lo[w] /\ hi[w] < hi[TilingLayout(t, ws)]  BY TopHolds
  <2> QED  BY <2>1, <2>2, <2>3
<1>6. inv \in Types  BY DEF InverseType, Types
<1>7. t1 \in Tree /\ Linked(t1) /\ Shaped(t1, t1.live)
  BY <1>3 DEF TreeInv, Linked
<1>8. top \in Layouts /\ top \in t1.live  BY <1>2, <1>3, <1>7, TopLayout
<1> HIDE DEF t1, top, ty, inv, t2, i, n, u
<1>9. top \in Parents /\ top \in Items /\ t1.kids[top] # <<>>
  BY <1>7, <1>8 DEF Parents, Items, Shaped, Full
<1>10. n \in Nat /\ n = Len(t1.kids[top])  BY <1>7, <1>9, KidsAreLists DEF n
<1>11. /\ L \in Int /\ H \in Int /\ lo[w] \in Int /\ hi[w] \in Int /\ lo[w] < hi[w]
  BY <1>2, <1>9 DEF Nested
<1>12. /\ dir \in Backward => Good(L + 1) /\ Good(L)
       /\ dir \notin Backward => Good(H - 1) /\ Good(H)
  <2>1. L < lo[w] /\ hi[w] < H =>
           /\ dir \in Backward => Aims(lo, w, dir, L + 1) /\ Aims(lo, w, dir, L)
           /\ dir \notin Backward => Aims(lo, w, dir, H - 1) /\ Aims(lo, w, dir, H)
    <3> HIDE DEF L, H
    <3> QED  BY <1>11 DEF Aims
  <2> QED  BY <2>1, <1>5
<1>13. ASSUME IsCompatible(ty, dir)
       PROVE  u \in Tree /\ \E q : PutAt(u, lo, w, q) /\ Good(q)
  <2> DEFINE m == n + 1
  <2>1. u = InsertChild(t1, top, m, w) /\ m \in 1..Len(t1.kids[top]) + 1
        /\ m = Len(t1.kids[top]) + 1
    BY <1>10, <1>13 DEF u, AddChild
  <2> HIDE DEF m
  <2>2. m = Len(t1.kids[top]) + 1 => PutAt(InsertChild(t1, top, m, w), lo, w, hi[top] - 1)
    BY <2>1, <1>3, <1>4, <1>7, <1>8, <1>9, InsertPut
  <2>3. PutAt(u, lo, w, H - 1)  BY <2>1, <2>2
  <2>4. u \in Tree  BY <2>1, <1>2, <1>7, <1>9, InsertIsTree
  <2>5. Good(H - 1)  BY <1>5, <1>13
  <2> QED  BY <2>3, <2>4, <2>5
<1>14. ASSUME ~IsCompatible(ty, dir) /\ n = 1
       PROVE  u \in Tree /\ \E q : PutAt(u, lo, w, q) /\ Good(q)
  <2>1. u = InsertChild(t2, top, i, w)  BY <1>14 DEF u
  <2>2. Linked(t2) /\ t2.parent = t1.parent /\ t2.kids = t1.kids
    BY <1>6, <1>7, <1>8, SetTypeLinks DEF t2
  <2>3. Nested(t2, lo, hi)  BY <2>2, <1>4, NestedSame
  <2>4. /\ i \in 1..Len(t2.kids[top]) + 1 /\ t2.kids[top] # <<>> /\ t2.parent[w] = Nil
        /\ t2 \in Tree
        /\ dir \in Backward => i = 1
        /\ dir \notin Backward => i = Len(t2.kids[top]) + 1
    BY <2>2, <1>3, <1>9, <1>10 DEF i, Linked
  <2>5. /\ i = 1 => PutAt(InsertChild(t2, top, i, w), lo, w, lo[top] + 1)
        /\ i = Len(t2.kids[top]) + 1 => PutAt(InsertChild(t2, top, i, w), lo, w, hi[top] - 1)
    BY <2>2, <2>3, <2>4, <1>8, InsertPut
  <2>6. u \in Tree  BY <2>1, <2>4, <1>2, <1>9, InsertIsTree
  <2>7. \/ PutAt(u, lo, w, L + 1) /\ Good(L + 1)
        \/ PutAt(u, lo, w, H - 1) /\ Good(H - 1)
    BY <2>1, <2>4, <2>5, <1>12
  <2> QED  BY <2>6, <2>7
<1>15. ASSUME ~IsCompatible(ty, dir) /\ n # 1
       PROVE  u \in Tree /\ \E q : PutAt(u, lo, w, q) /\ Good(q)
  <2>1. u = WrapTop(t1, w, ws, dir)  BY <1>15 DEF u
  <2>2. PutAt(u, lo, w, IF dir \in Backward THEN L ELSE H)
    BY <2>1, <1>2, <1>3, <1>4, WrapTopPut DEF top
  <2>3. u \in Tree
    <3>1. Len(t1.kids[TilingLayout(t1, ws)]) # 1  BY <1>15 DEF n, top
    <3>2. TreeInv(WrapTop(t1, w, ws, dir))  BY <3>1, <1>2, <1>3, WrapTopKeeps
    <3> QED  BY <3>2, <2>1 DEF TreeInv, Linked
  <2>4. \/ PutAt(u, lo, w, L) /\ Good(L)
        \/ PutAt(u, lo, w, H) /\ Good(H)
    BY <2>2, <1>12
  <2> QED  BY <2>3, <2>4
<1>16. u \in Tree /\ \E q : PutAt(u, lo, w, q) /\ Good(q)
  <2> HIDE DEF Good, L, H
  <2> QED  BY <1>13, <1>14, <1>15
<1>17. \A lo2, hi2 : Nested(u, lo2, hi2) => Nested(UpdateRect(u, ws), lo2, hi2)
  BY <1>16, UpdateNested
<1>18. \A q : PutAt(u, lo, w, q) => PutAt(UpdateRect(u, ws), lo, w, q)  BY <1>17, PutStays
<1> HIDE DEF Good
<1>19. \E q : PutAt(MoveToTopNode(t, w, ws, dir), lo, w, q) /\ Good(q)
  BY <1>1, <1>16, <1>18
<1> QED  BY <1>19 DEF Good

\* A window that no step moves is where it was.
LEMMA StaysPut ==
    ASSUME NEW t, NEW lo, NEW hi, Nested(t, lo, hi), NEW w \in Windows, NEW dir
    PROVE  PutAt(t, lo, w, lo[w]) /\ Aims(lo, w, dir, lo[w])
<1>1. lo[w] \in Int  BY DEF Nested, Items
<1>2. Put(lo, lo, w, lo[w])  BY <1>1 DEF Put
<1> QED  BY <1>1, <1>2 DEF PutAt, Aims

\* _move_to_adjacent_node
LEMMA MoveToAdjacentPut ==
    ASSUME NEW t, TreeInv(t), NEW w \in Windows, NEW node \in Items, t.parent[node] \in t.live,
           t.parent[w] # Nil, Len(t.kids[t.parent[w]]) # 1, NEW dir,
           \A adj \in Elements(t.kids[t.parent[node]]) :
              adj # node => adj # w /\ adj # t.parent[w],
           NEW lo, NEW hi, Nested(t, lo, hi), lo[node] <= lo[w], hi[w] <= hi[node]
    PROVE  \E q : PutAt(MoveToAdjacentNode(t, w, node, dir), lo, w, q) /\ Aims(lo, w, dir, q)
<1> DEFINE t0   == [t EXCEPT !.mark[w] = "Floating"]
           p    == t.parent[node]
           i    == IndexOf(t, node)
           back == dir \in Backward
           j    == IF back THEN i - 1 ELSE i + 1
           adj  == t.kids[p][j]
           u    == MoveToAdjacentNode(t, w, node, dir)
           edge == IF back THEN 1 ELSE Len(t.kids[p]) + 1
           slot == IF back THEN i ELSE j
           Good(x) == \E q : PutAt(x, lo, w, q) /\ Aims(lo, w, dir, q)
<1>1. u = IF j \notin 1..Len(t.kids[p])
          THEN IF t.type[p] = t.type[t.parent[w]] THEN t0 ELSE MoveToLayout(t0, w, p, edge)
          ELSE IF adj \in Layouts THEN MoveToLayout(t0, w, adj, Len(t.kids[adj]) + 1)
          ELSE IF IsMarked(t0, adj) THEN MoveToMarkedWindow(t0, w, adj)
          ELSE IF p = t.parent[w] THEN UpdateRect(ShiftChild(t0, p, i, j), p)
          ELSE MoveToLayout(t0, w, p, slot)
  BY DEF MoveToAdjacentNode
<1>2. /\ t \in Tree /\ Linked(t) /\ Shaped(t, t.live) /\ p \in t.live /\ p \in Parents
      /\ p \in Layouts /\ p \in Items /\ w \in Items
  BY DEF TreeInv, Linked, Tree, Parents, Items
<1>3. /\ t0 \in Tree /\ t0.parent = t.parent /\ t0.kids = t.kids /\ t0.live = t.live
  BY <1>2 DEF Tree, Marks
<1>4. TreeInv(t0)
  <2> HIDE DEF t0
  <2> QED  BY <1>3 DEF TreeInv, Linked, Acyclic, Ranks, Shaped, Full
<1>5. i \in 1..Len(t.kids[p]) /\ t.kids[p][i] = node /\ Len(t.kids[p]) \in Nat
  <2>1. node \in Elements(t.kids[p])  BY <1>2 DEF Linked
  <2>2. t.kids[p] \in Seq(Items) /\ Len(t.kids[p]) \in Nat  BY <1>2, KidsAreLists
  <2> QED  BY <2>1, <2>2, PositionFound DEF IndexOf
<1>6. \A adj2 \in Elements(t.kids[p]) : adj2 # node => adj2 # w /\ adj2 # t.parent[w]
  OBVIOUS
<1> HIDE DEF t0, p, i, adj, u
<1>7. Nested(t0, lo, hi)  BY <1>3, NestedSame
<1>8. i \in Int /\ j \in Int /\ j # i /\ edge \in 1..Len(t.kids[p]) + 1  BY <1>5
<1>9. \A n \in Items : lo[n] \in Int /\ hi[n] \in Int /\ lo[n] < hi[n]  BY DEF Nested
<1>10. /\ lo[p] \in Int /\ hi[p] \in Int
       /\ \A k \in 1..Len(t.kids[p]) :
             /\ lo[t.kids[p][k]] \in Int /\ hi[t.kids[p][k]] \in Int
             /\ lo[p] < lo[t.kids[p][k]] /\ hi[t.kids[p][k]] < hi[p]
             /\ lo[t.kids[p][k]] < hi[t.kids[p][k]]
       /\ \A a, b \in 1..Len(t.kids[p]) : a < b => hi[t.kids[p][a]] <= lo[t.kids[p][b]]
  BY <1>2, KidsNested
<1>11. /\ lo[w] \in Int /\ hi[w] \in Int /\ lo[w] < hi[w]
       /\ lo[node] \in Int /\ hi[node] \in Int /\ lo[p] < lo[node] /\ hi[node] < hi[p]
  BY <1>2, <1>5, <1>9, <1>10
<1>12. /\ back => Aims(lo, w, dir, lo[p] + 1) /\ Aims(lo, w, dir, lo[node])
       /\ ~back => Aims(lo, w, dir, hi[p] - 1) /\ Aims(lo, w, dir, hi[node])
  <2> DEFINE P == lo[p]
             Q == hi[p]
             A == lo[node]
             B == hi[node]
             V == lo[w]
             W == hi[w]
  <2>1. /\ P \in Int /\ Q \in Int /\ A \in Int /\ B \in Int /\ V \in Int /\ W \in Int
        /\ P < A /\ A <= V /\ V < W /\ W <= B /\ B < Q
    BY <1>10, <1>11
  <2> HIDE DEF P, Q, A, B, V, W
  <2>2. P + 1 <= V /\ A <= V /\ V <= Q - 1 /\ V <= B  BY <2>1
  <2> QED  BY <2>2 DEF Aims, P, Q, A, B, V
<1>13. ASSUME p # t.parent[w], NEW m \in 1..Len(t.kids[p]) + 1
       PROVE  LET x == MoveToLayout(t0, w, p, m)
              IN  /\ m = 1 => PutAt(x, lo, w, lo[p] + 1)
                  /\ m = Len(t.kids[p]) + 1 => PutAt(x, lo, w, hi[p] - 1)
                  /\ m <= Len(t.kids[p]) => PutAt(x, lo, w, lo[t.kids[p][m]])
                  /\ m > 1 => PutAt(x, lo, w, hi[t.kids[p][m - 1]])
  <2>1. /\ p \in t0.live /\ p # t0.parent[w] /\ t0.parent[w] # Nil
        /\ Len(t0.kids[t0.parent[w]]) # 1 /\ m \in 1..Len(t0.kids[p]) + 1
    BY <1>2, <1>3, <1>13
  <2>2. LET x == MoveToLayout(t0, w, p, m)
        IN  /\ m = 1 => PutAt(x, lo, w, lo[p] + 1)
            /\ m = Len(t0.kids[p]) + 1 => PutAt(x, lo, w, hi[p] - 1)
            /\ m <= Len(t0.kids[p]) => PutAt(x, lo, w, lo[t0.kids[p][m]])
            /\ m > 1 => PutAt(x, lo, w, hi[t0.kids[p][m - 1]])
    BY <2>1, <1>4, <1>7, MoveToLayoutPut
  <2> QED  BY <2>2, <1>3
<1>14. ASSUME j \notin 1..Len(t.kids[p])  PROVE Good(u)
  <2>1. CASE t.type[p] = t.type[t.parent[w]]
    <3>1. u = t0  BY <1>1, <1>14, <2>1
    <3>2. PutAt(t0, lo, w, lo[w]) /\ Aims(lo, w, dir, lo[w])  BY <1>7, StaysPut
    <3> QED  BY <3>1, <3>2
  <2>2. CASE t.type[p] # t.type[t.parent[w]]
    <3>1. u = MoveToLayout(t0, w, p, edge)  BY <1>1, <1>14, <2>2
    <3>2. p # t.parent[w]  BY <2>2
    <3>3. (back => edge = 1) /\ (~back => edge = Len(t.kids[p]) + 1)  OBVIOUS
    <3> HIDE DEF edge
    <3>4. /\ edge = 1 => PutAt(u, lo, w, lo[p] + 1)
          /\ edge = Len(t.kids[p]) + 1 => PutAt(u, lo, w, hi[p] - 1)
      BY <3>1, <3>2, <1>8, <1>13
    <3> QED  BY <3>3, <3>4, <1>12
  <2> QED  BY <2>1, <2>2
<1>15. ASSUME j \in 1..Len(t.kids[p])  PROVE Good(u)
  <2>1. adj \in Items /\ adj \in Elements(t.kids[p])  BY <1>2, <1>15, KidsAreLists DEF adj
  <2>2. t.parent[adj] = p  BY <1>2, <2>1 DEF Linked
  <2>3. adj # node
    <3>1. NoDuplicates(t.kids[p])  BY <1>2 DEF Linked
    <3> QED  BY <3>1, <1>5, <1>8, <1>15 DEF NoDuplicates, adj
  <2>4. adj # w /\ adj # t.parent[w]  BY <2>1, <2>3, <1>6
  <2>5. p # Nil  BY <1>2, KindsAssumption DEF Parents
  <2>6. /\ lo[adj] \in Int /\ hi[adj] \in Int /\ lo[adj] < hi[adj]
        /\ back => hi[adj] <= lo[node]
        /\ ~back => hi[node] <= lo[adj]
    <3>1. back => j < i  BY <1>5, <1>8
    <3>2. ~back => i < j  BY <1>5, <1>8
    <3> HIDE DEF j
    <3> QED  BY <3>1, <3>2, <1>5, <1>10, <1>15 DEF adj
  <2>7. /\ Aims(lo, w, dir, hi[adj] - 1) /\ Aims(lo, w, dir, hi[adj])
        /\ back => Aims(lo, w, dir, lo[adj])
    BY <2>6, <1>11 DEF Aims
  <2>8. CASE adj \in Layouts
    <3> DEFINE m == Len(t.kids[adj]) + 1
               v == MoveToLayout(t0, w, adj, m)
    <3>1. u = v  BY <1>1, <1>15, <2>8
    <3>2. adj \in t.live /\ adj \in Parents  BY <1>2, <2>2, <2>5, <2>8 DEF Linked, Parents
    <3>3. Len(t.kids[adj]) \in Nat  BY <1>2, <3>2, KidsAreLists
    <3>4. m \in 1..Len(t0.kids[adj]) + 1 /\ m = Len(t0.kids[adj]) + 1  BY <3>3, <1>3
    <3> HIDE DEF m
    <3>5. /\ adj \in t0.live /\ adj # t0.parent[w] /\ t0.parent[w] # Nil
          /\ Len(t0.kids[t0.parent[w]]) # 1
      BY <3>2, <2>4, <1>3
    <3>6. m = Len(t0.kids[adj]) + 1 => PutAt(v, lo, w, hi[adj] - 1)
      BY <3>4, <3>5, <1>4, <1>7, MoveToLayoutPut
    <3> QED  BY <3>1, <3>4, <3>6, <2>7
  <2>9. CASE adj \notin Layouts /\ IsMarked(t0, adj)
    <3>1. u = MoveToMarkedWindow(t0, w, adj)  BY <1>1, <1>15, <2>9
    <3>2. adj \in Windows  BY <2>1, <2>9 DEF Items
    <3>3. t0.parent[adj] # Nil  BY <2>2, <2>5, <1>3
    <3>4. t0.mark[adj] \in Types  BY <1>3, <3>2, <2>9 DEF IsMarked, Tree, Marks
    <3>5. PutAt(MoveToMarkedWindow(t0, w, adj), lo, w, hi[adj])
      BY <3>2, <3>3, <3>4, <2>4, <1>4, <1>7, MarkedPut
    <3> QED  BY <3>1, <3>5, <2>7
  <2>10. CASE adj \notin Layouts /\ ~IsMarked(t0, adj) /\ p = t.parent[w]
    <3> DEFINE v == ShiftChild(t0, p, i, j)
    <3>1. u = UpdateRect(v, p)  BY <1>1, <1>15, <2>10
    <3>2. node = w
      <4>1. w \in Elements(t.kids[p])  BY <1>2, <2>10 DEF Linked
      <4> QED  BY <4>1, <1>6
    <3>3. /\ i \in 1..Len(t0.kids[p]) /\ j \in 1..Len(t0.kids[p]) /\ Linked(t0)
          /\ t0.kids[p][i] = w /\ t0.kids[p][i] \in Windows /\ t0.kids[p][j] = adj
      BY <3>2, <1>3, <1>4, <1>5, <1>15 DEF TreeInv, adj
    <3>4. (back => j = i - 1) /\ (~back => j = i + 1)  OBVIOUS
    <3> HIDE DEF j
    <3>5. /\ j = i - 1 => PutAt(v, lo, t0.kids[p][i], lo[t0.kids[p][j]])
          /\ j = i + 1 => PutAt(v, lo, t0.kids[p][i], hi[t0.kids[p][j]])
      BY <3>3, <1>2, <1>7, ShiftPut
    <3>6. v \in Tree  BY <3>3, <1>2, ShiftChildLinks DEF Linked
    <3> HIDE DEF v
    <3>7. \A lo2, hi2 : Nested(v, lo2, hi2) => Nested(u, lo2, hi2)  BY <3>1, <3>6, UpdateNested
    <3>8. \A q : PutAt(v, lo, w, q) => PutAt(u, lo, w, q)  BY <3>7, PutStays
    <3>9. /\ j = i - 1 => PutAt(u, lo, w, lo[adj])
          /\ j = i + 1 => PutAt(u, lo, w, hi[adj])
      BY <3>3, <3>5, <3>8
    <3> QED  BY <3>4, <3>9, <2>7
  <2>11. CASE adj \notin Layouts /\ ~IsMarked(t0, adj) /\ p # t.parent[w]
    <3>1. u = MoveToLayout(t0, w, p, slot)  BY <1>1, <1>15, <2>11
    <3>2. slot \in 1..Len(t.kids[p]) + 1  BY <1>5, <1>8, <1>15
    <3>3. /\ back => slot <= Len(t.kids[p]) /\ t.kids[p][slot] = node
          /\ ~back => slot > 1 /\ t.kids[p][slot - 1] = node
      BY <1>5
    <3> HIDE DEF slot, j
    <3>4. /\ slot <= Len(t.kids[p]) => PutAt(u, lo, w, lo[t.kids[p][slot]])
          /\ slot > 1 => PutAt(u, lo, w, hi[t.kids[p][slot - 1]])
      BY <3>1, <3>2, <2>11, <1>13
    <3> QED  BY <3>3, <3>4, <1>12
  <2> QED  BY <2>8, <2>9, <2>10, <2>11
<1> HIDE DEF Good, j
<1>16. Good(u)  BY <1>14, <1>15
<1> QED  BY <1>16 DEF Good, u

\* Move_container::execute
LEMMA MoveContainerPut ==
    ASSUME NEW t, TreeInv(t), NEW w \in Windows, NEW ws \in RootsOf(t, w), NEW dir,
           NEW lo, NEW hi, Nested(t, lo, hi)
    PROVE  \E q : /\ PutAt(MoveContainerTree(t, w, ws, dir), lo, w, q)
                  /\ ~TopCollapses(t, w, ws) => Aims(lo, w, dir, q)
<1> DEFINE node == FindDirectionCompatibleNode(t, w, dir)
           top  == TilingLayout(t, ws)
<1>1. ws \in Workspaces /\ t.parent[w] # Nil /\ t.kids[ws] # <<>>
  BY RootHolds DEF TreeInv, Items
<1>2. CASE node # Nil
  <2>1. MoveContainerTree(t, w, ws, dir) = MoveToAdjacentNode(t, w, node, dir)
    BY <1>2 DEF MoveContainerTree
  <2>2. /\ node \in Items /\ t.parent[node] \in t.live
        /\ Len(t.kids[t.parent[w]]) # 1
        /\ \A adj \in Elements(t.kids[t.parent[node]]) :
              adj # node => adj # w /\ adj # t.parent[w]
    BY <1>2, FoundNode
  <2>3. lo[node] <= lo[w] /\ hi[w] <= hi[node]  BY <1>2, FoundHolds
  <2> HIDE DEF node
  <2>4. \E q : PutAt(MoveToAdjacentNode(t, w, node, dir), lo, w, q) /\ Aims(lo, w, dir, q)
    BY <2>2, <2>3, <1>1, MoveToAdjacentPut
  <2> QED  BY <2>1, <2>4
<1>3. CASE node = Nil /\ (Len(t.kids[top]) = 1 \/ IsCompatible(t.type[top], dir))
  <2>1. MoveContainerTree(t, w, ws, dir) = t  BY <1>3 DEF MoveContainerTree
  <2> QED  BY <2>1, StaysPut
<1>4. CASE node = Nil /\ ~(Len(t.kids[top]) = 1 \/ IsCompatible(t.type[top], dir))
  <2>1. MoveContainerTree(t, w, ws, dir) = MoveToTopNode(t, w, ws, dir)
    BY <1>4 DEF MoveContainerTree
  <2>2. \E q : /\ PutAt(MoveToTopNode(t, w, ws, dir), lo, w, q)
               /\ ~TopCollapses(t, w, ws) => Aims(lo, w, dir, q)
    BY <1>4, MoveToTopNodePut
  <2> QED  BY <2>1, <2>2
<1> QED  BY <1>2, <1>3, <1>4

-----------------------------------------------------------------------------
(* Lists in the same order.                                                 *)

\* f rises along the list.
Rising(s, f) == \A i, j \in 1..Len(s) : i < j => f[s[i]] < f[s[j]]

\* A list along which f rises begins with any other that has the same members.
LEMMA RisingPrefix ==
    ASSUME NEW S, NEW a \in Seq(S), NEW b \in Seq(S), NEW f, \A x \in S : f[x] \in Int,
           Rising(a, f), Rising(b, f), Elements(a) = Elements(b)
    PROVE  Len(a) <= Len(b) /\ \A i \in 1..Len(a) : a[i] = b[i]
<1> DEFINE A == {k \in Nat : k <= Len(a) => k <= Len(b) /\ \A i \in 1..k : a[i] = b[i]}
<1>1. /\ Len(a) \in Nat /\ Len(b) \in Nat
      /\ \A i \in 1..Len(a) : a[i] \in S /\ \E m \in 1..Len(b) : b[m] = a[i]
      /\ \A i \in 1..Len(b) : b[i] \in S /\ \E m \in 1..Len(a) : a[m] = b[i]
  BY LenProperties, ElementOfSeq DEF Elements
<1>2. 0 \in A  BY <1>1
<1>3. ASSUME NEW k \in Nat, k \in A  PROVE k + 1 \in A
  <2> SUFFICES ASSUME k + 1 <= Len(a)
               PROVE  k + 1 <= Len(b) /\ \A i \in 1..k+1 : a[i] = b[i]
    OBVIOUS
  <2> DEFINE c == k + 1
  <2>1. c \in 1..Len(a) /\ k <= Len(b) /\ \A i \in 1..k : a[i] = b[i]  BY <1>1, <1>3
  <2>2. c \in Nat /\ \A i \in Nat : (i < c => i <= k) /\ (i \in 1..c => i = c \/ i \in 1..k)
    OBVIOUS
  <2> HIDE DEF c
  <2>3. PICK m \in 1..Len(b) : b[m] = a[c]  BY <2>1, <1>1
  <2>4. c <= m
    <3> SUFFICES ASSUME m < c  PROVE FALSE  BY <2>2, <1>1
    <3>1. m \in 1..k /\ m \in 1..Len(a)  BY <2>1, <2>2, <1>1 DEF c
    <3>2. a[m] = a[c]  BY <3>1, <2>1, <2>3
    <3>3. f[a[m]] < f[a[c]]  BY <3>1, <2>1 DEF Rising
    <3>4. f[a[c]] < f[a[c]]  BY <3>2, <3>3
    <3>5. f[a[c]] \in Int  BY <2>1, <1>1
    <3> QED  BY <3>4, <3>5
  <2>5. c \in 1..Len(b)  BY <2>1, <2>2, <2>4, <1>1
  <2>6. PICK n \in 1..Len(a) : a[n] = b[c]  BY <2>5, <1>1
  <2>7. c <= n
    <3> SUFFICES ASSUME n < c  PROVE FALSE  BY <2>2, <1>1
    <3>1. n \in 1..k /\ n \in 1..Len(b)  BY <2>1, <2>2, <1>1 DEF c
    <3>2. b[n] = b[c]  BY <3>1, <2>1, <2>6
    <3>3. f[b[n]] < f[b[c]]  BY <3>1, <2>5 DEF Rising
    <3>4. f[b[c]] < f[b[c]]  BY <3>2, <3>3
    <3>5. f[b[c]] \in Int  BY <2>5, <1>1
    <3> QED  BY <3>4, <3>5
  <2>8. a[c] = b[c]
    <3> SUFFICES ASSUME c # m, c # n  PROVE FALSE  BY <2>3, <2>6
    <3>1. c < m /\ c < n  BY <2>4, <2>7, <2>2, <1>1
    <3>2. f[b[c]] < f[b[m]] /\ f[a[c]] < f[a[n]]  BY <3>1, <2>1, <2>5 DEF Rising
    <3>3. f[b[c]] < f[a[c]] /\ f[a[c]] < f[b[c]]  BY <3>2, <2>3, <2>6
    <3>4. f[a[c]] \in Int /\ f[b[c]] \in Int  BY <2>1, <2>5, <1>1
    <3> QED  BY <3>3, <3>4
  <2>9. ASSUME NEW i \in 1..c  PROVE a[i] = b[i]
    <3>0. i \in Nat  BY <2>2
    <3>1. i = c \/ i \in 1..k  BY <3>0, <2>2
    <3>2. CASE i = c  BY <3>2, <2>8
    <3>3. CASE i \in 1..k  BY <3>3, <2>1
    <3> QED  BY <3>1, <3>2, <3>3
  <2> QED  BY <2>5, <2>9, <1>1 DEF c
<1>4. Nat \subseteq A
  <2> HIDE DEF A
  <2> QED  BY <1>2, <1>3, EveryNumber
<1>5. Len(a) \in A  BY <1>1, <1>4
<1> QED  BY <1>1, <1>5

\* So that both are the same list.
LEMMA RisingEqual ==
    ASSUME NEW S, NEW a \in Seq(S), NEW b \in Seq(S), NEW f, \A x \in S : f[x] \in Int,
           Rising(a, f), Rising(b, f), Elements(a) = Elements(b)
    PROVE  a = b
<1>1. Len(a) <= Len(b) /\ \A i \in 1..Len(a) : a[i] = b[i]  BY RisingPrefix
<1>2. Len(b) <= Len(a)  BY RisingPrefix
<1>3. Len(a) \in Nat /\ Len(b) \in Nat  BY LenProperties
<1>4. Len(a) = Len(b)  BY <1>1, <1>2, <1>3
<1> QED  BY <1>1, <1>4, SeqEqual

\* Along the windows of a workspace the intervals rise.
LEMMA LeavesRise ==
    ASSUME NEW t, TreeInv(t), NEW lo, NEW hi, Nested(t, lo, hi), NEW ws \in Workspaces
    PROVE  /\ LeafOrder(t, ws) \in Seq(Windows) /\ NoDuplicates(LeafOrder(t, ws))
           /\ Elements(LeafOrder(t, ws)) = WindowsOf(t, ws)
           /\ Rising(LeafOrder(t, ws), lo)
<1> DEFINE s == LeafOrder(t, ws)
<1>1. s \in Seq(Windows) /\ Elements(s) = WindowsOf(t, ws) /\ Ranged(s, lo, hi)
  BY LeafOrderRanged
<1> HIDE DEF s
<1>2. \A w \in Windows : lo[w] \in Int /\ hi[w] \in Int /\ lo[w] < hi[w]  BY DEF Nested, Items
<1>3. Len(s) \in Nat /\ \A i \in 1..Len(s) : s[i] \in Windows
  BY <1>1, LenProperties, ElementOfSeq
<1>4. ASSUME NEW i \in 1..Len(s), NEW j \in 1..Len(s), i < j  PROVE lo[s[i]] < lo[s[j]]
  <2>1. hi[s[i]] <= lo[s[j]]  BY <1>1, <1>4 DEF Ranged
  <2>2. lo[s[i]] \in Int /\ hi[s[i]] \in Int /\ lo[s[j]] \in Int /\ lo[s[i]] < hi[s[i]]
    BY <1>2, <1>3
  <2> QED  BY <2>1, <2>2
<1>5. ASSUME NEW i \in 1..Len(s), NEW j \in 1..Len(s), i # j  PROVE s[i] # s[j]
  <2>1. i < j \/ j < i  BY <1>3, <1>5
  <2>2. lo[s[i]] # lo[s[j]]
    <3>1. lo[s[i]] < lo[s[j]] \/ lo[s[j]] < lo[s[i]]  BY <2>1, <1>4
    <3>2. lo[s[i]] \in Int /\ lo[s[j]] \in Int  BY <1>2, <1>3
    <3> QED  BY <3>1, <3>2
  <2> QED  BY <2>2
<1>6. NoDuplicates(s)  BY <1>5 DEF NoDuplicates
<1>7. Rising(s, lo)  BY <1>4 DEF Rising
<1> QED  BY <1>1, <1>6, <1>7 DEF s

\* Taking a member out of a list changes the order of no other.
LEMMA WithoutRises ==
    ASSUME NEW S, NEW s \in Seq(S), NoDuplicates(s), NEW w, NEW f, Rising(s, f)
    PROVE  /\ Without(s, w) \in Seq(S \ {w}) /\ Rising(Without(s, w), f)
           /\ Elements(Without(s, w)) = Elements(s) \ {w}
<1> DEFINE e == Without(s, w)
<1>1. e \in Seq(S) /\ Elements(e) = Elements(s) \ {w} /\ Rising(e, f)
  <2>1. CASE w \notin Elements(s)  BY <2>1 DEF Without
  <2>2. CASE w \in Elements(s)
    <3>1. e = Erase(s, w)  BY <2>2 DEF Without
    <3>2. e \in Seq(S) /\ Elements(e) = Elements(s) \ {w}
      BY <3>1, <2>2, EraseIsSeq, EraseElements
    <3>3. /\ Len(e) = Len(s) - 1 /\ Len(s) \in Nat
          /\ \A i \in 1..Len(s) - 1 : e[i] = s[IF i < Position(s, w) THEN i ELSE i + 1]
      <4>1. /\ Len(Erase(s, w)) = Len(s) - 1
            /\ \A i \in 1..Len(s) - 1 :
                  Erase(s, w)[i] = IF i < Position(s, w) THEN s[i] ELSE s[i + 1]
        BY <2>2, EraseIsSeq
      <4> QED  BY <4>1, <3>1, LenProperties
    <3>4. Position(s, w) \in 1..Len(s)  BY <2>2, PositionFound
    <3> DEFINE q == Position(s, w)
               src(i) == IF i < q THEN i ELSE i + 1
    <3> HIDE DEF q, e
    <3>5. q \in Nat  BY <3>3, <3>4 DEF q
    <3>6. \A i, j \in 1..Len(s) - 1 :
             i < j => /\ src(i) \in 1..Len(s) /\ src(j) \in 1..Len(s) /\ src(i) < src(j)
      BY <3>3, <3>5
    <3>7. \A i \in 1..Len(s) - 1 : e[i] = s[src(i)]  BY <3>3 DEF q
    <3> HIDE DEF src
    <3>8. Rising(e, f)
      <4> SUFFICES ASSUME NEW i \in 1..Len(s) - 1, NEW j \in 1..Len(s) - 1, i < j
                   PROVE  f[e[i]] < f[e[j]]
        BY <3>3 DEF Rising
      <4>1. src(i) \in 1..Len(s) /\ src(j) \in 1..Len(s) /\ src(i) < src(j)  BY <3>6
      <4>2. f[s[src(i)]] < f[s[src(j)]]  BY <4>1 DEF Rising
      <4> QED  BY <4>2, <3>7
    <3> QED  BY <3>2, <3>8 DEF e
  <2> QED  BY <2>1, <2>2
<1> HIDE DEF e
<1>2. e \in Seq(S \ {w})
  <2>1. Len(e) \in Nat /\ \A i \in 1..Len(e) : e[i] \in S \ {w}
    <3>1. Len(e) \in Nat /\ \A i \in 1..Len(e) : e[i] \in S  BY <1>1, LenProperties, ElementOfSeq
    <3>2. \A i \in 1..Len(e) : e[i] \in Elements(e)  BY DEF Elements
    <3> QED  BY <3>1, <3>2, <1>1
  <2>2. e = [i \in 1..Len(e) |-> e[i]]  BY <1>1
  <2> QED  BY <2>1, <2>2, IsASeq
<1> QED  BY <1>1, <1>2 DEF e

-----------------------------------------------------------------------------
(* A step moves one window.                                                 *)

\* Every node has its workspace, every node has its interval.
Settled(t) == \E h : Housed(t, h)
Ordered(t) == \E lo, hi : Nested(t, lo, hi)

\* All windows of u are where t has them, on the same workspaces and in the same
\* order, but for w.
Carries(t, u, w) ==
    /\ \E h, x : Housed(t, h) /\ Moved(u, h, w, x)
    /\ \E lo, hi, q : Nested(t, lo, hi) /\ PutAt(u, lo, w, q)

\* The windows of a workspace, without the one that moves, are the same list before
\* and after.
LEMMA SameWithout ==
    ASSUME NEW t, TreeInv(t), NEW u, TreeInv(u), NEW w \in Windows, NEW ws \in Workspaces,
           NEW h, NEW x, Housed(t, h), Moved(u, h, w, x),
           NEW lo, NEW hi, NEW lo2, NEW hi2, NEW q,
           Nested(t, lo, hi), Nested(u, lo2, hi2), Put(lo, lo2, w, q)
    PROVE  Without(LeafOrder(t, ws), w) = Without(LeafOrder(u, ws), w)
<1> DEFINE a == Without(LeafOrder(t, ws), w)
           b == Without(LeafOrder(u, ws), w)
           S == Windows \ {w}
<1>1. PICK h2 : Housed(u, h2) /\ \A v \in Windows \ {w} : h2[v] = h[v]  BY DEF Moved
<1>2. a \in Seq(S) /\ Rising(a, lo) /\ Elements(a) = WindowsOf(t, ws) \ {w}
  <2> DEFINE s == LeafOrder(t, ws)
  <2>1. s \in Seq(Windows) /\ NoDuplicates(s) /\ Elements(s) = WindowsOf(t, ws) /\ Rising(s, lo)
    BY LeavesRise
  <2> HIDE DEF s
  <2>2. /\ Without(s, w) \in Seq(Windows \ {w}) /\ Rising(Without(s, w), lo)
        /\ Elements(Without(s, w)) = Elements(s) \ {w}
    BY <2>1, WithoutRises
  <2> QED  BY <2>1, <2>2 DEF s
<1>3. b \in Seq(S) /\ Rising(b, lo2) /\ Elements(b) = WindowsOf(u, ws) \ {w}
  <2> DEFINE s == LeafOrder(u, ws)
  <2>1. s \in Seq(Windows) /\ NoDuplicates(s) /\ Elements(s) = WindowsOf(u, ws) /\ Rising(s, lo2)
    BY LeavesRise
  <2> HIDE DEF s
  <2>2. /\ Without(s, w) \in Seq(Windows \ {w}) /\ Rising(Without(s, w), lo2)
        /\ Elements(Without(s, w)) = Elements(s) \ {w}
    BY <2>1, WithoutRises
  <2> QED  BY <2>1, <2>2 DEF s
<1>4. WindowsOf(t, ws) \ {w} = WindowsOf(u, ws) \ {w}
  <2>1. WindowsOf(t, ws) = {v \in Windows : h[v] = ws}  BY WindowsAtHome
  <2>2. WindowsOf(u, ws) = {v \in Windows : h2[v] = ws}  BY <1>1, WindowsAtHome
  <2> QED  BY <1>1, <2>1, <2>2
<1> HIDE DEF a, b
<1>5. Rising(b, lo)
  <2>1. \A i \in 1..Len(b) : b[i] \in S  BY <1>3, ElementOfSeq
  <2>2. \A v, y \in S : lo2[v] < lo2[y] => lo[v] < lo[y]  BY DEF Put
  <2> HIDE DEF S
  <2> QED  BY <2>1, <2>2, <1>3 DEF Rising
<1>6. \A v \in S : lo[v] \in Int  BY DEF Nested, Items
<1> HIDE DEF S
<1>7. a = b  BY <1>2, <1>3, <1>4, <1>5, <1>6, RisingEqual
<1> QED  BY <1>7 DEF a, b

\* Every handler moves one window.
LEMMA NextCarries ==
    ASSUME TreeInv(tree), Settled(tree), Ordered(tree), Next
    PROVE  \E w \in Windows : Carries(tree, tree', w)
<1>1. PICK h : Housed(tree, h)  BY DEF Settled
<1>2. PICK lo, hi : Nested(tree, lo, hi)  BY DEF Ordered
<1>3. ASSUME NEW w \in Windows, NEW ws \in Workspaces, Manage(w, ws) \/ Move(w, ws)
      PROVE  Carries(tree, tree', w)
  <2>1. PICK current \in Currents(ws) : tree' = MoveToWorkspaceTree(tree, w, ws, current)
    BY <1>3 DEF Manage, Move
  <2>2. ws \notin RootsOf(tree, w)
    BY <1>3, LooseHasNoRoot DEF Manage, Move, Placed, TreeInv
  <2>3. tree.kids[ws] # <<>> => current \in Windows \ {w} /\ tree.parent[current] # Nil
    BY <2>2, CurrentIsBelow DEF Currents
  <2>4. tree.kids[ws] # <<>> => h[current] = ws
    <3>1. WindowsOf(tree, ws) = {v \in Windows : h[v] = ws}  BY <1>1, WindowsAtHome
    <3> QED  BY <2>3, <3>1, KindsAssumption DEF Currents
  <2>5. Moved(MoveToWorkspaceTree(tree, w, ws, current), h, w, ws)
    BY <1>1, <2>2, <2>3, <2>4, MoveToWorkspaceKeeps
  <2>6. \E q : PutAt(MoveToWorkspaceTree(tree, w, ws, current), lo, w, q)
    BY <1>2, <2>2, <2>3, MoveToWorkspacePut
  <2> QED  BY <2>1, <2>5, <2>6, <1>1, <1>2 DEF Carries
<1>4. ASSUME NEW w \in Windows, Unmanage(w)  PROVE Carries(tree, tree', w)
  <2> DEFINE u == PurgeAndReconfigure(tree, w)
  <2>1. tree' = Forget(u, w) /\ tree.parent[w] # Nil  BY <1>4 DEF Unmanage, Placed
  <2>2. TreeInv(u)  BY <2>1, PurgeKeeps
  <2>3. Moved(u, h, w, Nil)  BY <2>1, <1>1, PurgeKeeps
  <2>4. Nested(u, lo, hi)  BY <2>1, <1>2, PurgeNested
  <2> HIDE DEF u
  <2>5. u \in Tree  BY <2>2 DEF TreeInv, Linked
  <2>6. tree'.parent = u.parent /\ tree'.kids = u.kids  BY <2>1, <2>5 DEF Forget, Tree
  <2>7. Moved(tree', h, w, Nil)  BY <2>3, <2>6, SameHomes
  <2>8. Nested(tree', lo, hi)  BY <2>4, <2>6, NestedSame
  <2>9. PutAt(tree', lo, w, lo[w])  BY <2>8, StaysPut
  <2> QED  BY <2>7, <2>9, <1>1, <1>2 DEF Carries
<1>5. ASSUME NEW w \in Windows, NEW dir \in Directions, MoveContainer(w, dir)
      PROVE  Carries(tree, tree', w)
  <2>1. PICK ws \in RootsOf(tree, w) : tree' = MoveContainerTree(tree, w, ws, dir)
    BY <1>5 DEF MoveContainer
  <2>2. ws \in Workspaces  BY DEF RootsOf
  <2>3. h[w] = ws  BY <2>2, <1>1, HomeIsRoot DEF Items
  <2>4. Moved(MoveContainerTree(tree, w, ws, dir), h, w, ws)  BY <2>3, <1>1, MoveContainerKeeps
  <2>5. \E q : PutAt(MoveContainerTree(tree, w, ws, dir), lo, w, q)  BY <1>2, MoveContainerPut
  <2> QED  BY <2>1, <2>4, <2>5, <1>1, <1>2 DEF Carries
<1>6. ASSUME NEW w \in Windows, NEW ty \in Types, ChangeLayoutType(w, ty)
      PROVE  Carries(tree, tree', w)
  <2>1. tree \in Tree  BY DEF TreeInv, Linked
  <2>2. tree'.parent = tree.parent /\ tree'.kids = tree.kids
    BY <2>1, <1>6 DEF ChangeLayoutType, Tree
  <2>3. Moved(tree, h, w, h[w])  BY <1>1 DEF Moved
  <2>4. Moved(tree', h, w, h[w])  BY <2>2, <2>3, SameHomes
  <2>5. Nested(tree', lo, hi)  BY <2>2, <1>2, NestedSame
  <2>6. PutAt(tree', lo, w, lo[w])  BY <2>5, StaysPut
  <2> QED  BY <2>4, <2>6, <1>1, <1>2 DEF Carries
<1> QED  BY <1>3, <1>4, <1>5, <1>6 DEF Next

\* The tree is a tree, its nodes have workspaces and intervals.
OrderInv == TreeInv(tree) /\ Settled(tree) /\ Ordered(tree)

\* All of that holds in every reachable state.
LEMMA OrderInductive == Spec => []OrderInv
<1>1. Init => OrderInv
  <2> SUFFICES ASSUME Init  PROVE OrderInv  OBVIOUS
  <2>1. TreeInv(tree)  BY EmptyIsTree DEF Init
  <2>2. /\ tree.parent = [n \in Items |-> Nil] /\ tree.kids = [p \in Parents |-> <<>>]
        /\ \A l \in Layouts : tree.kids[l] = <<>>
    BY DEF Init, EmptyTree, Parents
  <2>3. Settled(tree)
    <3> DEFINE h == [n \in Items |-> Nil]
    <3>1. Housed(tree, h)  BY <2>2, KindsAssumption DEF Housed, Up, Items
    <3> QED  BY <3>1 DEF Settled
  <2>4. Ordered(tree)
    <3> DEFINE lo == [n \in Items |-> 0]
               hi == [n \in Items |-> 1]
    <3>1. Nested(tree, lo, hi)  BY <2>2 DEF Nested, Ranged, Elements
    <3> QED  BY <3>1 DEF Ordered
  <2> QED  BY <2>1, <2>3, <2>4 DEF OrderInv
<1>2. OrderInv /\ [Next]_tree => OrderInv'
  <2> SUFFICES ASSUME OrderInv, [Next]_tree
               PROVE  TreeInv(tree') /\ Settled(tree') /\ Ordered(tree')
    BY DEF OrderInv
  <2>1. TreeInv(tree) /\ Settled(tree) /\ Ordered(tree)  BY DEF OrderInv
  <2>2. TreeInv(tree')  BY <2>1, StepKeepsTree
  <2>3. CASE UNCHANGED tree  BY <2>1, <2>3
  <2>4. CASE Next
    <3>1. PICK w \in Windows : Carries(tree, tree', w)  BY <2>1, <2>4, NextCarries
    <3>2. Settled(tree')  BY <3>1 DEF Carries, Moved, Settled
    <3>3. Ordered(tree')  BY <3>1 DEF Carries, PutAt, Ordered
    <3> QED  BY <2>2, <3>2, <3>3
  <2> QED  BY <2>3, <2>4
<1> QED  BY <1>1, <1>2, PTL DEF Spec

\* What a handler may do to the lists of windows.
MovesOne(t, u) ==
    LET before == [ws \in Workspaces |-> LeafOrder(t, ws)]
        after  == [ws \in Workspaces |-> LeafOrder(u, ws)]
    IN  \E w \in Windows : \A ws \in Workspaces : Without(before[ws], w) = Without(after[ws], w)

\* Whatever layouts a handler creates, collapses, wraps or inverts, the windows it does
\* not move stay on their workspaces in the same order.
THEOREM OthersAlwaysKeepOrder == Spec => OthersKeepOrder
<1>1. OrderInv /\ [Next]_tree => [MovesOne(tree, tree')]_tree
  <2> SUFFICES ASSUME OrderInv, Next  PROVE MovesOne(tree, tree')  OBVIOUS
  <2>1. TreeInv(tree) /\ Settled(tree) /\ Ordered(tree)  BY DEF OrderInv
  <2>2. TreeInv(tree')  BY <2>1, StepKeepsTree
  <2>3. PICK w \in Windows : Carries(tree, tree', w)  BY <2>1, NextCarries
  <2>4. PICK h, x : Housed(tree, h) /\ Moved(tree', h, w, x)  BY <2>3 DEF Carries
  <2>5. PICK lo, hi, q : Nested(tree, lo, hi) /\ PutAt(tree', lo, w, q)  BY <2>3 DEF Carries
  <2>6. PICK lo2, hi2 : Nested(tree', lo2, hi2) /\ Put(lo, lo2, w, q)  BY <2>5 DEF PutAt
  <2>7. \A ws \in Workspaces : Without(LeafOrder(tree, ws), w) = Without(LeafOrder(tree', ws), w)
    BY <2>1, <2>2, <2>4, <2>5, <2>6, SameWithout
  <2> QED  BY <2>7 DEF MovesOne
<1>2. [MovesOne(tree, tree')]_tree
        <=> [LET before == [ws \in Workspaces |-> LeafOrder(tree, ws)]
                 after  == [ws \in Workspaces |-> LeafOrder(tree', ws)]
             IN  \E w \in Windows : \A ws \in Workspaces :
                     Without(before[ws], w) = Without(after[ws], w)]_tree
  BY DEF MovesOne
<1> QED  BY <1>1, <1>2, OrderInductive, PTL DEF Spec, OthersKeepOrder

-----------------------------------------------------------------------------
(* The position of the window that moves.                                   *)

\* If taking w out of two lists gives the same list, and w is later in the second, then
\* some member is after w in the first and before it in the second.
LEMMA LaterOvertakes ==
    ASSUME NEW S, NEW a \in Seq(S), NEW b \in Seq(S), NEW w \in Elements(a), w \in Elements(b),
           NEW f, NEW g, Rising(a, f), Rising(b, g), Without(a, w) = Without(b, w),
           Position(a, w) < Position(b, w), NoDuplicates(a)
    PROVE  \E v \in S \ {w} : f[w] < f[v] /\ g[v] < g[w]
<1> DEFINE i == Position(a, w)
           j == Position(b, w)
           e == Without(a, w)
<1>1. i \in 1..Len(a) /\ a[i] = w /\ j \in 1..Len(b) /\ b[j] = w  BY PositionFound
<1>2. Len(a) \in Nat /\ Len(b) \in Nat  BY LenProperties
<1>3. /\ Len(e) = Len(a) - 1
      /\ \A k \in 1..Len(a) - 1 : e[k] = IF k < i THEN a[k] ELSE a[k + 1]
  BY EraseIsSeq DEF Without
<1>4. /\ Len(e) = Len(b) - 1
      /\ \A k \in 1..Len(b) - 1 : e[k] = IF k < j THEN b[k] ELSE b[k + 1]
  <2>1. e = Erase(b, w)  BY DEF Without
  <2>2. /\ Len(Erase(b, w)) = Len(b) - 1
        /\ \A k \in 1..Len(b) - 1 : Erase(b, w)[k] = IF k < j THEN b[k] ELSE b[k + 1]
    BY EraseIsSeq
  <2> HIDE DEF e
  <2> QED  BY <2>1, <2>2
<1>5. i < j  OBVIOUS
<1> HIDE DEF i, j, e
<1>6. Len(a) = Len(b)  BY <1>2, <1>3, <1>4
<1>7. /\ i \in 1..Len(a) - 1 /\ i \in 1..Len(b) - 1 /\ i \in 1..Len(b)
      /\ i + 1 \in 1..Len(a) /\ ~(i < i) /\ i < i + 1 /\ i # i + 1
  BY <1>1, <1>2, <1>5, <1>6
<1>8. a[i + 1] = b[i]
  <2>1. e[i] = a[i + 1]  BY <1>3, <1>7
  <2>2. e[i] = b[i]  BY <1>4, <1>5, <1>7
  <2> QED  BY <2>1, <2>2
<1>9. f[a[i]] < f[a[i + 1]]  BY <1>1, <1>7 DEF Rising
<1>10. g[b[i]] < g[b[j]]  BY <1>1, <1>5, <1>7 DEF Rising
<1>11. a[i + 1] \in S /\ a[i + 1] # w
  <2>1. a[i + 1] \in S  BY <1>7, ElementOfSeq
  <2>2. a[i + 1] # a[i]  BY <1>1, <1>7 DEF NoDuplicates
  <2> QED  BY <2>1, <2>2, <1>1
<1>12. f[w] < f[b[i]] /\ g[b[i]] < g[w]  BY <1>1, <1>8, <1>9, <1>10
<1> QED  BY <1>8, <1>11, <1>12

\* Where the arrow leaves the window.
LEMMA ArrowMoves ==
    ASSUME NEW t, TreeInv(t), Settled(t), Ordered(t), NEW w \in Windows, NEW ws \in RootsOf(t, w),
           NEW dir, ~TopCollapses(t, w, ws)
    PROVE  LET before == Position(LeafOrder(t, ws), w)
               after  == Position(LeafOrder(MoveContainerTree(t, w, ws, dir), ws), w)
           IN  IF dir \in Backward THEN after <= before ELSE after >= before
<1> DEFINE u == MoveContainerTree(t, w, ws, dir)
           a == LeafOrder(t, ws)
           b == LeafOrder(u, ws)
           i == Position(a, w)
           j == Position(b, w)
<1>1. PICK h : Housed(t, h)  BY DEF Settled
<1>2. PICK lo, hi : Nested(t, lo, hi)  BY DEF Ordered
<1>3. ws \in Workspaces /\ w \in Items  BY DEF RootsOf, Items
<1>4. h[w] = ws  BY <1>1, <1>3, HomeIsRoot
<1>5. TreeInv(u) /\ Moved(u, h, w, ws)
  <2>1. TreeInv(u)  BY MoveContainerKeeps
  <2>2. Moved(u, h, w, ws)  BY <1>1, <1>4, MoveContainerKeeps
  <2> QED  BY <2>1, <2>2
<1>6. PICK h2 : Housed(u, h2) /\ h2[w] = ws  BY <1>5 DEF Moved
<1>7. PICK q : PutAt(u, lo, w, q) /\ Aims(lo, w, dir, q)
  BY <1>2, MoveContainerPut
<1> HIDE DEF u
<1>8. PICK lo2, hi2 : Nested(u, lo2, hi2) /\ Put(lo, lo2, w, q)  BY <1>7 DEF PutAt
<1>9. /\ a \in Seq(Windows) /\ NoDuplicates(a) /\ Elements(a) = WindowsOf(t, ws)
      /\ Rising(a, lo)
  BY <1>2, <1>3, LeavesRise
<1>10. /\ b \in Seq(Windows) /\ NoDuplicates(b) /\ Elements(b) = WindowsOf(u, ws)
       /\ Rising(b, lo2)
  BY <1>3, <1>5, <1>8, LeavesRise
<1>11. w \in Elements(a) /\ w \in Elements(b)
  <2>1. WindowsOf(t, ws) = {v \in Windows : h[v] = ws}  BY <1>1, <1>3, WindowsAtHome
  <2>2. WindowsOf(u, ws) = {v \in Windows : h2[v] = ws}  BY <1>3, <1>5, <1>6, WindowsAtHome
  <2> QED  BY <2>1, <2>2, <1>4, <1>6, <1>9, <1>10
<1>12. Without(a, w) = Without(b, w)
  BY <1>1, <1>2, <1>3, <1>5, <1>8, SameWithout
<1> HIDE DEF a, b
<1>13. i \in 1..Len(a) /\ j \in 1..Len(b)  BY <1>9, <1>10, <1>11, PositionFound
<1>14. i \in Nat /\ j \in Nat
  <2>1. Len(a) \in Nat /\ Len(b) \in Nat  BY <1>9, <1>10, LenProperties
  <2> HIDE DEF i, j
  <2> QED  BY <2>1, <1>13
<1>15. q \in Int /\ \A v \in Windows \ {w} : lo2[v] < lo2[w] <=> lo[v] < q  BY <1>8 DEF Put
<1>16. \A v \in Windows : lo[v] \in Int /\ lo2[v] \in Int  BY <1>2, <1>8 DEF Nested, Items
<1>17. ASSUME dir \in Backward, i < j  PROVE FALSE
  <2>1. PICK v \in Windows \ {w} : lo[w] < lo[v] /\ lo2[v] < lo2[w]
    BY <1>9, <1>10, <1>11, <1>12, <1>17, LaterOvertakes
  <2>2. lo[v] < q /\ q <= lo[w]  BY <2>1, <1>7, <1>15, <1>17 DEF Aims
  <2> QED  BY <2>1, <2>2, <1>15, <1>16
<1>18. ASSUME dir \notin Backward, j < i  PROVE FALSE
  <2>1. PICK v \in Windows \ {w} : lo2[w] < lo2[v] /\ lo[v] < lo[w]
    BY <1>9, <1>10, <1>11, <1>12, <1>18, LaterOvertakes
  <2>2. ~(lo2[v] < lo2[w])  BY <2>1, <1>16
  <2>3. ~(lo[v] < q) /\ lo[w] <= q  BY <2>2, <1>7, <1>15, <1>18 DEF Aims
  <2> QED  BY <2>1, <2>3, <1>15, <1>16
<1> HIDE DEF i, j
<1>19. IF dir \in Backward THEN j <= i ELSE j >= i  BY <1>14, <1>17, <1>18
<1> QED  BY <1>19 DEF i, j, a, b, u

\* Mod4+Shift+arrow never moves the window against the arrow, except where its departure
\* collapses the top layout.
THEOREM AlwaysMovesInDirection == Spec => []MovesInDirection
<1>1. OrderInv => MovesInDirection
  <2> SUFFICES ASSUME OrderInv, NEW w \in Windows, NEW dir \in Directions,
                      NEW ws \in RootsOf(tree, w), ~TopCollapses(tree, w, ws)
               PROVE  LET before == Position(LeafOrder(tree, ws), w)
                          after  == Position(LeafOrder(MoveContainerTree(tree, w, ws, dir), ws), w)
                      IN  IF dir \in Backward THEN after <= before ELSE after >= before
    BY DEF MovesInDirection
  <2>1. TreeInv(tree) /\ Settled(tree) /\ Ordered(tree)  BY DEF OrderInv
  <2> QED  BY <2>1, ArrowMoves
<1> QED  BY <1>1, OrderInductive, PTL
=============================================================================
