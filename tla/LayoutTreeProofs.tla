-------------------------- MODULE LayoutTreeProofs --------------------------
(***************************************************************************)
(* What the operations on the container tree keep, for any number of       *)
(* windows, layouts and workspaces: the links, the layouts that are full,  *)
(* the way up to one workspace.                                            *)
(***************************************************************************)
EXTENDS LayoutTree, NodeListProofs, FiniteSetTheorems, FunctionTheorems,
        WellFoundedInduction, TLAPS

-----------------------------------------------------------------------------
(* Induction over the natural numbers, for sets.                            *)

\* A set of numbers that is not empty has a least one.
LEMMA LeastOfSet ==
    ASSUME NEW A, A \subseteq Nat, A # {}
    PROVE  \E m \in A : \A k \in A : m <= k
<1> DEFINE R == OpToRel(<, Nat)
<1>1. IsWellFoundedOn(R, Nat)  BY NatLessThanWellFounded
<1> HIDE DEF R
<1>2. PICK m \in A : \A k \in A : ~(<<k, m>> \in R)  BY <1>1, WFMin
<1>3. ASSUME NEW k \in A  PROVE m <= k
  <2>1. k < m => <<k, m>> \in R  BY DEF R, OpToRel
  <2> QED  BY <2>1, <1>2
<1> QED  BY <1>3

\* A set that has 0, and with each number the next one, has all numbers.
LEMMA EveryNumber ==
    ASSUME NEW A, 0 \in A, \A k \in Nat : k \in A => k + 1 \in A
    PROVE  Nat \subseteq A
<1> SUFFICES ASSUME Nat \ A # {}  PROVE FALSE  OBVIOUS
<1>1. PICK m \in Nat \ A : \A k \in Nat \ A : m <= k
  <2>1. Nat \ A \subseteq Nat  OBVIOUS
  <2> QED  BY <2>1, LeastOfSet
<1>2. m # 0 /\ m - 1 \in Nat /\ (m - 1) + 1 = m  BY <1>1
<1>3. m - 1 \in A  BY <1>1, <1>2
<1> QED  BY <1>1, <1>2, <1>3

\* The members of g follow one another under f, from x on.
IsChain(g, f, x, n) == g[0] = x /\ \A k \in 1..n : g[k] = f[g[k-1]]

\* A chain of any length exists where each member has a next one.
LEMMA ChainExists ==
    ASSUME NEW X, NEW f \in [X -> X], NEW x \in X, NEW n \in Nat
    PROVE  \E g \in [0..n -> X] : IsChain(g, f, x, n)
<1> DEFINE A == {m \in Nat : \E g \in [0..m -> X] : IsChain(g, f, x, m)}
<1>1. 0 \in A
  <2>1. [k \in 0..0 |-> x] \in [0..0 -> X] /\ IsChain([k \in 0..0 |-> x], f, x, 0)
    BY DEF IsChain
  <2> QED  BY <2>1
<1>2. ASSUME NEW m \in Nat, m \in A  PROVE m + 1 \in A
  <2>1. PICK g \in [0..m -> X] : g[0] = x /\ \A k \in 1..m : g[k] = f[g[k-1]]
    BY <1>2 DEF IsChain
  <2> DEFINE h == [k \in 0..m+1 |-> IF k = m + 1 THEN f[g[m]] ELSE g[k]]
  <2>2. h \in [0..m+1 -> X]
    <3>1. g[m] \in X  BY <2>1
    <3>2. \A k \in 0..m+1 : k # m + 1 => g[k] \in X  BY <2>1
    <3> QED  BY <3>1, <3>2
  <2>3. h[0] = x  BY <2>1
  <2>4. ASSUME NEW k \in 1..m+1  PROVE h[k] = f[h[k-1]]
    <3>1. k - 1 \in 0..m+1 /\ k - 1 # m + 1 /\ h[k-1] = g[k-1]  OBVIOUS
    <3>2. CASE k = m + 1  BY <3>1, <3>2
    <3>3. CASE k # m + 1
      <4>1. k \in 1..m /\ h[k] = g[k]  BY <3>3
      <4> QED  BY <4>1, <3>1, <2>1
    <3> QED  BY <3>2, <3>3
  <2> HIDE DEF h
  <2>5. IsChain(h, f, x, m + 1)  BY <2>3, <2>4 DEF IsChain
  <2> QED  BY <2>2, <2>5
<1>3. n \in A
  <2> HIDE DEF A
  <2> QED  BY <1>1, <1>2, EveryNumber
<1> QED  BY <1>3

-----------------------------------------------------------------------------
(* Walking up and down.                                                     *)

\* The walks of the tree go at least one level up or down.
LEMMA HeightIsNat == Height \in Nat /\ Height >= 1
BY PoolAssumption, FS_CardinalityType DEF Height

\* What Climb computes: each step goes to the parent.
LEMMA ClimbSteps ==
    ASSUME NEW t \in Tree, NEW n \in Items
    PROVE  /\ Climb(t, n) \in [0..Height -> Items \cup Parents \cup {Nil}]
           /\ Climb(t, n)[0] = n
           /\ \A k \in 1..Height :
                 Climb(t, n)[k] = IF Climb(t, n)[k-1] \in Items
                                  THEN t.parent[Climb(t, n)[k-1]] ELSE Nil
<1> DEFINE X == Items \cup Parents \cup {Nil}
           f == [x \in X |-> IF x \in Items THEN t.parent[x] ELSE Nil]
           F(g) == [k \in 0..Height |-> IF k = 0 THEN n
                                        ELSE IF g[k-1] \in Items THEN t.parent[g[k-1]] ELSE Nil]
<1>1. f \in [X -> X]  BY DEF Tree
<1>2. n \in X  OBVIOUS
<1> HIDE DEF f, X
<1>3. PICK g \in [0..Height -> X] : IsChain(g, f, n, Height)
  BY <1>1, <1>2, HeightIsNat, ChainExists
<1> USE DEF f, X
<1>4. g = F(g)
  <2>1. \A k \in 1..Height : g[k-1] \in X  BY HeightIsNat
  <2>2. \A k \in 1..Height : g[k] = IF g[k-1] \in Items THEN t.parent[g[k-1]] ELSE Nil
    BY <1>3, <2>1 DEF IsChain
  <2>3. \A k \in 0..Height : k = 0 \/ k \in 1..Height  BY HeightIsNat
  <2>4. \A k \in 0..Height : g[k] = F(g)[k]  BY <1>3, <2>2, <2>3 DEF IsChain
  <2> QED  BY <2>4
<1>5. Climb(t, n) = F(Climb(t, n))
  <2>1. Climb(t, n) = CHOOSE h : h = F(h)  BY DEF Climb
  <2> HIDE DEF F
  <2> QED  BY <2>1, <1>4
<1> DEFINE c == Climb(t, n)
<1> HIDE DEF c
<1>6. c = F(c)  BY <1>5 DEF c
<1>7. ASSUME NEW k \in 0..Height  PROVE c[k] \in X
  <2>1. CASE k = 0  BY <2>1, <1>6
  <2>2. CASE k # 0
    <3>1. c[k] = IF c[k-1] \in Items THEN t.parent[c[k-1]] ELSE Nil  BY <2>2, <1>6
    <3>2. \A x \in Items : t.parent[x] \in X  BY DEF Tree
    <3> QED  BY <3>1, <3>2
  <2> QED  BY <2>1, <2>2
<1>8. c \in [0..Height -> X]
  <2>1. c = [k \in 0..Height |-> c[k]]  BY <1>6
  <2> HIDE DEF X, F
  <2> QED  BY <2>1, <1>7
<1>9. c[0] = n /\ \A k \in 1..Height : c[k] = IF c[k-1] \in Items THEN t.parent[c[k-1]] ELSE Nil
  <2>1. 0 \in 0..Height /\ \A k \in 1..Height : k \in 0..Height /\ k # 0  BY HeightIsNat
  <2> QED  BY <2>1, <1>6
<1> QED  BY <1>8, <1>9 DEF c

\* What Levels computes: each step goes to the children.
LEMMA LevelSteps ==
    ASSUME NEW t \in Tree, NEW n \in Items \cup Parents
    PROVE  /\ Levels(t, n)[0] = {n}
           /\ \A k \in 1..Height :
                 /\ Levels(t, n)[k] = UNION {Elements(t.kids[p]) : p \in Levels(t, n)[k-1] \cap Parents}
                 /\ Levels(t, n)[k] \subseteq Items
<1> DEFINE X == SUBSET (Items \cup Parents)
           Next1(A) == UNION {Elements(t.kids[p]) : p \in A \cap Parents}
           f == [A \in X |-> Next1(A)]
           F(g) == [k \in 0..Height |-> IF k = 0 THEN {n} ELSE Next1(g[k-1])]
<1>1. \A A : Next1(A) \subseteq Items
  <2>1. \A p \in Parents : Elements(t.kids[p]) \subseteq Items
    <3> SUFFICES ASSUME NEW p \in Parents  PROVE Elements(t.kids[p]) \subseteq Items  OBVIOUS
    <3>1. t.kids[p] \in Seq(Items)  BY DEF Tree
    <3> QED  BY <3>1, ElementOfSeq DEF Elements
  <2> QED  BY <2>1
<1> HIDE DEF Next1
<1>2. f \in [X -> X] /\ {n} \in X  BY <1>1
<1> HIDE DEF f, X
<1>3. PICK g \in [0..Height -> X] : IsChain(g, f, {n}, Height)
  BY <1>2, HeightIsNat, ChainExists
<1> USE DEF f, X
<1>4. g = F(g)
  <2>1. \A k \in 1..Height : g[k-1] \in X  BY HeightIsNat
  <2>2. \A k \in 1..Height : g[k] = Next1(g[k-1])
    <3> HIDE DEF X
    <3> QED  BY <1>3, <2>1 DEF IsChain
  <2>3. \A k \in 0..Height : k = 0 \/ k \in 1..Height  BY HeightIsNat
  <2>4. \A k \in 0..Height : g[k] = F(g)[k]  BY <1>3, <2>2, <2>3 DEF IsChain
  <2> QED  BY <2>4
<1>5. Levels(t, n) = F(Levels(t, n))
  <2>1. Levels(t, n) = CHOOSE h : h = F(h)  BY DEF Levels, Next1
  <2> HIDE DEF F
  <2> QED  BY <2>1, <1>4
<1> DEFINE c == Levels(t, n)
<1> HIDE DEF c
<1>6. c = F(c)  BY <1>5 DEF c
<1>7. c[0] = {n}
  <2>1. 0 \in 0..Height  BY HeightIsNat
  <2> QED  BY <2>1, <1>6
<1>8. \A k \in 1..Height : c[k] = Next1(c[k-1]) /\ c[k] \subseteq Items
  <2>1. \A k \in 1..Height : k \in 0..Height /\ k # 0  BY HeightIsNat
  <2>2. \A k \in 1..Height : c[k] = Next1(c[k-1])  BY <1>6, <2>1
  <2> QED  BY <2>2, <1>1
<1> QED  BY <1>7, <1>8 DEF c, Next1

-----------------------------------------------------------------------------
(* The inductive invariant.                                                 *)

\* Parent pointers and child lists agree; no list holds a deleted layout.
Linked(t) ==
    /\ t \in Tree
    /\ \A p \in Parents : NoDuplicates(t.kids[p])
    /\ \A p \in Parents, n \in Items : (t.parent[n] = p) <=> (n \in Elements(t.kids[p]))
    /\ \A p \in Parents : t.kids[p] # <<>> => p \in t.live \cup Workspaces
    /\ \A l \in Layouts : t.parent[l] # Nil => l \in t.live

\* r grows from a layout to the layouts it holds.
Ranks(t, r) ==
    /\ r \in [Layouts -> Nat]
    /\ \A l \in Layouts : t.parent[l] \in Layouts => r[t.parent[l]] < r[l]

Acyclic(t) == \E r : Ranks(t, r)

\* A layout has something to lay out, and is not an inner node with one child.
Full(t, l) ==
    /\ t.kids[l] # <<>>
    /\ Len(t.kids[l]) = 1 => t.parent[l] \in Workspaces /\ Elements(t.kids[l]) \subseteq Windows

\* Every layout hangs somewhere, a workspace has one layout at most and no
\* window, and the layouts of S are full.
Shaped(t, S) ==
    /\ \A l \in t.live : t.parent[l] # Nil
    /\ \A ws \in Workspaces : Len(t.kids[ws]) <= 1 /\ Elements(t.kids[ws]) \subseteq Layouts
    /\ \A l \in S : Full(t, l)

TreeInv(t) == Linked(t) /\ Acyclic(t) /\ Shaped(t, t.live)

\* The children of a node are a sequence, which is empty when nothing is in it.
LEMMA KidsAreLists ==
    ASSUME NEW t \in Tree, NEW p \in Parents
    PROVE  /\ t.kids[p] \in Seq(Items) /\ Len(t.kids[p]) \in Nat
           /\ t.kids[p] = <<>> <=> Len(t.kids[p]) = 0
           /\ t.kids[p] = <<>> <=> Elements(t.kids[p]) = {}
           /\ \A i \in 1..Len(t.kids[p]) : /\ t.kids[p][i] \in Items
                                           /\ t.kids[p][i] \in Elements(t.kids[p])
<1>1. t.kids[p] \in Seq(Items)  BY DEF Tree
<1> DEFINE s == t.kids[p]
<1> HIDE DEF s
<1>2. s \in Seq(Items)  BY <1>1 DEF s
<1>3. Len(s) \in Nat /\ (s = <<>> <=> Len(s) = 0)  BY <1>2, LenProperties, EmptySeq
<1>4. \A i \in 1..Len(s) : s[i] \in Items /\ s[i] \in Elements(s)
  BY <1>2, ElementOfSeq DEF Elements
<1>5. s = <<>> <=> Elements(s) = {}
  <2>1. CASE s = <<>>  BY <2>1, <1>3 DEF Elements
  <2>2. CASE s # <<>>
    <3>1. 1 \in 1..Len(s)  BY <2>2, <1>3
    <3> QED  BY <3>1, <2>2, <1>4
  <2> QED  BY <2>1, <2>2
<1> QED  BY <1>2, <1>3, <1>4, <1>5 DEF s

\* A placed window is in a layout, a layout in a layout or a workspace.
LEMMA ParentKinds ==
    ASSUME NEW t, Linked(t), NEW S, Shaped(t, S), NEW n \in Items, t.parent[n] # Nil
    PROVE  /\ t.parent[n] \in t.live \cup Workspaces
           /\ n \in Elements(t.kids[t.parent[n]])
           /\ n \in Windows => t.parent[n] \in t.live
           /\ n \in Layouts => n \in t.live
<1>1. t.parent[n] \in Parents  BY DEF Linked, Tree
<1>2. n \in Elements(t.kids[t.parent[n]])  BY <1>1 DEF Linked
<1>3. t \in Tree  BY DEF Linked
<1>4. t.kids[t.parent[n]] # <<>>  BY <1>1, <1>2, <1>3, KidsAreLists
<1>5. t.parent[n] \in t.live \cup Workspaces  BY <1>1, <1>4 DEF Linked
<1>6. n \in Windows => t.parent[n] \notin Workspaces
  BY <1>2, KindsAssumption DEF Shaped
<1> QED  BY <1>2, <1>5, <1>6 DEF Linked

-----------------------------------------------------------------------------
(* Ancestors and what lies below.                                           *)

\* Only windows and layouts lie below a node.
LEMMA BelowIsItems ==
    ASSUME NEW t \in Tree, NEW n \in Items \cup Parents
    PROVE  Below(t, n) \subseteq Items
BY LevelSteps DEF Below

\* The chain of ancestors of a node goes on as that of its parent.
LEMMA ClimbShift ==
    ASSUME NEW t \in Tree, NEW n \in Items, t.parent[n] \in Items
    PROVE  \A k \in 0..Height - 1 : Climb(t, n)[k+1] = Climb(t, t.parent[n])[k]
<1> DEFINE c == Climb(t, n)
           d == Climb(t, t.parent[n])
           A == {k \in Nat : k <= Height - 1 => c[k+1] = d[k]}
<1>1. c[0] = n /\ \A k \in 1..Height : c[k] = IF c[k-1] \in Items THEN t.parent[c[k-1]] ELSE Nil
  BY ClimbSteps
<1>2. d[0] = t.parent[n]
      /\ \A k \in 1..Height : d[k] = IF d[k-1] \in Items THEN t.parent[d[k-1]] ELSE Nil
  BY ClimbSteps
<1> HIDE DEF c, d
<1>3. Height \in Nat /\ Height >= 1  BY HeightIsNat
<1>4. 0 \in A
  <2>1. 1 \in 1..Height /\ 1 - 1 = 0  BY <1>3
  <2>2. c[1] = t.parent[n]  BY <2>1, <1>1
  <2> QED  BY <2>2, <1>2
<1>5. ASSUME NEW k \in Nat, k \in A  PROVE k + 1 \in A
  <2> SUFFICES ASSUME k + 1 <= Height - 1  PROVE c[(k+1)+1] = d[k+1]  OBVIOUS
  <2>1. c[k+1] = d[k]  BY <1>3, <1>5
  <2>2. /\ (k+1)+1 \in 1..Height /\ ((k+1)+1) - 1 = k + 1
        /\ k+1 \in 1..Height /\ (k+1) - 1 = k
    BY <1>3
  <2>3. c[(k+1)+1] = IF c[k+1] \in Items THEN t.parent[c[k+1]] ELSE Nil  BY <1>1, <2>2
  <2>4. d[k+1] = IF d[k] \in Items THEN t.parent[d[k]] ELSE Nil  BY <1>2, <2>2
  <2> QED  BY <2>1, <2>3, <2>4
<1>6. Nat \subseteq A
  <2> HIDE DEF A
  <2> QED  BY <1>4, <1>5, EveryNumber
<1>7. \A k \in 0..Height - 1 : k \in Nat /\ k <= Height - 1  BY <1>3
<1> QED  BY <1>6, <1>7 DEF c, d

\* A node on the k-th level below another has that as its k-th ancestor.
LEMMA LevelIsClimb ==
    ASSUME NEW t, Linked(t), NEW q \in Parents, NEW k \in 1..Height,
           NEW n \in Items, n \in Levels(t, q)[k]
    PROVE  /\ t.parent[n] \in Parents /\ t.parent[n] \in Levels(t, q)[k-1]
           /\ Climb(t, n)[k] = q
<1> DEFINE lv == Levels(t, q)
           A == {j \in Nat : j + 1 <= Height =>
                    \A m \in Items : m \in lv[j+1] => Climb(t, m)[j+1] = q}
<1>1. t \in Tree  BY DEF Linked
<1>2. lv[0] = {q} /\ \A j \in 1..Height :
         lv[j] = UNION {Elements(t.kids[p]) : p \in lv[j-1] \cap Parents} /\ lv[j] \subseteq Items
  BY <1>1, LevelSteps DEF Parents
<1> HIDE DEF lv
<1>3. Height \in Nat /\ Height >= 1  BY HeightIsNat
<1>4. \A j \in 1..Height, m \in Items :
         m \in lv[j] => t.parent[m] \in Parents /\ t.parent[m] \in lv[j-1]
  <2> SUFFICES ASSUME NEW j \in 1..Height, NEW m \in Items, m \in lv[j]
               PROVE  t.parent[m] \in Parents /\ t.parent[m] \in lv[j-1]
    OBVIOUS
  <2>1. PICK p \in lv[j-1] \cap Parents : m \in Elements(t.kids[p])  BY <1>2
  <2> QED  BY <2>1 DEF Linked
<1>5. \A m \in Items : /\ Climb(t, m)[1] = t.parent[m]
                       /\ t.parent[m] \in Items =>
                            \A j \in 0..Height - 1 : Climb(t, m)[j+1] = Climb(t, t.parent[m])[j]
  <2> SUFFICES ASSUME NEW m \in Items
               PROVE  /\ Climb(t, m)[1] = t.parent[m]
                      /\ t.parent[m] \in Items =>
                           \A j \in 0..Height - 1 : Climb(t, m)[j+1] = Climb(t, t.parent[m])[j]
    OBVIOUS
  <2>1. 1 \in 1..Height /\ 1 - 1 = 0  BY <1>3
  <2>2. Climb(t, m)[1] = t.parent[m]  BY <1>1, <2>1, ClimbSteps
  <2> QED  BY <2>2, <1>1, ClimbShift
<1>6. 0 \in A
  <2> SUFFICES ASSUME NEW m \in Items, m \in lv[1]  PROVE Climb(t, m)[1] = q  OBVIOUS
  <2>1. 1 \in 1..Height /\ 1 - 1 = 0  BY <1>3
  <2>2. t.parent[m] \in lv[0]  BY <2>1, <1>4
  <2> QED  BY <2>2, <1>2, <1>5
<1>7. ASSUME NEW j \in Nat, j \in A  PROVE j + 1 \in A
  <2> SUFFICES ASSUME (j+1) + 1 <= Height, NEW m \in Items, m \in lv[(j+1)+1]
               PROVE  Climb(t, m)[(j+1)+1] = q
    OBVIOUS
  <2>1. /\ (j+1)+1 \in 1..Height /\ ((j+1)+1) - 1 = j + 1 /\ j + 1 \in 1..Height
        /\ j + 1 \in 0..Height - 1 /\ j + 1 <= Height
    BY <1>3
  <2>2. t.parent[m] \in lv[j+1]  BY <2>1, <1>4
  <2>3. t.parent[m] \in Items  BY <2>1, <2>2, <1>2
  <2>4. Climb(t, m)[(j+1)+1] = Climb(t, t.parent[m])[j+1]  BY <2>1, <2>3, <1>5
  <2>5. Climb(t, t.parent[m])[j+1] = q  BY <2>1, <2>2, <2>3, <1>7
  <2> QED  BY <2>4, <2>5
<1>8. Nat \subseteq A
  <2> HIDE DEF A
  <2> QED  BY <1>6, <1>7, EveryNumber
<1>9. k - 1 \in Nat /\ (k - 1) + 1 = k /\ k <= Height  BY <1>3
<1>10. Climb(t, n)[k] = q
  <2>1. k - 1 \in A  BY <1>8, <1>9
  <2> QED  BY <2>1, <1>9 DEF lv
<1> QED  BY <1>4, <1>10 DEF lv

\* Past the root there is nothing.
LEMMA ClimbEnds ==
    ASSUME NEW t \in Tree, NEW n \in Items, NEW j \in 0..Height, Climb(t, n)[j] \notin Items,
           NEW k \in 1..Height, j < k
    PROVE  Climb(t, n)[k] = Nil
<1> DEFINE c == Climb(t, n)
           A == {d \in Nat : j + d + 1 <= Height => c[j+d+1] = Nil}
<1>1. \A i \in 1..Height : c[i] = IF c[i-1] \in Items THEN t.parent[c[i-1]] ELSE Nil
  BY ClimbSteps
<1> HIDE DEF c
<1>2. Height \in Nat /\ j \in Nat  BY HeightIsNat
<1>3. 0 \in A
  <2> SUFFICES ASSUME j + 0 + 1 <= Height  PROVE c[j+0+1] = Nil  OBVIOUS
  <2>1. j+0+1 \in 1..Height /\ (j+0+1) - 1 = j  BY <1>2
  <2> QED  BY <2>1, <1>1 DEF c
<1>4. ASSUME NEW d \in Nat, d \in A  PROVE d + 1 \in A
  <2> SUFFICES ASSUME j + (d+1) + 1 <= Height  PROVE c[j+(d+1)+1] = Nil  OBVIOUS
  <2>1. /\ j+(d+1)+1 \in 1..Height /\ (j+(d+1)+1) - 1 = j+d+1 /\ j+d+1 <= Height
    BY <1>2
  <2>2. c[j+d+1] = Nil  BY <2>1, <1>4
  <2>3. Nil \notin Items  BY KindsAssumption DEF Items
  <2> QED  BY <2>1, <2>2, <2>3, <1>1
<1>5. Nat \subseteq A
  <2> HIDE DEF A
  <2> QED  BY <1>3, <1>4, EveryNumber
<1>6. k - j - 1 \in Nat /\ j + (k - j - 1) + 1 = k /\ k <= Height  BY <1>2
<1> QED  BY <1>5, <1>6 DEF c

\* The ranks fall along the layouts above a node.
LEMMA ClimbRanks ==
    ASSUME NEW t \in Tree, NEW r, Ranks(t, r), NEW n \in Items,
           NEW i \in 1..Height, NEW j \in 1..Height, i < j, Climb(t, n)[j] \in Layouts
    PROVE  Climb(t, n)[i] \in Layouts /\ r[Climb(t, n)[j]] < r[Climb(t, n)[i]]
<1> DEFINE c == Climb(t, n)
           Falls(a, b) == c[a] \in Layouts /\ r[c[b]] < r[c[a]]
           A == {d \in Nat : \A a \in 1..Height :
                    a + d + 1 <= Height /\ c[a+d+1] \in Layouts => Falls(a, a+d+1)}
<1>1. \A a \in 1..Height : c[a] = IF c[a-1] \in Items THEN t.parent[c[a-1]] ELSE Nil
  BY ClimbSteps
<1> HIDE DEF c
<1>2. Height \in Nat  BY HeightIsNat
<1>3. \A a \in 1..Height : c[a] \in Parents \cup {Nil}  BY <1>1 DEF Tree
<1>4. ASSUME NEW a \in 1..Height, a + 1 <= Height, c[a+1] \in Layouts
      PROVE  Falls(a, a+1)
  <2>1. a + 1 \in 1..Height /\ (a + 1) - 1 = a  BY <1>2, <1>4
  <2>2. Nil \notin Layouts  BY KindsAssumption
  <2>3. c[a] \in Items /\ c[a+1] = t.parent[c[a]]  BY <2>1, <2>2, <1>1, <1>4
  <2>4. c[a] \in Layouts  BY <2>3, <1>3, KindsAssumption DEF Items, Parents
  <2> QED  BY <2>3, <2>4, <1>4 DEF Ranks
<1>5. 0 \in A
  <2> SUFFICES ASSUME NEW a \in 1..Height, a + 0 + 1 <= Height, c[a+0+1] \in Layouts
               PROVE  Falls(a, a+0+1)
    OBVIOUS
  <2>1. a + 0 + 1 = a + 1  OBVIOUS
  <2> HIDE DEF Falls
  <2> QED  BY <2>1, <1>4
<1>6. ASSUME NEW d \in Nat, d \in A  PROVE d + 1 \in A
  <2> SUFFICES ASSUME NEW a \in 1..Height, a + (d+1) + 1 <= Height, c[a+(d+1)+1] \in Layouts
               PROVE  Falls(a, a+(d+1)+1)
    OBVIOUS
  <2>1. /\ a + 1 \in 1..Height /\ a + 1 <= Height
        /\ (a+1) + d + 1 = a+(d+1)+1 /\ (a+1) + d + 1 <= Height
    BY <1>2
  <2>2. Falls(a + 1, a+(d+1)+1)
    <3> HIDE DEF Falls
    <3> QED  BY <2>1, <1>6
  <2>3. Falls(a, a+1)  BY <2>1, <2>2, <1>4
  <2>4. c[a+(d+1)+1] \in Layouts /\ \A l \in Layouts : r[l] \in Int  BY DEF Ranks
  <2> QED  BY <2>2, <2>3, <2>4
<1>7. Nat \subseteq A
  <2> HIDE DEF A
  <2> QED  BY <1>5, <1>6, EveryNumber
<1>8. j - i - 1 \in Nat /\ i + (j - i - 1) + 1 = j /\ j <= Height  BY <1>2
<1>9. Falls(i, j)
  <2>1. j - i - 1 \in A  BY <1>7, <1>8
  <2> HIDE DEF Falls
  <2> QED  BY <2>1, <1>8 DEF c
<1> QED  BY <1>9 DEF c

\* No chain of Height layouts has its members all different.
LEMMA TooManyLayouts ==
    ASSUME NEW f \in [1..Height -> Layouts]
    PROVE  \E i, j \in 1..Height : i < j /\ f[i] = f[j]
<1>1. Height \in Nat /\ Cardinality(Layouts) \in Nat /\ Cardinality(Layouts) < Height
  BY HeightIsNat, PoolAssumption, FS_CardinalityType DEF Height
<1>2. IsFiniteSet(1..Height) /\ Cardinality(1..Height) = Height
  BY <1>1, FS_Interval, HeightIsNat
<1>3. IsFiniteSet(Layouts)  BY PoolAssumption
<1>4. Cardinality(Layouts) < Cardinality(1..Height)  BY <1>1, <1>2
<1>5. \E i, j \in 1..Height : i # j /\ f[i] = f[j]
  BY <1>2, <1>3, <1>4, FS_PigeonHole
<1> QED  BY <1>1, <1>5

\* What lies below a workspace hangs somewhere, and has the workspace above it.
LEMMA BelowIsAbove ==
    ASSUME NEW t, Linked(t), NEW ws \in Workspaces, NEW n \in Below(t, ws)
    PROVE  n \in Items /\ t.parent[n] # Nil /\ ws \in RootsOf(t, n)
<1>1. t \in Tree  BY DEF Linked
<1>2. n \in Items  BY <1>1, BelowIsItems DEF Parents
<1>3. PICK k \in 1..Height : n \in Levels(t, ws)[k]  BY DEF Below
<1>4. t.parent[n] \in Parents /\ Climb(t, n)[k] = ws  BY <1>2, <1>3, LevelIsClimb DEF Parents
<1>5. Nil \notin Parents /\ ws # Nil  BY KindsAssumption DEF Parents
<1> QED  BY <1>2, <1>4, <1>5 DEF RootsOf, Ancestors

\* A node with a workspace above it hangs somewhere, and the workspace is not empty.
LEMMA RootHolds ==
    ASSUME NEW t, Linked(t), NEW n \in Items, NEW ws \in RootsOf(t, n)
    PROVE  ws \in Workspaces /\ t.parent[n] # Nil /\ t.kids[ws] # <<>>
<1>1. t \in Tree  BY DEF Linked
<1>2. PICK k \in 1..Height : Climb(t, n)[k] = ws /\ ws \in Workspaces
  BY DEF RootsOf, Ancestors
<1>3. Height \in Nat /\ Height >= 1  BY HeightIsNat
<1>4. ws # Nil /\ Nil \notin Items  BY <1>2, KindsAssumption DEF Items
<1>5. Climb(t, n)[k-1] \in Items /\ t.parent[Climb(t, n)[k-1]] = ws
  BY <1>1, <1>2, <1>4, ClimbSteps
<1>6. Climb(t, n)[k-1] \in Elements(t.kids[ws])  BY <1>2, <1>5 DEF Linked, Parents
<1>7. t.kids[ws] # <<>>  BY <1>1, <1>2, <1>6, KidsAreLists DEF Parents
<1>8. t.parent[n] # Nil
  <2> SUFFICES ASSUME t.parent[n] = Nil  PROVE FALSE  OBVIOUS
  <2>1. 1 \in 1..Height /\ 1 - 1 = 0 /\ 1 \in 0..Height  BY <1>3
  <2>2. Climb(t, n)[1] = Nil  BY <1>1, <2>1, ClimbSteps
  <2>3. k = 1 \/ 1 < k  OBVIOUS
  <2>4. 1 < k => Climb(t, n)[k] = Nil  BY <1>1, <1>4, <2>1, <2>2, ClimbEnds
  <2> QED  BY <1>2, <1>4, <2>2, <2>3, <2>4
<1> QED  BY <1>2, <1>7, <1>8

\* A workspace that is not empty has a window somewhere below.
LEMMA WindowBelow ==
    ASSUME NEW t, TreeInv(t), NEW ws \in Workspaces, t.kids[ws] # <<>>
    PROVE  WindowsOf(t, ws) # {}
<1> SUFFICES ASSUME WindowsOf(t, ws) = {}  PROVE FALSE  OBVIOUS
<1> DEFINE lv == Levels(t, ws)
           A == {k \in Nat : k + 1 <= Height => lv[k+1] # {}}
<1>1. t \in Tree /\ ws \in Parents /\ Linked(t) /\ Shaped(t, t.live)
  BY DEF TreeInv, Linked, Parents
<1>2. lv[0] = {ws} /\ \A j \in 1..Height :
         lv[j] = UNION {Elements(t.kids[p]) : p \in lv[j-1] \cap Parents} /\ lv[j] \subseteq Items
  BY <1>1, LevelSteps
<1>3. Height \in Nat /\ Height >= 1  BY HeightIsNat
<1>4. ASSUME NEW k \in 1..Height  PROVE lv[k] \subseteq t.live
  <2> SUFFICES ASSUME NEW n \in lv[k]  PROVE n \in t.live  OBVIOUS
  <2>1. n \in Below(t, ws)  BY DEF Below
  <2>2. n \in Items /\ t.parent[n] # Nil  BY <1>1, <2>1, BelowIsAbove
  <2>3. n \notin Windows  BY <2>1 DEF WindowsOf
  <2>4. n \in Layouts  BY <2>2, <2>3 DEF Items
  <2> QED  BY <1>1, <2>2, <2>4 DEF Linked
<1> HIDE DEF lv
<1>5. 0 \in A
  <2>1. 1 \in 1..Height /\ 1 - 1 = 0 /\ 0 + 1 = 1  BY <1>3
  <2>2. Elements(t.kids[ws]) \subseteq lv[1]  BY <1>1, <1>2, <2>1
  <2>3. Elements(t.kids[ws]) # {}  BY <1>1, KidsAreLists
  <2> QED  BY <2>1, <2>2, <2>3
<1>6. ASSUME NEW k \in Nat, k \in A  PROVE k + 1 \in A
  <2> SUFFICES ASSUME (k+1) + 1 <= Height  PROVE lv[(k+1)+1] # {}  OBVIOUS
  <2>1. /\ k+1 \in 1..Height /\ (k+1)+1 \in 1..Height /\ ((k+1)+1) - 1 = k+1
        /\ k+1 <= Height
    BY <1>3
  <2>2. PICK l \in lv[k+1] : l \in t.live  BY <1>4, <1>6, <2>1
  <2>3. l \in Parents  BY <1>1, <2>2 DEF Tree, Parents
  <2>4. Elements(t.kids[l]) # {}  BY <1>1, <2>2, <2>3, KidsAreLists DEF Shaped, Full
  <2>5. Elements(t.kids[l]) \subseteq lv[(k+1)+1]  BY <1>2, <2>1, <2>2, <2>3
  <2> QED  BY <2>4, <2>5
<1>7. Nat \subseteq A
  <2> HIDE DEF A
  <2> QED  BY <1>5, <1>6, EveryNumber
<1>8. \A k \in 1..Height : lv[k] # {}
  <2> SUFFICES ASSUME NEW k \in 1..Height  PROVE lv[k] # {}  OBVIOUS
  <2>1. k - 1 \in Nat /\ (k - 1) + 1 = k /\ k <= Height  BY <1>3
  <2>2. k - 1 \in A  BY <1>7, <2>1
  <2> QED  BY <2>1, <2>2
<1> DEFINE f == [k \in 1..Height |-> CHOOSE n : n \in lv[k]]
<1>9. \A k \in 1..Height : f[k] \in lv[k]  BY <1>8
<1>10. f \in [1..Height -> Layouts]
  <2>1. t.live \subseteq Layouts  BY <1>1 DEF Tree
  <2> QED  BY <1>4, <1>9, <2>1
<1> HIDE DEF f
<1>11. PICK i, j \in 1..Height : i < j /\ f[i] = f[j]  BY <1>10, TooManyLayouts
<1>12. f[i] \in Items  BY <1>10 DEF Items
<1>13. Climb(t, f[i])[i] = ws /\ Climb(t, f[i])[j] = ws
  BY <1>1, <1>9, <1>11, <1>12, LevelIsClimb DEF lv
<1>14. ws \notin Items /\ ws # Nil  BY KindsAssumption DEF Items
<1>15. i \in 0..Height  BY <1>3
<1>16. Climb(t, f[i])[j] = Nil  BY <1>1, <1>11, <1>12, <1>13, <1>14, <1>15, ClimbEnds
<1> QED  BY <1>13, <1>14, <1>16

\* From every node that hangs somewhere the way up ends at one workspace.
LEMMA OneRoot ==
    ASSUME NEW t, TreeInv(t), NEW n \in Items, t.parent[n] # Nil
    PROVE  Cardinality(RootsOf(t, n)) = 1
<1> DEFINE c == Climb(t, n)
<1>1. t \in Tree /\ Linked(t) /\ Shaped(t, t.live)  BY DEF TreeInv, Linked
<1>2. PICK r : Ranks(t, r)  BY DEF TreeInv, Acyclic
<1>3. Height \in Nat /\ Height >= 1  BY HeightIsNat
<1>4. /\ c \in [0..Height -> Items \cup Parents \cup {Nil}]
      /\ c[0] = n
      /\ \A k \in 1..Height : c[k] = IF c[k-1] \in Items THEN t.parent[c[k-1]] ELSE Nil
  BY <1>1, ClimbSteps
<1>5. \A m \in Items : t.parent[m] # Nil => t.parent[m] \in t.live \cup Workspaces
  BY <1>1, ParentKinds
<1>6. t.live \subseteq Layouts /\ \A l \in t.live : t.parent[l] # Nil
  BY <1>1 DEF Tree, Shaped
<1> HIDE DEF c
<1>7. \E k \in 1..Height : c[k] \in Workspaces
  <2> SUFFICES ASSUME \A k \in 1..Height : c[k] \notin Workspaces  PROVE FALSE  OBVIOUS
  <2> DEFINE A == {k \in Nat : k + 1 <= Height => c[k+1] \in t.live}
  <2>1. 0 \in A
    <3>1. 1 \in 1..Height /\ 1 - 1 = 0 /\ 0 + 1 = 1  BY <1>3
    <3>2. c[1] = t.parent[n]  BY <3>1, <1>4
    <3>3. c[1] \in t.live  BY <3>1, <3>2, <1>5
    <3> QED  BY <3>1, <3>3
  <2>2. ASSUME NEW k \in Nat, k \in A  PROVE k + 1 \in A
    <3> SUFFICES ASSUME (k+1) + 1 <= Height  PROVE c[(k+1)+1] \in t.live  OBVIOUS
    <3>1. (k+1)+1 \in 1..Height /\ ((k+1)+1) - 1 = k+1 /\ k+1 <= Height  BY <1>3
    <3>2. c[k+1] \in t.live  BY <3>1, <2>2
    <3>3. c[k+1] \in Items /\ t.parent[c[k+1]] # Nil  BY <3>2, <1>6 DEF Items
    <3>4. c[(k+1)+1] = t.parent[c[k+1]]  BY <3>1, <3>3, <1>4
    <3> QED  BY <3>1, <3>3, <3>4, <1>5
  <2>3. Nat \subseteq A
    <3> HIDE DEF A
    <3> QED  BY <2>1, <2>2, EveryNumber
  <2>4. \A k \in 1..Height : c[k] \in Layouts
    <3> SUFFICES ASSUME NEW k \in 1..Height  PROVE c[k] \in Layouts  OBVIOUS
    <3>1. k - 1 \in Nat /\ (k - 1) + 1 = k /\ k <= Height  BY <1>3
    <3>2. k - 1 \in A  BY <2>3, <3>1
    <3> QED  BY <3>1, <3>2, <1>6
  <2> DEFINE f == [k \in 1..Height |-> c[k]]
  <2>5. PICK i, j \in 1..Height : i < j /\ f[i] = f[j]
    <3>1. f \in [1..Height -> Layouts]  BY <2>4
    <3> HIDE DEF f
    <3> QED  BY <3>1, TooManyLayouts
  <2>6. c[i] = c[j] /\ c[j] \in Layouts  BY <2>4, <2>5
  <2>7. r[c[j]] < r[c[i]]  BY <1>1, <1>2, <2>5, <2>6, ClimbRanks DEF c
  <2>8. r[c[j]] \in Int  BY <1>2, <2>6 DEF Ranks
  <2> QED  BY <2>6, <2>7, <2>8
<1>8. PICK k \in 1..Height : c[k] \in Workspaces  BY <1>7
<1>9. c[k] \notin Items /\ c[k] # Nil  BY <1>8, KindsAssumption DEF Items
<1>10. k \in 0..Height  BY <1>3
<1>11. ASSUME NEW j \in 1..Height, c[j] \in Workspaces  PROVE c[j] = c[k]
  <2>1. j \in 0..Height /\ c[j] \notin Items /\ c[j] # Nil
    BY <1>3, <1>11, KindsAssumption DEF Items
  <2>2. ~(k < j)  BY <1>1, <1>9, <1>10, <2>1, ClimbEnds DEF c
  <2>3. ~(j < k)  BY <1>1, <1>9, <1>10, <2>1, ClimbEnds DEF c
  <2> QED  BY <2>2, <2>3
<1>12. RootsOf(t, n) = {c[k]}
  BY <1>8, <1>9, <1>11 DEF RootsOf, Ancestors, c
<1> QED  BY <1>12, FS_Singleton

-----------------------------------------------------------------------------
(* What the surgery of node.h does to the links.                            *)

\* u is t but for its links and rectangles.
Rest(t, u) == u.type = t.type /\ u.live = t.live /\ u.mark = t.mark /\ u.normal = t.normal

\* u is t but for its rectangles.
Same(t, u) == u \in Tree /\ u.parent = t.parent /\ u.kids = t.kids /\ Rest(t, u)

\* A change of rectangles changes no link.
LEMMA TouchSame ==
    ASSUME NEW t \in Tree, NEW p \in Items \cup Parents
    PROVE  Same(t, Touch(t, p))
<1>1. Below(t, p) \subseteq Items  BY BelowIsItems
<1> QED  BY <1>1 DEF Same, Rest, Touch, Tree

\* update_rect changes no link.
LEMMA UpdateRectSame ==
    ASSUME NEW t \in Tree, NEW n
    PROVE  Same(t, UpdateRect(t, n))
<1> DEFINE D == Below(t, n) \cap (Layouts \cup t.normal)
           u == [t EXCEPT !.stale = @ \ D]
<1>1. UpdateRect(t, n) = IF n \in t.stale THEN t ELSE u  BY DEF UpdateRect
<1> HIDE DEF D
<1>2. Same(t, u) /\ Same(t, t)  BY DEF Same, Rest, Tree
<1> QED  BY <1>1, <1>2

\* The invariants do not look at the rectangles.
LEMMA SameKeeps ==
    ASSUME NEW t, NEW u, Same(t, u)
    PROVE  /\ Linked(t) => Linked(u)
           /\ Acyclic(t) => Acyclic(u)
           /\ \A S : Shaped(t, S) => Shaped(u, S)
           /\ TreeInv(t) => TreeInv(u)
BY DEF Same, Rest, Linked, Acyclic, Ranks, Shaped, Full, TreeInv

\* u is t without the link from p to n.
Removed(t, u, p, n) ==
    /\ Linked(u) /\ Rest(t, u)
    /\ u.parent = [t.parent EXCEPT ![n] = Nil]
    /\ \A q \in Parents : q # p => u.kids[q] = t.kids[q]
    /\ Elements(u.kids[p]) = Elements(t.kids[p]) \ {n}
    /\ Len(u.kids[p]) = Len(t.kids[p]) - 1

\* u is t with a link from p to n more.
Inserted(t, u, p, n) ==
    /\ Linked(u) /\ Rest(t, u)
    /\ u.parent = [t.parent EXCEPT ![n] = p]
    /\ \A q \in Parents : q # p => u.kids[q] = t.kids[q]
    /\ Elements(u.kids[p]) = Elements(t.kids[p]) \cup {n}
    /\ Len(u.kids[p]) = Len(t.kids[p]) + 1

\* u is t with n where m was, below p.
Replaced(t, u, p, m, n) ==
    /\ Linked(u) /\ Rest(t, u)
    /\ u.parent = [t.parent EXCEPT ![m] = Nil, ![n] = p]
    /\ \A q \in Parents : q # p => u.kids[q] = t.kids[q]
    /\ Elements(u.kids[p]) = (Elements(t.kids[p]) \ {m}) \cup {n}
    /\ Len(u.kids[p]) = Len(t.kids[p])

\* remove_child
LEMMA RemoveChildLinks ==
    ASSUME NEW t, Linked(t), NEW n \in Items, NEW p \in Parents, t.parent[n] = p
    PROVE  Removed(t, RemoveChild(t, p, n), p, n)
<1> DEFINE s == Erase(t.kids[p], n)
           v == [t EXCEPT !.parent[n] = Nil, !.kids[p] = Erase(@, n)]
           u == RemoveChild(t, p, n)
<1>1. t \in Tree /\ t.kids[p] \in Seq(Items) /\ NoDuplicates(t.kids[p]) /\ n \in Elements(t.kids[p])
  BY DEF Linked, Tree
<1>2. s \in Seq(Items) /\ Len(s) = Len(t.kids[p]) - 1  BY <1>1, EraseIsSeq
<1>3. NoDuplicates(s) /\ Elements(s) = Elements(t.kids[p]) \ {n}  BY <1>1, EraseElements
<1>4. v = [t EXCEPT !.parent[n] = Nil, !.kids[p] = s]  OBVIOUS
<1> HIDE DEF s
<1>5. /\ v \in Tree /\ Rest(t, v) /\ v.parent = [t.parent EXCEPT ![n] = Nil]
      /\ v.kids = [t.kids EXCEPT ![p] = s]
  <2> DEFINE a == [t.parent EXCEPT ![n] = Nil]
             b == [t.kids EXCEPT ![p] = s]
  <2>1. a \in [Items -> Parents \cup {Nil}]  BY <1>1 DEF Tree
  <2>2. b \in [Parents -> Seq(Items)]  BY <1>1, <1>2 DEF Tree
  <2>3. v = [t EXCEPT !.parent = a, !.kids = b]  BY <1>4
  <2> HIDE DEF a, b, v
  <2>4. v \in Tree  BY <1>1, <2>1, <2>2, <2>3 DEF Tree
  <2>5. Rest(t, v) /\ v.parent = a /\ v.kids = b  BY <1>1, <2>3 DEF Tree, Rest
  <2> QED  BY <2>4, <2>5 DEF a, b
<1> HIDE DEF v
<1>6. Same(v, u)
  <2>1. u = Touch(v, p)  BY DEF RemoveChild, v
  <2> QED  BY <2>1, <1>5, TouchSame
<1> HIDE DEF u
<1>7. /\ u \in Tree /\ Rest(t, u) /\ u.parent = [t.parent EXCEPT ![n] = Nil]
      /\ u.kids = [t.kids EXCEPT ![p] = s]
  BY <1>5, <1>6 DEF Same, Rest
<1>8. \A q \in Parents : u.kids[q] = IF q = p THEN s ELSE t.kids[q]  BY <1>1, <1>7 DEF Tree
<1>9. \A m \in Items : u.parent[m] = IF m = n THEN Nil ELSE t.parent[m]  BY <1>1, <1>7 DEF Tree
<1>10. Linked(u)
  <2>1. \A q \in Parents : NoDuplicates(u.kids[q])  BY <1>3, <1>8 DEF Linked
  <2>2. \A q \in Parents, m \in Items : (u.parent[m] = q) <=> (m \in Elements(u.kids[q]))
    <3> SUFFICES ASSUME NEW q \in Parents, NEW m \in Items
                 PROVE  (u.parent[m] = q) <=> (m \in Elements(u.kids[q]))
      OBVIOUS
    <3>1. (t.parent[m] = q) <=> (m \in Elements(t.kids[q]))  BY DEF Linked
    <3>2. q # Nil  BY KindsAssumption DEF Parents
    <3> QED  BY <3>1, <3>2, <1>3, <1>8, <1>9
  <2>3. t.kids[p] # <<>>  BY <1>1, KidsAreLists
  <2>4. \A q \in Parents : u.kids[q] # <<>> => q \in u.live \cup Workspaces
    BY <2>3, <1>7, <1>8 DEF Linked, Rest
  <2>5. \A l \in Layouts : u.parent[l] # Nil => l \in u.live
    BY <1>7, <1>9 DEF Linked, Rest, Items
  <2> QED  BY <2>1, <2>2, <2>4, <2>5, <1>7 DEF Linked
<1> QED  BY <1>2, <1>3, <1>7, <1>8, <1>10 DEF u, Removed

\* insert_child and add_child
LEMMA InsertChildLinks ==
    ASSUME NEW t, Linked(t), NEW p \in t.live \cup Workspaces, NEW i \in 1..Len(t.kids[p]) + 1,
           NEW n \in Windows \cup t.live, t.parent[n] = Nil
    PROVE  Inserted(t, InsertChild(t, p, i, n), p, n)
<1> DEFINE s == InsertAt(t.kids[p], i, n)
           v == [t EXCEPT !.parent[n] = p, !.kids[p] = InsertAt(@, i, n)]
           u == InsertChild(t, p, i, n)
<1>1. t \in Tree /\ p \in Parents /\ n \in Items  BY DEF Linked, Tree, Parents, Items
<1>2. p # Nil  BY <1>1, KindsAssumption DEF Parents
<1>3. t.kids[p] \in Seq(Items) /\ NoDuplicates(t.kids[p]) /\ n \notin Elements(t.kids[p])
  BY <1>1, <1>2 DEF Linked, Tree
<1>4. s \in Seq(Items) /\ Len(s) = Len(t.kids[p]) + 1  BY <1>1, <1>3, InsertIsSeq
<1>5. NoDuplicates(s) /\ Elements(s) = Elements(t.kids[p]) \cup {n}
  BY <1>1, <1>3, InsertElements
<1>6. v = [t EXCEPT !.parent[n] = p, !.kids[p] = s]  OBVIOUS
<1> HIDE DEF s
<1>7. /\ v \in Tree /\ Rest(t, v) /\ v.parent = [t.parent EXCEPT ![n] = p]
      /\ v.kids = [t.kids EXCEPT ![p] = s]
  <2> DEFINE a == [t.parent EXCEPT ![n] = p]
             b == [t.kids EXCEPT ![p] = s]
  <2>1. a \in [Items -> Parents \cup {Nil}]  BY <1>1 DEF Tree
  <2>2. b \in [Parents -> Seq(Items)]  BY <1>1, <1>4 DEF Tree
  <2>3. v = [t EXCEPT !.parent = a, !.kids = b]  BY <1>6
  <2> HIDE DEF a, b, v
  <2>4. v \in Tree  BY <1>1, <2>1, <2>2, <2>3 DEF Tree
  <2>5. Rest(t, v) /\ v.parent = a /\ v.kids = b  BY <1>1, <2>3 DEF Tree, Rest
  <2> QED  BY <2>4, <2>5 DEF a, b
<1> HIDE DEF v
<1>8. Same(v, u)
  <2>1. u = Touch(v, p)  BY DEF InsertChild, v
  <2> QED  BY <2>1, <1>1, <1>7, TouchSame
<1> HIDE DEF u
<1>9. /\ u \in Tree /\ Rest(t, u) /\ u.parent = [t.parent EXCEPT ![n] = p]
      /\ u.kids = [t.kids EXCEPT ![p] = s]
  BY <1>7, <1>8 DEF Same, Rest
<1>10. \A q \in Parents : u.kids[q] = IF q = p THEN s ELSE t.kids[q]  BY <1>1, <1>9 DEF Tree
<1>11. \A m \in Items : u.parent[m] = IF m = n THEN p ELSE t.parent[m]  BY <1>1, <1>9 DEF Tree
<1>12. Linked(u)
  <2>1. \A q \in Parents : NoDuplicates(u.kids[q])  BY <1>5, <1>10 DEF Linked
  <2>2. \A q \in Parents, m \in Items : (u.parent[m] = q) <=> (m \in Elements(u.kids[q]))
    <3> SUFFICES ASSUME NEW q \in Parents, NEW m \in Items
                 PROVE  (u.parent[m] = q) <=> (m \in Elements(u.kids[q]))
      OBVIOUS
    <3>1. (t.parent[m] = q) <=> (m \in Elements(t.kids[q]))  BY DEF Linked
    <3>2. q # Nil  BY KindsAssumption DEF Parents
    <3> QED  BY <3>1, <3>2, <1>5, <1>10, <1>11
  <2>3. \A q \in Parents : u.kids[q] # <<>> => q \in u.live \cup Workspaces
    BY <1>9, <1>10 DEF Linked, Rest
  <2>4. \A l \in Layouts : u.parent[l] # Nil => l \in u.live
    BY <1>9, <1>11, KindsAssumption DEF Linked, Rest, Items
  <2> QED  BY <2>1, <2>2, <2>3, <2>4, <1>9 DEF Linked
<1>13. /\ Elements(u.kids[p]) = Elements(t.kids[p]) \cup {n}
       /\ Len(u.kids[p]) = Len(t.kids[p]) + 1
  BY <1>1, <1>4, <1>5, <1>10
<1> QED  BY <1>9, <1>10, <1>12, <1>13 DEF u, Inserted

\* Putting a node in the place of another.
LEMMA ReplaceLinks ==
    ASSUME NEW t, Linked(t), NEW p \in Parents, NEW m \in Items, t.parent[m] = p,
           NEW n \in Windows \cup t.live, t.parent[n] = Nil
    PROVE  Replaced(t, Replace(t, p, m, n), p, m, n)
<1> DEFINE i == IndexOf(t, m)
           s == [t.kids[p] EXCEPT ![i] = n]
           f == [t.parent EXCEPT ![m] = Nil, ![n] = p]
           v == [t EXCEPT !.parent = [@ EXCEPT ![m] = Nil, ![n] = p],
                          !.kids[p] = [@ EXCEPT ![IndexOf(t, m)] = n]]
           u == Replace(t, p, m, n)
<1>1. t \in Tree /\ n \in Items /\ p # Nil
  BY KindsAssumption DEF Linked, Tree, Parents, Items
<1>2. /\ t.kids[p] \in Seq(Items) /\ NoDuplicates(t.kids[p])
      /\ n \notin Elements(t.kids[p]) /\ m \in Elements(t.kids[p]) /\ m # n
  BY <1>1 DEF Linked, Tree
<1>3. i \in 1..Len(t.kids[p]) /\ t.kids[p][i] = m  BY <1>2, PositionFound DEF IndexOf
<1>4. /\ s \in Seq(Items) /\ Len(s) = Len(t.kids[p]) /\ NoDuplicates(s)
      /\ Elements(s) = (Elements(t.kids[p]) \ {m}) \cup {n}
  <2> HIDE DEF i
  <2> QED  BY <1>1, <1>2, <1>3, AssignElements
<1>5. v = [t EXCEPT !.parent = f, !.kids[p] = s]  OBVIOUS
<1>12. f \in [Items -> Parents \cup {Nil}]  BY <1>1 DEF Tree
<1> HIDE DEF s, i, f, v
<1>6. /\ v \in Tree /\ Rest(t, v) /\ v.parent = f
      /\ v.kids = [t.kids EXCEPT ![p] = s]
  <2> DEFINE b == [t.kids EXCEPT ![p] = s]
  <2>1. b \in [Parents -> Seq(Items)]  BY <1>1, <1>4 DEF Tree
  <2>2. v = [t EXCEPT !.parent = f, !.kids = b]  BY <1>5
  <2> HIDE DEF b
  <2>3. v \in Tree  BY <1>1, <1>12, <2>1, <2>2 DEF Tree
  <2>4. Rest(t, v) /\ v.parent = f /\ v.kids = b  BY <1>1, <2>2 DEF Tree, Rest
  <2> QED  BY <2>3, <2>4 DEF b
<1>7. Same(v, u)
  <2>1. u = Touch(v, p)  BY DEF Replace, v
  <2> QED  BY <2>1, <1>6, TouchSame
<1> HIDE DEF u
<1>8. /\ u \in Tree /\ Rest(t, u) /\ u.parent = [t.parent EXCEPT ![m] = Nil, ![n] = p]
      /\ u.kids = [t.kids EXCEPT ![p] = s]
  BY <1>6, <1>7 DEF Same, Rest, f
<1>9. \A q \in Parents : u.kids[q] = IF q = p THEN s ELSE t.kids[q]  BY <1>1, <1>8 DEF Tree
<1>10. \A k \in Items : u.parent[k] = IF k = n THEN p ELSE IF k = m THEN Nil ELSE t.parent[k]
  BY <1>1, <1>8 DEF Tree
<1>11. Linked(u)
  <2>1. \A q \in Parents : NoDuplicates(u.kids[q])  BY <1>4, <1>9 DEF Linked
  <2>2. \A q \in Parents, k \in Items : (u.parent[k] = q) <=> (k \in Elements(u.kids[q]))
    <3> SUFFICES ASSUME NEW q \in Parents, NEW k \in Items
                 PROVE  (u.parent[k] = q) <=> (k \in Elements(u.kids[q]))
      OBVIOUS
    <3>1. (t.parent[k] = q) <=> (k \in Elements(t.kids[q]))  BY DEF Linked
    <3>2. q # Nil  BY KindsAssumption DEF Parents
    <3> QED  BY <3>1, <3>2, <1>2, <1>4, <1>9, <1>10
  <2>3. t.kids[p] # <<>>  BY <1>1, <1>2, KidsAreLists
  <2>4. \A q \in Parents : u.kids[q] # <<>> => q \in u.live \cup Workspaces
    BY <2>3, <1>8, <1>9 DEF Linked, Rest
  <2>5. \A l \in Layouts : u.parent[l] # Nil => l \in u.live
    BY <1>8, <1>10, KindsAssumption DEF Linked, Rest, Items
  <2> QED  BY <2>1, <2>2, <2>4, <2>5, <1>8 DEF Linked
<1> QED  BY <1>4, <1>8, <1>9, <1>11 DEF u, Replaced

\* new Layout
LEMMA NewLinks ==
    ASSUME NEW t, Linked(t), NEW l \in Layouts, l \notin t.live, NEW ty \in Types
    PROVE  LET u == New(t, l, ty)
           IN  /\ Linked(u) /\ u.parent = t.parent /\ u.kids = t.kids
               /\ u.live = t.live \cup {l} /\ u.mark = t.mark /\ u.normal = t.normal
               /\ t.parent[l] = Nil /\ t.kids[l] = <<>>
<1> DEFINE u == New(t, l, ty)
<1>1. t \in Tree  BY DEF Linked
<1>2. /\ u \in Tree /\ u.parent = t.parent /\ u.kids = t.kids
      /\ u.live = t.live \cup {l} /\ u.mark = t.mark /\ u.normal = t.normal
  BY <1>1 DEF New, Tree
<1> HIDE DEF u
<1>3. Linked(u)  BY <1>2 DEF Linked
<1>4. t.parent[l] = Nil /\ t.kids[l] = <<>>  BY KindsAssumption DEF Linked, Parents
<1> QED  BY <1>2, <1>3, <1>4 DEF u

\* delete layout, once it holds nothing and nothing holds it
LEMMA DeleteLinks ==
    ASSUME NEW t, Linked(t), NEW l \in Layouts, t.parent[l] = Nil, t.kids[l] = <<>>
    PROVE  LET u == Delete(t, l)
           IN  /\ Linked(u) /\ u.parent = t.parent /\ u.kids = t.kids
               /\ u.live = t.live \ {l} /\ u.mark = t.mark /\ u.normal = t.normal
<1> DEFINE u == Delete(t, l)
<1>1. t \in Tree  BY DEF Linked
<1>2. /\ u \in Tree /\ u.parent = t.parent /\ u.kids = t.kids
      /\ u.live = t.live \ {l} /\ u.mark = t.mark /\ u.normal = t.normal
  BY <1>1 DEF Delete, Tree, Types
<1> HIDE DEF u
<1>3. Linked(u)  BY <1>2 DEF Linked
<1> QED  BY <1>2, <1>3 DEF u

\* The type setter of a layout changes no link.
LEMMA SetTypeLinks ==
    ASSUME NEW t, Linked(t), NEW l \in Layouts, NEW ty \in Types
    PROVE  LET u == SetType(t, l, ty)
           IN  /\ Linked(u) /\ u.parent = t.parent /\ u.kids = t.kids
               /\ u.live = t.live /\ u.mark = t.mark /\ u.normal = t.normal
<1> DEFINE v == [t EXCEPT !.type[l] = ty]
           u == SetType(t, l, ty)
<1>1. t \in Tree  BY DEF Linked
<1>2. /\ v \in Tree /\ v.parent = t.parent /\ v.kids = t.kids
      /\ v.live = t.live /\ v.mark = t.mark /\ v.normal = t.normal
  BY <1>1 DEF Tree
<1>3. u = UpdateRect(Touch(v, l), l)  BY DEF SetType
<1> HIDE DEF u, v
<1>4. Same(v, Touch(v, l))  BY <1>2, TouchSame DEF Items
<1>5. Same(Touch(v, l), u)  BY <1>3, <1>4, UpdateRectSame DEF Same
<1>6. /\ u \in Tree /\ u.parent = t.parent /\ u.kids = t.kids
      /\ u.live = t.live /\ u.mark = t.mark /\ u.normal = t.normal
  BY <1>2, <1>4, <1>5 DEF Same, Rest
<1>7. Linked(u)  BY <1>6 DEF Linked
<1> QED  BY <1>6, <1>7 DEF u

\* shift_child_forward and shift_child_backward
LEMMA ShiftChildLinks ==
    ASSUME NEW t, Linked(t), NEW p \in Parents,
           NEW i \in 1..Len(t.kids[p]), NEW j \in 1..Len(t.kids[p])
    PROVE  LET u == ShiftChild(t, p, i, j)
           IN  /\ Linked(u) /\ Rest(t, u) /\ u.parent = t.parent
               /\ \A q \in Parents : /\ Elements(u.kids[q]) = Elements(t.kids[q])
                                     /\ Len(u.kids[q]) = Len(t.kids[q])
<1> DEFINE s == [t.kids[p] EXCEPT ![i] = t.kids[p][j], ![j] = t.kids[p][i]]
           v == [t EXCEPT !.kids[p] = [@ EXCEPT ![i] = t.kids[p][j], ![j] = t.kids[p][i]]]
           u == ShiftChild(t, p, i, j)
<1>1. t \in Tree /\ t.kids[p] \in Seq(Items) /\ NoDuplicates(t.kids[p])  BY DEF Linked, Tree
<1>2. /\ s \in Seq(Items) /\ Len(s) = Len(t.kids[p]) /\ NoDuplicates(s)
      /\ Elements(s) = Elements(t.kids[p])
  BY <1>1, SwapElements
<1>3. v = [t EXCEPT !.kids[p] = s]  OBVIOUS
<1> HIDE DEF s, v
<1>4. v \in Tree /\ Rest(t, v) /\ v.parent = t.parent /\ v.kids = [t.kids EXCEPT ![p] = s]
  BY <1>1, <1>2, <1>3 DEF Tree, Rest
<1>5. Same(v, u)
  <2>1. u = Touch(v, p)  BY DEF ShiftChild, v
  <2> QED  BY <2>1, <1>4, TouchSame
<1> HIDE DEF u
<1>6. u \in Tree /\ Rest(t, u) /\ u.parent = t.parent /\ u.kids = [t.kids EXCEPT ![p] = s]
  BY <1>4, <1>5 DEF Same, Rest
<1>7. \A q \in Parents : u.kids[q] = IF q = p THEN s ELSE t.kids[q]  BY <1>1, <1>6 DEF Tree
<1>8. \A q \in Parents : /\ Elements(u.kids[q]) = Elements(t.kids[q])
                         /\ Len(u.kids[q]) = Len(t.kids[q])
                         /\ NoDuplicates(u.kids[q])
                         /\ u.kids[q] # <<>> => t.kids[q] # <<>>
  <2>1. s # <<>> => t.kids[p] # <<>>  BY <1>1, <1>2, EmptySeq, LenProperties
  <2> QED  BY <2>1, <1>2, <1>7 DEF Linked
<1>9. Linked(u)  BY <1>6, <1>8 DEF Linked, Rest
<1> QED  BY <1>6, <1>8, <1>9 DEF u

\* Sets without a common element add up in number.
LEMMA DisjointUnion ==
    ASSUME NEW A, NEW B, IsFiniteSet(A), IsFiniteSet(B), A \cap B = {}
    PROVE  /\ IsFiniteSet(A \cup B)
           /\ Cardinality(A \cup B) = Cardinality(A) + Cardinality(B)
<1>1. Cardinality(A) \in Nat /\ Cardinality(B) \in Nat  BY FS_CardinalityType
<1>2. Cardinality(A \cap B) = 0  BY FS_EmptySet
<1>3. /\ IsFiniteSet(A \cup B)
      /\ Cardinality(A \cup B) = Cardinality(A) + Cardinality(B) - Cardinality(A \cap B)
  BY FS_Union
<1> QED  BY <1>1, <1>2, <1>3

\* While a window is out of the tree there is an address for a new layout:
\* every layout has a first child, every inner layout a second one too, and
\* all these children are different windows or inner layouts.
LEMMA FreshExists ==
    ASSUME NEW t, TreeInv(t), NEW w \in Windows, t.parent[w] = Nil
    PROVE  Fresh(t) \in Layouts /\ Fresh(t) \notin t.live
<1> DEFINE P      == Placed(t)
           Inner  == {l \in t.live : t.parent[l] \notin Workspaces}
           First  == {t.kids[l][1] : l \in t.live}
           Second == {t.kids[l][2] : l \in Inner}
<1>1. t \in Tree /\ Linked(t) /\ Shaped(t, t.live) /\ t.live \subseteq Layouts
  BY DEF TreeInv, Linked, Tree
<1>2. ASSUME NEW l \in t.live
      PROVE  /\ 1 \in 1..Len(t.kids[l])
             /\ l \in Inner => 2 \in 1..Len(t.kids[l])
  <2>1. l \in Parents  BY <1>1 DEF Parents
  <2>2. Full(t, l)  BY <1>1 DEF Shaped
  <2>3. Len(t.kids[l]) \in Nat /\ (t.kids[l] = <<>> <=> Len(t.kids[l]) = 0)
    BY <1>1, <2>1, KidsAreLists
  <2>4. Len(t.kids[l]) # 0  BY <2>2, <2>3 DEF Full
  <2>5. l \in Inner => Len(t.kids[l]) # 1  BY <2>2 DEF Full
  <2>6. Len(t.kids[l]) \in Nat  BY <2>3
  <2>7. 1 \in 1..Len(t.kids[l])  BY <2>4, <2>6
  <2>8. ASSUME l \in Inner  PROVE 2 \in 1..Len(t.kids[l])
    <3>1. Len(t.kids[l]) # 1  BY <2>5, <2>8
    <3>2. \A n \in Nat : n # 0 /\ n # 1 => 2 \in 1..n  OBVIOUS
    <3> QED  BY <3>1, <3>2, <2>4, <2>6
  <2> QED  BY <2>7, <2>8
<1>3. ASSUME NEW l \in t.live, NEW i \in 1..Len(t.kids[l])
      PROVE  t.kids[l][i] \in P \cup Inner /\ t.parent[t.kids[l][i]] = l
  <2>1. l \in Parents /\ l \in Layouts  BY <1>1 DEF Parents
  <2>2. t.kids[l][i] \in Items /\ t.kids[l][i] \in Elements(t.kids[l])
    BY <1>1, <2>1, KidsAreLists
  <2>3. t.parent[t.kids[l][i]] = l  BY <1>1, <2>1, <2>2 DEF Linked
  <2>4. l # Nil /\ l \notin Workspaces  BY <2>1, KindsAssumption
  <2>5. t.kids[l][i] \in Layouts => t.kids[l][i] \in t.live  BY <1>1, <2>3, <2>4 DEF Linked
  <2> QED  BY <2>2, <2>3, <2>4, <2>5 DEF Items, Placed
<1>4. ASSUME NEW l \in t.live, NEW i \in 1..Len(t.kids[l]),
             NEW k \in t.live, NEW j \in 1..Len(t.kids[k]), t.kids[l][i] = t.kids[k][j]
      PROVE  l = k /\ i = j
  <2>1. l = k  BY <1>3, <1>4
  <2>2. NoDuplicates(t.kids[l])  BY <1>1 DEF Linked, Parents
  <2> QED  BY <2>1, <2>2, <1>4 DEF NoDuplicates
<1>5. IsFiniteSet(t.live) /\ IsFiniteSet(Inner) /\ IsFiniteSet(P)
  <2>1. IsFiniteSet(t.live)  BY <1>1, PoolAssumption, FS_Subset
  <2>2. Inner \subseteq t.live /\ P \subseteq Windows  BY DEF Placed
  <2> QED  BY <2>1, <2>2, PoolAssumption, FS_Subset
<1>6. First \subseteq P \cup Inner /\ Second \subseteq P \cup Inner /\ First \cap Second = {}
  <2>1. First \subseteq P \cup Inner  BY <1>2, <1>3
  <2>2. Second \subseteq P \cup Inner  BY <1>2, <1>3
  <2>3. ASSUME NEW l \in t.live, NEW k \in Inner, t.kids[l][1] = t.kids[k][2]  PROVE FALSE
    BY <2>3, <1>2, <1>4
  <2> QED  BY <2>1, <2>2, <2>3
<1>7. IsFiniteSet(P \cup Inner) /\ Cardinality(P \cup Inner) = Cardinality(P) + Cardinality(Inner)
  <2>1. P \cap Inner = {}  BY <1>1, KindsAssumption DEF Placed
  <2> HIDE DEF P, Inner
  <2> QED  BY <2>1, <1>5, DisjointUnion
<1>8. /\ IsFiniteSet(First) /\ Cardinality(t.live) <= Cardinality(First)
      /\ IsFiniteSet(Second) /\ Cardinality(Inner) <= Cardinality(Second)
  <2> DEFINE f == [l \in t.live |-> t.kids[l][1]]
             g == [l \in Inner |-> t.kids[l][2]]
  <2>1. IsFiniteSet(First) /\ IsFiniteSet(Second)
    <3> HIDE DEF First, Second, P, Inner
    <3> QED  BY <1>6, <1>7, FS_Subset
  <2>2. f \in [t.live -> First] /\ \A l, k \in t.live : f[l] = f[k] => l = k
    BY <1>2, <1>4
  <2>3. g \in [Inner -> Second] /\ \A l, k \in Inner : g[l] = g[k] => l = k
    <3>1. \A l \in Inner : l \in t.live /\ 2 \in 1..Len(t.kids[l])  BY <1>2
    <3> QED  BY <3>1, <1>4
  <2> HIDE DEF f, g, First, Second, Inner
  <2>4. f \in Injection(t.live, First)  BY <2>2, Fun_IsInj
  <2>5. g \in Injection(Inner, Second)  BY <2>3, Fun_IsInj
  <2> QED  BY <2>1, <2>4, <2>5, FS_Injection
<1> HIDE DEF First, Second
<1>9. Cardinality(First) + Cardinality(Second) <= Cardinality(P) + Cardinality(Inner)
  <2>1. Cardinality(First) \in Nat /\ Cardinality(Second) \in Nat  BY <1>8, FS_CardinalityType
  <2>2. Cardinality(First \cup Second) = Cardinality(First) + Cardinality(Second)
    BY <1>6, <1>8, DisjointUnion
  <2>3. First \cup Second \subseteq P \cup Inner  BY <1>6
  <2>4. Cardinality(First \cup Second) <= Cardinality(P \cup Inner)
    BY <2>3, <1>7, FS_Subset
  <2> QED  BY <2>2, <2>4, <1>7
<1>10. Cardinality(P) < Cardinality(Windows)
  <2>1. P \subseteq Windows \ {w}  BY DEF Placed
  <2>2. IsFiniteSet(Windows) /\ Cardinality(Windows) \in Nat
    BY PoolAssumption, FS_CardinalityType
  <2>3. /\ IsFiniteSet(Windows \ {w})
        /\ Cardinality(Windows \ {w}) = Cardinality(Windows) - 1
    BY <2>2, FS_RemoveElement
  <2>4. Cardinality(P) <= Cardinality(Windows \ {w})
    <3> HIDE DEF P
    <3> QED  BY <2>1, <2>3, FS_Subset
  <2>5. Cardinality(P) \in Nat  BY <1>5, FS_CardinalityType
  <2> QED  BY <2>2, <2>3, <2>4, <2>5
<1>11. Cardinality(t.live) < Cardinality(Layouts)
  <2>1. /\ Cardinality(t.live) \in Nat /\ Cardinality(First) \in Nat
        /\ Cardinality(Second) \in Nat /\ Cardinality(Inner) \in Nat
        /\ Cardinality(P) \in Nat /\ Cardinality(Windows) \in Nat /\ Cardinality(Layouts) \in Nat
    BY <1>5, <1>8, PoolAssumption, FS_CardinalityType
  <2> HIDE DEF P, Inner
  <2> QED  BY <2>1, <1>8, <1>9, <1>10, PoolAssumption
<1>12. \E l \in Layouts : l \notin t.live
  <2> SUFFICES ASSUME t.live = Layouts  PROVE FALSE  BY <1>1
  <2>1. Cardinality(Layouts) \in Nat  BY PoolAssumption, FS_CardinalityType
  <2> QED  BY <2>1, <1>11
<1> QED  BY <1>12 DEF Fresh

-----------------------------------------------------------------------------
(* The workspace of every node.                                             *)

\* The workspace a child of p is on.
Up(h, p) == IF p \in Items THEN h[p] ELSE p

\* h gives every node its workspace, Nil to a node that hangs nowhere.
Housed(t, h) ==
    /\ h \in [Items -> Workspaces \cup {Nil}]
    /\ \A n \in Items : h[n] = Up(h, t.parent[n])

\* The nodes of u are where h has them, but for those of X.
HomeBut(u, h, X) == \E h2 : Housed(u, h2) /\ \A n \in Items \ X : h2[n] = h[n]

\* In u the window w is on x, and the other windows are where h has them.
Moved(u, h, w, x) ==
    \E h2 : Housed(u, h2) /\ h2[w] = x /\ \A v \in Windows \ {w} : h2[v] = h[v]

\* Rectangles say nothing of the workspace.
LEMMA SameHomes ==
    ASSUME NEW t, NEW u, u.parent = t.parent, NEW h
    PROVE  /\ Housed(t, h) => Housed(u, h)
           /\ \A X : HomeBut(t, h, X) => HomeBut(u, h, X)
           /\ \A w, x : Moved(t, h, w, x) => Moved(u, h, w, x)
BY DEF Housed, HomeBut, Moved

\* Only the window w has another parent.
LEMMA WindowHomes ==
    ASSUME NEW t \in Tree, NEW h, Housed(t, h), NEW u, NEW w \in Windows,
           NEW p \in Parents \cup {Nil},
           \A m \in Items : u.parent[m] = IF m = w THEN p ELSE t.parent[m]
    PROVE  Housed(u, [h EXCEPT ![w] = Up(h, p)])
<1> DEFINE h2 == [h EXCEPT ![w] = Up(h, p)]
<1>1. w \in Items /\ \A q \in Parents \cup {Nil} : q # w
  BY KindsAssumption DEF Items, Parents
<1>2. Up(h, p) \in Workspaces \cup {Nil}
  BY DEF Housed, Up, Parents, Items
<1>3. h2 \in [Items -> Workspaces \cup {Nil}]  BY <1>2 DEF Housed
<1>4. \A m \in Items : h2[m] = IF m = w THEN Up(h, p) ELSE h[m]  BY <1>1 DEF Housed
<1> HIDE DEF h2
<1>5. \A q \in Parents \cup {Nil} : Up(h2, q) = Up(h, q)  BY <1>1, <1>4 DEF Up
<1>6. ASSUME NEW m \in Items  PROVE h2[m] = Up(h2, u.parent[m])
  <2>1. t.parent[m] \in Parents \cup {Nil} /\ h[m] = Up(h, t.parent[m])  BY DEF Tree, Housed
  <2> QED  BY <2>1, <1>1, <1>4, <1>5
<1> QED  BY <1>3, <1>6 DEF Housed, h2

\* A window that is inserted is where its new parent is.
LEMMA InsertHomes ==
    ASSUME NEW t \in Tree, NEW h, Housed(t, h), NEW u, NEW w \in Windows, NEW p \in Parents,
           Inserted(t, u, p, w)
    PROVE  Housed(u, [h EXCEPT ![w] = Up(h, p)]) /\ Moved(u, h, w, Up(h, p))
<1>1. w \in Items  BY DEF Items
<1>2. \A m \in Items : u.parent[m] = IF m = w THEN p ELSE t.parent[m]
  BY <1>1 DEF Inserted, Tree
<1>3. Housed(u, [h EXCEPT ![w] = Up(h, p)])  BY <1>2, WindowHomes
<1>4. Windows \subseteq Items  BY DEF Items
<1> QED  BY <1>1, <1>3, <1>4 DEF Moved, Housed

\* The parent of a node hangs where the node does.
LEMMA ParentHome ==
    ASSUME NEW t, NEW h, Housed(t, h), NEW n \in Items, t.parent[n] \in Items
    PROVE  h[t.parent[n]] = h[n]
BY DEF Housed, Up

-----------------------------------------------------------------------------
(* The operations of window.cpp keep the tree a tree.                       *)

\* The one child of a node with one child.
LEMMA OnlyKid ==
    ASSUME NEW t \in Tree, NEW p \in Parents, Len(t.kids[p]) = 1
    PROVE  Elements(t.kids[p]) = {t.kids[p][1]} /\ t.kids[p][1] \in Items
<1>1. 1 \in 1..Len(t.kids[p]) /\ \A i \in 1..Len(t.kids[p]) : i = 1  OBVIOUS
<1> QED  BY <1>1, KidsAreLists DEF Elements

\* No layout is its own parent or grandparent.
LEMMA NoSelfParent ==
    ASSUME NEW t, Acyclic(t), NEW l \in Layouts, t.parent[l] \in Layouts
    PROVE  /\ t.parent[l] # l
           /\ t.parent[t.parent[l]] # l
<1>1. PICK r : Ranks(t, r)  BY DEF Acyclic
<1>2. \A k \in Layouts : r[k] \in Nat  BY <1>1 DEF Ranks
<1>3. r[t.parent[l]] < r[l]  BY <1>1 DEF Ranks
<1>4. t.parent[t.parent[l]] = l => r[l] < r[t.parent[l]]  BY <1>1 DEF Ranks
<1> QED  BY <1>2, <1>3, <1>4

\* _purge_sole_node: the layout p, the only one that need not be full, is
\* left as it is or gives its place to its only child.
LEMMA PurgeSoleKeeps ==
    ASSUME NEW t, Linked(t), Acyclic(t), NEW p \in t.live, Shaped(t, t.live \ {p}),
           t.kids[p] # <<>>
    PROVE  LET u == PurgeSoleNode(t, p)
           IN  /\ TreeInv(u) /\ u.mark = t.mark /\ u.normal = t.normal /\ u.live \subseteq t.live
               /\ \A n \in Windows : (u.parent[n] = Nil) <=> (t.parent[n] = Nil)
               /\ \A ws \in Workspaces : Len(u.kids[ws]) = Len(t.kids[ws])
               /\ \A h : Housed(t, h) => HomeBut(u, h, {p})
<1> DEFINE u == PurgeSoleNode(t, p)
<1>1. t \in Tree /\ p \in Layouts /\ p \in Parents /\ p \in Items
  BY DEF Linked, Tree, Parents, Items
<1>2. CASE ~IsSole(t, p)
  <2>1. u = t  BY <1>2 DEF PurgeSoleNode
  <2>2. Full(t, p)
    <3>1. ASSUME Len(t.kids[p]) = 1
          PROVE  t.parent[p] \in Workspaces /\ Elements(t.kids[p]) \subseteq Windows
      <4>1. Elements(t.kids[p]) = {t.kids[p][1]}  BY <1>1, <3>1, OnlyKid
      <4> QED  BY <4>1, <3>1, <1>2 DEF IsSole
    <3> QED  BY <3>1 DEF Full
  <2>3. Shaped(t, t.live)  BY <2>2 DEF Shaped
  <2>4. TreeInv(t)  BY <2>3 DEF TreeInv
  <2>5. \A h : Housed(t, h) => HomeBut(t, h, {p})  BY DEF HomeBut
  <2> QED  BY <2>1, <2>4, <2>5 DEF u
<1>3. CASE IsSole(t, p)
  <2> DEFINE g  == t.parent[p]
             c  == t.kids[p][1]
             v1 == RemoveChild(t, p, c)
             v2 == Replace(v1, g, p, c)
             v3 == Delete(v2, p)
  <2>1. u = UpdateRect(v3, g)  BY <1>3 DEF PurgeSoleNode
  <2>2. c \in Items /\ Elements(t.kids[p]) = {c} /\ Len(t.kids[p]) = 1
    BY <1>1, <1>3, OnlyKid DEF IsSole
  <2>3. c \in Windows => g \notin Workspaces  BY <1>3 DEF IsSole
  <2>4. g # Nil  BY DEF Shaped
  <2>5. g \in t.live \cup Workspaces /\ p \in Elements(t.kids[g])
    BY <1>1, <2>4, ParentKinds
  <2> HIDE DEF g, c, v1, v2, v3, u
  <2>6. t.parent[c] = p  BY <1>1, <2>2 DEF Linked
  <2>7. p # Nil /\ p \notin Workspaces /\ g \in Parents
    BY <1>1, <2>5, KindsAssumption DEF Tree, Parents
  <2>8. c \in Windows \cup t.live  BY <2>2, <2>6, <2>7 DEF Linked, Items
  <2>9. /\ c # p /\ g # p /\ c # g
    <3>1. c \in Windows => c # p /\ c # g
      BY <1>1, <2>7, KindsAssumption DEF Parents
    <3>2. c \in Layouts => c # p /\ c # g
      BY <1>1, <2>6, NoSelfParent DEF g
    <3>3. g \in Layouts => g # p  BY <1>1, NoSelfParent DEF g
    <3>4. g \in Workspaces => g # p  BY <2>7
    <3> QED  BY <3>1, <3>2, <3>3, <3>4, <2>2, <2>7 DEF Items, Parents
  <2>25. Removed(t, v1, p, c)  BY <1>1, <2>2, <2>6, RemoveChildLinks DEF v1
  <2>10. /\ Linked(v1) /\ Rest(t, v1) /\ v1.parent = [t.parent EXCEPT ![c] = Nil]
         /\ \A q \in Parents : q # p => v1.kids[q] = t.kids[q]
         /\ Elements(v1.kids[p]) = Elements(t.kids[p]) \ {c}
         /\ Len(v1.kids[p]) = Len(t.kids[p]) - 1
    BY <2>25 DEF Removed
  <2>11. v1.parent[p] = g /\ v1.parent[c] = Nil /\ v1.live = t.live
    BY <1>1, <2>2, <2>9, <2>10 DEF Tree, Rest, g
  <2>26. Replaced(v1, v2, g, p, c)
    BY <1>1, <2>7, <2>8, <2>10, <2>11, ReplaceLinks DEF v2
  <2>12. /\ Linked(v2) /\ Rest(v1, v2)
         /\ v2.parent = [v1.parent EXCEPT ![p] = Nil, ![c] = g]
         /\ \A q \in Parents : q # g => v2.kids[q] = v1.kids[q]
         /\ Elements(v2.kids[g]) = (Elements(v1.kids[g]) \ {p}) \cup {c}
         /\ Len(v2.kids[g]) = Len(v1.kids[g])
    BY <2>26 DEF Replaced
  <2>13. v2.parent[p] = Nil /\ v2.kids[p] = <<>>
    <3>1. v1.parent \in [Items -> Parents \cup {Nil}] /\ v1 \in Tree
      BY <2>10 DEF Linked, Tree
    <3>2. v2.parent[p] = Nil  BY <1>1, <2>2, <2>9, <2>12, <3>1
    <3>3. Elements(v1.kids[p]) = {}  BY <2>2, <2>10
    <3>4. v1.kids[p] = <<>>  BY <1>1, <3>1, <3>3, KidsAreLists
    <3> QED  BY <1>1, <2>9, <2>12, <3>2, <3>4
  <2>14. /\ Linked(v3) /\ v3.parent = v2.parent /\ v3.kids = v2.kids
         /\ v3.live = v2.live \ {p} /\ v3.mark = v2.mark /\ v3.normal = v2.normal
    BY <1>1, <2>12, <2>13, DeleteLinks DEF v3
  <2>15. Same(v3, u)  BY <2>1, <2>14, UpdateRectSame DEF Linked
  <2>16. /\ Linked(u) /\ u.mark = t.mark /\ u.normal = t.normal /\ u.live = t.live \ {p}
    BY <2>10, <2>12, <2>14, <2>15, SameKeeps DEF Same, Rest
  <2>17. \A m \in Items : u.parent[m] = IF m = p THEN Nil ELSE IF m = c THEN g ELSE t.parent[m]
    BY <1>1, <2>2, <2>9, <2>10, <2>12, <2>14, <2>15 DEF Same, Linked, Tree
  <2>18. \A q \in Parents : q # p /\ q # g => u.kids[q] = t.kids[q]
    BY <2>10, <2>12, <2>14, <2>15 DEF Same
  <2>19. /\ Elements(u.kids[g]) = (Elements(t.kids[g]) \ {p}) \cup {c}
         /\ Len(u.kids[g]) = Len(t.kids[g])
    BY <2>7, <2>9, <2>10, <2>12, <2>14, <2>15 DEF Same
  <2>20. Acyclic(u)
    <3>1. PICK r : Ranks(t, r)  BY DEF Acyclic
    <3>2. \A k \in Layouts : r[k] \in Nat  BY <3>1 DEF Ranks
    <3>3. ASSUME NEW l \in Layouts, u.parent[l] \in Layouts  PROVE r[u.parent[l]] < r[l]
      <4>1. l \in Items /\ l # p  BY <1>1, <2>17, <3>3, KindsAssumption DEF Items
      <4>2. CASE l = c
        <5>1. u.parent[l] = g  BY <4>1, <4>2, <2>17
        <5>2. r[g] < r[p]  BY <5>1, <3>1, <3>3, <1>1 DEF Ranks, g
        <5>3. r[p] < r[c]  BY <4>2, <2>6, <3>1, <1>1 DEF Ranks
        <5> QED  BY <5>1, <5>2, <5>3, <4>2, <3>2, <3>3, <1>1
      <4>3. CASE l # c
        <5>1. u.parent[l] = t.parent[l]  BY <4>1, <4>3, <2>17
        <5> QED  BY <5>1, <3>1, <3>3 DEF Ranks
      <4> QED  BY <4>2, <4>3
    <3>4. Ranks(u, r)  BY <3>1, <3>3 DEF Ranks
    <3> QED  BY <3>4 DEF Acyclic
  <2>21. Shaped(u, u.live)
    <3>1. ASSUME NEW l \in u.live  PROVE u.parent[l] # Nil
      <4>1. l \in Items /\ l # p /\ t.parent[l] # Nil
        BY <1>1, <2>16 DEF Shaped, Tree, Items
      <4> QED  BY <4>1, <2>17, <2>4
    <3>2. ASSUME NEW ws \in Workspaces
          PROVE  Len(u.kids[ws]) <= 1 /\ Elements(u.kids[ws]) \subseteq Layouts
      <4>1. ws \in Parents /\ ws # p  BY <2>7 DEF Parents
      <4>2. Len(t.kids[ws]) <= 1 /\ Elements(t.kids[ws]) \subseteq Layouts  BY DEF Shaped
      <4>3. CASE ws = g
        <5>1. c \in Layouts  BY <4>3, <2>2, <2>3 DEF Items
        <5> QED  BY <5>1, <4>2, <4>3, <2>19
      <4>4. CASE ws # g  BY <4>1, <4>2, <4>4, <2>18
      <4> QED  BY <4>3, <4>4
    <3>3. ASSUME NEW l \in u.live  PROVE Full(u, l)
      <4>1. l \in t.live /\ l # p /\ l \in Parents /\ l \in Items /\ l \in Layouts
        BY <1>1, <2>16 DEF Tree, Parents, Items
      <4>2. Full(t, l)  BY <4>1 DEF Shaped
      <4>3. CASE l = g
        <5>1. p \notin Windows  BY <1>1, KindsAssumption
        <5>2. Len(t.kids[l]) # 1  BY <4>2, <4>3, <5>1, <2>5 DEF Full
        <5>3. Len(u.kids[l]) # 1 /\ Len(u.kids[l]) # 0
          BY <1>1, <4>1, <4>2, <4>3, <5>2, <2>19, KidsAreLists DEF Full
        <5>4. u.kids[l] # <<>>  BY <5>3, <4>1, <2>16, KidsAreLists DEF Linked
        <5> QED  BY <5>3, <5>4 DEF Full
      <4>4. CASE l # g
        <5>1. u.kids[l] = t.kids[l]  BY <4>1, <4>4, <2>18
        <5>2. CASE l = c
          <6>1. Len(t.kids[l]) # 1  BY <5>2, <4>2, <2>6, <2>7 DEF Full
          <6> QED  BY <6>1, <5>1, <4>2 DEF Full
        <5>3. CASE l # c
          <6>1. u.parent[l] = t.parent[l]  BY <4>1, <5>3, <2>17
          <6> QED  BY <6>1, <5>1, <4>2 DEF Full
        <5> QED  BY <5>2, <5>3
      <4> QED  BY <4>3, <4>4
    <3> QED  BY <3>1, <3>2, <3>3 DEF Shaped
  <2>22. \A n \in Windows : (u.parent[n] = Nil) <=> (t.parent[n] = Nil)
    <3> SUFFICES ASSUME NEW n \in Windows  PROVE (u.parent[n] = Nil) <=> (t.parent[n] = Nil)
      OBVIOUS
    <3>1. n \in Items /\ n # p  BY <1>1, KindsAssumption DEF Items
    <3> QED  BY <3>1, <2>17, <2>4, <2>6, <2>7
  <2>23. \A ws \in Workspaces : Len(u.kids[ws]) = Len(t.kids[ws])
    BY <2>7, <2>18, <2>19 DEF Parents
  <2>24. TreeInv(u)  BY <2>16, <2>20, <2>21 DEF TreeInv
  <2>27. ASSUME NEW h, Housed(t, h)  PROVE HomeBut(u, h, {p})
    <3> DEFINE h2 == [h EXCEPT ![p] = Nil]
    <3>1. h2 \in [Items -> Workspaces \cup {Nil}]  BY <2>27 DEF Housed
    <3>2. \A m \in Items : h2[m] = IF m = p THEN Nil ELSE h[m]  BY <2>27, <1>1 DEF Housed
    <3> HIDE DEF h2
    <3>3. \A q : q # p => Up(h2, q) = Up(h, q)  BY <3>2 DEF Up
    <3>4. ASSUME NEW m \in Items  PROVE h2[m] = Up(h2, u.parent[m])
      <4>1. CASE m = p
        <5>1. u.parent[m] = Nil /\ Nil \notin Items  BY <4>1, <2>17, KindsAssumption DEF Items
        <5> QED  BY <5>1, <4>1, <3>2 DEF Up
      <4>2. CASE m = c
        <5>1. u.parent[m] = g /\ h2[m] = h[m]  BY <4>2, <2>9, <2>17, <3>2
        <5>2. h[c] = h[p] /\ h[p] = Up(h, g)
          BY <1>1, <2>2, <2>6, <2>27 DEF Housed, Up, g
        <5> QED  BY <5>1, <5>2, <4>2, <3>3, <2>9
      <4>3. CASE m # p /\ m # c
        <5>1. u.parent[m] = t.parent[m] /\ h2[m] = h[m]  BY <4>3, <2>17, <3>2
        <5>2. t.parent[m] # p  BY <4>3, <1>1, <2>2 DEF Linked
        <5> QED  BY <5>1, <5>2, <3>3, <2>27 DEF Housed
      <4> QED  BY <4>1, <4>2, <4>3
    <3>5. Housed(u, h2)  BY <3>1, <3>4 DEF Housed
    <3> QED  BY <3>2, <3>5 DEF HomeBut
  <2> QED  BY <2>16, <2>22, <2>23, <2>24, <2>27 DEF u
<1> QED  BY <1>2, <1>3

\* A window joins the layout p, which is full then; those of X need not be.
LEMMA InsertWindowShape ==
    ASSUME NEW t, Linked(t), Acyclic(t), NEW X, NEW p \in t.live, Shaped(t, t.live \ (X \cup {p})),
           t.kids[p] # <<>>, NEW w \in Windows, t.parent[w] = Nil,
           NEW i \in 1..Len(t.kids[p]) + 1
    PROVE  LET u == InsertChild(t, p, i, w)
           IN  /\ Linked(u) /\ Acyclic(u) /\ Shaped(u, u.live \ X) /\ Inserted(t, u, p, w)
<1> DEFINE u == InsertChild(t, p, i, w)
<1>1. t \in Tree /\ p \in Layouts /\ p \in Parents /\ w \in Items /\ p \notin Workspaces
  BY KindsAssumption DEF Linked, Tree, Parents, Items
<1>2. Inserted(t, u, p, w)  BY InsertChildLinks
<1> HIDE DEF u
<1>3. u.live = t.live /\ Linked(u)  BY <1>2 DEF Inserted, Rest
<1>4. \A m \in Items : u.parent[m] = IF m = w THEN p ELSE t.parent[m]
  BY <1>1, <1>2 DEF Inserted, Tree
<1>5. \A l \in Layouts : l \in Items /\ l # w  BY KindsAssumption DEF Items
<1>6. Acyclic(u)  BY <1>4, <1>5 DEF Acyclic, Ranks
<1>7. Shaped(u, u.live \ X)
  <2>1. \A l \in u.live : u.parent[l] # Nil  BY <1>1, <1>3, <1>4, <1>5 DEF Shaped, Tree
  <2>2. \A ws \in Workspaces : Len(u.kids[ws]) <= 1 /\ Elements(u.kids[ws]) \subseteq Layouts
    <3>1. \A ws \in Workspaces : u.kids[ws] = t.kids[ws]
      BY <1>1, <1>2 DEF Inserted, Parents
    <3> QED  BY <3>1 DEF Shaped
  <2>3. ASSUME NEW l \in u.live \ X  PROVE Full(u, l)
    <3>1. l \in t.live \ X /\ l \in Layouts /\ l \in Parents  BY <1>1, <1>3 DEF Tree, Parents
    <3>2. CASE l = p
      <4>1. Len(t.kids[p]) \in Nat /\ Len(t.kids[p]) # 0  BY <1>1, KidsAreLists
      <4>2. Len(u.kids[p]) = Len(t.kids[p]) + 1  BY <1>2 DEF Inserted
      <4>3. Len(u.kids[p]) # 1 /\ Len(u.kids[p]) # 0  BY <4>1, <4>2
      <4>4. u.kids[p] # <<>>  BY <4>3, <1>1, <1>3, KidsAreLists DEF Linked
      <4> QED  BY <4>3, <4>4, <3>2 DEF Full
    <3>3. CASE l # p
      <4>1. u.kids[l] = t.kids[l] /\ u.parent[l] = t.parent[l]
        BY <3>1, <3>3, <1>2, <1>4, <1>5 DEF Inserted
      <4>2. Full(t, l)  BY <3>1, <3>3 DEF Shaped
      <4> QED  BY <4>1, <4>2 DEF Full
    <3> QED  BY <3>2, <3>3
  <2> QED  BY <2>1, <2>2, <2>3 DEF Shaped
<1> QED  BY <1>2, <1>3, <1>6, <1>7 DEF u

\* A window joins the layout p, the only one that need not have been full.
LEMMA InsertWindowKeeps ==
    ASSUME NEW t, Linked(t), Acyclic(t), NEW p \in t.live, Shaped(t, t.live \ {p}),
           t.kids[p] # <<>>, NEW w \in Windows, t.parent[w] = Nil,
           NEW i \in 1..Len(t.kids[p]) + 1
    PROVE  LET u == InsertChild(t, p, i, w)
           IN  TreeInv(u) /\ Inserted(t, u, p, w)
<1> DEFINE u == InsertChild(t, p, i, w)
<1>1. t.live \ ({} \cup {p}) = t.live \ {p} /\ u.live \ {} = u.live  OBVIOUS
<1>2. Linked(u) /\ Acyclic(u) /\ Shaped(u, u.live \ {}) /\ Inserted(t, u, p, w)
  BY <1>1, InsertWindowShape
<1> QED  BY <1>1, <1>2 DEF TreeInv

\* The tree without the window w: only its layout may be less than full.
LEMMA RemoveWindowShape ==
    ASSUME NEW t, TreeInv(t), NEW w \in Windows, t.parent[w] # Nil
    PROVE  LET p == t.parent[w]
               u == RemoveChild(t, p, w)
           IN  /\ p \in t.live /\ Removed(t, u, p, w) /\ u.live = t.live
               /\ Linked(u) /\ Acyclic(u) /\ Shaped(u, u.live \ {p})
               /\ \A m \in Items : u.parent[m] = IF m = w THEN Nil ELSE t.parent[m]
               /\ \A ws \in Workspaces : u.kids[ws] = t.kids[ws]
<1> DEFINE p == t.parent[w]
           u == RemoveChild(t, p, w)
<1>1. t \in Tree /\ Linked(t) /\ Shaped(t, t.live) /\ w \in Items
  BY DEF TreeInv, Linked, Items
<1>2. p \in t.live  BY <1>1, ParentKinds
<1> HIDE DEF p, u
<1>3. p \in Layouts /\ p \in Parents /\ p \notin Workspaces
  BY <1>1, <1>2, KindsAssumption DEF Tree, Parents
<1>4. Removed(t, u, p, w)  BY <1>1, <1>3, RemoveChildLinks DEF u, p
<1>5. u.live = t.live /\ Linked(u)  BY <1>4 DEF Removed, Rest
<1>6. \A m \in Items : u.parent[m] = IF m = w THEN Nil ELSE t.parent[m]
  BY <1>1, <1>4 DEF Removed, Tree
<1>7. \A l \in Layouts : l \in Items /\ l # w  BY KindsAssumption DEF Items
<1>8. Acyclic(u)
  <2>1. Acyclic(t)  BY DEF TreeInv
  <2> QED  BY <2>1, <1>6, <1>7 DEF Acyclic, Ranks
<1>9. \A ws \in Workspaces : u.kids[ws] = t.kids[ws]  BY <1>3, <1>4 DEF Removed, Parents
<1>10. Shaped(u, u.live \ {p})
  <2>1. \A l \in u.live : u.parent[l] # Nil  BY <1>1, <1>5, <1>6, <1>7 DEF Shaped, Tree
  <2>2. ASSUME NEW l \in u.live \ {p}  PROVE Full(u, l)
    <3>1. l \in t.live /\ l \in Layouts /\ l \in Parents  BY <1>1, <1>5 DEF Tree, Parents
    <3>2. u.kids[l] = t.kids[l] /\ u.parent[l] = t.parent[l]
      BY <3>1, <1>4, <1>6, <1>7 DEF Removed
    <3>3. Full(t, l)  BY <3>1, <1>1 DEF Shaped
    <3> QED  BY <3>2, <3>3 DEF Full
  <2> QED  BY <2>1, <2>2, <1>1, <1>9 DEF Shaped
<1> QED  BY <1>2, <1>4, <1>5, <1>6, <1>8, <1>9, <1>10 DEF u, p

\* _purge_and_reconfigure takes the window out of the tree, with the layout it
\* was alone in or the layout that has one child left.
LEMMA PurgeKeeps ==
    ASSUME NEW t, TreeInv(t), NEW w \in Windows, t.parent[w] # Nil
    PROVE  LET u == PurgeAndReconfigure(t, w)
           IN  /\ TreeInv(u) /\ u.mark = t.mark /\ u.normal = t.normal
               /\ \A v \in Windows : (u.parent[v] = Nil) <=> (v = w \/ t.parent[v] = Nil)
               /\ \A ws \in Workspaces : t.kids[ws] = <<>> => u.kids[ws] = <<>>
               /\ \A ws \in Workspaces :
                     t.kids[ws] # <<>> /\ Len(t.kids[TilingLayout(t, ws)]) # 1
                        => u.kids[ws] # <<>>
               /\ \A h : Housed(t, h) => Moved(u, h, w, Nil)
<1> DEFINE p  == t.parent[w]
           g  == t.parent[p]
           t1 == RemoveChild(t, p, w)
           u  == PurgeAndReconfigure(t, w)
<1>1. t \in Tree /\ Linked(t) /\ Shaped(t, t.live) /\ w \in Items
  BY DEF TreeInv, Linked, Items
<1>2. /\ p \in t.live /\ Removed(t, t1, p, w) /\ t1.live = t.live
      /\ Linked(t1) /\ Acyclic(t1) /\ Shaped(t1, t1.live \ {p})
      /\ \A m \in Items : t1.parent[m] = IF m = w THEN Nil ELSE t.parent[m]
      /\ \A ws \in Workspaces : t1.kids[ws] = t.kids[ws]
  BY RemoveWindowShape
<1>3. u = IF t1.kids[p] = <<>> THEN UpdateRect(Delete(RemoveChild(t1, g, p), p), g)
          ELSE IF IsSole(t1, p) THEN PurgeSoleNode(t1, p)
          ELSE UpdateRect(t1, p)
  BY DEF PurgeAndReconfigure
<1> HIDE DEF p, t1, u
<1>4. /\ p \in Layouts /\ p \in Parents /\ p \in Items /\ p \notin Windows
      /\ p \notin Workspaces /\ p # w /\ t1 \in Tree
  BY <1>1, <1>2, KindsAssumption DEF Tree, Parents, Items, Linked
<1>5. t1.mark = t.mark /\ t1.normal = t.normal  BY <1>2 DEF Removed, Rest
<1>6. ASSUME t1.kids[p] # <<>>
      PROVE  /\ TreeInv(u) /\ u.mark = t1.mark /\ u.normal = t1.normal
             /\ \A n \in Windows : (u.parent[n] = Nil) <=> (t1.parent[n] = Nil)
             /\ \A ws \in Workspaces : Len(u.kids[ws]) = Len(t1.kids[ws])
             /\ \A h : Housed(t1, h) => HomeBut(u, h, {p})
  <2> DEFINE v == PurgeSoleNode(t1, p)
  <2>1. /\ TreeInv(v) /\ v.mark = t1.mark /\ v.normal = t1.normal /\ v.live \subseteq t1.live
        /\ \A n \in Windows : (v.parent[n] = Nil) <=> (t1.parent[n] = Nil)
        /\ \A ws \in Workspaces : Len(v.kids[ws]) = Len(t1.kids[ws])
        /\ \A h : Housed(t1, h) => HomeBut(v, h, {p})
    BY <1>2, <1>6, PurgeSoleKeeps
  <2>2. u = v \/ u = UpdateRect(v, p)
    BY <1>3, <1>6 DEF PurgeSoleNode
  <2> HIDE DEF v
  <2>3. v \in Tree  BY <2>1 DEF TreeInv, Linked
  <2>4. Same(v, UpdateRect(v, p))  BY <2>3, UpdateRectSame
  <2>5. TreeInv(UpdateRect(v, p))  BY <2>1, <2>4, SameKeeps
  <2>6. \A h : HomeBut(v, h, {p}) => HomeBut(UpdateRect(v, p), h, {p})
    BY <2>4, SameHomes DEF Same
  <2> QED  BY <2>1, <2>2, <2>4, <2>5, <2>6 DEF Same, Rest
<1>7. CASE t1.kids[p] # <<>>
  <2>1. \A v \in Windows : (u.parent[v] = Nil) <=> (v = w \/ t.parent[v] = Nil)
    BY <1>2, <1>6, <1>7 DEF Items
  <2>2. ASSUME NEW ws \in Workspaces  PROVE t.kids[ws] = <<>> <=> u.kids[ws] = <<>>
    <3>1. ws \in Parents /\ u \in Tree  BY <1>6, <1>7 DEF Parents, TreeInv, Linked
    <3>2. Len(u.kids[ws]) = Len(t.kids[ws])  BY <1>2, <1>6, <1>7
    <3> QED  BY <3>1, <3>2, <1>1, KidsAreLists
  <2>3. ASSUME NEW h, Housed(t, h)  PROVE Moved(u, h, w, Nil)
    <3> DEFINE h1 == [h EXCEPT ![w] = Up(h, Nil)]
    <3>1. Housed(t1, h1)  BY <1>1, <1>2, <2>3, WindowHomes
    <3>2. Up(h, Nil) = Nil  BY KindsAssumption DEF Up, Items
    <3>3. h1[w] = Nil /\ \A v \in Windows \ {w} : h1[v] = h[v]
      BY <1>1, <2>3, <3>2 DEF Housed, Items
    <3> HIDE DEF h1
    <3>4. PICK h2 : Housed(u, h2) /\ \A n \in Items \ {p} : h2[n] = h1[n]
      BY <3>1, <1>6, <1>7 DEF HomeBut
    <3>5. h2[w] = Nil /\ \A v \in Windows \ {w} : h2[v] = h[v]
      BY <3>3, <3>4, <1>4 DEF Items
    <3> QED  BY <3>4, <3>5 DEF Moved
  <2> QED  BY <2>1, <2>2, <2>3, <1>5, <1>6, <1>7 DEF u
<1>8. CASE t1.kids[p] = <<>>
  <2> DEFINE v2 == RemoveChild(t1, g, p)
             v3 == Delete(v2, p)
  <2>1. u = UpdateRect(v3, g)  BY <1>3, <1>8
  <2>2. Len(t.kids[p]) = 1
    <3>1. Len(t1.kids[p]) = 0  BY <1>4, <1>8, KidsAreLists
    <3>2. Len(t1.kids[p]) = Len(t.kids[p]) - 1  BY <1>2 DEF Removed
    <3>3. Len(t.kids[p]) \in Nat  BY <1>1, <1>4, KidsAreLists
    <3>4. Len(t.kids[p]) - 1 = 0  BY <3>1, <3>2
    <3>5. \A k \in Nat : k - 1 = 0 => k = 1  OBVIOUS
    <3> QED  BY <3>3, <3>4, <3>5
  <2>3. g \in Workspaces /\ g \in Parents /\ g # p
    <3>1. Full(t, p)  BY <1>1, <1>2 DEF Shaped
    <3> QED  BY <3>1, <2>2, <1>4 DEF Full, g, Parents
  <2> HIDE DEF g, v2, v3
  <2>4. t1.parent[p] = g  BY <1>2, <1>4 DEF g
  <2>5. Removed(t1, v2, g, p)  BY <1>2, <1>4, <2>3, <2>4, RemoveChildLinks DEF v2
  <2>6. v2.parent[p] = Nil /\ v2.kids[p] = <<>> /\ Linked(v2) /\ v2.live = t.live
    BY <1>2, <1>4, <1>8, <2>3, <2>5 DEF Removed, Rest, Tree
  <2>7. /\ Linked(v3) /\ v3.parent = v2.parent /\ v3.kids = v2.kids
        /\ v3.live = v2.live \ {p} /\ v3.mark = v2.mark /\ v3.normal = v2.normal
    BY <1>4, <2>6, DeleteLinks DEF v3
  <2>8. Same(v3, u)  BY <2>1, <2>7, UpdateRectSame DEF Linked
  <2>9. Linked(u) /\ u.mark = t.mark /\ u.normal = t.normal /\ u.live = t.live \ {p}
    BY <1>5, <2>5, <2>6, <2>7, <2>8, SameKeeps DEF Same, Rest, Removed
  <2>10. \A m \in Items : u.parent[m] = IF m = p \/ m = w THEN Nil ELSE t.parent[m]
    BY <1>2, <1>4, <2>5, <2>7, <2>8 DEF Same, Removed, Tree
  <2>11. \A q \in Parents : q # p /\ q # g => u.kids[q] = t.kids[q]
    BY <1>2, <2>5, <2>7, <2>8 DEF Same, Removed
  <2>12. u.kids[g] = <<>> /\ u \in Tree /\ p \in Elements(t.kids[g]) /\ Len(t.kids[g]) = 1
    <3>1. u \in Tree  BY <2>8 DEF Same
    <3>2. p \in Elements(t.kids[g])  BY <1>1, <1>4, <2>3 DEF Linked, g
    <3>3. Len(t.kids[g]) <= 1 /\ t.kids[g] # <<>>
      BY <1>1, <2>3, <3>2, KidsAreLists DEF Shaped
    <3>4. Len(t.kids[g]) = 1
      <4>1. Len(t.kids[g]) \in Nat /\ Len(t.kids[g]) # 0  BY <1>1, <2>3, <3>3, KidsAreLists
      <4>2. \A k \in Nat : k <= 1 /\ k # 0 => k = 1  OBVIOUS
      <4> QED  BY <3>3, <4>1, <4>2
    <3>5. Len(u.kids[g]) = Len(t.kids[g]) - 1
      BY <1>2, <2>3, <2>5, <2>7, <2>8 DEF Same, Removed
    <3>6. Len(u.kids[g]) = 0  BY <3>4, <3>5
    <3> QED  BY <2>3, <3>1, <3>2, <3>4, <3>6, KidsAreLists
  <2>13. Acyclic(u)
    <3>1. PICK r : Ranks(t, r)  BY DEF TreeInv, Acyclic
    <3>2. \A l \in Layouts : u.parent[l] \in Layouts => u.parent[l] = t.parent[l]
      BY <2>10, KindsAssumption DEF Items
    <3>3. Ranks(u, r)  BY <3>1, <3>2 DEF Ranks
    <3> QED  BY <3>3 DEF Acyclic
  <2>14. Shaped(u, u.live)
    <3>1. \A l \in Layouts : l \in Items /\ l # w /\ l \in Parents /\ l # g
      BY <2>3, KindsAssumption DEF Items, Parents
    <3>2. \A l \in u.live : l \in t.live /\ l # p /\ l \in Layouts
      BY <1>1, <2>9 DEF Tree
    <3>3. \A l \in u.live : u.parent[l] = t.parent[l] /\ u.kids[l] = t.kids[l]
      BY <2>10, <2>11, <3>1, <3>2
    <3>4. \A l \in u.live : u.parent[l] # Nil /\ Full(u, l)
      BY <1>1, <3>2, <3>3 DEF Shaped, Full
    <3>5. ASSUME NEW ws \in Workspaces
          PROVE  Len(u.kids[ws]) <= 1 /\ Elements(u.kids[ws]) \subseteq Layouts
      <4>1. CASE ws = g
        <5>1. Len(u.kids[ws]) = 0 /\ Elements(u.kids[ws]) = {}
          BY <4>1, <2>3, <2>12, KidsAreLists
        <5> QED  BY <5>1
      <4>2. CASE ws # g
        <5>1. u.kids[ws] = t.kids[ws]  BY <4>2, <1>4, <2>11 DEF Parents
        <5> QED  BY <5>1, <1>1 DEF Shaped
      <4> QED  BY <4>1, <4>2
    <3> QED  BY <3>4, <3>5 DEF Shaped
  <2>15. \A v \in Windows : (u.parent[v] = Nil) <=> (v = w \/ t.parent[v] = Nil)
    BY <1>4, <2>10 DEF Items
  <2>16. ASSUME NEW ws \in Workspaces
         PROVE  /\ t.kids[ws] = <<>> => u.kids[ws] = <<>>
                /\ t.kids[ws] # <<>> /\ Len(t.kids[TilingLayout(t, ws)]) # 1
                      => u.kids[ws] # <<>>
    <3>1. CASE ws = g
      <4>1. TilingLayout(t, g) = p
        <5>1. t.kids[g][1] = p  BY <1>1, <2>3, <2>12, OnlyKid
        <5> QED  BY <5>1, <2>12 DEF TilingLayout, Last
      <4> QED  BY <4>1, <3>1, <2>2, <2>12
    <3>2. CASE ws # g
      <4>1. u.kids[ws] = t.kids[ws]  BY <3>2, <1>4, <2>11 DEF Parents
      <4> QED  BY <4>1
    <3> QED  BY <3>1, <3>2
  <2>17. TreeInv(u)  BY <2>9, <2>13, <2>14 DEF TreeInv
  <2>18. ASSUME NEW h, Housed(t, h)  PROVE Moved(u, h, w, Nil)
    <3> DEFINE h2 == [h EXCEPT ![p] = Nil, ![w] = Nil]
    <3>1. h2 \in [Items -> Workspaces \cup {Nil}]  BY <2>18 DEF Housed
    <3>2. \A m \in Items : h2[m] = IF m = p \/ m = w THEN Nil ELSE h[m]
      BY <2>18, <1>1, <1>4 DEF Housed
    <3> HIDE DEF h2
    <3>3. \A q : q # p /\ q # w => Up(h2, q) = Up(h, q)  BY <3>2 DEF Up
    <3>4. ASSUME NEW m \in Items  PROVE h2[m] = Up(h2, u.parent[m])
      <4>1. CASE m = p \/ m = w
        <5>1. u.parent[m] = Nil /\ Nil \notin Items  BY <4>1, <2>10, KindsAssumption DEF Items
        <5> QED  BY <5>1, <4>1, <3>2 DEF Up
      <4>2. CASE ~(m = p \/ m = w)
        <5>1. u.parent[m] = t.parent[m] /\ t1.parent[m] = t.parent[m] /\ h2[m] = h[m]
          BY <4>2, <2>10, <1>2, <3>2
        <5>2. Elements(t1.kids[p]) = {}  BY <1>4, <1>8, KidsAreLists
        <5>3. t.parent[m] # p  BY <5>1, <5>2, <1>2, <1>4 DEF Linked
        <5>4. t.parent[m] # w  BY <1>1, KindsAssumption DEF Tree, Parents
        <5> QED  BY <5>1, <5>3, <5>4, <3>3, <2>18 DEF Housed
      <4> QED  BY <4>1, <4>2
    <3>5. Housed(u, h2)  BY <3>1, <3>4 DEF Housed
    <3>6. h2[w] = Nil /\ \A v \in Windows \ {w} : h2[v] = h[v]
      BY <3>2, <1>1, <1>4 DEF Items
    <3> QED  BY <3>5, <3>6 DEF Moved
  <2> QED  BY <2>9, <2>15, <2>16, <2>17, <2>18 DEF u
<1> QED  BY <1>7, <1>8

\* The window leaves its layout p, which has another child, for the layout l.
LEMMA MoveToLayoutKeeps ==
    ASSUME NEW t, TreeInv(t), NEW w \in Windows, t.parent[w] # Nil,
           Len(t.kids[t.parent[w]]) # 1, NEW l \in t.live, l # t.parent[w],
           NEW i \in 1..Len(t.kids[l]) + 1
    PROVE  /\ TreeInv(MoveToLayout(t, w, l, i))
           /\ \A h : Housed(t, h) => Moved(MoveToLayout(t, w, l, i), h, w, h[l])
<1> DEFINE p  == t.parent[w]
           t0 == RemoveChild(t, p, w)
           t1 == InsertChild(t0, l, i, w)
           t2 == PurgeSoleNode(t1, p)
           u  == MoveToLayout(t, w, l, i)
<1>1. t \in Tree /\ Linked(t) /\ Shaped(t, t.live) /\ w \in Items
  BY DEF TreeInv, Linked, Items
<1>2. /\ p \in t.live /\ Removed(t, t0, p, w) /\ t0.live = t.live
      /\ Linked(t0) /\ Acyclic(t0) /\ Shaped(t0, t0.live \ {p})
      /\ \A m \in Items : t0.parent[m] = IF m = w THEN Nil ELSE t.parent[m]
  BY RemoveWindowShape
<1>3. u = UpdateRect(t2, t2.parent[l])  BY DEF MoveToLayout
<1> HIDE DEF p, t0, t1, t2, u
<1>4. /\ p \in Layouts /\ p \in Parents /\ l \in Parents /\ l # p /\ t0 \in Tree
  BY <1>1, <1>2 DEF Tree, Parents, Linked, p
<1>5. t0.kids[l] = t.kids[l]  BY <1>2, <1>4 DEF Removed
<1>6. t0.kids[l] # <<>>  BY <1>1, <1>5 DEF Shaped, Full
<1>7. t0.parent[w] = Nil  BY <1>1, <1>2
<1>8. t0.kids[p] # <<>>
  <2>1. Len(t0.kids[p]) = Len(t.kids[p]) - 1  BY <1>2 DEF Removed
  <2>2. Len(t.kids[p]) # 1  BY DEF p
  <2>3. Len(t.kids[p]) \in Nat  BY <1>1, <1>4, KidsAreLists
  <2>4. \A k \in Nat : k # 1 => k - 1 # 0  OBVIOUS
  <2>5. Len(t0.kids[p]) # 0  BY <2>1, <2>2, <2>3, <2>4
  <2> QED  BY <2>5, <1>4, KidsAreLists
<1>9. Linked(t1) /\ Acyclic(t1) /\ Shaped(t1, t1.live \ {p}) /\ Inserted(t0, t1, l, w)
  <2>1. Shaped(t0, t0.live \ ({p} \cup {l}))  BY <1>2 DEF Shaped
  <2>2. l \in t0.live /\ i \in 1..Len(t0.kids[l]) + 1  BY <1>2, <1>5
  <2> QED  BY <2>1, <2>2, <1>2, <1>6, <1>7, InsertWindowShape DEF t1
<1>10. p \in t1.live /\ t1.kids[p] # <<>>
  BY <1>2, <1>4, <1>8, <1>9 DEF Inserted, Rest
<1>11. TreeInv(t2)  BY <1>9, <1>10, PurgeSoleKeeps DEF t2
<1>14. \A h : Housed(t1, h) => HomeBut(t2, h, {p})  BY <1>9, <1>10, PurgeSoleKeeps DEF t2
<1>12. Same(t2, u)
  <2>1. t2 \in Tree  BY <1>11 DEF TreeInv, Linked
  <2> QED  BY <2>1, <1>3, UpdateRectSame
<1>13. TreeInv(u)  BY <1>11, <1>12, SameKeeps
<1>15. ASSUME NEW h, Housed(t, h)  PROVE Moved(u, h, w, h[l])
  <2>1. w # p /\ p \notin Windows /\ l \in Layouts /\ l \in Items /\ l # w /\ Nil \notin Items
    BY <1>1, <1>4, KindsAssumption DEF Tree, Items
  <2> DEFINE h0 == [h EXCEPT ![w] = Up(h, Nil)]
             h1 == [h0 EXCEPT ![w] = Up(h0, l)]
  <2>2. Housed(t0, h0)  BY <1>1, <1>2, <1>15, WindowHomes
  <2>3. \A m \in Items : h0[m] = IF m = w THEN Nil ELSE h[m]
    BY <1>1, <1>15, <2>1 DEF Housed, Up
  <2> HIDE DEF h0
  <2>4. Housed(t1, h1)  BY <2>2, <1>4, <1>9, InsertHomes
  <2>5. \A m \in Items : h1[m] = IF m = w THEN h[l] ELSE h[m]
    BY <2>1, <2>2, <2>3 DEF Housed, Up
  <2> HIDE DEF h1
  <2>6. PICK h2 : Housed(t2, h2) /\ \A n \in Items \ {p} : h2[n] = h1[n]
    BY <2>4, <1>14 DEF HomeBut
  <2>7. h2[w] = h[l] /\ \A v \in Windows \ {w} : h2[v] = h[v]
    BY <1>1, <2>1, <2>5, <2>6 DEF Items
  <2>8. Moved(t2, h, w, h[l])  BY <2>6, <2>7 DEF Moved
  <2> QED  BY <2>8, <1>12, SameHomes DEF Same
<1> QED  BY <1>13, <1>15 DEF u

\* The tree is well but for the layout l, which hangs nowhere yet.
Loose(t, l) ==
    /\ Linked(t) /\ Acyclic(t)
    /\ l \in t.live /\ t.parent[l] = Nil
    /\ \A k \in t.live \ {l} : t.parent[k] # Nil /\ Full(t, k)
    /\ \A ws \in Workspaces : Len(t.kids[ws]) <= 1 /\ Elements(t.kids[ws]) \subseteq Layouts
    /\ t.kids[l] # <<>> /\ (Len(t.kids[l]) = 1 => Elements(t.kids[l]) \subseteq Windows)

\* The loose layout becomes the layout of an empty workspace.
LEMMA HangTop ==
    ASSUME NEW t, NEW l, Loose(t, l), NEW ws \in Workspaces, t.kids[ws] = <<>>
    PROVE  /\ TreeInv(AddChild(t, ws, l))
           /\ \A m \in Items : AddChild(t, ws, l).parent[m] = IF m = l THEN ws ELSE t.parent[m]
<1> DEFINE u == AddChild(t, ws, l)
<1>1. t \in Tree /\ l \in Layouts /\ l \in Items /\ ws \in Parents /\ ws # Nil /\ ws \notin Layouts
  BY KindsAssumption DEF Loose, Linked, Tree, Items, Parents
<1>2. Len(t.kids[ws]) = 0 /\ Elements(t.kids[ws]) = {}  BY <1>1, KidsAreLists
<1>3. Inserted(t, u, ws, l)
  <2>1. Len(t.kids[ws]) + 1 \in 1..Len(t.kids[ws]) + 1  BY <1>2
  <2>2. u = InsertChild(t, ws, Len(t.kids[ws]) + 1, l)  BY DEF AddChild
  <2>3. Linked(t) /\ l \in Windows \cup t.live /\ t.parent[l] = Nil /\ ws \in t.live \cup Workspaces
    BY DEF Loose
  <2> HIDE DEF u
  <2> QED  BY <2>1, <2>2, <2>3, InsertChildLinks
<1> HIDE DEF u
<1>4. Linked(u) /\ u.live = t.live  BY <1>3 DEF Inserted, Rest
<1>5. \A m \in Items : u.parent[m] = IF m = l THEN ws ELSE t.parent[m]
  BY <1>1, <1>3 DEF Inserted, Tree
<1>6. \A q \in Parents : q # ws => u.kids[q] = t.kids[q]  BY <1>3 DEF Inserted
<1>7. Len(u.kids[ws]) = 1 /\ Elements(u.kids[ws]) = {l}
  BY <1>2, <1>3 DEF Inserted
<1>8. Acyclic(u)
  <2>1. PICK r : Ranks(t, r)  BY DEF Loose, Acyclic
  <2>2. \A k \in Layouts : u.parent[k] \in Layouts => u.parent[k] = t.parent[k]
    BY <1>1, <1>5 DEF Items
  <2>3. Ranks(u, r)  BY <2>1, <2>2 DEF Ranks
  <2> QED  BY <2>3 DEF Acyclic
<1>9. ASSUME NEW k \in u.live  PROVE u.parent[k] # Nil /\ Full(u, k)
  <2>1. /\ k \in t.live /\ k \in Layouts /\ k \in Items /\ k \in Parents /\ k # ws
        /\ u.kids[k] = t.kids[k]
    BY <1>1, <1>4, <1>6 DEF Tree, Items, Parents
  <2>2. CASE k = l
    <3>1. u.parent[k] = ws  BY <2>1, <2>2, <1>5
    <3> QED  BY <3>1, <2>1, <2>2, <1>1 DEF Loose, Full
  <2>3. CASE k # l
    <3>1. u.parent[k] = t.parent[k]  BY <2>1, <2>3, <1>5
    <3> QED  BY <3>1, <2>1, <2>3 DEF Loose, Full
  <2> QED  BY <2>2, <2>3
<1>10. ASSUME NEW x \in Workspaces
       PROVE  Len(u.kids[x]) <= 1 /\ Elements(u.kids[x]) \subseteq Layouts
  <2>1. CASE x = ws  BY <2>1, <1>1, <1>7
  <2>2. CASE x # ws  BY <2>2, <1>6 DEF Loose, Parents
  <2> QED  BY <2>1, <2>2
<1>11. TreeInv(u)  BY <1>4, <1>8, <1>9, <1>10 DEF TreeInv, Shaped
<1> QED  BY <1>5, <1>11 DEF u

\* The new layout and window of _move_to_marked_window.
LEMMA MoveToMarkedKeeps ==
    ASSUME NEW t, TreeInv(t), NEW w \in Windows, NEW marked \in Windows, marked # w,
           t.parent[marked] # Nil, t.mark[marked] \in Types
    PROVE  /\ TreeInv(MoveToMarkedWindow(t, w, marked))
           /\ \A h : Housed(t, h) => Moved(MoveToMarkedWindow(t, w, marked), h, w, h[marked])
<1> DEFINE ty == t.mark[marked]
           t1 == IF t.parent[w] # Nil THEN PurgeAndReconfigure(t, w) ELSE t
           p  == t1.parent[marked]
           l  == Fresh(t1)
           v1 == New(t1, l, ty)
           v2 == Replace(v1, p, marked, l)
           v3 == AddChild(v2, l, marked)
           v4 == AddChild(v3, l, w)
           x1 == AddChild(t1, p, w)
           u  == MoveToMarkedWindow(t, w, marked)
<1>1. u = IF Len(t1.kids[p]) > 1 THEN UpdateRect(v4, p) ELSE SetType(x1, p, ty)
  BY DEF MoveToMarkedWindow
<1>2. TreeInv(t1) /\ t1.parent[w] = Nil /\ p # Nil
  BY PurgeKeeps
<1>10. \A h : Housed(t, h) => \E h1 : Housed(t1, h1) /\ h1[marked] = h[marked]
                                    /\ \A v \in Windows \ {w} : h1[v] = h[v]
  <2>1. CASE t.parent[w] = Nil  BY <2>1
  <2>2. CASE t.parent[w] # Nil
    <3>1. \A h : Housed(t, h) => Moved(t1, h, w, Nil)  BY <2>2, PurgeKeeps
    <3> QED  BY <3>1 DEF Moved
  <2> QED  BY <2>1, <2>2
<1>3. l \in Layouts /\ l \notin t1.live  BY <1>2, FreshExists
<1>4. ty \in Types  OBVIOUS
<1> HIDE DEF ty, t1, p, l, v1, v2, v3, v4, x1, u
<1>5. t1 \in Tree /\ Linked(t1) /\ Shaped(t1, t1.live) /\ Acyclic(t1)
  BY <1>2 DEF TreeInv, Linked
<1>6. p \in t1.live /\ marked \in Items /\ marked \in Elements(t1.kids[p]) /\ w \in Items
  <2>1. marked \in Items /\ w \in Items  BY DEF Items
  <2> QED  BY <2>1, <1>2, <1>5, ParentKinds DEF p
<1>7. /\ p \in Layouts /\ p \in Parents /\ p # l /\ p \notin Workspaces
      /\ l \in Parents /\ l \in Items /\ l # Nil /\ l # w /\ l # marked /\ l \notin Windows
  BY <1>3, <1>5, <1>6, KindsAssumption DEF Tree, Parents, Items
<1>8. CASE Len(t1.kids[p]) > 1
  <2>1. /\ Linked(v1) /\ v1.parent = t1.parent /\ v1.kids = t1.kids
        /\ v1.live = t1.live \cup {l}
        /\ t1.parent[l] = Nil /\ t1.kids[l] = <<>>
    BY <1>3, <1>4, <1>5, NewLinks DEF v1
  <2>2. Replaced(v1, v2, p, marked, l)
    <3>1. v1.parent[marked] = p  BY <2>1 DEF p
    <3>2. l \in Windows \cup v1.live /\ v1.parent[l] = Nil  BY <2>1
    <3> QED  BY <3>1, <3>2, <2>1, <1>6, <1>7, ReplaceLinks DEF v2
  <2>3. /\ Linked(v2) /\ v2.live = t1.live \cup {l} /\ v2 \in Tree
        /\ v2.kids[l] = <<>> /\ Len(v2.kids[l]) = 0 /\ Elements(v2.kids[l]) = {}
        /\ \A m \in Items : v2.parent[m] = IF m = l THEN p
                                           ELSE IF m = marked THEN Nil ELSE t1.parent[m]
    <3>1. Linked(v2) /\ v2.live = t1.live \cup {l} /\ v2 \in Tree
      BY <2>1, <2>2 DEF Replaced, Rest, Linked
    <3>2. v2.kids[l] = <<>>  BY <2>1, <2>2, <1>7 DEF Replaced
    <3>3. Len(v2.kids[l]) = 0 /\ Elements(v2.kids[l]) = {}  BY <3>1, <3>2, <1>7, KidsAreLists
    <3>4. \A m \in Items : v2.parent[m] = IF m = l THEN p
                                          ELSE IF m = marked THEN Nil ELSE t1.parent[m]
      BY <2>1, <2>2, <1>5, <1>6, <1>7 DEF Replaced, Tree
    <3> QED  BY <3>1, <3>2, <3>3, <3>4
  <2>4. Inserted(v2, v3, l, marked)
    <3>1. v3 = InsertChild(v2, l, Len(v2.kids[l]) + 1, marked)  BY DEF v3, AddChild
    <3>2. Len(v2.kids[l]) + 1 \in 1..Len(v2.kids[l]) + 1  BY <2>3
    <3>3. v2.parent[marked] = Nil  BY <2>3, <1>6, <1>7
    <3> QED  BY <3>1, <3>2, <3>3, <2>3, InsertChildLinks
  <2>5. /\ Linked(v3) /\ v3.live = t1.live \cup {l} /\ Len(v3.kids[l]) = 1 /\ v3 \in Tree
        /\ Elements(v3.kids[l]) = {marked}
        /\ \A m \in Items : v3.parent[m] = IF m = l THEN p
                                           ELSE IF m = marked THEN l ELSE t1.parent[m]
    <3>1. Linked(v3) /\ v3.live = t1.live \cup {l} /\ v3 \in Tree
      BY <2>3, <2>4 DEF Inserted, Rest, Linked
    <3>2. Len(v3.kids[l]) = 1 /\ Elements(v3.kids[l]) = {marked}
      BY <2>3, <2>4 DEF Inserted
    <3>3. \A m \in Items : v3.parent[m] = IF m = l THEN p
                                          ELSE IF m = marked THEN l ELSE t1.parent[m]
      BY <2>3, <2>4, <1>6, <1>7 DEF Inserted, Tree
    <3> QED  BY <3>1, <3>2, <3>3
  <2>6. \A q \in Parents : q # p /\ q # l => v3.kids[q] = t1.kids[q]
    BY <2>1, <2>2, <2>4 DEF Replaced, Inserted
  <2>7. Len(v3.kids[p]) = Len(t1.kids[p])
    BY <2>1, <2>2, <2>4, <1>7 DEF Replaced, Inserted
  <2>8. Acyclic(v3)
    <3>1. PICK r : Ranks(t1, r)  BY <1>5 DEF Acyclic
    <3> DEFINE r2 == [k \in Layouts |-> IF k = l THEN r[p] + 1 ELSE r[k]]
    <3>2. \A k \in Layouts : r[k] \in Nat  BY <3>1 DEF Ranks
    <3>3. r2 \in [Layouts -> Nat]  BY <3>2, <1>7
    <3>4. ASSUME NEW k \in Layouts, v3.parent[k] \in Layouts  PROVE r2[v3.parent[k]] < r2[k]
      <4>1. k \in Items /\ k # marked  BY KindsAssumption DEF Items
      <4>2. CASE k = l  BY <4>1, <4>2, <2>5, <1>7, <3>2
      <4>3. CASE k # l
        <5>1. v3.parent[k] = t1.parent[k]  BY <4>1, <4>3, <2>5
        <5>2. t1.parent[k] # l  BY <2>1, <2>3, <4>1, <1>5, <1>7, KidsAreLists DEF Linked
        <5> QED  BY <5>1, <5>2, <4>3, <3>1, <3>4 DEF Ranks
      <4> QED  BY <4>2, <4>3
    <3> HIDE DEF r2
    <3>5. Ranks(v3, r2)  BY <3>3, <3>4 DEF Ranks
    <3> QED  BY <3>5 DEF Acyclic
  <2>9. Shaped(v3, v3.live \ {l})
    <3>1. \A k \in Layouts : k \in Items /\ k \in Parents /\ k # marked
      BY KindsAssumption DEF Items, Parents
    <3>2. t1.live \subseteq Layouts  BY <1>5 DEF Tree
    <3>3. \A k \in v3.live : v3.parent[k] # Nil
      <4> SUFFICES ASSUME NEW k \in v3.live  PROVE v3.parent[k] # Nil  OBVIOUS
      <4>1. CASE k = l  BY <4>1, <2>5, <1>2, <1>7
      <4>2. CASE k # l
        <5>1. k \in t1.live /\ v3.parent[k] = t1.parent[k]  BY <4>2, <2>5, <3>1, <3>2
        <5> QED  BY <5>1, <1>5 DEF Shaped
      <4> QED  BY <4>1, <4>2
    <3>4. ASSUME NEW ws \in Workspaces
          PROVE  Len(v3.kids[ws]) <= 1 /\ Elements(v3.kids[ws]) \subseteq Layouts
      <4>1. ws \in Parents /\ ws # p /\ ws # l  BY <1>3, <1>7, KindsAssumption DEF Parents
      <4> QED  BY <4>1, <2>6, <1>5 DEF Shaped
    <3>5. ASSUME NEW k \in v3.live \ {l}  PROVE Full(v3, k)
      <4>1. k \in t1.live /\ k \in Layouts /\ k \in Parents /\ v3.parent[k] = t1.parent[k]
        BY <2>5, <3>1, <3>2
      <4>2. Full(t1, k)  BY <4>1, <1>5 DEF Shaped
      <4>3. CASE k = p
        <5>1. Len(v3.kids[k]) \in Nat /\ Len(v3.kids[k]) > 1
          BY <4>1, <4>3, <2>5, <2>7, <1>8, KidsAreLists
        <5>4. \A i \in Nat : i > 1 => i # 1 /\ i # 0  OBVIOUS
        <5>2. Len(v3.kids[k]) # 1 /\ Len(v3.kids[k]) # 0  BY <5>1, <5>4
        <5>3. v3.kids[k] # <<>>  BY <4>1, <5>2, <2>5, KidsAreLists
        <5> QED  BY <5>2, <5>3 DEF Full
      <4>4. CASE k # p
        <5>1. v3.kids[k] = t1.kids[k]  BY <4>1, <4>4, <2>6
        <5> QED  BY <5>1, <4>1, <4>2 DEF Full
      <4> QED  BY <4>3, <4>4
    <3> QED  BY <3>3, <3>4, <3>5 DEF Shaped
  <2>10. TreeInv(v4)
    <3>1. v4 = InsertChild(v3, l, Len(v3.kids[l]) + 1, w)  BY DEF v4, AddChild
    <3>2. Len(v3.kids[l]) + 1 \in 1..Len(v3.kids[l]) + 1 /\ v3.kids[l] # <<>>
      BY <2>5, <1>7, KidsAreLists
    <3>3. l \in v3.live /\ v3.parent[w] = Nil  BY <2>5, <1>2, <1>6, <1>7
    <3> QED  BY <3>1, <3>2, <3>3, <2>5, <2>8, <2>9, InsertWindowKeeps
  <2>11. TreeInv(UpdateRect(v4, p))
    <3>1. v4 \in Tree  BY <2>10 DEF TreeInv, Linked
    <3> QED  BY <3>1, <2>10, UpdateRectSame, SameKeeps
  <2>12. ASSUME NEW h, Housed(t, h)  PROVE Moved(u, h, w, h[marked])
    <3>1. PICK h1 : Housed(t1, h1) /\ h1[marked] = h[marked]
                    /\ \A v \in Windows \ {w} : h1[v] = h[v]
      BY <2>12, <1>10
    <3> DEFINE h2 == [h1 EXCEPT ![l] = h1[p]]
               h3 == [h2 EXCEPT ![w] = Up(h2, l)]
    <3>2. p \in Items /\ h1[p] = h[marked]
      BY <3>1, <1>6, <1>7, ParentHome DEF Items, p
    <3>3. h2 \in [Items -> Workspaces \cup {Nil}]  BY <3>1, <3>2 DEF Housed
    <3>4. \A m \in Items : h2[m] = IF m = l THEN h[marked] ELSE h1[m]
      BY <3>1, <3>2, <1>7 DEF Housed
    <3> HIDE DEF h2
    <3>5. \A q : q # l => Up(h2, q) = Up(h1, q)  BY <3>4 DEF Up
    <3>6. ASSUME NEW m \in Items  PROVE h2[m] = Up(h2, v3.parent[m])
      <4>1. CASE m = l
        <5>1. v3.parent[m] = p  BY <4>1, <2>5
        <5> QED  BY <5>1, <4>1, <3>2, <3>4, <1>7 DEF Up
      <4>2. CASE m = marked
        <5>1. v3.parent[m] = l  BY <4>2, <2>5, <1>7
        <5> QED  BY <5>1, <4>2, <3>1, <3>4, <1>7 DEF Up
      <4>3. CASE m # l /\ m # marked
        <5>1. v3.parent[m] = t1.parent[m] /\ h2[m] = h1[m]  BY <4>3, <2>5, <3>4
        <5>2. t1.parent[m] # l  BY <2>1, <2>3, <1>5, <1>7, KidsAreLists DEF Linked
        <5> QED  BY <5>1, <5>2, <3>1, <3>5 DEF Housed
      <4> QED  BY <4>1, <4>2, <4>3
    <3>7. Housed(v3, h2)  BY <3>3, <3>6 DEF Housed
    <3>8. Inserted(v3, v4, l, w)
      <4>1. v4 = InsertChild(v3, l, Len(v3.kids[l]) + 1, w)  BY DEF v4, AddChild
      <4>2. Len(v3.kids[l]) + 1 \in 1..Len(v3.kids[l]) + 1  BY <2>5
      <4>3. l \in v3.live /\ v3.parent[w] = Nil  BY <2>5, <1>2, <1>6, <1>7
      <4> QED  BY <4>1, <4>2, <4>3, <2>5, InsertChildLinks
    <3>9. Housed(v4, h3)  BY <3>7, <3>8, <2>5, <1>7, InsertHomes
    <3>10. h3[w] = h[marked] /\ \A v \in Windows \ {w} : h3[v] = h[v]
      BY <3>1, <3>3, <3>4, <1>6, <1>7 DEF Up, Items
    <3> HIDE DEF h3
    <3>11. Moved(v4, h, w, h[marked])  BY <3>9, <3>10 DEF Moved
    <3>12. Moved(UpdateRect(v4, p), h, w, h[marked])
      <4>1. v4 \in Tree  BY <2>10 DEF TreeInv, Linked
      <4> QED  BY <4>1, <3>11, UpdateRectSame, SameHomes DEF Same
    <3> QED  BY <3>12, <1>1, <1>8
  <2>13. TreeInv(u)  BY <2>11, <1>1, <1>8
  <2> QED  BY <2>12, <2>13 DEF u
<1>9. CASE ~(Len(t1.kids[p]) > 1)
  <2>1. TreeInv(x1) /\ Inserted(t1, x1, p, w)
    <3>1. x1 = InsertChild(t1, p, Len(t1.kids[p]) + 1, w)  BY DEF x1, AddChild
    <3>2. Len(t1.kids[p]) \in Nat  BY <1>5, <1>7, KidsAreLists
    <3>3. Len(t1.kids[p]) + 1 \in 1..Len(t1.kids[p]) + 1  BY <3>2
    <3>4. t1.kids[p] # <<>> /\ Shaped(t1, t1.live \ {p})  BY <1>5, <1>6 DEF Shaped, Full
    <3> QED  BY <3>1, <3>3, <3>4, <1>2, <1>5, <1>6, InsertWindowKeeps
  <2>2. TreeInv(SetType(x1, p, ty))
    <3> DEFINE y == SetType(x1, p, ty)
    <3>1. /\ Linked(y) /\ y.parent = x1.parent /\ y.kids = x1.kids /\ y.live = x1.live
      BY <2>1, <1>4, <1>7, SetTypeLinks DEF TreeInv
    <3> HIDE DEF y
    <3>2. TreeInv(y)  BY <2>1, <3>1 DEF TreeInv, Acyclic, Ranks, Shaped, Full
    <3> QED  BY <3>2 DEF y
  <2>3. ASSUME NEW h, Housed(t, h)  PROVE Moved(u, h, w, h[marked])
    <3>1. PICK h1 : Housed(t1, h1) /\ h1[marked] = h[marked]
                    /\ \A v \in Windows \ {w} : h1[v] = h[v]
      BY <2>3, <1>10
    <3>2. p \in Items /\ Up(h1, p) = h[marked]
      BY <3>1, <1>6, <1>7, ParentHome DEF Items, Up, p
    <3>3. Moved(x1, h1, w, h[marked])  BY <3>1, <3>2, <2>1, <1>5, <1>7, InsertHomes
    <3>4. Moved(x1, h, w, h[marked])  BY <3>1, <3>3 DEF Moved
    <3>5. SetType(x1, p, ty).parent = x1.parent
      BY <2>1, <1>4, <1>7, SetTypeLinks DEF TreeInv
    <3>6. Moved(SetType(x1, p, ty), h, w, h[marked])  BY <3>4, <3>5, SameHomes
    <3> QED  BY <3>6, <1>1, <1>9
  <2>4. TreeInv(u)  BY <2>2, <1>1, <1>9
  <2> QED  BY <2>3, <2>4 DEF u
<1> QED  BY <1>8, <1>9

\* The only layout of a workspace that is not empty.
LEMMA TopLayout ==
    ASSUME NEW t, Linked(t), NEW S, Shaped(t, S), NEW ws \in Workspaces, t.kids[ws] # <<>>
    PROVE  LET top == TilingLayout(t, ws)
           IN  /\ top \in Layouts /\ top \in t.live /\ t.parent[top] = ws
               /\ Elements(t.kids[ws]) = {top} /\ Len(t.kids[ws]) = 1
<1> DEFINE s == t.kids[ws]
<1>1. t \in Tree /\ ws \in Parents  BY DEF Linked, Parents
<1>2. Len(s) = 1
  <2>1. Len(s) \in Nat /\ Len(s) # 0 /\ Len(s) <= 1  BY <1>1, KidsAreLists DEF Shaped
  <2>2. \A k \in Nat : k # 0 /\ k <= 1 => k = 1  OBVIOUS
  <2> QED  BY <2>1, <2>2
<1>3. TilingLayout(t, ws) = s[1]  BY <1>2 DEF TilingLayout, Last
<1>4. Elements(s) = {s[1]} /\ s[1] \in Items  BY <1>1, <1>2, OnlyKid
<1>5. s[1] \in Layouts  BY <1>4 DEF Shaped
<1>6. t.parent[s[1]] = ws  BY <1>1, <1>4 DEF Linked
<1>7. s[1] \in t.live  BY <1>5, <1>6, KindsAssumption DEF Linked
<1> QED  BY <1>2, <1>3, <1>4, <1>5, <1>6, <1>7

\* move_to_workspace, once the window has left the last workspace.
LEMMA PlaceWindowKeeps ==
    ASSUME NEW t, TreeInv(t), NEW w \in Windows, t.parent[w] = Nil, NEW ws \in Workspaces,
           NEW current,
           t.kids[ws] # <<>> => current \in Windows \ {w} /\ t.parent[current] # Nil
    PROVE  /\ TreeInv(PlaceWindow(t, w, ws, current))
           /\ \A h : Housed(t, h) /\ (t.kids[ws] # <<>> => h[current] = ws)
                    => Moved(PlaceWindow(t, w, ws, current), h, w, ws)
<1> DEFINE u == PlaceWindow(t, w, ws, current)
<1>1. t \in Tree /\ Linked(t) /\ Shaped(t, t.live) /\ Acyclic(t) /\ w \in Items /\ ws \in Parents
  BY DEF TreeInv, Linked, Items, Parents
<1>2. CASE t.kids[ws] = <<>>
  <2> DEFINE l  == Fresh(t)
             v1 == New(t, l, "Horizontal")
             v2 == AddChild(v1, l, w)
             v3 == AddChild(v2, ws, l)
  <2>1. u = UpdateRect(v3, ws)  BY <1>2 DEF PlaceWindow
  <2>2. l \in Layouts /\ l \notin t.live  BY FreshExists
  <2> HIDE DEF l, v1, v2, v3, u
  <2>3. l \in Parents /\ l \in Items /\ l # Nil /\ l # w /\ l # ws
    BY <2>2, KindsAssumption DEF Items, Parents
  <2>4. /\ Linked(v1) /\ v1.parent = t.parent /\ v1.kids = t.kids
        /\ v1.live = t.live \cup {l} /\ t.parent[l] = Nil /\ t.kids[l] = <<>>
    BY <1>1, <2>2, NewLinks DEF v1, Types
  <2>5. Inserted(v1, v2, l, w)
    <3>1. Len(v1.kids[l]) + 1 \in 1..Len(v1.kids[l]) + 1  BY <1>1, <2>3, <2>4, KidsAreLists
    <3>2. v2 = InsertChild(v1, l, Len(v1.kids[l]) + 1, w)  BY DEF v2, AddChild
    <3> QED  BY <3>1, <3>2, <2>4, InsertChildLinks
  <2>6. /\ Linked(v2) /\ v2.live = t.live \cup {l} /\ v2 \in Tree
        /\ Elements(v2.kids[l]) = {w}
        /\ \A q \in Parents : q # l => v2.kids[q] = t.kids[q]
        /\ \A m \in Items : v2.parent[m] = IF m = w THEN l ELSE t.parent[m]
    <3>1. Elements(t.kids[l]) = {}  BY <1>1, <2>3, <2>4, KidsAreLists
    <3>2. \A m \in Items : v2.parent[m] = IF m = w THEN l ELSE t.parent[m]
      BY <1>1, <2>4, <2>5 DEF Inserted, Tree
    <3> QED  BY <3>1, <3>2, <2>4, <2>5 DEF Inserted, Rest, Linked
  <2>7. Loose(v2, l)
    <3>1. \A k \in Layouts : k \in Items /\ k \in Parents /\ k # w
      BY KindsAssumption DEF Items, Parents
    <3>2. Acyclic(v2)  BY <1>1, <2>6, <3>1 DEF Acyclic, Ranks
    <3>3. v2.parent[l] = Nil /\ l \in v2.live  BY <2>3, <2>4, <2>6
    <3>4. ASSUME NEW k \in v2.live \ {l}  PROVE v2.parent[k] # Nil /\ Full(v2, k)
      <4>1. /\ k \in t.live /\ k \in Layouts
            /\ v2.kids[k] = t.kids[k] /\ v2.parent[k] = t.parent[k]
        BY <1>1, <2>6, <3>1 DEF Tree
      <4> QED  BY <4>1, <1>1 DEF Shaped, Full
    <3>5. \A x \in Workspaces : Len(v2.kids[x]) <= 1 /\ Elements(v2.kids[x]) \subseteq Layouts
      <4>1. \A x \in Workspaces : v2.kids[x] = t.kids[x]
        BY <2>2, <2>6, KindsAssumption DEF Parents
      <4> QED  BY <4>1, <1>1 DEF Shaped
    <3>6. v2.kids[l] # <<>> /\ Elements(v2.kids[l]) \subseteq Windows
      BY <2>3, <2>6, KidsAreLists
    <3> QED  BY <2>6, <3>2, <3>3, <3>4, <3>5, <3>6 DEF Loose
  <2>8. /\ TreeInv(v3)
        /\ \A m \in Items : v3.parent[m] = IF m = l THEN ws ELSE v2.parent[m]
    <3>1. v2.kids[ws] = <<>>  BY <1>1, <1>2, <2>3, <2>6
    <3> QED  BY <3>1, <2>7, HangTop DEF v3
  <2>9. TreeInv(UpdateRect(v3, ws))
    <3>1. v3 \in Tree  BY <2>8 DEF TreeInv, Linked
    <3> QED  BY <3>1, <2>8, UpdateRectSame, SameKeeps
  <2>10. ASSUME NEW h, Housed(t, h)  PROVE Moved(u, h, w, ws)
    <3> DEFINE h2 == [h EXCEPT ![l] = ws, ![w] = ws]
    <3>1. h2 \in [Items -> Workspaces \cup {Nil}]  BY <2>10 DEF Housed
    <3>2. \A m \in Items : h2[m] = IF m = l \/ m = w THEN ws ELSE h[m]
      BY <2>10, <1>1, <2>3 DEF Housed
    <3> HIDE DEF h2
    <3>3. \A q : q # l /\ q # w => Up(h2, q) = Up(h, q)  BY <3>2 DEF Up
    <3>4. ASSUME NEW m \in Items  PROVE h2[m] = Up(h2, v3.parent[m])
      <4>1. CASE m = l
        <5>1. v3.parent[m] = ws /\ ws \notin Items  BY <4>1, <2>8, KindsAssumption DEF Items
        <5> QED  BY <5>1, <4>1, <3>2 DEF Up
      <4>2. CASE m = w
        <5>1. v3.parent[m] = l  BY <4>2, <2>3, <2>6, <2>8
        <5> QED  BY <5>1, <4>2, <3>2, <2>3 DEF Up
      <4>3. CASE m # l /\ m # w
        <5>1. v3.parent[m] = t.parent[m] /\ h2[m] = h[m]  BY <4>3, <2>6, <2>8, <3>2
        <5>2. Elements(t.kids[l]) = {}  BY <1>1, <2>3, <2>4, KidsAreLists
        <5>3. t.parent[m] # l  BY <5>2, <1>1, <2>3 DEF Linked
        <5>4. t.parent[m] # w  BY <1>1, KindsAssumption DEF Tree, Parents
        <5> QED  BY <5>1, <5>3, <5>4, <3>3, <2>10 DEF Housed
      <4> QED  BY <4>1, <4>2, <4>3
    <3>5. Housed(v3, h2)  BY <3>1, <3>4 DEF Housed
    <3>6. h2[w] = ws /\ \A v \in Windows \ {w} : h2[v] = h[v]
      BY <3>2, <1>1, <2>2, KindsAssumption DEF Items
    <3>7. Moved(v3, h, w, ws)  BY <3>5, <3>6 DEF Moved
    <3>8. v3 \in Tree  BY <2>8 DEF TreeInv, Linked
    <3> QED  BY <3>7, <3>8, <2>1, UpdateRectSame, SameHomes DEF Same
  <2>11. TreeInv(u)  BY <2>1, <2>9
  <2> QED  BY <2>10, <2>11 DEF u
<1>3. CASE t.kids[ws] # <<>> /\ IsMarked(t, current)
  <2>1. u = MoveToMarkedWindow(t, w, current)  BY <1>3 DEF PlaceWindow
  <2>2. current \in Windows /\ current # w /\ t.parent[current] # Nil  BY <1>3
  <2>3. t.mark[current] \in Types  BY <1>1, <1>3, <2>2 DEF IsMarked, Tree, Marks
  <2>4. TreeInv(u)  BY <2>1, <2>2, <2>3, MoveToMarkedKeeps
  <2>5. ASSUME NEW h, Housed(t, h), h[current] = ws  PROVE Moved(u, h, w, ws)
    BY <2>1, <2>2, <2>3, <2>5, MoveToMarkedKeeps
  <2> QED  BY <2>4, <2>5, <1>3
<1>4. CASE t.kids[ws] # <<>> /\ ~IsMarked(t, current)
  <2> DEFINE p == t.parent[current]
             i == IndexOf(t, current) + 1
             v == InsertChild(t, p, i, w)
  <2>1. u = UpdateRect(v, p)  BY <1>4 DEF PlaceWindow
  <2>2. current \in Windows /\ current \in Items /\ p # Nil  BY <1>4 DEF Items
  <2>3. p \in t.live /\ current \in Elements(t.kids[p])  BY <1>1, <2>2, ParentKinds
  <2>4. p \in Parents  BY <1>1, <2>3 DEF Tree, Parents
  <2>5. i \in 1..Len(t.kids[p]) + 1
    <3>1. t.kids[p] \in Seq(Items) /\ Len(t.kids[p]) \in Nat  BY <1>1, <2>4, KidsAreLists
    <3>2. IndexOf(t, current) \in 1..Len(t.kids[p])  BY <2>3, <3>1, PositionFound DEF IndexOf
    <3> QED  BY <3>1, <3>2
  <2>6. t.kids[p] # <<>> /\ Shaped(t, t.live \ {p})  BY <1>1, <2>3 DEF Shaped, Full
  <2> HIDE DEF p, i, v, u
  <2>7. TreeInv(v) /\ Inserted(t, v, p, w)
    BY <1>1, <2>3, <2>5, <2>6, InsertWindowKeeps DEF v
  <2>8. TreeInv(UpdateRect(v, p))
    <3>1. v \in Tree  BY <2>7 DEF TreeInv, Linked
    <3> QED  BY <3>1, <2>7, UpdateRectSame, SameKeeps
  <2>9. ASSUME NEW h, Housed(t, h), h[current] = ws  PROVE Moved(u, h, w, ws)
    <3>1. p \in Items  BY <1>1, <2>3 DEF Tree, Items
    <3>2. Up(h, p) = ws  BY <3>1, <2>2, <2>9, ParentHome DEF Up, p
    <3>3. Moved(v, h, w, ws)  BY <3>2, <2>4, <2>7, <2>9, <1>1, InsertHomes
    <3>4. v \in Tree  BY <2>7 DEF TreeInv, Linked
    <3> QED  BY <3>3, <3>4, <2>1, UpdateRectSame, SameHomes DEF Same
  <2>10. TreeInv(u)  BY <2>1, <2>8
  <2> QED  BY <2>9, <2>10, <1>4 DEF u
<1> QED  BY <1>2, <1>3, <1>4

\* What move_to_workspace is told of the workspace: its current window, which
\* is another one than the window on the move, if it has any.
LEMMA MoveToWorkspaceKeeps ==
    ASSUME NEW t, TreeInv(t), NEW w \in Windows, NEW ws \in Workspaces, NEW current,
           t.kids[ws] # <<>> /\ ws \notin RootsOf(t, w)
               => current \in Windows \ {w} /\ t.parent[current] # Nil
    PROVE  /\ TreeInv(MoveToWorkspaceTree(t, w, ws, current))
           /\ \A h : Housed(t, h) /\ (ws \in RootsOf(t, w) => h[w] = ws)
                    /\ (t.kids[ws] # <<>> /\ ws \notin RootsOf(t, w) => h[current] = ws)
                    => Moved(MoveToWorkspaceTree(t, w, ws, current), h, w, ws)
<1>1. CASE ws \in RootsOf(t, w)  BY <1>1 DEF MoveToWorkspaceTree, Moved
<1>2. CASE ws \notin RootsOf(t, w)
  <2> DEFINE t1 == IF t.parent[w] # Nil THEN PurgeAndReconfigure(t, w) ELSE t
  <2>1. MoveToWorkspaceTree(t, w, ws, current) = PlaceWindow(t1, w, ws, current)
    BY <1>2 DEF MoveToWorkspaceTree
  <2>2. TreeInv(t1) /\ t1.parent[w] = Nil
        /\ (t1.kids[ws] # <<>> => current \in Windows \ {w} /\ t1.parent[current] # Nil)
    <3>1. CASE t.parent[w] = Nil  BY <3>1, <1>2
    <3>2. CASE t.parent[w] # Nil
      <4>1. TreeInv(t1)  BY <3>2, PurgeKeeps
      <4>2. t1.parent[w] = Nil  BY <3>2, PurgeKeeps
      <4>3. t.kids[ws] = <<>> => t1.kids[ws] = <<>>  BY <3>2, PurgeKeeps
      <4>4. \A v \in Windows : (t1.parent[v] = Nil) <=> (v = w \/ t.parent[v] = Nil)
        BY <3>2, PurgeKeeps
      <4> HIDE DEF t1
      <4> QED  BY <4>1, <4>2, <4>3, <4>4, <1>2
    <3> QED  BY <3>1, <3>2
  <2>3. ASSUME NEW h, Housed(t, h)
        PROVE  \E h1 : Housed(t1, h1) /\ \A v \in Windows \ {w} : h1[v] = h[v]
    <3>1. CASE t.parent[w] = Nil  BY <3>1, <2>3
    <3>2. CASE t.parent[w] # Nil
      <4>1. Moved(t1, h, w, Nil)  BY <3>2, <2>3, PurgeKeeps
      <4> HIDE DEF t1
      <4> QED  BY <4>1 DEF Moved
    <3> QED  BY <3>1, <3>2
  <2>4. t1.kids[ws] # <<>> => t.kids[ws] # <<>>
    <3>1. CASE t.parent[w] = Nil  BY <3>1
    <3>2. CASE t.parent[w] # Nil  BY <3>2, PurgeKeeps
    <3> QED  BY <3>1, <3>2
  <2> HIDE DEF t1
  <2>5. TreeInv(PlaceWindow(t1, w, ws, current))  BY <2>2, PlaceWindowKeeps
  <2>6. ASSUME NEW h, Housed(t, h), t.kids[ws] # <<>> => h[current] = ws
        PROVE  Moved(PlaceWindow(t1, w, ws, current), h, w, ws)
    <3>1. PICK h1 : Housed(t1, h1) /\ \A v \in Windows \ {w} : h1[v] = h[v]  BY <2>3, <2>6
    <3>2. t1.kids[ws] # <<>> => h1[current] = ws  BY <3>1, <2>2, <2>4, <2>6
    <3>3. Moved(PlaceWindow(t1, w, ws, current), h1, w, ws)
      BY <3>1, <3>2, <2>2, PlaceWindowKeeps
    <3> QED  BY <3>1, <3>3 DEF Moved
  <2> QED  BY <2>1, <2>5, <2>6, <1>2
<1> QED  BY <1>1, <1>2

-----------------------------------------------------------------------------
(* The operations of binding.cpp keep the tree a tree.                      *)

\* The node _find_direction_compatible_node returns is the window or a layout
\* above it; its neighbours are neither the window nor the window's layout, and
\* the window's layout holds something else.
LEMMA FoundNode ==
    ASSUME NEW t, TreeInv(t), NEW w \in Windows, NEW dir,
           FindDirectionCompatibleNode(t, w, dir) # Nil
    PROVE  LET node == FindDirectionCompatibleNode(t, w, dir)
           IN  /\ node \in Items /\ t.parent[node] \in t.live
               /\ t.parent[w] # Nil /\ Len(t.kids[t.parent[w]]) # 1
               /\ \A adj \in Elements(t.kids[t.parent[node]]) :
                     adj # node => adj # w /\ adj # t.parent[w]
               /\ \A h : Housed(t, h) => h[node] = h[w]
<1> DEFINE c     == Climb(t, w)
           steps == CompatibleSteps(t, w, dir)
           node  == FindDirectionCompatibleNode(t, w, dir)
           k     == Min(steps)
           p     == t.parent[node]
           q     == t.parent[w]
<1>1. t \in Tree /\ Linked(t) /\ Shaped(t, t.live) /\ w \in Items
  BY DEF TreeInv, Linked, Items
<1>2. PICK r : Ranks(t, r)  BY DEF TreeInv, Acyclic
<1>3. Height \in Nat /\ Height >= 1  BY HeightIsNat
<1>4. /\ c[0] = w
      /\ \A j \in 1..Height : c[j] = IF c[j-1] \in Items THEN t.parent[c[j-1]] ELSE Nil
  BY <1>1, ClimbSteps
<1>5. /\ steps # {} /\ node = c[k-1] /\ Len(t.kids[t.parent[c[k-1]]]) # 1
  BY DEF FindDirectionCompatibleNode
<1>6. k \in 1..Height /\ c[k] \in Layouts
  <2>1. steps \subseteq Nat /\ steps \subseteq {j \in 1..Height : c[j] \in Layouts}
    BY <1>3 DEF CompatibleSteps
  <2>2. \E m \in steps : \A j \in steps : m <= j  BY <2>1, <1>5, LeastOfSet
  <2>3. k \in steps  BY <2>2 DEF Min
  <2> QED  BY <2>1, <2>3
<1> HIDE DEF c, steps, node, k
<1>7. Nil \notin Layouts /\ Nil \notin Items  BY KindsAssumption DEF Items
<1>8. node \in Items /\ p = c[k] /\ Len(t.kids[p]) # 1  BY <1>4, <1>5, <1>6, <1>7
<1>9. 1 \in 1..Height /\ c[1] = q /\ (2 <= Height => c[2] = IF q \in Items THEN t.parent[q] ELSE Nil)
  <2>1. 1 \in 1..Height /\ 1 - 1 = 0  BY <1>3
  <2>2. c[1] = q  BY <2>1, <1>1, <1>4
  <2>3. 2 <= Height => 2 \in 1..Height /\ 2 - 1 = 1  BY <1>3
  <2> QED  BY <2>1, <2>2, <2>3, <1>4
<1>10. \A i, j \in 1..Height : i < j /\ c[j] \in Layouts => c[i] \in Layouts /\ c[j] # c[i]
  <2> SUFFICES ASSUME NEW i \in 1..Height, NEW j \in 1..Height, i < j, c[j] \in Layouts
               PROVE  c[i] \in Layouts /\ c[j] # c[i]
    OBVIOUS
  <2>1. c[i] \in Layouts /\ r[c[j]] < r[c[i]]  BY <1>1, <1>2, ClimbRanks DEF c
  <2>2. r[c[j]] \in Nat  BY <1>2 DEF Ranks
  <2> QED  BY <2>1, <2>2
<1>11. p \in t.live
  <2>1. p # Nil  BY <1>6, <1>7, <1>8
  <2>2. p \notin Workspaces  BY <1>6, <1>8, KindsAssumption
  <2> QED  BY <2>1, <2>2, <1>1, <1>8, ParentKinds
<1>12. \A adj \in Elements(t.kids[p]) : adj \in Items /\ t.parent[adj] = p
  <2>1. p \in Parents  BY <1>6, <1>8 DEF Parents
  <2>2. \A i \in 1..Len(t.kids[p]) : t.kids[p][i] \in Items  BY <1>1, <2>1, KidsAreLists
  <2> QED  BY <2>1, <2>2, <1>1 DEF Linked, Elements
<1>13. q \in Layouts
  <2>1. CASE k = 1  BY <2>1, <1>6, <1>9
  <2>2. CASE k # 1  BY <2>2, <1>6, <1>9, <1>10
  <2> QED  BY <2>1, <2>2
<1>14. q # Nil /\ q \in Items /\ q \in t.live
  BY <1>1, <1>7, <1>13, ParentKinds, KindsAssumption DEF Items
<1>15. ASSUME k = 1
       PROVE  /\ Len(t.kids[q]) # 1
              /\ \A adj \in Elements(t.kids[p]) : adj # node => adj # w /\ adj # q
  <2>1. node = w /\ p = q  BY <1>4, <1>5, <1>8, <1>9, <1>15
  <2>2. ASSUME NEW adj \in Elements(t.kids[p]), adj # node  PROVE adj # w /\ adj # q
    <3>1. adj = q => t.parent[q] = q  BY <1>12, <2>1
    <3>2. t.parent[q] # q  BY <1>13, NoSelfParent DEF TreeInv
    <3> QED  BY <3>1, <3>2, <2>1, <2>2
  <2>3. Len(t.kids[q]) # 1  BY <2>1, <1>8
  <2> QED  BY <2>2, <2>3
<1>16. ASSUME k # 1
       PROVE  /\ Len(t.kids[q]) # 1
              /\ \A adj \in Elements(t.kids[p]) : adj # node => adj # w /\ adj # q
  <2>1. 2 \in 1..Height /\ 1 < k /\ (k = 2 \/ 2 < k)
    <3>1. k \in Nat /\ k # 0 /\ k # 1 /\ k <= Height  BY <1>3, <1>6, <1>16
    <3> QED  BY <3>1, <1>3
  <2>2. c[2] \in Layouts  BY <2>1, <1>6, <1>10
  <2>3. c[2] = t.parent[q]  BY <2>1, <1>9, <1>14
  <2>4. Len(t.kids[q]) # 1
    <3>1. Full(t, q)  BY <1>1, <1>14 DEF Shaped
    <3>2. t.parent[q] \notin Workspaces  BY <2>2, <2>3, KindsAssumption
    <3> QED  BY <3>1, <3>2 DEF Full
  <2>5. ASSUME NEW adj \in Elements(t.kids[p]), adj # node  PROVE adj # w /\ adj # q
    <3>1. adj # w
      <4>1. c[k] # c[1]  BY <2>1, <1>6, <1>9, <1>10
      <4> QED  BY <4>1, <1>8, <1>9, <1>12, <2>5
    <3>2. adj # q
      <4> SUFFICES ASSUME adj = q  PROVE FALSE  OBVIOUS
      <4>1. c[k] = c[2]  BY <1>8, <1>12, <2>3, <2>5
      <4>2. ~(2 < k)  BY <4>1, <2>1, <1>6, <1>10
      <4>3. node = c[1]  BY <4>2, <2>1, <1>5
      <4> QED  BY <4>3, <1>9, <2>5
    <3> QED  BY <3>1, <3>2
  <2> QED  BY <2>4, <2>5
<1>18. ASSUME NEW h, Housed(t, h)  PROVE h[node] = h[w]
  <2> DEFINE A == {j \in Nat : j <= k - 1 => c[j] \in Items /\ h[c[j]] = h[w]}
  <2>1. k \in Nat /\ 1 <= k /\ k <= Height  BY <1>3, <1>6
  <2>2. 0 \in A  BY <1>1, <1>4
  <2>3. ASSUME NEW j \in Nat, j \in A  PROVE j + 1 \in A
    <3> SUFFICES ASSUME j + 1 <= k - 1
                 PROVE  c[j+1] \in Items /\ h[c[j+1]] = h[w]
      OBVIOUS
    <3>1. /\ j <= k - 1 /\ j + 1 \in 1..Height /\ (j + 1) - 1 = j
          /\ j + 1 < k
      BY <2>1, <1>3
    <3>2. c[j+1] = t.parent[c[j]] /\ c[j] \in Items /\ h[c[j]] = h[w]  BY <3>1, <2>3, <1>4
    <3>3. c[j+1] \in Layouts  BY <3>1, <1>6, <1>10
    <3> QED  BY <3>2, <3>3, <1>18, ParentHome DEF Items
  <2>4. Nat \subseteq A
    <3> HIDE DEF A
    <3> QED  BY <2>2, <2>3, EveryNumber
  <2>5. k - 1 \in Nat  BY <2>1
  <2> QED  BY <2>4, <2>5, <1>5
<1> HIDE DEF p, q
<1>17. /\ Len(t.kids[q]) # 1
       /\ \A adj \in Elements(t.kids[p]) : adj # node => adj # w /\ adj # q
  BY <1>15, <1>16
<1> QED  BY <1>8, <1>11, <1>14, <1>17, <1>18 DEF node, p, q

\* _move_to_adjacent_node
LEMMA MoveToAdjacentKeeps ==
    ASSUME NEW t, TreeInv(t), NEW w \in Windows, NEW node \in Items, t.parent[node] \in t.live,
           t.parent[w] # Nil, Len(t.kids[t.parent[w]]) # 1, NEW dir,
           \A adj \in Elements(t.kids[t.parent[node]]) :
              adj # node => adj # w /\ adj # t.parent[w]
    PROVE  /\ TreeInv(MoveToAdjacentNode(t, w, node, dir))
           /\ \A h : Housed(t, h) /\ h[node] = h[w]
                    => Moved(MoveToAdjacentNode(t, w, node, dir), h, w, h[w])
<1> DEFINE Stays(x) == \A h : Housed(t, h) /\ h[node] = h[w] => Moved(x, h, w, h[w])
<1> DEFINE t0   == [t EXCEPT !.mark[w] = "Floating"]
           p    == t.parent[node]
           i    == IndexOf(t, node)
           back == dir \in Backward
           j    == IF back THEN i - 1 ELSE i + 1
           adj  == t.kids[p][j]
           u    == MoveToAdjacentNode(t, w, node, dir)
           edge == IF back THEN 1 ELSE Len(t.kids[p]) + 1
           slot == IF back THEN i ELSE j
<1>1. u = IF j \notin 1..Len(t.kids[p])
          THEN IF t.type[p] = t.type[t.parent[w]] THEN t0 ELSE MoveToLayout(t0, w, p, edge)
          ELSE IF adj \in Layouts THEN MoveToLayout(t0, w, adj, Len(t.kids[adj]) + 1)
          ELSE IF IsMarked(t0, adj) THEN MoveToMarkedWindow(t0, w, adj)
          ELSE IF p = t.parent[w] THEN UpdateRect(ShiftChild(t0, p, i, j), p)
          ELSE MoveToLayout(t0, w, p, slot)
  BY DEF MoveToAdjacentNode
<1>2. t \in Tree /\ Linked(t) /\ Shaped(t, t.live) /\ p \in t.live /\ p \in Parents
  BY DEF TreeInv, Linked, Tree, Parents
<1>3. /\ t0 \in Tree /\ t0.parent = t.parent /\ t0.kids = t.kids /\ t0.live = t.live
  BY <1>2 DEF Tree, Marks
<1>4. TreeInv(t0)
  <2> HIDE DEF t0
  <2> QED  BY <1>3 DEF TreeInv, Linked, Acyclic, Ranks, Shaped, Full
<1>5. i \in 1..Len(t.kids[p]) /\ t.kids[p][i] = node /\ Len(t.kids[p]) \in Nat
  <2>1. node \in Elements(t.kids[p])  BY <1>2 DEF Linked
  <2>2. t.kids[p] \in Seq(Items) /\ Len(t.kids[p]) \in Nat  BY <1>2, KidsAreLists
  <2> QED  BY <2>1, <2>2, PositionFound DEF IndexOf
<1> HIDE DEF t0, p, i, adj, u
<1>6. i \in Int /\ j \in Int /\ j # i /\ edge \in 1..Len(t.kids[p]) + 1  BY <1>5
<1>10. \A h : Housed(t, h) => Housed(t0, h)  BY <1>3, SameHomes
<1>11. p \in Items /\ \A h : Housed(t, h) => h[p] = h[node]
  <2>1. p \in Items  BY <1>2 DEF Tree, Items
  <2> QED  BY <2>1, ParentHome DEF p
<1>7. ASSUME p # t.parent[w], NEW m \in 1..Len(t.kids[p]) + 1
      PROVE  TreeInv(MoveToLayout(t0, w, p, m)) /\ Stays(MoveToLayout(t0, w, p, m))
  <2>1. /\ p \in t0.live /\ p # t0.parent[w] /\ t0.parent[w] # Nil
        /\ Len(t0.kids[t0.parent[w]]) # 1 /\ m \in 1..Len(t0.kids[p]) + 1
    BY <1>2, <1>3, <1>7
  <2>2. TreeInv(MoveToLayout(t0, w, p, m))  BY <2>1, <1>4, MoveToLayoutKeeps
  <2>3. \A h : Housed(t0, h) => Moved(MoveToLayout(t0, w, p, m), h, w, h[p])
    BY <2>1, <1>4, MoveToLayoutKeeps
  <2> QED  BY <2>2, <2>3, <1>10, <1>11
<1>8. CASE j \notin 1..Len(t.kids[p])
  <2>1. CASE t.type[p] = t.type[t.parent[w]]
    <3>1. u = t0  BY <1>1, <1>8, <2>1
    <3>2. Stays(t0)  BY <1>10 DEF Moved
    <3> QED  BY <3>1, <3>2, <1>4 DEF u
  <2>2. CASE t.type[p] # t.type[t.parent[w]]
    <3>1. u = MoveToLayout(t0, w, p, edge)  BY <1>1, <1>8, <2>2
    <3>2. p # t.parent[w]  BY <2>2
    <3> HIDE DEF edge
    <3>3. TreeInv(MoveToLayout(t0, w, p, edge)) /\ Stays(MoveToLayout(t0, w, p, edge))
      BY <3>2, <1>6, <1>7
    <3> QED  BY <3>1, <3>3 DEF u
  <2> QED  BY <2>1, <2>2
<1>9. CASE j \in 1..Len(t.kids[p])
  <2>1. adj \in Items /\ adj \in Elements(t.kids[p])  BY <1>2, <1>9, KidsAreLists DEF adj
  <2>2. t.parent[adj] = p  BY <1>2, <2>1 DEF Linked
  <2>3. adj # node
    <3>1. NoDuplicates(t.kids[p])  BY <1>2 DEF Linked
    <3> QED  BY <3>1, <1>5, <1>6, <1>9 DEF NoDuplicates, adj
  <2>4. adj # w /\ adj # t.parent[w]  BY <2>1, <2>3 DEF p
  <2>10. \A h : Housed(t, h) => h[adj] = h[p]
    BY <2>1, <2>2, <1>11, ParentHome
  <2>5. p # Nil  BY <1>2, KindsAssumption DEF Parents
  <2>6. CASE adj \in Layouts
    <3> DEFINE m == Len(t.kids[adj]) + 1
    <3>1. u = MoveToLayout(t0, w, adj, m)  BY <1>1, <1>9, <2>6
    <3>2. adj \in t.live /\ adj \in Parents  BY <1>2, <2>2, <2>5, <2>6 DEF Linked, Parents
    <3>3. Len(t.kids[adj]) \in Nat  BY <1>2, <3>2, KidsAreLists
    <3>4. m \in 1..Len(t0.kids[adj]) + 1  BY <3>3, <1>3
    <3> HIDE DEF m
    <3>5. /\ adj \in t0.live /\ adj # t0.parent[w] /\ t0.parent[w] # Nil
          /\ Len(t0.kids[t0.parent[w]]) # 1
      BY <3>2, <2>4, <1>3
    <3>6. TreeInv(MoveToLayout(t0, w, adj, m))  BY <3>4, <3>5, <1>4, MoveToLayoutKeeps
    <3>7. \A h : Housed(t0, h) => Moved(MoveToLayout(t0, w, adj, m), h, w, h[adj])
      BY <3>4, <3>5, <1>4, MoveToLayoutKeeps
    <3>8. Stays(u)  BY <3>1, <3>7, <2>10, <1>10, <1>11
    <3> QED  BY <3>1, <3>6, <3>8 DEF u
  <2>7. CASE adj \notin Layouts /\ IsMarked(t0, adj)
    <3>1. u = MoveToMarkedWindow(t0, w, adj)  BY <1>1, <1>9, <2>7
    <3>2. adj \in Windows  BY <2>1, <2>7 DEF Items
    <3>3. t0.parent[adj] # Nil  BY <2>2, <2>5, <1>3
    <3>4. t0.mark[adj] \in Types  BY <1>3, <3>2, <2>7 DEF IsMarked, Tree, Marks
    <3>5. TreeInv(MoveToMarkedWindow(t0, w, adj))
      BY <3>2, <3>3, <3>4, <2>4, <1>4, MoveToMarkedKeeps
    <3>6. \A h : Housed(t0, h) => Moved(MoveToMarkedWindow(t0, w, adj), h, w, h[adj])
      BY <3>2, <3>3, <3>4, <2>4, <1>4, MoveToMarkedKeeps
    <3>7. Stays(u)  BY <3>1, <3>6, <2>10, <1>10, <1>11
    <3> QED  BY <3>1, <3>5, <3>7 DEF u
  <2>8. CASE adj \notin Layouts /\ ~IsMarked(t0, adj) /\ p = t.parent[w]
    <3> DEFINE v == ShiftChild(t0, p, i, j)
    <3>1. u = UpdateRect(v, p)  BY <1>1, <1>9, <2>8
    <3>2. i \in 1..Len(t0.kids[p]) /\ j \in 1..Len(t0.kids[p]) /\ Linked(t0)
      BY <1>3, <1>4, <1>5, <1>9 DEF TreeInv
    <3> HIDE DEF j
    <3>3. /\ Linked(v) /\ Rest(t0, v) /\ v.parent = t0.parent
          /\ \A x \in Parents : /\ Elements(v.kids[x]) = Elements(t0.kids[x])
                                /\ Len(v.kids[x]) = Len(t0.kids[x])
      BY <1>2, <3>2, ShiftChildLinks
    <3> HIDE DEF v
    <3>4. Acyclic(v)  BY <1>4, <3>3 DEF TreeInv, Acyclic, Ranks
    <3>5. Shaped(v, v.live)
      <4>1. v.live = t0.live /\ v.live \subseteq Layouts /\ Shaped(t0, t0.live)
        BY <1>3, <1>4, <3>3 DEF Rest, Tree, TreeInv
      <4>2. ASSUME NEW l \in v.live  PROVE v.parent[l] # Nil /\ Full(v, l)
        <5>1. l \in Parents  BY <4>1 DEF Parents
        <5>2. v.kids[l] # <<>> <=> t0.kids[l] # <<>>
          BY <5>1, <1>3, <3>3, KidsAreLists DEF Linked
        <5>3. v.parent[l] # Nil /\ Full(t0, l)  BY <3>3, <4>1 DEF Shaped
        <5> QED  BY <5>1, <5>2, <5>3, <3>3 DEF Full
      <4> QED  BY <4>1, <4>2, <3>3 DEF Shaped, Parents
    <3>6. TreeInv(v)  BY <3>3, <3>4, <3>5 DEF TreeInv
    <3>7. TreeInv(UpdateRect(v, p))
      <4>1. v \in Tree  BY <3>6 DEF TreeInv, Linked
      <4> QED  BY <4>1, <3>6, UpdateRectSame, SameKeeps
    <3>8. Stays(u)
      <4>1. v \in Tree  BY <3>6 DEF TreeInv, Linked
      <4>2. u.parent = t.parent  BY <4>1, <3>1, <3>3, <1>3, UpdateRectSame DEF Same
      <4> QED  BY <4>2, SameHomes DEF Moved
    <3> QED  BY <3>1, <3>7, <3>8 DEF u
  <2>9. CASE adj \notin Layouts /\ ~IsMarked(t0, adj) /\ p # t.parent[w]
    <3>1. u = MoveToLayout(t0, w, p, slot)  BY <1>1, <1>9, <2>9
    <3>2. slot \in 1..Len(t.kids[p]) + 1  BY <1>5, <1>6, <1>9
    <3> HIDE DEF slot, j
    <3>3. TreeInv(MoveToLayout(t0, w, p, slot)) /\ Stays(MoveToLayout(t0, w, p, slot))
      BY <3>2, <2>9, <1>7
    <3> QED  BY <3>1, <3>3 DEF u
  <2> QED  BY <2>6, <2>7, <2>8, <2>9
<1> QED  BY <1>8, <1>9

\* The new top layout of _move_to_top_node, over the old one and the window.
LEMMA WrapTopKeeps ==
    ASSUME NEW t, TreeInv(t), NEW w \in Windows, t.parent[w] = Nil, NEW ws \in Workspaces,
           t.kids[ws] # <<>>, Len(t.kids[TilingLayout(t, ws)]) # 1, NEW dir
    PROVE  /\ TreeInv(WrapTop(t, w, ws, dir))
           /\ \A h : Housed(t, h) => Moved(WrapTop(t, w, ws, dir), h, w, ws)
<1> DEFINE top == TilingLayout(t, ws)
           l   == Fresh(t)
           v0  == RemoveChild(t, ws, top)
           ty  == InverseType(t.type[top])
           v1  == New(v0, l, ty)
<1>1. t \in Tree /\ Linked(t) /\ Shaped(t, t.live) /\ Acyclic(t) /\ w \in Items /\ ws \in Parents
  BY DEF TreeInv, Linked, Items, Parents
<1>2. /\ top \in Layouts /\ top \in t.live /\ t.parent[top] = ws
      /\ Elements(t.kids[ws]) = {top} /\ Len(t.kids[top]) # 1
  BY <1>1, TopLayout
<1>3. l \in Layouts /\ l \notin t.live  BY FreshExists
<1>4. ty \in Types  BY DEF InverseType, Types
<1> HIDE DEF l, ty
<1>5. WrapTop(t, w, ws, dir) =
        AddChild(IF dir \in Backward THEN AddChild(AddChild(v1, l, w), l, top)
                 ELSE AddChild(AddChild(v1, l, top), l, w), ws, l)
  BY DEF WrapTop, l, ty
<1> HIDE DEF top, v0, v1
<1>6. /\ top \in Items /\ top \in Parents /\ top # w /\ top # l /\ top # ws /\ top # Nil
      /\ l \in Items /\ l \in Parents /\ l # w /\ l # ws /\ l # Nil /\ ws # Nil
      /\ ws \notin Layouts
  BY <1>2, <1>3, KindsAssumption DEF Items, Parents
<1>7. Removed(t, v0, ws, top)  BY <1>1, <1>2, <1>6, RemoveChildLinks DEF v0
<1>8. /\ Linked(v0) /\ v0 \in Tree /\ v0.live = t.live /\ v0.kids[ws] = <<>>
      /\ \A q \in Parents : q # ws => v0.kids[q] = t.kids[q]
      /\ \A m \in Items : v0.parent[m] = IF m = top THEN Nil ELSE t.parent[m]
  <2>1. Linked(v0) /\ v0 \in Tree /\ v0.live = t.live  BY <1>7 DEF Removed, Rest, Linked
  <2>2. v0.kids[ws] = <<>>
    <3>1. Elements(v0.kids[ws]) = {}  BY <1>2, <1>7 DEF Removed
    <3> QED  BY <2>1, <3>1, <1>1, KidsAreLists
  <2>3. \A m \in Items : v0.parent[m] = IF m = top THEN Nil ELSE t.parent[m]
    BY <1>1, <1>6, <1>7 DEF Removed, Tree
  <2> QED  BY <2>1, <2>2, <2>3, <1>7 DEF Removed
<1>9. /\ Linked(v1) /\ v1.parent = v0.parent /\ v1.kids = v0.kids
      /\ v1.live = t.live \cup {l} /\ t.parent[l] = Nil /\ t.kids[l] = <<>>
  <2>1. /\ Linked(v1) /\ v1.parent = v0.parent /\ v1.kids = v0.kids
        /\ v1.live = v0.live \cup {l} /\ v0.parent[l] = Nil /\ v0.kids[l] = <<>>
    BY <1>3, <1>4, <1>8, NewLinks DEF v1
  <2> QED  BY <2>1, <1>6, <1>8
<1>10. ASSUME NEW a \in {w, top}, NEW b \in {w, top}, a # b
       PROVE  LET u == AddChild(AddChild(AddChild(v1, l, a), l, b), ws, l)
              IN  TreeInv(u) /\ \A h : Housed(t, h) => Moved(u, h, w, ws)
  <2> DEFINE v2 == AddChild(v1, l, a)
             v3 == AddChild(v2, l, b)
  <2>1. /\ a \in Windows \cup v1.live /\ b \in Windows \cup v1.live /\ a \in Items /\ b \in Items
        /\ v1.parent[a] = Nil /\ v1.parent[b] = Nil /\ l \in v1.live
        /\ {a, b} = {w, top}
    BY <1>1, <1>2, <1>6, <1>8, <1>9, <1>10
  <2>2. v1 \in Tree /\ Len(v1.kids[l]) = 0 /\ Elements(v1.kids[l]) = {}
    <3>1. v1 \in Tree /\ v1.kids[l] = <<>>  BY <1>6, <1>8, <1>9 DEF Linked
    <3> QED  BY <3>1, <1>6, KidsAreLists
  <2>3. Inserted(v1, v2, l, a)
    <3>1. Len(v1.kids[l]) + 1 \in 1..Len(v1.kids[l]) + 1  BY <2>2
    <3> QED  BY <3>1, <2>1, <1>9, InsertChildLinks DEF AddChild
  <2> HIDE DEF v2
  <2>4. /\ Linked(v2) /\ v2 \in Tree /\ v2.live = v1.live
        /\ Len(v2.kids[l]) = 1 /\ Elements(v2.kids[l]) = {a}
        /\ \A q \in Parents : q # l => v2.kids[q] = v1.kids[q]
        /\ \A m \in Items : v2.parent[m] = IF m = a THEN l ELSE v1.parent[m]
    <3>1. \A m \in Items : v2.parent[m] = IF m = a THEN l ELSE v1.parent[m]
      BY <2>1, <2>2, <2>3 DEF Inserted, Tree
    <3>2. /\ Linked(v2) /\ v2 \in Tree /\ v2.live = v1.live
          /\ \A q \in Parents : q # l => v2.kids[q] = v1.kids[q]
      BY <2>3 DEF Inserted, Rest, Linked
    <3>3. Len(v2.kids[l]) = 1 /\ Elements(v2.kids[l]) = {a}
      BY <2>2, <2>3 DEF Inserted
    <3> QED  BY <3>1, <3>2, <3>3
  <2>5. Inserted(v2, v3, l, b)
    <3>1. Len(v2.kids[l]) + 1 \in 1..Len(v2.kids[l]) + 1  BY <2>4
    <3>2. v2.parent[b] = Nil  BY <2>1, <2>4, <1>10
    <3> QED  BY <3>1, <3>2, <2>1, <2>4, InsertChildLinks DEF AddChild
  <2> HIDE DEF v3
  <2>6. /\ Linked(v3) /\ v3 \in Tree /\ v3.live = t.live \cup {l}
        /\ Len(v3.kids[l]) = 2 /\ v3.kids[l] # <<>> /\ v3.kids[ws] = <<>>
        /\ \A q \in Parents : q # l /\ q # ws => v3.kids[q] = t.kids[q]
        /\ \A m \in Items : v3.parent[m] = IF m = w \/ m = top THEN l ELSE t.parent[m]
    <3>1. Linked(v3) /\ v3 \in Tree /\ v3.live = t.live \cup {l}
      BY <2>4, <2>5, <1>9 DEF Inserted, Rest, Linked
    <3>2. \A m \in Items : v3.parent[m] = IF m = b THEN l ELSE v2.parent[m]
      BY <2>1, <2>4, <2>5 DEF Inserted, Tree
    <3>3. \A m \in Items : v3.parent[m] = IF m = w \/ m = top THEN l ELSE t.parent[m]
      BY <3>2, <2>1, <2>4, <1>8, <1>9
    <3>4. v3.kids[ws] = <<>> /\ \A q \in Parents : q # l /\ q # ws => v3.kids[q] = t.kids[q]
      BY <2>4, <2>5, <1>1, <1>6, <1>8, <1>9 DEF Inserted
    <3>5. Len(v3.kids[l]) = 2  BY <2>4, <2>5 DEF Inserted
    <3>6. v3.kids[l] # <<>>  BY <3>1, <3>5, <1>6, KidsAreLists
    <3> QED  BY <3>1, <3>3, <3>4, <3>5, <3>6
  <2>7. Acyclic(v3)
    <3>1. PICK r : Ranks(t, r)  BY <1>1 DEF Acyclic
    <3> DEFINE r2 == [k \in Layouts |-> IF k = l THEN 0 ELSE r[k] + 1]
    <3>2. \A k \in Layouts : r[k] \in Nat  BY <3>1 DEF Ranks
    <3>3. r2 \in [Layouts -> Nat]  BY <3>2
    <3>4. ASSUME NEW k \in Layouts, v3.parent[k] \in Layouts  PROVE r2[v3.parent[k]] < r2[k]
      <4>1. k \in Items /\ k # w  BY KindsAssumption DEF Items
      <4>2. k # l  BY <3>4, <2>6, <1>6, <1>9, KindsAssumption
      <4>3. CASE k = top  BY <4>1, <4>2, <4>3, <2>6, <3>2, <1>3
      <4>4. CASE k # top
        <5>1. v3.parent[k] = t.parent[k]  BY <4>1, <4>4, <2>6
        <5>2. t.parent[k] # l
          <6>1. Elements(t.kids[l]) = {}  BY <1>1, <1>6, <1>9, KidsAreLists
          <6> QED  BY <6>1, <4>1, <1>1, <1>6 DEF Linked
        <5>3. r[t.parent[k]] < r[k]  BY <5>1, <3>1, <3>4 DEF Ranks
        <5> QED  BY <5>1, <5>2, <5>3, <4>2, <3>2, <3>4
      <4> QED  BY <4>3, <4>4
    <3> HIDE DEF r2
    <3>5. Ranks(v3, r2)  BY <3>3, <3>4 DEF Ranks
    <3> QED  BY <3>5 DEF Acyclic
  <2>8. ASSUME NEW k \in v3.live \ {l}  PROVE v3.parent[k] # Nil /\ Full(v3, k)
    <3>1. /\ k \in t.live /\ k \in Layouts /\ k \in Items /\ k # w /\ k # ws /\ k \in Parents
          /\ k # l
      BY <2>6, <1>1, <1>6, KindsAssumption DEF Tree, Items, Parents
    <3>2. v3.kids[k] = t.kids[k]  BY <3>1, <2>6
    <3>3. CASE k = top
      <4>1. v3.parent[k] # Nil  BY <3>1, <3>3, <2>6, <1>6
      <4> QED  BY <4>1, <3>1, <3>2, <3>3, <1>1, <1>2 DEF Shaped, Full
    <3>4. CASE k # top
      <4>1. v3.parent[k] = t.parent[k]  BY <3>1, <3>4, <2>6
      <4> QED  BY <4>1, <3>1, <3>2, <1>1 DEF Shaped, Full
    <3> QED  BY <3>3, <3>4
  <2>9. ASSUME NEW x \in Workspaces
        PROVE  Len(v3.kids[x]) <= 1 /\ Elements(v3.kids[x]) \subseteq Layouts
    <3>1. x \in Parents /\ x # l  BY <1>3, KindsAssumption DEF Parents
    <3>2. CASE x = ws
      <4>1. Len(v3.kids[x]) = 0 /\ Elements(v3.kids[x]) = {}
        BY <3>1, <3>2, <2>6, KidsAreLists
      <4> QED  BY <4>1
    <3>3. CASE x # ws  BY <3>1, <3>3, <2>6, <1>1 DEF Shaped
    <3> QED  BY <3>2, <3>3
  <2>10. Loose(v3, l)
    <3>1. v3.parent[l] = Nil /\ l \in v3.live  BY <2>6, <1>6, <1>9
    <3>2. Len(v3.kids[l]) # 1  BY <2>6
    <3> QED  BY <3>1, <3>2, <2>6, <2>7, <2>8, <2>9 DEF Loose
  <2> DEFINE u == AddChild(v3, ws, l)
  <2>11. /\ TreeInv(u)
         /\ \A m \in Items : u.parent[m] = IF m = l THEN ws ELSE v3.parent[m]
    BY <2>6, <2>10, HangTop
  <2> HIDE DEF u
  <2>12. ASSUME NEW h, Housed(t, h)  PROVE Moved(u, h, w, ws)
    <3> DEFINE h2 == [h EXCEPT ![l] = ws, ![w] = ws]
    <3>1. h2 \in [Items -> Workspaces \cup {Nil}]  BY <2>12 DEF Housed
    <3>2. \A m \in Items : h2[m] = IF m = l \/ m = w THEN ws ELSE h[m]
      BY <2>12, <1>1, <1>6 DEF Housed
    <3> HIDE DEF h2
    <3>3. \A q : q # l /\ q # w => Up(h2, q) = Up(h, q)  BY <3>2 DEF Up
    <3>4. ws \notin Items  BY KindsAssumption DEF Items
    <3>5. ASSUME NEW m \in Items  PROVE h2[m] = Up(h2, u.parent[m])
      <4>1. CASE m = l
        <5>1. u.parent[m] = ws  BY <4>1, <2>11
        <5> QED  BY <5>1, <4>1, <3>2, <3>4 DEF Up
      <4>2. CASE m = w \/ m = top
        <5>1. u.parent[m] = l  BY <4>2, <2>6, <2>11, <1>6
        <5>2. h[top] = ws  BY <2>12, <1>2, <1>6, <3>4 DEF Housed, Up
        <5> QED  BY <5>1, <5>2, <4>2, <3>2, <1>6 DEF Up
      <4>3. CASE m # l /\ m # w /\ m # top
        <5>1. u.parent[m] = t.parent[m] /\ h2[m] = h[m]  BY <4>3, <2>6, <2>11, <3>2
        <5>2. Elements(t.kids[l]) = {}  BY <1>1, <1>6, <1>9, KidsAreLists
        <5>3. t.parent[m] # l  BY <5>2, <1>1, <1>6 DEF Linked
        <5>4. t.parent[m] # w  BY <1>1, KindsAssumption DEF Tree, Parents
        <5> QED  BY <5>1, <5>3, <5>4, <3>3, <2>12 DEF Housed
      <4> QED  BY <4>1, <4>2, <4>3
    <3>6. Housed(u, h2)  BY <3>1, <3>5 DEF Housed
    <3>7. h2[w] = ws /\ \A v \in Windows \ {w} : h2[v] = h[v]
      BY <3>2, <1>1, <1>3, KindsAssumption DEF Items
    <3> QED  BY <3>6, <3>7 DEF Moved
  <2> QED  BY <2>11, <2>12 DEF u, v2, v3
<1>11. CASE dir \in Backward
  <2> DEFINE u == AddChild(AddChild(AddChild(v1, l, w), l, top), ws, l)
  <2>1. TreeInv(u) /\ \A h : Housed(t, h) => Moved(u, h, w, ws)  BY <1>6, <1>10
  <2> QED  BY <2>1, <1>5, <1>11
<1>12. CASE dir \notin Backward
  <2> DEFINE u == AddChild(AddChild(AddChild(v1, l, top), l, w), ws, l)
  <2>1. TreeInv(u) /\ \A h : Housed(t, h) => Moved(u, h, w, ws)  BY <1>6, <1>10
  <2> QED  BY <2>1, <1>5, <1>12
<1> QED  BY <1>11, <1>12

\* _move_to_top_node
LEMMA MoveToTopNodeKeeps ==
    ASSUME NEW t, TreeInv(t), NEW w \in Windows, t.parent[w] # Nil, NEW ws \in Workspaces,
           t.kids[ws] # <<>>, Len(t.kids[TilingLayout(t, ws)]) # 1, NEW dir
    PROVE  /\ TreeInv(MoveToTopNode(t, w, ws, dir))
           /\ \A h : Housed(t, h) => Moved(MoveToTopNode(t, w, ws, dir), h, w, ws)
<1> DEFINE t1  == PurgeAndReconfigure(t, w)
           top == TilingLayout(t1, ws)
           ty  == t1.type[top]
           inv == InverseType(ty)
           t2  == SetType(t1, top, inv)
           i   == IF dir \in Backward THEN 1 ELSE Len(t1.kids[top]) + 1
           u   == IF IsCompatible(ty, dir) THEN AddChild(t1, top, w)
                  ELSE IF Len(t1.kids[top]) = 1 THEN InsertChild(t2, top, i, w)
                  ELSE WrapTop(t1, w, ws, dir)
<1>1. MoveToTopNode(t, w, ws, dir) = UpdateRect(u, ws)  BY DEF MoveToTopNode
<1>2. TreeInv(t1) /\ t1.parent[w] = Nil /\ t1.kids[ws] # <<>>
  <2>1. TreeInv(t1)  BY PurgeKeeps
  <2>2. t1.parent[w] = Nil  BY PurgeKeeps
  <2>3. t1.kids[ws] # <<>>  BY PurgeKeeps
  <2> QED  BY <2>1, <2>2, <2>3
<1>10. \A h : Housed(t, h) =>
         \E h1 : Housed(t1, h1) /\ \A v \in Windows \ {w} : h1[v] = h[v]
  <2>1. \A h : Housed(t, h) => Moved(t1, h, w, Nil)  BY PurgeKeeps
  <2> HIDE DEF t1
  <2> QED  BY <2>1 DEF Moved
<1>3. inv \in Types  BY DEF InverseType, Types
<1> HIDE DEF t1, ty, inv, t2, i
<1>4. t1 \in Tree /\ Linked(t1) /\ Shaped(t1, t1.live) /\ Acyclic(t1)
  BY <1>2 DEF TreeInv, Linked
<1>5. top \in Layouts /\ top \in t1.live /\ t1.parent[top] = ws  BY <1>2, <1>4, TopLayout
<1>11. top \in Items /\ \A h : Housed(t1, h) => Up(h, top) = ws
  BY <1>5, KindsAssumption DEF Housed, Up, Items
<1>6. top \in Parents /\ t1.kids[top] # <<>> /\ Shaped(t1, t1.live \ {top})
  BY <1>4, <1>5 DEF Parents, Shaped, Full
<1> HIDE DEF top
<1>7. Len(t1.kids[top]) \in Nat /\ Len(t1.kids[top]) + 1 \in 1..Len(t1.kids[top]) + 1
      /\ i \in 1..Len(t1.kids[top]) + 1
  <2>1. Len(t1.kids[top]) \in Nat  BY <1>4, <1>6, KidsAreLists
  <2> QED  BY <2>1 DEF i
<1>8. TreeInv(u) /\ \A h : Housed(t1, h) => Moved(u, h, w, ws)
  <2>1. CASE IsCompatible(ty, dir)
    <3>1. u = InsertChild(t1, top, Len(t1.kids[top]) + 1, w)  BY <2>1 DEF AddChild
    <3>2. TreeInv(u) /\ Inserted(t1, u, top, w)
      BY <3>1, <1>2, <1>4, <1>5, <1>6, <1>7, InsertWindowKeeps
    <3> HIDE DEF u
    <3>3. ASSUME NEW h, Housed(t1, h)  PROVE Moved(u, h, w, ws)
      <4>1. Moved(u, h, w, Up(h, top))  BY <3>2, <3>3, <1>4, <1>6, InsertHomes
      <4> QED  BY <4>1, <3>3, <1>11
    <3> QED  BY <3>2, <3>3
  <2>2. CASE ~IsCompatible(ty, dir) /\ Len(t1.kids[top]) = 1
    <3>1. u = InsertChild(t2, top, i, w)  BY <2>2
    <3>2. Linked(t2) /\ t2.parent = t1.parent /\ t2.kids = t1.kids /\ t2.live = t1.live
      BY <1>3, <1>4, <1>5, SetTypeLinks DEF t2
    <3>3. Acyclic(t2) /\ Shaped(t2, t2.live \ {top})
      BY <3>2, <1>4, <1>6 DEF Acyclic, Ranks, Shaped, Full
    <3>4. /\ top \in t2.live /\ t2.kids[top] # <<>> /\ t2.parent[w] = Nil
          /\ i \in 1..Len(t2.kids[top]) + 1
      BY <3>2, <1>2, <1>5, <1>6, <1>7
    <3>5. TreeInv(u) /\ Inserted(t2, u, top, w)  BY <3>1, <3>2, <3>3, <3>4, InsertWindowKeeps
    <3> HIDE DEF u
    <3>6. \A h : Housed(t1, h) => Housed(t2, h)  BY <3>2, SameHomes
    <3>7. t2 \in Tree  BY <3>2 DEF Linked
    <3>8. ASSUME NEW h, Housed(t1, h)  PROVE Moved(u, h, w, ws)
      <4>1. Housed(t2, h)  BY <3>6, <3>8
      <4>2. Moved(u, h, w, Up(h, top))  BY <4>1, <3>5, <3>7, <1>6, InsertHomes
      <4> QED  BY <4>2, <3>8, <1>11
    <3> QED  BY <3>5, <3>8
  <2>3. CASE ~IsCompatible(ty, dir) /\ Len(t1.kids[top]) # 1
    <3>1. u = WrapTop(t1, w, ws, dir)  BY <2>3
    <3>2. TreeInv(WrapTop(t1, w, ws, dir))  BY <2>3, <1>2, WrapTopKeeps DEF top
    <3>3. \A h : Housed(t1, h) => Moved(WrapTop(t1, w, ws, dir), h, w, ws)
      BY <2>3, <1>2, WrapTopKeeps DEF top
    <3> QED  BY <3>1, <3>2, <3>3
  <2> QED  BY <2>1, <2>2, <2>3
<1> HIDE DEF u
<1>9. TreeInv(UpdateRect(u, ws))
  <2>1. u \in Tree  BY <1>8 DEF TreeInv, Linked
  <2> QED  BY <2>1, <1>8, UpdateRectSame, SameKeeps
<1>12. ASSUME NEW h, Housed(t, h)  PROVE Moved(UpdateRect(u, ws), h, w, ws)
  <2>1. PICK h1 : Housed(t1, h1) /\ \A v \in Windows \ {w} : h1[v] = h[v]  BY <1>10, <1>12
  <2>2. Moved(u, h1, w, ws)  BY <2>1, <1>8
  <2>3. Moved(u, h, w, ws)  BY <2>1, <2>2 DEF Moved
  <2>4. u \in Tree  BY <1>8 DEF TreeInv, Linked
  <2> QED  BY <2>3, <2>4, UpdateRectSame, SameHomes DEF Same
<1> QED  BY <1>1, <1>9, <1>12

\* Move_container::execute
LEMMA MoveContainerKeeps ==
    ASSUME NEW t, TreeInv(t), NEW w \in Windows, NEW ws \in RootsOf(t, w), NEW dir
    PROVE  /\ TreeInv(MoveContainerTree(t, w, ws, dir))
           /\ \A h : Housed(t, h) /\ h[w] = ws
                    => Moved(MoveContainerTree(t, w, ws, dir), h, w, ws)
<1> DEFINE node == FindDirectionCompatibleNode(t, w, dir)
           top  == TilingLayout(t, ws)
<1>1. ws \in Workspaces /\ t.parent[w] # Nil /\ t.kids[ws] # <<>>
  BY RootHolds DEF TreeInv, Items
<1>2. CASE node # Nil
  <2>1. MoveContainerTree(t, w, ws, dir) = MoveToAdjacentNode(t, w, node, dir)
    BY <1>2 DEF MoveContainerTree
  <2>2. /\ node \in Items /\ t.parent[node] \in t.live
        /\ Len(t.kids[t.parent[w]]) # 1
        /\ \A adj \in Elements(t.kids[t.parent[node]]) :
              adj # node => adj # w /\ adj # t.parent[w]
        /\ \A h : Housed(t, h) => h[node] = h[w]
    BY <1>2, FoundNode
  <2> HIDE DEF node
  <2>3. TreeInv(MoveToAdjacentNode(t, w, node, dir))  BY <2>2, <1>1, MoveToAdjacentKeeps
  <2>4. \A h : Housed(t, h) /\ h[node] = h[w]
               => Moved(MoveToAdjacentNode(t, w, node, dir), h, w, h[w])
    BY <2>2, <1>1, MoveToAdjacentKeeps
  <2> QED  BY <2>1, <2>2, <2>3, <2>4
<1>3. CASE node = Nil /\ (Len(t.kids[top]) = 1 \/ IsCompatible(t.type[top], dir))
  BY <1>3 DEF MoveContainerTree, Moved
<1>4. CASE node = Nil /\ ~(Len(t.kids[top]) = 1 \/ IsCompatible(t.type[top], dir))
  <2>1. MoveContainerTree(t, w, ws, dir) = MoveToTopNode(t, w, ws, dir)
    BY <1>4 DEF MoveContainerTree
  <2>2. TreeInv(MoveToTopNode(t, w, ws, dir))  BY <1>1, <1>4, MoveToTopNodeKeeps
  <2>3. \A h : Housed(t, h) => Moved(MoveToTopNode(t, w, ws, dir), h, w, ws)
    BY <1>1, <1>4, MoveToTopNodeKeeps
  <2> QED  BY <2>1, <2>2, <2>3
<1> QED  BY <1>2, <1>3, <1>4

-----------------------------------------------------------------------------
(* Where a tree starts, and what a handler knows of it.                     *)

\* The workspaces of a new State hold nothing.
LEMMA EmptyIsTree == TreeInv(EmptyTree)
<1> DEFINE t == EmptyTree
<1>1. /\ t.live = {} /\ \A n \in Items : t.parent[n] = Nil
      /\ \A p \in Parents : t.kids[p] = <<>> /\ Elements(t.kids[p]) = {} /\ Len(t.kids[p]) = 0
  BY DEF EmptyTree, Elements
<1>2. t \in Tree
  <2>1. <<>> \in Seq(Items)  OBVIOUS
  <2> QED  BY <2>1 DEF EmptyTree, Tree, Types, Marks
<1> HIDE DEF t
<1>3. Nil \notin Parents /\ Layouts \subseteq Items /\ Workspaces \subseteq Parents
  BY KindsAssumption DEF Parents, Items
<1>4. \A p \in Parents : NoDuplicates(t.kids[p])  BY <1>1 DEF NoDuplicates
<1>5. Linked(t)  BY <1>1, <1>2, <1>3, <1>4 DEF Linked
<1>6. Acyclic(t)
  <2> DEFINE r == [l \in Layouts |-> 0]
  <2>1. Ranks(t, r)  BY <1>1, <1>3, KindsAssumption DEF Ranks
  <2> QED  BY <2>1 DEF Acyclic
<1>7. Shaped(t, t.live)  BY <1>1, <1>3 DEF Shaped
<1> QED  BY <1>5, <1>6, <1>7 DEF TreeInv, t

\* The current window of a workspace that is not empty is one below it.
LEMMA CurrentIsBelow ==
    ASSUME NEW t, TreeInv(t), NEW w \in Windows, NEW ws \in Workspaces,
           ws \notin RootsOf(t, w), t.kids[ws] # <<>>,
           NEW current \in IF WindowsOf(t, ws) = {} THEN {Nil} ELSE WindowsOf(t, ws)
    PROVE  current \in Windows \ {w} /\ t.parent[current] # Nil
<1>1. current \in WindowsOf(t, ws)  BY WindowBelow
<1>2. current \in Windows /\ current \in Below(t, ws)  BY <1>1 DEF WindowsOf
<1>3. t.parent[current] # Nil /\ ws \in RootsOf(t, current)
  BY <1>2, BelowIsAbove DEF TreeInv
<1> QED  BY <1>2, <1>3

\* A window that is in no layout has no root.
LEMMA LooseHasNoRoot ==
    ASSUME NEW t, Linked(t), NEW w \in Windows, t.parent[w] = Nil
    PROVE  \A ws \in Workspaces : ws \notin RootsOf(t, w)
BY RootHolds DEF Items


-----------------------------------------------------------------------------
(* The workspace of a node is the one it lies below.                        *)

\* A node is on the k-th level below its k-th ancestor.
LEMMA ClimbIsLevel ==
    ASSUME NEW t, Linked(t), NEW q \in Parents
    PROVE  \A k \in 1..Height, n \in Items : Climb(t, n)[k] = q => n \in Levels(t, q)[k]
<1> DEFINE lv == Levels(t, q)
           A  == {j \in Nat : j + 1 <= Height =>
                     \A m \in Items : Climb(t, m)[j+1] = q => m \in lv[j+1]}
<1>1. t \in Tree /\ q # Nil
  BY KindsAssumption DEF Linked, Parents, Items
<1>2. lv[0] = {q} /\ \A j \in 1..Height :
         lv[j] = UNION {Elements(t.kids[p]) : p \in lv[j-1] \cap Parents}
  BY <1>1, LevelSteps
<1>3. Height \in Nat /\ Height >= 1  BY HeightIsNat
<1>4. 1 \in 1..Height /\ 1 - 1 = 0 /\ 1 \in 0..Height  BY <1>3
<1>5. \A m \in Items : Climb(t, m)[1] = t.parent[m]  BY <1>1, <1>4, ClimbSteps
<1>6. \A j \in 1..Height, m \in Items : t.parent[m] \in Parents /\ t.parent[m] \in lv[j-1]
                                          => m \in lv[j]
  <2> SUFFICES ASSUME NEW j \in 1..Height, NEW m \in Items, t.parent[m] \in Parents,
                      t.parent[m] \in lv[j-1]
               PROVE  m \in lv[j]
    OBVIOUS
  <2>1. m \in Elements(t.kids[t.parent[m]])  BY DEF Linked
  <2> QED  BY <2>1, <1>2
<1> HIDE DEF lv
<1>7. 0 \in A  BY <1>1, <1>2, <1>4, <1>5, <1>6
<1>8. ASSUME NEW j \in Nat, j \in A  PROVE j + 1 \in A
  <2> SUFFICES ASSUME (j+1) + 1 <= Height, NEW m \in Items, Climb(t, m)[(j+1)+1] = q
               PROVE  m \in lv[(j+1)+1]
    OBVIOUS
  <2>1. /\ (j+1)+1 \in 1..Height /\ ((j+1)+1) - 1 = j + 1 /\ j + 1 \in 0..Height - 1
        /\ j + 1 <= Height /\ 1 < (j+1)+1
    BY <1>3
  <2>2. t.parent[m] \in Items
    <3> SUFFICES ASSUME t.parent[m] \notin Items  PROVE FALSE  OBVIOUS
    <3>1. Climb(t, m)[1] \notin Items  BY <1>5
    <3>2. Climb(t, m)[(j+1)+1] = Nil  BY <3>1, <2>1, <1>1, <1>4, ClimbEnds
    <3> QED  BY <3>2, <1>1
  <2>3. Climb(t, t.parent[m])[j+1] = q  BY <2>1, <2>2, <1>1, ClimbShift
  <2>4. t.parent[m] \in lv[j+1]  BY <2>1, <2>2, <2>3, <1>8
  <2>5. t.parent[m] \in Parents
    BY <2>2, <1>1, KindsAssumption DEF Tree, Items
  <2> QED  BY <2>1, <2>4, <2>5, <1>6
<1>9. Nat \subseteq A
  <2> HIDE DEF A
  <2> QED  BY <1>7, <1>8, EveryNumber
<1>10. ASSUME NEW k \in 1..Height, NEW n \in Items, Climb(t, n)[k] = q  PROVE n \in lv[k]
  <2>1. k - 1 \in Nat /\ (k - 1) + 1 = k /\ k <= Height  BY <1>3
  <2>2. k - 1 \in A  BY <1>9, <2>1
  <2> QED  BY <2>1, <2>2, <1>10
<1> QED  BY <1>10 DEF lv

\* What lies below a workspace is on it.
LEMMA BelowIsHome ==
    ASSUME NEW t, Linked(t), NEW h, Housed(t, h), NEW ws \in Workspaces, NEW n \in Below(t, ws)
    PROVE  n \in Items /\ h[n] = ws
<1> DEFINE lv == Levels(t, ws)
           A  == {j \in Nat : j + 1 <= Height => \A m \in Items : m \in lv[j+1] => h[m] = ws}
<1>1. t \in Tree /\ ws \in Parents /\ ws \notin Items
  BY KindsAssumption DEF Linked, Parents, Items
<1>2. lv[0] = {ws} /\ \A j \in 1..Height : lv[j] \subseteq Items  BY <1>1, LevelSteps
<1>3. Height \in Nat /\ Height >= 1  BY HeightIsNat
<1>4. \A j \in 1..Height, m \in Items : m \in lv[j] => t.parent[m] \in lv[j-1]
  BY LevelIsClimb DEF Parents
<1>5. PICK k \in 1..Height : n \in lv[k]  BY DEF Below
<1> HIDE DEF lv
<1>6. 0 \in A
  <2>1. 1 \in 1..Height /\ 1 - 1 = 0 /\ 0 + 1 = 1  BY <1>3
  <2>2. \A m \in Items : m \in lv[1] => t.parent[m] = ws  BY <2>1, <1>2, <1>4
  <2> QED  BY <2>1, <2>2, <1>1 DEF Housed, Up
<1>7. ASSUME NEW j \in Nat, j \in A  PROVE j + 1 \in A
  <2> SUFFICES ASSUME (j+1) + 1 <= Height, NEW m \in Items, m \in lv[(j+1)+1]
               PROVE  h[m] = ws
    OBVIOUS
  <2>1. /\ (j+1)+1 \in 1..Height /\ ((j+1)+1) - 1 = j + 1 /\ j + 1 \in 1..Height
        /\ j + 1 <= Height
    BY <1>3
  <2>2. t.parent[m] \in lv[j+1]  BY <2>1, <1>4
  <2>3. t.parent[m] \in Items  BY <2>1, <2>2, <1>2
  <2>4. h[t.parent[m]] = ws  BY <2>1, <2>2, <2>3, <1>7
  <2> QED  BY <2>3, <2>4, ParentHome
<1>8. Nat \subseteq A
  <2> HIDE DEF A
  <2> QED  BY <1>6, <1>7, EveryNumber
<1>9. n \in Items  BY <1>2, <1>5
<1>10. k - 1 \in Nat /\ (k - 1) + 1 = k /\ k <= Height  BY <1>3
<1>11. k - 1 \in A  BY <1>8, <1>10
<1> QED  BY <1>5, <1>9, <1>10, <1>11

\* A node lies below the workspace it is on, which is the only one above it.
LEMMA HomeIsRoot ==
    ASSUME NEW t, TreeInv(t), NEW h, Housed(t, h), NEW n \in Items, NEW ws \in Workspaces
    PROVE  /\ ws \in RootsOf(t, n) <=> h[n] = ws
           /\ n \in Below(t, ws) <=> h[n] = ws
<1>1. Linked(t) /\ Nil \notin Items /\ Nil \notin Workspaces
  BY KindsAssumption DEF TreeInv, Items
<1>2. \A x \in RootsOf(t, n) : x \in Workspaces /\ n \in Below(t, x) /\ h[n] = x
  <2> SUFFICES ASSUME NEW x \in RootsOf(t, n)
               PROVE  x \in Workspaces /\ n \in Below(t, x) /\ h[n] = x
    OBVIOUS
  <2>1. PICK k \in 1..Height : Climb(t, n)[k] = x /\ x \in Workspaces
    BY DEF RootsOf, Ancestors
  <2>2. n \in Levels(t, x)[k]  BY <2>1, <1>1, ClimbIsLevel DEF Parents
  <2>3. n \in Below(t, x)  BY <2>2 DEF Below
  <2> QED  BY <2>1, <2>3, <1>1, BelowIsHome
<1>3. h[n] = ws => ws \in RootsOf(t, n) /\ n \in Below(t, ws)
  <2> SUFFICES ASSUME h[n] = ws  PROVE ws \in RootsOf(t, n) /\ n \in Below(t, ws)
    OBVIOUS
  <2>1. t.parent[n] # Nil  BY <1>1 DEF Housed, Up
  <2>2. Cardinality(RootsOf(t, n)) = 1  BY <2>1, OneRoot
  <2>3. RootsOf(t, n) # {}  BY <2>2, FS_EmptySet
  <2> QED  BY <2>3, <1>2
<1>4. n \in Below(t, ws) => h[n] = ws  BY <1>1, BelowIsHome
<1> QED  BY <1>2, <1>3, <1>4

\* The windows of a workspace are those whose way up ends at it.
LEMMA WindowsAtHome ==
    ASSUME NEW t, TreeInv(t), NEW h, Housed(t, h), NEW ws \in Workspaces
    PROVE  WindowsOf(t, ws) = {w \in Windows : h[w] = ws}
BY HomeIsRoot DEF WindowsOf, Items

-----------------------------------------------------------------------------
(* The window in front of a node.                                           *)

\* What FrontWalk computes: each step goes to the first child, until a window is met.
LEMMA FrontSteps ==
    ASSUME NEW t, TreeInv(t), NEW n \in Windows \cup t.live
    PROVE  /\ FrontWalk(t, n) \in [0..Height -> Windows \cup t.live]
           /\ FrontWalk(t, n)[0] = n
           /\ \A k \in 1..Height :
                 FrontWalk(t, n)[k] = IF FrontWalk(t, n)[k-1] \in Windows THEN FrontWalk(t, n)[k-1]
                                  ELSE Head(t.kids[FrontWalk(t, n)[k-1]])
           /\ \A l \in t.live : /\ Head(t.kids[l]) \in Windows \cup t.live
                                /\ t.parent[Head(t.kids[l])] = l
<1> DEFINE X == Windows \cup t.live
           f == [x \in X |-> IF x \in Windows THEN x ELSE Head(t.kids[x])]
           F(g) == [k \in 0..Height |-> IF k = 0 THEN n
                                        ELSE IF g[k-1] \in Windows THEN g[k-1]
                                             ELSE Head(t.kids[g[k-1]])]
<1>0. ASSUME NEW l \in t.live
      PROVE  Head(t.kids[l]) \in X /\ t.parent[Head(t.kids[l])] = l
  <2>1. l \in Layouts /\ l \in Parents /\ t \in Tree /\ Linked(t) /\ l # Nil
    BY KindsAssumption DEF TreeInv, Linked, Tree, Parents
  <2>2. t.kids[l] # <<>>  BY DEF TreeInv, Shaped, Full
  <2>3. t.kids[l] \in Seq(Items) /\ Len(t.kids[l]) \in Nat /\ Len(t.kids[l]) # 0
    BY <2>1, <2>2, KidsAreLists
  <2>4. 1 \in 1..Len(t.kids[l]) /\ Head(t.kids[l]) = t.kids[l][1]  BY <2>2, <2>3
  <2>5. Head(t.kids[l]) \in Items /\ Head(t.kids[l]) \in Elements(t.kids[l])
    BY <2>1, <2>4, KidsAreLists
  <2>6. t.parent[Head(t.kids[l])] = l  BY <2>1, <2>5 DEF Linked
  <2> QED  BY <2>1, <2>5, <2>6 DEF Linked, Items
<1>1. f \in [X -> X]  BY <1>0
<1>2. n \in X  OBVIOUS
<1> HIDE DEF f, X
<1>3. PICK g \in [0..Height -> X] : IsChain(g, f, n, Height)
  BY <1>1, <1>2, HeightIsNat, ChainExists
<1> USE DEF f, X
<1>4. g = F(g)
  <2>1. \A k \in 1..Height : g[k-1] \in X  BY HeightIsNat
  <2>2. \A k \in 1..Height : g[k] = IF g[k-1] \in Windows THEN g[k-1] ELSE Head(t.kids[g[k-1]])
    BY <1>3, <2>1 DEF IsChain
  <2>3. \A k \in 0..Height : k = 0 \/ k \in 1..Height  BY HeightIsNat
  <2>4. \A k \in 0..Height : g[k] = F(g)[k]  BY <1>3, <2>2, <2>3 DEF IsChain
  <2> QED  BY <2>4
<1>5. FrontWalk(t, n) = F(FrontWalk(t, n))
  <2>1. FrontWalk(t, n) = CHOOSE h : h = F(h)  BY DEF FrontWalk
  <2> HIDE DEF F
  <2> QED  BY <2>1, <1>4
<1> DEFINE c == FrontWalk(t, n)
<1> HIDE DEF c
<1>6. c = F(c)  BY <1>5 DEF c
<1>7. c[0] = n /\ \A k \in 1..Height : c[k] = IF c[k-1] \in Windows THEN c[k-1]
                                              ELSE Head(t.kids[c[k-1]])
  <2>1. 0 \in 0..Height /\ \A k \in 1..Height : k \in 0..Height /\ k # 0  BY HeightIsNat
  <2> QED  BY <2>1, <1>6
<1>8. \A k \in 0..Height : c[k] \in X
  <2> DEFINE A == {k \in Nat : k <= Height => c[k] \in X}
  <2>1. 0 \in A  BY <1>2, <1>7
  <2>2. ASSUME NEW k \in Nat, k \in A  PROVE k + 1 \in A
    <3> SUFFICES ASSUME k + 1 <= Height  PROVE c[k+1] \in X  OBVIOUS
    <3>1. k + 1 \in 1..Height /\ (k + 1) - 1 = k /\ k <= Height  BY HeightIsNat
    <3>2. c[k] \in X  BY <3>1, <2>2
    <3>3. c[k+1] = IF c[k] \in Windows THEN c[k] ELSE Head(t.kids[c[k]])  BY <3>1, <1>7
    <3> QED  BY <3>2, <3>3, <1>0
  <2>3. Nat \subseteq A
    <3> HIDE DEF A
    <3> QED  BY <2>1, <2>2, EveryNumber
  <2> QED  BY <2>3, HeightIsNat
<1>9. c \in [0..Height -> X]
  <2>1. c = [k \in 0..Height |-> c[k]]  BY <1>6
  <2> HIDE DEF X, F
  <2> QED  BY <2>1, <1>8
<1> QED  BY <1>0, <1>7, <1>9 DEF c

\* get_front_leaf ends at a window, which is on the workspace of the node.
LEMMA FrontIsHere ==
    ASSUME NEW t, TreeInv(t), NEW n \in Windows \cup t.live, NEW h, Housed(t, h)
    PROVE  FrontLeaf(t, n) \in Windows /\ h[FrontLeaf(t, n)] = h[n]
<1> DEFINE d == FrontWalk(t, n)
<1>1. PICK r : Ranks(t, r)  BY DEF TreeInv, Acyclic
<1>2. Height \in Nat /\ Height >= 1  BY HeightIsNat
<1>3. t.live \subseteq Layouts /\ Layouts \subseteq Items /\ Windows \subseteq Items
  BY DEF TreeInv, Linked, Tree, Items
<1>4. /\ d \in [0..Height -> Windows \cup t.live] /\ d[0] = n
      /\ \A k \in 1..Height : d[k] = IF d[k-1] \in Windows THEN d[k-1] ELSE Head(t.kids[d[k-1]])
      /\ \A l \in t.live : /\ Head(t.kids[l]) \in Windows \cup t.live
                           /\ t.parent[Head(t.kids[l])] = l
  BY FrontSteps
<1> HIDE DEF d
<1>5. h[d[Height]] = h[n]
  <2> DEFINE A == {k \in Nat : k <= Height => h[d[k]] = h[n]}
  <2>1. 0 \in A  BY <1>4
  <2>2. ASSUME NEW k \in Nat, k \in A  PROVE k + 1 \in A
    <3> SUFFICES ASSUME k + 1 <= Height  PROVE h[d[k+1]] = h[n]  OBVIOUS
    <3>1. k + 1 \in 1..Height /\ (k + 1) - 1 = k /\ k <= Height /\ k \in 0..Height  BY <1>2
    <3>2. h[d[k]] = h[n]  BY <3>1, <2>2
    <3>3. d[k+1] = IF d[k] \in Windows THEN d[k] ELSE Head(t.kids[d[k]])  BY <3>1, <1>4
    <3>4. CASE d[k] \in Windows  BY <3>2, <3>3, <3>4
    <3>5. CASE d[k] \notin Windows
      <4>1. d[k] \in t.live  BY <3>1, <3>5, <1>4
      <4>2. d[k+1] \in Items /\ t.parent[d[k+1]] = d[k] /\ d[k] \in Items
        BY <3>3, <3>5, <4>1, <1>3, <1>4
      <4> QED  BY <3>2, <4>2, ParentHome
    <3> QED  BY <3>4, <3>5
  <2>3. Nat \subseteq A
    <3> HIDE DEF A
    <3> QED  BY <2>1, <2>2, EveryNumber
  <2> QED  BY <2>3, <1>2
<1>6. d[Height] \in Windows
  <2> SUFFICES ASSUME d[Height] \notin Windows  PROVE FALSE  OBVIOUS
  <2>1. \A k \in 0..Height : d[k] \notin Windows
    <3> DEFINE A == {e \in Nat : e <= Height => d[Height - e] \notin Windows}
    <3>1. 0 \in A  BY <1>2
    <3>2. ASSUME NEW e \in Nat, e \in A  PROVE e + 1 \in A
      <4> SUFFICES ASSUME e + 1 <= Height, d[Height - (e + 1)] \in Windows  PROVE FALSE
        OBVIOUS
      <4>1. Height - e \in 1..Height /\ (Height - e) - 1 = Height - (e + 1) /\ e <= Height
        BY <1>2
      <4>2. d[Height - e] = d[Height - (e + 1)]  BY <4>1, <1>4
      <4> QED  BY <4>1, <4>2, <3>2
    <3>3. Nat \subseteq A
      <4> HIDE DEF A
      <4> QED  BY <3>1, <3>2, EveryNumber
    <3>4. ASSUME NEW k \in 0..Height  PROVE d[k] \notin Windows
      <4>1. Height - k \in Nat /\ Height - k <= Height /\ Height - (Height - k) = k  BY <1>2
      <4> QED  BY <4>1, <3>3
    <3> QED  BY <3>4
  <2>2. \A k \in 0..Height : d[k] \in t.live  BY <2>1, <1>4
  <2>3. ASSUME NEW k \in 1..Height  PROVE d[k] \in Layouts /\ r[d[k-1]] < r[d[k]]
    <3>1. k - 1 \in 0..Height /\ k \in 0..Height  BY <1>2
    <3>2. d[k-1] \in t.live /\ d[k] \in t.live /\ d[k-1] \notin Windows  BY <3>1, <2>1, <2>2
    <3>3. t.parent[d[k]] = d[k-1]  BY <3>2, <1>4
    <3> QED  BY <3>2, <3>3, <1>1, <1>3 DEF Ranks
  <2>4. \A k \in 1..Height : r[d[k]] \in Nat  BY <2>3, <1>1 DEF Ranks
  <2>5. ASSUME NEW i \in 1..Height, NEW j \in 1..Height, i < j  PROVE r[d[i]] < r[d[j]]
    <3> DEFINE A == {e \in Nat : i + e + 1 <= Height => r[d[i]] < r[d[i+e+1]]}
    <3>1. 0 \in A
      <4>1. i + 0 + 1 \in 1..Height /\ (i + 0 + 1) - 1 = i  BY <1>2, <2>5
      <4> QED  BY <4>1, <2>3
    <3>2. ASSUME NEW e \in Nat, e \in A  PROVE e + 1 \in A
      <4> SUFFICES ASSUME i + (e + 1) + 1 <= Height  PROVE r[d[i]] < r[d[i+(e+1)+1]]
        OBVIOUS
      <4>1. /\ i+(e+1)+1 \in 1..Height /\ (i+(e+1)+1) - 1 = i+e+1 /\ i+e+1 \in 1..Height
            /\ i+e+1 <= Height
        BY <1>2
      <4>2. r[d[i]] < r[d[i+e+1]] /\ r[d[i+e+1]] < r[d[i+(e+1)+1]]  BY <4>1, <3>2, <2>3
      <4>3. r[d[i]] \in Nat /\ r[d[i+e+1]] \in Nat /\ r[d[i+(e+1)+1]] \in Nat  BY <4>1, <2>4
      <4> QED  BY <4>2, <4>3
    <3>3. Nat \subseteq A
      <4> HIDE DEF A
      <4> QED  BY <3>1, <3>2, EveryNumber
    <3>4. j - i - 1 \in Nat /\ i + (j - i - 1) + 1 = j /\ j <= Height  BY <2>5, <1>2
    <3>5. j - i - 1 \in A  BY <3>3, <3>4
    <3> QED  BY <3>4, <3>5
  <2> DEFINE g == [k \in 1..Height |-> d[k]]
  <2>6. g \in [1..Height -> Layouts]  BY <2>3
  <2>7. \E i, j \in 1..Height : i < j /\ g[i] = g[j]
    <3> HIDE DEF g
    <3> QED  BY <2>6, TooManyLayouts
  <2>8. PICK i \in 1..Height, j \in 1..Height : i < j /\ d[i] = d[j]  BY <2>7
  <2>9. r[d[i]] < r[d[i]] /\ r[d[i]] \in Nat  BY <2>4, <2>5, <2>8
  <2> QED  BY <2>9
<1> QED  BY <1>5, <1>6 DEF d, FrontLeaf

\* Move_focus::execute goes to a window of the same workspace.
LEMMA MoveFocusStaysHere ==
    ASSUME NEW t, TreeInv(t), NEW w \in Windows, NEW dir, NEW h, Housed(t, h)
    PROVE  /\ MoveFocusTarget(t, w, dir) \in Windows
           /\ h[MoveFocusTarget(t, w, dir)] = h[w]
<1> DEFINE node == FindDirectionCompatibleNode(t, w, dir)
           p    == t.parent[node]
           sibs == t.kids[p]
           i    == IndexOf(t, node)
           j    == IF dir \in Backward THEN (IF i = 1 THEN Len(sibs) ELSE i - 1)
                                       ELSE (IF i = Len(sibs) THEN 1 ELSE i + 1)
<1>1. MoveFocusTarget(t, w, dir) = IF node = Nil THEN w ELSE FrontLeaf(t, sibs[j])
  BY DEF MoveFocusTarget
<1>2. CASE node = Nil  BY <1>1, <1>2
<1>3. CASE node # Nil
  <2>1. node \in Items /\ p \in t.live /\ h[node] = h[w]
    <3>1. node # Nil  BY <1>3
    <3> QED  BY <3>1, FoundNode
  <2> HIDE DEF node
  <2>2. /\ t \in Tree /\ Linked(t) /\ p \in Layouts /\ p \in Parents /\ p \in Items /\ p # Nil
    BY <2>1, KindsAssumption DEF TreeInv, Linked, Tree, Parents, Items
  <2>3. node \in Elements(sibs) /\ sibs \in Seq(Items) /\ Len(sibs) \in Nat
    BY <2>1, <2>2, KidsAreLists DEF Linked
  <2>4. i \in 1..Len(sibs)  BY <2>3, PositionFound DEF IndexOf
  <2> HIDE DEF i
  <2>5. j \in 1..Len(sibs)  BY <2>3, <2>4
  <2> HIDE DEF j
  <2> DEFINE m == sibs[j]
  <2>6. m \in Items /\ m \in Elements(sibs)  BY <2>2, <2>5, KidsAreLists
  <2>7. t.parent[m] = p  BY <2>2, <2>6 DEF Linked
  <2>8. m \in Windows \cup t.live  BY <2>2, <2>6, <2>7 DEF Linked, Items
  <2> HIDE DEF m
  <2>9. h[m] = h[p] /\ h[p] = h[node]
    <3> HIDE DEF p
    <3>1. h[m] = h[p]  BY <2>2, <2>6, <2>7, ParentHome
    <3>2. p = t.parent[node]  BY DEF p
    <3>3. h[t.parent[node]] = h[node]  BY <2>1, <2>2, <3>2, ParentHome
    <3> QED  BY <3>1, <3>2, <3>3
  <2>10. FrontLeaf(t, m) \in Windows /\ h[FrontLeaf(t, m)] = h[m]  BY <2>8, FrontIsHere
  <2>11. MoveFocusTarget(t, w, dir) = FrontLeaf(t, m)  BY <1>1, <1>3 DEF m, node
  <2> QED  BY <2>1, <2>9, <2>10, <2>11
<1> QED  BY <1>2, <1>3

-----------------------------------------------------------------------------
(* Rectangles: every operation ends with an update_rect that reaches what   *)
(* it has changed.                                                          *)

\* What lies below a node is a matter of the child lists.
LEMMA SameBelow ==
    ASSUME NEW t, NEW u, u.kids = t.kids
    PROVE  \A q : Below(u, q) = Below(t, q)
BY DEF Below, Levels

\* n is q or lies below it.
Over(t, q, n) == n = q \/ n \in Below(t, q)

\* A set that has the children of q, and the children of what it has, has all below q.
LEMMA BelowLeast ==
    ASSUME NEW t \in Tree, NEW q \in Parents, NEW S, Elements(t.kids[q]) \subseteq S,
           \A p \in S \cap Parents : Elements(t.kids[p]) \subseteq S
    PROVE  Below(t, q) \subseteq S
<1> DEFINE lv == Levels(t, q)
           A  == {j \in Nat : j + 1 <= Height => lv[j+1] \subseteq S}
<1>1. lv[0] = {q} /\ \A j \in 1..Height :
         lv[j] = UNION {Elements(t.kids[p]) : p \in lv[j-1] \cap Parents}
  BY LevelSteps
<1> HIDE DEF lv
<1>2. Height \in Nat /\ Height >= 1  BY HeightIsNat
<1>3. 1 \in 1..Height /\ 1 - 1 = 0  BY <1>2
<1>4. 0 \in A  BY <1>1, <1>3
<1>5. ASSUME NEW j \in Nat, j \in A  PROVE j + 1 \in A
  <2> SUFFICES ASSUME (j+1) + 1 <= Height  PROVE lv[(j+1)+1] \subseteq S  OBVIOUS
  <2>1. (j+1)+1 \in 1..Height /\ ((j+1)+1) - 1 = j + 1 /\ j + 1 <= Height  BY <1>2
  <2>2. lv[j+1] \subseteq S  BY <1>5, <2>1
  <2> QED  BY <1>1, <2>1, <2>2
<1>6. Nat \subseteq A
  <2> HIDE DEF A
  <2> QED  BY <1>4, <1>5, EveryNumber
<1>7. ASSUME NEW k \in 1..Height  PROVE lv[k] \subseteq S
  <2>1. k - 1 \in Nat /\ (k - 1) + 1 = k /\ k <= Height  BY <1>2
  <2>2. k - 1 \in A  BY <1>6, <2>1
  <2> QED  BY <2>1, <2>2
<1> QED  BY <1>7 DEF Below, lv

\* No chain of layouts is so long that Below would miss what lies below it.
LEMMA BelowClosed ==
    ASSUME NEW t, Linked(t), Acyclic(t), NEW q \in Parents, NEW x \in Parents, Over(t, q, x)
    PROVE  Elements(t.kids[x]) \subseteq Below(t, q)
<1> DEFINE lv == Levels(t, q)
           c  == Climb(t, x)
<1>1. t \in Tree  BY DEF Linked
<1>2. lv[0] = {q} /\ \A j \in 1..Height :
         lv[j] = UNION {Elements(t.kids[p]) : p \in lv[j-1] \cap Parents} /\ lv[j] \subseteq Items
  BY <1>1, LevelSteps
<1>3. Height \in Nat /\ Height >= 1  BY HeightIsNat
<1>4. PICK k \in 0..Height : x \in lv[k]
  <2>1. 0 \in 0..Height /\ 1..Height \subseteq 0..Height  BY <1>3
  <2>2. CASE x = q  BY <2>1, <2>2, <1>2
  <2>3. CASE x \in Below(t, q)  BY <2>1, <2>3 DEF Below
  <2> QED  BY <2>2, <2>3 DEF Over
<1>5. k # Height
  <2> SUFFICES ASSUME k = Height  PROVE FALSE  OBVIOUS
  <2>1. Height \in 1..Height /\ Height \in 0..Height  BY <1>3
  <2>2. x \in Items /\ x \in Layouts
    BY <2>1, <1>2, <1>4, KindsAssumption DEF Items, Parents
  <2>3. c[Height] = q  BY <2>1, <2>2, <1>4, LevelIsClimb
  <2>4. /\ c[0] = x
        /\ \A j \in 1..Height : c[j] = IF c[j-1] \in Items THEN t.parent[c[j-1]] ELSE Nil
    BY <1>1, <2>2, ClimbSteps
  <2>5. q # Nil  BY KindsAssumption DEF Parents
  <2>6. \A j \in 0..Height : j < Height => c[j] \in Items
    BY <1>1, <2>1, <2>2, <2>3, <2>5, ClimbEnds
  <2> HIDE DEF c
  <2>7. \A j \in 0..Height : j < Height => c[j] \in Layouts
    <3> SUFFICES ASSUME NEW j \in 0..Height, j < Height, j # 0  PROVE c[j] \in Layouts
      BY <2>2, <2>4
    <3>1. j \in 1..Height /\ j - 1 \in 0..Height /\ j - 1 < Height  BY <1>3
    <3>2. c[j] = t.parent[c[j-1]] /\ c[j-1] \in Items /\ c[j] \in Items  BY <3>1, <2>4, <2>6
    <3>3. t.parent[c[j-1]] \in Parents \cup {Nil}  BY <3>2, <1>1 DEF Tree
    <3> QED  BY <3>2, <3>3, KindsAssumption DEF Parents, Items
  <2> DEFINE f == [j \in 1..Height |-> c[j-1]]
  <2>8. f \in [1..Height -> Layouts]
    <3>1. \A j \in 1..Height : j - 1 \in 0..Height /\ j - 1 < Height  BY <1>3
    <3> QED  BY <3>1, <2>7
  <2>9. PICK i \in 1..Height, j \in 1..Height : i < j /\ c[i-1] = c[j-1]
    <3> HIDE DEF f
    <3>1. PICK i, j \in 1..Height : i < j /\ f[i] = f[j]  BY <2>8, TooManyLayouts
    <3> QED  BY <3>1 DEF f
  <2>10. c[i] = c[j]  BY <2>4, <2>9
  <2>11. i < Height /\ i \in 0..Height /\ j \in 0..Height  BY <1>3, <2>9
  <2>12. c[j] \in Layouts  BY <2>7, <2>10, <2>11
  <2>13. PICK r : Ranks(t, r)  BY DEF Acyclic
  <2>14. r[c[j]] < r[c[i]]  BY <2>2, <2>9, <2>12, <2>13, <1>1, ClimbRanks DEF c
  <2>15. r[c[j]] \in Nat  BY <2>12, <2>13 DEF Ranks
  <2> QED  BY <2>10, <2>14, <2>15
<1>6. k + 1 \in 1..Height /\ (k + 1) - 1 = k  BY <1>3, <1>5
<1>7. Elements(t.kids[x]) \subseteq lv[k+1]  BY <1>2, <1>4, <1>6
<1> QED  BY <1>6, <1>7 DEF Below

\* What lies below a node that is q or below it lies below q.
LEMMA BelowBelow ==
    ASSUME NEW t, Linked(t), Acyclic(t), NEW q \in Parents, NEW x \in Parents, Over(t, q, x)
    PROVE  Below(t, x) \subseteq Below(t, q)
<1>1. t \in Tree  BY DEF Linked
<1>2. Elements(t.kids[x]) \subseteq Below(t, q)  BY BelowClosed
<1>3. \A p \in Below(t, q) \cap Parents : Elements(t.kids[p]) \subseteq Below(t, q)
  BY BelowClosed DEF Over
<1> QED  BY <1>1, <1>2, <1>3, BelowLeast

\* A layout is not below itself.
LEMMA NotBelowItself ==
    ASSUME NEW t, Linked(t), Acyclic(t), NEW q \in Parents
    PROVE  q \notin Below(t, q)
<1>1. t \in Tree  BY DEF Linked
<1>2. CASE q \in Workspaces
  <2>1. Below(t, q) \subseteq Items  BY <1>1, BelowIsItems
  <2> QED  BY <1>2, <2>1, KindsAssumption DEF Items
<1>3. CASE q \in Layouts
  <2>1. PICK r : Ranks(t, r)  BY DEF Acyclic
  <2> DEFINE S == {x \in Items : x \in Layouts => r[q] < r[x]}
  <2>2. \A p \in Parents : \A n \in Elements(t.kids[p]) : n \in Items /\ t.parent[n] = p
    <3>1. \A p \in Parents : Elements(t.kids[p]) \subseteq Items  BY <1>1, KidsAreLists DEF Elements
    <3> QED  BY <3>1 DEF Linked
  <2>3. \A x \in Layouts : r[x] \in Nat  BY <2>1 DEF Ranks
  <2>4. Elements(t.kids[q]) \subseteq S  BY <1>3, <2>1, <2>2 DEF Ranks
  <2>5. ASSUME NEW p \in S \cap Parents  PROVE Elements(t.kids[p]) \subseteq S
    <3>1. p \in Layouts /\ r[q] < r[p]  BY <2>5, KindsAssumption DEF Items, Parents
    <3>2. ASSUME NEW n \in Elements(t.kids[p]), n \in Layouts  PROVE r[q] < r[n]
      <4>1. r[p] < r[n]  BY <3>1, <3>2, <2>1, <2>2 DEF Ranks
      <4> QED  BY <4>1, <3>1, <3>2, <1>3, <2>3
    <3> QED  BY <3>2, <2>2
  <2>6. Below(t, q) \subseteq S
    <3> HIDE DEF S
    <3> QED  BY <1>1, <2>4, <2>5, BelowLeast
  <2> QED  BY <2>6, <2>3, <1>3
<1> QED  BY <1>2, <1>3 DEF Parents

\* What a change of a child list makes stale: what is below it then.
LEMMA ChangedIsStale ==
    ASSUME NEW t \in Tree, NEW p \in Parents, NEW n \in Items
    PROVE  /\ LET u == RemoveChild(t, p, n)  IN u.stale = t.stale \cup Below(u, p)
           /\ \A i : LET u == InsertChild(t, p, i, n)  IN u.stale = t.stale \cup Below(u, p)
           /\ \A m : LET u == Replace(t, p, m, n)  IN u.stale = t.stale \cup Below(u, p)
           /\ \A i, j : LET u == ShiftChild(t, p, i, j)  IN u.stale = t.stale \cup Below(u, p)
<1>1. ASSUME NEW x, x.stale = t.stale, Touch(x, p).kids = x.kids,
             Touch(x, p).stale = x.stale \cup Below(x, p)
      PROVE  Touch(x, p).stale = t.stale \cup Below(Touch(x, p), p)
  <2>1. Below(Touch(x, p), p) = Below(x, p)  BY <1>1, SameBelow
  <2> QED  BY <1>1, <2>1
<1>2. LET u == RemoveChild(t, p, n)  IN u.stale = t.stale \cup Below(u, p)
  <2> DEFINE x == [t EXCEPT !.parent[n] = Nil, !.kids[p] = Erase(@, n)]
  <2>1. /\ x.stale = t.stale /\ Touch(x, p).kids = x.kids
        /\ Touch(x, p).stale = x.stale \cup Below(x, p)
    BY DEF Tree, Touch
  <2>2. RemoveChild(t, p, n) = Touch(x, p)  BY DEF RemoveChild
  <2> HIDE DEF x
  <2> QED  BY <1>1, <2>1, <2>2
<1>3. ASSUME NEW i
      PROVE  LET u == InsertChild(t, p, i, n)  IN u.stale = t.stale \cup Below(u, p)
  <2> DEFINE x == [t EXCEPT !.parent[n] = p, !.kids[p] = InsertAt(@, i, n)]
  <2>1. /\ x.stale = t.stale /\ Touch(x, p).kids = x.kids
        /\ Touch(x, p).stale = x.stale \cup Below(x, p)
    BY DEF Tree, Touch
  <2>2. InsertChild(t, p, i, n) = Touch(x, p)  BY DEF InsertChild
  <2> HIDE DEF x
  <2> QED  BY <1>1, <2>1, <2>2
<1>4. ASSUME NEW m
      PROVE  LET u == Replace(t, p, m, n)  IN u.stale = t.stale \cup Below(u, p)
  <2> DEFINE x == [t EXCEPT !.parent = [@ EXCEPT ![m] = Nil, ![n] = p],
                            !.kids[p] = [@ EXCEPT ![IndexOf(t, m)] = n]]
  <2>1. /\ x.stale = t.stale /\ Touch(x, p).kids = x.kids
        /\ Touch(x, p).stale = x.stale \cup Below(x, p)
    BY DEF Tree, Touch
  <2>2. Replace(t, p, m, n) = Touch(x, p)  BY DEF Replace
  <2> HIDE DEF x
  <2> QED  BY <1>1, <2>1, <2>2
<1>5. ASSUME NEW i, NEW j
      PROVE  LET u == ShiftChild(t, p, i, j)  IN u.stale = t.stale \cup Below(u, p)
  <2> DEFINE x == [t EXCEPT !.kids[p] = [@ EXCEPT ![i] = t.kids[p][j], ![j] = t.kids[p][i]]]
  <2>1. /\ x.stale = t.stale /\ Touch(x, p).kids = x.kids
        /\ Touch(x, p).stale = x.stale \cup Below(x, p)
    BY DEF Tree, Touch
  <2>2. ShiftChild(t, p, i, j) = Touch(x, p)  BY DEF ShiftChild
  <2> HIDE DEF x
  <2> QED  BY <1>1, <2>1, <2>2
<1> QED  BY <1>2, <1>3, <1>4, <1>5

\* Nothing else that makes a layout or deletes one is stale.
LEMMA OthersStale ==
    ASSUME NEW t \in Tree, NEW l \in Layouts
    PROVE  /\ \A ty : New(t, l, ty).stale = t.stale
           /\ Delete(t, l).stale = t.stale \ {l}
           /\ \A q : UpdateRect(t, q).kids = t.kids /\ UpdateRect(t, q).stale \subseteq t.stale
BY DEF New, Delete, UpdateRect, Tree

\* The windows of B may have an old geometry, and update_rect may pass over no others.
Unseen(t, B) == B \subseteq Windows /\ Windows \ t.normal \subseteq B

\* What is stale below q is fresh once q is updated, but for windows of B.
LEMMA Relaid ==
    ASSUME NEW t, Linked(t), Acyclic(t), NEW q \in Parents, NEW B, Unseen(t, B),
           t.stale \subseteq B \cup Below(t, q)
    PROVE  UpdateRect(t, q).stale \subseteq B
<1>1. t \in Tree  BY DEF Linked
<1>2. q \notin Windows  BY KindsAssumption DEF Parents
<1>3. q \notin t.stale  BY <1>2, NotBelowItself DEF Unseen
<1>4. UpdateRect(t, q) = [t EXCEPT !.stale = @ \ (Below(t, q) \cap (Layouts \cup t.normal))]
  BY <1>3 DEF UpdateRect
<1>5. UpdateRect(t, q).stale = t.stale \ (Below(t, q) \cap (Layouts \cup t.normal))
  BY <1>1, <1>4 DEF Tree
<1>6. Below(t, q) \subseteq Items  BY <1>1, BelowIsItems
<1> QED  BY <1>5, <1>6 DEF Unseen, Items

\* The same when another node is updated before.
LEMMA RelaidTwice ==
    ASSUME NEW t, Linked(t), Acyclic(t), NEW g \in Parents, NEW q \in Parents,
           NEW B, Unseen(t, B), t.stale \subseteq B \cup Below(t, g) \cup Below(t, q)
    PROVE  UpdateRect(UpdateRect(t, g), q).stale \subseteq B
<1> DEFINE u == UpdateRect(t, g)
<1>1. t \in Tree  BY DEF Linked
<1>2. Same(t, u)  BY <1>1, UpdateRectSame
<1>3. Linked(u) /\ Acyclic(u) /\ Unseen(u, B)  BY <1>2, SameKeeps DEF Same, Rest, Unseen
<1>4. Below(u, q) = Below(t, q)  BY <1>2, SameBelow DEF Same
<1>5. u.stale \subseteq B \cup Below(t, q)
  <2>1. g \notin Windows  BY KindsAssumption DEF Parents
  <2>2. CASE g \in t.stale
    <3>1. u = t  BY <2>2 DEF UpdateRect
    <3>2. g \notin B /\ g \notin Below(t, g)  BY <2>1, NotBelowItself DEF Unseen
    <3>3. Over(t, q, g)  BY <2>2, <3>2 DEF Over
    <3>4. Below(t, g) \subseteq Below(t, q)  BY <3>3, BelowBelow
    <3> QED  BY <3>1, <3>4
  <2>3. CASE g \notin t.stale
    <3>1. u = [t EXCEPT !.stale = @ \ (Below(t, g) \cap (Layouts \cup t.normal))]
      BY <2>3 DEF UpdateRect
    <3>2. u.stale = t.stale \ (Below(t, g) \cap (Layouts \cup t.normal))  BY <1>1, <3>1 DEF Tree
    <3>3. Below(t, g) \subseteq Items  BY <1>1, BelowIsItems
    <3> HIDE DEF u
    <3> QED  BY <3>2, <3>3 DEF Unseen, Items
  <2> QED  BY <2>2, <2>3
<1> HIDE DEF u
<1>6. UpdateRect(u, q).stale \subseteq B  BY <1>3, <1>4, <1>5, Relaid
<1> QED  BY <1>6 DEF u

\* Below q is what was there when lists only grow.
LEMMA BelowGrows ==
    ASSUME NEW t \in Tree, NEW u, Linked(u), Acyclic(u),
           \A p \in Parents : Elements(t.kids[p]) \subseteq Elements(u.kids[p]),
           NEW q \in Parents, NEW x \in Parents, Over(u, q, x)
    PROVE  Below(t, x) \subseteq Below(u, q)
<1>1. Elements(t.kids[x]) \subseteq Below(u, q)  BY BelowClosed
<1>2. \A p \in Below(u, q) \cap Parents : Elements(t.kids[p]) \subseteq Below(u, q)
  BY BelowClosed DEF Over
<1> QED  BY <1>1, <1>2, BelowLeast

\* What _purge_sole_node leaves, before it lays out: p is gone, its child has its place,
\* and what it makes stale is below its parent.
LEMMA SolePurged ==
    ASSUME NEW t, Linked(t), Acyclic(t), NEW p \in t.live, Shaped(t, t.live \ {p}),
           IsSole(t, p)
    PROVE  LET g == t.parent[p]
               c == t.kids[p][1]
               d == Delete(Replace(RemoveChild(t, p, c), g, p, c), p)
           IN  /\ PurgeSoleNode(t, p) = UpdateRect(d, g)
               /\ Linked(d) /\ Acyclic(d) /\ d.normal = t.normal
               /\ g \in Parents /\ c \in Elements(d.kids[g])
               /\ d.parent[c] = g /\ \A m \in Items \ {c, p} : d.parent[m] = t.parent[m]
               /\ Elements(t.kids[p]) = {c}
               /\ \A q \in Parents \ {p} : Elements(t.kids[q]) \subseteq {p} \cup Elements(d.kids[q])
               /\ d.stale \subseteq (t.stale \cup Below(d, g)) \ {p}
<1> DEFINE g  == t.parent[p]
           c  == t.kids[p][1]
           v1 == RemoveChild(t, p, c)
           v2 == Replace(v1, g, p, c)
           d  == Delete(v2, p)
           u  == PurgeSoleNode(t, p)
<1>1. t \in Tree /\ p \in Layouts /\ p \in Parents /\ p \in Items
  BY DEF Linked, Tree, Parents, Items
<1>2. u = UpdateRect(d, g)  BY DEF PurgeSoleNode
<1>3. c \in Items /\ Elements(t.kids[p]) = {c} /\ t.kids[p] # <<>>
  <2>1. Len(t.kids[p]) = 1  BY DEF IsSole
  <2>2. c \in Items /\ Elements(t.kids[p]) = {c}  BY <1>1, <2>1, OnlyKid
  <2>3. Len(t.kids[p]) # 0  BY <2>1
  <2> QED  BY <1>1, <2>2, <2>3, KidsAreLists
<1>4. TreeInv(u)  BY <1>3, PurgeSoleKeeps
<1>5. g # Nil  BY DEF Shaped
<1>6. g \in t.live \cup Workspaces  BY <1>1, <1>5, ParentKinds
<1> HIDE DEF g, c, v1, v2, d, u
<1>7. t.parent[c] = p  BY <1>1, <1>3 DEF Linked
<1>8. p # Nil /\ p \notin Workspaces /\ g \in Parents
  BY <1>1, <1>6, KindsAssumption DEF Tree, Parents
<1>9. c \in Windows \cup t.live  BY <1>3, <1>7, <1>8 DEF Linked, Items
<1>10. c # p /\ g # p
  <2>1. c \in Windows => c # p  BY <1>1, KindsAssumption
  <2>2. c \in Layouts => c # p  BY <1>1, <1>7, NoSelfParent
  <2>3. g \in Layouts => g # p  BY <1>1, NoSelfParent DEF g
  <2> QED  BY <2>1, <2>2, <2>3, <1>3, <1>8 DEF Items, Parents
<1>11. Removed(t, v1, p, c)  BY <1>1, <1>3, <1>7, RemoveChildLinks DEF v1
<1>12. /\ Linked(v1) /\ v1 \in Tree /\ v1.normal = t.normal /\ v1.live = t.live
       /\ v1.parent = [t.parent EXCEPT ![c] = Nil]
       /\ \A q \in Parents : q # p => v1.kids[q] = t.kids[q]
       /\ Elements(v1.kids[p]) = {}
  BY <1>3, <1>11 DEF Removed, Rest, Linked
<1>13. v1.parent[p] = g /\ v1.parent[c] = Nil
  BY <1>1, <1>3, <1>10, <1>12 DEF Tree, g
<1>14. Replaced(v1, v2, g, p, c)
  BY <1>1, <1>8, <1>9, <1>12, <1>13, ReplaceLinks DEF v2
<1>15. /\ Linked(v2) /\ v2 \in Tree /\ v2.normal = t.normal
       /\ v2.parent = [v1.parent EXCEPT ![p] = Nil, ![c] = g]
       /\ \A q \in Parents : q # g => v2.kids[q] = v1.kids[q]
       /\ Elements(v2.kids[g]) = (Elements(v1.kids[g]) \ {p}) \cup {c}
  BY <1>12, <1>14 DEF Replaced, Rest, Linked
<1>16. v2.parent[p] = Nil /\ v2.kids[p] = <<>>
  <2>1. v2.parent[p] = Nil  BY <1>1, <1>3, <1>10, <1>12, <1>15 DEF Tree
  <2>2. v1.kids[p] = <<>>  BY <1>1, <1>12, KidsAreLists
  <2> QED  BY <2>1, <2>2, <1>1, <1>10, <1>15
<1>17. Linked(d) /\ d.parent = v2.parent /\ d.kids = v2.kids /\ d.normal = t.normal
  BY <1>1, <1>15, <1>16, DeleteLinks DEF d
<1>18. Acyclic(d)
  <2>1. Same(d, u)  BY <1>2, <1>17, UpdateRectSame DEF Linked
  <2> QED  BY <2>1, <1>4 DEF Same, TreeInv, Acyclic, Ranks
<1>19. d.parent[c] = g /\ \A m \in Items \ {c, p} : d.parent[m] = t.parent[m]
  BY <1>1, <1>3, <1>10, <1>12, <1>15, <1>17 DEF Tree
<1>20. \A q \in Parents \ {p} : Elements(t.kids[q]) \subseteq {p} \cup Elements(d.kids[q])
  BY <1>12, <1>15, <1>17
<1>21. c \in Elements(d.kids[g])  BY <1>15, <1>17
<1>22. d.stale \subseteq (t.stale \cup Below(d, g)) \ {p}
  <2>1. v1.stale = t.stale \cup Below(v1, p)  BY <1>1, <1>3, ChangedIsStale DEF v1
  <2>2. Below(v1, p) \subseteq {}  BY <1>1, <1>12, BelowLeast
  <2>3. v2.stale = v1.stale \cup Below(v2, g)  BY <1>3, <1>8, <1>12, ChangedIsStale DEF v2
  <2>4. d.stale = v2.stale \ {p}  BY <1>1, <1>15, OthersStale DEF d
  <2>5. Below(d, g) = Below(v2, g)  BY <1>17, SameBelow
  <2> QED  BY <2>1, <2>2, <2>3, <2>4, <2>5
<1> QED  BY <1>2, <1>3, <1>8, <1>17, <1>18, <1>19, <1>20, <1>21, <1>22 DEF u, d, v2, v1, c, g

\* What is below p or another node of t is below g or q in d, or is p, when the children of
\* p are there and the others have not lost any but p.
LEMMA BelowPurged ==
    ASSUME NEW t \in Tree, NEW d, Linked(d), Acyclic(d), NEW p \in Parents, NEW g \in Parents,
           NEW q \in Parents, Elements(t.kids[p]) \subseteq Below(d, g),
           \A y \in Parents \ {p} : Elements(t.kids[y]) \subseteq {p} \cup Elements(d.kids[y]),
           NEW x \in Parents, x = p \/ x \in Below(d, g) \/ x \in Below(d, q)
    PROVE  Below(t, x) \subseteq {p} \cup Below(d, g) \cup Below(d, q)
<1> DEFINE C == {p} \cup Below(d, g) \cup Below(d, q)
<1>1. ASSUME NEW y \in Parents, y \in C  PROVE Elements(t.kids[y]) \subseteq C
  <2>1. CASE y = p  BY <2>1
  <2>2. CASE y # p
    <3>1. Over(d, g, y) \/ Over(d, q, y)  BY <1>1, <2>2 DEF Over
    <3>2. Elements(d.kids[y]) \subseteq Below(d, g) \/ Elements(d.kids[y]) \subseteq Below(d, q)
      BY <1>1, <3>1, BelowClosed
    <3> QED  BY <3>2, <1>1, <2>2
  <2> QED  BY <2>1, <2>2
<1>2. x \in C  OBVIOUS
<1> HIDE DEF C
<1>3. Elements(t.kids[x]) \subseteq C  BY <1>1, <1>2
<1>4. \A y \in C \cap Parents : Elements(t.kids[y]) \subseteq C  BY <1>1
<1>5. Below(t, x) \subseteq C  BY <1>3, <1>4, BelowLeast
<1> QED  BY <1>5 DEF C

\* purge_and_reconfigure lays out what it has changed.
LEMMA PurgeFresh ==
    ASSUME NEW t, TreeInv(t), NEW w \in Windows, t.parent[w] # Nil,
           NEW B, Unseen(t, B), t.stale \subseteq B
    PROVE  PurgeAndReconfigure(t, w).stale \subseteq B
<1> DEFINE p  == t.parent[w]
           g  == t.parent[p]
           t1 == RemoveChild(t, p, w)
           u  == PurgeAndReconfigure(t, w)
<1>1. t \in Tree /\ Linked(t) /\ Shaped(t, t.live) /\ w \in Items
  BY DEF TreeInv, Linked, Items
<1>2. /\ p \in t.live /\ Removed(t, t1, p, w) /\ t1.live = t.live
      /\ Linked(t1) /\ Acyclic(t1) /\ Shaped(t1, t1.live \ {p})
      /\ \A m \in Items : t1.parent[m] = IF m = w THEN Nil ELSE t.parent[m]
  BY RemoveWindowShape
<1>3. u = IF t1.kids[p] = <<>> THEN UpdateRect(Delete(RemoveChild(t1, g, p), p), g)
          ELSE IF IsSole(t1, p) THEN PurgeSoleNode(t1, p)
          ELSE UpdateRect(t1, p)
  BY DEF PurgeAndReconfigure
<1>4. TreeInv(u)  BY PurgeKeeps
<1>5. p \in Layouts /\ p \in Parents /\ p \in Items
  BY <1>1, <1>2 DEF Tree, Parents, Items
<1>6. t1.stale = t.stale \cup Below(t1, p)  BY <1>1, <1>5, ChangedIsStale
<1> HIDE DEF p, g, t1, u
<1>7. p # w /\ t1 \in Tree  BY <1>2, <1>5, KindsAssumption DEF Linked
<1>8. Unseen(t1, B)  BY <1>2 DEF Removed, Rest, Unseen
<1>9. ASSUME t1.kids[p] # <<>>, ~IsSole(t1, p)  PROVE u.stale \subseteq B
  <2>1. u = UpdateRect(t1, p)  BY <1>3, <1>9
  <2>2. t1.stale \subseteq B \cup Below(t1, p)  BY <1>6
  <2> QED  BY <2>1, <2>2, <1>2, <1>5, <1>8, Relaid
<1>10. ASSUME t1.kids[p] # <<>>, IsSole(t1, p)  PROVE u.stale \subseteq B
  <2> DEFINE q == t1.parent[p]
             c == t1.kids[p][1]
             d == Delete(Replace(RemoveChild(t1, p, c), q, p, c), p)
  <2>1. /\ p \in t1.live /\ u = PurgeSoleNode(t1, p)
        /\ Linked(t1) /\ Acyclic(t1) /\ Shaped(t1, t1.live \ {p}) /\ IsSole(t1, p)
    BY <1>2, <1>3, <1>10
  <2>2. /\ PurgeSoleNode(t1, p) = UpdateRect(d, q)
        /\ Linked(d) /\ Acyclic(d) /\ d.normal = t1.normal
        /\ q \in Parents /\ c \in Elements(d.kids[q])
        /\ d.parent[c] = q /\ \A m \in Items \ {c, p} : d.parent[m] = t1.parent[m]
        /\ Elements(t1.kids[p]) = {c}
        /\ \A x \in Parents \ {p} : Elements(t1.kids[x]) \subseteq {p} \cup Elements(d.kids[x])
        /\ d.stale \subseteq (t1.stale \cup Below(d, q)) \ {p}
    BY <2>1, SolePurged
  <2> HIDE DEF q, c, d
  <2>3. c \in Below(d, q)  BY <2>2, BelowClosed DEF Over
  <2>4. Elements(t1.kids[p]) \subseteq Below(d, q)  BY <2>2, <2>3
  <2>5. Below(t1, p) \subseteq {p} \cup Below(d, q) \cup Below(d, q)
    BY <2>2, <2>4, <1>5, <1>7, BelowPurged
  <2>6. d.stale \subseteq B \cup Below(d, q)  BY <2>2, <2>5, <1>6
  <2>7. Unseen(d, B)  BY <2>2, <1>8 DEF Unseen
  <2> QED  BY <2>1, <2>2, <2>6, <2>7, Relaid
<1>11. ASSUME t1.kids[p] = <<>>  PROVE u.stale \subseteq B
  <2> DEFINE v2 == RemoveChild(t1, g, p)
             v3 == Delete(v2, p)
  <2>1. u = UpdateRect(v3, g)  BY <1>3, <1>11
  <2>2. g \in Parents /\ t1.parent[p] = g
    <3>1. g # Nil  BY <1>1, <1>2 DEF Shaped, g
    <3>2. g \in Parents \cup {Nil}  BY <1>1, <1>5 DEF Tree, g
    <3> QED  BY <3>1, <3>2, <1>2, <1>5, <1>7 DEF g
  <2>3. v2.stale = t1.stale \cup Below(v2, g)  BY <2>2, <1>5, <1>7, ChangedIsStale
  <2> HIDE DEF v2, v3
  <2>4. g # p
    <3>1. g \in Layouts => g # p  BY <1>1, <1>5, NoSelfParent DEF TreeInv, g
    <3> QED  BY <3>1, <2>2, <1>5, KindsAssumption DEF Parents
  <2>5. Removed(t1, v2, g, p)  BY <1>2, <1>5, <2>2, RemoveChildLinks DEF v2
  <2>6. /\ v2.parent[p] = Nil /\ v2.kids[p] = <<>> /\ Linked(v2) /\ v2 \in Tree
        /\ v2.normal = t1.normal
    BY <1>5, <1>7, <1>11, <2>4, <2>5 DEF Removed, Rest, Tree, Linked
  <2>7. Linked(v3) /\ v3.kids = v2.kids /\ v3.normal = v2.normal
    BY <1>5, <2>6, DeleteLinks DEF v3
  <2>8. Acyclic(v3)
    <3>1. Same(v3, u)  BY <2>1, <2>7, UpdateRectSame DEF Linked
    <3> QED  BY <3>1, <1>4 DEF Same, TreeInv, Acyclic, Ranks
  <2>9. Below(t1, p) \subseteq {}
    <3>1. Elements(t1.kids[p]) = {}  BY <1>5, <1>7, <1>11, KidsAreLists
    <3> QED  BY <3>1, <1>5, <1>7, BelowLeast
  <2>10. v3.stale \subseteq v2.stale  BY <1>5, <2>6, OthersStale DEF v3
  <2>11. Below(v3, g) = Below(v2, g)  BY <2>7, SameBelow
  <2>12. v3.stale \subseteq B \cup Below(v3, g)  BY <2>3, <2>9, <2>10, <2>11, <1>6
  <2>13. Unseen(v3, B)  BY <2>6, <2>7, <1>8 DEF Unseen
  <2> QED  BY <2>1, <2>2, <2>7, <2>8, <2>12, <2>13, Relaid
<1> QED  BY <1>9, <1>10, <1>11 DEF u

\* move_to_layout lays out the node it has left and the one it has joined.
LEMMA MoveToLayoutFresh ==
    ASSUME NEW t, TreeInv(t), NEW w \in Windows, t.parent[w] # Nil,
           Len(t.kids[t.parent[w]]) # 1, NEW l \in t.live, l # t.parent[w],
           NEW i \in 1..Len(t.kids[l]) + 1, Over(t, t.parent[l], t.parent[w]),
           NEW B, Unseen(t, B), t.stale \subseteq B
    PROVE  MoveToLayout(t, w, l, i).stale \subseteq B
<1> DEFINE p  == t.parent[w]
           t0 == RemoveChild(t, p, w)
           t1 == InsertChild(t0, l, i, w)
           t2 == PurgeSoleNode(t1, p)
           u  == MoveToLayout(t, w, l, i)
<1>1. t \in Tree /\ Linked(t) /\ Shaped(t, t.live) /\ w \in Items
  BY DEF TreeInv, Linked, Items
<1>2. /\ p \in t.live /\ Removed(t, t0, p, w) /\ t0.live = t.live
      /\ Linked(t0) /\ Acyclic(t0) /\ Shaped(t0, t0.live \ {p})
      /\ \A m \in Items : t0.parent[m] = IF m = w THEN Nil ELSE t.parent[m]
  BY RemoveWindowShape
<1>3. u = UpdateRect(t2, t2.parent[l])  BY DEF MoveToLayout
<1>4. /\ p \in Layouts /\ p \in Parents /\ l \in Layouts /\ l \in Parents /\ l \in Items
      /\ l # p /\ l # w /\ t0 \in Tree
  BY <1>1, <1>2, KindsAssumption DEF Tree, Parents, Items, Linked
<1>5. t0.stale = t.stale \cup Below(t0, p) /\ t1.stale = t0.stale \cup Below(t1, l)
  BY <1>1, <1>4, ChangedIsStale
<1> HIDE DEF p, t0, t1, t2, u
<1>6. t0.kids[l] = t.kids[l] /\ t0.parent[w] = Nil  BY <1>1, <1>2, <1>4 DEF Removed
<1>7. t0.kids[l] # <<>>  BY <1>1, <1>6 DEF Shaped, Full
<1>8. Linked(t1) /\ Acyclic(t1) /\ Shaped(t1, t1.live \ {p}) /\ Inserted(t0, t1, l, w)
  <2>1. Shaped(t0, t0.live \ ({p} \cup {l}))  BY <1>2 DEF Shaped
  <2>2. l \in t0.live /\ i \in 1..Len(t0.kids[l]) + 1  BY <1>2, <1>6
  <2> QED  BY <2>1, <2>2, <1>2, <1>6, <1>7, InsertWindowShape DEF t1
<1>9. /\ t1 \in Tree /\ p \in t1.live /\ w \in Elements(t1.kids[l])
      /\ \A x \in Parents : /\ Elements(t0.kids[x]) \subseteq Elements(t1.kids[x])
                            /\ Elements(t.kids[x]) \subseteq {w} \cup Elements(t1.kids[x])
      /\ t1.parent[l] = t.parent[l]
  BY <1>1, <1>2, <1>4, <1>8 DEF Removed, Inserted, Rest, Linked, Tree
<1>10. Unseen(t1, B)  BY <1>2, <1>8 DEF Removed, Inserted, Rest, Unseen
<1>11. t1.stale \subseteq B \cup Below(t1, p) \cup Below(t1, l)
  <2>1. Below(t0, p) \subseteq Below(t1, p)  BY <1>4, <1>8, <1>9, BelowGrows DEF Over
  <2> QED  BY <2>1, <1>5
<1>12. t.parent[l] \in Parents
  <2>1. t.parent[l] # Nil  BY <1>1 DEF Shaped
  <2> QED  BY <2>1, <1>1, <1>4 DEF Tree
<1>13. ASSUME IsSole(t1, p)  PROVE u.stale \subseteq B
  <2> DEFINE g == t1.parent[p]
             c == t1.kids[p][1]
             d == Delete(Replace(RemoveChild(t1, p, c), g, p, c), p)
             q == d.parent[l]
  <2>1. /\ t2 = UpdateRect(d, g)
        /\ Linked(d) /\ Acyclic(d) /\ d.normal = t1.normal
        /\ g \in Parents /\ c \in Elements(d.kids[g])
        /\ d.parent[c] = g /\ \A m \in Items \ {c, p} : d.parent[m] = t1.parent[m]
        /\ Elements(t1.kids[p]) = {c}
        /\ \A x \in Parents \ {p} : Elements(t1.kids[x]) \subseteq {p} \cup Elements(d.kids[x])
        /\ d.stale \subseteq (t1.stale \cup Below(d, g)) \ {p}
    BY <1>8, <1>9, <1>13, SolePurged DEF t2
  <2> HIDE DEF g, c, d
  <2>2. q \in Parents
    <3>1. CASE l = c  BY <3>1, <2>1
    <3>2. CASE l # c  BY <3>2, <2>1, <1>4, <1>9, <1>12
    <3> QED  BY <3>1, <3>2
  <2>3. t2.parent[l] = q
    <3>1. Same(d, t2)  BY <2>1, UpdateRectSame DEF Linked
    <3> QED  BY <3>1 DEF Same
  <2>4. l \in Elements(d.kids[q])  BY <2>1, <2>2, <1>4 DEF Linked
  <2> HIDE DEF q
  <2>5. c \in Below(d, g) /\ l \in Below(d, q)  BY <2>1, <2>2, <2>4, BelowClosed DEF Over
  <2>6. Elements(t1.kids[p]) \subseteq Below(d, g)  BY <2>1, <2>5
  <2>7. t1 \in Tree /\ Linked(d) /\ Acyclic(d) /\ p \in Parents /\ g \in Parents /\ q \in Parents
    BY <2>1, <2>2, <1>4, <1>9
  <2>8. \A x \in Parents : x = p \/ x \in Below(d, g) \/ x \in Below(d, q)
            => Below(t1, x) \subseteq {p} \cup Below(d, g) \cup Below(d, q)
    <3>1. \A y \in Parents \ {p} : Elements(t1.kids[y]) \subseteq {p} \cup Elements(d.kids[y])
      BY <2>1
    <3> QED  BY <2>6, <2>7, <3>1, BelowPurged
  <2>12. /\ Below(t1, p) \subseteq {p} \cup Below(d, g) \cup Below(d, q)
         /\ Below(t1, l) \subseteq {p} \cup Below(d, g) \cup Below(d, q)
    BY <2>5, <2>8, <1>4
  <2>9. d.stale \subseteq B \cup Below(d, g) \cup Below(d, q)  BY <2>1, <2>12, <1>11
  <2>10. Unseen(d, B)  BY <2>1, <1>10 DEF Unseen
  <2>11. UpdateRect(UpdateRect(d, g), q).stale \subseteq B
    BY <2>1, <2>2, <2>9, <2>10, RelaidTwice
  <2> QED  BY <2>1, <2>3, <2>11, <1>3
<1>14. ASSUME ~IsSole(t1, p)  PROVE u.stale \subseteq B
  <2> DEFINE q == t.parent[l]
  <2>1. t2 = t1  BY <1>14 DEF PurgeSoleNode, t2
  <2>2. u = UpdateRect(t1, q) /\ q \in Parents  BY <2>1, <1>3, <1>9, <1>12
  <2>3. Over(t, q, p)  BY DEF p
  <2>4. l \in Elements(t1.kids[q])  BY <2>2, <1>4, <1>8, <1>9 DEF Linked
  <2> HIDE DEF q
  <2>5. l \in Below(t1, q)  BY <2>2, <2>4, <1>8, BelowClosed DEF Over
  <2>6. w \in Below(t1, q) /\ Below(t1, l) \subseteq Below(t1, q)
    BY <2>2, <2>5, <1>4, <1>8, <1>9, BelowClosed, BelowBelow DEF Over
  <2>7. \A y \in Parents : Over(t1, q, y) => Elements(t.kids[y]) \subseteq Below(t1, q)
    BY <2>2, <2>6, <1>8, <1>9, BelowClosed
  <2>8. Elements(t.kids[q]) \subseteq Below(t1, q)  BY <2>2, <2>7 DEF Over
  <2>9. \A y \in Below(t1, q) \cap Parents : Elements(t.kids[y]) \subseteq Below(t1, q)
    BY <2>7 DEF Over
  <2>10. Below(t, q) \subseteq Below(t1, q)  BY <2>2, <2>8, <2>9, <1>1, BelowLeast
  <2>11. Over(t1, q, p)  BY <2>3, <2>10 DEF Over
  <2>12. Below(t1, p) \subseteq Below(t1, q)  BY <2>2, <2>11, <1>4, <1>8, BelowBelow
  <2>13. t1.stale \subseteq B \cup Below(t1, q)  BY <2>6, <2>12, <1>11
  <2> QED  BY <2>2, <2>13, <1>8, <1>10, Relaid
<1> QED  BY <1>13, <1>14 DEF u

\* A longer list makes more stale, and all of it is below a node that is updated later:
\* u has lost no child on the way to x, and p is q or below it there.
LEMMA StaleBelow ==
    ASSUME NEW u \in Tree, NEW p \in Parents, NEW x, Linked(x), Acyclic(x), NEW q \in Parents,
           Over(x, q, p), \A y \in Parents : Elements(u.kids[y]) \subseteq Elements(x.kids[y]),
           NEW S, NEW B, S \subseteq B \cup Below(x, q), u.stale = S \cup Below(u, p)
    PROVE  u.stale \subseteq B \cup Below(x, q)
<1>1. Below(u, p) \subseteq Below(x, q)  BY BelowGrows
<1> QED  BY <1>1

\* A child of q, and what q has above it.
LEMMA ChildIsBelow ==
    ASSUME NEW t, Linked(t), Acyclic(t), NEW q \in Parents, NEW n \in Items, t.parent[n] = q
    PROVE  n \in Below(t, q) /\ Over(t, q, n)
<1>1. n \in Elements(t.kids[q])  BY DEF Linked
<1> QED  BY <1>1, BelowClosed DEF Over

\* update_rect reads links only, so the tree it is given is as well linked as what it returns.
LEMMA UpdatedWasTree ==
    ASSUME NEW t \in Tree, NEW q, TreeInv(UpdateRect(t, q))
    PROVE  Linked(t) /\ Acyclic(t)
<1>1. Same(t, UpdateRect(t, q))  BY UpdateRectSame
<1> QED  BY <1>1 DEF Same, Rest, TreeInv, Linked, Acyclic, Ranks

\* set_type lays out the layout it is given.
LEMMA SetTypeFresh ==
    ASSUME NEW t, Linked(t), Acyclic(t), NEW l \in Layouts, NEW ty \in Types,
           NEW B, Unseen(t, B), t.stale \subseteq B \cup Below(t, l)
    PROVE  SetType(t, l, ty).stale \subseteq B
<1> DEFINE y == [t EXCEPT !.type[l] = ty]
           z == Touch(y, l)
<1>1. SetType(t, l, ty) = UpdateRect(z, l)  BY DEF SetType
<1>2. l \in Parents /\ t \in Tree  BY DEF Parents, Linked
<1>3. /\ y \in Tree /\ y.parent = t.parent /\ y.kids = t.kids /\ y.live = t.live
      /\ y.normal = t.normal /\ y.stale = t.stale
  BY <1>2 DEF Tree
<1> HIDE DEF y
<1>4. Same(y, z) /\ z.stale = y.stale \cup Below(y, l)
  <2>1. Same(y, z)  BY <1>2, <1>3, TouchSame
  <2>2. z.stale = y.stale \cup Below(y, l)  BY <1>3 DEF Touch, Tree
  <2> QED  BY <2>1, <2>2
<1> HIDE DEF z
<1>5. Linked(z) /\ Acyclic(z)
  BY <1>3, <1>4 DEF Same, Rest, Linked, Acyclic, Ranks
<1>6. Below(y, l) = Below(t, l) /\ Below(z, l) = Below(t, l)
  <2>1. z.kids = t.kids  BY <1>3, <1>4 DEF Same
  <2> QED  BY <2>1, <1>3, SameBelow
<1>7. z.stale \subseteq B \cup Below(z, l)  BY <1>3, <1>4, <1>6
<1>8. Unseen(z, B)  BY <1>3, <1>4 DEF Same, Rest, Unseen
<1> QED  BY <1>1, <1>2, <1>5, <1>7, <1>8, Relaid

\* _move_to_marked_window lays out the node its two windows share.
LEMMA MoveToMarkedFresh ==
    ASSUME NEW t, TreeInv(t), NEW w \in Windows, NEW marked \in Windows, marked # w,
           t.parent[marked] # Nil, t.mark[marked] \in Types,
           NEW B, Unseen(t, B), t.stale \subseteq B
    PROVE  MoveToMarkedWindow(t, w, marked).stale \subseteq B
<1> DEFINE ty == t.mark[marked]
           t1 == IF t.parent[w] # Nil THEN PurgeAndReconfigure(t, w) ELSE t
           p  == t1.parent[marked]
           l  == Fresh(t1)
           v1 == New(t1, l, ty)
           v2 == Replace(v1, p, marked, l)
           v3 == AddChild(v2, l, marked)
           v4 == AddChild(v3, l, w)
           x1 == AddChild(t1, p, w)
           u  == MoveToMarkedWindow(t, w, marked)
<1>1. u = IF Len(t1.kids[p]) > 1 THEN UpdateRect(v4, p) ELSE SetType(x1, p, ty)
  BY DEF MoveToMarkedWindow
<1>2. TreeInv(t1) /\ t1.parent[w] = Nil /\ p # Nil /\ t1.normal = t.normal
  BY PurgeKeeps
<1>3. t1.stale \subseteq B
  <2>1. CASE t.parent[w] = Nil  BY <2>1
  <2>2. CASE t.parent[w] # Nil  BY <2>2, PurgeFresh
  <2> QED  BY <2>1, <2>2
<1>4. l \in Layouts /\ l \notin t1.live  BY <1>2, FreshExists
<1>5. TreeInv(u)  BY MoveToMarkedKeeps
<1> HIDE DEF ty, t1, p, l, v1, v2, v3, v4, x1, u
<1>6. t1 \in Tree /\ Linked(t1) /\ Shaped(t1, t1.live) /\ Unseen(t1, B) /\ ty \in Types
  BY <1>2 DEF TreeInv, Linked, Unseen, ty
<1>7. p \in t1.live /\ marked \in Items /\ w \in Items
  <2>1. marked \in Items /\ w \in Items  BY DEF Items
  <2> QED  BY <2>1, <1>2, <1>6, ParentKinds DEF p
<1>8. /\ p \in Layouts /\ p \in Parents /\ p # l /\ l \in Parents /\ l \in Items /\ l # Nil
      /\ l # w /\ l # marked
  BY <1>4, <1>6, <1>7, KindsAssumption DEF Tree, Parents, Items
<1>9. ASSUME Len(t1.kids[p]) > 1  PROVE u.stale \subseteq B
  <2>1. /\ Linked(v1) /\ v1.parent = t1.parent /\ v1.kids = t1.kids /\ v1.normal = t1.normal
        /\ v1.live = t1.live \cup {l} /\ t1.parent[l] = Nil /\ t1.kids[l] = <<>>
    BY <1>4, <1>6, NewLinks DEF v1
  <2>2. Replaced(v1, v2, p, marked, l)
    <3>1. v1.parent[marked] = p  BY <2>1 DEF p
    <3>2. l \in Windows \cup v1.live /\ v1.parent[l] = Nil  BY <2>1
    <3> QED  BY <3>1, <3>2, <2>1, <1>7, <1>8, ReplaceLinks DEF v2
  <2>3. /\ Linked(v2) /\ v2 \in Tree /\ l \in v2.live /\ v2.normal = t1.normal
        /\ Len(v2.kids[l]) \in Nat
        /\ v2.parent[marked] = Nil /\ v2.parent[w] = Nil /\ v2.parent[l] = p
    <3>1. Linked(v2) /\ v2 \in Tree /\ l \in v2.live /\ v2.normal = t1.normal
      BY <2>1, <2>2 DEF Replaced, Rest, Linked
    <3>2. v2.parent[marked] = Nil /\ v2.parent[w] = Nil /\ v2.parent[l] = p
      BY <2>1, <2>2, <1>2, <1>6, <1>7, <1>8 DEF Replaced, Tree
    <3> QED  BY <3>1, <3>2, <1>8, KidsAreLists
  <2>4. Inserted(v2, v3, l, marked)
    <3>1. v3 = InsertChild(v2, l, Len(v2.kids[l]) + 1, marked)  BY DEF v3, AddChild
    <3>2. Len(v2.kids[l]) + 1 \in 1..Len(v2.kids[l]) + 1  BY <2>3
    <3> QED  BY <3>1, <3>2, <2>3, InsertChildLinks
  <2>5. /\ Linked(v3) /\ v3 \in Tree /\ l \in v3.live /\ v3.normal = t1.normal
        /\ Len(v3.kids[l]) \in Nat /\ v3.parent[w] = Nil /\ v3.parent[l] = p
    <3>1. Linked(v3) /\ v3 \in Tree /\ l \in v3.live /\ v3.normal = t1.normal
      BY <2>3, <2>4 DEF Inserted, Rest, Linked
    <3>2. v3.parent[w] = Nil /\ v3.parent[l] = p
      BY <2>3, <2>4, <1>7, <1>8 DEF Inserted, Tree
    <3> QED  BY <3>1, <3>2, <1>8, KidsAreLists
  <2>6. Inserted(v3, v4, l, w)
    <3>1. v4 = InsertChild(v3, l, Len(v3.kids[l]) + 1, w)  BY DEF v4, AddChild
    <3>2. Len(v3.kids[l]) + 1 \in 1..Len(v3.kids[l]) + 1  BY <2>5
    <3> QED  BY <3>1, <3>2, <2>5, InsertChildLinks
  <2>7. v4 \in Tree /\ v4.normal = t1.normal /\ v4.parent[l] = p
    <3>1. v4 \in Tree /\ v4.normal = t1.normal  BY <2>5, <2>6 DEF Inserted, Rest, Linked
    <3>2. v4.parent[l] = p  BY <2>5, <2>6, <1>7, <1>8 DEF Inserted, Tree
    <3> QED  BY <3>1, <3>2
  <2>8. u = UpdateRect(v4, p)  BY <1>1, <1>9
  <2>9. Linked(v4) /\ Acyclic(v4)  BY <2>7, <2>8, <1>5, UpdatedWasTree
  <2>10. Over(v4, p, l) /\ Over(v4, p, p)  BY <2>7, <2>9, <1>8, ChildIsBelow DEF Over
  <2>11. /\ \A y \in Parents : Elements(v3.kids[y]) \subseteq Elements(v4.kids[y])
         /\ \A y \in Parents : Elements(v2.kids[y]) \subseteq Elements(v4.kids[y])
    <3>1. \A y \in Parents : Elements(v3.kids[y]) \subseteq Elements(v4.kids[y])
      BY <2>6 DEF Inserted
    <3>2. \A y \in Parents : Elements(v2.kids[y]) \subseteq Elements(v3.kids[y])
      BY <2>4 DEF Inserted
    <3> QED  BY <3>1, <3>2
  <2>12. /\ v1.stale = t1.stale
         /\ v2.stale = v1.stale \cup Below(v2, p)
         /\ v3.stale = v2.stale \cup Below(v3, l)
         /\ v4.stale = v3.stale \cup Below(v4, l)
    <3>1. v1.stale = t1.stale  BY <1>4, <1>6, OthersStale DEF v1
    <3>2. v2.stale = v1.stale \cup Below(v2, p)
      BY <2>1, <1>7, <1>8, ChangedIsStale DEF v2, Linked
    <3>3. v3.stale = v2.stale \cup Below(v3, l)
      BY <2>3, <1>7, <1>8, ChangedIsStale DEF v3, AddChild
    <3>4. v4.stale = v3.stale \cup Below(v4, l)
      BY <2>5, <1>7, <1>8, ChangedIsStale DEF v4, AddChild
    <3> QED  BY <3>1, <3>2, <3>3, <3>4
  <2>13. v1.stale \subseteq B \cup Below(v4, p)  BY <2>12, <1>3
  <2>14. Below(v2, p) \cup Below(v3, l) \cup Below(v4, l) \subseteq Below(v4, p)
    <3>1. v2 \in Tree /\ v3 \in Tree /\ v4 \in Tree /\ p \in Parents /\ l \in Parents
      BY <2>3, <2>5, <2>7, <1>8 DEF Linked
    <3>2. \A y \in Parents : Elements(v4.kids[y]) \subseteq Elements(v4.kids[y])  OBVIOUS
    <3>3. Below(v2, p) \subseteq Below(v4, p)  BY <2>9, <2>10, <2>11, <3>1, BelowGrows
    <3>4. Below(v3, l) \subseteq Below(v4, p)  BY <2>9, <2>10, <2>11, <3>1, BelowGrows
    <3>5. Below(v4, l) \subseteq Below(v4, p)  BY <2>9, <2>10, <3>1, <3>2, BelowGrows
    <3> QED  BY <3>3, <3>4, <3>5
  <2>15. v4.stale \subseteq v1.stale \cup Below(v4, p)  BY <2>12, <2>14
  <2>16. v4.stale \subseteq B \cup Below(v4, p)  BY <2>13, <2>15
  <2>17. Unseen(v4, B)  BY <2>7, <1>6 DEF Unseen
  <2> QED  BY <2>8, <2>9, <2>16, <2>17, <1>8, Relaid
<1>10. ASSUME ~(Len(t1.kids[p]) > 1)  PROVE u.stale \subseteq B
  <2>1. Inserted(t1, x1, p, w)
    <3>1. x1 = InsertChild(t1, p, Len(t1.kids[p]) + 1, w)  BY DEF x1, AddChild
    <3>2. Len(t1.kids[p]) \in Nat  BY <1>6, <1>8, KidsAreLists
    <3>3. Len(t1.kids[p]) + 1 \in 1..Len(t1.kids[p]) + 1  BY <3>2
    <3> QED  BY <3>1, <3>3, <1>2, <1>6, <1>7, InsertChildLinks
  <2>2. x1 \in Tree /\ x1.normal = t1.normal  BY <2>1 DEF Inserted, Rest, Linked
  <2>3. x1.stale = t1.stale \cup Below(x1, p)
    BY <1>6, <1>7, <1>8, ChangedIsStale DEF x1, AddChild
  <2>4. u = SetType(x1, p, ty)  BY <1>1, <1>10
  <2>5. Acyclic(x1)
    <3>1. u.parent = x1.parent  BY <2>1, <2>4, <1>6, <1>8, SetTypeLinks DEF Inserted
    <3> QED  BY <3>1, <1>5 DEF TreeInv, Acyclic, Ranks
  <2>6. Linked(x1) /\ Unseen(x1, B) /\ x1.stale \subseteq B \cup Below(x1, p)
    BY <2>1, <2>2, <2>3, <1>3, <1>6 DEF Inserted, Unseen
  <2> QED  BY <2>4, <2>5, <2>6, <1>6, <1>8, SetTypeFresh
<1> QED  BY <1>9, <1>10 DEF u

\* move_to_workspace lays out what it has changed once the window is placed.
LEMMA PlaceWindowFresh ==
    ASSUME NEW t, TreeInv(t), NEW w \in Windows, t.parent[w] = Nil, NEW ws \in Workspaces,
           NEW current,
           t.kids[ws] # <<>> => current \in Windows \ {w} /\ t.parent[current] # Nil,
           NEW B, Unseen(t, B), t.stale \subseteq B
    PROVE  PlaceWindow(t, w, ws, current).stale \subseteq B
<1> DEFINE u == PlaceWindow(t, w, ws, current)
<1>1. t \in Tree /\ Linked(t) /\ Shaped(t, t.live) /\ w \in Items /\ ws \in Parents
  BY DEF TreeInv, Linked, Items, Parents
<1>2. TreeInv(u)  BY PlaceWindowKeeps
<1>3. ASSUME t.kids[ws] = <<>>  PROVE u.stale \subseteq B
  <2> DEFINE l  == Fresh(t)
             v1 == New(t, l, "Horizontal")
             v2 == AddChild(v1, l, w)
             v3 == AddChild(v2, ws, l)
  <2>1. u = UpdateRect(v3, ws)  BY <1>3 DEF PlaceWindow
  <2>2. l \in Layouts /\ l \notin t.live  BY FreshExists
  <2> HIDE DEF l, v1, v2, v3, u
  <2>3. l \in Parents /\ l \in Items /\ l # w /\ l # ws
    BY <2>2, KindsAssumption DEF Items, Parents
  <2>4. /\ Linked(v1) /\ v1.parent = t.parent /\ v1.kids = t.kids /\ v1.normal = t.normal
        /\ v1.live = t.live \cup {l} /\ t.parent[l] = Nil /\ t.kids[l] = <<>>
    BY <1>1, <2>2, NewLinks DEF v1, Types
  <2>5. Inserted(v1, v2, l, w)
    <3>1. Len(v1.kids[l]) + 1 \in 1..Len(v1.kids[l]) + 1  BY <1>1, <2>3, <2>4, KidsAreLists
    <3>2. v2 = InsertChild(v1, l, Len(v1.kids[l]) + 1, w)  BY DEF v2, AddChild
    <3> QED  BY <3>1, <3>2, <2>4, InsertChildLinks
  <2>6. /\ Linked(v2) /\ v2 \in Tree /\ l \in v2.live /\ v2.normal = t.normal
        /\ Len(v2.kids[ws]) \in Nat /\ v2.parent[l] = Nil
    <3>1. Linked(v2) /\ v2 \in Tree /\ l \in v2.live /\ v2.normal = t.normal
      BY <2>4, <2>5 DEF Inserted, Rest, Linked
    <3>2. v2.parent[l] = Nil  BY <2>3, <2>4, <2>5, <1>1 DEF Inserted, Tree
    <3> QED  BY <3>1, <3>2, <1>1, KidsAreLists
  <2>7. Inserted(v2, v3, ws, l)
    <3>1. v3 = InsertChild(v2, ws, Len(v2.kids[ws]) + 1, l)  BY DEF v3, AddChild
    <3>2. Len(v2.kids[ws]) + 1 \in 1..Len(v2.kids[ws]) + 1  BY <2>6
    <3> QED  BY <3>1, <3>2, <2>6, InsertChildLinks
  <2>8. /\ v3 \in Tree /\ v3.normal = t.normal /\ v3.parent[l] = ws
        /\ \A y \in Parents : Elements(v2.kids[y]) \subseteq Elements(v3.kids[y])
    <3>1. /\ v3 \in Tree /\ v3.normal = t.normal
          /\ \A y \in Parents : Elements(v2.kids[y]) \subseteq Elements(v3.kids[y])
      BY <2>6, <2>7 DEF Inserted, Rest, Linked
    <3>2. v3.parent[l] = ws  BY <2>3, <2>6, <2>7 DEF Inserted, Tree
    <3> QED  BY <3>1, <3>2
  <2>9. Linked(v3) /\ Acyclic(v3)  BY <2>1, <2>8, <1>2, UpdatedWasTree DEF u
  <2>10. Over(v3, ws, l)  BY <2>3, <2>8, <2>9, <1>1, ChildIsBelow
  <2>11. /\ v1.stale = t.stale /\ v2.stale = v1.stale \cup Below(v2, l)
         /\ v3.stale = v2.stale \cup Below(v3, ws)
    <3>1. v1.stale = t.stale  BY <2>2, <1>1, OthersStale DEF v1
    <3>2. v2.stale = v1.stale \cup Below(v2, l)
      BY <2>3, <2>4, <1>1, ChangedIsStale DEF v2, AddChild, Linked
    <3>3. v3.stale = v2.stale \cup Below(v3, ws)
      BY <2>3, <2>6, <1>1, ChangedIsStale DEF v3, AddChild
    <3> QED  BY <3>1, <3>2, <3>3
  <2>12. v1.stale \subseteq B \cup Below(v3, ws)  BY <2>11
  <2>13. v2.stale \subseteq B \cup Below(v3, ws)
    BY <2>3, <2>6, <2>8, <2>9, <2>10, <2>11, <2>12, <1>1, StaleBelow
  <2>14. v3.stale \subseteq B \cup Below(v3, ws)  BY <2>11, <2>13
  <2>15. Unseen(v3, B)  BY <2>8 DEF Unseen
  <2>16. UpdateRect(v3, ws).stale \subseteq B  BY <2>9, <2>14, <2>15, <1>1, Relaid
  <2> QED  BY <2>1, <2>16 DEF u
<1>4. ASSUME t.kids[ws] # <<>>, IsMarked(t, current)  PROVE u.stale \subseteq B
  <2>1. u = MoveToMarkedWindow(t, w, current)  BY <1>4 DEF PlaceWindow
  <2>2. current \in Windows /\ current # w /\ t.parent[current] # Nil  BY <1>4
  <2>3. t.mark[current] \in Types  BY <1>1, <1>4, <2>2 DEF IsMarked, Tree, Marks
  <2> QED  BY <2>1, <2>2, <2>3, MoveToMarkedFresh
<1>5. ASSUME t.kids[ws] # <<>>, ~IsMarked(t, current)  PROVE u.stale \subseteq B
  <2> DEFINE p == t.parent[current]
             i == IndexOf(t, current) + 1
             v == InsertChild(t, p, i, w)
  <2>1. u = UpdateRect(v, p)  BY <1>5 DEF PlaceWindow
  <2>2. current \in Windows /\ current \in Items /\ p # Nil  BY <1>5 DEF Items
  <2>3. p \in t.live /\ current \in Elements(t.kids[p])  BY <1>1, <2>2, ParentKinds
  <2>4. p \in Parents  BY <1>1, <2>3 DEF Tree, Parents
  <2>5. i \in 1..Len(t.kids[p]) + 1
    <3>1. t.kids[p] \in Seq(Items) /\ Len(t.kids[p]) \in Nat  BY <1>1, <2>4, KidsAreLists
    <3>2. IndexOf(t, current) \in 1..Len(t.kids[p])  BY <2>3, <3>1, PositionFound DEF IndexOf
    <3> QED  BY <3>1, <3>2
  <2> HIDE DEF p, i, v, u
  <2>6. Inserted(t, v, p, w)  BY <2>3, <2>5, <1>1, InsertChildLinks DEF v
  <2>7. v \in Tree /\ v.normal = t.normal  BY <2>6 DEF Inserted, Rest, Linked
  <2>8. Linked(v) /\ Acyclic(v)  BY <2>1, <2>7, <1>2, UpdatedWasTree DEF u
  <2>9. v.stale = t.stale \cup Below(v, p)  BY <2>4, <1>1, ChangedIsStale DEF v
  <2>10. v.stale \subseteq B \cup Below(v, p) /\ Unseen(v, B)  BY <2>7, <2>9 DEF Unseen
  <2>11. UpdateRect(v, p).stale \subseteq B  BY <2>4, <2>8, <2>10, Relaid
  <2> QED  BY <2>1, <2>11 DEF u
<1> QED  BY <1>3, <1>4, <1>5 DEF u

\* move_to_workspace lays out what it has changed, where the window was and where it goes.
LEMMA MoveToWorkspaceFresh ==
    ASSUME NEW t, TreeInv(t), NEW w \in Windows, NEW ws \in Workspaces, NEW current,
           t.kids[ws] # <<>> /\ ws \notin RootsOf(t, w)
              => current \in Windows \ {w} /\ t.parent[current] # Nil,
           NEW B, Unseen(t, B), t.stale \subseteq B
    PROVE  MoveToWorkspaceTree(t, w, ws, current).stale \subseteq B
<1>1. CASE ws \in RootsOf(t, w)  BY <1>1 DEF MoveToWorkspaceTree
<1>2. CASE ws \notin RootsOf(t, w)
  <2> DEFINE t1 == IF t.parent[w] # Nil THEN PurgeAndReconfigure(t, w) ELSE t
  <2>1. MoveToWorkspaceTree(t, w, ws, current) = PlaceWindow(t1, w, ws, current)
    BY <1>2 DEF MoveToWorkspaceTree
  <2>2. /\ TreeInv(t1) /\ t1.parent[w] = Nil /\ t1.normal = t.normal
        /\ t1.kids[ws] # <<>> => current \in Windows \ {w} /\ t1.parent[current] # Nil
    <3>1. CASE t.parent[w] = Nil  BY <3>1, <1>2
    <3>2. CASE t.parent[w] # Nil
      <4>1. TreeInv(t1) /\ t1.parent[w] = Nil /\ t1.normal = t.normal  BY <3>2, PurgeKeeps
      <4>2. t.kids[ws] = <<>> => t1.kids[ws] = <<>>  BY <3>2, PurgeKeeps
      <4>3. \A v \in Windows : (t1.parent[v] = Nil) <=> (v = w \/ t.parent[v] = Nil)
        BY <3>2, PurgeKeeps
      <4> HIDE DEF t1
      <4> QED  BY <4>1, <4>2, <4>3, <1>2
    <3> QED  BY <3>1, <3>2
  <2>3. t1.stale \subseteq B
    <3>1. CASE t.parent[w] = Nil  BY <3>1
    <3>2. CASE t.parent[w] # Nil  BY <3>2, PurgeFresh
    <3> QED  BY <3>1, <3>2
  <2> HIDE DEF t1
  <2>4. Unseen(t1, B)  BY <2>2 DEF Unseen
  <2> QED  BY <2>1, <2>2, <2>3, <2>4, PlaceWindowFresh
<1> QED  BY <1>1, <1>2

\* What is below is transitive.
LEMMA OverOver ==
    ASSUME NEW t, Linked(t), Acyclic(t), NEW q \in Parents, NEW x \in Parents, NEW n,
           Over(t, q, x), Over(t, x, n)
    PROVE  Over(t, q, n)
<1>1. Below(t, x) \subseteq Below(t, q)  BY BelowBelow
<1> QED  BY <1>1 DEF Over

\* The window's layout is the one whose child _find_direction_compatible_node found, or
\* is below it.
LEMMA FoundAbove ==
    ASSUME NEW t, TreeInv(t), NEW w \in Windows, NEW dir,
           FindDirectionCompatibleNode(t, w, dir) # Nil
    PROVE  Over(t, t.parent[FindDirectionCompatibleNode(t, w, dir)], t.parent[w])
<1> DEFINE c     == Climb(t, w)
           steps == CompatibleSteps(t, w, dir)
           node  == FindDirectionCompatibleNode(t, w, dir)
           k     == Min(steps)
           p     == t.parent[node]
<1>1. t \in Tree /\ Linked(t) /\ w \in Items
  BY DEF TreeInv, Linked, Items
<1>2. Height \in Nat /\ Height >= 1  BY HeightIsNat
<1>3. \A j \in 1..Height : c[j] = IF c[j-1] \in Items THEN t.parent[c[j-1]] ELSE Nil
  BY <1>1, ClimbSteps
<1>4. steps # {} /\ node = c[k-1]  BY DEF FindDirectionCompatibleNode
<1>5. k \in 1..Height /\ c[k] \in Layouts
  <2>1. steps \subseteq Nat /\ steps \subseteq {j \in 1..Height : c[j] \in Layouts}
    BY <1>2 DEF CompatibleSteps
  <2>2. \E m \in steps : \A j \in steps : m <= j  BY <2>1, <1>4, LeastOfSet
  <2>3. k \in steps  BY <2>2 DEF Min
  <2> QED  BY <2>1, <2>3
<1> HIDE DEF c, steps, node, k
<1>6. p = c[k] /\ p \in Parents
  <2>1. c[k] # Nil  BY <1>5, KindsAssumption
  <2> QED  BY <2>1, <1>3, <1>4, <1>5 DEF Parents
<1> HIDE DEF p
<1>7. w \in Levels(t, p)[k]  BY <1>1, <1>5, <1>6, ClimbIsLevel DEF c
<1>8. t.parent[w] \in Levels(t, p)[k-1]  BY <1>1, <1>5, <1>6, <1>7, LevelIsClimb
<1>9. Over(t, p, t.parent[w])
  <2>1. CASE k = 1
    <3>1. Levels(t, p)[0] = {p}  BY <1>1, <1>6, LevelSteps
    <3>2. k - 1 = 0  BY <2>1
    <3> QED  BY <3>1, <3>2, <1>8 DEF Over
  <2>2. CASE k # 1
    <3>1. k - 1 \in 1..Height  BY <2>2, <1>2, <1>5
    <3> QED  BY <3>1, <1>8 DEF Over, Below
  <2> QED  BY <2>1, <2>2
<1> QED  BY <1>9 DEF p, node

\* _move_to_adjacent_node lays out what it has changed.
LEMMA MoveToAdjacentFresh ==
    ASSUME NEW t, TreeInv(t), NEW w \in Windows, NEW node \in Items, t.parent[node] \in t.live,
           t.parent[w] # Nil, Len(t.kids[t.parent[w]]) # 1, NEW dir,
           \A adj \in Elements(t.kids[t.parent[node]]) :
              adj # node => adj # w /\ adj # t.parent[w],
           Over(t, t.parent[node], t.parent[w]),
           NEW B, Unseen(t, B), t.stale \subseteq B
    PROVE  MoveToAdjacentNode(t, w, node, dir).stale \subseteq B
<1> DEFINE t0   == [t EXCEPT !.mark[w] = "Floating"]
           p    == t.parent[node]
           i    == IndexOf(t, node)
           back == dir \in Backward
           j    == IF back THEN i - 1 ELSE i + 1
           adj  == t.kids[p][j]
           u    == MoveToAdjacentNode(t, w, node, dir)
           edge == IF back THEN 1 ELSE Len(t.kids[p]) + 1
           slot == IF back THEN i ELSE j
<1>1. u = IF j \notin 1..Len(t.kids[p])
          THEN IF t.type[p] = t.type[t.parent[w]] THEN t0 ELSE MoveToLayout(t0, w, p, edge)
          ELSE IF adj \in Layouts THEN MoveToLayout(t0, w, adj, Len(t.kids[adj]) + 1)
          ELSE IF IsMarked(t0, adj) THEN MoveToMarkedWindow(t0, w, adj)
          ELSE IF p = t.parent[w] THEN UpdateRect(ShiftChild(t0, p, i, j), p)
          ELSE MoveToLayout(t0, w, p, slot)
  BY DEF MoveToAdjacentNode
<1>2. TreeInv(u)  BY MoveToAdjacentKeeps
<1>3. /\ t \in Tree /\ Linked(t) /\ Acyclic(t) /\ Shaped(t, t.live)
      /\ p \in t.live /\ p \in Layouts /\ p \in Parents /\ p \in Items
  BY DEF TreeInv, Linked, Tree, Parents, Items
<1>4. /\ t0 \in Tree /\ t0.parent = t.parent /\ t0.kids = t.kids /\ t0.live = t.live
      /\ t0.stale = t.stale /\ t0.normal = t.normal
  BY <1>3 DEF Tree, Marks
<1>5. TreeInv(t0) /\ Unseen(t0, B) /\ t0.stale \subseteq B
  <2> HIDE DEF t0
  <2> QED  BY <1>4 DEF TreeInv, Linked, Acyclic, Ranks, Shaped, Full, Unseen
<1>6. i \in 1..Len(t.kids[p]) /\ t.kids[p][i] = node /\ Len(t.kids[p]) \in Nat
  <2>1. node \in Elements(t.kids[p])  BY <1>3 DEF Linked
  <2>2. t.kids[p] \in Seq(Items) /\ Len(t.kids[p]) \in Nat  BY <1>3, KidsAreLists
  <2> QED  BY <2>1, <2>2, PositionFound DEF IndexOf
<1>7. Over(t, p, t.parent[w])  OBVIOUS
<1> HIDE DEF t0, p, i, adj, u
<1>8. i \in Int /\ j \in Int /\ j # i /\ edge \in 1..Len(t.kids[p]) + 1  BY <1>6
<1>9. \A x, n : Over(t0, x, n) <=> Over(t, x, n)
  BY <1>4, SameBelow DEF Over
<1>10. ASSUME p # t.parent[w], NEW m \in 1..Len(t.kids[p]) + 1
       PROVE  MoveToLayout(t0, w, p, m).stale \subseteq B
  <2>1. t.parent[p] \in Parents /\ Over(t, t.parent[p], p)
    <3>1. t.parent[p] # Nil  BY <1>3 DEF Shaped
    <3>2. t.parent[p] \in Parents  BY <3>1, <1>3 DEF Tree
    <3> QED  BY <3>2, <1>3, ChildIsBelow
  <2>2. Over(t, t.parent[p], t.parent[w])  BY <2>1, <1>3, <1>7, OverOver
  <2>3. /\ p \in t0.live /\ p # t0.parent[w] /\ t0.parent[w] # Nil
        /\ Len(t0.kids[t0.parent[w]]) # 1 /\ m \in 1..Len(t0.kids[p]) + 1
        /\ Over(t0, t0.parent[p], t0.parent[w])
    BY <2>2, <1>3, <1>4, <1>9, <1>10
  <2> QED  BY <2>3, <1>5, MoveToLayoutFresh
<1>11. ASSUME j \notin 1..Len(t.kids[p])  PROVE u.stale \subseteq B
  <2>1. CASE t.type[p] = t.type[t.parent[w]]
    <3>1. u = t0  BY <1>1, <1>11, <2>1
    <3> QED  BY <3>1, <1>5
  <2>2. CASE t.type[p] # t.type[t.parent[w]]
    <3>1. u = MoveToLayout(t0, w, p, edge)  BY <1>1, <1>11, <2>2
    <3>2. p # t.parent[w]  BY <2>2
    <3> HIDE DEF edge
    <3> QED  BY <3>1, <3>2, <1>8, <1>10
  <2> QED  BY <2>1, <2>2
<1>12. ASSUME j \in 1..Len(t.kids[p])  PROVE u.stale \subseteq B
  <2>1. adj \in Items /\ adj \in Elements(t.kids[p])  BY <1>3, <1>12, KidsAreLists DEF adj
  <2>2. t.parent[adj] = p /\ p # Nil
    BY <1>3, <2>1, KindsAssumption DEF Linked, Parents
  <2>3. adj # node
    <3>1. NoDuplicates(t.kids[p])  BY <1>3 DEF Linked
    <3> QED  BY <3>1, <1>6, <1>8, <1>12 DEF NoDuplicates, adj
  <2>4. adj # w /\ adj # t.parent[w]  BY <2>1, <2>3 DEF p
  <2>5. CASE adj \in Layouts
    <3> DEFINE m == Len(t.kids[adj]) + 1
    <3>1. u = MoveToLayout(t0, w, adj, m)  BY <1>1, <1>12, <2>5
    <3>2. adj \in t.live /\ adj \in Parents  BY <1>3, <2>2, <2>5 DEF Linked, Parents
    <3>3. Len(t.kids[adj]) \in Nat  BY <1>3, <3>2, KidsAreLists
    <3>4. m \in 1..Len(t0.kids[adj]) + 1  BY <3>3, <1>4
    <3> HIDE DEF m
    <3>5. /\ adj \in t0.live /\ adj # t0.parent[w] /\ t0.parent[w] # Nil
          /\ Len(t0.kids[t0.parent[w]]) # 1 /\ Over(t0, t0.parent[adj], t0.parent[w])
      BY <3>2, <2>2, <2>4, <1>4, <1>7, <1>9
    <3> QED  BY <3>1, <3>4, <3>5, <1>5, MoveToLayoutFresh
  <2>6. CASE adj \notin Layouts /\ IsMarked(t0, adj)
    <3>1. u = MoveToMarkedWindow(t0, w, adj)  BY <1>1, <1>12, <2>6
    <3>2. adj \in Windows  BY <2>1, <2>6 DEF Items
    <3>3. t0.parent[adj] # Nil  BY <2>2, <1>4
    <3>4. t0.mark[adj] \in Types  BY <1>4, <3>2, <2>6 DEF IsMarked, Tree, Marks
    <3> QED  BY <3>1, <3>2, <3>3, <3>4, <2>4, <1>5, MoveToMarkedFresh
  <2>7. CASE adj \notin Layouts /\ ~IsMarked(t0, adj) /\ p = t.parent[w]
    <3> DEFINE v == ShiftChild(t0, p, i, j)
    <3>1. u = UpdateRect(v, p)  BY <1>1, <1>12, <2>7
    <3>2. i \in 1..Len(t0.kids[p]) /\ j \in 1..Len(t0.kids[p]) /\ Linked(t0)
      BY <1>4, <1>5, <1>6, <1>12 DEF TreeInv
    <3> HIDE DEF j
    <3>3. Linked(v) /\ Rest(t0, v)  BY <1>3, <3>2, ShiftChildLinks
    <3>4. v.stale = t0.stale \cup Below(v, p)
      <4>1. w \in Items  BY DEF Items
      <4> QED  BY <4>1, <1>3, <1>4, ChangedIsStale
    <3> HIDE DEF v
    <3>5. Linked(v) /\ Acyclic(v)  BY <3>1, <3>3, <1>2, UpdatedWasTree DEF Linked
    <3>6. v.stale \subseteq B \cup Below(v, p) /\ Unseen(v, B)
      BY <3>3, <3>4, <1>5 DEF Rest, Unseen
    <3> QED  BY <3>1, <3>5, <3>6, <1>3, Relaid
  <2>8. CASE adj \notin Layouts /\ ~IsMarked(t0, adj) /\ p # t.parent[w]
    <3>1. u = MoveToLayout(t0, w, p, slot)  BY <1>1, <1>12, <2>8
    <3>2. slot \in 1..Len(t.kids[p]) + 1  BY <1>6, <1>8, <1>12
    <3> HIDE DEF slot, j
    <3> QED  BY <3>1, <3>2, <2>8, <1>10
  <2> QED  BY <2>5, <2>6, <2>7, <2>8
<1> QED  BY <1>11, <1>12 DEF u

\* What the new top layout of _move_to_top_node makes stale is below the workspace.
LEMMA WrapTopStale ==
    ASSUME NEW t, TreeInv(t), NEW w \in Windows, t.parent[w] = Nil, NEW ws \in Workspaces,
           t.kids[ws] # <<>>, Len(t.kids[TilingLayout(t, ws)]) # 1, NEW dir,
           NEW B, t.stale \subseteq B
    PROVE  LET u == WrapTop(t, w, ws, dir)
           IN  u.stale \subseteq B \cup Below(u, ws) /\ u.normal = t.normal
<1> DEFINE top == TilingLayout(t, ws)
           l   == Fresh(t)
           v0  == RemoveChild(t, ws, top)
           ty  == InverseType(t.type[top])
           v1  == New(v0, l, ty)
<1>1. t \in Tree /\ Linked(t) /\ Shaped(t, t.live) /\ w \in Items /\ ws \in Parents
  BY DEF TreeInv, Linked, Items, Parents
<1>2. top \in Layouts /\ top \in t.live /\ t.parent[top] = ws
  BY <1>1, TopLayout
<1>3. l \in Layouts /\ l \notin t.live  BY FreshExists
<1>4. ty \in Types  BY DEF InverseType, Types
<1> HIDE DEF l, ty
<1>5. WrapTop(t, w, ws, dir) =
        AddChild(IF dir \in Backward THEN AddChild(AddChild(v1, l, w), l, top)
                 ELSE AddChild(AddChild(v1, l, top), l, w), ws, l)
  BY DEF WrapTop, l, ty
<1>6. TreeInv(WrapTop(t, w, ws, dir))  BY WrapTopKeeps
<1> HIDE DEF top, v0, v1
<1>7. /\ top \in Items /\ top # w /\ top # l /\ top # ws
      /\ l \in Items /\ l \in Parents /\ l # w /\ l # ws
  BY <1>2, <1>3, KindsAssumption DEF Items, Parents
<1>8. Removed(t, v0, ws, top)  BY <1>1, <1>2, <1>7, RemoveChildLinks DEF v0
<1>9. /\ Linked(v0) /\ v0 \in Tree /\ v0.live = t.live /\ v0.normal = t.normal
      /\ v0.parent[top] = Nil /\ v0.parent[w] = Nil
  <2>1. Linked(v0) /\ v0 \in Tree /\ v0.live = t.live /\ v0.normal = t.normal
    BY <1>8 DEF Removed, Rest, Linked
  <2>2. v0.parent[top] = Nil /\ v0.parent[w] = Nil  BY <1>1, <1>7, <1>8 DEF Removed, Tree
  <2> QED  BY <2>1, <2>2
<1>10. /\ Linked(v1) /\ v1.parent = v0.parent /\ v1.kids = v0.kids /\ v1.normal = t.normal
       /\ v1.live = t.live \cup {l} /\ v1.parent[l] = Nil /\ v1.stale = v0.stale
  <2>1. /\ Linked(v1) /\ v1.parent = v0.parent /\ v1.kids = v0.kids
        /\ v1.live = v0.live \cup {l} /\ v0.parent[l] = Nil /\ v1.normal = v0.normal
    BY <1>3, <1>4, <1>9, NewLinks DEF v1
  <2>2. v1.stale = v0.stale  BY <1>3, <1>9, OthersStale DEF v1
  <2> QED  BY <2>1, <2>2, <1>9
<1>11. v0.stale = t.stale \cup Below(v0, ws)  BY <1>1, <1>7, ChangedIsStale DEF v0
<1>12. ASSUME NEW a \in {w, top}, NEW b \in {w, top}, a # b,
              TreeInv(AddChild(AddChild(AddChild(v1, l, a), l, b), ws, l))
       PROVE  LET u == AddChild(AddChild(AddChild(v1, l, a), l, b), ws, l)
              IN  u.stale \subseteq B \cup Below(u, ws) /\ u.normal = t.normal
  <2> DEFINE v2 == AddChild(v1, l, a)
             v3 == AddChild(v2, l, b)
             u  == AddChild(v3, ws, l)
  <2>1. TreeInv(u)  BY <1>12
  <2>2. /\ a \in Windows \cup v1.live /\ b \in Windows \cup v1.live /\ a \in Items /\ b \in Items
        /\ v1.parent[a] = Nil /\ v1.parent[b] = Nil /\ l \in v1.live /\ a # l /\ b # l
    BY <1>1, <1>2, <1>7, <1>9, <1>10, <1>12
  <2>3. v1 \in Tree /\ Len(v1.kids[l]) \in Nat  BY <1>7, <1>10, KidsAreLists DEF Linked
  <2>4. Inserted(v1, v2, l, a)
    <3>1. Len(v1.kids[l]) + 1 \in 1..Len(v1.kids[l]) + 1  BY <2>3
    <3> QED  BY <3>1, <2>2, <1>10, InsertChildLinks DEF AddChild
  <2>5. v2.stale = v1.stale \cup Below(v2, l)
    BY <2>2, <2>3, <1>7, ChangedIsStale DEF AddChild
  <2> HIDE DEF v2
  <2>6. /\ Linked(v2) /\ v2 \in Tree /\ v2.live = v1.live /\ v2.normal = v1.normal
        /\ v2.parent[b] = Nil /\ v2.parent[l] = Nil /\ Len(v2.kids[l]) \in Nat
    <3>1. Linked(v2) /\ v2 \in Tree /\ v2.live = v1.live /\ v2.normal = v1.normal
      BY <2>4 DEF Inserted, Rest, Linked
    <3>2. v2.parent[b] = Nil /\ v2.parent[l] = Nil
      BY <2>2, <2>3, <2>4, <1>7, <1>10, <1>12 DEF Inserted, Tree
    <3> QED  BY <3>1, <3>2, <1>7, KidsAreLists
  <2>7. Inserted(v2, v3, l, b)
    <3>1. Len(v2.kids[l]) + 1 \in 1..Len(v2.kids[l]) + 1  BY <2>6
    <3> QED  BY <3>1, <2>2, <2>6, InsertChildLinks DEF AddChild
  <2>8. v3.stale = v2.stale \cup Below(v3, l)
    BY <2>2, <2>6, <1>7, ChangedIsStale DEF AddChild
  <2> HIDE DEF v3
  <2>9. /\ Linked(v3) /\ v3 \in Tree /\ v3.live = v1.live /\ v3.normal = v1.normal
        /\ v3.parent[l] = Nil /\ Len(v3.kids[ws]) \in Nat
    <3>1. Linked(v3) /\ v3 \in Tree /\ v3.live = v1.live /\ v3.normal = v1.normal
      BY <2>6, <2>7 DEF Inserted, Rest, Linked
    <3>2. v3.parent[l] = Nil
      BY <2>2, <2>6, <2>7, <1>7 DEF Inserted, Tree
    <3> QED  BY <3>1, <3>2, <1>1, KidsAreLists
  <2>10. Inserted(v3, u, ws, l)
    <3>1. Len(v3.kids[ws]) + 1 \in 1..Len(v3.kids[ws]) + 1  BY <2>9
    <3> QED  BY <3>1, <2>2, <2>9, InsertChildLinks DEF AddChild
  <2>11. u.stale = v3.stale \cup Below(u, ws)
    BY <2>9, <1>1, <1>7, ChangedIsStale DEF AddChild
  <2> HIDE DEF u
  <2>12. Linked(u) /\ Acyclic(u) /\ u.normal = t.normal /\ u.parent[l] = ws
    <3>1. Linked(u) /\ Acyclic(u) /\ u.normal = t.normal
      BY <2>1, <2>6, <2>9, <2>10, <1>10 DEF Inserted, Rest, TreeInv
    <3>2. u.parent[l] = ws  BY <2>9, <2>10, <1>7 DEF Inserted, Tree
    <3> QED  BY <3>1, <3>2
  <2>13. Over(u, ws, l) /\ Over(u, ws, ws)  BY <2>12, <1>1, <1>7, ChildIsBelow DEF Over
  <2>14. /\ \A y \in Parents : Elements(v3.kids[y]) \subseteq Elements(u.kids[y])
         /\ \A y \in Parents : Elements(v2.kids[y]) \subseteq Elements(u.kids[y])
         /\ \A y \in Parents : Elements(v0.kids[y]) \subseteq Elements(u.kids[y])
    <3>1. \A y \in Parents : Elements(v3.kids[y]) \subseteq Elements(u.kids[y])
      BY <2>10 DEF Inserted
    <3>2. \A y \in Parents : Elements(v2.kids[y]) \subseteq Elements(v3.kids[y])
      BY <2>7 DEF Inserted
    <3>3. \A y \in Parents : Elements(v0.kids[y]) \subseteq Elements(v2.kids[y])
      BY <2>4, <1>10 DEF Inserted
    <3> QED  BY <3>1, <3>2, <3>3
  <2>15. v0.stale \subseteq B \cup Below(u, ws)
    BY <2>12, <2>13, <2>14, <1>1, <1>9, <1>11, StaleBelow
  <2>16. v2.stale \subseteq B \cup Below(u, ws)
    BY <2>5, <2>6, <2>12, <2>13, <2>14, <2>15, <1>1, <1>7, <1>10, StaleBelow
  <2>17. v3.stale \subseteq B \cup Below(u, ws)
    BY <2>8, <2>9, <2>12, <2>13, <2>14, <2>16, <1>1, <1>7, StaleBelow
  <2> QED  BY <2>11, <2>12, <2>17 DEF u, v3, v2
<1>13. CASE dir \in Backward
  <2> DEFINE u == AddChild(AddChild(AddChild(v1, l, w), l, top), ws, l)
  <2>1. WrapTop(t, w, ws, dir) = u  BY <1>5, <1>13
  <2>2. u.stale \subseteq B \cup Below(u, ws) /\ u.normal = t.normal
    BY <2>1, <1>6, <1>7, <1>12
  <2> QED  BY <2>1, <2>2
<1>14. CASE dir \notin Backward
  <2> DEFINE u == AddChild(AddChild(AddChild(v1, l, top), l, w), ws, l)
  <2>1. WrapTop(t, w, ws, dir) = u  BY <1>5, <1>14
  <2>2. u.stale \subseteq B \cup Below(u, ws) /\ u.normal = t.normal
    BY <2>1, <1>6, <1>7, <1>12
  <2> QED  BY <2>1, <2>2
<1> QED  BY <1>13, <1>14

\* _move_to_top_node lays out the workspace.
LEMMA MoveToTopNodeFresh ==
    ASSUME NEW t, TreeInv(t), NEW w \in Windows, t.parent[w] # Nil, NEW ws \in Workspaces,
           t.kids[ws] # <<>>, Len(t.kids[TilingLayout(t, ws)]) # 1, NEW dir,
           NEW B, Unseen(t, B), t.stale \subseteq B
    PROVE  MoveToTopNode(t, w, ws, dir).stale \subseteq B
<1> DEFINE t1  == PurgeAndReconfigure(t, w)
           top == TilingLayout(t1, ws)
           ty  == t1.type[top]
           inv == InverseType(ty)
           t2  == SetType(t1, top, inv)
           i   == IF dir \in Backward THEN 1 ELSE Len(t1.kids[top]) + 1
           u   == IF IsCompatible(ty, dir) THEN AddChild(t1, top, w)
                  ELSE IF Len(t1.kids[top]) = 1 THEN InsertChild(t2, top, i, w)
                  ELSE WrapTop(t1, w, ws, dir)
<1>1. MoveToTopNode(t, w, ws, dir) = UpdateRect(u, ws)  BY DEF MoveToTopNode
<1>2. TreeInv(t1) /\ t1.parent[w] = Nil /\ t1.kids[ws] # <<>> /\ t1.normal = t.normal
  <2>1. TreeInv(t1) /\ t1.normal = t.normal  BY PurgeKeeps
  <2>2. t1.parent[w] = Nil  BY PurgeKeeps
  <2>3. t1.kids[ws] # <<>>  BY PurgeKeeps
  <2> QED  BY <2>1, <2>2, <2>3
<1>3. t1.stale \subseteq B  BY PurgeFresh
<1>4. TreeInv(UpdateRect(u, ws))
  <2>1. TreeInv(MoveToTopNode(t, w, ws, dir))  BY MoveToTopNodeKeeps
  <2> QED  BY <2>1, <1>1
<1>5. inv \in Types  BY DEF InverseType, Types
<1> HIDE DEF t1, ty, inv, t2, i
<1>6. t1 \in Tree /\ Linked(t1) /\ Acyclic(t1) /\ Shaped(t1, t1.live) /\ w \in Items /\ ws \in Parents
  BY <1>2 DEF TreeInv, Linked, Items, Parents
<1>7. top \in Layouts /\ top \in t1.live /\ t1.parent[top] = ws  BY <1>2, <1>6, TopLayout
<1>8. top \in Parents /\ top \in Items /\ top # w
  BY <1>7, KindsAssumption DEF Parents, Items
<1> HIDE DEF top
<1>9. Len(t1.kids[top]) \in Nat /\ Len(t1.kids[top]) + 1 \in 1..Len(t1.kids[top]) + 1
      /\ i \in 1..Len(t1.kids[top]) + 1
  <2>1. Len(t1.kids[top]) \in Nat  BY <1>6, <1>8, KidsAreLists
  <2> QED  BY <2>1 DEF i
<1>10. Unseen(t1, B)  BY <1>2 DEF Unseen
<1>11. ASSUME NEW x, Linked(x), x.live = t1.live, x.parent = t1.parent, x.kids = t1.kids,
              x.normal = t1.normal, x.stale \subseteq B, NEW k \in 1..Len(x.kids[top]) + 1,
              u = InsertChild(x, top, k, w)
       PROVE  u \in Tree /\ u.normal = t.normal /\ u.stale \subseteq B \cup Below(u, ws)
  <2>1. Inserted(x, u, top, w)  BY <1>2, <1>7, <1>11, InsertChildLinks
  <2>2. u.stale = x.stale \cup Below(u, top)  BY <1>6, <1>8, <1>11, ChangedIsStale DEF Linked
  <2> HIDE DEF u
  <2>3. u \in Tree /\ u.normal = t.normal /\ u.parent[top] = ws
    <3>1. u \in Tree /\ u.normal = t.normal
      BY <2>1, <1>2, <1>11 DEF Inserted, Rest, Linked
    <3>2. x \in Tree  BY <1>11 DEF Linked
    <3>3. u.parent[top] = ws  BY <2>1, <3>2, <1>7, <1>8, <1>11 DEF Inserted, Tree
    <3> QED  BY <3>1, <3>3
  <2>4. Linked(u) /\ Acyclic(u)  BY <2>3, <1>4, UpdatedWasTree
  <2>5. Over(u, ws, top)  BY <2>3, <2>4, <1>6, <1>8, ChildIsBelow
  <2>6. Below(u, top) \subseteq Below(u, ws)  BY <2>4, <2>5, <1>6, <1>8, BelowBelow
  <2> QED  BY <2>2, <2>3, <2>6, <1>11
<1>12. u \in Tree /\ u.normal = t.normal /\ u.stale \subseteq B \cup Below(u, ws)
  <2>1. CASE IsCompatible(ty, dir)
    <3>1. u = InsertChild(t1, top, Len(t1.kids[top]) + 1, w)  BY <2>1 DEF AddChild
    <3> HIDE DEF u
    <3> QED  BY <3>1, <1>3, <1>6, <1>9, <1>11
  <2>2. CASE ~IsCompatible(ty, dir) /\ Len(t1.kids[top]) = 1
    <3>1. u = InsertChild(t2, top, i, w)  BY <2>2
    <3> HIDE DEF u
    <3>2. /\ Linked(t2) /\ t2.parent = t1.parent /\ t2.kids = t1.kids /\ t2.live = t1.live
          /\ t2.normal = t1.normal
      BY <1>5, <1>6, <1>7, SetTypeLinks DEF t2
    <3>3. t2.stale \subseteq B  BY <1>3, <1>5, <1>6, <1>7, <1>10, SetTypeFresh DEF t2
    <3>4. i \in 1..Len(t2.kids[top]) + 1  BY <3>2, <1>9
    <3> QED  BY <3>1, <3>2, <3>3, <3>4, <1>11
  <2>3. CASE ~IsCompatible(ty, dir) /\ Len(t1.kids[top]) # 1
    <3>1. u = WrapTop(t1, w, ws, dir)  BY <2>3
    <3>2. TreeInv(WrapTop(t1, w, ws, dir))  BY <2>3, <1>2, WrapTopKeeps DEF top
    <3>3. LET x == WrapTop(t1, w, ws, dir)
          IN  x.stale \subseteq B \cup Below(x, ws) /\ x.normal = t1.normal
      BY <2>3, <1>2, <1>3, WrapTopStale DEF top
    <3> HIDE DEF u
    <3> QED  BY <3>1, <3>2, <3>3, <1>2 DEF TreeInv, Linked
  <2> QED  BY <2>1, <2>2, <2>3
<1> HIDE DEF u
<1>13. Linked(u) /\ Acyclic(u)  BY <1>4, <1>12, UpdatedWasTree
<1>14. Unseen(u, B)  BY <1>12 DEF Unseen
<1> QED  BY <1>1, <1>6, <1>12, <1>13, <1>14, Relaid

\* Move_container::execute lays out what it has changed.
LEMMA MoveContainerFresh ==
    ASSUME NEW t, TreeInv(t), NEW w \in Windows, NEW ws \in RootsOf(t, w), NEW dir,
           NEW B, Unseen(t, B), t.stale \subseteq B
    PROVE  MoveContainerTree(t, w, ws, dir).stale \subseteq B
<1> DEFINE node == FindDirectionCompatibleNode(t, w, dir)
           top  == TilingLayout(t, ws)
<1>1. ws \in Workspaces /\ t.parent[w] # Nil /\ t.kids[ws] # <<>>
  BY RootHolds DEF TreeInv, Items
<1>2. CASE node # Nil
  <2>1. MoveContainerTree(t, w, ws, dir) = MoveToAdjacentNode(t, w, node, dir)
    BY <1>2 DEF MoveContainerTree
  <2>2. /\ node \in Items /\ t.parent[node] \in t.live
        /\ Len(t.kids[t.parent[w]]) # 1
        /\ \A adj \in Elements(t.kids[t.parent[node]]) :
              adj # node => adj # w /\ adj # t.parent[w]
    BY <1>2, FoundNode
  <2>3. Over(t, t.parent[node], t.parent[w])  BY <1>2, FoundAbove
  <2> HIDE DEF node
  <2> QED  BY <2>1, <2>2, <2>3, <1>1, MoveToAdjacentFresh
<1>3. CASE node = Nil /\ (Len(t.kids[top]) = 1 \/ IsCompatible(t.type[top], dir))
  BY <1>3 DEF MoveContainerTree
<1>4. CASE node = Nil /\ ~(Len(t.kids[top]) = 1 \/ IsCompatible(t.type[top], dir))
  <2>1. MoveContainerTree(t, w, ws, dir) = MoveToTopNode(t, w, ws, dir)
    BY <1>4 DEF MoveContainerTree
  <2> QED  BY <2>1, <1>1, <1>4, MoveToTopNodeFresh
<1> QED  BY <1>2, <1>3, <1>4

-----------------------------------------------------------------------------
(* No operation reads a rectangle or a window state to decide on a link.    *)

\* A record with the fields of a tree, whatever is in them.
Fields(S) == [parent : S, kids : S, type : S, live : S, mark : S, normal : S, stale : S]

Fielded(t) == \E S : t \in Fields(S)

\* t and u differ in rectangles only, and in the windows that take their geometry: N in
\* t and M in u.
Twins(t, u, N, M) ==
    /\ Fielded(t) /\ Fielded(u) /\ t.normal = N /\ u.normal = M
    /\ u.parent = t.parent /\ u.kids = t.kids /\ u.type = t.type
    /\ u.live = t.live /\ u.mark = t.mark

\* A tree is its fields.
LEMMA SameFields ==
    ASSUME NEW t, NEW u, Fielded(t), Fielded(u), u.parent = t.parent, u.kids = t.kids,
           u.type = t.type, u.live = t.live, u.mark = t.mark, u.normal = t.normal,
           u.stale = t.stale
    PROVE  u = t
<1>1. PICK S : t \in Fields(S)  BY DEF Fielded
<1>2. PICK R : u \in Fields(R)  BY DEF Fielded
<1> QED  BY <1>1, <1>2 DEF Fields

\* A tree has them.
LEMMA TreeHasFields == ASSUME NEW t \in Tree  PROVE Fielded(t)
<1> DEFINE S == {t.parent, t.kids, t.type, t.live, t.mark, t.normal, t.stale}
<1>1. t \in Fields(S)  BY DEF Fields, Tree
<1> QED  BY <1>1 DEF Fielded

\* Twins whose links, types, marks or rectangles are set alike are twins.
LEMMA TwinsSet ==
    ASSUME NEW t, NEW u, NEW N, NEW M, Twins(t, u, N, M)
    PROVE  /\ \A x, y : Twins([t EXCEPT !.stale = x], [u EXCEPT !.stale = y], N, M)
           /\ \A x : Twins([t EXCEPT !.stale = x], u, N, M) /\ Twins(t, [u EXCEPT !.stale = x], N, M)
           /\ \A x, y : Twins([t EXCEPT !.parent = x, !.kids = y],
                               [u EXCEPT !.parent = x, !.kids = y], N, M)
           /\ \A x : Twins([t EXCEPT !.kids = x], [u EXCEPT !.kids = x], N, M)
           /\ \A x : Twins([t EXCEPT !.type = x], [u EXCEPT !.type = x], N, M)
           /\ \A x : Twins([t EXCEPT !.mark = x], [u EXCEPT !.mark = x], N, M)
           /\ \A x, y : Twins([t EXCEPT !.live = x, !.type = y], [u EXCEPT !.live = x, !.type = y], N, M)
<1>1. PICK S : t \in Fields(S)  BY DEF Twins, Fielded
<1>2. PICK R : u \in Fields(R)  BY DEF Twins, Fielded
<1> DEFINE Set(v, Q, x, y) ==
             /\ [v EXCEPT !.stale = x] \in Fields(Q \cup {x})
             /\ [v EXCEPT !.parent = x, !.kids = y] \in Fields(Q \cup {x, y})
             /\ [v EXCEPT !.kids = x] \in Fields(Q \cup {x})
             /\ [v EXCEPT !.type = x] \in Fields(Q \cup {x})
             /\ [v EXCEPT !.mark = x] \in Fields(Q \cup {x})
             /\ [v EXCEPT !.live = x, !.type = y] \in Fields(Q \cup {x, y})
<1>3. \A v, Q, x, y : v \in Fields(Q) => Set(v, Q, x, y)
  <2> SUFFICES ASSUME NEW v, NEW Q, NEW x, NEW y, v \in Fields(Q)  PROVE Set(v, Q, x, y)
    OBVIOUS
  <2>1. [v EXCEPT !.stale = x] \in Fields(Q \cup {x})  BY DEF Fields
  <2>2. [v EXCEPT !.parent = x, !.kids = y] \in Fields(Q \cup {x, y})  BY DEF Fields
  <2>3. [v EXCEPT !.kids = x] \in Fields(Q \cup {x})  BY DEF Fields
  <2>4. [v EXCEPT !.type = x] \in Fields(Q \cup {x})  BY DEF Fields
  <2>5. [v EXCEPT !.mark = x] \in Fields(Q \cup {x})  BY DEF Fields
  <2>6. [v EXCEPT !.live = x, !.type = y] \in Fields(Q \cup {x, y})  BY DEF Fields
  <2> QED  BY <2>1, <2>2, <2>3, <2>4, <2>5, <2>6
<1> HIDE DEF Set
<1>4. \A x, y : /\ Fielded([t EXCEPT !.stale = x]) /\ Fielded([u EXCEPT !.stale = x])
               /\ Fielded([t EXCEPT !.parent = x, !.kids = y]) /\ Fielded([u EXCEPT !.parent = x, !.kids = y])
               /\ Fielded([t EXCEPT !.kids = x]) /\ Fielded([u EXCEPT !.kids = x])
               /\ Fielded([t EXCEPT !.type = x]) /\ Fielded([u EXCEPT !.type = x])
               /\ Fielded([t EXCEPT !.mark = x]) /\ Fielded([u EXCEPT !.mark = x])
               /\ Fielded([t EXCEPT !.live = x, !.type = y]) /\ Fielded([u EXCEPT !.live = x, !.type = y])
  <2> SUFFICES ASSUME NEW x, NEW y, NEW v \in {t, u}
               PROVE  /\ Fielded([v EXCEPT !.stale = x])
                      /\ Fielded([v EXCEPT !.parent = x, !.kids = y])
                      /\ Fielded([v EXCEPT !.kids = x]) /\ Fielded([v EXCEPT !.type = x])
                      /\ Fielded([v EXCEPT !.mark = x])
                      /\ Fielded([v EXCEPT !.live = x, !.type = y])
    OBVIOUS
  <2>1. PICK Q : v \in Fields(Q)  BY <1>1, <1>2
  <2>2. Set(v, Q, x, y)  BY <1>3, <2>1
  <2> QED  BY <2>2 DEF Set, Fielded
<1> QED  BY <1>1, <1>2, <1>4 DEF Fields, Twins

\* What reads a tree and is no rectangle is the same for twins.
LEMMA TwinsRead ==
    ASSUME NEW t, NEW u, NEW N, NEW M, Twins(t, u, N, M)
    PROVE  /\ \A q : Below(u, q) = Below(t, q)
           /\ \A n : IndexOf(u, n) = IndexOf(t, n)
           /\ Fresh(u) = Fresh(t)
           /\ \A n : IsSole(u, n) = IsSole(t, n)
           /\ \A w : IsMarked(u, w) = IsMarked(t, w)
           /\ \A ws : TilingLayout(u, ws) = TilingLayout(t, ws)
           /\ \A n : RootsOf(u, n) = RootsOf(t, n)
           /\ \A ws : WindowsOf(u, ws) = WindowsOf(t, ws)
           /\ Placed(u) = Placed(t)
           /\ \A n, dir : FindDirectionCompatibleNode(u, n, dir) = FindDirectionCompatibleNode(t, n, dir)
<1> USE DEF Twins
<1>1. \A q : Levels(u, q) = Levels(t, q)  BY DEF Levels
<1>2. \A q : Below(u, q) = Below(t, q)  BY <1>1 DEF Below
<1>3. \A n : Climb(u, n) = Climb(t, n)  BY DEF Climb
<1>4. \A n : RootsOf(u, n) = RootsOf(t, n)  BY <1>3 DEF RootsOf, Ancestors
<1>5. \A ws : WindowsOf(u, ws) = WindowsOf(t, ws)  BY <1>2 DEF WindowsOf
<1>6. /\ \A n : IndexOf(u, n) = IndexOf(t, n) /\ IsSole(u, n) = IsSole(t, n)
      /\ Fresh(u) = Fresh(t) /\ Placed(u) = Placed(t)
      /\ \A w : IsMarked(u, w) = IsMarked(t, w)
      /\ \A ws : TilingLayout(u, ws) = TilingLayout(t, ws)
  BY DEF IndexOf, IsSole, Fresh, Placed, IsMarked, TilingLayout
<1>7. \A n, dir : CompatibleSteps(u, n, dir) = CompatibleSteps(t, n, dir)
  BY <1>3 DEF CompatibleSteps
<1>8. \A n, dir : FindDirectionCompatibleNode(u, n, dir) = FindDirectionCompatibleNode(t, n, dir)
  BY <1>3, <1>7 DEF FindDirectionCompatibleNode
<1> QED  BY <1>2, <1>4, <1>5, <1>6, <1>8

\* The operations of node.h and layout.h make twins of twins.
LEMMA TwinsStep ==
    ASSUME NEW t, NEW u, NEW N, NEW M, Twins(t, u, N, M)
    PROVE  /\ \A p : Twins(Touch(t, p), Touch(u, p), N, M)
           /\ \A p, n : Twins(RemoveChild(t, p, n), RemoveChild(u, p, n), N, M)
           /\ \A p, i, n : Twins(InsertChild(t, p, i, n), InsertChild(u, p, i, n), N, M)
           /\ \A p, n : Twins(AddChild(t, p, n), AddChild(u, p, n), N, M)
           /\ \A p, i, j : Twins(ShiftChild(t, p, i, j), ShiftChild(u, p, i, j), N, M)
           /\ \A p, m, n : Twins(Replace(t, p, m, n), Replace(u, p, m, n), N, M)
           /\ \A l, ty : Twins(New(t, l, ty), New(u, l, ty), N, M)
           /\ \A l : Twins(Delete(t, l), Delete(u, l), N, M)
           /\ \A q : Twins(UpdateRect(t, q), UpdateRect(u, q), N, M)
           /\ \A l, ty : Twins(SetType(t, l, ty), SetType(u, l, ty), N, M)
           /\ \A w : Twins(Forget(t, w), Forget(u, w), N, M)
           /\ \A w, m : Twins([t EXCEPT !.mark[w] = m], [u EXCEPT !.mark[w] = m], N, M)
<1>1. ASSUME NEW x, NEW y, Twins(x, y, N, M), NEW a, NEW b
      PROVE  Twins([x EXCEPT !.stale = a], [y EXCEPT !.stale = b], N, M)
  BY <1>1, TwinsSet
<1>2. ASSUME NEW x, NEW y, Twins(x, y, N, M), NEW p
      PROVE  Twins(Touch(x, p), Touch(y, p), N, M)
  BY <1>1, <1>2 DEF Touch
<1>3. ASSUME NEW x, NEW y, Twins(x, y, N, M), NEW q
      PROVE  Twins(UpdateRect(x, q), UpdateRect(y, q), N, M)
  <2> DEFINE x1 == [x EXCEPT !.stale = @ \ (Below(x, q) \cap (Layouts \cup x.normal))]
             y1 == [y EXCEPT !.stale = @ \ (Below(y, q) \cap (Layouts \cup y.normal))]
  <2>1. UpdateRect(x, q) = (IF q \in x.stale THEN x ELSE x1)
        /\ UpdateRect(y, q) = (IF q \in y.stale THEN y ELSE y1)
    BY DEF UpdateRect
  <2>2. \A a, b : Twins([x EXCEPT !.stale = a], [y EXCEPT !.stale = b], N, M)  BY <1>1, <1>3
  <2>3. \A a : Twins([x EXCEPT !.stale = a], y, N, M)  BY <1>3, TwinsSet
  <2>4. \A b : Twins(x, [y EXCEPT !.stale = b], N, M)  BY <1>3, TwinsSet
  <2>5. Twins(x1, y1, N, M) /\ Twins(x1, y, N, M) /\ Twins(x, y1, N, M)  BY <2>2, <2>3, <2>4
  <2> HIDE DEF x1, y1
  <2> QED  BY <2>1, <2>5, <1>3
<1>4. ASSUME NEW a, NEW b
      PROVE  Twins([t EXCEPT !.parent = a, !.kids = b], [u EXCEPT !.parent = a, !.kids = b], N, M)
  BY TwinsSet
<1>5. ASSUME NEW p, NEW n  PROVE Twins(RemoveChild(t, p, n), RemoveChild(u, p, n), N, M)
  <2> DEFINE a == [t.parent EXCEPT ![n] = Nil]
             b == [t.kids EXCEPT ![p] = Erase(@, n)]
             x == [t EXCEPT !.parent = a, !.kids = b]
             y == [u EXCEPT !.parent = a, !.kids = b]
  <2>1. RemoveChild(t, p, n) = Touch(x, p) /\ RemoveChild(u, p, n) = Touch(y, p)
    BY DEF RemoveChild, Twins
  <2>2. Twins(x, y, N, M)
    <3> HIDE DEF a, b
    <3> QED  BY <1>4
  <2> HIDE DEF x, y
  <2> QED  BY <2>1, <2>2, <1>2
<1>6. ASSUME NEW p, NEW i, NEW n
      PROVE  Twins(InsertChild(t, p, i, n), InsertChild(u, p, i, n), N, M)
  <2> DEFINE a == [t.parent EXCEPT ![n] = p]
             b == [t.kids EXCEPT ![p] = InsertAt(@, i, n)]
             x == [t EXCEPT !.parent = a, !.kids = b]
             y == [u EXCEPT !.parent = a, !.kids = b]
  <2>1. InsertChild(t, p, i, n) = Touch(x, p) /\ InsertChild(u, p, i, n) = Touch(y, p)
    BY DEF InsertChild, Twins
  <2>2. Twins(x, y, N, M)
    <3> HIDE DEF a, b
    <3> QED  BY <1>4
  <2> HIDE DEF x, y
  <2> QED  BY <2>1, <2>2, <1>2
<1>7. \A p, n : Twins(AddChild(t, p, n), AddChild(u, p, n), N, M)
  BY <1>6 DEF AddChild, Twins
<1>8. ASSUME NEW p, NEW i, NEW j
      PROVE  Twins(ShiftChild(t, p, i, j), ShiftChild(u, p, i, j), N, M)
  <2> DEFINE b == [t.kids EXCEPT ![p] = [@ EXCEPT ![i] = t.kids[p][j], ![j] = t.kids[p][i]]]
             x == [t EXCEPT !.kids = b]
             y == [u EXCEPT !.kids = b]
  <2>1. ShiftChild(t, p, i, j) = Touch(x, p) /\ ShiftChild(u, p, i, j) = Touch(y, p)
    BY DEF ShiftChild, Twins
  <2>2. Twins(x, y, N, M)
    <3> HIDE DEF b
    <3> QED  BY TwinsSet
  <2> HIDE DEF x, y
  <2> QED  BY <2>1, <2>2, <1>2
<1>9. ASSUME NEW p, NEW m, NEW n
      PROVE  Twins(Replace(t, p, m, n), Replace(u, p, m, n), N, M)
  <2> DEFINE a == [t.parent EXCEPT ![m] = Nil, ![n] = p]
             b == [t.kids EXCEPT ![p] = [@ EXCEPT ![IndexOf(t, m)] = n]]
             x == [t EXCEPT !.parent = a, !.kids = b]
             y == [u EXCEPT !.parent = a, !.kids = b]
  <2>1. IndexOf(u, m) = IndexOf(t, m)  BY TwinsRead
  <2>2. Replace(t, p, m, n) = Touch(x, p) /\ Replace(u, p, m, n) = Touch(y, p)
    BY <2>1 DEF Replace, Twins
  <2>3. Twins(x, y, N, M)
    <3> HIDE DEF a, b
    <3> QED  BY <1>4
  <2> HIDE DEF x, y
  <2> QED  BY <2>2, <2>3, <1>2
<1>10. ASSUME NEW l, NEW ty  PROVE Twins(New(t, l, ty), New(u, l, ty), N, M)
  <2> DEFINE a == t.live \cup {l}
             b == [t.type EXCEPT ![l] = ty]
  <2>1. /\ New(t, l, ty) = [t EXCEPT !.live = a, !.type = b]
        /\ New(u, l, ty) = [u EXCEPT !.live = a, !.type = b]
    BY DEF New, Twins
  <2>2. Twins([t EXCEPT !.live = a, !.type = b], [u EXCEPT !.live = a, !.type = b], N, M)
    <3> HIDE DEF a, b
    <3> QED  BY TwinsSet
  <2> QED  BY <2>1, <2>2
<1>11. ASSUME NEW l  PROVE Twins(Delete(t, l), Delete(u, l), N, M)
  <2> DEFINE a == t.live \ {l}
             b == [t.type EXCEPT ![l] = "Horizontal"]
             x == [t EXCEPT !.live = a, !.type = b]
             y == [u EXCEPT !.live = a, !.type = b]
  <2>1. /\ Delete(t, l) = [x EXCEPT !.stale = @ \ {l}]
        /\ Delete(u, l) = [y EXCEPT !.stale = @ \ {l}]
    BY DEF Delete, Twins
  <2>2. Twins(x, y, N, M)
    <3> HIDE DEF a, b
    <3> QED  BY TwinsSet
  <2> HIDE DEF x, y
  <2> QED  BY <2>1, <2>2, <1>1
<1>12. ASSUME NEW l, NEW ty  PROVE Twins(SetType(t, l, ty), SetType(u, l, ty), N, M)
  <2> DEFINE x == [t EXCEPT !.type[l] = ty]
             y == [u EXCEPT !.type[l] = ty]
  <2>1. SetType(t, l, ty) = UpdateRect(Touch(x, l), l) /\ SetType(u, l, ty) = UpdateRect(Touch(y, l), l)
    BY DEF SetType
  <2>2. Twins(x, y, N, M)
    <3> DEFINE b == [t.type EXCEPT ![l] = ty]
    <3>1. x = [t EXCEPT !.type = b] /\ y = [u EXCEPT !.type = b]  BY DEF Twins
    <3> HIDE DEF b
    <3> QED  BY <3>1, TwinsSet
  <2> HIDE DEF x, y
  <2> QED  BY <2>1, <2>2, <1>2, <1>3
<1>13. ASSUME NEW w, NEW m  PROVE Twins([t EXCEPT !.mark[w] = m], [u EXCEPT !.mark[w] = m], N, M)
  <2> DEFINE b == [t.mark EXCEPT ![w] = m]
  <2>1. /\ [t EXCEPT !.mark[w] = m] = [t EXCEPT !.mark = b]
        /\ [u EXCEPT !.mark[w] = m] = [u EXCEPT !.mark = b]
    BY DEF Twins
  <2> HIDE DEF b
  <2> QED  BY <2>1, TwinsSet
<1>14. ASSUME NEW w  PROVE Twins(Forget(t, w), Forget(u, w), N, M)
  <2> DEFINE x == [t EXCEPT !.mark[w] = "Floating"]
             y == [u EXCEPT !.mark[w] = "Floating"]
  <2>1. Forget(t, w) = [x EXCEPT !.stale = @ \ {w}] /\ Forget(u, w) = [y EXCEPT !.stale = @ \ {w}]
    BY DEF Forget
  <2>2. Twins(x, y, N, M)  BY <1>13
  <2> HIDE DEF x, y
  <2> QED  BY <2>1, <2>2, <1>1
<1>15. \A p : Twins(Touch(t, p), Touch(u, p), N, M)  BY <1>2
<1>16. \A q : Twins(UpdateRect(t, q), UpdateRect(u, q), N, M)  BY <1>3
<1> QED  BY <1>5, <1>6, <1>7, <1>8, <1>9, <1>10, <1>11, <1>12, <1>13, <1>14, <1>15, <1>16

\* So do those of window.cpp and of binding.cpp: no operation reads a rectangle, or the
\* state of a window, to decide on a link.
LEMMA TwinsPurge ==
    ASSUME NEW t, NEW u, NEW N, NEW M, Twins(t, u, N, M)
    PROVE  /\ \A n : Twins(PurgeSoleNode(t, n), PurgeSoleNode(u, n), N, M)
           /\ \A w : Twins(PurgeAndReconfigure(t, w), PurgeAndReconfigure(u, w), N, M)
<1>1. ASSUME NEW x, NEW y, Twins(x, y, N, M), NEW n
      PROVE  Twins(PurgeSoleNode(x, n), PurgeSoleNode(y, n), N, M)
  <2> DEFINE p     == x.parent[n]
             child == x.kids[n][1]
             x1 == RemoveChild(x, n, child)
             y1 == RemoveChild(y, n, child)
             x2 == Replace(x1, p, n, child)
             y2 == Replace(y1, p, n, child)
             x3 == Delete(x2, n)
             y3 == Delete(y2, n)
  <2>1. /\ PurgeSoleNode(x, n) = IF ~IsSole(x, n) THEN x ELSE UpdateRect(x3, p)
        /\ PurgeSoleNode(y, n) = IF ~IsSole(y, n) THEN y ELSE UpdateRect(y3, p)
    BY <1>1 DEF PurgeSoleNode, Twins
  <2>2. IsSole(x, n) <=> IsSole(y, n)  BY <1>1, TwinsRead
  <2>3. Twins(x1, y1, N, M)  BY <1>1, TwinsStep
  <2>4. Twins(x2, y2, N, M)
    <3> HIDE DEF x1, y1
    <3> QED  BY <2>3, TwinsStep
  <2>5. Twins(x3, y3, N, M)
    <3> HIDE DEF x2, y2
    <3> QED  BY <2>4, TwinsStep
  <2>6. Twins(UpdateRect(x3, p), UpdateRect(y3, p), N, M)
    <3> HIDE DEF x3, y3
    <3> QED  BY <2>5, TwinsStep
  <2> HIDE DEF x3, y3, p
  <2> QED  BY <2>1, <2>2, <2>6, <1>1
<1>2. ASSUME NEW w  PROVE Twins(PurgeAndReconfigure(t, w), PurgeAndReconfigure(u, w), N, M)
  <2> DEFINE p == t.parent[w]
             g == t.parent[p]
             x1 == RemoveChild(t, p, w)
             y1 == RemoveChild(u, p, w)
             x2 == RemoveChild(x1, g, p)
             y2 == RemoveChild(y1, g, p)
             x3 == Delete(x2, p)
             y3 == Delete(y2, p)
  <2>1. /\ PurgeAndReconfigure(t, w) = IF x1.kids[p] = <<>> THEN UpdateRect(x3, g)
                                       ELSE IF IsSole(x1, p) THEN PurgeSoleNode(x1, p)
                                       ELSE UpdateRect(x1, p)
        /\ PurgeAndReconfigure(u, w) = IF y1.kids[p] = <<>> THEN UpdateRect(y3, g)
                                       ELSE IF IsSole(y1, p) THEN PurgeSoleNode(y1, p)
                                       ELSE UpdateRect(y1, p)
    BY DEF PurgeAndReconfigure, Twins
  <2>2. Twins(x1, y1, N, M)  BY TwinsStep
  <2> HIDE DEF p, g, x1, y1
  <2>3. Twins(x2, y2, N, M)  BY <2>2, TwinsStep
  <2> HIDE DEF x2, y2
  <2>4. Twins(x3, y3, N, M)  BY <2>3, TwinsStep
  <2> HIDE DEF x3, y3
  <2>5. Twins(UpdateRect(x3, g), UpdateRect(y3, g), N, M)  BY <2>4, TwinsStep
  <2>6. Twins(UpdateRect(x1, p), UpdateRect(y1, p), N, M)  BY <2>2, TwinsStep
  <2>7. Twins(PurgeSoleNode(x1, p), PurgeSoleNode(y1, p), N, M)  BY <2>2, <1>1
  <2>8. IsSole(x1, p) <=> IsSole(y1, p)  BY <2>2, TwinsRead
  <2>9. x1.kids = y1.kids  BY <2>2 DEF Twins
  <2> QED  BY <2>1, <2>5, <2>6, <2>7, <2>8, <2>9
<1> QED  BY <1>1, <1>2

\* Joining a layout or a marked window.
LEMMA TwinsJoin ==
    ASSUME NEW t, NEW u, NEW N, NEW M, Twins(t, u, N, M)
    PROVE  /\ \A w, l, i : Twins(MoveToLayout(t, w, l, i), MoveToLayout(u, w, l, i), N, M)
           /\ \A w, m : Twins(MoveToMarkedWindow(t, w, m), MoveToMarkedWindow(u, w, m), N, M)
<1>1. ASSUME NEW w, NEW l, NEW i
      PROVE  Twins(MoveToLayout(t, w, l, i), MoveToLayout(u, w, l, i), N, M)
  <2> DEFINE p == t.parent[w]
             x0 == RemoveChild(t, p, w)
             y0 == RemoveChild(u, p, w)
             x1 == InsertChild(x0, l, i, w)
             y1 == InsertChild(y0, l, i, w)
             x2 == PurgeSoleNode(x1, p)
             y2 == PurgeSoleNode(y1, p)
  <2>1. /\ MoveToLayout(t, w, l, i) = UpdateRect(x2, x2.parent[l])
        /\ MoveToLayout(u, w, l, i) = UpdateRect(y2, y2.parent[l])
    BY DEF MoveToLayout, Twins
  <2>2. Twins(x0, y0, N, M)  BY TwinsStep
  <2> HIDE DEF p, x0, y0
  <2>3. Twins(x1, y1, N, M)  BY <2>2, TwinsStep
  <2> HIDE DEF x1, y1
  <2>4. Twins(x2, y2, N, M)  BY <2>3, TwinsPurge
  <2> HIDE DEF x2, y2
  <2>5. x2.parent[l] = y2.parent[l]  BY <2>4 DEF Twins
  <2>6. \A q : Twins(UpdateRect(x2, q), UpdateRect(y2, q), N, M)  BY <2>4, TwinsStep
  <2> QED  BY <2>1, <2>5, <2>6
<1>2. ASSUME NEW w, NEW m
      PROVE  Twins(MoveToMarkedWindow(t, w, m), MoveToMarkedWindow(u, w, m), N, M)
  <2> DEFINE ty == t.mark[m]
             x1 == IF t.parent[w] # Nil THEN PurgeAndReconfigure(t, w) ELSE t
             y1 == IF u.parent[w] # Nil THEN PurgeAndReconfigure(u, w) ELSE u
             p  == x1.parent[m]
             l  == Fresh(x1)
             x2 == New(x1, l, ty)
             y2 == New(y1, l, ty)
             x3 == Replace(x2, p, m, l)
             y3 == Replace(y2, p, m, l)
             x4 == AddChild(x3, l, m)
             y4 == AddChild(y3, l, m)
             x5 == AddChild(x4, l, w)
             y5 == AddChild(y4, l, w)
             x6 == AddChild(x1, p, w)
             y6 == AddChild(y1, p, w)
  <2>1. Twins(x1, y1, N, M)
    <3>1. Twins(PurgeAndReconfigure(t, w), PurgeAndReconfigure(u, w), N, M)  BY TwinsPurge
    <3>2. t.parent = u.parent  BY DEF Twins
    <3> QED  BY <3>1, <3>2
  <2>2. /\ MoveToMarkedWindow(t, w, m) = IF Len(x1.kids[p]) > 1 THEN UpdateRect(x5, p)
                                         ELSE SetType(x6, p, ty)
        /\ MoveToMarkedWindow(u, w, m) = IF Len(y1.kids[p]) > 1 THEN UpdateRect(y5, p)
                                         ELSE SetType(y6, p, ty)
    <3>1. u.mark = t.mark  BY DEF Twins
    <3>2. y1.parent = x1.parent /\ Fresh(y1) = Fresh(x1)  BY <2>1, TwinsRead DEF Twins
    <3> HIDE DEF x1, y1
    <3> QED  BY <3>1, <3>2 DEF MoveToMarkedWindow, x1, y1
  <2>3. x1.kids = y1.kids  BY <2>1 DEF Twins
  <2> HIDE DEF ty, x1, y1, p, l
  <2>4. Twins(x2, y2, N, M)  BY <2>1, TwinsStep
  <2> HIDE DEF x2, y2
  <2>5. Twins(x3, y3, N, M)  BY <2>4, TwinsStep
  <2> HIDE DEF x3, y3
  <2>6. Twins(x4, y4, N, M)  BY <2>5, TwinsStep
  <2> HIDE DEF x4, y4
  <2>7. Twins(x5, y5, N, M)  BY <2>6, TwinsStep
  <2> HIDE DEF x5, y5
  <2>8. Twins(x6, y6, N, M)  BY <2>1, TwinsStep
  <2> HIDE DEF x6, y6
  <2>9. Twins(UpdateRect(x5, p), UpdateRect(y5, p), N, M)  BY <2>7, TwinsStep
  <2>10. Twins(SetType(x6, p, ty), SetType(y6, p, ty), N, M)  BY <2>8, TwinsStep
  <2> QED  BY <2>2, <2>3, <2>9, <2>10
<1> QED  BY <1>1, <1>2

\* Joining a workspace.
LEMMA TwinsPlace ==
    ASSUME NEW t, NEW u, NEW N, NEW M, Twins(t, u, N, M), NEW w, NEW ws, NEW c
    PROVE  /\ Twins(PlaceWindow(t, w, ws, c), PlaceWindow(u, w, ws, c), N, M)
           /\ Twins(MoveToWorkspaceTree(t, w, ws, c), MoveToWorkspaceTree(u, w, ws, c), N, M)
<1>1. ASSUME NEW x, NEW y, Twins(x, y, N, M)
      PROVE  Twins(PlaceWindow(x, w, ws, c), PlaceWindow(y, w, ws, c), N, M)
  <2> DEFINE l  == Fresh(x)
             p  == x.parent[c]
             i  == IndexOf(x, c) + 1
             x1 == New(x, l, "Horizontal")
             y1 == New(y, l, "Horizontal")
             x2 == AddChild(x1, l, w)
             y2 == AddChild(y1, l, w)
             x3 == AddChild(x2, ws, l)
             y3 == AddChild(y2, ws, l)
             x4 == InsertChild(x, p, i, w)
             y4 == InsertChild(y, p, i, w)
  <2>1. /\ PlaceWindow(x, w, ws, c) = IF x.kids[ws] = <<>> THEN UpdateRect(x3, ws)
                                      ELSE IF IsMarked(x, c) THEN MoveToMarkedWindow(x, w, c)
                                      ELSE UpdateRect(x4, p)
        /\ PlaceWindow(y, w, ws, c) = IF x.kids[ws] = <<>> THEN UpdateRect(y3, ws)
                                      ELSE IF IsMarked(x, c) THEN MoveToMarkedWindow(y, w, c)
                                      ELSE UpdateRect(y4, p)
    <3>1. Fresh(y) = Fresh(x) /\ (IsMarked(y, c) <=> IsMarked(x, c)) /\ IndexOf(y, c) = IndexOf(x, c)
      BY <1>1, TwinsRead
    <3>2. y.kids = x.kids /\ y.parent = x.parent  BY <1>1 DEF Twins
    <3> QED  BY <3>1, <3>2 DEF PlaceWindow
  <2> HIDE DEF l, p, i
  <2>2. Twins(x1, y1, N, M)  BY <1>1, TwinsStep
  <2> HIDE DEF x1, y1
  <2>3. Twins(x2, y2, N, M)  BY <2>2, TwinsStep
  <2> HIDE DEF x2, y2
  <2>4. Twins(x3, y3, N, M)  BY <2>3, TwinsStep
  <2> HIDE DEF x3, y3
  <2>5. Twins(x4, y4, N, M)  BY <1>1, TwinsStep
  <2> HIDE DEF x4, y4
  <2>6. Twins(UpdateRect(x3, ws), UpdateRect(y3, ws), N, M)  BY <2>4, TwinsStep
  <2>7. Twins(UpdateRect(x4, p), UpdateRect(y4, p), N, M)  BY <2>5, TwinsStep
  <2>8. Twins(MoveToMarkedWindow(x, w, c), MoveToMarkedWindow(y, w, c), N, M)  BY <1>1, TwinsJoin
  <2> QED  BY <2>1, <2>6, <2>7, <2>8
<1> DEFINE x1 == IF t.parent[w] # Nil THEN PurgeAndReconfigure(t, w) ELSE t
           y1 == IF u.parent[w] # Nil THEN PurgeAndReconfigure(u, w) ELSE u
<1>2. Twins(x1, y1, N, M)
  <2>1. Twins(PurgeAndReconfigure(t, w), PurgeAndReconfigure(u, w), N, M)  BY TwinsPurge
  <2>2. t.parent = u.parent  BY DEF Twins
  <2> QED  BY <2>1, <2>2
<1>3. /\ MoveToWorkspaceTree(t, w, ws, c) = IF ws \in RootsOf(t, w) THEN t ELSE PlaceWindow(x1, w, ws, c)
      /\ MoveToWorkspaceTree(u, w, ws, c) = IF ws \in RootsOf(u, w) THEN u ELSE PlaceWindow(y1, w, ws, c)
  BY DEF MoveToWorkspaceTree
<1> HIDE DEF x1, y1
<1>4. RootsOf(t, w) = RootsOf(u, w)  BY TwinsRead
<1>5. Twins(PlaceWindow(x1, w, ws, c), PlaceWindow(y1, w, ws, c), N, M)  BY <1>1, <1>2
<1> QED  BY <1>1, <1>3, <1>4, <1>5

\* Moving in a direction.
LEMMA TwinsMove ==
    ASSUME NEW t, NEW u, NEW N, NEW M, Twins(t, u, N, M), NEW w, NEW ws, NEW dir
    PROVE  Twins(MoveContainerTree(t, w, ws, dir), MoveContainerTree(u, w, ws, dir), N, M)
<1>1. ASSUME NEW node
      PROVE  Twins(MoveToAdjacentNode(t, w, node, dir), MoveToAdjacentNode(u, w, node, dir), N, M)
  <2> DEFINE t0   == [t EXCEPT !.mark[w] = "Floating"]
             u0   == [u EXCEPT !.mark[w] = "Floating"]
             p    == t.parent[node]
             i    == IndexOf(t, node)
             back == dir \in Backward
             j    == IF back THEN i - 1 ELSE i + 1
             adj  == t.kids[p][j]
             Adjacent(v, v0) ==
                 IF j \notin 1..Len(t.kids[p])
                 THEN IF t.type[p] = t.type[t.parent[w]] THEN v0
                      ELSE MoveToLayout(v0, w, p, IF back THEN 1 ELSE Len(t.kids[p]) + 1)
                 ELSE IF adj \in Layouts THEN MoveToLayout(v0, w, adj, Len(t.kids[adj]) + 1)
                 ELSE IF IsMarked(v0, adj) THEN MoveToMarkedWindow(v0, w, adj)
                 ELSE IF p = t.parent[w] THEN UpdateRect(ShiftChild(v0, p, i, j), p)
                 ELSE MoveToLayout(v0, w, p, IF back THEN i ELSE j)
  <2>1. MoveToAdjacentNode(t, w, node, dir) = Adjacent(t, t0)  BY DEF MoveToAdjacentNode
  <2>2. MoveToAdjacentNode(u, w, node, dir) = Adjacent(u, u0)
    <3>1. IndexOf(u, node) = IndexOf(t, node)  BY TwinsRead
    <3> QED  BY <3>1 DEF MoveToAdjacentNode, Twins
  <2>3. Twins(t0, u0, N, M)  BY TwinsStep
  <2> HIDE DEF t0, u0, p, i, j, adj, back
  <2>4. \A l, k : Twins(MoveToLayout(t0, w, l, k), MoveToLayout(u0, w, l, k), N, M)
    BY <2>3, TwinsJoin
  <2>5. \A m : Twins(MoveToMarkedWindow(t0, w, m), MoveToMarkedWindow(u0, w, m), N, M)
    BY <2>3, TwinsJoin
  <2>6. Twins(UpdateRect(ShiftChild(t0, p, i, j), p), UpdateRect(ShiftChild(u0, p, i, j), p), N, M)
    <3>1. Twins(ShiftChild(t0, p, i, j), ShiftChild(u0, p, i, j), N, M)  BY <2>3, TwinsStep
    <3> QED  BY <3>1, TwinsStep
  <2>7. IsMarked(t0, adj) <=> IsMarked(u0, adj)  BY <2>3, TwinsRead
  <2>8. Twins(Adjacent(t, t0), Adjacent(u, u0), N, M)  BY <2>3, <2>4, <2>5, <2>6, <2>7
  <2> HIDE DEF Adjacent
  <2> QED  BY <2>1, <2>2, <2>8
<1>2. ASSUME NEW x, NEW y, Twins(x, y, N, M)
      PROVE  Twins(WrapTop(x, w, ws, dir), WrapTop(y, w, ws, dir), N, M)
  <2> DEFINE top == TilingLayout(x, ws)
             l   == Fresh(x)
             ty  == InverseType(x.type[top])
             x0  == RemoveChild(x, ws, top)
             y0  == RemoveChild(y, ws, top)
             x1  == New(x0, l, ty)
             y1  == New(y0, l, ty)
             a   == IF dir \in Backward THEN w ELSE top
             b   == IF dir \in Backward THEN top ELSE w
             x2  == AddChild(x1, l, a)
             y2  == AddChild(y1, l, a)
             x3  == AddChild(x2, l, b)
             y3  == AddChild(y2, l, b)
  <2>1. /\ WrapTop(x, w, ws, dir) = AddChild(x3, ws, l)
        /\ WrapTop(y, w, ws, dir) = AddChild(y3, ws, l)
    <3>1. TilingLayout(y, ws) = TilingLayout(x, ws) /\ Fresh(y) = Fresh(x) /\ y.type = x.type
      BY <1>2, TwinsRead DEF Twins
    <3> QED  BY <3>1 DEF WrapTop
  <2> HIDE DEF top, l, ty, a, b
  <2>2. Twins(x0, y0, N, M)  BY <1>2, TwinsStep
  <2> HIDE DEF x0, y0
  <2>3. Twins(x1, y1, N, M)  BY <2>2, TwinsStep
  <2> HIDE DEF x1, y1
  <2>4. Twins(x2, y2, N, M)  BY <2>3, TwinsStep
  <2> HIDE DEF x2, y2
  <2>5. Twins(x3, y3, N, M)  BY <2>4, TwinsStep
  <2> HIDE DEF x3, y3
  <2>6. Twins(AddChild(x3, ws, l), AddChild(y3, ws, l), N, M)  BY <2>5, TwinsStep
  <2> QED  BY <2>1, <2>6
<1>3. Twins(MoveToTopNode(t, w, ws, dir), MoveToTopNode(u, w, ws, dir), N, M)
  <2> DEFINE x1  == PurgeAndReconfigure(t, w)
             y1  == PurgeAndReconfigure(u, w)
             top == TilingLayout(x1, ws)
             ty  == x1.type[top]
             k   == IF dir \in Backward THEN 1 ELSE Len(x1.kids[top]) + 1
             Top(v1) == IF IsCompatible(ty, dir) THEN AddChild(v1, top, w)
                        ELSE IF Len(x1.kids[top]) = 1
                        THEN InsertChild(SetType(v1, top, InverseType(ty)), top, k, w)
                        ELSE WrapTop(v1, w, ws, dir)
  <2>1. Twins(x1, y1, N, M)  BY TwinsPurge
  <2>2. MoveToTopNode(t, w, ws, dir) = UpdateRect(Top(x1), ws)  BY DEF MoveToTopNode
  <2>3. MoveToTopNode(u, w, ws, dir) = UpdateRect(Top(y1), ws)
    <3>1. TilingLayout(y1, ws) = top /\ y1.type = x1.type /\ y1.kids = x1.kids
      BY <2>1, TwinsRead DEF Twins
    <3> QED  BY <3>1 DEF MoveToTopNode
  <2> HIDE DEF x1, y1, top, ty, k
  <2>4. Twins(AddChild(x1, top, w), AddChild(y1, top, w), N, M)  BY <2>1, TwinsStep
  <2>5. Twins(WrapTop(x1, w, ws, dir), WrapTop(y1, w, ws, dir), N, M)  BY <2>1, <1>2
  <2>6. \A z : Twins(InsertChild(SetType(x1, top, z), top, k, w), InsertChild(SetType(y1, top, z), top, k, w), N, M)
    <3> TAKE z
    <3>1. Twins(SetType(x1, top, z), SetType(y1, top, z), N, M)  BY <2>1, TwinsStep
    <3> QED  BY <3>1, TwinsStep
  <2>7. Twins(Top(x1), Top(y1), N, M)  BY <2>4, <2>5, <2>6
  <2> HIDE DEF Top
  <2>8. Twins(UpdateRect(Top(x1), ws), UpdateRect(Top(y1), ws), N, M)  BY <2>7, TwinsStep
  <2> QED  BY <2>2, <2>3, <2>8
<1>4. /\ FindDirectionCompatibleNode(u, w, dir) = FindDirectionCompatibleNode(t, w, dir)
      /\ TilingLayout(u, ws) = TilingLayout(t, ws)
      /\ u.kids = t.kids /\ u.type = t.type
  BY TwinsRead DEF Twins
<1> DEFINE Move(v) ==
        LET node == FindDirectionCompatibleNode(t, w, dir)
            top  == TilingLayout(t, ws)
        IN  IF node # Nil THEN MoveToAdjacentNode(v, w, node, dir)
            ELSE IF Len(t.kids[top]) = 1 \/ IsCompatible(t.type[top], dir) THEN v
            ELSE MoveToTopNode(v, w, ws, dir)
<1>5. MoveContainerTree(t, w, ws, dir) = Move(t) /\ MoveContainerTree(u, w, ws, dir) = Move(u)
  BY <1>4 DEF MoveContainerTree
<1>6. Twins(Move(t), Move(u), N, M)  BY <1>1, <1>3
<1> HIDE DEF Move
<1> QED  BY <1>5, <1>6
=============================================================================
