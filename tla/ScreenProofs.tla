---------------------------- MODULE ScreenProofs ----------------------------
(***************************************************************************)
(* The start finds a monitor, for any heads, versions and missing replies; *)
(* and how far rounding and the processor's reciprocal can push windows    *)
(* out of place on it: in one row, for any size and any number of windows; *)
(* and in any tree of layouts, on a monitor with room for its windows.     *)
(***************************************************************************)
EXTENDS Screen, TilingProofs, SequenceTheorems, TLAPS

-----------------------------------------------------------------------------
(* The start.  The keys are the reason it ends with a monitor: while CRTCs  *)
(* are loaded, those in use are the ones below `index`, which therefore is  *)
(* free, and so is 0 when none is.                                          *)

Rectangles == Heads \cup {DefaultHead}

\* The monitors are numbered from 0, n of them.
Numbered(n) == monitors \in [0..(n - 1) -> Rectangles]

\* How many monitors there may be in each phase of the start.
Counted(n) ==
    /\ phase \in {"extensions", "monitors", "resources"} => n = 0
    /\ phase = "crtcs" => n = index /\ index + left <= MaxHeads
    /\ phase = "fallback" => n <= MaxHeads
    /\ phase \in {"current", "ready"} => n >= 1 /\ n <= MaxHeads + 1

MInv ==
    /\ phase \in {"extensions", "monitors", "resources", "crtcs", "fallback", "current", "ready"}
    /\ left \in Nat /\ index \in Nat
    /\ phase \in {"extensions", "monitors", "resources"} => index = 0
    /\ \E n \in Nat : Numbered(n) /\ Counted(n)

\* The next key after n monitors is free, and with it there are n + 1.
LEMMA NextKey ==
    ASSUME NEW n \in Nat, Numbered(n), NEW head \in Rectangles, NEW there,
           ManageMonitor(n, head, there)
    PROVE  phase' = there /\ monitors' \in [0..n -> Rectangles]
<1>1. DOMAIN monitors = 0..(n - 1)  BY DEF Numbered
<1>2. n \notin DOMAIN monitors  BY <1>1
<1>3. DOMAIN monitors \cup {n} = 0..n  BY <1>1
<1>4. \A k \in DOMAIN monitors : monitors[k] \in Rectangles  BY <1>1 DEF Numbered
<1> QED  BY <1>2, <1>3, <1>4 DEF ManageMonitor

\* The start has no monitor before the first reply.
LEMMA MonitorsInitInv ==
    ASSUME MonitorsInit
    PROVE  MInv
<1>1. Numbered(0)  BY DEF MonitorsInit, Numbered, Rectangles
<1>2. Counted(0)  BY DEF MonitorsInit, Counted
<1> QED  BY <1>1, <1>2 DEF MonitorsInit, MInv

\* RandR 1.5: one reply numbers them all.
LEMMA LoadMonitorsInv ==
    ASSUME MInv, LoadMonitors
    PROVE  MInv'
<1>1. PICK heads \in BoundedSeq(Heads, MaxHeads) :
         monitors' = [key \in 0..(Len(heads) - 1) |-> heads[key + 1]]
  BY DEF LoadMonitors
<1>2. PICK m \in 0..MaxHeads : heads \in [1..m -> Heads]
  BY <1>1 DEF BoundedSeq, SeqOf
<1>3. m \in Nat /\ m <= MaxHeads  BY <1>2, HeadsAssumption
<1>4. heads \in Seq(Heads)  BY <1>2, <1>3, SeqDef
<1>5. Len(heads) = m
  <2>1. Len(heads) \in Nat /\ DOMAIN heads = 1..Len(heads)  BY <1>4, LenProperties
  <2>2. DOMAIN heads = 1..m  BY <1>2
  <2>3. \A i \in Nat : (i >= 1 /\ i <= Len(heads)) <=> (i >= 1 /\ i <= m)
    BY <2>1, <2>2, <1>3
  <2>4. ~(Len(heads) < m)  BY <2>1, <2>3, <1>3
  <2>5. ~(m < Len(heads))  BY <2>1, <2>3, <1>3
  <2>6. Len(heads) \in Nat /\ m \in Nat  BY <2>1, <1>3
  <2> QED  BY <2>4, <2>5, <2>6
<1>6. \A key \in 0..(m - 1) : heads[key + 1] \in Heads  BY <1>2, <1>3
<1>7. Numbered(m)'
  <2>1. monitors' = [key \in 0..(m - 1) |-> heads[key + 1]]  BY <1>1, <1>5
  <2>2. monitors' \in [0..(m - 1) -> Heads]  BY <2>1, <1>6
  <2>3. m' = m  OBVIOUS
  <2> QED  BY <2>2, <2>3 DEF Numbered, Rectangles
<1>8. Counted(m)'  BY <1>3 DEF Counted, LoadMonitors
<1> QED  BY <1>3, <1>7, <1>8 DEF MInv, LoadMonitors

\* Before 1.5: the key of a CRTC is the number of those before it that are monitors.
LEMMA CrtcInv ==
    ASSUME MInv, SkipCrtc \/ LoadCrtc \/ LeaveCrtcs
    PROVE  MInv'
<1>1. PICK n \in Nat : Numbered(n) /\ Counted(n)  BY DEF MInv
<1>2. phase = "crtcs" /\ n = index /\ index + left <= MaxHeads
  BY <1>1 DEF Counted, SkipCrtc, LoadCrtc, LeaveCrtcs
<1>3. left \in Nat /\ index \in Nat /\ MaxHeads \in Nat  BY HeadsAssumption DEF MInv
<1>4. CASE SkipCrtc
  <2>1. Numbered(n)'  BY <1>1, <1>4 DEF Numbered, SkipCrtc
  <2>2. Counted(n)'  BY <1>2, <1>3, <1>4 DEF Counted, SkipCrtc
  <2>3. left' \in Nat /\ index' \in Nat /\ phase' = phase  BY <1>3, <1>4 DEF SkipCrtc
  <2> QED  BY <1>2, <2>1, <2>2, <2>3 DEF MInv
<1>5. CASE LoadCrtc
  <2>1. PICK head \in Heads : ManageMonitor(n, head, phase)  BY <1>2, <1>5 DEF LoadCrtc
  <2>2. phase' = phase /\ monitors' \in [0..n -> Rectangles]
    BY <1>1, <2>1, NextKey DEF Rectangles
  <2>3. left' = left - 1 /\ index' = index + 1 /\ left > 0  BY <1>5 DEF LoadCrtc
  <2>4. n + 1 \in Nat /\ 0..((n + 1) - 1) = 0..n  OBVIOUS
  <2>5. Numbered(n + 1)'  BY <2>2, <2>4 DEF Numbered
  <2>6. Counted(n + 1)'  BY <1>2, <1>3, <2>2, <2>3 DEF Counted
  <2>7. left' \in Nat /\ index' \in Nat  BY <1>3, <2>3
  <2> QED  BY <1>2, <2>2, <2>4, <2>5, <2>6, <2>7 DEF MInv
<1>6. CASE LeaveCrtcs
  <2>1. phase' = "fallback" /\ index' = 0 /\ left' = left /\ monitors' = monitors
    BY <1>6 DEF LeaveCrtcs
  <2>2. Numbered(n)'  BY <1>1, <2>1 DEF Numbered
  <2>3. Counted(n)'  BY <1>2, <1>3, <2>1 DEF Counted
  <2> QED  BY <1>3, <2>1, <2>2, <2>3 DEF MInv
<1> QED  BY <1>4, <1>5, <1>6

\* Without a monitor, key 0 is free for the screen.
LEMMA FallbackInv ==
    ASSUME MInv, Fallback
    PROVE  MInv'
<1>1. PICK n \in Nat : Numbered(n) /\ Counted(n)  BY DEF MInv
<1>2. phase = "fallback" /\ n <= MaxHeads /\ MaxHeads \in Nat
  BY <1>1, HeadsAssumption DEF Counted, Fallback
<1>3. left' = left /\ index' = index  BY DEF Fallback
<1>4. DOMAIN monitors = 0..(n - 1)  BY <1>1 DEF Numbered
<1>5. CASE n = 0
  <2>1. DOMAIN monitors = {}  BY <1>4, <1>5
  <2>2. ManageMonitor(n, DefaultHead, "current")  BY <1>5, <2>1 DEF Fallback
  <2>3. phase' = "current" /\ monitors' \in [0..n -> Rectangles]
    BY <1>1, <2>2, NextKey DEF Rectangles
  <2>4. Numbered(1)'  BY <1>5, <2>3 DEF Numbered
  <2>5. Counted(1)'  BY <1>2, <2>3 DEF Counted
  <2> QED  BY <1>3, <2>3, <2>4, <2>5 DEF MInv
<1>6. CASE n # 0
  <2>1. 0 \in DOMAIN monitors  BY <1>4, <1>6
  <2>2. phase' = "current" /\ monitors' = monitors  BY <2>1 DEF Fallback
  <2>3. Numbered(n)'  BY <1>1, <2>2 DEF Numbered
  <2>4. Counted(n)'  BY <1>2, <1>6, <2>2 DEF Counted
  <2> QED  BY <1>3, <2>2, <2>3, <2>4 DEF MInv
<1> QED  BY <1>5, <1>6

\* monitors().at(0) finds the first.
LEMMA SetCurrentInv ==
    ASSUME MInv, SetCurrentMonitor
    PROVE  MInv'
<1>1. PICK n \in Nat : Numbered(n) /\ Counted(n)  BY DEF MInv
<1>2. phase = "current" /\ n >= 1 /\ n <= MaxHeads + 1  BY <1>1 DEF Counted, SetCurrentMonitor
<1>3. 0 \in DOMAIN monitors  BY <1>1, <1>2 DEF Numbered
<1>4. phase' = "ready" /\ UNCHANGED <<left, index, monitors>>  BY <1>3 DEF SetCurrentMonitor
<1>5. Numbered(n)'  BY <1>1, <1>4 DEF Numbered
<1>6. Counted(n)'  BY <1>2, <1>4 DEF Counted
<1> QED  BY <1>4, <1>5, <1>6 DEF MInv

\* Every step of the start numbers the monitors from 0, and no step of the tree touches them.
LEMMA MonitorsStepInv ==
    ASSUME MInv, [ScreenNext]_screenVars
    PROVE  MInv'
<1>1. PICK n \in Nat : Numbered(n) /\ Counted(n)  BY DEF MInv
<1>2. CASE ChooseExtension
  <2>1. /\ phase = "extensions" /\ phase' \in {"fallback", "monitors", "resources"}
        /\ UNCHANGED <<left, index, monitors>>
    BY <1>2 DEF ChooseExtension
  <2>2. Numbered(n)'  BY <1>1, <2>1 DEF Numbered
  <2>3. Counted(n)'  BY <1>1, <2>1, HeadsAssumption DEF Counted
  <2> QED  BY <2>1, <2>2, <2>3 DEF MInv
<1>3. CASE LoadMonitors  BY <1>3, LoadMonitorsInv
<1>4. CASE LoadResources
  <2>1. /\ phase = "resources" /\ phase' = "crtcs" /\ UNCHANGED <<index, monitors>>
        /\ \E listed \in 0..MaxHeads : left' = listed
    BY <1>4 DEF LoadResources
  <2>2. PICK listed \in 0..MaxHeads : left' = listed  BY <2>1
  <2>3. Numbered(n)'  BY <1>1, <2>1 DEF Numbered
  <2>4. n = 0 /\ index' = 0  BY <1>1, <2>1 DEF Counted, MInv
  <2>5. listed \in Nat /\ 0 + listed <= MaxHeads  BY HeadsAssumption
  <2>6. Counted(n)'  BY <2>1, <2>2, <2>4, <2>5 DEF Counted
  <2> QED  BY <2>1, <2>2, <2>3, <2>4, <2>5, <2>6 DEF MInv
<1>5. CASE SkipCrtc \/ LoadCrtc \/ LeaveCrtcs  BY <1>5, CrtcInv
<1>6. CASE Fallback  BY <1>6, FallbackInv
<1>7. CASE SetCurrentMonitor  BY <1>7, SetCurrentInv
<1>8. CASE UNCHANGED monitorVars
  <2>1. UNCHANGED <<phase, left, index, monitors>>  BY <1>8 DEF monitorVars
  <2>2. Numbered(n)'  BY <1>1, <2>1 DEF Numbered
  <2>3. Counted(n)'  BY <1>1, <2>1 DEF Counted
  <2> QED  BY <2>1, <2>2, <2>3 DEF MInv
<1>9. CASE Arrange  BY <1>8, <1>9 DEF Arrange
<1>10. CASE UNCHANGED screenVars  BY <1>8, <1>10 DEF screenVars
<1> QED
  BY <1>2, <1>3, <1>4, <1>5, <1>6, <1>7, <1>9, <1>10 DEF ScreenNext, MonitorsNext

\* The monitors are numbered from 0 at every step of every behaviour.
THEOREM MonitorsNumbered == ScreenSpec => []MInv
<1>1. ScreenInit => MInv  BY MonitorsInitInv DEF ScreenInit
<1>2. MInv /\ [ScreenNext]_screenVars => MInv'  BY MonitorsStepInv
<1> QED  BY <1>1, <1>2, PTL DEF ScreenSpec

\* Whatever the server answers or fails to answer, and however many CRTCs it has, no key
\* is managed twice, at(0) finds a monitor, and there is no gap in the keys.
THEOREM StartFindsAMonitor == ScreenSpec => []AlwaysAMonitor
<1>1. MInv => AlwaysAMonitor
  <2> SUFFICES ASSUME MInv  PROVE AlwaysAMonitor
    OBVIOUS
  <2>1. PICK n \in Nat : Numbered(n) /\ Counted(n)  BY DEF MInv
  <2>2. phase = "ready" => n \in 1..(MaxHeads + 1)  BY <2>1, HeadsAssumption DEF Counted
  <2> QED  BY <2>1, <2>2 DEF MInv, AlwaysAMonitor, Numbered, Rectangles
<1> QED  BY <1>1, MonitorsNumbered, PTL

-----------------------------------------------------------------------------
(* The shares of a row or column.                                           *)

\* The integer quotient and what it leaves.
LEMMA Quotient ==
    ASSUME NEW x \in Nat, NEW y \in Nat \ {0}
    PROVE  x \div y \in Nat /\ (x \div y) * y <= x /\ x < (x \div y) * y + y
OBVIOUS

\* The n shares of a size add up to the size but for the error of the reciprocal, e in
\* Unit of the size, and half a pixel for each share.
THEOREM SharesAddUp ==
    ASSUME NEW size \in Nat, NEW n \in Nat \ {0}, NEW e \in -3..3
    PROVE  /\ Share(size, n, e) \in Nat
           /\ 2 * Unit * (n * Share(size, n, e)) <= 2 * (Unit + e) * size + Unit * n
           /\ 2 * (Unit + e) * size < 2 * Unit * (n * Share(size, n, e)) + Unit * n
<1> DEFINE a == (Unit + e) * size
           b == Unit * n
           q == (2*a + b) \div (2*b)
<1>1. Unit = 8192 /\ Unit + e \in Nat  BY DEF Unit
<1>2. a \in Nat  BY <1>1
<1>3. b \in Nat \ {0}  BY <1>1
<1>4. Share(size, n, e) = q  BY <1>2 DEF Share, Round
<1> HIDE DEF a, b
<1>5. 2*a + b \in Nat /\ 2*b \in Nat \ {0}  BY <1>2, <1>3
<1>6. q \in Nat /\ q * (2*b) <= 2*a + b /\ 2*a + b < q * (2*b) + 2*b  BY <1>5, Quotient
<1> HIDE DEF q
<1>7. q * (2*b) = 2 * Unit * (n * q)  BY <1>1, <1>6 DEF b
<1>8. 2*a = 2 * (Unit + e) * size  BY <1>1 DEF a
<1>9. b = Unit * n  BY DEF b
<1>10. 2 * Unit * (n * q) <= 2*a + b  BY <1>6, <1>7
<1>11. 2*a < 2 * Unit * (n * q) + b
  <2> DEFINE P == 2 * Unit * (n * q)
  <2>1. P = q * (2*b)  BY <1>7
  <2>2. P \in Int  BY <1>1, <1>6
  <2> HIDE DEF P
  <2>3. 2*a + b < P + 2*b  BY <1>6, <2>1
  <2>4. 2*a < P + b  BY <2>2, <2>3, <1>2, <1>3
  <2> QED  BY <2>4 DEF P
<1> QED  BY <1>4, <1>6, <1>8, <1>9, <1>10, <1>11

\* What the shares add up to beyond the size, when there are not too many.
LEMMA SharesWithinGaps ==
    ASSUME NEW size \in Nat, NEW n \in Nat \ {0}, NEW e \in -3..3,
           Unit * n + 6 * size <= 4 * GapSize * Unit
    PROVE  Share(size, n, e) \in Nat /\ n * Share(size, n, e) <= size + 2 * GapSize
<1> DEFINE f == Share(size, n, e)
           P == n * f
<1>1. f \in Nat /\ 2 * Unit * P <= 2 * (Unit + e) * size + Unit * n  BY SharesAddUp
<1> HIDE DEF f
<1>2. P \in Nat  BY <1>1
<1> HIDE DEF P
<1>3. Unit = 8192 /\ GapSize = 4  BY DEF Unit, GapSize
<1>4. e * size <= 3 * size
  <2>1. 3 - e \in Nat  OBVIOUS
  <2>2. (3 - e) * size \in Nat  BY <2>1
  <2> QED  BY <2>2
<1>5. e * size \in Int /\ 2 * (Unit + e) * size = 2 * Unit * size + 2 * (e * size)  BY <1>3
<1>6. 16384 * P <= 16384 * size + 6 * size + 8192 * n  BY <1>1, <1>2, <1>3, <1>4, <1>5
<1>7. 8192 * n + 6 * size <= 131072  BY <1>3
<1>8. P <= size + 8  BY <1>2, <1>6, <1>7
<1> QED  BY <1>1, <1>3, <1>8 DEF P, f

\* Where the i-th of n children ends is not beyond where the last one does.
LEMMA EndOfChild ==
    ASSUME NEW f \in Nat, NEW n \in Nat, NEW i \in 1..n
    PROVE  /\ (i - 1) * f \in Nat /\ (i - 1) * f + f = i * f /\ i * f <= n * f
<1>1. (n - i) \in Nat /\ (i - 1) \in Nat  OBVIOUS
<1>2. (n - i) * f \in Nat /\ (i - 1) * f \in Nat  BY <1>1
<1>3. (n - i) * f = n * f - i * f /\ (i - 1) * f = i * f - f  OBVIOUS
<1> QED  BY <1>2, <1>3

\* However many windows a row of the whole monitor has, up to 13 on a screen of 3840
\* pixels, whatever the error of the reciprocal, none is drawn beyond the monitor's
\* edges: the gaps take up what the shares add up to.
THEOREM RowStaysInside ==
    ASSUME NEW m \in Rect, m.w >= 2 * GapSize,
           NEW n \in Nat \ {0}, NEW e \in -3..3, NEW i \in 1..n,
           Unit * n + 6 * m.w <= 4 * GapSize * Unit
    PROVE  LET r == Inset(ChildRect("Horizontal", Inset(m), i, n, e))
           IN  m.x <= r.x /\ r.x + r.w <= m.x + m.w
<1> DEFINE W == m.w - 2 * GapSize
           f == Share(W, n, e)
           r == Inset(ChildRect("Horizontal", Inset(m), i, n, e))
<1>1. GapSize = 4 /\ Unit = 8192  BY DEF GapSize, Unit
<1>2. m.w \in Int /\ m.x \in Int  BY DEF Rect
<1>3. W \in Nat /\ Unit * n + 6 * W <= 4 * GapSize * Unit  BY <1>1, <1>2
<1>4. Inset(m) = [x |-> m.x + 4, y |-> m.y + 4, w |-> W, h |-> m.h - 8]
  BY <1>1 DEF Inset
<1> HIDE DEF W
<1>5. f \in Nat /\ n * f <= W + 8
  <2>1. f \in Nat /\ n * f <= W + 2 * GapSize  BY <1>3, SharesWithinGaps
  <2>2. 2 * GapSize = 8  BY <1>1
  <2> QED  BY <2>1, <2>2
<1> DEFINE c == ChildRect("Horizontal", Inset(m), i, n, e)
<1>6. c.x = m.x + 4 + (i - 1) * f /\ c.w = f
  <2>1. Inset(m).w = W /\ Inset(m).x = m.x + 4  BY <1>4
  <2>2. c = [Inset(m) EXCEPT !.x = Inset(m).x + (i - 1) * Share(Inset(m).w, n, e),
                             !.w = Share(Inset(m).w, n, e)]
    BY DEF ChildRect
  <2>3. "x" \in DOMAIN Inset(m) /\ "w" \in DOMAIN Inset(m)  BY <1>4
  <2> HIDE DEF f, c
  <2>4. c.x = Inset(m).x + (i - 1) * Share(Inset(m).w, n, e) /\ c.w = Share(Inset(m).w, n, e)
    BY <2>2, <2>3
  <2> QED  BY <2>1, <2>4 DEF f
<1> HIDE DEF f, c
<1>7. r.x = m.x + 4 + (i - 1) * f + 4 /\ r.w = f - 8
  <2>1. r = Inset(c)  BY DEF c
  <2> QED  BY <1>1, <1>6, <2>1 DEF Inset
<1> HIDE DEF f, r
<1>8. (i - 1) * f \in Nat /\ (i - 1) * f + f <= W + 8
  <2>1. (i - 1) * f \in Nat /\ (i - 1) * f + f = i * f /\ i * f <= n * f  BY <1>5, EndOfChild
  <2>2. n * f \in Int /\ i * f \in Int  BY <1>5
  <2> QED  BY <1>3, <1>5, <2>1, <2>2
<1>9. m.x <= r.x  BY <1>2, <1>7, <1>8
<1>10. r.x + r.w <= m.x + m.w
  <2> DEFINE k == (i - 1) * f
  <2>1. k \in Nat /\ k + f <= W + 8  BY <1>8
  <2>2. r.x = m.x + 4 + k + 4  BY <1>7
  <2> HIDE DEF k
  <2>3. r.w = f - 8  BY <1>7
  <2>4. m.x \in Int /\ k \in Int /\ f \in Int  BY <1>2, <1>5, <2>1
  <2>5. (m.x + 4 + k + 4) + (f - 8) = m.x + (k + f)  BY <2>4
  <2>6. r.x + r.w = m.x + (k + f)  BY <2>2, <2>3, <2>5
  <2>7. W + 8 = m.w  BY <1>1, <1>2 DEF W
  <2> QED  BY <1>2, <2>1, <2>4, <2>6, <2>7
<1> QED  BY <1>9, <1>10 DEF r

-----------------------------------------------------------------------------
(* The windows below a node, counted.                                       *)

\* The windows of a subtree: the node itself or those below it.
Leaves(t, n) == IF n \in Windows THEN {n} ELSE WindowsOf(t, n)

\* How many there are.
Weight(t, n) == Cardinality(Leaves(t, n))

\* A tree whose nodes have intervals.
Drawn(t, lo, hi) == TreeInv(t) /\ Nested(t, lo, hi)

\* What the proofs below use of a tree: its layouts are different from its windows and
\* its workspaces, and a child is a node whose parent holds it.
LEMMA DrawnTree ==
    ASSUME NEW t, NEW lo, NEW hi, Drawn(t, lo, hi)
    PROVE  /\ t \in Tree /\ Linked(t) /\ Acyclic(t) /\ Shaped(t, t.live) /\ t.live \subseteq Layouts
           /\ \A n \in Items : lo[n] \in Int /\ hi[n] \in Int /\ lo[n] < hi[n]
           /\ \A p \in Parents : \A n \in Elements(t.kids[p]) : n \in Items /\ t.parent[n] = p
<1>1. t \in Tree /\ Linked(t) /\ Acyclic(t) /\ Shaped(t, t.live)  BY DEF Drawn, TreeInv, Linked
<1>2. t.live \subseteq Layouts  BY <1>1 DEF Tree
<1>3. \A n \in Items : lo[n] \in Int /\ hi[n] \in Int /\ lo[n] < hi[n]  BY DEF Drawn, Nested
<1>4. ASSUME NEW p \in Parents, NEW n \in Elements(t.kids[p])
      PROVE  n \in Items /\ t.parent[n] = p
  <2>1. n \in Items  BY <1>1, KidsAreLists DEF Elements
  <2> QED  BY <1>1, <2>1 DEF Linked
<1> QED  BY <1>1, <1>2, <1>3, <1>4

\* The windows of a child are windows of its parent, and none of its other children has them.
LEMMA LeavesOfChild ==
    ASSUME NEW t, NEW lo, NEW hi, Drawn(t, lo, hi), NEW p \in Layouts,
           NEW n \in Elements(t.kids[p])
    PROVE  /\ Leaves(t, n) \subseteq Leaves(t, p)
           /\ \A w \in Leaves(t, n) : lo[n] <= lo[w] /\ lo[w] < hi[n]
<1>1. /\ t \in Tree /\ Linked(t) /\ Acyclic(t) /\ n \in Items
      /\ p \in Parents /\ p \notin Windows
      /\ Nested(t, lo, hi)
  BY DrawnTree, KindsAssumption DEF Parents, Drawn
<1>2. n \in Below(t, p)  BY <1>1, BelowClosed DEF Over
<1>3. lo[n] \in Int /\ hi[n] \in Int /\ lo[n] < hi[n]  BY <1>1, DrawnTree
<1>4. CASE n \in Windows
  <2>1. Leaves(t, n) = {n} /\ Leaves(t, p) = Below(t, p) \cap Windows
    BY <1>1, <1>4 DEF Leaves, WindowsOf
  <2> QED  BY <2>1, <1>2, <1>3, <1>4
<1>5. CASE n \in Layouts
  <2>1. n \notin Windows /\ n \in Parents  BY <1>5, KindsAssumption DEF Parents
  <2>2. Leaves(t, n) = Below(t, n) \cap Windows /\ Leaves(t, p) = Below(t, p) \cap Windows
    BY <1>1, <2>1 DEF Leaves, WindowsOf
  <2>3. Below(t, n) \subseteq Below(t, p)  BY <1>1, <1>2, <2>1, BelowBelow DEF Over
  <2>4. ASSUME NEW w \in Below(t, n)  PROVE lo[n] <= lo[w] /\ lo[w] < hi[n]
    <3>1. w \in Items /\ lo[n] < lo[w] /\ hi[w] < hi[n]  BY <1>1, <1>5, BelowWithin
    <3>2. lo[w] \in Int /\ hi[w] \in Int /\ lo[w] < hi[w]  BY <3>1, DrawnTree
    <3> QED  BY <3>1, <3>2, <1>3
  <2> QED  BY <2>2, <2>3, <2>4
<1> QED  BY <1>1, <1>4, <1>5 DEF Items

\* Two children have no window in common.
LEMMA LeavesApart ==
    ASSUME NEW t, NEW lo, NEW hi, Drawn(t, lo, hi), NEW p \in Layouts,
           NEW i \in 1..Len(t.kids[p]), NEW j \in 1..Len(t.kids[p]), i # j
    PROVE  Leaves(t, t.kids[p][i]) \cap Leaves(t, t.kids[p][j]) = {}
<1> DEFINE a == t.kids[p][i]
           b == t.kids[p][j]
<1>1. t \in Tree /\ p \in Parents /\ Nested(t, lo, hi)  BY DrawnTree DEF Parents, Drawn
<1>2. Len(t.kids[p]) \in Nat /\ a \in Elements(t.kids[p]) /\ b \in Elements(t.kids[p])
  BY <1>1, KidsAreLists
<1>3. a \in Items /\ b \in Items  BY <1>1, <1>2, DrawnTree
<1>4. i < j \/ j < i  BY <1>2
<1>5. hi[a] <= lo[b] \/ hi[b] <= lo[a]  BY <1>1, <1>4 DEF Nested, Ranged
<1> HIDE DEF a, b
<1>6. ASSUME NEW w \in Leaves(t, a), w \in Leaves(t, b)  PROVE FALSE
  <2>1. lo[a] <= lo[w] /\ lo[w] < hi[a] /\ lo[b] <= lo[w] /\ lo[w] < hi[b]
    BY <1>2, <1>6, LeavesOfChild
  <2>2. w \in Windows  BY <1>6 DEF Leaves, WindowsOf
  <2>3. lo[w] \in Int /\ lo[a] \in Int /\ lo[b] \in Int /\ hi[a] \in Int /\ hi[b] \in Int
    BY <1>3, <2>2, DrawnTree DEF Items
  <2> QED  BY <2>1, <2>3, <1>5
<1> QED  BY <1>6 DEF a, b

\* Every node of the tree is a window or has one.
LEMMA LeavesExist ==
    ASSUME NEW t, NEW lo, NEW hi, Drawn(t, lo, hi), NEW n \in Items, t.parent[n] # Nil
    PROVE  Leaves(t, n) # {}
<1>1. t \in Tree /\ Linked(t) /\ Shaped(t, t.live) /\ t.live \subseteq Layouts  BY DrawnTree
<1> DEFINE E == {l \in t.live : Leaves(t, l) = {}}
           A == {hi[l] - lo[l] : l \in E}
<1>2. E = {}
  <2> SUFFICES ASSUME E # {}  PROVE FALSE  OBVIOUS
  <2>1. A \subseteq Nat /\ A # {}
    <3>1. \A l \in E : hi[l] - lo[l] \in Nat
      <4> SUFFICES ASSUME NEW l \in E  PROVE hi[l] - lo[l] \in Nat  OBVIOUS
      <4>1. lo[l] \in Int /\ hi[l] \in Int /\ lo[l] < hi[l]  BY <1>1, DrawnTree DEF Items
      <4> QED  BY <4>1
    <3> QED  BY <3>1
  <2>2. PICK m \in A : \A k \in A : m <= k
    <3> HIDE DEF A
    <3> QED  BY <2>1, LeastOfSet
  <2>3. PICK l \in E : m = hi[l] - lo[l]  BY <2>2
  <2> DEFINE c == t.kids[l][1]
  <2>4. l \in Layouts /\ l \in Parents /\ t.kids[l] # <<>>
    BY <1>1 DEF Shaped, Full, Parents
  <2>5. 1 \in 1..Len(t.kids[l])  BY <1>1, <2>4, KidsAreLists
  <2>6. c \in Elements(t.kids[l]) /\ c \in Items  BY <1>1, <2>4, <2>5, KidsAreLists
  <2> HIDE DEF c
  <2>7. Leaves(t, c) = {}
    <3>1. Leaves(t, l) = {}  OBVIOUS
    <3> QED  BY <3>1, <2>4, <2>6, LeavesOfChild
  <2>8. c \in Layouts  BY <2>6, <2>7 DEF Leaves, Items
  <2>9. c \in E
    <3>1. t.parent[c] = l /\ l # Nil  BY <1>1, <2>4, <2>6, DrawnTree, KindsAssumption
    <3> QED  BY <3>1, <1>1, <2>7, <2>8 DEF Linked
  <2>10. hi[c] - lo[c] < hi[l] - lo[l]
    <3>1. lo[l] < lo[c] /\ hi[c] < hi[l]  BY <2>4, <2>6 DEF Drawn, Nested
    <3>2. lo[l] \in Int /\ hi[l] \in Int /\ lo[c] \in Int /\ hi[c] \in Int
      BY <2>4, <2>6, DrawnTree DEF Items
    <3> QED  BY <3>1, <3>2
  <2>11. hi[l] - lo[l] <= hi[c] - lo[c]  BY <2>2, <2>3, <2>9
  <2>12. lo[l] \in Int /\ hi[l] \in Int /\ lo[c] \in Int /\ hi[c] \in Int
    BY <2>4, <2>6, DrawnTree DEF Items
  <2> HIDE DEF E, A
  <2> QED  BY <2>10, <2>11, <2>12
<1>3. CASE n \in Windows  BY <1>3 DEF Leaves
<1>4. CASE n \in Layouts
  <2>1. n \in t.live  BY <1>1, <1>4 DEF Linked
  <2> QED  BY <2>1, <1>2
<1> QED  BY <1>3, <1>4 DEF Items

\* The windows of a node are windows: finitely many.
LEMMA WeightIsNat ==
    ASSUME NEW t, NEW n
    PROVE  /\ Leaves(t, n) \subseteq Windows /\ IsFiniteSet(Leaves(t, n))
           /\ Weight(t, n) \in Nat /\ Weight(t, n) <= Cardinality(Windows)
<1>1. Leaves(t, n) \subseteq Windows  BY DEF Leaves, WindowsOf
<1>2. IsFiniteSet(Leaves(t, n)) /\ Weight(t, n) <= Cardinality(Windows)
  BY <1>1, PoolAssumption, FS_Subset DEF Weight
<1> QED  BY <1>1, <1>2, FS_CardinalityType DEF Weight

\* A node with k children weighs as much as one of them and k - 1 more, since each of
\* the others has a window.
LEMMA WeightOfChild ==
    ASSUME NEW t, NEW lo, NEW hi, Drawn(t, lo, hi), NEW p \in Layouts,
           NEW i \in 1..Len(t.kids[p])
    PROVE  /\ Weight(t, t.kids[p][i]) >= 1
           /\ Weight(t, t.kids[p][i]) + Len(t.kids[p]) - 1 <= Weight(t, p)
<1> DEFINE s == t.kids[p]
           n == t.kids[p][i]
           J == 1..Len(s) \ {i}
           g == [j \in J |-> CHOOSE w \in Leaves(t, s[j]) : TRUE]
           G == {g[j] : j \in J}
<1>1. t \in Tree /\ Linked(t) /\ p \in Parents  BY DrawnTree DEF Parents
<1>2. /\ Len(s) \in Nat
      /\ \A j \in 1..Len(s) : s[j] \in Elements(s) /\ s[j] \in Items /\ t.parent[s[j]] = p
  BY <1>1, KidsAreLists, DrawnTree
<1>3. p # Nil  BY KindsAssumption
<1> HIDE DEF s
<1>4. \A j \in 1..Len(s) : Leaves(t, s[j]) # {}  BY <1>2, <1>3, LeavesExist
<1>5. \A j \in J : g[j] \in Leaves(t, s[j])  BY <1>4
<1> HIDE DEF g
<1>6. \A j, k \in J : g[j] = g[k] => j = k
  <2> SUFFICES ASSUME NEW j \in J, NEW k \in J, g[j] = g[k], j # k  PROVE FALSE  OBVIOUS
  <2>1. Leaves(t, s[j]) \cap Leaves(t, s[k]) = {}  BY LeavesApart DEF s
  <2> QED  BY <2>1, <1>5
<1>7. G \cap Leaves(t, n) = {}
  <2> SUFFICES ASSUME NEW j \in J, g[j] \in Leaves(t, n)  PROVE FALSE  OBVIOUS
  <2>1. Leaves(t, s[j]) \cap Leaves(t, s[i]) = {}  BY LeavesApart DEF s
  <2>2. n = s[i]  BY DEF s
  <2> QED  BY <2>1, <2>2, <1>5
<1>8. G \cup Leaves(t, n) \subseteq Leaves(t, p)
  <2>1. ASSUME NEW j \in 1..Len(s)  PROVE Leaves(t, s[j]) \subseteq Leaves(t, p)
    <3>1. s[j] \in Elements(t.kids[p])  BY <1>2 DEF s
    <3> QED  BY <3>1, LeavesOfChild
  <2>2. n = s[i] /\ i \in 1..Len(s)  BY DEF s
  <2> QED  BY <2>1, <2>2, <1>5
<1>9. IsFiniteSet(J) /\ Cardinality(J) = Len(s) - 1
  <2>1. IsFiniteSet(1..Len(s)) /\ Cardinality(1..Len(s)) = Len(s)
    <3> DEFINE m == Len(s)
    <3>1. m \in Nat /\ m \in Int /\ 1 \in Int  BY <1>2
    <3> HIDE DEF m
    <3>2. IsFiniteSet(1..m) /\ Cardinality(1..m) = IF 1 > m THEN 0 ELSE m - 1 + 1
      BY <3>1, FS_Interval
    <3>3. Cardinality(1..m) = m  BY <3>1, <3>2
    <3> QED  BY <3>2, <3>3 DEF m
  <2>2. i \in 1..Len(s)  BY DEF s
  <2> QED  BY <2>1, <2>2, FS_RemoveElement
<1>10. IsFiniteSet(G) /\ Cardinality(J) <= Cardinality(G)
  <2>1. IsFiniteSet(Leaves(t, p))  BY WeightIsNat
  <2>2. IsFiniteSet(G)
    <3> HIDE DEF G, J
    <3> QED  BY <2>1, <1>8, FS_Subset
  <2>3. DOMAIN g = J /\ g \in [J -> G]
    BY DEF g
  <2> HIDE DEF G, J
  <2>4. g \in Injection(J, G)  BY <2>3, <1>6, Fun_IsInj
  <2> QED  BY <2>2, <2>4, FS_Injection
<1> HIDE DEF G, J, n
<1>11. /\ IsFiniteSet(Leaves(t, n)) /\ Weight(t, n) \in Nat /\ IsFiniteSet(Leaves(t, p))
       /\ Weight(t, p) \in Nat
  BY WeightIsNat
<1>12. Cardinality(G \cup Leaves(t, n)) = Cardinality(G) + Weight(t, n)
  BY <1>7, <1>10, <1>11, DisjointUnion DEF Weight
<1>13. Cardinality(G \cup Leaves(t, n)) <= Weight(t, p)
  BY <1>8, <1>11, FS_Subset DEF Weight
<1>14. Cardinality(G) \in Nat  BY <1>10, FS_CardinalityType
<1>15. Len(s) - 1 <= Cardinality(G)  BY <1>9, <1>10
<1>16. Weight(t, n) + Len(s) - 1 <= Weight(t, p)
  <2> DEFINE x == Cardinality(G)
  <2>1. x \in Nat /\ Len(s) - 1 <= x /\ x + Weight(t, n) <= Weight(t, p)
    BY <1>12, <1>13, <1>14, <1>15
  <2> HIDE DEF x
  <2> QED  BY <2>1, <1>2, <1>11
<1>17. Weight(t, n) >= 1
  <2>1. n = s[i] /\ i \in 1..Len(s)  BY DEF s, n
  <2>2. Leaves(t, n) # {}  BY <2>1, <1>4
  <2>3. Weight(t, n) # 0  BY <2>2, <1>11, FS_EmptySet DEF Weight
  <2> QED  BY <2>3, <1>11
<1> QED  BY <1>16, <1>17 DEF n, s

-----------------------------------------------------------------------------
(* The rectangles are handed down: what the recursive function computes.    *)

\* The rectangle of a node of the workspace, when f has the one of its layout.
RectOf(t, ws, s, rcp, f, n) ==
    LET p    == t.parent[n]
        size == Len(t.kids[p])
    IN  IF p = ws THEN Inset(s)
        ELSE ChildRect(t.type[p], f[p], IndexOf(t, n), size, rcp[size])

\* The possible errors of the reciprocal, for each number of children.
Errors == [1..Cardinality(Windows) -> -3..3]

\* A node of a workspace hangs on the workspace or on a layout of it.
LEMMA HangsBelow ==
    ASSUME NEW t, NEW lo, NEW hi, Drawn(t, lo, hi), NEW ws \in Workspaces,
           NEW n \in Below(t, ws)
    PROVE  /\ n \in Items
           /\ t.parent[n] = ws \/ t.parent[n] \in Below(t, ws) \cap Layouts
           /\ n \in Elements(t.kids[t.parent[n]])
<1> DEFINE B == Below(t, ws)
           S == {m \in B : t.parent[m] = ws \/ t.parent[m] \in B \cap Layouts}
<1>1. t \in Tree /\ Linked(t) /\ Acyclic(t) /\ ws \in Parents  BY DrawnTree DEF Parents
<1>2. B \subseteq Items  BY <1>1, BelowIsItems
<1>3. Elements(t.kids[ws]) \subseteq B  BY <1>1, BelowClosed DEF Over
<1>4. \A p \in B \cap Parents : Elements(t.kids[p]) \subseteq B /\ p \in Layouts
  BY <1>1, <1>2, BelowClosed, KindsAssumption DEF Over, Items, Parents
<1>5. Elements(t.kids[ws]) \subseteq S
  <2> HIDE DEF B
  <2> QED  BY <1>1, <1>3, DrawnTree
<1>6. \A p \in S \cap Parents : Elements(t.kids[p]) \subseteq S
  <2> HIDE DEF B
  <2> QED  BY <1>1, <1>4, DrawnTree
<1>7. B \subseteq S
  <2> HIDE DEF S
  <2> QED  BY <1>1, <1>5, <1>6, BelowLeast
<1>8. n \in Items /\ (t.parent[n] = ws \/ t.parent[n] \in B \cap Layouts)  BY <1>2, <1>7
<1>9. t.parent[n] \in Parents  BY <1>1, <1>8 DEF Parents
<1> QED  BY <1>1, <1>8, <1>9 DEF Linked

\* The layout of a child is counted by the windows there are, and the child has a place in it.
LEMMA PlaceOfChild ==
    ASSUME NEW t, NEW lo, NEW hi, Drawn(t, lo, hi), NEW p \in Layouts,
           NEW n \in Elements(t.kids[p])
    PROVE  /\ t.parent[n] = p
           /\ IndexOf(t, n) \in 1..Len(t.kids[p]) /\ t.kids[p][IndexOf(t, n)] = n
           /\ Len(t.kids[p]) \in 1..Cardinality(Windows)
<1>1. t \in Tree /\ p \in Parents  BY DrawnTree DEF Parents
<1>2. t.parent[n] = p  BY <1>1, DrawnTree
<1>3. IndexOf(t, n) \in 1..Len(t.kids[p]) /\ t.kids[p][IndexOf(t, n)] = n
  <2>1. t.kids[p] \in Seq(Items)  BY <1>1, KidsAreLists
  <2> QED  BY <2>1, <1>2, PositionFound DEF IndexOf
<1>4. /\ Weight(t, n) >= 1 /\ Weight(t, n) + Len(t.kids[p]) - 1 <= Weight(t, p)
  BY <1>3, WeightOfChild
<1>5. Weight(t, n) \in Nat /\ Weight(t, p) \in Nat /\ Weight(t, p) <= Cardinality(Windows)
  BY WeightIsNat
<1>6. Cardinality(Windows) \in Nat  BY PoolAssumption, FS_CardinalityType
<1>7. Len(t.kids[p]) \in Nat /\ Len(t.kids[p]) >= 1  BY <1>1, <1>3, KidsAreLists
<1> QED  BY <1>2, <1>3, <1>4, <1>5, <1>6, <1>7

\* Rounding gives a whole number of pixels, whatever is rounded.
LEMMA ShareIsInt ==
    ASSUME NEW size \in Int, NEW n \in Nat \ {0}, NEW e \in -3..3
    PROVE  Share(size, n, e) \in Int
<1> DEFINE a == (Unit + e) * size
           b == Unit * n
<1>1. Unit = 8192  BY DEF Unit
<1>2. a \in Int /\ b \in Nat \ {0}  BY <1>1
<1> HIDE DEF a, b
<1>3. 2*b \in Nat \ {0} /\ 2*a + b \in Int /\ b - 2*a \in Int  BY <1>2
<1>4. \A x \in Int, y \in Nat \ {0} : x \div y \in Int  OBVIOUS
<1>5. (2*a + b) \div (2*b) \in Int /\ (b - 2*a) \div (2*b) \in Int  BY <1>3, <1>4
<1>6. -((b - 2*a) \div (2*b)) \in Int  BY <1>5
<1> QED  BY <1>5, <1>6 DEF Share, Round, a, b

\* A rectangle is divided into rectangles.
LEMMA ChildIsRect ==
    ASSUME NEW ty, NEW r \in Rect, NEW i \in Nat, NEW n \in Nat \ {0}, NEW e \in -3..3
    PROVE  ChildRect(ty, r, i, n, e) \in Rect
<1> DEFINE fw == Share(r.w, n, e)
           fh == Share(r.h, n, e)
           x1 == r.x + (i - 1) * fw
           y1 == r.y + (i - 1) * fh
<1>1. r.x \in Int /\ r.y \in Int /\ r.w \in Int /\ r.h \in Int  BY DEF Rect
<1>2. fw \in Int /\ fh \in Int  BY <1>1, ShareIsInt
<1>3. ChildRect(ty, r, i, n, e) = IF ty = "Horizontal" THEN [r EXCEPT !.x = x1, !.w = fw]
                                  ELSE [r EXCEPT !.y = y1, !.h = fh]
  BY DEF ChildRect
<1> HIDE DEF fw, fh
<1>4. x1 \in Int /\ y1 \in Int  BY <1>1, <1>2
<1> HIDE DEF x1, y1
<1>5. [r EXCEPT !.x = x1, !.w = fw] \in Rect  BY <1>2, <1>4 DEF Rect
<1>6. [r EXCEPT !.y = y1, !.h = fh] \in Rect  BY <1>2, <1>4 DEF Rect
<1> QED  BY <1>3, <1>5, <1>6

\* A workspace with a node has one layout, which is the node or above it.
LEMMA BelowTop ==
    ASSUME NEW t, NEW lo, NEW hi, Drawn(t, lo, hi), NEW ws \in Workspaces,
           NEW n \in Below(t, ws)
    PROVE  /\ Elements(t.kids[ws]) = {t.kids[ws][1]} /\ t.kids[ws][1] \in Layouts
           /\ t.kids[ws][1] \in Below(t, ws)
           /\ n = t.kids[ws][1] \/ n \in Below(t, t.kids[ws][1])
<1> DEFINE top == t.kids[ws][1]
<1>1. t \in Tree /\ Linked(t) /\ Acyclic(t) /\ ws \in Parents  BY DrawnTree DEF Parents
<1>2. Len(t.kids[ws]) \in Nat /\ Len(t.kids[ws]) <= 1 /\ Elements(t.kids[ws]) \subseteq Layouts
  BY <1>1, KidsAreLists, DrawnTree DEF Shaped
<1>3. t.kids[ws] # <<>>
  <2> SUFFICES ASSUME t.kids[ws] = <<>>  PROVE FALSE  OBVIOUS
  <2>1. Elements(t.kids[ws]) = {}  BY <1>1, KidsAreLists
  <2>2. Below(t, ws) \subseteq {}  BY <1>1, <2>1, BelowLeast
  <2> QED  BY <2>2
<1>4. Len(t.kids[ws]) = 1
  <2>1. Len(t.kids[ws]) # 0  BY <1>1, <1>3, KidsAreLists
  <2>2. \A k \in Nat : k <= 1 /\ k # 0 => k = 1  OBVIOUS
  <2> QED  BY <2>1, <2>2, <1>2
<1>5. Elements(t.kids[ws]) = {top} /\ top \in Layouts  BY <1>2, <1>4 DEF Elements
<1> HIDE DEF top
<1>6. top \in Below(t, ws)  BY <1>1, <1>5, BelowClosed DEF Over
<1>7. top \in Parents  BY <1>5 DEF Parents
<1> DEFINE S == {top} \cup Below(t, top)
<1>8. \A p \in S \cap Parents : Elements(t.kids[p]) \subseteq S
  BY <1>1, <1>7, BelowClosed DEF Over
<1>9. Below(t, ws) \subseteq S
  <2>1. Elements(t.kids[ws]) \subseteq S  BY <1>5
  <2> HIDE DEF S
  <2> QED  BY <1>1, <1>8, <2>1, BelowLeast
<1> QED  BY <1>5, <1>6, <1>9 DEF top

\* RectsBelow gives each node of the workspace the rectangle its layout has for it.
LEMMA RectsAre ==
    ASSUME NEW t, NEW lo, NEW hi, Drawn(t, lo, hi), NEW ws \in Workspaces,
           NEW s \in Rect, NEW rcp \in Errors
    PROVE  /\ RectsBelow(t, ws, s, rcp) \in [Below(t, ws) -> Rect]
           /\ \A n \in Below(t, ws) :
                 RectsBelow(t, ws, s, rcp)[n] = RectOf(t, ws, s, rcp, RectsBelow(t, ws, s, rcp), n)
<1> DEFINE B == Below(t, ws)
           P(n) == t.parent[n]
           F(f) == [n \in B |-> RectOf(t, ws, s, rcp, f, n)]
           Shallow(n, k) == P(n) = ws \/ lo[P(n)] < k
<1>1. /\ t \in Tree /\ Linked(t) /\ Acyclic(t) /\ ws \in Parents /\ ws \notin Layouts
      /\ Nested(t, lo, hi)
  BY DrawnTree, KindsAssumption DEF Parents, Drawn
<1>2. Inset(s) \in Rect  BY DEF Inset, Rect, GapSize
<1>3. ASSUME NEW n \in B
      PROVE  /\ n \in Items
             /\ P(n) = ws \/ P(n) \in B \cap Layouts
             /\ P(n) \in Layouts => /\ lo[P(n)] < lo[n] /\ lo[P(n)] \in Int /\ lo[n] \in Int
                                    /\ IndexOf(t, n) \in Nat /\ Len(t.kids[P(n)]) \in Nat \ {0}
                                    /\ rcp[Len(t.kids[P(n)])] \in -3..3
  <2>1. /\ P(n) = ws \/ P(n) \in B \cap Layouts
        /\ n \in Elements(t.kids[P(n)])
    BY HangsBelow
  <2>2. ASSUME P(n) \in Layouts
        PROVE  /\ IndexOf(t, n) \in 1..Len(t.kids[P(n)])
               /\ Len(t.kids[P(n)]) \in 1..Cardinality(Windows)
    BY <2>1, <2>2, PlaceOfChild
  <2>3. Cardinality(Windows) \in Nat  BY PoolAssumption, FS_CardinalityType
  <2>4. ASSUME P(n) \in Layouts
        PROVE  lo[P(n)] < lo[n] /\ lo[P(n)] \in Int /\ lo[n] \in Int
    <3>1. n \in Items  BY HangsBelow
    <3>2. lo[P(n)] < lo[n]  BY <1>1, <2>1, <2>4 DEF Nested
    <3> QED  BY <3>1, <3>2, <2>4, DrawnTree DEF Items
  <2>5. n \in Items  BY HangsBelow
  <2>6. ASSUME P(n) \in Layouts
        PROVE  /\ IndexOf(t, n) \in Nat /\ Len(t.kids[P(n)]) \in Nat \ {0}
               /\ rcp[Len(t.kids[P(n)])] \in -3..3
    BY <2>2, <2>3, <2>6 DEF Errors
  <2> QED  BY <2>1, <2>4, <2>5, <2>6
<1>4. ASSUME NEW f, NEW n \in B, P(n) = ws \/ f[P(n)] \in Rect
      PROVE  RectOf(t, ws, s, rcp, f, n) \in Rect
  <2>1. CASE P(n) = ws  BY <2>1, <1>2 DEF RectOf
  <2>2. CASE P(n) # ws
    <3>1. P(n) \in Layouts  BY <1>3, <2>2
    <3>2. RectOf(t, ws, s, rcp, f, n) =
             ChildRect(t.type[P(n)], f[P(n)], IndexOf(t, n), Len(t.kids[P(n)]),
                       rcp[Len(t.kids[P(n)])])
      BY <2>2 DEF RectOf
    <3>3. f[P(n)] \in Rect  BY <1>4, <2>2
    <3>4. IndexOf(t, n) \in Nat /\ Len(t.kids[P(n)]) \in Nat \ {0}
          /\ rcp[Len(t.kids[P(n)])] \in -3..3
      BY <3>1, <1>3
    <3> QED  BY <3>2, <3>3, <3>4, ChildIsRect, Zenon
  <2> QED  BY <2>1, <2>2
<1>5. ASSUME NEW f, NEW g, NEW n \in B, P(n) = ws \/ f[P(n)] = g[P(n)]
      PROVE  RectOf(t, ws, s, rcp, f, n) = RectOf(t, ws, s, rcp, g, n)
  BY <1>5 DEF RectOf
<1> HIDE DEF P, F, B
\* There is a function that is right for the nodes whose layouts begin before k more than
\* the first, for every k.
<1>6. PICK low \in Int, high \in Int :
         \A n \in B : P(n) \in Layouts => low <= lo[P(n)] /\ lo[P(n)] < high
  <2>1. CASE B = {}  BY <2>1
  <2>2. CASE B # {}
    <3> DEFINE top == t.kids[ws][1]
    <3>1. top \in Layouts /\ top \in Items  BY <2>2, BelowTop DEF B, Items
    <3>2. lo[top] \in Int /\ hi[top] \in Int /\ lo[top] < hi[top]  BY <3>1, DrawnTree
    <3>3. ASSUME NEW n \in B, P(n) \in Layouts  PROVE lo[top] <= lo[P(n)] /\ lo[P(n)] < hi[top]
      <4>1. P(n) \in B  BY <1>1, <1>3, <3>3
      <4>2. P(n) = top \/ P(n) \in Below(t, top)  BY <4>1, BelowTop DEF B
      <4> HIDE DEF top
      <4>3. CASE P(n) = top  BY <4>3, <3>2
      <4>4. CASE P(n) \in Below(t, top)
        <5>1. P(n) \in Items /\ lo[top] < lo[P(n)] /\ hi[P(n)] < hi[top]
          BY <4>4, <1>1, <3>1, BelowWithin
        <5>2. lo[P(n)] \in Int /\ hi[P(n)] \in Int /\ lo[P(n)] < hi[P(n)]
          BY <5>1, DrawnTree
        <5> QED  BY <5>1, <5>2, <3>2
      <4> QED  BY <4>2, <4>3, <4>4
    <3> HIDE DEF top
    <3> QED  BY <3>2, <3>3
  <2> QED  BY <2>1, <2>2
<1> DEFINE A == {k \in Nat : \E f \in [B -> Rect] : \A n \in B : Shallow(n, low + k) =>
                                f[n] = RectOf(t, ws, s, rcp, f, n)}
<1>7. 0 \in A
  <2> DEFINE f == [n \in B |-> Inset(s)]
  <2>1. f \in [B -> Rect]  BY <1>2
  <2>2. ASSUME NEW n \in B, Shallow(n, low + 0)  PROVE f[n] = RectOf(t, ws, s, rcp, f, n)
    <3>1. P(n) = ws
      <4> SUFFICES ASSUME P(n) # ws  PROVE FALSE  OBVIOUS
      <4>1. P(n) \in Layouts /\ lo[P(n)] \in Int  BY <1>3
      <4> QED  BY <4>1, <1>6, <2>2
    <3> QED  BY <3>1 DEF RectOf, P
  <2> QED  BY <2>1, <2>2
<1>8. ASSUME NEW k \in Nat, k \in A  PROVE k + 1 \in A
  <2>1. PICK f \in [B -> Rect] : \A n \in B : Shallow(n, low + k) =>
                                f[n] = RectOf(t, ws, s, rcp, f, n)
    BY <1>8
  <2> DEFINE g == [n \in B |-> IF Shallow(n, low + k) THEN f[n] ELSE RectOf(t, ws, s, rcp, f, n)]
  <2>2. g \in [B -> Rect]
    <3>1. \A n \in B : P(n) = ws \/ f[P(n)] \in Rect  BY <1>3
    <3> QED  BY <3>1, <1>4
  <2>3. ASSUME NEW n \in B, Shallow(n, low + (k + 1))  PROVE g[n] = RectOf(t, ws, s, rcp, g, n)
    <3>1. g[n] = RectOf(t, ws, s, rcp, f, n)  BY <2>1
    <3>2. P(n) = ws \/ f[P(n)] = g[P(n)]
      <4> SUFFICES ASSUME P(n) # ws  PROVE f[P(n)] = g[P(n)]  OBVIOUS
      <4>1. P(n) \in B /\ P(n) \in Layouts /\ lo[P(n)] \in Int /\ lo[P(n)] < low + (k + 1)
        BY <1>3, <2>3
      <4>2. Shallow(P(n), low + k)
        <5> DEFINE q == P(n)
        <5>1. q \in B  BY <4>1
        <5>2. P(q) = ws \/ (P(q) \in Layouts /\ lo[P(q)] < lo[q] /\ lo[P(q)] \in Int)
          BY <1>3, <5>1
        <5>3. lo[q] \in Int /\ lo[q] < low + (k + 1)  BY <4>1
        <5> HIDE DEF q
        <5>4. P(q) = ws \/ lo[P(q)] < low + k  BY <5>2, <5>3
        <5> QED  BY <5>4 DEF q
      <4> QED  BY <4>1, <4>2
    <3>3. RectOf(t, ws, s, rcp, f, n) = RectOf(t, ws, s, rcp, g, n)  BY <3>2, <1>5
    <3> QED  BY <3>1, <3>3
  <2> HIDE DEF g, Shallow
  <2> QED  BY <2>2, <2>3
<1>9. \E f : f = F(f)
  <2>1. Nat \subseteq A
    <3> HIDE DEF A
    <3> QED  BY <1>7, <1>8, EveryNumber
  <2>2. PICK k \in Nat : high <= low + k
    <3>1. CASE low <= high
      <4>1. high - low \in Nat /\ high <= low + (high - low)  BY <3>1
      <4> QED  BY <4>1
    <3>2. CASE high < low
      <4>1. high <= low + 0  BY <3>2
      <4> QED  BY <4>1
    <3> QED  BY <3>1, <3>2
  <2>3. k \in A  BY <2>1
  <2>4. PICK f \in [B -> Rect] : \A n \in B : Shallow(n, low + k) =>
                                f[n] = RectOf(t, ws, s, rcp, f, n)
    BY <2>3
  <2>5. \A n \in B : Shallow(n, low + k)
    <3> SUFFICES ASSUME NEW n \in B, P(n) # ws  PROVE lo[P(n)] < low + k  OBVIOUS
    <3>1. P(n) \in Layouts /\ lo[P(n)] \in Int  BY <1>3
    <3> QED  BY <3>1, <1>6, <2>2
  <2>6. f = F(f)  BY <2>4, <2>5 DEF F
  <2> QED  BY <2>6
<1> DEFINE c == CHOOSE f : f = F(f)
<1>10. RectsBelow(t, ws, s, rcp) = c  BY DEF RectsBelow, RectOf, F, B
<1>11. c = F(c)
  <2> HIDE DEF F
  <2> QED  BY <1>9
<1> HIDE DEF c
<1>12. \A n \in B : c[n] = RectOf(t, ws, s, rcp, c, n)  BY <1>11 DEF F
<1> DEFINE S == {n \in B : c[n] \in Rect}
<1>13. \A n \in B : P(n) = ws \/ c[P(n)] \in Rect => c[n] \in Rect  BY <1>4, <1>12
<1>14. Elements(t.kids[ws]) \subseteq S
  <2>1. Elements(t.kids[ws]) \subseteq B  BY <1>1, BelowClosed DEF Over, B
  <2>2. \A n \in Elements(t.kids[ws]) : P(n) = ws  BY <1>1, DrawnTree DEF P
  <2> QED  BY <2>1, <2>2, <1>13
<1>15. \A p \in S \cap Parents : Elements(t.kids[p]) \subseteq S
  <2>1. \A p \in B \cap Parents : Elements(t.kids[p]) \subseteq B
    BY <1>1, BelowClosed DEF Over, B
  <2>2. \A p \in Parents : \A n \in Elements(t.kids[p]) : P(n) = p  BY <1>1, DrawnTree DEF P
  <2> QED  BY <2>1, <2>2, <1>13
<1>16. B \subseteq S
  <2> HIDE DEF S
  <2> QED  BY <1>1, <1>14, <1>15, BelowLeast DEF B
<1>17. c \in [B -> Rect]
  <2>1. c = [n \in B |-> c[n]]  BY <1>11 DEF F
  <2> QED  BY <2>1, <1>16
<1> QED  BY <1>10, <1>12, <1>17 DEF B

-----------------------------------------------------------------------------
(* How sizes shrink and how far ends drift, for one layout.                 *)

\* The least size that can be handed down to so many windows, in any layout, and leaves each
\* of them nine pixels, of which the gap takes eight.
Least == <<10, 28, 64, 136, 280, 568, 1144, 2296>>

\* Its values one by one.
LEMMA LeastValues ==
    /\ Least[1] = 10 /\ Least[2] = 28 /\ Least[3] = 64 /\ Least[4] = 136
    /\ Least[5] = 280 /\ Least[6] = 568 /\ Least[7] = 1144 /\ Least[8] = 2296
BY DEF Least

\* k shares of what a windows need are enough for the b windows of one of them.
LEMMA LeastDivides ==
    ASSUME NEW a \in 1..8, NEW b \in 1..8, NEW k \in Nat, k >= 2, b + k - 1 <= a
    PROVE  /\ k * (Least[b] + 8) <= Least[a] + 8
           /\ Least[b] \in Nat /\ Least[a] \in Nat
           /\ 10 <= Least[b] /\ Least[b] <= Least[a]
<1>1. b \in {1, 2, 3, 4, 5, 6, 7} /\ a \in {2, 3, 4, 5, 6, 7, 8} /\ k \in {2, 3, 4, 5, 6, 7, 8}
  OBVIOUS
<1>2. k = 2 \/ k = 3 \/ k = 4 \/ k = 5 \/ k = 6 \/ k = 7 \/ k = 8  BY <1>1
<1>3. CASE k = 2  BY <1>3, <1>1, LeastValues
<1>4. CASE k = 3  BY <1>4, <1>1, LeastValues
<1>5. CASE k = 4  BY <1>5, <1>1, LeastValues
<1>6. CASE k = 5  BY <1>6, <1>1, LeastValues
<1>7. CASE k = 6  BY <1>7, <1>1, LeastValues
<1>8. CASE k = 7  BY <1>8, <1>1, LeastValues
<1>9. CASE k = 8  BY <1>9, <1>1, LeastValues
<1> QED  BY <1>2, <1>3, <1>4, <1>5, <1>6, <1>7, <1>8, <1>9

\* The bounds of SharesAddUp for the largest error, either way.
LEMMA ShareBounds ==
    ASSUME NEW w \in Nat, NEW k \in Nat \ {0}, NEW e \in -3..3
    PROVE  /\ Share(w, k, e) \in Nat
           /\ 2 * Unit * (k * Share(w, k, e)) <= 2 * (Unit + 3) * w + Unit * k
           /\ 2 * (Unit - 3) * w < 2 * Unit * (k * Share(w, k, e)) + Unit * k
<1> DEFINE f == Share(w, k, e)
           P == k * f
           Q == e * w
<1>1. /\ f \in Nat
      /\ 2 * Unit * P <= 2 * (Unit + e) * w + Unit * k
      /\ 2 * (Unit + e) * w < 2 * Unit * P + Unit * k
  BY SharesAddUp
<1>2. Q \in Int /\ Q <= 3 * w /\ -(3 * w) <= Q
  <2> DEFINE below == (3 - e) * w
             above == (3 + e) * w
  <2>1. 3 - e \in Nat /\ 3 + e \in Nat /\ w \in Nat  OBVIOUS
  <2>2. below \in Nat /\ above \in Nat  BY <2>1
  <2>3. below = 3 * w - Q /\ above = 3 * w + Q /\ Q \in Int  OBVIOUS
  <2> HIDE DEF Q, below, above
  <2> QED  BY <2>2, <2>3
<1>3. 2 * (Unit + e) * w = 16384 * w + 2 * Q /\ Unit = 8192  BY DEF Unit
<1> HIDE DEF f, Q
<1>4. P \in Nat  BY <1>1
<1>5. /\ 2 * Unit * P <= 2 * (Unit + 3) * w + Unit * k
      /\ 2 * (Unit - 3) * w < 2 * Unit * P + Unit * k
  <2> HIDE DEF P
  <2> QED  BY <1>1, <1>2, <1>3, <1>4
<1> QED  BY <1>1, <1>5 DEF f

\* A product with a number of at least two.
LEMMA TwiceAtMost ==
    ASSUME NEW x \in Nat, NEW k \in Nat, k >= 2
    PROVE  k * x \in Nat /\ 2 * x <= k * x
<1>1. k - 2 \in Nat /\ (k - 2) * x \in Nat  OBVIOUS
<1>2. (k - 2) * x = k * x - 2 * x  OBVIOUS
<1> QED  BY <1>1, <1>2

\* One of k shares of the size of a windows: it is enough for the b windows it is for, it is
\* smaller than the whole, and the k shares together exceed the whole by a part of
\* what the share is smaller and of what its windows are fewer.
LEMMA ShareStep ==
    ASSUME NEW w \in Nat, NEW e \in -3..3, NEW a \in 1..8, NEW b \in 1..8,
           NEW k \in Nat, k >= 2, b + k - 1 <= a, Least[a] <= w, 6 * w <= 8 * Unit
    PROVE  /\ Share(w, k, e) \in Nat
           /\ Least[b] <= Share(w, k, e) /\ Share(w, k, e) <= w
           /\ Unit * (k * Share(w, k, e) - w) <= 6 * (w - Share(w, k, e)) + (Unit + 16) * (a - b)
<1>1. k \in Nat \ {0}  OBVIOUS
<1>2. /\ Share(w, k, e) \in Nat
      /\ 2 * Unit * (k * Share(w, k, e)) <= 2 * (Unit + 3) * w + Unit * k
      /\ 2 * (Unit - 3) * w < 2 * Unit * (k * Share(w, k, e)) + Unit * k
  BY <1>1, ShareBounds, Zenon
<1>3. /\ k * (Least[b] + 8) <= Least[a] + 8
      /\ Least[b] \in Nat /\ Least[a] \in Nat
      /\ 10 <= Least[b] /\ Least[b] <= Least[a]
  BY LeastDivides, Zenon
<1> DEFINE f == Share(w, k, e)
           P == k * f
           L == Least[b]
           M == Least[a]
<1>4. f \in Nat /\ L \in Nat /\ 10 <= L /\ L <= M /\ M \in Nat /\ k * (L + 8) <= M + 8 /\ M <= w
  BY <1>2, <1>3
<1>5. P \in Nat  BY <1>2
<1>6. 8192 * P <= 8195 * w + 4096 * k /\ 8189 * w < 8192 * P + 4096 * k
  <2>1. Unit = 8192  BY DEF Unit
  <2>2. /\ 2 * Unit * P <= 2 * (Unit + 3) * w + Unit * k
        /\ 2 * (Unit - 3) * w < 2 * Unit * P + Unit * k
    BY <1>2
  <2> HIDE DEF P
  <2> QED  BY <2>1, <2>2, <1>5
<1>0. w <= 10922  BY DEF Unit
<1> HIDE DEF f, L, M
<1>7. 16384 * f <= 8195 * w + 8192
  <2>1. CASE f = 0  BY <2>1
  <2>2. CASE f # 0
    <3> DEFINE x == 8192 * f - 4096
    <3>1. x \in Nat  BY <2>2, <1>4
    <3>2. k * x = 8192 * P - 4096 * k  BY <1>4
    <3> HIDE DEF x, P
    <3>3. 2 * x <= k * x /\ k * x \in Nat  BY <3>1, TwiceAtMost
    <3>4. 2 * x <= 8195 * w  BY <3>1, <3>2, <3>3, <1>5, <1>6
    <3> QED  BY <3>4, <1>4 DEF x
  <2> QED  BY <2>1, <2>2
<1>8. f <= w  BY <1>4, <1>7
<1>9. 8192 * (P - w) <= 6 * (w - f) + 8208 * (a - b)
  <2> HIDE DEF P
  <2>1. 6 * f <= 3 * w + 16  BY <1>0, <1>4, <1>7
  <2>2. 4096 * k + 16 <= 8208 * (a - b)  OBVIOUS
  <2>3. 8192 * (P - w) <= 3 * w + 4096 * k  BY <1>5, <1>6
  <2> QED  BY <2>1, <2>2, <2>3, <1>4, <1>5
<1>10. L <= f
  <2> SUFFICES ASSUME f < L  PROVE FALSE  BY <1>4
  <2> DEFINE d == L - 1 - f
             y == k * d
             z == k * L
  <2>1. d \in Nat  BY <1>4
  <2>2. y \in Nat /\ y = z - k - P  BY <2>1, <1>4
  <2>3. z \in Nat /\ k * (L + 8) = z + 8 * k  BY <1>4
  <2>4. z <= 10922 * k
    <3>1. L <= 10922  BY <1>0, <1>4
    <3>2. (10922 - L) * k \in Nat /\ (10922 - L) * k = 10922 * k - z  BY <3>1, <1>4
    <3> QED  BY <3>2, <2>3
  <2> HIDE DEF d, y, z, P
  <2>5. P <= z - k  BY <2>2, <2>3, <1>5
  <2>6. z + 8 * k - 8 <= w
    <3> DEFINE v == k * (L + 8)
    <3>1. v <= M + 8 /\ v = z + 8 * k  BY <2>3, <1>4
    <3>2. v \in Int /\ M \in Int /\ k \in Int  BY <3>1, <2>3, <1>4
    <3>3. M <= w  BY <1>4
    <3> HIDE DEF v
    <3> QED  BY <3>1, <3>2, <3>3, <2>3
  <2> QED  BY <2>3, <2>4, <2>5, <2>6, <1>5, <1>6
<1>11. Unit * (P - w) <= 6 * (w - f) + (Unit + 16) * (a - b)  BY <1>9 DEF Unit
<1> QED  BY <1>4, <1>8, <1>10, <1>11 DEF f, L, P

-----------------------------------------------------------------------------
(* One axis of the rectangles: positions and sizes, handed down.            *)

\* Each layout of the workspace either hands its position and its size to all its children
\* or puts them side by side with one share each.
HandedDown(t, ws, pos, size) ==
    /\ \A n \in Below(t, ws) : pos[n] \in Int /\ size[n] \in Int
    /\ \A p \in Below(t, ws) \cap Layouts :
          LET s == t.kids[p]
          IN  \/ \A i \in 1..Len(s) : pos[s[i]] = pos[p] /\ size[s[i]] = size[p]
              \/ \E e \in -3..3 : LET f == Share(size[p], Len(s), e)
                                  IN  \A i \in 1..Len(s) : /\ size[s[i]] = f
                                                           /\ pos[s[i]] = pos[p] + (i - 1) * f

\* The size of a node is enough for its windows, and not so large that the error of the
\* reciprocal alone exceeds the gaps.
Ample(t, size, n) ==
    /\ Weight(t, n) \in 1..8
    /\ Least[Weight(t, n)] <= size[n] /\ 6 * size[n] <= 8 * Unit

\* n lies within p, but that its end may be further by what its size and its windows are fewer.
Inside(t, pos, size, n, p) ==
    /\ pos[p] <= pos[n] /\ size[n] <= size[p] /\ Weight(t, n) <= Weight(t, p)
    /\ Unit * ((pos[n] + size[n]) - (pos[p] + size[p])) <=
          6 * (size[p] - size[n]) + (Unit + 16) * (Weight(t, p) - Weight(t, n))

\* How far the end of a child is beyond that of its layout.
LEMMA EndsBeyond ==
    ASSUME NEW q \in Int, NEW u \in Int, NEW f \in Int, NEW v \in Int, NEW w \in Int, u + f <= v
    PROVE  /\ ((q + u) + f) - (q + w) \in Int /\ v - w \in Int
           /\ ((q + u) + f) - (q + w) <= v - w
OBVIOUS

\* A layout with two children or more, of ample size: so are they, and they lie within it.
LEMMA ChildInside ==
    ASSUME NEW t, NEW lo, NEW hi, Drawn(t, lo, hi), NEW ws \in Workspaces,
           NEW pos, NEW size, HandedDown(t, ws, pos, size),
           NEW p \in Below(t, ws) \cap Layouts, Len(t.kids[p]) >= 2, Ample(t, size, p),
           NEW n \in Elements(t.kids[p])
    PROVE  Ample(t, size, n) /\ Inside(t, pos, size, n, p)
<1> DEFINE s == t.kids[p]
           k == Len(t.kids[p])
           a == Weight(t, p)
           b == Weight(t, n)
<1>1. /\ t \in Tree /\ Linked(t) /\ Acyclic(t) /\ p \in Parents /\ ws \in Parents
  BY DrawnTree DEF Parents
<1>2. n \in Below(t, ws)  BY <1>1, BelowClosed DEF Over
<1>3. pos[n] \in Int /\ size[n] \in Int /\ pos[p] \in Int /\ size[p] \in Int
  BY <1>2 DEF HandedDown
<1>4. k \in Nat /\ k >= 2  BY <1>1, KidsAreLists
<1>5. PICK i \in 1..k : n = s[i]  BY DEF Elements
<1>6. b >= 1 /\ b + k - 1 <= a  BY <1>5, WeightOfChild
<1>7. a \in 1..8 /\ Least[a] <= size[p] /\ 6 * size[p] <= 8 * Unit  BY DEF Ample
<1>8. b \in Nat  BY WeightIsNat
<1> HIDE DEF a, b
<1>0. b <= a
  <2>1. a \in Nat  BY <1>7
  <2> HIDE DEF k
  <2>2. \A x, y \in Nat : \A j \in Nat : j >= 2 /\ y + j - 1 <= x => y <= x  OBVIOUS
  <2> QED  BY <2>1, <2>2, <1>4, <1>6, <1>8
<1>9. b \in 1..8  BY <1>0, <1>6, <1>7, <1>8
<1>10. Least[b] \in Nat /\ Least[a] \in Nat /\ 10 <= Least[b] /\ Least[b] <= Least[a]
  <2> HIDE DEF k
  <2> QED  BY <1>4, <1>6, <1>7, <1>9, LeastDivides, Zenon
<1>11. size[p] \in Nat  BY <1>3, <1>7, <1>10
<1>12. Unit \in Nat  BY DEF Unit
<1>13. CASE \A j \in 1..Len(s) : pos[s[j]] = pos[p] /\ size[s[j]] = size[p]
  <2>1. pos[n] = pos[p] /\ size[n] = size[p]  BY <1>5, <1>13
  <2>2. Ample(t, size, n)
    <3>1. Least[b] <= size[n] /\ 6 * size[n] <= 8 * Unit  BY <2>1, <1>7, <1>10, <1>11
    <3> QED  BY <3>1, <1>9 DEF Ample, b
  <2>3. Unit * ((pos[n] + size[n]) - (pos[p] + size[p])) <=
           6 * (size[p] - size[n]) + (Unit + 16) * (a - b)
    <3>1. (pos[n] + size[n]) - (pos[p] + size[p]) = 0 /\ size[p] - size[n] = 0  BY <2>1, <1>3
    <3>2. a - b \in Nat  BY <1>4, <1>6, <1>7, <1>8
    <3>3. (Unit + 16) * (a - b) \in Nat  BY <3>2, <1>12
    <3> QED  BY <3>1, <3>3, <1>12
  <2> QED  BY <2>1, <2>2, <2>3, <1>0, <1>3 DEF Inside, a, b
<1>14. ASSUME NEW e \in -3..3,
              \A j \in 1..Len(s) : /\ size[s[j]] = Share(size[p], k, e)
                                   /\ pos[s[j]] = pos[p] + (j - 1) * Share(size[p], k, e)
       PROVE  Ample(t, size, n) /\ Inside(t, pos, size, n, p)
  <2> DEFINE f == Share(size[p], k, e)
             w == size[p]
  <2>1. size[n] = f /\ pos[n] = pos[p] + (i - 1) * f  BY <1>5, <1>14
  <2>2. /\ f \in Nat /\ Least[b] <= f /\ f <= w
        /\ Unit * (k * f - w) <= 6 * (w - f) + (Unit + 16) * (a - b)
    <3> HIDE DEF k
    <3> QED  BY <1>4, <1>6, <1>7, <1>9, <1>11, ShareStep, Zenon
  <2> HIDE DEF f
  <2>3. (i - 1) * f \in Nat /\ k * f \in Nat /\ (i - 1) * f + f <= k * f
    <3> HIDE DEF k
    <3>1. (i - 1) * f \in Nat /\ (i - 1) * f + f = i * f /\ i * f <= k * f
      BY <2>2, <1>4, EndOfChild
    <3>2. k * f \in Nat  BY <2>2, <1>4
    <3> QED  BY <3>1, <3>2
  <2>4. Ample(t, size, n)
    <3>1. 6 * size[n] <= 8 * Unit
      <4>1. 6 * f <= 6 * w  BY <2>2, <1>11
      <4> QED  BY <4>1, <2>1, <2>2, <1>7, <1>11, <1>12
    <3>2. Least[b] <= size[n]  BY <2>1, <2>2
    <3> QED  BY <3>1, <3>2, <1>9 DEF Ample, b
  <2>5. Unit * ((pos[n] + size[n]) - (pos[p] + size[p])) <=
           6 * (size[p] - size[n]) + (Unit + 16) * (a - b)
    <3> DEFINE x == (pos[n] + size[n]) - (pos[p] + size[p])
               y == k * f - w
    <3>1. x \in Int /\ y \in Int /\ x <= y
      <4> DEFINE u == (i - 1) * f
                 v == k * f
      <4>1. u \in Nat /\ v \in Nat /\ u + f <= v  BY <2>3
      <4>2. pos[n] = pos[p] + u  BY <2>1
      <4> HIDE DEF u, v
      <4>3. u \in Int /\ v \in Int /\ f \in Int /\ w \in Int /\ pos[p] \in Int
        BY <4>1, <2>2, <1>3
      <4>4. x = ((pos[p] + u) + f) - (pos[p] + w)  BY <4>2, <2>1
      <4> HIDE DEF w, x
      <4>5. x \in Int /\ v - w \in Int /\ x <= v - w  BY <4>1, <4>3, <4>4, EndsBeyond, Zenon
      <4> QED  BY <4>5 DEF v, w
    <3>2. Unit * y <= 6 * (w - f) + (Unit + 16) * (a - b)  BY <2>2
    <3> HIDE DEF x, y
    <3>3. Unit * x <= Unit * y  BY <3>1 DEF Unit
    <3>4. Unit * x \in Int /\ Unit * y \in Int  BY <3>1, <1>12
    <3>5. (Unit + 16) * (a - b) \in Int /\ 6 * (w - f) \in Int  BY <2>2, <1>7, <1>8, <1>11, <1>12
    <3>6. Unit * x <= 6 * (w - f) + (Unit + 16) * (a - b)  BY <3>2, <3>3, <3>4, <3>5
    <3> QED  BY <3>6, <2>1 DEF x
  <2>6. pos[p] <= pos[n] /\ size[n] <= size[p]
    <3> DEFINE u == (i - 1) * f
    <3>1. u \in Nat /\ pos[n] = pos[p] + u  BY <2>1, <2>3
    <3> HIDE DEF u
    <3> QED  BY <3>1, <2>1, <2>2, <1>3
  <2> QED  BY <2>4, <2>5, <2>6, <1>0 DEF Inside, a, b
<1>15. \/ \A j \in 1..Len(s) : pos[s[j]] = pos[p] /\ size[s[j]] = size[p]
       \/ \E e \in -3..3 :
             \A j \in 1..Len(s) : /\ size[s[j]] = Share(size[p], k, e)
                                  /\ pos[s[j]] = pos[p] + (j - 1) * Share(size[p], k, e)
  BY Zenon DEF HandedDown
<1> QED  BY <1>13, <1>14, <1>15


\* n is a or lies below it.
Holds(t, a, n) == n = a \/ (a \in Layouts /\ n \in Below(t, a))

\* What is fewer and smaller adds up along a path of layouts.
LEMMA InsideInside ==
    ASSUME NEW t, NEW pos, NEW size, NEW n, NEW p, NEW a,
           \A x \in {n, p, a} : pos[x] \in Int /\ size[x] \in Int,
           Inside(t, pos, size, n, p), Inside(t, pos, size, p, a)
    PROVE  Inside(t, pos, size, n, a)
<1>1. Weight(t, n) \in Nat /\ Weight(t, p) \in Nat /\ Weight(t, a) \in Nat  BY WeightIsNat
<1>2. Unit = 8192  BY DEF Unit
<1>3. /\ pos[p] <= pos[n] /\ size[n] <= size[p] /\ Weight(t, n) <= Weight(t, p)
      /\ 8192 * ((pos[n] + size[n]) - (pos[p] + size[p])) <=
            6 * (size[p] - size[n]) + 8208 * (Weight(t, p) - Weight(t, n))
  BY <1>2 DEF Inside
<1>4. /\ pos[a] <= pos[p] /\ size[p] <= size[a] /\ Weight(t, p) <= Weight(t, a)
      /\ 8192 * ((pos[p] + size[p]) - (pos[a] + size[a])) <=
            6 * (size[a] - size[p]) + 8208 * (Weight(t, a) - Weight(t, p))
  BY <1>2 DEF Inside
<1>5. /\ pos[a] <= pos[n] /\ size[n] <= size[a] /\ Weight(t, n) <= Weight(t, a)
      /\ 8192 * ((pos[n] + size[n]) - (pos[a] + size[a])) <=
            6 * (size[a] - size[n]) + 8208 * (Weight(t, a) - Weight(t, n))
  BY <1>1, <1>3, <1>4
<1> QED  BY <1>2, <1>5 DEF Inside

\* When the layout of the workspace has two children, so has every layout below it, and
\* all of them have room for their windows.
LEMMA AllAmple ==
    ASSUME NEW t, NEW lo, NEW hi, Drawn(t, lo, hi), NEW ws \in Workspaces,
           NEW pos, NEW size, HandedDown(t, ws, pos, size), Below(t, ws) # {},
           Len(t.kids[t.kids[ws][1]]) >= 2, Ample(t, size, t.kids[ws][1])
    PROVE  /\ \A p \in Below(t, ws) \cap Layouts : Len(t.kids[p]) >= 2
           /\ \A n \in Below(t, ws) : Ample(t, size, n)
<1> DEFINE top == t.kids[ws][1]
           B == Below(t, ws)
           S == {n \in B : Ample(t, size, n)}
<1>1. t \in Tree /\ Linked(t) /\ Acyclic(t) /\ Shaped(t, t.live) /\ ws \in Parents
  BY DrawnTree DEF Parents
<1>2. Elements(t.kids[ws]) = {top} /\ top \in Layouts /\ top \in B  BY BelowTop
<1>3. ASSUME NEW p \in B \cap Layouts  PROVE Len(t.kids[p]) >= 2
  <2>1. /\ p \in Items /\ (t.parent[p] = ws \/ t.parent[p] \in Layouts)
        /\ p \in Elements(t.kids[t.parent[p]])
    BY HangsBelow
  <2>2. p \in t.live  BY <2>1, <1>1, KindsAssumption DEF Linked
  <2>3. t.kids[p] # <<>> /\ (Len(t.kids[p]) = 1 => t.parent[p] \in Workspaces)
    BY <2>2, <1>1 DEF Shaped, Full
  <2>4. CASE t.parent[p] = ws  BY <2>1, <2>4, <1>2
  <2>5. CASE t.parent[p] \in Layouts
    <3>1. Len(t.kids[p]) # 1  BY <2>3, <2>5, KindsAssumption
    <3>2. Len(t.kids[p]) \in Nat /\ Len(t.kids[p]) # 0
      BY <2>3, <1>1, KidsAreLists DEF Parents
    <3>3. \A k \in Nat : k # 0 /\ k # 1 => k >= 2  OBVIOUS
    <3> QED  BY <3>1, <3>2, <3>3
  <2> QED  BY <2>1, <2>4, <2>5
<1>4. Elements(t.kids[ws]) \subseteq S  BY <1>2
<1>5. ASSUME NEW p \in S \cap Parents, NEW n \in Elements(t.kids[p])  PROVE n \in S
  <2>1. p \in Items  BY HangsBelow
  <2>2. p \in B \cap Layouts /\ Ample(t, size, p)  BY <2>1, KindsAssumption DEF Items, Parents
  <2>3. n \in B  BY <2>2, <1>1, BelowClosed DEF Over
  <2>4. Len(t.kids[p]) >= 2  BY <2>2, <1>3
  <2>5. Ample(t, size, n)  BY <2>2, <2>4, ChildInside
  <2> QED  BY <2>3, <2>5
<1>6. B \subseteq S
  <2> HIDE DEF S, B
  <2> QED  BY <1>1, <1>4, <1>5, BelowLeast DEF B
<1> QED  BY <1>3, <1>6

\* Then whatever lies below a node of the workspace lies within it but for the drift.
LEMMA LiesInside ==
    ASSUME NEW t, NEW lo, NEW hi, Drawn(t, lo, hi), NEW ws \in Workspaces,
           NEW pos, NEW size, HandedDown(t, ws, pos, size), Below(t, ws) # {},
           Len(t.kids[t.kids[ws][1]]) >= 2, Ample(t, size, t.kids[ws][1]),
           NEW a \in Below(t, ws), NEW n, Holds(t, a, n)
    PROVE  n \in Below(t, ws) /\ Inside(t, pos, size, n, a)
<1> DEFINE B == Below(t, ws)
           S == {m \in B : Inside(t, pos, size, m, a)}
<1>1. t \in Tree /\ Linked(t) /\ Acyclic(t) /\ ws \in Parents  BY DrawnTree DEF Parents
<1>2. \A m \in B : pos[m] \in Int /\ size[m] \in Int  BY DEF HandedDown
<1>3. Inside(t, pos, size, a, a)
  <2>1. Weight(t, a) \in Nat  BY WeightIsNat
  <2>2. (pos[a] + size[a]) - (pos[a] + size[a]) = 0 /\ size[a] - size[a] = 0  BY <1>2
  <2>3. Weight(t, a) - Weight(t, a) = 0  BY <2>1
  <2>4. Unit * 0 = 0 /\ (Unit + 16) * 0 = 0 /\ 6 * 0 = 0  BY DEF Unit
  <2> QED  BY <2>1, <2>2, <2>3, <2>4, <1>2 DEF Inside
<1>4. ASSUME NEW p \in S \cap Parents, NEW m \in Elements(t.kids[p])  PROVE m \in S
  <2>1. p \in Items  BY HangsBelow
  <2>2. p \in B \cap Layouts /\ Inside(t, pos, size, p, a)
    BY <2>1, KindsAssumption DEF Items, Parents
  <2>3. m \in B  BY <2>2, <1>1, BelowClosed DEF Over
  <2>4. Len(t.kids[p]) >= 2 /\ Ample(t, size, p)  BY <2>2, AllAmple
  <2>5. Inside(t, pos, size, m, p)  BY <2>2, <2>4, ChildInside
  <2>6. Inside(t, pos, size, m, a)
    <3>1. \A x \in {m, p, a} : pos[x] \in Int /\ size[x] \in Int  BY <1>2, <2>2, <2>3
    <3> QED  BY <3>1, <2>2, <2>5, InsideInside
  <2> QED  BY <2>3, <2>6
<1>5. CASE n = a  BY <1>3, <1>5
<1>6. CASE a \in Layouts /\ n \in Below(t, a)
  <2>1. a \in S \cap Parents  BY <1>3, <1>6 DEF Parents
  <2>2. Elements(t.kids[a]) \subseteq S  BY <2>1, <1>4
  <2>3. Below(t, a) \subseteq S
    <3> HIDE DEF S
    <3> QED  BY <2>1, <2>2, <1>1, <1>4, BelowLeast
  <2> QED  BY <2>3, <1>6
<1> QED  BY <1>5, <1>6 DEF Holds

\* What lies below a layout is a child of it or lies below one.
LEMMA BelowChild ==
    ASSUME NEW t, NEW lo, NEW hi, Drawn(t, lo, hi), NEW p \in Layouts, NEW n \in Below(t, p)
    PROVE  \E i \in 1..Len(t.kids[p]) : Holds(t, t.kids[p][i], n)
<1> DEFINE S == {m \in Items : \E i \in 1..Len(t.kids[p]) : Holds(t, t.kids[p][i], m)}
<1>1. t \in Tree /\ Linked(t) /\ Acyclic(t) /\ p \in Parents  BY DrawnTree DEF Parents
<1>2. Elements(t.kids[p]) \subseteq S  BY <1>1, DrawnTree DEF Holds, Elements
<1>3. ASSUME NEW q \in S \cap Parents, NEW m \in Elements(t.kids[q])  PROVE m \in S
  <2>1. m \in Items  BY DrawnTree
  <2>2. PICK i \in 1..Len(t.kids[p]) : Holds(t, t.kids[p][i], q)  OBVIOUS
  <2> DEFINE c == t.kids[p][i]
  <2> HIDE DEF c
  <2>3. q \in Layouts /\ q \in Parents  BY KindsAssumption DEF Items, Parents
  <2>4. c \in Layouts /\ c \in Parents /\ Over(t, c, q)
    BY <2>2, <2>3 DEF c, Holds, Over, Parents
  <2>5. m \in Below(t, c)  BY <1>1, <2>3, <2>4, BelowClosed
  <2>6. Holds(t, c, m)  BY <2>4, <2>5 DEF Holds
  <2> QED  BY <2>1, <2>2, <2>6 DEF c
<1>4. Below(t, p) \subseteq S
  <2> HIDE DEF S
  <2> QED  BY <1>1, <1>2, <1>3, BelowLeast
<1> QED  BY <1>4

\* Two windows of a workspace are in, or are, two different children of some layout.
LEMMA Separated ==
    ASSUME NEW t, NEW lo, NEW hi, Drawn(t, lo, hi), NEW ws \in Workspaces,
           NEW v \in WindowsOf(t, ws), NEW w \in WindowsOf(t, ws), v # w
    PROVE  \E p \in Below(t, ws) \cap Layouts : \E i, j \in 1..Len(t.kids[p]) :
              i # j /\ Holds(t, t.kids[p][i], v) /\ Holds(t, t.kids[p][j], w)
<1> DEFINE B == Below(t, ws)
           C == {l \in B \cap Layouts : v \in Below(t, l) /\ w \in Below(t, l)}
           A == {hi[l] - lo[l] : l \in C}
           top == t.kids[ws][1]
<1>1. /\ t \in Tree /\ Linked(t) /\ Acyclic(t) /\ ws \in Parents /\ Nested(t, lo, hi)
      /\ v \in B /\ w \in B /\ v \in Windows /\ w \in Windows
  BY DrawnTree DEF Parents, WindowsOf, Drawn
<1>2. top \in C
  <2>1. /\ top \in Layouts /\ top \in B
        /\ v = top \/ v \in Below(t, top)
        /\ w = top \/ w \in Below(t, top)
    BY <1>1, BelowTop
  <2> QED  BY <2>1, <1>1, KindsAssumption
<1> HIDE DEF top
<1>3. \A l \in Layouts : lo[l] \in Int /\ hi[l] \in Int /\ lo[l] < hi[l]  BY DrawnTree DEF Items
<1>4. A \subseteq Nat /\ A # {}
  <2>1. \A l \in C : hi[l] - lo[l] \in Nat
    <3> SUFFICES ASSUME NEW l \in C  PROVE hi[l] - lo[l] \in Nat  OBVIOUS
    <3>1. lo[l] \in Int /\ hi[l] \in Int /\ lo[l] < hi[l]  BY <1>3
    <3> QED  BY <3>1
  <2> QED  BY <2>1, <1>2
<1>5. PICK m \in A : \A k \in A : m <= k
  <2> HIDE DEF A
  <2> QED  BY <1>4, LeastOfSet
<1>6. PICK p \in C : m = hi[p] - lo[p]  BY <1>5
<1>7. p \in B \cap Layouts /\ p \in Parents /\ v \in Below(t, p) /\ w \in Below(t, p)
  BY <1>6 DEF Parents
<1>8. PICK i \in 1..Len(t.kids[p]) : Holds(t, t.kids[p][i], v)  BY <1>7, BelowChild
<1>9. PICK j \in 1..Len(t.kids[p]) : Holds(t, t.kids[p][j], w)  BY <1>7, BelowChild
<1>10. i # j
  <2> SUFFICES ASSUME i = j  PROVE FALSE  OBVIOUS
  <2> DEFINE c == t.kids[p][i]
  <2>1. c \in Elements(t.kids[p])  BY <1>1, <1>7, KidsAreLists
  <2>2. Holds(t, c, v) /\ Holds(t, c, w)  BY <1>8, <1>9
  <2> HIDE DEF c
  <2>3. c \in Layouts /\ v \in Below(t, c) /\ w \in Below(t, c)
    BY <2>2, <1>1, KindsAssumption DEF Holds
  <2>4. c \in B  BY <1>1, <1>7, <2>1, BelowClosed DEF Over
  <2>5. c \in C  BY <2>3, <2>4
  <2>6. lo[p] < lo[c] /\ hi[c] < hi[p]  BY <1>1, <1>7, <2>1 DEF Nested
  <2>7. hi[p] - lo[p] <= hi[c] - lo[c]  BY <1>5, <1>6, <2>5
  <2>8. lo[p] \in Int /\ hi[p] \in Int /\ lo[c] \in Int /\ hi[c] \in Int  BY <1>3, <1>7, <2>3
  <2> HIDE DEF C, A
  <2> QED  BY <2>6, <2>7, <2>8
<1> QED  BY <1>7, <1>8, <1>9, <1>10

-----------------------------------------------------------------------------
(* How far windows drift on a monitor with room for them.                   *)

\* Room for m windows, however they are nested: each of them gets its nine pixels, and what
\* the reciprocal (6 of Unit of the size) and the rounding (half of Unit for each way of
\* each window more) add up to is less than one pixel more than the two gaps.
AmpleFor(size, m) ==
    /\ m \in 1..8 /\ Least[m] <= size
    /\ 6 * size + (Unit + 16) * (m - 1) < (2 * GapSize + 1) * Unit

\* A window that is alone has room enough, and so have more.
LEMMA LeastNumbers == \A m \in 1..8 : Least[m] \in Nat /\ 10 <= Least[m]
<1> SUFFICES ASSUME NEW m \in 1..8  PROVE Least[m] \in Nat /\ 10 <= Least[m]  OBVIOUS
<1>1. m = 1 \/ m = 2 \/ m = 3 \/ m = 4 \/ m = 5 \/ m = 6 \/ m = 7 \/ m = 8  OBVIOUS
<1> QED  BY <1>1, LeastValues

\* Room for some windows is room for fewer.
LEMMA RoomForFewer ==
    ASSUME NEW size \in Int, NEW m, AmpleFor(size, m), NEW k \in Nat, 1 <= k, k <= m
    PROVE  AmpleFor(size, k)
<1>1. m \in 1..8 /\ Least[m] <= size /\ 6 * size + 8208 * (m - 1) < 9 * 8192
  BY DEF AmpleFor, Unit, GapSize
<1>2. k \in 1..8  BY <1>1
<1>3. m = 1 \/ m = 2 \/ m = 3 \/ m = 4 \/ m = 5 \/ m = 6 \/ m = 7 \/ m = 8  BY <1>1
<1>4. k = 1 \/ k = 2 \/ k = 3 \/ k = 4 \/ k = 5 \/ k = 6 \/ k = 7 \/ k = 8  BY <1>2
<1>5. Least[k] <= Least[m] /\ Least[k] \in Nat /\ Least[m] \in Nat  BY <1>3, <1>4, LeastValues
<1>6. 6 * size + 8208 * (k - 1) < 9 * 8192  BY <1>1, <1>2
<1> QED  BY <1>1, <1>2, <1>5, <1>6 DEF AmpleFor, Unit, GapSize

\* A window alone on its workspace.
LEMMA AloneFits ==
    ASSUME NEW size \in Nat, NEW m, AmpleFor(size, m), NEW e \in -3..3
    PROVE  /\ Share(size, 1, e) \in Nat /\ Share(size, 1, e) <= size + 2 * GapSize
           /\ 2 * GapSize < Share(size, 1, e) /\ Share(size, 1, e) <= MaxSize
<1> DEFINE f == Share(size, 1, e)
<1>1. /\ f \in Nat
      /\ 2 * Unit * (1 * f) <= 2 * (Unit + 3) * size + Unit * 1
      /\ 2 * (Unit - 3) * size < 2 * Unit * (1 * f) + Unit * 1
  <2>1. 1 \in Nat \ {0}  OBVIOUS
  <2> QED  BY <2>1, ShareBounds, Zenon
<1>2. m \in 1..8 /\ Least[m] <= size /\ 6 * size + 8208 * (m - 1) < 9 * 8192
  BY DEF AmpleFor, Unit, GapSize
<1>3. 10 <= size /\ 6 * size < 9 * 8192
  <2>1. Least[m] \in Nat /\ 10 <= Least[m]  BY <1>2, LeastNumbers
  <2> QED  BY <2>1, <1>2
<1> HIDE DEF f
<1>4. 16384 * f <= 16390 * size + 8192 /\ 16378 * size < 16384 * f + 8192  BY <1>1 DEF Unit
<1>5. f <= size + 8 /\ 8 < f /\ f <= 65535  BY <1>1, <1>3, <1>4
<1> QED  BY <1>1, <1>5 DEF f, GapSize, MaxSize

\* A window of the workspace has a size, and ends at most the two gaps beyond whatever
\* layout it is in.
LEMMA WindowFits ==
    ASSUME NEW t, NEW lo, NEW hi, Drawn(t, lo, hi), NEW ws \in Workspaces,
           NEW pos, NEW size, HandedDown(t, ws, pos, size), Below(t, ws) # {},
           AmpleFor(size[t.kids[ws][1]], Weight(t, t.kids[ws][1])),
           NEW a \in Below(t, ws), NEW w \in Windows, Holds(t, a, w)
    PROVE  /\ pos[a] \in Int /\ size[a] \in Int /\ pos[w] \in Int
           /\ pos[a] <= pos[w] /\ pos[w] + size[w] <= pos[a] + size[a] + 2 * GapSize
           /\ size[w] \in Nat /\ 2 * GapSize < size[w] /\ size[w] <= MaxSize
<1> DEFINE top == t.kids[ws][1]
           m == Weight(t, top)
           B == Below(t, ws)
<1>1. /\ t \in Tree /\ Linked(t) /\ Acyclic(t) /\ Shaped(t, t.live) /\ ws \in Parents
  BY DrawnTree DEF Parents
<1>2. /\ Elements(t.kids[ws]) = {top} /\ top \in Layouts /\ top \in B
      /\ top \in Parents /\ top \in Items
  BY BelowTop DEF Parents, Items
<1>3. \A n \in B : pos[n] \in Int /\ size[n] \in Int  BY DEF HandedDown
<1>4. t.parent[top] = ws  BY <1>1, <1>2, DrawnTree
<1>5. Full(t, top)
  <2>1. top \in t.live  BY <1>1, <1>2, <1>4, KindsAssumption DEF Linked
  <2> QED  BY <2>1, <1>1 DEF Shaped
<1>6. AmpleFor(size[top], m)  OBVIOUS
<1> HIDE DEF top, m
<1>7. /\ m \in 1..8 /\ Least[m] <= size[top]
      /\ 6 * size[top] + 8208 * (m - 1) < 9 * 8192
  BY <1>6 DEF AmpleFor, Unit, GapSize
<1>8. Least[m] \in Nat /\ 10 <= Least[m] /\ size[top] \in Nat
  <2>1. Least[m] \in Nat /\ 10 <= Least[m]  BY <1>7, LeastNumbers
  <2>2. size[top] \in Int  BY <1>2, <1>3
  <2> QED  BY <2>1, <2>2, <1>7
<1>9. Len(t.kids[top]) \in Nat /\ Len(t.kids[top]) # 0
  <2>1. t.kids[top] # <<>>  BY <1>5 DEF Full
  <2> QED  BY <2>1, <1>1, <1>2, KidsAreLists
<1>10. CASE Len(t.kids[top]) = 1
  <2> DEFINE c == t.kids[top][1]
  <2>1. Elements(t.kids[top]) = {c}  BY <1>10 DEF Elements
  <2>2. c \in Windows /\ c \notin Parents  BY <2>1, <1>5, <1>10, KindsAssumption DEF Full, Parents
  <2>3. c \in B  BY <2>1, <1>1, <1>2, BelowClosed DEF Over
  <2>4. \/ pos[c] = pos[top] /\ size[c] = size[top]
        \/ \E e \in -3..3 : size[c] = Share(size[top], 1, e)
                            /\ pos[c] = pos[top] + 0 * Share(size[top], 1, e)
    <3>1. top \in Below(t, ws) \cap Layouts /\ 1 \in 1..Len(t.kids[top]) /\ 1 - 1 = 0
      BY <1>2, <1>10
    <3> QED  BY <3>1, <1>10 DEF HandedDown
  <2>5. \A n \in Below(t, top) : n = c
    <3> HIDE DEF c
    <3>1. Elements(t.kids[top]) \subseteq {c}  BY <2>1
    <3>2. \A p \in {c} \cap Parents : Elements(t.kids[p]) \subseteq {c}  BY <2>2
    <3>3. Below(t, top) \subseteq {c}  BY <3>1, <3>2, <1>1, <1>2, BelowLeast
    <3> QED  BY <3>3
  <2> HIDE DEF c
  <2>6. pos[c] = pos[top] /\ size[c] \in Nat /\ size[c] <= size[top] + 8
        /\ 8 < size[c] /\ size[c] <= 65535
    <3>1. CASE pos[c] = pos[top] /\ size[c] = size[top]  BY <3>1, <1>7, <1>8
    <3>2. ASSUME NEW e \in -3..3, size[c] = Share(size[top], 1, e),
                 pos[c] = pos[top] + 0 * Share(size[top], 1, e)
          PROVE  pos[c] = pos[top] /\ size[c] \in Nat /\ size[c] <= size[top] + 8
                 /\ 8 < size[c] /\ size[c] <= 65535
      <4> DEFINE f == Share(size[top], 1, e)
      <4>1. /\ f \in Nat /\ f <= size[top] + 2 * GapSize
            /\ 2 * GapSize < f /\ f <= MaxSize
        BY <1>6, <1>8, AloneFits
      <4>2. size[c] = f /\ pos[c] = pos[top] + 0 * f  BY <3>2
      <4>3. pos[top] \in Int  BY <1>2, <1>3
      <4> HIDE DEF f
      <4>4. pos[c] = pos[top]  BY <4>1, <4>2, <4>3
      <4> QED  BY <4>1, <4>2, <4>4 DEF GapSize, MaxSize
    <3> QED  BY <3>1, <3>2, <2>4
  <2>7. a = top \/ a = c  BY <2>5, BelowTop DEF top
  <2>8. w = c  BY <2>2, <2>5, <2>7, <1>2, KindsAssumption DEF Holds
  <2>9. pos[c] \in Int /\ pos[top] \in Int /\ size[top] \in Int  BY <2>3, <1>2, <1>3
  <2> QED  BY <2>6, <2>7, <2>8, <2>9 DEF GapSize, MaxSize
<1>11. CASE Len(t.kids[top]) >= 2
  <2> DEFINE k == Len(t.kids[top])
  <2>1. m >= 2
    <3>1. 1 \in 1..k  BY <1>11, <1>9
    <3>2. Weight(t, t.kids[top][1]) >= 1 /\ Weight(t, t.kids[top][1]) + k - 1 <= m
      BY <3>1, <1>2, WeightOfChild DEF m
    <3>3. Weight(t, t.kids[top][1]) \in Nat /\ m \in Nat  BY WeightIsNat DEF m
    <3> QED  BY <3>2, <3>3, <1>11, <1>9
  <2>2. Ample(t, size, top)
    <3>1. 6 * size[top] <= 8 * 8192  BY <2>1, <1>7, <1>8
    <3> QED  BY <3>1, <1>7 DEF Ample, m, Unit
  <2>3. Len(t.kids[t.kids[ws][1]]) >= 2 /\ Ample(t, size, t.kids[ws][1])
    BY <2>2, <1>11 DEF top
  <2>4. w \in B /\ Inside(t, pos, size, w, a)
    <3> HIDE DEF B
    <3> QED  BY <2>3, LiesInside DEF B
  <2>5. Inside(t, pos, size, a, top)
    <3>1. Holds(t, top, a)  BY <1>2, BelowTop DEF Holds, top
    <3> QED  BY <3>1, <2>3, <1>2, LiesInside
  <2>6. Weight(t, w) \in 1..8 /\ Least[Weight(t, w)] <= size[w]
    <3>1. Ample(t, size, w)  BY <2>3, <2>4, AllAmple
    <3> QED  BY <3>1 DEF Ample
  <2>7. Least[Weight(t, w)] \in Nat /\ 10 <= Least[Weight(t, w)]  BY <2>6, LeastNumbers
  <2>8. /\ pos[a] \in Int /\ size[a] \in Int /\ pos[w] \in Int /\ size[w] \in Int
        /\ Weight(t, a) \in Nat /\ Weight(t, w) \in Nat
    BY <2>4, <1>3, WeightIsNat
  <2>9. pos[a] <= pos[w] /\ size[w] <= size[a] /\ size[a] <= size[top] /\ Weight(t, a) <= m
    BY <2>4, <2>5 DEF Inside, m
  <2>10. 8192 * ((pos[w] + size[w]) - (pos[a] + size[a])) <=
             6 * (size[a] - size[w]) + 8208 * (Weight(t, a) - Weight(t, w))
    BY <2>4 DEF Inside, Unit
  <2>11. 8 < size[w] /\ size[w] <= 65535  BY <2>6, <2>7, <2>8, <2>9, <2>1, <1>7, <1>8
  <2>12. pos[w] + size[w] <= pos[a] + size[a] + 8
    <3>1. 8192 * ((pos[w] + size[w]) - (pos[a] + size[a])) < 9 * 8192
      <4>1. 6 * (size[a] - size[w]) <= 6 * size[top]  BY <2>8, <2>9, <2>11, <1>8
      <4>2. 8208 * (Weight(t, a) - Weight(t, w)) <= 8208 * (m - 1)
        BY <2>6, <2>8, <2>9, <1>7
      <4> QED  BY <4>1, <4>2, <2>8, <2>10, <1>7, <1>8
    <3> QED  BY <3>1, <2>8
  <2> QED  BY <2>8, <2>9, <2>11, <2>12 DEF GapSize, MaxSize
<1>12. Len(t.kids[top]) = 1 \/ Len(t.kids[top]) >= 2
  <2>1. \A k \in Nat : k # 0 => k = 1 \/ k >= 2  OBVIOUS
  <2> QED  BY <2>1, <1>9
<1> QED  BY <1>10, <1>11, <1>12

-----------------------------------------------------------------------------
(* Both axes.                                                               *)

\* What the n-th of a layout's children has, of what RectsBelow gives.
LEMMA ChildHas ==
    ASSUME NEW t, NEW lo, NEW hi, Drawn(t, lo, hi), NEW ws \in Workspaces,
           NEW s \in Rect, NEW rcp \in Errors,
           NEW p \in Below(t, ws) \cap Layouts, NEW i \in 1..Len(t.kids[p])
    PROVE  LET rect == RectsBelow(t, ws, s, rcp)
               k    == Len(t.kids[p])
           IN  /\ t.kids[p][i] \in Below(t, ws) /\ rcp[k] \in -3..3 /\ k \in Nat \ {0}
               /\ rect[t.kids[p][i]] = ChildRect(t.type[p], rect[p], i, k, rcp[k])
<1> DEFINE rect == RectsBelow(t, ws, s, rcp)
           k == Len(t.kids[p])
           n == t.kids[p][i]
<1>1. /\ t \in Tree /\ Linked(t) /\ Acyclic(t) /\ p \in Parents /\ ws \in Parents
      /\ p # ws /\ NoDuplicates(t.kids[p])
  BY DrawnTree, KindsAssumption DEF Parents, Linked
<1>2. n \in Elements(t.kids[p])  BY <1>1, KidsAreLists
<1>3. n \in Below(t, ws)  BY <1>1, <1>2, BelowClosed DEF Over
<1>4. /\ t.parent[n] = p
      /\ IndexOf(t, n) \in 1..k /\ t.kids[p][IndexOf(t, n)] = n
      /\ k \in 1..Cardinality(Windows)
  <2> HIDE DEF n
  <2> QED  BY <1>2, PlaceOfChild
<1>5. IndexOf(t, n) = i  BY <1>1, <1>4 DEF NoDuplicates
<1>6. rect[n] = RectOf(t, ws, s, rcp, rect, n)
  <2> HIDE DEF n
  <2> QED  BY <1>3, RectsAre
<1>7. rcp[k] \in -3..3  BY <1>4 DEF Errors
<1>8. k \in Nat \ {0}
  <2>1. Cardinality(Windows) \in Nat  BY PoolAssumption, FS_CardinalityType
  <2> QED  BY <2>1, <1>4
<1>9. rect[n] = ChildRect(t.type[p], rect[p], i, k, rcp[k])
  <2> HIDE DEF n, rect
  <2> QED  BY <1>1, <1>4, <1>5, <1>6 DEF RectOf
<1> QED  BY <1>3, <1>7, <1>8, <1>9

\* The axes, of rectangles.
Xs(rect) == [n \in DOMAIN rect |-> rect[n].x]
Ys(rect) == [n \in DOMAIN rect |-> rect[n].y]
Ws(rect) == [n \in DOMAIN rect |-> rect[n].w]
Hs(rect) == [n \in DOMAIN rect |-> rect[n].h]

\* A child has its share of one axis and all of the other.
LEMMA ChildAxes ==
    ASSUME NEW ty, NEW r \in Rect, NEW i, NEW n, NEW e
    PROVE  LET c == ChildRect(ty, r, i, n, e)
           IN  IF ty = "Horizontal"
               THEN /\ c.x = r.x + (i - 1) * Share(r.w, n, e) /\ c.w = Share(r.w, n, e)
                    /\ c.y = r.y /\ c.h = r.h
               ELSE /\ c.y = r.y + (i - 1) * Share(r.h, n, e) /\ c.h = Share(r.h, n, e)
                    /\ c.x = r.x /\ c.w = r.w
<1> DEFINE fw == Share(r.w, n, e)
           fh == Share(r.h, n, e)
           x1 == r.x + (i - 1) * fw
           y1 == r.y + (i - 1) * fh
<1>1. ChildRect(ty, r, i, n, e) = IF ty = "Horizontal" THEN [r EXCEPT !.x = x1, !.w = fw]
                                  ELSE [r EXCEPT !.y = y1, !.h = fh]
  BY DEF ChildRect
<1> HIDE DEF fw, fh, x1, y1
<1>2. /\ [r EXCEPT !.x = x1, !.w = fw].x = x1 /\ [r EXCEPT !.x = x1, !.w = fw].w = fw
      /\ [r EXCEPT !.x = x1, !.w = fw].y = r.y /\ [r EXCEPT !.x = x1, !.w = fw].h = r.h
      /\ [r EXCEPT !.y = y1, !.h = fh].y = y1 /\ [r EXCEPT !.y = y1, !.h = fh].h = fh
      /\ [r EXCEPT !.y = y1, !.h = fh].x = r.x /\ [r EXCEPT !.y = y1, !.h = fh].w = r.w
  BY DEF Rect
<1>3. fw = Share(r.w, n, e) /\ fh = Share(r.h, n, e)
      /\ x1 = r.x + (i - 1) * Share(r.w, n, e) /\ y1 = r.y + (i - 1) * Share(r.h, n, e)
  BY DEF fw, fh, x1, y1
<1> QED  BY <1>1, <1>2, <1>3

\* Along each axis, RectsBelow hands down positions and sizes.
LEMMA AxesLaid ==
    ASSUME NEW t, NEW lo, NEW hi, Drawn(t, lo, hi), NEW ws \in Workspaces,
           NEW s \in Rect, NEW rcp \in Errors
    PROVE  LET rect == RectsBelow(t, ws, s, rcp)
           IN  HandedDown(t, ws, Xs(rect), Ws(rect)) /\ HandedDown(t, ws, Ys(rect), Hs(rect))
<1> DEFINE rect == RectsBelow(t, ws, s, rcp)
           B == Below(t, ws)
<1>1. rect \in [B -> Rect]  BY RectsAre
<1> HIDE DEF rect
<1>2. \A n \in B : /\ rect[n] \in Rect
                   /\ Xs(rect)[n] = rect[n].x /\ Ws(rect)[n] = rect[n].w
                   /\ Ys(rect)[n] = rect[n].y /\ Hs(rect)[n] = rect[n].h
  BY <1>1 DEF Xs, Ys, Ws, Hs
<1>3. \A n \in B : /\ Xs(rect)[n] \in Int /\ Ws(rect)[n] \in Int
                   /\ Ys(rect)[n] \in Int /\ Hs(rect)[n] \in Int
  BY <1>2 DEF Rect
<1>4. ASSUME NEW p \in B \cap Layouts
      PROVE  LET k == t.kids[p]
                 Alike(pos, size) == \A i \in 1..Len(k) :
                                       pos[k[i]] = pos[p] /\ size[k[i]] = size[p]
                 Row(pos, size, e) == LET f == Share(size[p], Len(k), e)
                                      IN  \A i \in 1..Len(k) :
                                             /\ size[k[i]] = f
                                             /\ pos[k[i]] = pos[p] + (i - 1) * f
             IN  /\ Alike(Xs(rect), Ws(rect)) \/ \E e \in -3..3 : Row(Xs(rect), Ws(rect), e)
                 /\ Alike(Ys(rect), Hs(rect)) \/ \E e \in -3..3 : Row(Ys(rect), Hs(rect), e)
  <2> DEFINE k == t.kids[p]
             e == rcp[Len(k)]
  <2>1. \A i \in 1..Len(k) :
           /\ k[i] \in B /\ e \in -3..3
           /\ rect[k[i]] = ChildRect(t.type[p], rect[p], i, Len(k), e)
    BY ChildHas DEF rect
  <2>2. rect[p] \in Rect /\ p \in B  BY <1>2
  <2>0. Len(k) \in 1..Len(k)
    <3>1. t \in Tree /\ Shaped(t, t.live) /\ Linked(t) /\ p \in Parents  BY DrawnTree DEF Parents
    <3>2. p \in t.live
      <4>1. p \in Items /\ t.parent[p] # Nil  BY HangsBelow, KindsAssumption
      <4> QED  BY <4>1, <3>1 DEF Linked
    <3>3. k # <<>>  BY <3>1, <3>2 DEF Shaped, Full
    <3>4. Len(k) \in Nat /\ Len(k) # 0  BY <3>1, <3>3, KidsAreLists
    <3>5. \A j \in Nat : j # 0 => j \in 1..j  OBVIOUS
    <3> QED  BY <3>4, <3>5
  <2>3. e \in -3..3  BY <2>0, <2>1
  <2> HIDE DEF e, k
  <2>4. ASSUME NEW i \in 1..Len(k)
        PROVE  IF t.type[p] = "Horizontal"
               THEN /\ Xs(rect)[k[i]] = Xs(rect)[p] + (i - 1) * Share(Ws(rect)[p], Len(k), e)
                    /\ Ws(rect)[k[i]] = Share(Ws(rect)[p], Len(k), e)
                    /\ Ys(rect)[k[i]] = Ys(rect)[p] /\ Hs(rect)[k[i]] = Hs(rect)[p]
               ELSE /\ Ys(rect)[k[i]] = Ys(rect)[p] + (i - 1) * Share(Hs(rect)[p], Len(k), e)
                    /\ Hs(rect)[k[i]] = Share(Hs(rect)[p], Len(k), e)
                    /\ Xs(rect)[k[i]] = Xs(rect)[p] /\ Ws(rect)[k[i]] = Ws(rect)[p]
    <3>1. k[i] \in B /\ rect[k[i]] = ChildRect(t.type[p], rect[p], i, Len(k), e)  BY <2>1
    <3> DEFINE r == rect[p]
               f == Share(r.w, Len(k), e)
               g == Share(r.h, Len(k), e)
               c == rect[k[i]]
    <3>2. IF t.type[p] = "Horizontal"
          THEN c.x = r.x + (i - 1) * f /\ c.w = f /\ c.y = r.y /\ c.h = r.h
          ELSE c.y = r.y + (i - 1) * g /\ c.h = g /\ c.x = r.x /\ c.w = r.w
      <4> DEFINE d == ChildRect(t.type[p], r, i, Len(k), e)
      <4>1. r \in Rect  BY <2>2
      <4> HIDE DEF r
      <4>2. IF t.type[p] = "Horizontal"
            THEN d.x = r.x + (i - 1) * f /\ d.w = f /\ d.y = r.y /\ d.h = r.h
            ELSE d.y = r.y + (i - 1) * g /\ d.h = g /\ d.x = r.x /\ d.w = r.w
        BY <4>1, ChildAxes
      <4>3. c = d  BY <3>1 DEF r
      <4> QED  BY <4>2, <4>3
    <3>3. /\ Xs(rect)[p] = r.x /\ Ws(rect)[p] = r.w /\ Ys(rect)[p] = r.y /\ Hs(rect)[p] = r.h
          /\ Xs(rect)[k[i]] = c.x /\ Ws(rect)[k[i]] = c.w
          /\ Ys(rect)[k[i]] = c.y /\ Hs(rect)[k[i]] = c.h
      BY <3>1, <2>2, <1>2
    <3> HIDE DEF c, r
    <3> QED  BY <3>2, <3>3
  <2>5. CASE t.type[p] = "Horizontal"  BY <2>3, <2>4, <2>5, Zenon DEF k
  <2>6. CASE t.type[p] # "Horizontal"  BY <2>3, <2>4, <2>6, Zenon DEF k
  <2> QED  BY <2>5, <2>6
<1>5. HandedDown(t, ws, Xs(rect), Ws(rect))  BY <1>3, <1>4, Zenon DEF HandedDown
<1>6. HandedDown(t, ws, Ys(rect), Hs(rect))  BY <1>3, <1>4, Zenon DEF HandedDown
<1> QED  BY <1>5, <1>6 DEF rect

-----------------------------------------------------------------------------
(* The windows of a workspace on a monitor with room for them.              *)

\* A monitor with room for m windows.
Spacious(s, m) == AmpleFor(s.w - 2 * GapSize, m) /\ AmpleFor(s.h - 2 * GapSize, m)

\* A size that is more than the gaps is not cut off when they are taken.
LEMMA SizeFits == \A x \in Int : 2 * GapSize < x /\ x <= MaxSize
                     => (x - 2 * GapSize) % (MaxSize + 1) = x - 2 * GapSize
<1>1. \A y \in Int : 0 <= y /\ y <= 65535 => y % 65536 = y  OBVIOUS
<1>2. \A x \in Int : 8 < x /\ x <= 65535 => x - 8 \in Int /\ 0 <= x - 8 /\ x - 8 <= 65535
  OBVIOUS
<1>3. 2 * GapSize = 8 /\ MaxSize = 65535 /\ MaxSize + 1 = 65536  BY DEF GapSize, MaxSize
<1>4. \A x \in Int : 8 < x /\ x <= 65535 => (x - 8) % 65536 = x - 8  BY <1>1, <1>2
<1> QED  BY <1>3, <1>4

\* Such sizes reach the X server as they are.
LEMMA ConfiguredIs ==
    ASSUME NEW r \in Rect, 2 * GapSize < r.w, r.w <= MaxSize, 2 * GapSize < r.h, r.h <= MaxSize
    PROVE  LET c == Configured(r)
           IN  /\ c.x = r.x + GapSize /\ c.y = r.y + GapSize
               /\ c.w = r.w - 2 * GapSize /\ c.h = r.h - 2 * GapSize
<1>1. r.x \in Int /\ r.y \in Int /\ r.w \in Int /\ r.h \in Int  BY DEF Rect
<1> DEFINE w == r.w - 2 * GapSize
           h == r.h - 2 * GapSize
           x == r.x + GapSize
           y == r.y + GapSize
           v == Inset(r).w % (MaxSize + 1)
           g == Inset(r).h % (MaxSize + 1)
<1>2. w % (MaxSize + 1) = w /\ h % (MaxSize + 1) = h  BY <1>1, SizeFits
<1>3. Inset(r) = [x |-> x, y |-> y, w |-> w, h |-> h]  BY DEF Inset
<1>4. Configured(r) = [Inset(r) EXCEPT !.w = v, !.h = g]  BY DEF Configured
<1>5. Inset(r).w = w /\ Inset(r).h = h  BY <1>3
<1>6. v = w /\ g = h  BY <1>2, <1>5
<1> HIDE DEF w, h, x, y, v, g
<1>7. Configured(r).x = x /\ Configured(r).y = y /\ Configured(r).w = w /\ Configured(r).h = h
  BY <1>3, <1>4, <1>6
<1> QED  BY <1>7 DEF w, h, x, y

\* Of two children of a row the first ends before the other begins.
LEMMA RowInOrder ==
    ASSUME NEW x \in Int, NEW f \in Nat, NEW k \in Nat, NEW i \in 1..k, NEW j \in 1..k, i < j
    PROVE  (x + (i - 1) * f) + f <= x + (j - 1) * f
<1>1. j - i - 1 \in Nat /\ i - 1 \in Nat /\ j - 1 \in Nat  OBVIOUS
<1>2. (j - i - 1) * f \in Nat /\ (i - 1) * f \in Nat /\ (j - 1) * f \in Nat  BY <1>1
<1>3. (j - i - 1) * f = (j - 1) * f - (i - 1) * f - f  OBVIOUS
<1> QED  BY <1>2, <1>3

\* The gaps of both cover what the first of two ends beyond its place.
LEMMA GapsCover ==
    ASSUME NEW x \in Int, NEW w \in Int, NEW a \in Int, NEW b \in Int, NEW c \in Int, NEW y \in Int,
           x + w <= a + b + 8, a + b <= c, c <= y
    PROVE  (x + 4) + (w - 8) <= y + 4
OBVIOUS

\* What has room for a window and its gaps has a size.
LEMMA RoomIsNat ==
    ASSUME NEW x \in Int, NEW w \in Nat, NEW a \in Int, NEW b \in Int,
           a <= x, x + w <= a + b + 8, 8 < w
    PROVE  b \in Nat
OBVIOUS

\* Whatever the tree of a workspace looks like, its windows have a size, lie on the
\* monitor and do not cover each other, when the monitor has room for that many.
LEMMA FewWindowsFit ==
    ASSUME NEW t, NEW lo, NEW hi, Drawn(t, lo, hi), NEW ws \in Workspaces,
           NEW s \in Rect, NEW rcp \in Errors,
           Spacious(s, Cardinality(WindowsOf(t, ws)))
    PROVE  LET shown == OnScreen(t, ws, s, rcp)
           IN  /\ \A w \in DOMAIN shown : /\ shown[w].w >= 1 /\ shown[w].h >= 1
                                          /\ Within(shown[w], s)
               /\ \A v, w \in DOMAIN shown : v # w => Apart(shown[v], shown[w])
<1> DEFINE rect == RectsBelow(t, ws, s, rcp)
           shown == OnScreen(t, ws, s, rcp)
           B == Below(t, ws)
           V == WindowsOf(t, ws)
           top == t.kids[ws][1]
           X == Xs(rect)
           Y == Ys(rect)
           W == Ws(rect)
           H == Hs(rect)
<1>1. shown = [w \in V |-> Configured(rect[w])]  BY DEF OnScreen
<1>2. V \subseteq B /\ V \subseteq Windows  BY DEF WindowsOf
<1>3. rect \in [B -> Rect]  BY RectsAre
<1>4. HandedDown(t, ws, X, W) /\ HandedDown(t, ws, Y, H)  BY AxesLaid
<1> HIDE DEF rect, shown
<1>5. \A n \in B : rect[n] \in Rect /\ X[n] = rect[n].x /\ Y[n] = rect[n].y
                   /\ W[n] = rect[n].w /\ H[n] = rect[n].h
  BY <1>3 DEF Xs, Ys, Ws, Hs
<1> HIDE DEF X, Y, W, H
<1>6. CASE V = {}  BY <1>1, <1>6 DEF shown
<1>7. CASE V # {}
  <2>1. B # {}  BY <1>2, <1>7
  <2>2. /\ Elements(t.kids[ws]) = {top} /\ top \in Layouts /\ top \in B
        /\ \A n \in B : n = top \/ n \in Below(t, top)
    BY <2>1, BelowTop
  <2>3. t \in Tree /\ Linked(t) /\ Acyclic(t) /\ ws \in Parents /\ t.parent[top] = ws
    BY <2>2, DrawnTree DEF Parents
  <2> HIDE DEF top
  <2>4. Weight(t, top) = Cardinality(V)
    <3>1. top \notin Windows /\ top \in Parents  BY <2>2, KindsAssumption DEF Parents
    <3>2. Below(t, top) \subseteq B  BY <2>2, <2>3, <3>1, BelowBelow DEF Over
    <3>3. Leaves(t, top) = V  BY <2>2, <3>1, <3>2 DEF Leaves, WindowsOf
    <3> QED  BY <3>3 DEF Weight
  <2>5. /\ X[top] = s.x + GapSize /\ W[top] = s.w - 2 * GapSize
        /\ Y[top] = s.y + GapSize /\ H[top] = s.h - 2 * GapSize
    <3>1. rect[top] = Inset(s)  BY <2>2, <2>3, RectsAre DEF rect, RectOf
    <3> QED  BY <3>1, <1>5, <2>2 DEF Inset
  <2>6. AmpleFor(W[top], Weight(t, top)) /\ AmpleFor(H[top], Weight(t, top))
    BY <2>4, <2>5 DEF Spacious
  <2>7. ASSUME NEW a \in B, NEW w \in Windows, Holds(t, a, w)
        PROVE  /\ X[a] \in Int /\ W[a] \in Int /\ X[w] \in Int
               /\ X[a] <= X[w] /\ X[w] + W[w] <= X[a] + W[a] + 2 * GapSize
               /\ W[w] \in Nat /\ 2 * GapSize < W[w] /\ W[w] <= MaxSize
               /\ Y[a] \in Int /\ H[a] \in Int /\ Y[w] \in Int
               /\ Y[a] <= Y[w] /\ Y[w] + H[w] <= Y[a] + H[a] + 2 * GapSize
               /\ H[w] \in Nat /\ 2 * GapSize < H[w] /\ H[w] <= MaxSize
    <3>1. /\ AmpleFor(W[t.kids[ws][1]], Weight(t, t.kids[ws][1]))
          /\ AmpleFor(H[t.kids[ws][1]], Weight(t, t.kids[ws][1]))
      BY <2>6 DEF top
    <3> HIDE DEF B
    <3>2. /\ X[a] \in Int /\ W[a] \in Int /\ X[w] \in Int
          /\ X[a] <= X[w] /\ X[w] + W[w] <= X[a] + W[a] + 2 * GapSize
          /\ W[w] \in Nat /\ 2 * GapSize < W[w] /\ W[w] <= MaxSize
      BY <1>4, <2>1, <2>7, <3>1, WindowFits, Zenon DEF B
    <3>3. /\ Y[a] \in Int /\ H[a] \in Int /\ Y[w] \in Int
          /\ Y[a] <= Y[w] /\ Y[w] + H[w] <= Y[a] + H[a] + 2 * GapSize
          /\ H[w] \in Nat /\ 2 * GapSize < H[w] /\ H[w] <= MaxSize
      BY <1>4, <2>1, <2>7, <3>1, WindowFits, Zenon DEF B
    <3> QED  BY <3>2, <3>3
  <2>8. ASSUME NEW w \in V
        PROVE  /\ shown[w].x = X[w] + 4 /\ shown[w].w = W[w] - 8
               /\ shown[w].y = Y[w] + 4 /\ shown[w].h = H[w] - 8
    <3>1. 2 * GapSize < W[w] /\ W[w] <= MaxSize /\ 2 * GapSize < H[w] /\ H[w] <= MaxSize
      BY <1>2, <2>7 DEF Holds
    <3>2. w \in B /\ rect[w] \in Rect /\ X[w] = rect[w].x /\ Y[w] = rect[w].y
          /\ W[w] = rect[w].w /\ H[w] = rect[w].h
      BY <1>2, <1>5
    <3>3. shown[w] = Configured(rect[w])  BY <1>1
    <3>4. /\ Configured(rect[w]).x = rect[w].x + GapSize
          /\ Configured(rect[w]).y = rect[w].y + GapSize
          /\ Configured(rect[w]).w = rect[w].w - 2 * GapSize
          /\ Configured(rect[w]).h = rect[w].h - 2 * GapSize
      BY <3>1, <3>2, ConfiguredIs
    <3> QED  BY <3>2, <3>3, <3>4 DEF GapSize
  <2>9. ASSUME NEW w \in DOMAIN shown
        PROVE  shown[w].w >= 1 /\ shown[w].h >= 1 /\ Within(shown[w], s)
    <3>1. w \in V /\ w \in B /\ w \in Windows  BY <1>1, <1>2
    <3>2. Holds(t, top, w)  BY <2>2, <3>1 DEF Holds
    <3>3. /\ X[top] \in Int /\ W[top] \in Int /\ X[w] \in Int
          /\ X[top] <= X[w] /\ X[w] + W[w] <= X[top] + W[top] + 8
          /\ W[w] \in Nat /\ 8 < W[w]
          /\ Y[top] \in Int /\ H[top] \in Int /\ Y[w] \in Int
          /\ Y[top] <= Y[w] /\ Y[w] + H[w] <= Y[top] + H[top] + 8
          /\ H[w] \in Nat /\ 8 < H[w]
      BY <2>2, <2>7, <3>1, <3>2 DEF GapSize
    <3>4. /\ X[top] = s.x + 4 /\ W[top] = s.w - 8
          /\ Y[top] = s.y + 4 /\ H[top] = s.h - 8
      BY <2>5 DEF GapSize
    <3>5. s.x \in Int /\ s.y \in Int /\ s.w \in Int /\ s.h \in Int  BY DEF Rect
    <3>6. /\ shown[w].x = X[w] + 4 /\ shown[w].w = W[w] - 8
          /\ shown[w].y = Y[w] + 4 /\ shown[w].h = H[w] - 8
      BY <2>8, <3>1
    <3>7. shown[w].w >= 1 /\ shown[w].h >= 1  BY <3>3, <3>6
    <3>8. shown[w].x >= s.x /\ shown[w].x + shown[w].w <= s.x + s.w  BY <3>3, <3>4, <3>5, <3>6
    <3>9. shown[w].y >= s.y /\ shown[w].y + shown[w].h <= s.y + s.h  BY <3>3, <3>4, <3>5, <3>6
    <3> QED  BY <3>7, <3>8, <3>9 DEF Within
  \* The first of two windows, in a child of a row that comes before the other's.
  <2>10. ASSUME NEW v \in V, NEW w \in V, NEW p \in B \cap Layouts,
                NEW i \in 1..Len(t.kids[p]), NEW j \in 1..Len(t.kids[p]), i < j,
                Holds(t, t.kids[p][i], v), Holds(t, t.kids[p][j], w)
         PROVE  Before(shown[v], shown[w])
    <3> DEFINE a == t.kids[p][i]
               b == t.kids[p][j]
               k == Len(t.kids[p])
               e == rcp[k]
    <3>1. /\ a \in B /\ b \in B /\ e \in -3..3 /\ k \in Nat \ {0}
          /\ rect[a] = ChildRect(t.type[p], rect[p], i, k, e)
          /\ rect[b] = ChildRect(t.type[p], rect[p], j, k, e)
      BY ChildHas DEF rect
    <3>2. rect[p] \in Rect  BY <1>5
    <3>3. Holds(t, a, v) /\ Holds(t, b, w)  BY <2>10
    <3> HIDE DEF a, b, k, e
    <3>4. /\ X[v] \in Int /\ W[v] \in Int /\ X[w] \in Int /\ X[a] \in Int /\ W[a] \in Nat
          /\ X[v] + W[v] <= X[a] + W[a] + 8 /\ X[b] <= X[w] /\ X[b] \in Int
          /\ Y[v] \in Int /\ H[v] \in Int /\ Y[w] \in Int /\ Y[a] \in Int /\ H[a] \in Nat
          /\ Y[v] + H[v] <= Y[a] + H[a] + 8 /\ Y[b] <= Y[w] /\ Y[b] \in Int
      <4>1. v \in Windows /\ w \in Windows  BY <1>2
      <4>2. 2 * GapSize = 8  BY DEF GapSize
      <4>3. /\ X[a] \in Int /\ W[a] \in Int /\ X[v] \in Int
            /\ X[a] <= X[v] /\ X[v] + W[v] <= X[a] + W[a] + 8
            /\ W[v] \in Nat /\ 8 < W[v]
            /\ Y[a] \in Int /\ H[a] \in Int /\ Y[v] \in Int
            /\ Y[a] <= Y[v] /\ Y[v] + H[v] <= Y[a] + H[a] + 8
            /\ H[v] \in Nat /\ 8 < H[v]
        BY <4>1, <4>2, <3>1, <3>3, <2>7, Zenon
      <4>4. /\ X[b] \in Int /\ X[w] \in Int /\ X[b] <= X[w]
            /\ Y[b] \in Int /\ Y[w] \in Int /\ Y[b] <= Y[w]
        BY <4>1, <3>1, <3>3, <2>7, Zenon
      <4>5. W[a] \in Nat /\ H[a] \in Nat  BY <4>3, RoomIsNat
      <4>6. W[v] \in Int /\ H[v] \in Int  BY <4>3
      <4> QED  BY <4>3, <4>4, <4>5, <4>6, Zenon
    <3>5. X[a] + W[a] <= X[b] \/ Y[a] + H[a] <= Y[b]
      <4>1. /\ X[a] = rect[a].x /\ W[a] = rect[a].w /\ X[b] = rect[b].x
            /\ Y[a] = rect[a].y /\ H[a] = rect[a].h /\ Y[b] = rect[b].y
        BY <1>5, <3>1
      <4> DEFINE r == rect[p]
                 f == Share(r.w, k, e)
                 g == Share(r.h, k, e)
      <4>2. r.x \in Int /\ r.y \in Int /\ r.w \in Int /\ r.h \in Int  BY <3>2 DEF Rect
      <4>4. CASE t.type[p] = "Horizontal"
        <5>1. /\ rect[a].x = r.x + (i - 1) * f /\ rect[a].w = f
              /\ rect[b].x = r.x + (j - 1) * f
          BY <4>4, <3>1, <3>2, ChildAxes
        <5>2. f \in Nat /\ k \in Nat  BY <3>1, <3>4, <4>1, <5>1
        <5> HIDE DEF f
        <5>3. (r.x + (i - 1) * f) + f <= r.x + (j - 1) * f
          <6>1. i \in 1..k /\ j \in 1..k  BY DEF k
          <6> HIDE DEF r
          <6> QED  BY <6>1, <5>2, <4>2, <2>10, RowInOrder
        <5> QED  BY <5>1, <5>3, <4>1
      <4>5. CASE t.type[p] # "Horizontal"
        <5>1. /\ rect[a].y = r.y + (i - 1) * g /\ rect[a].h = g
              /\ rect[b].y = r.y + (j - 1) * g
          BY <4>5, <3>1, <3>2, ChildAxes
        <5>2. g \in Nat /\ k \in Nat  BY <3>1, <3>4, <4>1, <5>1
        <5> HIDE DEF g
        <5>3. (r.y + (i - 1) * g) + g <= r.y + (j - 1) * g
          <6>1. i \in 1..k /\ j \in 1..k  BY DEF k
          <6> HIDE DEF r
          <6> QED  BY <6>1, <5>2, <4>2, <2>10, RowInOrder
        <5> QED  BY <5>1, <5>3, <4>1
      <4> QED  BY <4>4, <4>5
    <3>6. /\ shown[v].x = X[v] + 4 /\ shown[v].w = W[v] - 8 /\ shown[w].x = X[w] + 4
          /\ shown[v].y = Y[v] + 4 /\ shown[v].h = H[v] - 8 /\ shown[w].y = Y[w] + 4
      BY <2>8
    <3>7. shown[v].x + shown[v].w <= shown[w].x \/ shown[v].y + shown[v].h <= shown[w].y
      <4>0. W[a] \in Int /\ H[a] \in Int  BY <3>4
      <4>1. CASE X[a] + W[a] <= X[b]
        <5>1. (X[v] + 4) + (W[v] - 8) <= X[w] + 4  BY <3>4, <4>0, <4>1, GapsCover, Zenon
        <5> QED  BY <5>1, <3>6
      <4>2. CASE Y[a] + H[a] <= Y[b]
        <5>1. (Y[v] + 4) + (H[v] - 8) <= Y[w] + 4  BY <3>4, <4>0, <4>2, GapsCover, Zenon
        <5> QED  BY <5>1, <3>6
      <4> QED  BY <4>1, <4>2, <3>5
    <3> QED  BY <3>7 DEF Before
  <2>11. ASSUME NEW v \in V, NEW w \in V, v # w  PROVE Apart(shown[v], shown[w])
    <3>1. PICK p \in B \cap Layouts : \E i, j \in 1..Len(t.kids[p]) :
             i # j /\ Holds(t, t.kids[p][i], v) /\ Holds(t, t.kids[p][j], w)
      BY <2>11, Separated
    <3>2. PICK i \in 1..Len(t.kids[p]), j \in 1..Len(t.kids[p]) :
             i # j /\ Holds(t, t.kids[p][i], v) /\ Holds(t, t.kids[p][j], w)
      BY <3>1
    <3>3. i < j \/ j < i  BY <3>2
    <3>4. Before(shown[v], shown[w]) \/ Before(shown[w], shown[v])  BY <3>2, <3>3, <2>10
    <3> QED  BY <3>4 DEF Apart
  <2>12. DOMAIN shown = V  BY <1>1
  <2> HIDE DEF V
  <2> QED  BY <2>9, <2>11, <2>12 DEF shown
<1> QED  BY <1>6, <1>7

\* On every monitor that has room for them.
WhereThereIsRoom(t) ==
    \A ws \in Workspaces, s \in Screens, rcp \in Reciprocals :
        Spacious(s, Cardinality(WindowsOf(t, ws))) =>
            LET shown == OnScreen(t, ws, s, rcp)
            IN  /\ \A w \in DOMAIN shown : /\ shown[w].w >= 1 /\ shown[w].h >= 1
                                           /\ Within(shown[w], s)
                /\ \A v, w \in DOMAIN shown : v # w => Apart(shown[v], shown[w])

\* A tree whose windows are in order is drawn so.
LEMMA TreesFit ==
    ASSUME NEW t, TreeInv(t), Ordered(t)
    PROVE  WhereThereIsRoom(t)
<1>1. PICK lo, hi : Drawn(t, lo, hi)  BY DEF Ordered, Drawn
<1>2. Screens \subseteq Rect /\ Reciprocals \subseteq Errors  BY ScreensAssumption DEF Errors
<1> SUFFICES ASSUME NEW ws \in Workspaces, NEW s \in Screens, NEW rcp \in Reciprocals,
                    Spacious(s, Cardinality(WindowsOf(t, ws)))
             PROVE  LET shown == OnScreen(t, ws, s, rcp)
                    IN  /\ \A w \in DOMAIN shown : /\ shown[w].w >= 1 /\ shown[w].h >= 1
                                                   /\ Within(shown[w], s)
                        /\ \A v, w \in DOMAIN shown : v # w => Apart(shown[v], shown[w])
  BY DEF WhereThereIsRoom
<1>3. s \in Rect /\ rcp \in Errors  BY <1>2
<1> QED  BY <1>1, <1>3, FewWindowsFit

\* Room for all windows is room for those of a workspace.
LEMMA RoomForSome ==
    ASSUME NEW t, NEW ws, NEW s \in Rect, Spacious(s, Cardinality(Windows)),
           WindowsOf(t, ws) # {}
    PROVE  Spacious(s, Cardinality(WindowsOf(t, ws)))
<1> DEFINE V == WindowsOf(t, ws)
           k == Cardinality(V)
           m == Cardinality(Windows)
<1>1. V \subseteq Windows  BY DEF WindowsOf
<1>2. IsFiniteSet(V) /\ k <= m
  <2> HIDE DEF V
  <2> QED  BY <1>1, PoolAssumption, FS_Subset
<1>3. k \in Nat /\ k # 0
  <2>1. V # {}  OBVIOUS
  <2> HIDE DEF V
  <2>2. Cardinality(V) \in Nat  BY <1>2, FS_CardinalityType
  <2>3. Cardinality(V) # 0  BY <1>2, <2>1, FS_EmptySet
  <2> QED  BY <2>2, <2>3
<1>4. s.w - 2 * GapSize \in Int /\ s.h - 2 * GapSize \in Int  BY DEF Rect, GapSize
<1>5. AmpleFor(s.w - 2 * GapSize, m) /\ AmpleFor(s.h - 2 * GapSize, m)  BY DEF Spacious
<1> HIDE DEF k, m
<1>6. 1 <= k  BY <1>3
<1>7. AmpleFor(s.w - 2 * GapSize, k) /\ AmpleFor(s.h - 2 * GapSize, k)
  BY <1>2, <1>3, <1>4, <1>5, <1>6, RoomForFewer
<1> QED  BY <1>7 DEF Spacious, k

\* As long as a workspace has no more windows than there is room for on a monitor, however
\* they are nested and whatever the error of the reciprocal, all of them have a size
\* and lie on the monitor, and none covers another.
THEOREM FewWindowsAlwaysFit == Spec => []WhereThereIsRoom(tree)
<1>1. OrderInv => WhereThereIsRoom(tree)  BY TreesFit DEF OrderInv
<1> QED  BY <1>1, OrderInductive, PTL

\* No window covers another on any monitor that has room for all windows there may be.
THEOREM WindowsAlwaysApart ==
    ASSUME \A s \in Screens : Spacious(s, Cardinality(Windows))
    PROVE  Spec => []WindowsApart
<1>1. WhereThereIsRoom(tree) => WindowsApart
  <2> SUFFICES ASSUME WhereThereIsRoom(tree),
                      NEW ws \in Workspaces, NEW s \in Screens, NEW rcp \in Reciprocals,
                      NEW v \in DOMAIN OnScreen(tree, ws, s, rcp),
                      NEW w \in DOMAIN OnScreen(tree, ws, s, rcp), v # w
               PROVE  Apart(OnScreen(tree, ws, s, rcp)[v], OnScreen(tree, ws, s, rcp)[w])
    BY DEF WindowsApart
  <2>1. WindowsOf(tree, ws) # {}  BY DEF OnScreen
  <2>2. s \in Rect  BY ScreensAssumption
  <2>3. Spacious(s, Cardinality(WindowsOf(tree, ws)))  BY <2>1, <2>2, RoomForSome
  <2> QED  BY <2>3 DEF WhereThereIsRoom
<1> QED  BY <1>1, FewWindowsAlwaysFit, PTL

\* The windows are drawn whole on whatever monitor the start finds first, when each
\* that it may find has room for all windows there may be.
THEOREM AlwaysOnMonitor ==
    ASSUME \A s \in Screens : Spacious(s, Cardinality(Windows))
    PROVE  ScreenSpec => []WindowsOnMonitor
<1>1. ScreenInit => Init  BY DEF ScreenInit
<1>2. [ScreenNext]_screenVars => [Next]_tree  BY DEF ScreenNext, Arrange, screenVars
<1>3. WhereThereIsRoom(tree) /\ AlwaysAMonitor => WindowsOnMonitor
  <2> SUFFICES ASSUME WhereThereIsRoom(tree), AlwaysAMonitor, phase = "ready",
                      NEW ws \in Workspaces, NEW rcp \in Reciprocals,
                      NEW w \in DOMAIN OnScreen(tree, ws, monitors[0], rcp)
               PROVE  LET rect == OnScreen(tree, ws, monitors[0], rcp)
                      IN  /\ rect[w].w >= 1 /\ rect[w].h >= 1
                          /\ Within(rect[w], monitors[0])
    BY DEF WindowsOnMonitor
  <2>1. WindowsOf(tree, ws) # {}  BY DEF OnScreen
  <2>2. monitors[0] \in Screens
    <3>1. PICK n \in 1..(MaxHeads + 1) : monitors \in [0..(n - 1) -> Heads \cup {DefaultHead}]
      BY DEF AlwaysAMonitor
    <3>2. 0 \in 0..(n - 1)  BY HeadsAssumption
    <3>3. monitors[0] \in Heads \cup {DefaultHead}  BY <3>1, <3>2
    <3> QED  BY <3>3, OnScreensAssumption
  <2>3. monitors[0] \in Rect /\ Spacious(monitors[0], Cardinality(Windows))
    BY <2>2, ScreensAssumption
  <2>4. Spacious(monitors[0], Cardinality(WindowsOf(tree, ws)))  BY <2>1, <2>3, RoomForSome
  <2> QED  BY <2>2, <2>4 DEF WhereThereIsRoom
<1> QED  BY <1>1, <1>2, <1>3, FewWindowsAlwaysFit, StartFindsAMonitor, PTL DEF ScreenSpec, Spec
=============================================================================
