------------------------------ MODULE Geometry ------------------------------
(***************************************************************************)
(* The rectangles: geometry.h, layout.cpp, workspace.cpp and the part of   *)
(* x11/window.cpp that sends them.  A rectangle is handed down the tree; a *)
(* layout gives each child the rounded quotient of its size.  The quotient *)
(* is a product with the processor's approximate reciprocal (_mm_rcp_ss),  *)
(* whose relative error is up to 1.5 * 2^-12, a different one for each     *)
(* number of children.                                                     *)
(*                                                                         *)
(* GeometryFresh (Tiling) says that no operation leaves a stored rectangle *)
(* that is not the one given here.                                         *)
(***************************************************************************)
EXTENDS Tiling, Integers

CONSTANTS Screens,       \* the rectangles a monitor may have
          Reciprocals    \* from a number of children to the error of its reciprocal, in Units

Unit    == 8192          \* 2^13: the error of _mm_rcp_ss is at most 3 of 2^13
GapSize == 4
MaxSize == 65535         \* a size is a CARD16 of the X protocol

Rect == [x : Int, y : Int, w : Int, h : Int]

ASSUME ScreensAssumption ==
    /\ \A s \in Screens : s \in Rect /\ s.w \in 1..MaxSize /\ s.h \in 1..MaxSize
    /\ \A r \in Reciprocals : r \in [1..Cardinality(Windows) -> -3..3]

\* std::round(a / b), halves away from zero.
Round(a, b) == IF a >= 0 THEN (2*a + b) \div (2*b) ELSE -((b - 2*a) \div (2*b))

ShareUp(size, n, e) == (size + n - 1) \div n + e      \* Seeded fault: rounds up, pixel by pixel.

\* f_width, f_height: what each of n children gets of a size.
Share(size, n, e) == Round((Unit + e) * size, Unit * n)

\* Seeded fault: the gap is taken from a size once.
Shifted(r) == [x |-> r.x + GapSize, y |-> r.y + GapSize, w |-> r.w - GapSize, h |-> r.h - GapSize]

\* The gap on each side: of a workspace, and of a window as it is configured.
Inset(r) == [x |-> r.x + GapSize, y |-> r.y + GapSize,
             w |-> r.w - 2 * GapSize, h |-> r.h - 2 * GapSize]

\* The rectangle of child i of n of a layout of type ty.
ChildRect(ty, r, i, n, e) ==
    IF ty = "Horizontal"
    THEN LET f == Share(r.w, n, e) IN [r EXCEPT !.x = @ + (i - 1) * f, !.w = f]
    ELSE LET f == Share(r.h, n, e) IN [r EXCEPT !.y = @ + (i - 1) * f, !.h = f]

\* The rectangles of the nodes below workspace ws of a monitor.
RectsBelow(t, ws, monitor, rcp) ==
    LET rect[n \in Below(t, ws)] ==
            LET p == t.parent[n]
                size == Len(t.kids[p])
            IN  IF p = ws THEN Inset(monitor)
                ELSE ChildRect(t.type[p], rect[p], IndexOf(t, n), size, rcp[size])
    IN  rect

\* What xcb_configure_window sends for a window: coordinates of 16 bits, sizes unsigned.
Configured(r) == LET c == Inset(r) IN [c EXCEPT !.w = @ % (MaxSize + 1), !.h = @ % (MaxSize + 1)]

\* The rectangles the windows of a workspace have on the screen.
OnScreen(t, ws, monitor, rcp) ==
    LET rect == RectsBelow(t, ws, monitor, rcp)
    IN  [w \in WindowsOf(t, ws) |-> Configured(rect[w])]

-----------------------------------------------------------------------------
Before(a, b)   == a.x + a.w <= b.x \/ a.y + a.h <= b.y
Apart(a, b)    == Before(a, b) \/ Before(b, a)
Within(a, b)   == /\ a.x >= b.x /\ a.x + a.w <= b.x + b.w
                  /\ a.y >= b.y /\ a.y + a.h <= b.y + b.h

\* No window covers another, however deep the layouts are nested: what rounding and
\* the reciprocal add to the sizes on the way down stays less than the gaps.
WindowsApart ==
    \A ws \in Workspaces, s \in Screens, rcp \in Reciprocals :
        LET rect == OnScreen(tree, ws, s, rcp)
        IN  \A w1, w2 \in DOMAIN rect : w1 # w2 => Apart(rect[w1], rect[w2])
=============================================================================
