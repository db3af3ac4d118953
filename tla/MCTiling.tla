------------------------------ MODULE MCTiling ------------------------------
EXTENDS Geometry

\* Windows are interchangeable; layouts are not, as Fresh chooses among them.
WindowSymmetry == Permutations(Windows)

\* A small laptop's screen and a large one.
MCScreens == {[x |-> 0, y |-> 0, w |-> 1366, h |-> 768], [x |-> 0, y |-> 0, w |-> 3840, h |-> 2160]}

\* The largest errors the processor's manual allows, either way.
MCReciprocals == {[n \in 1..Cardinality(Windows) |-> e] : e \in {-3, 3}}
=============================================================================
