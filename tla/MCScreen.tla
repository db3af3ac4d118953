------------------------------ MODULE MCScreen ------------------------------
EXTENDS Screen

WindowSymmetry == Permutations(Windows)

\* A laptop's screen with a large one to its right; the X screen of a small terminal.
Laptop   == [x |-> 0, y |-> 0, w |-> 1366, h |-> 768]
Large    == [x |-> 1366, y |-> 0, w |-> 3840, h |-> 2160]
Terminal == [x |-> 0, y |-> 0, w |-> 640, h |-> 480]

MCHeads   == {Laptop, Large}
MCScreens == {Laptop, Large, Terminal}

\* The largest errors the processor's manual allows, either way for each number of children.
MCReciprocals == [1..Cardinality(Windows) -> {-3, 3}]
=============================================================================
