------------------------------ MODULE MCCubewm ------------------------------
EXTENDS Cubewm

\* Windows are interchangeable; layouts are not, as Fresh chooses among them.
WindowSymmetry == Permutations(Windows)

\* Bound: one window at a time is marked or fullscreen.  All the marks at once are
\* explored by MCTiling.
Bounded ==
    Cardinality({w \in Windows : tree.mark[w] # "Floating"})
        + Cardinality({w \in Windows : wstate[w] = "Maximized"}) <= 1
=============================================================================
