CONSTANTS
    Windows = {w1, w2, w3, w4}
    Layouts = {l1, l2, l3, l4}
    Workspaces = {ws1}
    Sparse = {}
    Nil = Nil
    Screens <- MCScreens
    Reciprocals <- MCReciprocals
SPECIFICATION Spec
SYMMETRY WindowSymmetry
INVARIANT LoopsTwiceAtMost
