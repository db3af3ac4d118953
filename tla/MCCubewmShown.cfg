CONSTANTS
    Windows = {w1, w2, w3}
    Layouts = {l1, l2, l3}
    Workspaces = {ws1, ws2}
    FirstWorkspace = ws1
    Nil = Nil
SPECIFICATION CubewmSpec
SYMMETRY WindowSymmetry
INVARIANT NormalWindowInPlace
CHECK_DEADLOCK FALSE
