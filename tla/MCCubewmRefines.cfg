CONSTANTS
    Windows = {w1, w2}
    Layouts = {l1, l2}
    Workspaces = {ws1, ws2}
    FirstWorkspace = ws1
    Nil = Nil
SPECIFICATION CubewmSpec
SYMMETRY WindowSymmetry
CONSTRAINT Bounded
PROPERTIES
    ImplementsTiling
CHECK_DEADLOCK FALSE
