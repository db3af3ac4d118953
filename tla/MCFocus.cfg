CONSTANTS
    Windows = {w1, w2, w3}
    Workspaces = {ws1, ws2, ws3}
    FirstWorkspace = ws1
    Nil = Nil
SPECIFICATION Spec
SYMMETRY DesktopSymmetry
INVARIANT FocusAssertHolds
CHECK_DEADLOCK FALSE
