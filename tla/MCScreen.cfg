CONSTANTS
    Windows = {w1, w2, w3}
    Layouts = {l1, l2, l3}
    Workspaces = {ws1, ws2}
    Sparse = {}
    Nil = Nil
    Screens <- MCScreens
    Reciprocals <- MCReciprocals
    Heads <- MCHeads
    DefaultHead <- Terminal
    Versions = {0, 1, 2, 5}
    MaxHeads = 2
SPECIFICATION ScreenSpec
SYMMETRY WindowSymmetry
INVARIANTS
    AlwaysAMonitor
    WindowsOnMonitor
    MovesInDirection
PROPERTIES
    OthersKeepOrder
