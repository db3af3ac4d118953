CONSTANTS
    Windows = {w1, w2, w3, w4}
    Layouts = {l1, l2, l3, l4}
    Workspaces = {ws1, ws2}
    Sparse = {ws2}
    Nil = Nil
    Screens <- MCScreens
    Reciprocals <- MCReciprocals
SPECIFICATION Spec
SYMMETRY WindowSymmetry
INVARIANTS
    TypeOK
    LinksAgree
    Rooted
    OneTilingLayout
    NoHollowLayout
    GeometryFresh
    WindowsApart
