CONSTANTS
    Windows = {w1, w2}
    Workspaces = {ws1, ws2}
    FirstWorkspace = ws1
    Nil = Nil
    Restless = {w1}
    MaxQueue = 3
    MaxIgnored = 2
SPECIFICATION ProtocolSpec
CONSTRAINT QuietBounded
INVARIANTS
    ProtocolTypeOK
    IgnoredCoversOwnUnmaps
    ServerAgrees
    PagerAgrees
PROPERTIES
    OnlyTheClientUnmanages
    RestartKeepsWindows
