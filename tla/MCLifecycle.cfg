CONSTANTS
    Managers = {m1, m2}
    Replacing = {m2}
    Nobody = Nobody
    CheckTimes = 2
    MaxSignals = 1
    MaxOthers = 2
SPECIFICATION LifeSpec
INVARIANTS
    LifeTypeOK
    OneManager
    HandOver
PROPERTIES
    Settles
    ClearStops
CHECK_DEADLOCK FALSE
