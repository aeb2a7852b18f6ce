SPECIFICATION Spec
CONSTANTS
    Flows = {f1, f2}
    Refresh = 1
    ReadTime = 1
    MaxOrders = 1
    MaxFaults = 0
    MaxCalls = 0
CHECK_DEADLOCK FALSE
SYMMETRY Symmetry
INVARIANTS RefusesFromHere
