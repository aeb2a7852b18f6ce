SPECIFICATION Spec
CONSTANTS
    Flows = {f1}
    Refresh = 1
    ReadTime = 1
    MaxOrders = 1
    MaxFaults = 1
    MaxCalls = 1
CHECK_DEADLOCK FALSE
INVARIANTS TypeOK SeenInTime OrdersAccounted FinalOnce
