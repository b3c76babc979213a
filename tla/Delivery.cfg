CONSTANTS
    s1 = s1
    Sweepers = {s1}
    MaxRows = 3
    MaxRetry = 1
    SweepLimit = 2
    MaxFaults = 2
SPECIFICATION Spec
INVARIANTS TypeOK NoneForgotten DeliveryInv
PROPERTIES Settles
CHECK_DEADLOCK FALSE
