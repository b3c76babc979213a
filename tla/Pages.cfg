SPECIFICATION Spec
CONSTANTS
    alice = alice
    bob = bob
    NaN = NaN
    Owners <- MCOwners
    Kinds <- MCKinds
    Requests <- MCRequests
    DefaultLimit = 1
    MaxLimit = 2
    MaxPageSize = 3
    SaneLag = 2
    MaxToken = 3
CHECK_DEADLOCK FALSE
INVARIANTS TypeOK Descending NoneSkipped Openable StatusHonest
PROPERTIES ReachesTheEnd
