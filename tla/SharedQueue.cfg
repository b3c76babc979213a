CONSTANTS
    s1 = s1
    s2 = s2
    Sweepers = {s1, s2}
    MaxRows = 3
    MaxRetry = 1
    SweepLimit = 2
    MaxFaults = 2
SPECIFICATION ReachableSpec
SYMMETRY Symmetry
INVARIANTS BudgetForEndpoint
