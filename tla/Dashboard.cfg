\* Two overlapping requests, refreshes that may take longer than the delay.
SPECIFICATION Spec
CONSTANTS
    Requests = {r1, r2}
    FetchDelay = 1
    RequestTime = 2
    MaxTime = 7
SYMMETRY RequestSymmetry
INVARIANTS
    BoundedStaleness
CHECK_DEADLOCK FALSE
