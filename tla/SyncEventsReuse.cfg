\* The allocator gives a freed address out again.
CONSTANTS
    Checker = {c1, c2}
    Refresher = {r1, r2}
    Address = {1, 2}
    AddressReuse = TRUE
    NoThread = NoThread
    NoState = NoState
    MaxWaitTime = 1
    TimeModulus = 16
    MaxState = 2
    MaxTime = 2
    MaxCheck = 2
SPECIFICATION Spec
INVARIANT LastStateIsListenedFor
CHECK_DEADLOCK FALSE
