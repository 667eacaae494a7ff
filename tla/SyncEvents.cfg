\* Two checking threads and a refreshing one; freed addresses are not reused.
CONSTANTS
    Checker = {c1, c2}
    Refresher = {r1}
    Address = {1, 2}
    AddressReuse = FALSE
    NoThread = NoThread
    NoState = NoState
    MaxWaitTime = 1
    TimeModulus = 16
    MaxState = 2
    MaxTime = 3
    MaxCheck = 2
SPECIFICATION Spec
INVARIANTS
    SyncedByTimelyMessage
    ListensForNewestOnly
    LastStateIsListenedFor
PROPERTIES
    FoundMessageSyncs
    CallsReturn
CHECK_DEADLOCK FALSE
