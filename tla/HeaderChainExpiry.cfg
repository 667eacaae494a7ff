\* No header is stamped ahead of the clock; some are received late.
CONSTANTS
    ParisNum = 23
    DiffModulus = 4096
    MinDiffPercent = 103
    MaxWaitTime = 36
    MinDiff = 16
    BoundDivisor = 8
    DurationLimit = 13
    MaxReduction = 5
    ExpDiffPeriod = 3
    ForkNum <- MCForkNum
    BombDelay <- MCBombDelay
    FirstHeaders <- MCFirstHeaders
    Timestamps = {21, 29}
    MinDiffs = {0, 40}
    Clock = {30, 60, 95}
    MaxAccepted = 2
SPECIFICATION Spec
INVARIANT ExpiredCannotBeExtended
CHECK_DEADLOCK FALSE
