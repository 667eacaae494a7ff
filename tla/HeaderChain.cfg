\* Two or three blocks around every fork, with timestamps in any order.
\* A header may be received late, and its timestamp be older than the longest
\* wait and than the cap on the reduction (9 * 5 and one or two more units).
CONSTANTS
    ParisNum = 23
    DiffModulus = 4096
    MinDiffPercent = 103
    MaxWaitTime = 36
    MinDiff = 16
    BoundDivisor = 8
    DurationLimit = 13
    MaxReduction = 5
    ExpDiffPeriod = 3
    ForkNum <- MCForkNum
    BombDelay <- MCBombDelay
    FirstHeaders <- MCFirstHeaders
    Timestamps = {0, 20, 29, 40, 90}
    MinDiffs = {0, 40}
    Clock = {1, 25, 39, 50, 70, 95}
    MaxAccepted = 2
SPECIFICATION Spec
INVARIANTS
    EstimateIsNotTooHigh
    PastExpiredCannotBeExtended
PROPERTIES
    DifficultyFollowsFormula
    DifficultyFallsSlowly
    ExpiredStaysExpired
CHECK_DEADLOCK FALSE
