\* Checkpoints of two headers; plans that start at block 0, 1 or 2.
CONSTANTS
    ChkptSize = 2
    Header <- MCHeader
    NoNode = NoNode
    NoHash = NoHash
    ExpectedDiff <- MCExpectedDiff
    Modulus = 16
    LatestNums = {5, 6, 7, 8, 9, 10}
    StartNums = {0, 1, 2}
    UserCalls = {}
    MaxNodes = 12
SPECIFICATION ChainSpec
PROPERTIES
    PlanIsCarriedOut
    DeepBlocksAreReported
CHECK_DEADLOCK FALSE
