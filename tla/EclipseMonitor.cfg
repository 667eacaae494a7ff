\* Checkpoints of two headers, forks, duplicates, throwing callbacks.
CONSTANTS
    ChkptSize = 2
    Header <- MCHeader
    NoNode = NoNode
    NoHash = NoHash
    ExpectedDiff <- MCExpectedDiff
    Modulus = 16
    LatestNums = {5}
    StartNums = {}
    UserCalls = {"RefreshBootstrapPlan"}
    MaxNodes = 6
SPECIFICATION Spec
INVARIANTS
    TypeOK
    DescCountsExact
    NothingConfirmableLeft
    ReportedIsChain
    ReportedWasValidated
    TreeFollowsChain
PROPERTIES
    ConfirmsSupportedChild
    ConfirmedGetsNoChild
CHECK_DEADLOCK FALSE
