\* A fork discarded by a confirmation, whose look-up entries remain.
CONSTANTS
    ChkptSize = 2
    Header <- MCHeader
    NoNode = NoNode
    NoHash = NoHash
    ExpectedDiff <- MCExpectedDiff
    Modulus = 16
    LatestNums = {5}
    StartNums = {}
    UserCalls = {"RefreshBootstrapPlan"}
    MaxNodes = 6
SPECIFICATION Spec
INVARIANT NoUseAfterFree
CHECK_DEADLOCK FALSE
