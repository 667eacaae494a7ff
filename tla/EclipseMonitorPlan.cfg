\* Every operation of the interface, with plans made early, late, or for
\* another start, including those that wrap around the modulus, which the size
\* of a checkpoint does not divide.
CONSTANTS
    ChkptSize = 3
    Header <- MainChain
    NoNode = NoNode
    NoHash = NoHash
    ExpectedDiff <- MCExpectedDiff
    Modulus = 16
    LatestNums = {0, 5, 8, 11}
    StartNums = {0, 1, 10}
    UserCalls = {"RefreshBootstrapPlan", "EndBootstrapI", "RefreshSyncMsg", "EndSync"}
    MaxNodes = 2
SPECIFICATION Spec
INVARIANTS
    PlanEndsOnWindow
    PlanLeavesTwoWindows
CHECK_DEADLOCK FALSE
