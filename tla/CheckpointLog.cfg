\* Windows of three headers: every split between m_currWindow, m_candidate and
\* m_lastNode occurs, in one or two bootstrap windows and in later ones.
CONSTANTS
    ChkptSize = 3
    Header <- MCHeader
    NoNode = NoNode
    ParisNum = 6
    MinDiffPercent = 200
    MaxWaitTime = 4
    DiffModulus = 1024
    Uninit = Uninit
    MaxFed = 7
SPECIFICATION Spec
INVARIANTS
    CheckpointsHaveChkptSize
    CurrWindowIsLastCheckpoint
    RangeIsThatOfCheckpoint
    SecStateIsLastReported
    FedIsReportedOrCandidate
    MinDiffSetBeforeUse
    MinDiffOfLastPoWCheckpoint
PROPERTY LogSpec
CHECK_DEADLOCK FALSE
