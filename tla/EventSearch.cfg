CONSTANTS
    Listener <- Listeners
    Receipt <- Receipts
    MaxReceipts = 2
    FalseReceipts <- Others
    Hash <- HashBytes
SPECIFICATION Spec
INVARIANTS
    CalledWithLogsOfBlock
    NothingIsMissed
CHECK_DEADLOCK FALSE
