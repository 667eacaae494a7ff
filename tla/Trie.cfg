CONSTANTS
    Key <- Keys
    Receipt <- Receipts
    Value = {v1, v2}
    NoNode = NoNode
    NoValue = NoValue
SPECIFICATION TreeSpec
INVARIANTS
    RootIsCanonical
    ReceiptsAreDefined
    HashDeterminesTrie
PROPERTIES
    PlacedSpec
    MapSpec
CHECK_DEADLOCK FALSE
