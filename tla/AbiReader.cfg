\* Chunks of three bytes with eight values; lengths and offsets of two bytes.
CONSTANTS
    ChunkSize = 3
    Base = 8
    WordSize = 2
    MaxAlloc = 31
    Params <- MCParams
SPECIFICATION Spec
INVARIANTS
    EncodedIsReadBack
    ReadOnlyAsEncoded
CHECK_DEADLOCK FALSE
