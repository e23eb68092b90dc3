SPECIFICATION Spec
CONSTANTS
    Base = 12
    Messages <- MCMessages
    Windows = {1, 2}
    ChunkSizes = {1, 4, 64}
    MaxMessages = 3
INVARIANTS TypeOK DecodedAsSent NoneLeftOver
CHECK_DEADLOCK FALSE
