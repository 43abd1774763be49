SPECIFICATION FairSpec
CONSTANTS
    Streams = {s1, s2}
    FileSize = 4
    HighWaterMarks = {4, 6}
    Ends = {2,4}
    Align = 2
    kMinPoolSpace = 2
    MaxDataLen = 2
    MaxPools = 2
    ChunkLength = 3
    MaxWrites = 3
INVARIANTS RegionsDisjoint DeliveredIntact WrittenInOrder
PROPERTY HandleClosed
CHECK_DEADLOCK FALSE
