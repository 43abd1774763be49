SPECIFICATION FairSpec
CONSTANTS
    FileSizes = {0, 1, 3, 5, 7}
    ChunkSize = 2
    Concurrency = 3
    DataLengths = {1, 2}
INVARIANTS SlotsDisjoint CopyExact LocalFileClosed
PROPERTY CalledBack
CHECK_DEADLOCK FALSE
