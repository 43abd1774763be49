SPECIFICATION FairSpec
CONSTANTS
    MaxWindow = 3
    PacketSize = 2
    MaxWrite = 3
    MaxBytes = 4
INVARIANT StreamsExactlyOnce
PROPERTY WritesComplete
CHECK_DEADLOCK FALSE
