SPECIFICATION FairSpec
CONSTANTS
    MaxWindow = 4
    PacketSize = 2
    MaxWrite = 5
    MaxBytes = 8
INVARIANTS CreditConserved BoundedBuffer NoTruncation
PROPERTY WritesComplete
CHECK_DEADLOCK FALSE
