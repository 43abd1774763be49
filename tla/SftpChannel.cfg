SPECIFICATION FairSpec
CONSTANTS
    MaxWindow = 5
    PacketSize = 3
    InitWindow = 4
    Base = 2
    LenBytes = 3
    MaxPktLen = 2
    Sizes = {1, 2, 3, 5}
    MaxPackets = 5
INVARIANT WholePackets
PROPERTY AllDelivered
CHECK_DEADLOCK FALSE
