SPECIFICATION FairSpec
CONSTANTS
    Requests = {1, 2}
    MaxConnections = 2
    CountMax = 1
    MaxFlight = 2
INVARIANTS OwnReply CalledOnce PatientKeepalive ForwardKnown
PROPERTY EventuallyCalled
CHECK_DEADLOCK FALSE
