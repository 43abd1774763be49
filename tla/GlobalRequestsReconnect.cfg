SPECIFICATION Spec
CONSTANTS
    Requests = {1}
    MaxConnections = 2
    CountMax = 1
    MaxFlight = 2
INVARIANT CloseNotifies
CHECK_DEADLOCK FALSE
