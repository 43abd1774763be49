SPECIFICATION FairSpec
CONSTANTS
    Width = 2
    MaxCalls = 3
    MaxPending = 2
INVARIANTS OwnAnswer CalledOnce
PROPERTY EventuallyCalledBack
CHECK_DEADLOCK FALSE
