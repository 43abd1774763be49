SPECIFICATION Spec
CONSTANTS
    MaxChannel = 3
    Values = {pending, channel}
INVARIANT FailsOnlyWhenFull
PROPERTY PoolSpec
