SPECIFICATION FairSpec
CONSTANTS
    Entries = 2
    Models <- MCModels
    ViewportSize = 1
    ForwardSpan = 1
    BackwardSpan = 1
    BatchSize = 2
    MaxRevision = 1
    MaxDisturbances = 1
    MaxRefreshes = 1
    Slots = 4
INVARIANT TypeOK
INVARIANT ReadOnce
 
CHECK_DEADLOCK FALSE
