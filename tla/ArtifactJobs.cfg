\* A build in two stages, an emit command and a planner that share an object; a
\* cache entry is deleted.
SPECIFICATION FairSpec
CONSTANTS
    None = None
    Keys <- MCKeys
    Objects <- MCObjects
    Builders <- Mixed
    Kind <- MixedKind
    Stages <- MixedStages
    MaxEvictions = 1
INVARIANTS JobRowsVerify SucceededIsCached ClaimedIsOwned
PROPERTIES CachedWorkKept BuildsEnd
CHECK_DEADLOCK FALSE
