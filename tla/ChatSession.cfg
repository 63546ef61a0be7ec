SPECIFICATION Spec
CONSTANTS
    Intents = {i1}
    NoIntent = NoIntent
    PageSize = 1
    FlushThreshold = 1
    MaxMessages = 20
    TrimKeep = 2
    MaxRows = 2
    MaxTaps = 1
    MaxFaults = 1
INVARIANT TypeOK
INVARIANT NoDuplicateRow
INVARIANT ToldIsReachable
PROPERTY NothingVanishes
CHECK_DEADLOCK FALSE
