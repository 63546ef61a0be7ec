SPECIFICATION FairSpec
CONSTANTS
    d1 = d1
    Drafts = {d1}
    MaxPerMessage = 1
    Size = 3 MinChunk = 1 InitialChunk = 2 MaxChunk = 2
    MaxRuns = 2
    MaxSessions = 4
    MaxFaults = 2
INVARIANT TypeOK
INVARIANT UploadedIsWhole
INVARIANT FailsForCause
INVARIANT RemoveStopsIt
PROPERTY OrphanEnds
PROPERTY DraftSettles
CHECK_DEADLOCK FALSE
