SPECIFICATION Spec
CONSTANTS
    MaxStarts = 2
    MaxSegments = 1
    MaxReplies = 0
    MaxPlays = 0
INVARIANT ActiveHears
CHECK_DEADLOCK FALSE
