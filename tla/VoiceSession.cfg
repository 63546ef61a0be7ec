SPECIFICATION Spec
CONSTANTS
    MaxStarts = 2
    MaxSegments = 2
    MaxReplies = 2
    MaxPlays = 2
INVARIANT TypeOK
INVARIANT MicOffWhenIdle
INVARIANT ActiveHearsUndisturbed
INVARIANT FloorReturned
INVARIANT SaidOnce
INVARIANT OneVoice
PROPERTY StoppedStaysSilent
CHECK_DEADLOCK FALSE
