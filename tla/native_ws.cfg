\* Every cut of the client's byte stream, before and after readiness.
SPECIFICATION FairSpec
CONSTANTS
    MaxFrames = 3
    MaxMessages = 1
INVARIANTS ForwardFaithful ReplyFaithful StreamMatchesState IInv
PROPERTIES CloseIsAnswered
CHECK_DEADLOCK FALSE
