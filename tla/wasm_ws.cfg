\* Every cut of the client's byte stream, every order of callbacks.
SPECIFICATION FairSpec
CONSTANTS
    MaxFrames = 3
    MaxMessages = 2
INVARIANTS ForwardFaithful ReplyFaithful NoRawBytesUpstream IInv
PROPERTIES SendOnlyWhileOpen CloseIsAnswered
CHECK_DEADLOCK FALSE
