\* The filter, the call and the servicer, with timeouts and aborts.
SPECIFICATION FairSpec
CONSTANTS
    Data = {d1, d2}
    Header = {h1, bad}
    Undecodable = {bad}
    Status = {200, 404}
    None = None
    MaxChunks = 2
    MaxEvents = 2
    MaxReceives = 3
INVARIANTS RequestFaithful AnswerFaithful DisconnectFollowsFinal IInv
PROPERTIES EveryRequestAnswered NoAppOutlivesExchange
CHECK_DEADLOCK FALSE
