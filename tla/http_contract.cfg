\* Each direction as a FIFO relay; termination and end of request.
SPECIFICATION FairSpec
CONSTANTS
    Data = {d1}
    Empty = Empty
    MaxRequest = 2
    MaxEvents = 2
PROPERTIES RequestRelaySpec ResponseRelaySpec EveryExchangeEnds RequestEndReachesApp
CHECK_DEADLOCK FALSE
