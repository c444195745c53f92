\* The native filter, the stream and Connect, from end to end.
SPECIFICATION FairSpec
CONSTANTS
    PathFrame <- Clients
    PathEvent <- Events
    NotUtf8 = {}
    None = None
    MaxFrames = 2
    MaxEvents = 1
INVARIANTS PathFaithful
PROPERTIES FramesReachApp NoAppOutlivesClient
CHECK_DEADLOCK FALSE
