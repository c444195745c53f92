\* ws.py:184, violated.
SPECIFICATION FairSpec
CONSTANTS
    PathFrame <- Clients
    PathEvent <- Events
    NotUtf8 = {}
    None = None
    MaxFrames = 1
    MaxEvents = 1
PROPERTIES AcceptedFramesReachApp
CHECK_DEADLOCK FALSE
