\* ws.py:153, violated.
SPECIFICATION FairSpec
CONSTANTS
    Payload = {p, bad}
    NotUtf8 = {bad}
    None = None
    MaxFrames = 1
    MaxEvents = 1
PROPERTIES DisconnectAlwaysReachesApp
CHECK_DEADLOCK FALSE
