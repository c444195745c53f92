\* Up to two frames, decodable or not, up to two events: both directions,
\* each as a FIFO relay; termination and disconnect.
SPECIFICATION FairSpec
CONSTANTS
    Payload = {p, bad}
    NotUtf8 = {bad}
    None = None
    MaxFrames = 2
    MaxEvents = 2
CONSTRAINT AtMostThree
INVARIANTS ReceiveFaithful SendFaithful IInv
PROPERTIES ReceiveRelaySpec SendRelaySpec EveryConnectionEnds DisconnectReachesApp
CHECK_DEADLOCK FALSE
