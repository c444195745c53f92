\* Every boundary of the scaled widths; arbitrary bytes; header lists.
SPECIFICATION Spec
CONSTANTS
    Group = 32
    MaxDigits = 3
    Word = 2048
    U32 = 1024
    Fixed32 = 1
    Fixed64 = 2
    ExtLen = 1
    LongLen = 2
    KeyLen = 2
    None = None
    Trap = Trap
    Absent = Absent
    NotUtf8 = NotUtf8
    MaxPayload = 68
    Alphabet = {0, 1, 2, 10, 16, 33, 60, 63}
    MaxBytes = 5
    MaxHeaders = 3
INVARIANTS VarintFaithful FrameProtoFaithful WsFrameFaithful HttpMessagesFaithful DecodersCompose HeadersReachApp
CHECK_DEADLOCK FALSE
