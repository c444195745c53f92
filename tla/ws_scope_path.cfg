\* ws.py:20-23, violated.
SPECIFICATION Spec
CONSTANTS
    Group = 32
    MaxDigits = 3
    Word = 2048
    U32 = 1024
    Fixed32 = 1
    Fixed64 = 2
    ExtLen = 1
    LongLen = 2
    KeyLen = 2
    None = None
    Trap = Trap
    Absent = Absent
    NotUtf8 = NotUtf8
    MaxPayload = 1
    Alphabet = {0, 1, 2, 10, 16, 33}
    MaxBytes = 1
    MaxHeaders = 1
INVARIANTS PathReachesApp
CHECK_DEADLOCK FALSE
