\* Any client, any application: both directions and the tasks.
SPECIFICATION Spec
CONSTANTS
    Data = {d1}
    Empty = Empty
    MaxRequest = 3
    MaxEvents = 2
INVARIANTS RequestFaithful ResponseFaithful IInv
CHECK_DEADLOCK FALSE
