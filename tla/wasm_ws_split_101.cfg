\* wasm/src/lib.rs:194, violated.
SPECIFICATION Spec
CONSTANTS
    MaxFrames = 2
    MaxMessages = 1
INVARIANTS NeverRawUpstream
CHECK_DEADLOCK FALSE
