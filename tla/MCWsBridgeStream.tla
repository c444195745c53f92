------------------------- MODULE MCWsBridgeStream -------------------------
(* Instances of WsBridgeStream for TLC, and what the repository says of    *)
(* the filter that the code does not do.                                   *)
EXTENDS WsBridgeStream

(* lib.rs: raw WebSocket bytes never reach the dummy upstream. *)
NeverRawUpstream == ~leaked

=============================================================================
