------------------------------ MODULE MCWsPath ------------------------------
(* Instances of WsPath for TLC, and what ws.py says of the path that the   *)
(* code does not do.                                                       *)
EXTENDS WsPath

Clients == {[op |-> o, fin |-> TRUE] : o \in {"text", "close"}}
Events  == [type : {"send"}, text : {None}, bytes : {1}]
      \cup [type : {"accept", "acceptWith"}, text : {None}, bytes : {None}]

(* ws.py: the gRPC bidi stream is already open, accepting is implicit.  So *)
(* once the application has accepted, what the client sends reaches it, or *)
(* the connection ends.                                                    *)
AcceptedFramesReachApp ==
    (\E k \in 1..Len(consumed) : consumed[k].type = "accept") ~> (AllReached \/ Over)

=============================================================================
