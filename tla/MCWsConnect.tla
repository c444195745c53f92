---------------------------- MODULE MCWsConnect ----------------------------
(* Instances of WsConnect for TLC, and what the repository says of Connect *)
(* that the code does not do.                                              *)
EXTENDS WsConnect

(* Constraint: three frames and events in all, so two of the one kind with *)
(* one of the other; what ends each direction comes on top.                *)
AtMostThree ==
    Len(sent) + Len(SelectSeq(Produced, LAMBDA e : e # APP_DONE)) <= 3

(* ws.py: when the client has closed the stream, the application is sent a *)
(* disconnect.  So it gets one, or the connection ends, whatever the       *)
(* frames before were.                                                     *)
DisconnectAlwaysReachesApp ==
    (halfClosed /\ handler = "consume")
        ~> (handler \in {"gather", "ended"} \/ \E i \in 1..Len(Offered) : Offered[i] = DisconnectEvent)

=============================================================================
