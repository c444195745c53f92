------------------------------ MODULE FifoRelay ------------------------------
(***************************************************************************)
(* What one direction of a grpcgi bridge promises, whatever threads,       *)
(* queues and cancellations implement it: the items the source hands over  *)
(* reach the sink in that order, none lost in the middle, none invented,   *)
(* none twice; an item that closes the source is the last one accepted,    *)
(* and nothing is delivered after an item that ends the sink.              *)
(*                                                                         *)
(* The bridge servicers are shown to implement this specification, once    *)
(* for each of their directions, under the refinement mappings stated in   *)
(* HttpProcess and WsConnect.                                              *)
(***************************************************************************)
EXTENDS Naturals, Sequences

CONSTANTS
    Item,     \* everything the direction can carry
    Closing,  \* accepting one of these closes the source
    Ending    \* delivering one of these ends the sink

VARIABLES
    src,      \* the items accepted so far
    snk,      \* the items delivered so far
    open      \* whether the source may still hand over an item

vars == <<src, snk, open>>

Init ==
    /\ src = <<>>
    /\ snk = <<>>
    /\ open = TRUE

Accept(i) ==
    /\ open
    /\ src' = Append(src, i)
    /\ open' = (i \notin Closing)
    /\ UNCHANGED snk

Forward ==
    /\ Len(snk) < Len(src)
    /\ \A k \in 1..Len(snk) : snk[k] \notin Ending
    /\ snk' = Append(snk, src[Len(snk) + 1])
    /\ UNCHANGED <<src, open>>

(* The source goes away without a closing item: it was cancelled. *)
Close ==
    /\ open
    /\ open' = FALSE
    /\ UNCHANGED <<src, snk>>

Next ==
    \/ \E i \in Item : Accept(i)
    \/ Forward
    \/ Close

Spec == Init /\ [][Next]_vars

=============================================================================
