-------------------------------- MODULE WsPath --------------------------------
(***************************************************************************)
(* One WebSocket connection through the native path: the Envoy filter of   *)
(* WsGrpcBridgeFilter, the servicer of WsConnect, and the gRPC stream      *)
(* between them.  What the filter sends is what the servicer's iterator    *)
(* may read; what the servicer yields reaches the filter later, in order,  *)
(* after the initial metadata; either side learns late, or never in time,  *)
(* that the other is gone.                                                 *)
(*                                                                         *)
(* The payload of a client's frame is its position among the frames.       *)
(***************************************************************************)
EXTENDS Selection

CONSTANTS
    PathFrame,  \* the frames a client may send
    PathEvent,     \* the events an application may send
    NotUtf8, None, MaxFrames, MaxEvents

VARIABLES
    frames, inbound, clientEnd, request, state, pending, remainder, grpcStream,
    grpc, metadataSeen, toGrpc, messages, toClient, reply, destroyed,
    nread, rpc, handler, outcome, pump, app, receiveQueue, sendQueue, appGot,
    consumed, metadata,
    yielded   \* the frames the servicer yielded (WsConnect's frames)

F == INSTANCE WsGrpcBridgeFilter WITH MaxMessages <- MaxEvents

(* What the servicer sees of the stream: the Frames sent on it, and that   *)
(* the filter has closed its side.                                         *)
OnStream ==
    [k \in 1..Len(toGrpc) |-> [payload |-> toGrpc[k].frame, binary |-> toGrpc[k].binary]]

S == INSTANCE WsConnect WITH
    Payload <- 1..MaxFrames,
    frames <- yielded,
    sent <- OnStream,
    halfClosed <- (grpc = "halfClosed")

(* What both components assume of their constants. *)
ASSUME PathAssumption ==
    /\ MaxFrames \in Nat /\ MaxEvents \in Nat
    /\ NotUtf8 \subseteq 1..MaxFrames /\ None \notin 1..MaxFrames

ASSUME ChoiceAssumption == PathFrame \subseteq F!Frame /\ PathEvent \subseteq S!AppEvent

filterVars == <<frames, inbound, clientEnd, request, state, pending, remainder, grpcStream,
                grpc, metadataSeen, toGrpc, messages, toClient, reply, destroyed>>
servicerVars == <<nread, rpc, handler, outcome, pump, app, receiveQueue, sendQueue,
                  appGot, consumed, metadata, yielded>>
vars == <<frames, inbound, clientEnd, request, state, pending, remainder, grpcStream,
          grpc, metadataSeen, toGrpc, messages, toClient, reply, destroyed,
          nread, rpc, handler, outcome, pump, app, receiveQueue, sendQueue,
          appGot, consumed, metadata, yielded>>

Init == F!Init /\ S!Init

-----------------------------------------------------------------------------
(* The client, as long as it has a WebSocket, and the filter. *)
Connected == ~destroyed /\ (request = "new" \/ F!StreamLive)

ClientSend == Connected /\ (\E f \in PathFrame : F!ClientSend(f)) /\ UNCHANGED servicerVars
ClientEnds == Connected /\ F!ClientEnds /\ UNCHANGED servicerVars
Request ==
    /\ F!PlainRequest \/ F!UpgradeRequest \/ \E inline \in BOOLEAN : F!UpgradeFails(inline)
    /\ UNCHANGED servicerVars
(* Chunks are whole frames here, several or none of them at once.          *)
DecodeData ==
    /\ \E n \in 0..(Len(inbound) \div F!UnitsPerItem) : F!DecodeData(F!UnitsPerItem * n)
    /\ UNCHANGED servicerVars
OnDestroy  == F!OnDestroy /\ UNCHANGED servicerVars

(* The stream, to the filter.  A servicer that ended without a message     *)
(* sends its metadata with the trailers.                                   *)
MetadataArrives ==
    /\ metadata # "unsent" \/ handler = "ended"
    /\ F!OnReceiveInitialMetadata
    /\ UNCHANGED servicerVars

MessageArrives ==
    /\ Len(messages) < Len(yielded)
    /\ F!OnReceiveMessage(yielded[Len(messages) + 1].binary)
    /\ UNCHANGED servicerVars

(* The trailers come after everything else, unless the RPC was cancelled.  *)
TrailersArrive ==
    /\ handler = "ended"
    /\ rpc = "live" => Len(messages) = Len(yielded) /\ (metadata # "unsent" => metadataSeen)
    /\ F!OnRemoteClose
    /\ UNCHANGED servicerVars

ConnectionLost ==
    /\ handler # "ended"
    /\ F!OnRemoteClose
    /\ UNCHANGED servicerVars

(* The stream, to the servicer: it opens, and it is cancelled, for a reset *)
(* or a lost connection or because the server stops.                       *)
Opened == grpc \notin {"none", "failed"}

CancelRpc == Opened /\ UNCHANGED filterVars /\ S!CancelRpc

(* The servicer and the application. *)
HandlerStep == Opened /\ UNCHANGED filterVars /\ S!HandlerStep
PumpStep    == UNCHANGED filterVars /\ S!PumpStep
AppRuns     == UNCHANGED filterVars /\ (S!AppStart \/ S!AppDropped)
AppReceive  == UNCHANGED filterVars /\ S!AppReceive
AppSend     == UNCHANGED filterVars /\ \E e \in PathEvent : S!AppSend(e)
AppExit     == UNCHANGED filterVars /\ S!AppExit

Next ==
    \/ ClientSend
    \/ ClientEnds
    \/ Request
    \/ DecodeData
    \/ OnDestroy
    \/ MetadataArrives
    \/ MessageArrives
    \/ TrailersArrive
    \/ ConnectionLost
    \/ CancelRpc
    \/ HandlerStep
    \/ PumpStep
    \/ AppRuns
    \/ AppReceive
    \/ AppSend
    \/ AppExit

Spec == Init /\ [][Next]_vars

(* The fairness of the two components, and of the stream between them: it  *)
(* delivers metadata, messages, trailers and cancellation.  Nothing makes  *)
(* the application send or receive, nor the client send or leave.          *)
Fairness ==
    /\ WF_vars(DecodeData)
    /\ WF_vars(reply # "none" /\ OnDestroy)
    /\ WF_vars(MetadataArrives)
    /\ WF_vars(MessageArrives)
    /\ WF_vars(TrailersArrive)
    /\ WF_vars(grpc \in {"reset", "closed"} /\ CancelRpc)
    /\ WF_vars(HandlerStep)
    /\ WF_vars(Opened /\ UNCHANGED filterVars /\ S!HandlerCancelled)
    /\ WF_vars(PumpStep)
    /\ WF_vars(AppRuns)
    /\ WF_vars(app = "cancelling" /\ AppExit)

FairSpec == Spec /\ Fairness

-----------------------------------------------------------------------------
(* Correctness. *)

(* What a client's frame is to the application. *)
Received(i) == [type |-> "receive", payload |-> i, binary |-> frames[i].op = "binary"]

(* The frames a client sent that are for the application, what the         *)
(* application got of them; what the client is to be shown, what it was    *)
(* shown, and which frames of the servicer that makes.                     *)
Sent ==
    LET data == F!DataAmong(frames, Len(frames))
    IN  [k \in 1..Len(data) |-> Received(data[k].frame)]
Got(events) == Keep(events, S!FrameEvents)
Yielded == [i \in 1..Len(yielded) |-> F!WsFrame(yielded[i].binary, i)]
ShownToClient == F!Only(toClient, {"text", "binary"})
Seen == [k \in 1..Len(ShownToClient) |->
           [payload |-> yielded[ShownToClient[k].ref].payload,
            binary  |-> ShownToClient[k].op = "binary"]]

ToldOfDisconnect == \E k \in 1..Len(S!Offered) : S!Offered[k] = S!DisconnectEvent
ClientLeft == F!HasClosed(frames) \/ clientEnd # "no" \/ rpc # "live"

(* From end to end, whatever is buffered, queued, reset or cancelled:      *)
(* the application is offered the client's data frames, in order, none     *)
(* lost or doubled before the last; it is told of a disconnect only when   *)
(* the client left or the RPC was cancelled; and the client is shown the   *)
(* frames the servicer yielded, in order, none after a Close.              *)
PathFaithful ==
    /\ F!IsPrefixOf(Got(S!Offered), Sent)
    /\ ToldOfDisconnect => ClientLeft
    /\ F!IsPrefixOf(ShownToClient, Yielded)
    /\ \A i \in 1..Len(toClient) : toClient[i].op = "close" => i = Len(toClient)

(* What the two components know of each other: the application is offered  *)
(* what the pump read of the filter's stream, and the messages the filter  *)
(* got are the first of those yielded.                                     *)
Linked ==
    /\ Len(frames) <= MaxFrames
    /\ S!OfferedWhatWasRead
    /\ ToldOfDisconnect => ClientLeft
    /\ Len(messages) <= Len(yielded)
    /\ \A i \in 1..Len(messages) : messages[i] = [binary |-> yielded[i].binary, ok |-> TRUE]

(* The inductive invariant: those of the components, and the link.         *)
IInv == F!IInv /\ S!IInv /\ Linked

(* End to end, each direction is a FIFO relay: from the frames the client  *)
(* sends to the application's receives, until the client closes or leaves, *)
(* and from the frames yielded to the client, until the handler is on its  *)
(* way out.                                                                *)
UpRelay == INSTANCE FifoRelay WITH
    Item <- S!FrameEvents, Closing <- {}, Ending <- {},
    src <- Sent, snk <- Got(appGot), open <- (clientEnd = "no" /\ ~F!HasClosed(frames))

DownRelay == INSTANCE FifoRelay WITH
    Item <- S!Frame, Closing <- {}, Ending <- {},
    src <- yielded, snk <- Seen, open <- (handler \notin {"gather", "ended"})

(* The frames a client sends are received in order, at most once and       *)
(* never before they were sent; so are, by the client, those yielded.      *)
UpRelaySpec == UpRelay!Spec
DownRelaySpec == DownRelay!Spec

(* The filter does on the path only what it does alone. *)
FilterSpec == F!Spec

(* All that the client has sent so far has reached the application's queue,*)
(* a Close as its disconnect.                                              *)
Reached(i) ==
    \E k \in 1..Len(S!Offered) :
        S!Offered[k] = IF frames[i].op = "close" THEN S!DisconnectEvent ELSE Received(i)

AllReached ==
    \A i \in 1..Len(frames) : frames[i].op \in {"text", "binary", "close"} => Reached(i)

(* Nothing is owed any more: the handler is on its way out, the pump has   *)
(* failed on a text, or the stream or the filter is gone.                  *)
Over == handler \in {"gather", "ended"} \/ pump = "failed" \/ ~F!StreamLive \/ destroyed

(* From any moment at which the servicer has sent its initial metadata,    *)
(* everything the client sent, in one piece or several, before that or     *)
(* after, comes to reach the application, or the connection ends.          *)
FramesReachApp == (metadata # "unsent") ~> (AllReached \/ Over)

(* When Envoy has destroyed the stream of a client, no application goes on *)
(* for it, though the stream may only just have opened.                    *)
NoAppOutlivesClient == destroyed ~> [](app \in {"none", "done"})

=============================================================================
