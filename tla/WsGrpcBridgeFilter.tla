------------------------- MODULE WsGrpcBridgeFilter -------------------------
(***************************************************************************)
(* The native Envoy HTTP filter (envoy-filter/ws_grpc_bridge_filter.cc):   *)
(* one filter per HTTP stream, which takes a WebSocket upgrade over, opens *)
(* the gRPC stream WebSocketBridge/Connect, and translates frames both     *)
(* ways.  Envoy's worker thread calls it back one event at a time; each    *)
(* callback is one action, with everything it calls, the callbacks that    *)
(* Envoy's client makes from inside those calls included.                  *)
(*                                                                         *)
(* The environment is the client, whose frames follow its upgrade request  *)
(* at once or later (the filter keeps what comes before it is ready) and   *)
(* are cut by TCP as in WsFraming; the gRPC server; and Envoy, which may   *)
(* destroy the stream at any moment.                                       *)
(*                                                                         *)
(* A definition whose name ends in _word is a broken variant of the one    *)
(* after it, for mutation checks; no specification uses it.                *)
(***************************************************************************)
EXTENDS WsFraming

CONSTANTS
    MaxFrames,    \* bound: frames the client sends
    MaxMessages   \* bound: messages the server sends

ASSUME NativeBoundAssumption == MaxFrames \in Nat /\ MaxMessages \in Nat

VARIABLES
    frames,        \* the frames the client has sent
    inbound,       \* units on their way to the filter
    clientEnd,     \* end_stream of the client: "no", "sent" or "seen"
    request,       \* the upgrade request: "new", "held" or "passed" on
    state,         \* state_
    pending,       \* pending_upstream_data_
    remainder,     \* frame_remainder_
    grpcStream,    \* grpc_stream_: "null" or "set"
    grpc,          \* the gRPC stream itself
    metadataSeen,  \* the server's initial metadata has arrived
    toGrpc,        \* history: Frames sent on the gRPC stream
    messages,      \* history: messages received on it
    toClient,      \* history: WebSocket frames sent to the client
    reply,         \* "none", the "503" local reply, "reset", or both in turn
    destroyed      \* onDestroy has run

clientVars == <<frames, inbound, clientEnd>>
filterVars == <<request, state, pending, remainder, grpcStream>>
serverVars == <<grpc, metadataSeen, messages>>
outVars    == <<toGrpc, toClient, reply>>
vars == <<frames, inbound, clientEnd, request, state, pending, remainder, grpcStream,
          grpc, metadataSeen, toGrpc, messages, toClient, reply, destroyed>>

Init ==
    /\ frames = <<>> /\ inbound = <<>> /\ clientEnd = "no"
    /\ request = "new" /\ state = "Passthrough"
    /\ pending = <<>> /\ remainder = <<>> /\ grpcStream = "null"
    /\ grpc = "none" /\ metadataSeen = FALSE
    /\ toGrpc = <<>> /\ messages = <<>> /\ toClient = <<>>
    /\ reply = "none" /\ destroyed = FALSE

-----------------------------------------------------------------------------
(* The client. *)

ClientSend(f) ==
    /\ clientEnd = "no" /\ MaySend(frames, f)
    /\ Len(frames) < MaxFrames
    /\ frames' = Append(frames, f)
    /\ inbound' = inbound \o UnitsOf(Len(frames) + 1)
    /\ UNCHANGED <<clientEnd, filterVars, serverVars, outVars, destroyed>>

ClientEnds ==
    /\ clientEnd = "no" /\ request # "new"
    /\ clientEnd' = "sent"
    /\ UNCHANGED <<frames, inbound, filterVars, serverVars, outVars, destroyed>>

-----------------------------------------------------------------------------
(* decodeHeaders. *)

(* Not an upgrade: the filter stays out of the way. *)
PlainRequest ==
    /\ request = "new" /\ ~destroyed
    /\ request' = "passed"
    /\ UNCHANGED <<clientVars, state, pending, remainder, grpcStream, serverVars, outVars,
                   destroyed>>

(* An upgrade, and startGrpcStream opens the stream: the request is held.  *)
(* Nothing in the filter ever lets it go on.                               *)
UpgradeRequest ==
    /\ request = "new" /\ ~destroyed
    /\ request' = "held"
    /\ state' = "Connecting"
    /\ grpcStream' = "set" /\ grpc' = "open"
    /\ UNCHANGED <<clientVars, pending, remainder, metadataSeen, messages, outVars, destroyed>>

CloseFrame == [op |-> "close", ref |-> 1000]

(* startGrpcStream gets no stream: Closed and a 503.  The client library   *)
(* may have called onRemoteClose from within start(), while Connecting.    *)
UpgradeFails(inline) ==
    /\ request = "new" /\ ~destroyed
    /\ request' = "held"
    /\ state' = "Closed" /\ grpc' = "failed"
    /\ IF inline THEN toClient' = Append(toClient, CloseFrame) /\ reply' = "reset, 503"
                 ELSE UNCHANGED toClient /\ reply' = "503"
    /\ UNCHANGED <<clientVars, pending, remainder, grpcStream, metadataSeen, messages,
                   toGrpc, destroyed>>

-----------------------------------------------------------------------------
(* What onRemoteClose does in a filter that is not Closed yet: a Close to  *)
(* the client, after what was sent, as its last data, then a reset.        *)
TearsDown(sent) ==
    /\ grpc' = "closed"
    /\ state' = "Closed" /\ grpcStream' = "null"
    /\ toClient' = Append(sent, CloseFrame)
    /\ reply' = "reset"

(* The frame loop to its end on what was kept and what came, in Active;    *)
(* end is end_stream.  After a Close the rest of the buffer is forgotten.  *)
LoopEnds(data, end) ==
    LET buf == remainder \o data
        handled == Handled(frames, buf)
        closes == HasClose(frames, handled)
    IN  /\ remainder' = IF closes THEN <<>> ELSE Rest(buf, handled)
        /\ toGrpc' = toGrpc \o Forwarded(frames, handled)
        /\ toClient' = toClient \o Pongs(frames, handled)
        /\ state' = IF closes \/ end THEN "Closing" ELSE "Active"
        /\ grpc' = IF closes \/ end THEN "halfClosed" ELSE grpc
        /\ UNCHANGED <<grpcStream, reply>>

(* Sending the k-th frame breaks the stream: onRemoteClose runs inside the *)
(* loop, which then finds itself no longer Active.                         *)
LoopBreaks(data) ==
    LET handled == Handled(frames, remainder \o data)
    IN  \E k \in 1..Len(handled) :
            LET done == SubSeq(handled, 1, k)
            IN  /\ frames[handled[k]].op \in {"text", "binary"}
                /\ remainder' = <<>>
                /\ toGrpc' = toGrpc \o Forwarded(frames, done)
                /\ TearsDown(toClient \o Pongs(frames, done))

ProcessWebSocketData(data, end) == LoopEnds(data, end) \/ LoopBreaks(data)

(* decodeData with a chunk of n units; its end_stream flag comes with the  *)
(* client's last units.                                                    *)
Chunk(n) == SubSeq(inbound, 1, n)
Ends(n) == clientEnd = "sent" /\ n = Len(inbound)

Taken(n) ==
    /\ request # "new" /\ ~destroyed
    /\ n > 0 \/ Ends(n)
    /\ inbound' = SubSeq(inbound, n + 1, Len(inbound))
    /\ clientEnd' = IF Ends(n) THEN "seen" ELSE clientEnd

DecodeDataIgnored(n) ==
    /\ state \in {"Passthrough", "Closing", "Closed"}
    /\ Taken(n)
    /\ UNCHANGED <<frames, filterVars, serverVars, outVars, destroyed>>

DecodeDataConnecting_overwrites(n) ==
    /\ state = "Connecting"
    /\ Taken(n)
    /\ pending' = Chunk(n)
    /\ UNCHANGED <<frames, request, state, remainder, grpcStream, serverVars, outVars,
                   destroyed>>
DecodeDataConnecting(n) ==
    /\ state = "Connecting"
    /\ Taken(n)
    /\ pending' = pending \o Chunk(n)
    /\ UNCHANGED <<frames, request, state, remainder, grpcStream, serverVars, outVars,
                   destroyed>>

DecodeDataActive(n) ==
    /\ state = "Active"
    /\ Taken(n)
    /\ ProcessWebSocketData(Chunk(n), Ends(n))
    /\ UNCHANGED <<frames, request, pending, metadataSeen, messages, destroyed>>

-----------------------------------------------------------------------------
(* GrpcStreamCallbacks. *)

StreamLive == grpc \in {"open", "halfClosed"}

(* onReceiveInitialMetadata: ready, so what was kept is processed; its     *)
(* end_stream was not kept.                                                *)
OnReceiveInitialMetadata_forgets ==
    /\ StreamLive /\ ~metadataSeen
    /\ metadataSeen' = TRUE
    /\ state' = IF state = "Connecting" THEN "Active" ELSE state
    /\ UNCHANGED <<clientVars, request, pending, remainder, grpcStream, grpc, messages,
                   outVars, destroyed>>
OnReceiveInitialMetadata ==
    /\ StreamLive /\ ~metadataSeen
    /\ metadataSeen' = TRUE
    /\ IF state = "Connecting"
         THEN ProcessWebSocketData(pending, FALSE)
         ELSE UNCHANGED <<remainder, toGrpc, toClient, state, grpc, grpcStream, reply>>
    /\ UNCHANGED <<clientVars, request, pending, messages, destroyed>>

OnReceiveMessage(binary) ==
    /\ StreamLive /\ metadataSeen
    /\ Len(messages) < MaxMessages
    /\ messages' = Append(messages, [binary |-> binary, ok |-> TRUE])
    /\ toClient' = IF state \in {"Active", "Closing"}
                     THEN Append(toClient, WsFrame(binary, Len(messages) + 1))
                     ELSE toClient
    /\ UNCHANGED <<clientVars, filterVars, grpc, metadataSeen, toGrpc, reply, destroyed>>

(* onRemoteClose, in a filter that is not Closed. *)
OnRemoteClose_keepsStream ==
    /\ StreamLive
    /\ grpc' = "closed"
    /\ state' = "Closed"
    /\ toClient' = Append(toClient, CloseFrame)
    /\ reply' = "reset"
    /\ UNCHANGED <<clientVars, request, pending, remainder, grpcStream, metadataSeen,
                   messages, toGrpc, destroyed>>
OnRemoteClose ==
    /\ StreamLive
    /\ TearsDown(toClient)
    /\ UNCHANGED <<clientVars, request, pending, remainder, metadataSeen, messages,
                   toGrpc, destroyed>>

(* onDestroy: reset the gRPC stream if there still is one. *)
Resets_ifActive == state = "Active"
Resets == grpcStream = "set"

OnDestroy ==
    /\ ~destroyed
    /\ destroyed' = TRUE
    /\ state' = "Closed"
    /\ IF Resets THEN grpcStream' = "null" /\ grpc' = "reset"
                 ELSE UNCHANGED <<grpcStream, grpc>>
    /\ UNCHANGED <<clientVars, request, pending, remainder, metadataSeen, messages, outVars>>

-----------------------------------------------------------------------------
DecodeData(n) == DecodeDataIgnored(n) \/ DecodeDataConnecting(n) \/ DecodeDataActive(n)

Next ==
    \/ \E f \in Frame : ClientSend(f)
    \/ ClientEnds
    \/ PlainRequest
    \/ UpgradeRequest
    \/ \E inline \in BOOLEAN : UpgradeFails(inline)
    \/ \E n \in 0..Len(inbound) : DecodeDataIgnored(n)
    \/ \E n \in 0..Len(inbound) : DecodeDataConnecting(n)
    \/ \E n \in 0..Len(inbound) : DecodeDataActive(n)
    \/ OnReceiveInitialMetadata
    \/ \E binary \in BOOLEAN : OnReceiveMessage(binary)
    \/ OnRemoteClose
    \/ OnDestroy

Spec == Init /\ [][Next]_vars

(* Envoy delivers what the client sends and destroys a stream it resets;   *)
(* the server ends its stream once the client's side is closed.  Nothing   *)
(* is assumed of the server's initial metadata: Connect may never send it. *)
Fairness ==
    /\ WF_vars(\E n \in 0..Len(inbound) : DecodeData(n))
    /\ WF_vars(grpc = "halfClosed" /\ OnRemoteClose)
    /\ WF_vars(reply # "none" /\ OnDestroy)

FairSpec == Spec /\ Fairness

-----------------------------------------------------------------------------
(* Correctness. *)

(* Every variable has its type. *)
TypeOK ==
    /\ frames \in Seq(Frame) /\ inbound \in Seq(Unit) /\ clientEnd \in {"no", "sent", "seen"}
    /\ request \in {"new", "held", "passed"}
    /\ state \in {"Passthrough", "Connecting", "Active", "Closing", "Closed"}
    /\ pending \in Seq(Unit) /\ remainder \in Seq(Unit) /\ grpcStream \in {"null", "set"}
    /\ grpc \in {"none", "failed", "open", "halfClosed", "closed", "reset"}
    /\ metadataSeen \in BOOLEAN /\ destroyed \in BOOLEAN
    /\ toGrpc \in Seq(ForwardedFrame) /\ messages \in Seq(Message)
    /\ toClient \in Seq(ClientFrame)
    /\ reply \in {"none", "503", "reset", "reset, 503"}

(* How many frames have wholly reached the filter. *)
Delivered == Arrived(frames, inbound)

(* Whether a frame came while Connecting or later, in one piece or in      *)
(* several, the server is sent every data frame delivered whole, once and  *)
(* in order, from the moment the stream is ready; nothing before.          *)
ForwardFaithful ==
    /\ IsPrefixOf(toGrpc, DataAmong(frames, Delivered))
    /\ state \in {"Active", "Closing"} => toGrpc = DataAmong(frames, Delivered)
    /\ state = "Connecting" => toGrpc = <<>>

(* The client is sent a frame for each message while the connection lasts, *)
(* a pong for each ping, and nothing at all after the one Close.           *)
ReplyFaithful ==
    /\ state \in {"Active", "Closing"} =>
         Only(toClient, {"pong"}) = PongsFor(frames, Delivered)
    /\ Only(toClient, {"text", "binary"}) = FramesFor(messages)
    /\ \A i \in 1..Len(toClient) : toClient[i].op = "close" => i = Len(toClient)

(* forwardDataFrame asserts its stream: an Active or Closing filter has    *)
(* one, and it is the live one (half-closed exactly when Closing); a       *)
(* Closed filter holds none, and no stream outlives a destroyed filter,    *)
(* whose callbacks it would call.                                          *)
StreamMatchesState ==
    /\ state = "Active" => grpcStream = "set" /\ grpc = "open"
    /\ state = "Closing" => grpcStream = "set" /\ grpc = "halfClosed"
    /\ state = "Closed" => grpcStream = "null"
    /\ destroyed => ~StreamLive

(* The inductive invariant behind these.  What came before readiness is in *)
(* pending from the first frame on; an Active filter's remainder is what   *)
(* lies between the frames that have wholly arrived and what is on its     *)
(* way, less than a frame; a Closing filter has nothing more coming.       *)
FramingInv ==
    /\ CloseIsLast(frames) /\ Ending(frames, inbound)
    /\ clientEnd = "seen" => inbound = <<>>
    /\ request = "new" \/ state = "Connecting" =>
         remainder = <<>> /\ Between(frames, 0, pending, inbound)
    /\ state = "Active" =>
         /\ Len(remainder) < UnitsPerItem
         /\ Between(frames, Delivered, remainder, inbound)
    /\ state = "Closing" => inbound = <<>> /\ (HasClosed(frames) \/ clientEnd = "seen")

(* Each state of the filter with what it says of the pointer and of the    *)
(* stream.  A filter that is not ready yet has sent nothing, and one that  *)
(* has sent a Close is done.                                               *)
StreamInv ==
    /\ request = "new" => state = "Passthrough" \/ destroyed
    /\ state = "Passthrough" => grpcStream = "null" /\ grpc = "none"
    /\ state \in {"Connecting", "Active"} => grpcStream = "set" /\ grpc = "open"
    /\ state = "Closing" => grpcStream = "set" /\ grpc = "halfClosed"
    /\ state = "Closed" => grpcStream = "null" /\ ~StreamLive
    /\ destroyed => state = "Closed"
    /\ state \in {"Passthrough", "Connecting"} =>
         toGrpc = <<>> /\ toClient = <<>> /\ ~metadataSeen
    /\ (\E i \in 1..Len(toClient) : toClient[i].op = "close") => state = "Closed"

IInv == TypeOK /\ FramingInv /\ StreamInv /\ ForwardFaithful /\ ReplyFaithful

(* Once the stream is ready, a client that closes its WebSocket (before or *)
(* after) gets a Close back, unless Envoy destroyed the stream first.      *)
CloseIsAnswered ==
    (metadataSeen /\ HasClosed(frames))
        ~> (destroyed \/ \E i \in 1..Len(toClient) : toClient[i].op = "close")

=============================================================================
