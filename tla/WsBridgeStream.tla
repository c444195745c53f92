--------------------------- MODULE WsBridgeStream ---------------------------
(***************************************************************************)
(* The proxy-wasm WebSocket filter (wasm/src/lib.rs): a stream context per *)
(* TCP connection that watches the HTTP upgrade go by and then speaks      *)
(* WebSocket to the client and gRPC (WebSocketBridge/Connect) to the       *)
(* server.  The host calls it back one event at a time; each callback is   *)
(* one action, the whole loop of process_ws_frames included.               *)
(*                                                                         *)
(* TCP cuts the client's byte stream anywhere: the upgrade request (item 0)*)
(* and each frame travel as two units, and a callback gets any number of   *)
(* them.  The environment is the client (conforming to RFC 6455: no frame  *)
(* before the 101, none after its Close, fragments in sequence), the       *)
(* upstream that answers the upgrade, the gRPC server, and the host: its   *)
(* buffer calls behave as the filter's comments say (each callback sees a  *)
(* fresh chunk, set_downstream_data appends to what the client is sent),   *)
(* and closing a gRPC stream half-closes it.                               *)
(*                                                                         *)
(* A definition whose name ends in _word is a broken variant of the one    *)
(* after it, for mutation checks; no specification uses it.                *)
(***************************************************************************)
EXTENDS WsFraming

CONSTANTS
    MaxFrames,    \* bound: frames the client sends
    MaxMessages   \* bound: messages the server sends

ASSUME FilterBoundAssumption == MaxFrames \in Nat /\ MaxMessages \in Nat

VARIABLES
    frames,         \* the frames the client has sent
    inbound,        \* units on their way to the filter
    state,          \* State of the filter
    downstreamBuf,  \* downstream_buf
    grpcStreamId,   \* grpc_stream_id: "None" or "Some"
    upstream,       \* the upstream's side of the upgrade
    leaked,         \* WebSocket bytes went on to the upstream
    grpc,           \* the host's gRPC stream
    metadataSeen,   \* the server's initial metadata has arrived
    toGrpc,         \* history: Frames sent on the gRPC stream
    messages,       \* history: messages received on it
    toClient        \* history: WebSocket frames injected to the client

clientVars == <<frames, inbound>>
filterVars == <<state, downstreamBuf, grpcStreamId>>
serverVars == <<grpc, metadataSeen, messages>>
outVars    == <<leaked, toGrpc, toClient>>
vars == <<frames, inbound, state, downstreamBuf, grpcStreamId, upstream, leaked,
          grpc, metadataSeen, toGrpc, messages, toClient>>

(* create_stream_context, with the client's upgrade request on its way. *)
Init ==
    /\ frames = <<>> /\ inbound = UnitsOf(0)
    /\ state = "AwaitingUpgradeRequest" /\ downstreamBuf = <<>> /\ grpcStreamId = "None"
    /\ upstream = "idle" /\ leaked = FALSE
    /\ grpc = "none" /\ metadataSeen = FALSE
    /\ toGrpc = <<>> /\ messages = <<>> /\ toClient = <<>>

-----------------------------------------------------------------------------
(* The client. *)

Upgraded == upstream \in {"switched", "switchedInPieces"}

ClientSend(f) ==
    /\ Upgraded /\ MaySend(frames, f)
    /\ Len(frames) < MaxFrames
    /\ frames' = Append(frames, f)
    /\ inbound' = inbound \o UnitsOf(Len(frames) + 1)
    /\ UNCHANGED <<upstream, filterVars, serverVars, outVars>>

-----------------------------------------------------------------------------
(* on_downstream_data, with a chunk of n units. *)

Chunk(n) == SubSeq(inbound, 1, n)
Taken(n) == inbound' = SubSeq(inbound, n + 1, Len(inbound))

(* AwaitingUpgradeRequest: accumulate until the header block is whole; the *)
(* bytes go on to the upstream either way.                                 *)
UpgradeRequestData(n) ==
    /\ state = "AwaitingUpgradeRequest"
    /\ Taken(n)
    /\ IF \E i \in 1..n : Chunk(n)[i].last
         THEN /\ downstreamBuf' = <<>>
              /\ state' = "AwaitingUpgradeResponse"
              /\ upstream' = "asked"
         ELSE /\ downstreamBuf' = downstreamBuf \o Chunk(n)
              /\ UNCHANGED <<state, upstream>>
    /\ UNCHANGED <<frames, grpcStreamId, serverVars, outVars>>

(* AwaitingUpgradeResponse: passed on unseen. *)
PassedThrough(n) ==
    /\ state = "AwaitingUpgradeResponse"
    /\ Taken(n)
    /\ leaked' = TRUE
    /\ UNCHANGED <<frames, upstream, filterVars, serverVars, toGrpc, toClient>>

(* Active: append the chunk and drain every whole frame.  Data frames are  *)
(* sent on the gRPC stream if there is one and dropped otherwise; a Close  *)
(* half-closes it; pings are answered; the rest is discarded.              *)
ActiveData(n) ==
    /\ state = "Active"
    /\ Taken(n)
    /\ LET buf == downstreamBuf \o Chunk(n)
           handled == Handled(frames, buf)
       IN  /\ downstreamBuf' = Rest(buf, handled)
           /\ toClient' = toClient \o Pongs(frames, handled)
           /\ IF grpcStreamId = "Some"
                THEN /\ toGrpc' = toGrpc \o Forwarded(frames, handled)
                     /\ grpcStreamId' = IF HasClose(frames, handled) THEN "None" ELSE "Some"
                     /\ grpc' = IF HasClose(frames, handled) THEN "halfClosed" ELSE grpc
                ELSE UNCHANGED <<toGrpc, grpcStreamId, grpc>>
    /\ UNCHANGED <<frames, state, upstream, leaked, metadataSeen, messages>>

OnDownstreamData(n) == UpgradeRequestData(n) \/ PassedThrough(n) \/ ActiveData(n)

-----------------------------------------------------------------------------
(* on_upstream_data while AwaitingUpgradeResponse.  In the other states it *)
(* changes nothing: the data passes or is held, and no state is touched.   *)

(* The 101 may be the first response or come after another one. *)
MaySwitch == upstream \in {"asked", "otherwise"}

(* A chunk that contains "HTTP/1.1 101": Active at once, and the gRPC      *)
(* stream opened, or not.                                                  *)
Switching_onlyIfOpened(opened) ==
    /\ state = "AwaitingUpgradeResponse" /\ MaySwitch
    /\ upstream' = "switched"
    /\ state' = IF opened THEN "Active" ELSE state
    /\ grpc' = IF opened THEN "open" ELSE "failed"
    /\ grpcStreamId' = IF opened THEN "Some" ELSE grpcStreamId
    /\ UNCHANGED <<clientVars, downstreamBuf, metadataSeen, messages, outVars>>
Switching(opened) ==
    /\ state = "AwaitingUpgradeResponse" /\ MaySwitch
    /\ upstream' = "switched"
    /\ state' = "Active"
    /\ grpc' = IF opened THEN "open" ELSE "failed"
    /\ grpcStreamId' = IF opened THEN "Some" ELSE grpcStreamId
    /\ UNCHANGED <<clientVars, downstreamBuf, metadataSeen, messages, outVars>>

(* The same response with its status line cut by TCP: the search looks at  *)
(* one chunk at a time and finds nothing in either, but both reach the     *)
(* client.                                                                 *)
SwitchingInPieces ==
    /\ state = "AwaitingUpgradeResponse"
    /\ \/ MaySwitch /\ upstream' = "switching"
       \/ upstream = "switching" /\ upstream' = "switchedInPieces"
    /\ UNCHANGED <<clientVars, filterVars, serverVars, outVars>>

(* Any other response, a refusal or an interim one (103): the filter goes  *)
(* on waiting.                                                             *)
OtherResponse ==
    /\ state = "AwaitingUpgradeResponse" /\ upstream = "asked"
    /\ upstream' = "otherwise"
    /\ UNCHANGED <<clientVars, filterVars, serverVars, outVars>>

-----------------------------------------------------------------------------
(* The gRPC callbacks. *)

StreamLive == grpc \in {"open", "halfClosed"}

(* on_grpc_stream_initial_metadata: stores the id, whatever happened since.*)
OnGrpcInitialMetadata ==
    /\ StreamLive /\ ~metadataSeen
    /\ metadataSeen' = TRUE
    /\ grpcStreamId' = "Some"
    /\ UNCHANGED <<clientVars, state, downstreamBuf, upstream, grpc, messages, outVars>>

(* on_grpc_stream_message; ok: the message decodes as a Frame. *)
OnGrpcMessage(binary, ok) ==
    /\ StreamLive /\ metadataSeen
    /\ Len(messages) < MaxMessages
    /\ messages' = Append(messages, [binary |-> binary, ok |-> ok])
    /\ toClient' = IF ok THEN Append(toClient, WsFrame(binary, Len(messages) + 1))
                         ELSE toClient
    /\ UNCHANGED <<clientVars, filterVars, upstream, grpc, metadataSeen, leaked, toGrpc>>

(* on_grpc_stream_close: a Close with code 1000 for every status. *)
CloseCode(status) == 1000

OnGrpcClose_keepsId(status) ==
    /\ StreamLive
    /\ grpc' = IF status = 0 THEN "closed" ELSE "aborted"
    /\ toClient' = Append(toClient, [op |-> "close", ref |-> CloseCode(status)])
    /\ UNCHANGED <<clientVars, filterVars, upstream, leaked, metadataSeen, messages, toGrpc>>
OnGrpcClose(status) ==
    /\ StreamLive
    /\ grpc' = IF status = 0 THEN "closed" ELSE "aborted"
    /\ grpcStreamId' = "None"
    /\ toClient' = Append(toClient, [op |-> "close", ref |-> CloseCode(status)])
    /\ UNCHANGED <<clientVars, state, downstreamBuf, upstream, leaked, metadataSeen,
                   messages, toGrpc>>

-----------------------------------------------------------------------------
Next ==
    \/ \E f \in Frame : ClientSend(f)
    \/ \E n \in 1..Len(inbound) : UpgradeRequestData(n)
    \/ \E n \in 1..Len(inbound) : PassedThrough(n)
    \/ \E n \in 1..Len(inbound) : ActiveData(n)
    \/ \E opened \in BOOLEAN : Switching(opened)
    \/ SwitchingInPieces
    \/ OtherResponse
    \/ OnGrpcInitialMetadata
    \/ \E binary, ok \in BOOLEAN : OnGrpcMessage(binary, ok)
    \/ \E status \in {0, 1} : OnGrpcClose(status)

Spec == Init /\ [][Next]_vars

(* The network delivers what the client sends, the upstream answers (once, *)
(* and finishes a response it began), and the server ends its stream once  *)
(* the client's side is closed.                                            *)
Fairness ==
    /\ WF_vars(\E n \in 1..Len(inbound) : OnDownstreamData(n))
    /\ WF_vars(/\ upstream # "otherwise"
               /\ (\E opened \in BOOLEAN : Switching(opened)) \/ SwitchingInPieces \/ OtherResponse)
    /\ WF_vars(grpc = "halfClosed" /\ OnGrpcClose(0))

FairSpec == Spec /\ Fairness

-----------------------------------------------------------------------------
(* Correctness. *)

(* Every variable has its type. *)
TypeOK ==
    /\ frames \in Seq(Frame) /\ inbound \in Seq(Unit)
    /\ state \in {"AwaitingUpgradeRequest", "AwaitingUpgradeResponse", "Active"}
    /\ downstreamBuf \in Seq(Unit) /\ grpcStreamId \in {"None", "Some"}
    /\ upstream \in {"idle", "asked", "switched", "switching", "switchedInPieces", "otherwise"}
    /\ leaked \in BOOLEAN /\ metadataSeen \in BOOLEAN
    /\ grpc \in {"none", "failed", "open", "halfClosed", "closed", "aborted"}
    /\ toGrpc \in Seq(ForwardedFrame) /\ messages \in Seq(Message)
    /\ toClient \in Seq(ClientFrame)

(* How many frames have wholly reached the filter. *)
Delivered == Arrived(frames, inbound)

(* However TCP cuts the stream, the server is sent exactly the data frames *)
(* delivered whole, in order, with text and binary told apart: all of them *)
(* while the stream is open or the client closed it, those before the      *)
(* server's close otherwise, and none when the stream did not open.        *)
ForwardFaithful ==
    /\ IsPrefixOf(toGrpc, DataAmong(frames, Delivered))
    /\ grpc \in {"open", "halfClosed"} => toGrpc = DataAmong(frames, Delivered)
    /\ grpc \in {"none", "failed"} => toGrpc = <<>>

(* What the client is sent, apart from one Close of the server's: a pong   *)
(* for each ping, in order, and a frame for each message that decodes, in  *)
(* order and of the message's type; no data follows the Close.             *)
ReplyFaithful ==
    /\ state = "Active" => Only(toClient, {"pong"}) = PongsFor(frames, Delivered)
    /\ Only(toClient, {"text", "binary"}) = FramesFor(messages)
    /\ Len(Only(toClient, {"close"})) = (IF grpc \in {"closed", "aborted"} THEN 1 ELSE 0)
    /\ \A i, j \in 1..Len(toClient) :
         toClient[i].op = "close" /\ j > i => toClient[j].op = "pong"

(* WebSocket bytes stay away from the dummy upstream, unless the 101 came  *)
(* in pieces.                                                              *)
NoRawBytesUpstream == leaked => upstream = "switchedInPieces"

(* The inductive invariant behind these.  While the filter waits for the   *)
(* upstream's answer nothing is on its way from the client, unless the     *)
(* upstream switched without the filter's notice.                          *)
UpgradeInv ==
    /\ state = "AwaitingUpgradeRequest" =>
         upstream = "idle" /\ inbound \in {UnitsOf(0), <<[item |-> 0, last |-> TRUE]>>}
    /\ state = "AwaitingUpgradeResponse" =>
         /\ upstream \in {"asked", "switching", "switchedInPieces", "otherwise"}
         /\ upstream = "switchedInPieces" \/ inbound = <<>>
         /\ downstreamBuf = <<>>
    /\ state = "Active" => upstream = "switched"
    /\ ~Upgraded => frames = <<>>
    /\ NoRawBytesUpstream

(* The buffer of an Active filter is what lies between the frames that     *)
(* have wholly arrived and what is on its way: less than a frame.          *)
FramingInv ==
    /\ CloseIsLast(frames)
    /\ state # "AwaitingUpgradeRequest" => Ending(frames, inbound)
    /\ state = "Active" =>
         /\ Len(downstreamBuf) < UnitsPerItem
         /\ Between(frames, Delivered, downstreamBuf, inbound)

(* The stream id belongs to a stream the host may still send on, and a     *)
(* half-closed one has no more frames coming.                              *)
StreamInv ==
    /\ state = "Active" <=> grpc # "none"
    /\ grpc = "open" => grpcStreamId = "Some"
    /\ ~StreamLive => grpcStreamId = "None"
    /\ grpc = "halfClosed" => HasClosed(frames) /\ inbound = <<>>
    /\ state # "Active" => toClient = <<>>
    /\ grpc \notin {"closed", "aborted"} => \A i \in 1..Len(toClient) : toClient[i].op # "close"

IInv ==
    TypeOK /\ UpgradeInv /\ FramingInv /\ StreamInv /\ ForwardFaithful /\ ReplyFaithful

(* Nothing is sent on a gRPC stream that is half-closed, closed or was     *)
(* never opened, even when late metadata stores the id again.              *)
SendOnlyWhileOpen == [][toGrpc' # toGrpc => grpc = "open"]_vars

(* A client that closes an established connection gets a Close back.       *)
CloseIsAnswered ==
    (state = "Active" /\ grpc # "failed" /\ HasClosed(frames))
        ~> (\E i \in 1..Len(toClient) : toClient[i].op = "close")

=============================================================================
