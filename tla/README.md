# grpcgi: specification and verification

grpcgi lets a proxy speak gRPC to an ASGI application: an Envoy filter turns an
HTTP request or a WebSocket connection into a gRPC call, and a Python server
turns the call into ASGI events. This directory holds TLA+ models of those
parts, the TLC configurations that check them and TLAPS proofs about them.
Paths below are relative to the repository.

## 1. Inventory

| Component | Code | State | Operations |
|---|---|---|---|
| HTTP servicer, streaming | `python/grpcgi/http.py`, `Process` | two unbounded queues, three asyncio tasks | read first message, pump, application, consume and yield, cancel and join |
| HTTP servicer, unary | `http.py`, `Handle` | received flag, body-sent event, buffered response | receive, send, return or abort |
| WebSocket servicer | `python/grpcgi/ws.py`, `Connect` | two queues, three tasks, initial metadata sent or not | as `Process`, with the handshake and UTF-8 |
| Server | `python/grpcgi/server.py` | stop event | start, signal, stop with 5 s grace |
| Scope builders | `_build_scope`, `_parse_authority` in both servicers | none | headers to ASGI scope |
| WASM WebSocket filter | `wasm/src/lib.rs` | `State`, `downstream_buf`, `grpc_stream_id` | data callbacks both ways, four gRPC callbacks |
| WASM HTTP filter | `wasm/http-bridge/src/lib.rs` | headers, body, `call_token`, `passthrough`, `body_pending` | header and body callbacks, unary answer |
| Native WebSocket filter | `envoy-filter/ws_grpc_bridge_filter.cc` | `state_`, `pending_upstream_data_`, `frame_remainder_`, `grpc_stream_` | decodeHeaders, decodeData, gRPC callbacks, onDestroy |
| Codecs | in the three filters | none | WebSocket frames, protobuf fields, varints |
| Protocol | `proto/grpcgi/v1`, `docs/protocol.md` | | the messages the servicers and filters exchange |
| v1alpha1 design | `proto/grpcgi/v1alpha1`, `docs/spec` | | no code yet |

How they interact:

    HTTP client -- WASM HTTP filter -- HttpBridge.Handle  --+
    proxy (streaming) -------------- HttpBridge.Process  --+-- ASGI application
    WS client -- WASM or native filter -- WebSocketBridge.Connect

A filter reacts to callbacks of its host (client data, upstream data, gRPC
events), one at a time, in an order it does not choose. A servicer runs as one
asyncio task per RPC and starts two more: a pump that moves client messages to
the application's receive queue, and the application. They share only the two
queues; grpc.aio cancels the servicer's task when the client goes away, a
deadline passes or the server stops.

What is hard, and what makes each part correct:

- *Servicers.* Exit, cancellation, half-close and the final chunk race in any
  order. Correct means: every message once, in order, nothing invented but one
  end of request; the client sees everything up to the event that ends the
  response and nothing after it; no task outlives its RPC; every exchange ends.
- *WebSocket filters.* TCP cuts frames anywhere, the gRPC stream may fail, end
  or become ready at any moment. Correct means: every data frame forwarded once
  and in order, whole; control frames answered here; nothing sent on a stream
  that is gone; a Close answered.
- *HTTP filter and `Handle`.* A timeout races the answer, the request may have
  gone on to the route, the application waits for an event that only it can
  set. Correct means: one dispatch of the whole body, a whole answer of the
  application or none of it, an answer in every case, no application that goes
  on for an exchange that is over.
- *A whole connection.* Filter, stream and servicer each wait for the others and
  learn late that another is gone. Correct means: frames once and in order from
  end to end, nothing waits for ever, no application without a client.
- *Codecs.* Lengths at 125/126, 65535/65536 and beyond 2^32; truncated input;
  fields nobody knows yet.

The complete list of hazards, each at its line and with the properties that
cover it, is `hazards` in `PROJECT.json`.

## 2. Modules

| Module | Models | Extends / uses |
|---|---|---|
| `FifoRelay` | abstract: what one direction of a bridge promises | |
| `Selection` | helpers: the elements of a sequence that are in a set, their images, pieces put together | |
| `HttpProcess` | `HttpBridgeServicer.Process` | `Selection`; instance of `FifoRelay`, twice |
| `WsConnect` | `WebSocketBridgeServicer.Connect` | `Selection`; instance of `FifoRelay`, twice |
| `WsFraming` | the client's byte stream and the frame loop shared by both filters | `Selection` |
| `WsBridgeStream` | the WASM WebSocket filter | `WsFraming` |
| `WsGrpcBridgeFilter` | the native WebSocket filter | `WsFraming` |
| `WsPath` | composition: native filter, gRPC stream, `Connect` | instances of `WsGrpcBridgeFilter` and `WsConnect` |
| `HttpHandle` | `HttpBridgeServicer.Handle` | |
| `HttpBridgeFilter` | the WASM HTTP filter | |
| `HttpBridge` | composition: WASM HTTP filter, unary call, `Handle` | instances of both |
| `ProtoCodec` | varints, `Frame`, `HttpRequest`, `HttpResponse` of the WASM filters | |
| `WsCodec` | WebSocket frames of the WASM filter | `ProtoCodec` |
| `ScopeBuilders` | upgrade request to metadata, headers to ASGI scope | |
| `Codecs` | bounded inputs for the three above, and their properties | `WsCodec`, `ScopeBuilders` |
| `MC...` | instances, and properties the code does not have (section 4) | the module |
| `..._proof` | proofs (section 6) | the module, `Selection_proof` or `WsFraming_proof` |
| `Selection_proof`, `WsFraming_proof` | lemmas about the operators of the two modules, and about a history followed by a queue | `SequenceTheorems` |
| `WsPath_proof` | proofs about the composition | `WsPath`, `WsFraming_proof`; instances of both components' proof modules |

A definition whose name ends in `_word` (`Rest_cleared`, `PumpEof_silent`) is a
broken variant of the one it is named after; no specification uses it. It
documents which mistake a property would catch: `mutants` in `PROJECT.json`
says which.

### HttpProcess and WsConnect

One action is the code between two `await`s that can wait; `put` on an unbounded
queue cannot. `handler` is where the generator waits:

| `handler` | `Process` | `Connect` |
|---|---|---|
| `first` / `new` | `request_iterator.__anext__()` (164) | before the first wait (115-134) |
| `consume` | `send_queue.get()` (221) | (176) |
| `yield`, `metadata` | a `yield` (238, 249) | a `yield` (197, 201), `send_initial_metadata` (188) |
| `gather` | the `finally` clause (272) | (219) |
| `ended` | the RPC is over, with `outcome` | |

`pump` and `app` are the two tasks. `cancelling` is a task whose cancellation
is requested and not yet over. An application may go on receiving and sending
there; a pump ends at its next wait. `dropped` is an application task cancelled
before it ever ran: its coroutine body is not entered, so no `_APP_DONE` is put.
The pump needs no such state, as a pump cancelled before it ran and one
cancelled while it waits both end without a put.

`sent`, `appGot`, `consumed`, `responses` / `frames` are histories, so that
properties can compare what went in with what came out. The queues plus the
histories are the whole directions: `Offered` is everything put for the
application, `Produced` everything it has put.

The environment: the client sends any messages in any order, including illegal
ones, half-closes, cancels; an application receives and sends anything and exits
when it likes. A cancelled RPC's message iterator reads as exhausted, so the
pump may see the end of the stream before the handler sees the cancellation;
the application is then offered an end of request. `RequestFaithful` allows
exactly that. A cancellation reaches the `finally` clause wherever the handler
is suspended: at an `await` as `CancelledError`, at a `yield` because grpc.aio
closes the generator or throws into it, which is an assumption on grpc.aio.

Not in these models: the contents of headers and scopes (a header that does not
decode is the event `bad`; a scope that cannot be built is `ScopeFails`;
`ScopeBuilders` has the rest), status codes, and log messages.

### WsFraming, WsBridgeStream and WsGrpcBridgeFilter

A frame is its opcode, its FIN bit and its position among the frames of the
client; two units stand for its bytes, the second completes it. A callback gets
any number of units, so all of these happen: half a frame, one frame, several,
one and a half. `WholeFrames` is what a parser finds complete, `Handled` how far
the loop runs (up to a Close), `Rest` what stays in the buffer. Payloads need no
more than the position: a filter never looks into them.

`WsBridgeStream` starts with the upgrade request on its way (item 0) and
distinguishes the upstream's answers: a 101 in one chunk, a 101 in two, any
other; after another one the filter goes on looking for a 101, as the code does
(`OtherResponse`). `WsGrpcBridgeFilter` lets frames come before the stream is
ready (`pending`) and Envoy destroy the stream at any moment. A `sendMessage` that
breaks the stream calls `onRemoteClose` from inside the frame loop
(`LoopBreaks`): the loop finds the filter closed after that frame and stops.

External assumptions, for hosts that are not part of the repository:

- proxy-wasm: each data callback gets bytes not seen before, even after
  `Action::Pause`; `set_downstream_data` adds to what the client is sent;
  `close_grpc_stream` half-closes; no gRPC callback comes after the stream's
  close. These are the readings the filter's comments give.
- Envoy: no callback comes after a stream's remote close or reset; `start()` may
  call `onRemoteClose` before it returns null, and so may `sendMessage` before it
  returns.
- The client conforms to RFC 6455: no frame before the 101 or after another
  answer (WASM filter), none after its Close, continuation frames only inside a message.

### WsPath

The variables of both instances, joined by what the stream carries. `Connect`'s
`sent` is the filter's `toGrpc`, its `halfClosed` the filter's half-close; these
two are the substitutions of the instance, not variables. Towards the client the
frames the servicer yielded (`yielded`) become the filter's messages later and
in order (`MessageArrives`), after the metadata (`MetadataArrives`), before the
trailers (`TrailersArrive`). A reset reaches the servicer as its cancellation
(`CancelRpc`), perhaps much later; a lost connection is told to the filter first.
Chunks are whole frames here, since `native_ws` has every cut of them.

### HttpHandle, HttpBridgeFilter and HttpBridge

`Handle` has no queue: `received`, `bodySent` and the three buffers are the
variables of its closures, `waiting` a `receive()` inside `_body_sent.wait()`.
The application calls both closures in any order; frameworks do so from tasks of
their own. `rpc` goes from `live` to `cancelled` when the runtime knows, to
`delivered` when `CancelledError` is raised in the application.

The filter's callbacks are actions with `end_of_stream`, the upgrade test and the
result of `dispatch_grpc_call` as inputs. `route` is what `Action::Continue` has
let go on to the route: the filter returns Continue for the headers of a request
with a body, so the route may answer before the filter does (`RouteAnswers`),
and a request that ends with trailers is never dispatched at all
(`RequestTrailers`). In `HttpBridge` a dispatched call may reach the server after
it was timed out or its filter destroyed (`CallArrives`), its result races the 30 s timeout (`CallFails`), and the servicer learns
of either later (`CallerGone`). Trailers, aborts, the route and the transport
are of the host and are marked external.

### ProtoCodec, WsCodec, ScopeBuilders and Codecs

The codecs are operators on sequences of bytes, with every width a constant:

| Constant | Code | `codecs` |
|---|---|---|
| `Group`: values of a varint digit, top bit of a byte | 128 | 32 |
| `MaxDigits`: digits of a varint | 10 | 3 |
| `Word`: u64 | 2^64 | 2048 |
| `U32`: u32, and usize on wasm32 | 2^32 | 1024 |
| `Fixed32`, `Fixed64`, `ExtLen`, `LongLen`, `KeyLen` | 4, 8, 2, 8, 4 | 1, 2, 1, 2, 2 |

They keep the proportions that matter: a word needs all the digits and not all
of the last one, a byte is two groups, the extended length is one byte form above
the indicator and the long one wider than usize. The sum of a position and a
length wraps as usize does in a release build on wasm32 (`Advanced`). `ReadVarint`
stands for both copies of `read_varint`: they take a position and a slice and are
otherwise the same, so no run compares them. `StrictFields` reads as `decode_frame_proto` with
`skip_field` do, `LenientFields` as `decode_http_response` and `decode_header`,
whose slices trap on a known field that overruns the input. `Trap` is the value
of a decoder that does not return: a slice out of range, one that would end
before it starts because the sum wrapped, or a jump back to a field already read,
and so for ever.

`ScopeBuilders` takes headers as records; a target is its path and its query. It
goes from the lines of an upgrade request, through what gRPC accepts as metadata,
to the two `_build_scope`. `Codecs` enumerates the inputs: a state is an input,
and each property an invariant over all of them.

## 3. Passing runs

| Run | Bounds | Distinct states | Shows |
|---|---|---|---|
| `http_safety` | 3 messages, 2 events, one payload and the empty one | 3.2 million | `RequestFaithful`, `ResponseFaithful`, `IInv` |
| `http_contract` | 2 messages, 2 events | 0.3 million | `RequestRelaySpec`, `ResponseRelaySpec`, `EveryExchangeEnds`, `RequestEndReachesApp` |
| `ws_connect` | 2 frames, 2 events, 3 of both in all; a payload that is UTF-8 and one that is not | 0.6 million | `ReceiveFaithful`, `SendFaithful`, `IInv`, `ReceiveRelaySpec`, `SendRelaySpec`, `EveryConnectionEnds`, `DisconnectReachesApp` |
| `wasm_ws` | 3 frames, 2 messages | 0.2 million | `ForwardFaithful`, `ReplyFaithful`, `NoRawBytesUpstream`, `IInv`, `SendOnlyWhileOpen`, `CloseIsAnswered` |
| `native_ws` | 3 frames, 1 message | 0.4 million | `ForwardFaithful`, `ReplyFaithful`, `StreamMatchesState`, `IInv`, `CloseIsAnswered` |
| `ws_path` | 2 frames (text, Close), 1 event | 0.2 million | `PathFaithful`, `FramesReachApp`, `NoAppOutlivesClient` |
| `http_bridge` | 2 chunks of 2 payloads, 2 events, 3 receives, 2 headers, 2 statuses | 0.2 million | `RequestFaithful`, `AnswerFaithful`, `DisconnectFollowsFinal`, `IInv`, `EveryRequestAnswered`, `NoAppOutlivesExchange` |
| `codecs` | payloads up to 68 bytes, 5 arbitrary bytes of 8, 3 lines or headers | 39,737 | `VarintFaithful`, `FrameProtoFaithful`, `WsFrameFaithful`, `HttpMessagesFaithful`, `DecodersCompose`, `HeadersReachApp` |

Each `IInv` is the inductive invariant of section 6 and holds the type invariant;
that of the servicers also gives `TasksJoined`: no task outlives its RPC. That of
`WsPath` joins two of these and is proved; no run keeps it.

Every constant `Max...` is a bound on the environment, named where it is
declared; the code has none of them.

Why the bounds are enough. *Process*: the first message is special and the pump
treats the others alike, one at a time; three messages give headers, a chunk and
whatever follows it (a second end, trailers, other headers). The handler looks
at one event at a time; two events give start and body, an end and something
after it, and the sentinel comes on top. One payload besides the empty one is
enough to tell kept from dropped; positions are told apart by their flags.
*Connect*: two frames, each good or not, with `connect` before them and the
disconnect after them, give the order of frames, a frame after one that does not
decode and four events of the receive relay; two events of the application give a
handshake after a frame. What ends a connection comes on top of both. The
constraint `AtMostThree` leaves out two frames with two events: the directions
meet only where the handler ends, which either of two events does. Without the
temporal properties and the constraint the run passes as well (2.8 million
states), and the relays and `IInv` are proved for every bound besides. The
contract run of `Process` has one message less, since a temporal property costs
more per state. *Filters*: three frames give a fragment, a control frame inside the
message and a continuation, or data on both sides of a Close or ping, at every
cut. *`WsPath`*, whose safety is proved for every bound: two frames give one
buffered before readiness and one after, or a frame and a Close, and both decode,
so that both can arrive (`ws_connect` has those that do not); the one event is the
accept, with or without a subprotocol, or a message: what sends the metadata. *`HttpBridge`*: two
chunks tell collected from replaced and from swapped, two events have the final
chunk before or after something else, three receives the request and two
disconnects. *`Codecs`*: 68 bytes pass every length boundary of the scaled widths
(29/30 and 30/31 of a frame's indicator, 31/32 of a varint, 63/64 of the extended
length) and give varints of every number of digits, with and without superfluous
ones; five bytes hold two fields and part of a third, and eight letters the tags
of known and unknown fields of each type and the digits of a length that wraps;
three headers are two of a name and another.

Deadlock is not checked: in each model everything may have ended.

Fairness. The asyncio loop runs every ready task (`HandlerStep`, `PumpStep`,
`AppStart`); the runtime delivers a cancellation it has been given
(`HandlerCancelled`); a cancelled application ends. That last one is an
assumption on the application, without which `Process` and `Connect` do not end
(hazard at `http.py:271`). A `yield` held by flow control is released by the
client or by the cancellation. Nothing is assumed of clients, or of an
application nobody cancelled. For the filters: the network delivers, the
upstream answers the upgrade, the server ends a stream its peer has half-closed
(an application that gets `websocket.disconnect` returns), Envoy destroys a
stream after its reset. No fairness is assumed of the server's initial metadata,
because `Connect` sends none before its first frame unless a subprotocol is
accepted: `CloseIsAnswered` of the native filter starts from readiness, and in
`WsPath`, which knows when it is sent, the stream delivers it
(`MetadataArrives`). `HttpBridge` adds that the timer of the call fires
(`CallFails`): `EveryRequestAnswered` rests on nothing else, so that an
application that waits for ever is covered; and that a woken or cancelled
coroutine runs and a cancelled application exits, as above. Nothing there makes
a client go on, a route answer or an application that nobody cancelled act.

## 4. Runs that show a divergence

Each checks one property that a document or comment of the repository states;
TLC finds it violated. The lines are quoted in `findings` of `PROJECT.json`.

| Run | Stated | The code |
|---|---|---|
| `ws_undecodable_disconnect` | `ws.py:153`: the client closed the stream, send disconnect | a text frame that is not UTF-8 kills the pump, and the disconnect with it |
| `wasm_ws_split_101` | `lib.rs:194`: raw WebSocket bytes never reach the upstream | the search for the 101 looks at one chunk at a time |
| `native_accept` | `ws.py:184`: the stream is open, accepting is implicit (also `docs/protocol.md:132-133`) | the filter forwards nothing before initial metadata, and a plain accept sends none: an application that waits for the client's first message never gets it, unless the client leaves |
| `ws_scope_path` | `ws.py:22-23`: the filter is configured to match the `grpcgi-` keys | both filters copy the headers as they are; the path is `:path`, which is no metadata, and the application sees `/` |

`docs/protocol.md` calls itself superseded, and is kept "until the Python bridge
and filters move to the new schema"; it is the document these parts implement.

Other divergences the models contain, without a run of their own:

- `Process` ends OK although the application exited without a complete response
  (`Consume` at `APP_DONE`), against `protocol.md:91`; `end_of_stream` of the
  request headers is never read (`FirstHeaders`), against `http.proto:73-74`;
  headers or trailers in the middle of a request are dropped where
  `protocol.md:50-51` asks for a protocol error (`PumpRead`); the receive queue is
  unbounded against `protocol.md:144-146`.
- A failed pump of `Connect` leaves the outcome OK against `protocol.md:129-130`
  (`TasksDone` takes `failed` for done).
- The WASM WebSocket filter takes the first fragment of a message for a message and
  discards the rest (`Forwarded`), against `protocol.md:120-121`; it closes with
  1000 whatever the status, and not at all when the stream does not open, against
  `protocol.md:170-172` (`CloseCode`, `Switching`).
- `encode_frame_proto` returns the message alone (`EncodeFrameProto`), as its comment
  says (`wasm/src/lib.rs:425`: proxy-wasm adds the framing), and
  `FrameProtoFaithful` holds of those bytes. The unit tests expect five bytes of
  gRPC header before them, a flag of 0 and the length: `frame_proto_grpc_header`
  (`lib.rs:714-722`), `frame_proto_known_encoding` and
  `frame_proto_known_encoding_binary` (`lib.rs:725-742`). For the payload `x` the
  code's first byte is the tag 0x0a, where the first of them asserts 0x00.
- The native filter never lets go of the upgrade request it holds (no action after
  `UpgradeRequest` does), against its comment at line 114, and forgets an
  `end_stream` that comes while Connecting (`OnReceiveInitialMetadata`), against
  the one at line 125.
- The WASM HTTP filter answers a timeout with 502 (`AnswerTo`) where
  `protocol.md:162` has 504; `demo/envoy.yaml:24-26` calls the route unused for
  HTTP, but the headers of a request with a body, all of one whose dispatch fails
  and all of one with trailers go there (`OnHttpRequestHeaders`,
  `RequestTrailers`).
- A line that is not UTF-8 costs an upgrade request all its headers
  (`ParseHttpRequestHeaders`). A status of 0 is answered as 200 and a header
  without a name left out (`DecodeHttpResponse`). A 64-bit length is cut to 32
  bits (`PayloadLength`), so `WsFrameFaithful` is stated for lengths that usize
  holds; a length close to 2^32 makes the sum with the position wrap in all three
  decoders, which then trap or read an earlier field again (`Advanced`,
  `TrapsOnWrap`, `ParseWsFrame`). `decode_header` knows no field of fixed width
  and stops at one (`DecodeHeader`). `decode_http_response` traps on input that is cut inside a field it
  knows; a servicer's answer is never cut, so `HttpMessagesFaithful` holds.

## 5. Refinement

`FifoRelay` is the contract of one direction: accepted items are delivered in
order, a closing item is the last one accepted, nothing is delivered after an
ending item. `HttpProcess` and `WsConnect` instantiate it for each direction,
with the mapping at the end of each module: the source's history (`Offered`,
`Produced`), the sink's history (`appGot`, `consumed`), and whether the source
task may still put. `RequestRelaySpec`, `ResponseRelaySpec`, `ReceiveRelaySpec`
and `SendRelaySpec` are checked by TLC and proved by TLAPS.

`WsPath` and `HttpBridge` compose the other way: their actions are the instances'
actions, conjoined with what the other side keeps and, where the two meet, with
the guard that the other side's state gives (an answer needs a `Handle` that
ended, a message one that was yielded). The environment of each component alone
is weaker than the other component, so what holds of `WsGrpcBridgeFilter` or
`WsConnect` alone holds here; the compositions are about what neither shows.
For the filter this is the theorem `FilterOnPath`: `WsPath` implements the
specification of `WsGrpcBridgeFilter`, so that each theorem about the filter is
one about the path. For the servicer, whose client is a stream that the filter
writes, `ServicerOnPath` proves what it promises the client, and the step lemmas
of its proof carry its invariant over.

`WsPath` instantiates `FifoRelay` once for each direction too, this time from end
to end, with nothing of the queues, buffers and messages between. Upwards
(`UpRelaySpec`) the source is the data frames the client has sent, open until it
closes or leaves; the sink is the frames among the events the application has
received. Downwards (`DownRelaySpec`) the source is the frames yielded, open until
the handler is on its way out, and the sink the data frames shown to the client.

## 6. Proofs

Every theorem holds for every set of payloads and every bound. The servicers:

| `HttpProcess_proof` | `WsConnect_proof` | States |
|---|---|---|
| `TypeCorrect` | `TypeCorrect` | `[]TypeOK` |
| `NoTaskOutlivesRpc` | `NoTaskOutlivesRpc` | `[]TasksJoined` |
| `RequestReachesApp` | `FramesReachApp` | `[]RequestFaithful`, `[]ReceiveFaithful`: what the application is offered is what the client sent |
| `ResponseReachesClient` | `EventsReachClient` | `[]ResponseFaithful`, `[]SendFaithful`: what the client is shown is what the application sent |
| `RequestIsRelay` | `ReceiveIsRelay` | `Spec` implements the relay towards the application |
| `ResponseIsRelay` | `SendIsRelay` | `Spec` implements the relay towards the client |
| `Invariant` | `Invariant` | `[]IInv` |

The filters and the HTTP path:

| Theorem | States |
|---|---|
| `WsBridgeStream_proof!FramesReachServer`, `WsGrpcBridgeFilter_proof!FramesReachServer` | `[]ForwardFaithful` |
| `WsBridgeStream_proof!RepliesReachClient`, `WsGrpcBridgeFilter_proof!RepliesReachClient` | `[]ReplyFaithful` |
| `WsBridgeStream_proof!SendsWhileOpen` | `SendOnlyWhileOpen`, an action property |
| `WsBridgeStream_proof!RawBytesStay` | `[]NoRawBytesUpstream` |
| `WsGrpcBridgeFilter_proof!StreamFollowsState` | `[]StreamMatchesState` |
| `HttpBridge_proof!RequestReachesApp` | `[]RequestFaithful` |
| `HttpBridge_proof!ResponseReachesClient` | `[]AnswerFaithful` |
| `HttpBridge_proof!DisconnectIsFinal` | `[]DisconnectFollowsFinal` |
| `HttpBridge_proof!AnswerIsHandles` | `[]AnswerIsResponse`: a response the client was shown is the one `Handle` returned, for good |
| `HttpBridge_proof!OneRunPerRequest` | `[]RunsOnce`: an application runs only for one plain request that is over |
| `Invariant`, `TypeCorrect` of each of the three | `[]IInv`, `[]TypeOK` |

The path of a WebSocket connection, in `WsPath_proof`:

| Theorem | States |
|---|---|
| `PathCarriesFrames` | `[]PathFaithful`: in order, once, without a gap, both ways, and no disconnect made up |
| `UpIsRelay`, `DownIsRelay` | `Spec` implements the relay from client to application, and the one from servicer to client |
| `FilterOnPath` | `Spec` implements the specification of the filter |
| `ServicerOnPath` | `[](S!SendFaithful /\ S!TasksJoined)`, for the servicer behind the filter's stream |
| `Invariant` | `[]IInv` |

Assumptions on the constants. `HttpProcess`: `PayloadAssumption` (the empty
payload is not one of `Data`) and `BoundAssumption`. `WsConnect`:
`Utf8Assumption` (the payloads without a text form are payloads, an absent field
is none) and `WsBoundAssumption`; a text that does not encode has to be a text,
so that its event raises and is not passed over. `HttpBridge`:
`BridgeAssumption` (`None` is no response, else one that cannot be read would
count as one, and 200, the default, is a status). The filters have bounds only,
and their proofs use none of them. `WsPath`: `PathAssumption` is what the two
components assume, read at the path's constants (a payload is the position of a
frame, `NotUtf8` some of the positions); `ChoiceAssumption` says that the frames
and events chosen are ones that a client and an application can send.

None of the properties is inductive as it stands; each `IInv` is in the
component's own module, so that TLC checks it too.

*Sequences.* The properties compare histories through selections (the data
frames among the frames, the chunks among the messages), which are recursive.
`Selection` writes them as functions over the prefixes of a sequence, and
`Selection_proof` proves what they do when an element is appended or two
sequences are joined. The library's induction theorems take a predicate as an
operator parameter, which the provers cannot instantiate; here a predicate is
the set of the numbers that satisfy it (`SetInduction`, from the least element
of a set of naturals, and `AppendInduction` over the lengths of sequences),
which is first-order. It also has the facts about a history followed by a
queue: taking the head keeps the whole, putting at the end appends to the whole.

*Servicers.* `TasksJoined` follows from `Lifecycle`: the tasks do not exist
before the first message, are started with the loop, and from the moment the
handler waits in gather each is on its way out, so `Join` finds them done. The
request direction needs `EndOfRequestLast`: an end of request is the last event
offered, and the pump is done. It rests on two steps of the pump (an end stops
it) and on nobody else putting. `FirstReadOnce` counts: the handler has read one
message and the pump the others, so what was offered is the image of what was
read after it. The response direction needs `LoopGoesOn`: while the handler is
in its loop it has taken no terminator, but for the final chunk it has just
yielded, so a `Consume` is a `Forward` of the relay; and `YieldedWhatItTook`:
the responses are the wire form of what was taken, in which only the last item
may be a terminator. `RequestStep` and `ReplyStep` classify every step once
(puts, takes, or neither) and both the invariants and the refinements are built
on them.

`WsConnect_proof` follows the same lines. Its request direction starts from the
seeded `connect` (`Start` is a put of the relay), its pump may fail, which closes
the relay's source without a closing item, `DisconnectLast` takes the place of
`EndOfRequestLast` and `ReadsOnceStarted` that of `FirstReadOnce`. `LoopGoesOn`
is simpler, since no frame ends the loop after its `yield`; `YieldedWhatItTook`
also tells which of the events taken has sent the initial metadata.

*Filters.* What both share is in `WsFraming_proof`. A unit is `Aligned` when its
frame and half follow from its position in the client's stream; `Ending` says
that what is on its way ends the stream, `Between` that a buffer is what lies
between the first n frames and that. `ChunkTaken` moves the cut between the two;
`BufferHandled` is the frame loop: on a buffer of whatever length that starts
after n frames, it handles exactly the frames that have now wholly arrived,
keeps less than a frame, and sends what they add to the references; a Close is
the last frame there is. So `FramingInv` needs to say only which of the buffers
is `Between` what, in which state: the WASM filter's when Active; the native
one's `pending` from frame 0 on while Connecting, its remainder when Active.
`UpgradeInv` says that while the WASM filter waits for the upstream's answer
nothing else of the client is on its way, unless the upstream switched without
its notice; `RequestChunk` follows the upgrade request through its cuts.
`StreamInv` joins the filter's state, its stream id or pointer and the stream
itself. That of the WASM filter also carries `SendOnlyWhileOpen`: a half-closed
stream has nothing left to come, so the id that late metadata stores is never
used. That of the native one says that a filter which is not ready has sent
nothing, that a message can only come when it is Active or Closing, and that
one which sent a Close is done: hence nothing follows the Close. A loop that
breaks at a frame (`LoopBreaks`) has sent what the frames up to it add, which is
the first part of what the whole buffer would add (`PartForwarded`), and leaves a
filter that is closed (`Broken`, `BreakKeeps`).

*HTTP path.* `Closures`: the event is set exactly when a final chunk is among
those sent. `RequestFirst`: the first event given out is the request. `OneCall`:
a call was dispatched once, for a plain request that is over; it needs that
`body_pending` is not set before the headers. `BodyCollected`: what was collected
is the body so far, what was dispatched the whole of it, what `Handle` got what
was dispatched. `Settled`: an RPC with an outcome has an application that is
done, so the buffers no longer change, which makes `AnswerIsResponse` inductive;
`Buffered`: what they hold is the response that the events so far make.

*The path.* `IInv` of `WsPath` is the invariant of the filter, that of the servicer
and `Linked`: the messages the filter has are the first of those yielded, and
what the application was offered is what the pump has read of the stream
(`OfferedWhatWasRead`, which `ReceiveFaithful` of `WsConnect` splits off: its
other half, `DisconnectWhenOver`, becomes `ToldOfDisconnect => ClientLeft` here,
since a stream that is half-closed is one whose client has left). A step is one of the
filter's (`FilterMoves`) or one of the servicer's (`PathSteps`). A servicer's step
leaves the filter alone, and the component's own lemma keeps its invariant. A
filter's step may write to the stream under a servicer that does not move:
`Undisturbed` shows that the servicer's invariant speaks only of what it has
already read of the stream. Both components' proof modules are instantiated with
the substitutions of `WsPath`; an instance of a proof module holds the component's
definitions a second time, and the lemmas `Same...` say that they are the same.

`PathFaithful` and the relays then compose three equalities: what the filter sent
is the data among the frames that wholly arrived (`ForwardFaithful`), what the pump
read is a prefix of that, and the frames among what was offered are what it
read (`OfferedIsSent`); downwards, what is shown is the messages and these are the
first of the yielded (`ShownIsYielded`). A step of the filter that takes a new
frame from the client is an `Accept` of the upward relay if it is a data frame
(`UpFilterStep`), a `receive` of a frame event by the application a `Forward`
(`UpServicerStep`); a `yield` is an `Accept` of the downward one, and a message that
the filter writes a `Forward` (`DownStep`).

Only model-checked: every liveness property (fairness and `ENABLED` are outside
the prover); the codecs, because `Codecs` reaches `Bitwise` through the unmasking of
`WsCodec`, and the decoders are recursive over bytes; and the scope builders, whose
properties `Codecs` states over the same inputs.

## 7. Not modelled

- `serve()`: a signal sets an event and `server.stop(grace=5)` follows; its
  concurrency is in grpc.aio, and what it does to an RPC is `CancelRpc`.
- Configuration parsing and factories: no state after start.
- `parseFrame`, `encodeFrame` and `buildCloseFrame` of the native filter byte by
  byte: they do on Envoy's buffers what `WsCodec` does on sequences, and
  `WsFraming` models what a parse decides.
- White space around header names and values, and the text of log messages.
- The proxy-wasm and Envoy hosts, beyond the assumptions of section 2: whether
  `Action::Pause` shows the same bytes again depends on the host.
- Generated stubs, demo and examples; the v1alpha1 design and its header table
  tool (no code of the running system); the service `WebSocketBridge.Session`
  (declared, not implemented).

What a continuation would take up: the WASM WebSocket filter composed with
`Connect`, as `WsPath` does for the native one; the native parser in `Codecs`,
shown to agree with the WASM one; and the proof of the varint and `Frame` round
trips.
