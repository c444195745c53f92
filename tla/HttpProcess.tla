----------------------------- MODULE HttpProcess -----------------------------
(***************************************************************************)
(* HttpBridgeServicer.Process (python/grpcgi/http.py): one bidirectional   *)
(* gRPC stream carries one HTTP request to an ASGI application and its     *)
(* response back.  Three asyncio tasks of one RPC interleave:              *)
(*                                                                         *)
(*   handler   the async generator itself: reads the first message, then   *)
(*             consumes sendQueue and yields responses                     *)
(*   pump      _pump_body: request stream -> receiveQueue                  *)
(*   app       _run_app: the ASGI application, between the two queues      *)
(*                                                                         *)
(* asyncio switches tasks only where one waits, so the code between two    *)
(* waits is one action here.  A put on these unbounded queues never waits. *)
(* The gRPC client and the grpc.aio runtime are the environment: the       *)
(* client sends any messages in any order, half-closes, and the RPC may be *)
(* cancelled at any moment (by the client, its deadline, or serve()        *)
(* stopping the server).                                                   *)
(*                                                                         *)
(* A definition whose name ends in _word is a broken variant of the one    *)
(* after it, for mutation checks; no specification uses it.                *)
(***************************************************************************)
EXTENDS Naturals, Sequences, Selection

CONSTANTS
    Data,        \* non-empty body payloads
    Empty,       \* the empty payload, b""
    MaxRequest,  \* bound: messages a client sends on one stream
    MaxEvents    \* bound: events an application sends

ASSUME PayloadAssumption == Empty \notin Data

ASSUME BoundAssumption == MaxRequest \in Nat /\ MaxEvents \in Nat

Payload == Data \cup {Empty}

(* ProcessingRequest: a oneof of headers, body chunk and trailers. *)
Request == [kind : {"headers"}, data : {Empty}, eos : BOOLEAN]
      \cup [kind : {"body"}, data : Payload, eos : BOOLEAN]
      \cup [kind : {"trailers"}, data : {Empty}, eos : {FALSE}]

(* The http.request event handed to the application. *)
RequestEvent == [body : Payload, more : BOOLEAN]

(* What an application may pass to send(): "start" and "body" are the two  *)
(* http.response events, "bad" is a start whose header bytes do not decode *)
(* as UTF-8, "other" any type the bridge does not know.                    *)
AppEvent == [type : {"start", "bad", "disconnect", "other"}, body : {Empty}, more : {FALSE}]
       \cup [type : {"body"}, body : Payload, more : BOOLEAN]

(* The sentinel _run_app leaves on sendQueue when the application exits. *)
APP_DONE == [type |-> "APP_DONE", body |-> Empty, more |-> FALSE]

SendItem == AppEvent \cup {APP_DONE}

(* ProcessingResponse: a oneof of headers and body chunk. *)
Response == [kind : {"headers", "body"}, data : Payload, eos : BOOLEAN]

Outcome == {"none", "OK", "INVALID_ARGUMENT", "CANCELLED", "UNKNOWN"}

VARIABLES
    sent,          \* every message the client has sent on the request stream
    nread,         \* how many of them the bridge has read
    halfClosed,    \* the client has closed its sending side
    rpc,           \* "live"; "cancelled"; "delivered": the handler was told
    handler,       \* where the generator is waiting
    outcome,       \* how the generator ends
    pump,          \* state of the _pump_body task
    app,           \* state of the _run_app task
    receiveQueue,  \* pump -> application
    sendQueue,     \* application -> handler
    appGot,        \* history: what the application received
    consumed,      \* history: what the handler took off sendQueue
    responses      \* history: what the handler yielded to the client

clientVars  == <<sent, halfClosed, rpc>>
requestVars == <<nread, receiveQueue, appGot>>
replyVars   == <<sendQueue, consumed, responses>>
taskVars    == <<handler, outcome, pump, app>>
vars == <<sent, nread, halfClosed, rpc, handler, outcome, pump, app,
          receiveQueue, sendQueue, appGot, consumed, responses>>

Init ==
    /\ sent = <<>> /\ nread = 0 /\ halfClosed = FALSE /\ rpc = "live"
    /\ handler = "first" /\ outcome = "none" /\ pump = "none" /\ app = "none"
    /\ receiveQueue = <<>> /\ sendQueue = <<>>
    /\ appGot = <<>> /\ consumed = <<>> /\ responses = <<>>

-----------------------------------------------------------------------------
(* The client and the gRPC runtime. *)

ClientSend(m) ==
    /\ rpc = "live" /\ ~halfClosed /\ handler # "ended"
    /\ Len(sent) < MaxRequest
    /\ sent' = Append(sent, m)
    /\ UNCHANGED <<halfClosed, rpc, requestVars, replyVars, taskVars>>

ClientHalfClose ==
    /\ rpc = "live" /\ ~halfClosed /\ handler # "ended"
    /\ halfClosed' = TRUE
    /\ UNCHANGED <<sent, rpc, requestVars, replyVars, taskVars>>

(* Client cancellation, deadline, or server.stop() running out of grace. *)
CancelRpc ==
    /\ rpc = "live" /\ handler # "ended"
    /\ rpc' = "cancelled"
    /\ UNCHANGED <<sent, halfClosed, requestVars, replyVars, taskVars>>

(* request_iterator has a next message, or is exhausted.  A cancelled      *)
(* stream also reads as exhausted: until the handler task is told of the   *)
(* cancellation, the pump cannot tell it from a half-close.                *)
HasNext   == rpc = "live" /\ nread < Len(sent)
Exhausted == (halfClosed /\ nread = Len(sent)) \/ rpc # "live"

-----------------------------------------------------------------------------
(* The handler: the body of Process. *)

(* Lines 269-272: cancel both tasks, then wait for them in gather.  A task *)
(* that has not run yet never will: its coroutine body is not entered.     *)
PumpOnCancel_forgotten == pump
AppOnCancel_forgotten  == app
PumpOnCancel == IF pump = "running" THEN "cancelling" ELSE pump
AppOnCancel  == IF app = "running" THEN "cancelling"
                ELSE IF app = "created" THEN "dropped" ELSE app

Finally(o) ==
    /\ handler' = "gather"
    /\ outcome' = o
    /\ pump' = PumpOnCancel
    /\ app' = AppOnCancel

(* Step 1 with the stream already over: the generator just returns. *)
FirstMissing ==
    /\ handler = "first" /\ Exhausted
    /\ handler' = "ended" /\ outcome' = "OK"
    /\ UNCHANGED <<pump, app, clientVars, requestVars, replyVars>>

(* Step 1 with a first message that is not request_headers: abort. *)
FirstRejected ==
    /\ handler = "first" /\ HasNext
    /\ sent[nread + 1].kind # "headers"
    /\ nread' = nread + 1
    /\ handler' = "ended" /\ outcome' = "INVALID_ARGUMENT"
    /\ UNCHANGED <<pump, app, receiveQueue, appGot, clientVars, replyVars>>

(* Steps 1 to 3: headers read, both tasks created; then wait on sendQueue. *)
FirstHeaders ==
    /\ handler = "first" /\ HasNext
    /\ sent[nread + 1].kind = "headers"
    /\ nread' = nread + 1
    /\ handler' = "consume" /\ pump' = "running" /\ app' = "created"
    /\ UNCHANGED <<outcome, receiveQueue, appGot, clientVars, replyVars>>

(* What the consumer makes of an event it took. *)
EndsLoop(e) == e = APP_DONE \/ e.type = "disconnect"
Yields_dataOnly(e) == e.type = "start" \/ (e.type = "body" /\ e.body # Empty)
Yields(e)   == \/ e.type = "start"
               \/ e.type = "body" /\ (e.body # Empty \/ ~e.more)
Raises(e)   == e.type = "bad"
FinalBody_never(e) == FALSE
FinalBody(e) == e.type = "body" /\ ~e.more

ResponseOf(e) ==
    IF e.type = "start"
      THEN [kind |-> "headers", data |-> Empty, eos |-> FALSE]
      ELSE [kind |-> "body", data |-> e.body, eos |-> ~e.more]

(* One turn of the loop of step 4, up to its yield or its break. *)
Consume ==
    /\ handler = "consume" /\ sendQueue # <<>>
    /\ sendQueue' = Tail(sendQueue)
    /\ consumed' = Append(consumed, Head(sendQueue))
    /\ LET e == Head(sendQueue) IN
       \/ /\ EndsLoop(e)
          /\ Finally("OK")
          /\ UNCHANGED responses
       \/ /\ Raises(e)
          /\ Finally("UNKNOWN")
          /\ UNCHANGED responses
       \/ /\ Yields(e)
          /\ responses' = Append(responses, ResponseOf(e))
          /\ handler' = "yield"
          /\ UNCHANGED <<outcome, pump, app>>
       \/ /\ ~EndsLoop(e) /\ ~Raises(e) /\ ~Yields(e)
          /\ UNCHANGED <<responses, taskVars>>
    /\ UNCHANGED <<clientVars, requestVars>>

(* The transport took the yielded message; break after the final chunk. *)
Resume ==
    /\ handler = "yield"
    /\ IF FinalBody(consumed[Len(consumed)])
         THEN Finally("OK")
         ELSE /\ handler' = "consume"
              /\ UNCHANGED <<outcome, pump, app>>
    /\ UNCHANGED <<clientVars, requestVars, replyVars>>

(* CancelledError reaches the handler wherever it waits.  In gather it     *)
(* does not shorten the wait: gather ends when both tasks have.            *)
HandlerCancelled ==
    /\ rpc = "cancelled" /\ handler # "ended"
    /\ rpc' = "delivered"
    /\ \/ /\ handler = "first"
          /\ handler' = "ended" /\ outcome' = "CANCELLED"
          /\ UNCHANGED <<pump, app>>
       \/ /\ handler \in {"consume", "yield"}
          /\ Finally("CANCELLED")
       \/ /\ handler = "gather"
          /\ outcome' = "CANCELLED"
          /\ UNCHANGED <<handler, pump, app>>
    /\ UNCHANGED <<sent, halfClosed, requestVars, replyVars>>

(* gather returns once both tasks are done. *)
TasksDone == pump = "done" /\ app = "done"

Join ==
    /\ handler = "gather" /\ TasksDone
    /\ handler' = "ended"
    /\ UNCHANGED <<outcome, pump, app, clientVars, requestVars, replyVars>>

-----------------------------------------------------------------------------
(* The pump: _pump_body. *)

EventOf(m) == [body |-> m.data, more |-> ~m.eos]
EofEvent   == [body |-> Empty, more |-> FALSE]

IsBody_notHeaders(m) == m.kind # "headers"
IsBody(m) == m.kind = "body"

PumpAfter_readsOn(m) == "running"
PumpAfter(m) == IF m.eos THEN "done" ELSE "running"

(* A body chunk becomes an event; any other message is dropped. *)
PumpRead ==
    /\ pump = "running" /\ HasNext
    /\ nread' = nread + 1
    /\ LET m == sent[nread + 1] IN
       \/ /\ IsBody(m)
          /\ receiveQueue' = Append(receiveQueue, EventOf(m))
          /\ pump' = PumpAfter(m)
       \/ /\ ~IsBody(m)
          /\ UNCHANGED <<receiveQueue, pump>>
    /\ UNCHANGED <<handler, outcome, app, appGot, clientVars, replyVars>>

PumpEof_silent ==
    /\ pump = "running" /\ Exhausted
    /\ pump' = "done"
    /\ UNCHANGED <<handler, outcome, app, clientVars, requestVars, replyVars>>

(* The stream ended without an end_of_stream flag. *)
PumpEof ==
    /\ pump = "running" /\ Exhausted
    /\ receiveQueue' = Append(receiveQueue, EofEvent)
    /\ pump' = "done"
    /\ UNCHANGED <<nread, appGot, handler, outcome, app, clientVars, replyVars>>

PumpCancelled ==
    /\ pump = "cancelling"
    /\ pump' = "done"
    /\ UNCHANGED <<handler, outcome, app, clientVars, requestVars, replyVars>>

-----------------------------------------------------------------------------
(* The application, inside _run_app.  What it does is its own business; it *)
(* may go on receiving and sending while it handles its cancellation.      *)

AppStart ==
    /\ app = "created"
    /\ app' = "running"
    /\ UNCHANGED <<handler, outcome, pump, clientVars, requestVars, replyVars>>

AppReceive ==
    /\ app \in {"running", "cancelling"} /\ receiveQueue # <<>>
    /\ appGot' = Append(appGot, Head(receiveQueue))
    /\ receiveQueue' = Tail(receiveQueue)
    /\ UNCHANGED <<nread, taskVars, clientVars, replyVars>>

AppSend(e) ==
    /\ app \in {"running", "cancelling"}
    /\ Len(consumed) + Len(sendQueue) < MaxEvents
    /\ sendQueue' = Append(sendQueue, e)
    /\ UNCHANGED <<consumed, responses, taskVars, clientVars, requestVars>>

(* The application returns, raises or ends its cancellation: _run_app      *)
(* swallows the exception and its finally clause puts the sentinel.        *)
AppExit ==
    /\ app \in {"running", "cancelling"}
    /\ app' = "done"
    /\ sendQueue' = Append(sendQueue, APP_DONE)
    /\ UNCHANGED <<consumed, responses, handler, outcome, pump, clientVars, requestVars>>

AppDropped ==
    /\ app = "dropped"
    /\ app' = "done"
    /\ UNCHANGED <<handler, outcome, pump, clientVars, requestVars, replyVars>>

-----------------------------------------------------------------------------
HandlerStep == FirstMissing \/ FirstRejected \/ FirstHeaders \/ Consume \/ Resume
                 \/ HandlerCancelled \/ Join
PumpStep == PumpRead \/ PumpEof \/ PumpCancelled

Next ==
    \/ \E m \in Request : ClientSend(m)
    \/ ClientHalfClose
    \/ CancelRpc
    \/ FirstMissing
    \/ FirstRejected
    \/ FirstHeaders
    \/ Consume
    \/ Resume
    \/ HandlerCancelled
    \/ Join
    \/ PumpRead
    \/ PumpEof
    \/ PumpCancelled
    \/ AppStart
    \/ AppReceive
    \/ \E e \in AppEvent : AppSend(e)
    \/ AppExit
    \/ AppDropped

Spec == Init /\ [][Next]_vars

(* The event loop runs every ready task; the client or the cancellation of *)
(* the RPC releases a yield held up by flow control; an application that   *)
(* is cancelled eventually exits.  Nothing is assumed of the client, nor   *)
(* of an application nobody has cancelled.                                 *)
Fairness ==
    /\ WF_vars(HandlerStep)
    /\ WF_vars(HandlerCancelled)
    /\ WF_vars(PumpStep)
    /\ WF_vars(AppStart \/ AppDropped)
    /\ WF_vars(app = "cancelling" /\ AppExit)

FairSpec == Spec /\ Fairness

-----------------------------------------------------------------------------
(* Correctness. *)

(* Every variable has its type. *)
TypeOK ==
    /\ sent \in Seq(Request) /\ nread \in 0..Len(sent)
    /\ halfClosed \in BOOLEAN /\ rpc \in {"live", "cancelled", "delivered"}
    /\ handler \in {"first", "consume", "yield", "gather", "ended"}
    /\ outcome \in Outcome
    /\ pump \in {"none", "running", "cancelling", "done"}
    /\ app \in {"none", "created", "running", "cancelling", "dropped", "done"}
    /\ receiveQueue \in Seq(RequestEvent) /\ appGot \in Seq(RequestEvent)
    /\ sendQueue \in Seq(SendItem) /\ consumed \in Seq(SendItem)
    /\ responses \in Seq(Response)

(* Everything the pump has put, and everything the application has put. *)
Offered  == appGot \o receiveQueue
Produced == consumed \o sendQueue

(* Reference: the events of the body chunks among the messages after the   *)
(* first, as far as they have been read.                                   *)
BodyChunks == {m \in Request : m.kind = "body"}
ChunkEvent == [m \in Request |-> [body |-> m.data, more |-> ~m.eos]]
BodyEvents == Each(Keep(SubSeq(sent, 2, nread), BodyChunks), ChunkEvent)

(* The application is offered exactly the body chunks the client sent, in  *)
(* order, each once, whatever headers or trailers lie between them; an     *)
(* event of the bridge's own is only ever the EOF after a stream that      *)
(* ended without an end_of_stream flag.                                    *)
RequestFaithful ==
    \/ Offered = BodyEvents
    \/ /\ Offered = Append(BodyEvents, EofEvent)
       /\ \A i \in 1..Len(BodyEvents) : BodyEvents[i].more
       /\ Exhausted /\ pump = "done"

(* Reference: what the client must see of the events an application put:   *)
(* everything up to the first event that ends the response.                *)
Terminator(e) == \/ e.type \in {"APP_DONE", "disconnect", "bad"}
                 \/ e.type = "body" /\ ~e.more
UntilTerminator(s) ==
    IF \E i \in 1..Len(s) : Terminator(s[i])
      THEN SubSeq(s, 1, CHOOSE i \in 1..Len(s) :
                          Terminator(s[i]) /\ \A j \in 1..(i-1) : ~Terminator(s[j]))
      ELSE s
Shown == {e \in SendItem : \/ e.type = "start"
                           \/ e.type = "body" /\ ~(e.body = Empty /\ e.more)}
WireForm == [e \in SendItem |-> [kind |-> IF e.type = "start" THEN "headers" ELSE "body",
                                 data |-> e.body,
                                 eos  |-> e.type = "body" /\ ~e.more]]
OnTheWire(s) == Each(Keep(s, Shown), WireForm)

(* The client never sees anything but the wire form of the application's   *)
(* events up to the first terminator; and an RPC that ran the application  *)
(* and ends OK has shown all of it, even when the application exits or is  *)
(* cancelled while its last events are still queued.                       *)
ResponseFaithful ==
    LET promised == OnTheWire(UntilTerminator(Produced)) IN
    /\ Len(responses) <= Len(promised)
    /\ responses = SubSeq(promised, 1, Len(responses))
    /\ outcome = "OK" /\ app # "none" => responses = promised

(* No task outlives its RPC: when Process ends, the pump and the           *)
(* application have ended, or were never created.                          *)
TasksJoined ==
    handler = "ended" => pump \in {"none", "done"} /\ app \in {"none", "done"}

(* The parts of the inductive invariant behind the theorems. *)

(* The tasks exist exactly while the handler is between its first message  *)
(* and its end, and are on their way out once it waits in gather.          *)
Lifecycle ==
    /\ handler = "first" => pump = "none" /\ app = "none" /\ consumed = <<>>
    /\ handler \in {"consume", "yield"} =>
         pump \in {"running", "done"} /\ app \in {"created", "running", "done"}
    /\ handler = "gather" =>
         pump \in {"cancelling", "done"} /\ app \in {"cancelling", "dropped", "done"}
    /\ TasksJoined

(* An event that ends the request is the last one the pump ever puts. *)
EndOfRequestLast ==
    \A k \in 1..Len(Offered) :
        ~Offered[k].more => k = Len(Offered) /\ pump = "done"

(* While the loop of step 4 goes on, it has taken no terminator, but for   *)
(* the final chunk it may just have yielded.                               *)
LoopGoesOn ==
    /\ handler = "consume" => \A k \in 1..Len(consumed) : ~Terminator(consumed[k])
    /\ handler = "yield" =>
         /\ consumed # <<>> /\ Yields(consumed[Len(consumed)])
         /\ \A k \in 1..(Len(consumed) - 1) : ~Terminator(consumed[k])

(* The handler reads the first message, the pump all the others. *)
FirstReadOnce ==
    /\ handler = "first" => nread = 0
    /\ pump = "none" => nread <= 1
    /\ pump # "none" => nread >= 1

(* What was yielded is the wire form of what was taken; only the last item *)
(* taken may end the response, and an RPC that ends OK has taken such one. *)
YieldedWhatItTook ==
    /\ responses = OnTheWire(consumed)
    /\ \A k \in 1..(Len(consumed) - 1) : ~Terminator(consumed[k])
    /\ handler \in {"first", "consume", "yield"} => outcome = "none"
    /\ outcome = "OK" /\ app # "none" =>
         consumed # <<>> /\ Terminator(consumed[Len(consumed)])

(* The inductive invariant: tasks, end of request, consumer loop and what  *)
(* crossed each way together, in every interleaving of cancellation, exit  *)
(* and delivery.                                                           *)
IInv ==
    /\ TypeOK /\ Lifecycle /\ EndOfRequestLast /\ LoopGoesOn
    /\ FirstReadOnce /\ YieldedWhatItTook

(* Once anything calls for the end of the exchange (a cancellation, the    *)
(* application's exit, a final chunk), Process ends.                       *)
EveryExchangeEnds ==
    (rpc # "live" \/ app = "done" \/ \E i \in 1..Len(Produced) : Terminator(Produced[i]))
        ~> (handler = "ended")

(* A half-closed request reaches the application: the event that ends the  *)
(* request is put, unless the exchange is over first.                      *)
RequestEndReachesApp ==
    (halfClosed /\ handler = "consume")
        ~> (handler \in {"gather", "ended"} \/ \E i \in 1..Len(Offered) : ~Offered[i].more)

(* Each direction is a FIFO relay.  Requests: the pump is the source, a    *)
(* final event closes it.  Responses: the application is the source, its   *)
(* sentinel closes it; the handler is the sink, a terminator ends it.      *)
RequestRelay == INSTANCE FifoRelay WITH
    Item <- RequestEvent,
    Closing <- {i \in RequestEvent : ~i.more},
    Ending <- {i \in RequestEvent : ~i.more},
    src <- Offered, snk <- appGot, open <- (pump \in {"none", "running"})

ResponseRelay == INSTANCE FifoRelay WITH
    Item <- SendItem,
    Closing <- {APP_DONE},
    Ending <- {e \in SendItem : Terminator(e)},
    src <- Produced, snk <- consumed, open <- (app # "done")

(* The application is offered one end of request, last, and gets what it   *)
(* is offered in order (_pump_body and receive_queue).                     *)
RequestRelaySpec == RequestRelay!Spec

(* What the application puts is consumed in order and nothing is consumed  *)
(* after the event that ends the response (the loop of Process).           *)
ResponseRelaySpec == ResponseRelay!Spec

=============================================================================
