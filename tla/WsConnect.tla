------------------------------ MODULE WsConnect ------------------------------
(***************************************************************************)
(* WebSocketBridgeServicer.Connect (python/grpcgi/ws.py): one bidirectional*)
(* gRPC stream of Frames carries one WebSocket connection to an ASGI       *)
(* application.  The tasks are those of HttpProcess: the handler (the      *)
(* async generator), the pump (_pump_frames) and the application           *)
(* (_run_app), joined by two unbounded queues.  What differs is the        *)
(* handshake (taken from the call's metadata, connect seeded, accept sent  *)
(* as initial metadata) and text: a text payload must decode as UTF-8 on   *)
(* its way in and encode on its way out, and either may raise.             *)
(*                                                                         *)
(* A definition whose name ends in _word is a broken variant of the one    *)
(* after it, for mutation checks; no specification uses it.                *)
(***************************************************************************)
EXTENDS Naturals, Sequences, Selection

CONSTANTS
    Payload,    \* frame payloads
    NotUtf8,    \* the payloads that have no text form
    None,       \* an absent field of an ASGI event
    MaxFrames,  \* bound: frames a client sends
    MaxEvents   \* bound: events an application sends

ASSUME Utf8Assumption == NotUtf8 \subseteq Payload /\ None \notin Payload

ASSUME WsBoundAssumption == MaxFrames \in Nat /\ MaxEvents \in Nat

Frame == [payload : Payload, binary : BOOLEAN]

(* websocket.connect, .receive (text or bytes) and .disconnect. *)
ReceiveEvent == [type : {"receive"}, payload : Payload, binary : BOOLEAN]
          \cup [type : {"connect", "disconnect"}, payload : {None}, binary : {FALSE}]

(* websocket.accept with ("acceptWith") or without a subprotocol, .send    *)
(* with its text and bytes fields, .close, and any other type.             *)
AppEvent == [type : {"send"}, text : Payload \cup {None}, bytes : Payload \cup {None}]
      \cup [type : {"accept", "acceptWith", "close", "other"}, text : {None}, bytes : {None}]

APP_DONE == [type |-> "APP_DONE", text |-> None, bytes |-> None]

SendItem == AppEvent \cup {APP_DONE}

VARIABLES
    sent,          \* every frame the client has sent
    nread,         \* how many of them the bridge has read
    halfClosed,    \* the client has closed its sending side
    rpc,           \* "live"; "cancelled"; "delivered": the handler was told
    handler,       \* where the generator is waiting
    outcome,       \* how the generator ends
    pump,          \* state of the _pump_frames task
    app,           \* state of the _run_app task
    receiveQueue,  \* pump -> application
    sendQueue,     \* application -> handler
    appGot,        \* history: what the application received
    consumed,      \* history: what the handler took off sendQueue
    metadata,      \* initial metadata: "unsent", "subprotocol" or "plain"
    frames         \* history: the frames yielded to the client

clientVars  == <<sent, halfClosed, rpc>>
receiveVars == <<nread, receiveQueue, appGot>>
replyVars   == <<sendQueue, consumed, metadata, frames>>
taskVars    == <<handler, outcome, pump, app>>
vars == <<sent, nread, halfClosed, rpc, handler, outcome, pump, app,
          receiveQueue, sendQueue, appGot, consumed, metadata, frames>>

Init ==
    /\ sent = <<>> /\ nread = 0 /\ halfClosed = FALSE /\ rpc = "live"
    /\ handler = "new" /\ outcome = "none" /\ pump = "none" /\ app = "none"
    /\ receiveQueue = <<>> /\ sendQueue = <<>>
    /\ appGot = <<>> /\ consumed = <<>> /\ metadata = "unsent" /\ frames = <<>>

-----------------------------------------------------------------------------
(* The client and the gRPC runtime. *)

ClientSend(f) ==
    /\ rpc = "live" /\ ~halfClosed /\ handler # "ended"
    /\ Len(sent) < MaxFrames
    /\ sent' = Append(sent, f)
    /\ UNCHANGED <<halfClosed, rpc, receiveVars, replyVars, taskVars>>

ClientHalfClose ==
    /\ rpc = "live" /\ ~halfClosed /\ handler # "ended"
    /\ halfClosed' = TRUE
    /\ UNCHANGED <<sent, rpc, receiveVars, replyVars, taskVars>>

CancelRpc ==
    /\ rpc = "live" /\ handler # "ended"
    /\ rpc' = "cancelled"
    /\ UNCHANGED <<sent, halfClosed, receiveVars, replyVars, taskVars>>

(* request_iterator has a next frame, or is exhausted; a cancelled stream  *)
(* reads as exhausted.                                                     *)
HasNext   == rpc = "live" /\ nread < Len(sent)
Exhausted == (halfClosed /\ nread = Len(sent)) \/ rpc # "live"

-----------------------------------------------------------------------------
(* The handler: the body of Connect. *)

PumpOnCancel == IF pump = "running" THEN "cancelling" ELSE pump
AppOnCancel_forgotten == app
AppOnCancel  == IF app = "running" THEN "cancelling"
                ELSE IF app = "created" THEN "dropped" ELSE app

(* Lines 216-219: cancel both tasks, then wait for them in gather. *)
Finally(o) ==
    /\ handler' = "gather"
    /\ outcome' = o
    /\ pump' = PumpOnCancel
    /\ app' = AppOnCancel

ConnectEvent    == [type |-> "connect", payload |-> None, binary |-> FALSE]
DisconnectEvent == [type |-> "disconnect", payload |-> None, binary |-> FALSE]

(* Scope built, connect seeded, both tasks created. *)
Start ==
    /\ handler = "new"
    /\ receiveQueue' = Append(receiveQueue, ConnectEvent)
    /\ handler' = "consume" /\ pump' = "running" /\ app' = "created"
    /\ UNCHANGED <<outcome, nread, appGot, clientVars, replyVars>>

(* _build_scope raises on a metadata value that is not a str (the value of *)
(* a "-bin" key is bytes, which has no encode).                            *)
ScopeFails ==
    /\ handler = "new"
    /\ handler' = "ended" /\ outcome' = "UNKNOWN"
    /\ UNCHANGED <<pump, app, clientVars, receiveVars, replyVars>>

EndsLoop_exitOnly(e) == e = APP_DONE
EndsLoop(e) == e = APP_DONE \/ e.type = "close"

(* A send event yields its text if it has one, else its bytes. *)
Yields_textOnly(e) == e.type = "send" /\ e.text # None
Yields(e) == e.type = "send" /\ (e.text # None \/ e.bytes # None)

FrameOf(e) == IF e.text # None THEN [payload |-> e.text, binary |-> FALSE]
                               ELSE [payload |-> e.bytes, binary |-> TRUE]

(* text.encode() fails, or initial metadata was already sent. *)
Raises(e) == \/ e.type = "send" /\ e.text \in NotUtf8
             \/ e.type = "acceptWith" /\ metadata # "unsent"

(* The first message of a stream carries the initial metadata with it. *)
MetadataWithFrame == IF metadata = "unsent" THEN "plain" ELSE metadata

(* One turn of the loop, up to where it waits or breaks. *)
Consume ==
    /\ handler = "consume" /\ sendQueue # <<>>
    /\ sendQueue' = Tail(sendQueue)
    /\ consumed' = Append(consumed, Head(sendQueue))
    /\ LET e == Head(sendQueue) IN
       \/ /\ EndsLoop(e)
          /\ Finally("OK")
          /\ UNCHANGED <<metadata, frames>>
       \/ /\ Raises(e)
          /\ Finally("UNKNOWN")
          /\ UNCHANGED <<metadata, frames>>
       \/ /\ e.type = "acceptWith" /\ ~Raises(e)
          /\ metadata' = "subprotocol"
          /\ handler' = "metadata"
          /\ UNCHANGED <<outcome, pump, app, frames>>
       \/ /\ Yields(e) /\ ~Raises(e)
          /\ frames' = Append(frames, FrameOf(e))
          /\ metadata' = MetadataWithFrame
          /\ handler' = "yield"
          /\ UNCHANGED <<outcome, pump, app>>
       \/ /\ ~EndsLoop(e) /\ ~Yields(e) /\ e.type # "acceptWith"
          /\ UNCHANGED <<metadata, frames, taskVars>>
    /\ UNCHANGED <<clientVars, receiveVars>>

(* The transport took the frame or the metadata. *)
Resume ==
    /\ handler \in {"yield", "metadata"}
    /\ handler' = "consume"
    /\ UNCHANGED <<outcome, pump, app, clientVars, receiveVars, replyVars>>

HandlerCancelled ==
    /\ rpc = "cancelled" /\ handler # "ended"
    /\ rpc' = "delivered"
    /\ \/ /\ handler = "new"
          /\ handler' = "ended" /\ outcome' = "CANCELLED"
          /\ UNCHANGED <<pump, app>>
       \/ /\ handler \in {"consume", "yield", "metadata"}
          /\ Finally("CANCELLED")
       \/ /\ handler = "gather"
          /\ outcome' = "CANCELLED"
          /\ UNCHANGED <<handler, pump, app>>
    /\ UNCHANGED <<sent, halfClosed, receiveVars, replyVars>>

(* gather(return_exceptions=True): a pump that failed counts as done. *)
TasksDone == pump \in {"done", "failed"} /\ app = "done"

Join ==
    /\ handler = "gather" /\ TasksDone
    /\ handler' = "ended"
    /\ UNCHANGED <<outcome, pump, app, clientVars, receiveVars, replyVars>>

-----------------------------------------------------------------------------
(* The pump: _pump_frames. *)

Decodes(f) == f.binary \/ f.payload \notin NotUtf8
EventOf(f) == [type |-> "receive", payload |-> f.payload, binary |-> f.binary]

PumpRead ==
    /\ pump = "running" /\ HasNext
    /\ Decodes(sent[nread + 1])
    /\ nread' = nread + 1
    /\ receiveQueue' = Append(receiveQueue, EventOf(sent[nread + 1]))
    /\ UNCHANGED <<pump, handler, outcome, app, appGot, clientVars, replyVars>>

(* decode() raises: only CancelledError is caught, so the task ends with   *)
(* the exception and puts nothing more.                                    *)
PumpFails_skips ==
    /\ pump = "running" /\ HasNext
    /\ ~Decodes(sent[nread + 1])
    /\ nread' = nread + 1
    /\ UNCHANGED <<pump, receiveQueue, handler, outcome, app, appGot, clientVars, replyVars>>
PumpFails ==
    /\ pump = "running" /\ HasNext
    /\ ~Decodes(sent[nread + 1])
    /\ nread' = nread + 1
    /\ pump' = "failed"
    /\ UNCHANGED <<receiveQueue, handler, outcome, app, appGot, clientVars, replyVars>>

PumpEof_silent ==
    /\ pump = "running" /\ Exhausted
    /\ pump' = "done"
    /\ UNCHANGED <<handler, outcome, app, clientVars, receiveVars, replyVars>>

PumpEof_again ==
    /\ pump = "running" /\ Exhausted
    /\ receiveQueue' = Append(receiveQueue, DisconnectEvent)
    /\ UNCHANGED <<pump, nread, appGot, handler, outcome, app, clientVars, replyVars>>

PumpEof ==
    /\ pump = "running" /\ Exhausted
    /\ receiveQueue' = Append(receiveQueue, DisconnectEvent)
    /\ pump' = "done"
    /\ UNCHANGED <<nread, appGot, handler, outcome, app, clientVars, replyVars>>

PumpCancelled ==
    /\ pump = "cancelling"
    /\ pump' = "done"
    /\ UNCHANGED <<handler, outcome, app, clientVars, receiveVars, replyVars>>

-----------------------------------------------------------------------------
(* The application, inside _run_app. *)

AppStart ==
    /\ app = "created"
    /\ app' = "running"
    /\ UNCHANGED <<handler, outcome, pump, clientVars, receiveVars, replyVars>>

AppReceive ==
    /\ app \in {"running", "cancelling"} /\ receiveQueue # <<>>
    /\ appGot' = Append(appGot, Head(receiveQueue))
    /\ receiveQueue' = Tail(receiveQueue)
    /\ UNCHANGED <<nread, taskVars, clientVars, replyVars>>

AppSend(e) ==
    /\ app \in {"running", "cancelling"}
    /\ Len(consumed) + Len(sendQueue) < MaxEvents
    /\ sendQueue' = Append(sendQueue, e)
    /\ UNCHANGED <<consumed, metadata, frames, taskVars, clientVars, receiveVars>>

AppExit ==
    /\ app \in {"running", "cancelling"}
    /\ app' = "done"
    /\ sendQueue' = Append(sendQueue, APP_DONE)
    /\ UNCHANGED <<consumed, metadata, frames, handler, outcome, pump,
                   clientVars, receiveVars>>

AppDropped ==
    /\ app = "dropped"
    /\ app' = "done"
    /\ UNCHANGED <<handler, outcome, pump, clientVars, receiveVars, replyVars>>

-----------------------------------------------------------------------------
HandlerStep == Start \/ ScopeFails \/ Consume \/ Resume \/ HandlerCancelled \/ Join
PumpStep == PumpRead \/ PumpFails \/ PumpEof \/ PumpCancelled

Next ==
    \/ \E f \in Frame : ClientSend(f)
    \/ ClientHalfClose
    \/ CancelRpc
    \/ Start
    \/ ScopeFails
    \/ Consume
    \/ Resume
    \/ HandlerCancelled
    \/ Join
    \/ PumpRead
    \/ PumpFails
    \/ PumpEof
    \/ PumpCancelled
    \/ AppStart
    \/ AppReceive
    \/ \E e \in AppEvent : AppSend(e)
    \/ AppExit
    \/ AppDropped

Spec == Init /\ [][Next]_vars

(* As in HttpProcess: ready tasks run, flow control or cancellation        *)
(* releases the handler, a cancelled application exits.                    *)
Fairness ==
    /\ WF_vars(HandlerStep)
    /\ WF_vars(HandlerCancelled)
    /\ WF_vars(PumpStep)
    /\ WF_vars(AppStart \/ AppDropped)
    /\ WF_vars(app = "cancelling" /\ AppExit)

FairSpec == Spec /\ Fairness

-----------------------------------------------------------------------------
(* Correctness. *)

(* Every variable has its type. *)
TypeOK ==
    /\ sent \in Seq(Frame) /\ nread \in 0..Len(sent)
    /\ halfClosed \in BOOLEAN /\ rpc \in {"live", "cancelled", "delivered"}
    /\ handler \in {"new", "consume", "yield", "metadata", "gather", "ended"}
    /\ outcome \in {"none", "OK", "CANCELLED", "UNKNOWN"}
    /\ pump \in {"none", "running", "cancelling", "failed", "done"}
    /\ app \in {"none", "created", "running", "cancelling", "dropped", "done"}
    /\ receiveQueue \in Seq(ReceiveEvent) /\ appGot \in Seq(ReceiveEvent)
    /\ sendQueue \in Seq(SendItem) /\ consumed \in Seq(SendItem)
    /\ metadata \in {"unsent", "subprotocol", "plain"}
    /\ frames \in Seq(Frame)

(* Everything put for the application, and everything it has put. *)
Offered  == appGot \o receiveQueue
Produced == consumed \o sendQueue

(* Reference: the frames read that decoded, and what they and the opened   *)
(* connection are to the application.                                      *)
ndecoded   == IF pump = "failed" THEN nread - 1 ELSE nread
FrameEvent == [f \in Frame |->
                 [type |-> "receive", payload |-> f.payload, binary |-> f.binary]]
Received   == <<ConnectEvent>> \o Each(SubSeq(sent, 1, ndecoded), FrameEvent)

(* The client's frames among the events of the application. *)
FrameEvents == {e \in ReceiveEvent : e.type = "receive"}

(* The application is offered connect, then every frame read, in order and *)
(* as text or bytes as it was sent, then at most a disconnect, and that    *)
(* only for a stream that is over; a frame that fails to decode is the     *)
(* last one read.                                                          *)
ReceiveFaithful ==
    app # "none" =>
      /\ \A i \in 1..ndecoded : Decodes(sent[i])
      /\ \/ Offered = Received
         \/ Offered = Append(Received, DisconnectEvent) /\ pump = "done" /\ Exhausted

(* Reference: an application's event ends the connection, and what the     *)
(* client must see of the events before it.  A second handshake raises.    *)
Shows(e) == e.type = "send" /\ ~(e.text = None /\ e.bytes = None)
Terminator(s, i) ==
    \/ s[i].type \in {"close", "APP_DONE"}
    \/ Shows(s[i]) /\ s[i].text \in NotUtf8
    \/ s[i].type = "acceptWith" /\ \E j \in 1..(i-1) : Shows(s[j]) \/ s[j].type = "acceptWith"
UntilTerminator(s) ==
    IF \E i \in 1..Len(s) : Terminator(s, i)
      THEN SubSeq(s, 1, (CHOOSE i \in 1..Len(s) :
                           Terminator(s, i) /\ \A j \in 1..(i-1) : ~Terminator(s, j)) - 1)
      ELSE s
Shown == {e \in SendItem : Shows(e)}
WireForm == [e \in SendItem |->
               IF e.text = None THEN [payload |-> e.bytes, binary |-> TRUE]
                                ELSE [payload |-> e.text, binary |-> FALSE]]
OnTheWire(s) == Each(Keep(s, Shown), WireForm)

(* A subprotocol is announced before anything is shown. *)
AnnouncedFirst(s) ==
    \E i \in 1..Len(s) :
        s[i].type = "acceptWith" /\ \A j \in 1..(i-1) : ~Shows(s[j])

(* The client sees only the frames the application sent before it closed,  *)
(* exited or broke the handshake, in order; a connection that ran the      *)
(* application and ends OK has shown them all; and a subprotocol, when one *)
(* was announced, was announced before the first frame.                    *)
SendFaithful ==
    LET before == UntilTerminator(Produced)
        promised == OnTheWire(before)
    IN  /\ Len(frames) <= Len(promised)
        /\ frames = SubSeq(promised, 1, Len(frames))
        /\ outcome = "OK" /\ app # "none" => frames = promised
        /\ metadata = "subprotocol" => AnnouncedFirst(before)

(* No task outlives its RPC. *)
TasksJoined ==
    handler = "ended" => pump \in {"none", "done", "failed"} /\ app \in {"none", "done"}

(* The parts of the inductive invariant behind the theorems. *)

(* The tasks exist exactly while the handler is between its start and its  *)
(* end, and are on their way out, or over, once it waits in gather.        *)
Lifecycle ==
    /\ handler = "new" => pump = "none" /\ app = "none"
    /\ handler \in {"consume", "yield", "metadata"} =>
         pump \in {"running", "failed", "done"} /\ app \in {"created", "running", "done"}
    /\ handler = "gather" =>
         /\ pump \in {"cancelling", "failed", "done"}
         /\ app \in {"cancelling", "dropped", "done"}
    /\ TasksJoined

(* A disconnect is the last event the pump ever puts. *)
DisconnectLast ==
    \A k \in 1..Len(Offered) :
        Offered[k] = DisconnectEvent => k = Len(Offered) /\ pump = "done"

(* The loop takes nothing more after a close, the sentinel or a text that  *)
(* does not encode.                                                        *)
Final(e) ==
    \/ e.type \in {"close", "APP_DONE"}
    \/ e.type = "send" /\ e.text \in NotUtf8
LoopGoesOn ==
    handler \in {"new", "consume", "yield", "metadata"} =>
        \A k \in 1..Len(consumed) : ~Final(consumed[k])

(* Nothing is read or offered before the tasks exist, and a pump that      *)
(* failed has read the frame it failed on.                                 *)
ReadsOnceStarted ==
    /\ app = "none" <=> pump = "none"
    /\ app = "none" => nread = 0 /\ Offered = <<>>
    /\ pump = "failed" => nread >= 1

(* ReceiveFaithful in two parts: what is offered is what was read, and a   *)
(* disconnect is offered only for a stream that is over.                   *)
OfferedWhatWasRead ==
    app # "none" =>
      /\ \A i \in 1..ndecoded : Decodes(sent[i])
      /\ \/ Offered = Received
         \/ Offered = Append(Received, DisconnectEvent) /\ pump = "done"
DisconnectWhenOver ==
    (\E k \in 1..Len(Offered) : Offered[k] = DisconnectEvent) => Exhausted

(* What was yielded is the wire form of what was taken up to the item that *)
(* ended the loop; metadata is unsent as long as nothing taken sent it.    *)
YieldedWhatItTook ==
    LET passed == UntilTerminator(consumed)
    IN  /\ frames = OnTheWire(passed)
        /\ handler \in {"new", "consume", "yield", "metadata"} =>
             outcome = "none" /\ \A k \in 1..Len(consumed) : ~Terminator(consumed, k)
        /\ outcome = "OK" /\ app # "none" => \E k \in 1..Len(consumed) : Terminator(consumed, k)
        /\ metadata = "unsent" <=>
             \A i \in 1..Len(passed) : ~Shows(passed[i]) /\ passed[i].type # "acceptWith"
        /\ metadata = "subprotocol" => AnnouncedFirst(passed)

(* The inductive invariant: tasks, both queues and consumer loop together, *)
(* in every interleaving of cancellation, exit, failure and delivery.      *)
IInv ==
    /\ TypeOK /\ Lifecycle /\ DisconnectLast /\ LoopGoesOn
    /\ ReadsOnceStarted /\ YieldedWhatItTook

(* A cancelled RPC, a closed connection and an exited application all end  *)
(* Connect.                                                                *)
EveryConnectionEnds ==
    (rpc # "live" \/ app = "done" \/ \E i \in 1..Len(Produced) : Terminator(Produced, i))
        ~> (handler = "ended")

(* When the client half-closes, the application gets its disconnect (or    *)
(* the connection is over), provided every text frame decodes.             *)
DisconnectReachesApp ==
    (halfClosed /\ handler = "consume" /\ \A i \in 1..Len(sent) : Decodes(sent[i]))
        ~> (handler \in {"gather", "ended"} \/ \E i \in 1..Len(Offered) : Offered[i] = DisconnectEvent)

(* Each direction is a FIFO relay, as for HttpProcess. *)
ReceiveRelay == INSTANCE FifoRelay WITH
    Item <- ReceiveEvent,
    Closing <- {DisconnectEvent},
    Ending <- {DisconnectEvent},
    src <- Offered, snk <- appGot, open <- (pump \in {"none", "running"})

SendRelay == INSTANCE FifoRelay WITH
    Item <- SendItem,
    Closing <- {APP_DONE},
    Ending <- {e \in SendItem : Final(e)},
    src <- Produced, snk <- consumed, open <- (app # "done")

(* The application gets connect, frames and one disconnect, last, in order.*)
ReceiveRelaySpec == ReceiveRelay!Spec

(* What the application puts is consumed in order, nothing after a close,  *)
(* an exit or a text that does not encode.                                 *)
SendRelaySpec == SendRelay!Spec

=============================================================================
