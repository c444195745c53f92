------------------------------ MODULE HttpHandle ------------------------------
(***************************************************************************)
(* HttpBridgeServicer.Handle (python/grpcgi/http.py): one unary RPC runs   *)
(* the ASGI application on a whole request and buffers its whole response. *)
(* Handle awaits the application itself, without tasks or queues: the two  *)
(* share the receive and send closures and the event _body_sent.  A        *)
(* receive() may stay pending while the application sends (it may run      *)
(* tasks of its own, as frameworks do to watch for the disconnect).        *)
(*                                                                         *)
(* A definition whose name ends in _word is a broken variant of the one    *)
(* after it, for mutation checks; no specification uses it.                *)
(***************************************************************************)
EXTENDS Naturals, Sequences

CONSTANTS
    Data,          \* pieces of a body
    Header,        \* response headers
    Undecodable,   \* the headers whose bytes are not UTF-8
    Status,        \* response statuses
    MaxEvents,     \* bound: events the application sends
    MaxReceives    \* bound: events the application receives

Fields == {<<>>} \cup {<<h>> : h \in Header}
Piece  == {<<>>} \cup {<<d>> : d \in Data}

(* http.response.start, http.response.body, and any other type; a start    *)
(* without a status is one with 200.                                       *)
AppEvent == [type : {"start"}, status : Status, headers : Fields]
       \cup [type : {"body"}, body : Piece, more : BOOLEAN]
       \cup [type : {"other"}]

ReceiveEvent == [type : {"request"}, body : Seq(Data)] \cup [type : {"disconnect"}]

HttpResponse == [status : Status, headers : Seq(Header), body : Seq(Data)]

VARIABLES
    rpc,         \* "none"; "live"; "cancelled"; "delivered": the handler was told
    request,     \* the body of the HttpRequest
    received,    \* _received
    waiting,     \* a receive() waits for _body_sent
    bodySent,    \* _body_sent
    status,      \* resp_status
    headers,     \* resp_headers
    body,        \* resp_body
    app,         \* "none", "running", "cancelling" or "done"
    outcome,     \* how the RPC ends: "none" or a gRPC status
    appGot,      \* history: what the application received
    appSent      \* history: what the application sent

closureVars == <<received, waiting, bodySent, appGot>>
bufferVars  == <<status, headers, body, appSent>>
vars == <<rpc, request, received, waiting, bodySent, status, headers, body,
          app, outcome, appGot, appSent>>

Init ==
    /\ rpc = "none" /\ request = <<>>
    /\ received = FALSE /\ waiting = FALSE /\ bodySent = FALSE
    /\ status = 200 /\ headers = <<>> /\ body = <<>>
    /\ app = "none" /\ outcome = "none"
    /\ appGot = <<>> /\ appSent = <<>>

-----------------------------------------------------------------------------
(* The gRPC runtime. *)

Call(b) ==
    /\ rpc = "none"
    /\ rpc' = "live" /\ request' = b
    /\ app' = "running"
    /\ UNCHANGED <<closureVars, bufferVars, outcome>>

CancelRpc ==
    /\ rpc = "live" /\ outcome = "none"
    /\ rpc' = "cancelled"
    /\ UNCHANGED <<request, closureVars, bufferVars, app, outcome>>

(* CancelledError is raised where the application waits. *)
AppCancelled_caught ==
    /\ rpc = "cancelled" /\ app = "running"
    /\ rpc' = "delivered"
    /\ UNCHANGED <<request, closureVars, bufferVars, app, outcome>>
AppCancelled ==
    /\ rpc = "cancelled" /\ app = "running"
    /\ rpc' = "delivered"
    /\ app' = "cancelling"
    /\ UNCHANGED <<request, closureVars, bufferVars, outcome>>

-----------------------------------------------------------------------------
(* The application and the two closures it calls. *)

AppRuns == app \in {"running", "cancelling"}

Disconnect == [type |-> "disconnect"]

(* The first receive(): the whole body at once. *)
ReceiveRequest ==
    /\ AppRuns /\ ~received /\ Len(appGot) < MaxReceives
    /\ received' = TRUE
    /\ appGot' = Append(appGot, [type |-> "request", body |-> request])
    /\ UNCHANGED <<rpc, request, waiting, bodySent, bufferVars, app, outcome>>

(* A later one: a disconnect, at once if the final chunk was sent. *)
ReceiveDisconnect ==
    /\ AppRuns /\ received /\ ~waiting /\ Len(appGot) < MaxReceives
    /\ IF bodySent THEN appGot' = Append(appGot, Disconnect) /\ UNCHANGED waiting
                   ELSE waiting' = TRUE /\ UNCHANGED appGot
    /\ UNCHANGED <<rpc, request, received, bodySent, bufferVars, app, outcome>>

Wake ==
    /\ AppRuns /\ waiting /\ bodySent
    /\ waiting' = FALSE
    /\ appGot' = Append(appGot, Disconnect)
    /\ UNCHANGED <<rpc, request, received, bodySent, bufferVars, app, outcome>>

(* send(): nothing checks the order of the events. *)
StatusAfter(e) == IF e.type = "start" THEN e.status ELSE status
HeadersAfter_replaced(e) == IF e.type = "start" THEN e.headers ELSE headers
HeadersAfter(e) == IF e.type = "start" THEN headers \o e.headers ELSE headers
BodyAfter(e) == IF e.type = "body" THEN body \o e.body ELSE body
Final(e) == e.type = "body" /\ ~e.more

AppSend_cleared(e) ==
    /\ AppRuns /\ Len(appSent) < MaxEvents
    /\ status' = StatusAfter(e) /\ headers' = HeadersAfter(e) /\ body' = BodyAfter(e)
    /\ bodySent' = Final(e)
    /\ appSent' = Append(appSent, e)
    /\ UNCHANGED <<rpc, request, received, waiting, appGot, app, outcome>>
AppSend(e) ==
    /\ AppRuns /\ Len(appSent) < MaxEvents
    /\ status' = StatusAfter(e) /\ headers' = HeadersAfter(e) /\ body' = BodyAfter(e)
    /\ bodySent' = (bodySent \/ Final(e))
    /\ appSent' = Append(appSent, e)
    /\ UNCHANGED <<rpc, request, received, waiting, appGot, app, outcome>>

(* What a Handle that gets this far tells the client; a cancelled RPC has  *)
(* nobody left to tell.                                                    *)
Outcome(o) == IF rpc = "live" THEN o ELSE "CANCELLED"

(* Headers that do not decode raise after the try block. *)
Encodes == \A i \in 1..Len(headers) : headers[i] \notin Undecodable

AppReturns ==
    /\ AppRuns
    /\ app' = "done" /\ waiting' = FALSE
    /\ outcome' = Outcome(IF Encodes THEN "OK" ELSE "UNKNOWN")
    /\ UNCHANGED <<rpc, request, received, bodySent, appGot, bufferVars>>

AppRaises ==
    /\ AppRuns
    /\ app' = "done" /\ waiting' = FALSE
    /\ outcome' = Outcome("INTERNAL")
    /\ UNCHANGED <<rpc, request, received, bodySent, appGot, bufferVars>>

(* The HttpResponse of an RPC that ends OK. *)
Response == [status |-> status, headers |-> headers, body |-> body]

-----------------------------------------------------------------------------
(* Every variable has its type. *)
TypeOK ==
    /\ rpc \in {"none", "live", "cancelled", "delivered"} /\ request \in Seq(Data)
    /\ received \in BOOLEAN /\ waiting \in BOOLEAN /\ bodySent \in BOOLEAN
    /\ status \in Status /\ headers \in Seq(Header) /\ body \in Seq(Data)
    /\ app \in {"none", "running", "cancelling", "done"}
    /\ outcome \in {"none", "OK", "UNKNOWN", "INTERNAL", "CANCELLED"}
    /\ appGot \in Seq(ReceiveEvent) /\ appSent \in Seq(AppEvent)

=============================================================================
