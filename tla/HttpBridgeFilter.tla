--------------------------- MODULE HttpBridgeFilter ---------------------------
(***************************************************************************)
(* The WASM HTTP filter (wasm/http-bridge/src/lib.rs): one context per     *)
(* HTTP request.  It collects the request, dispatches one unary call of    *)
(* HttpBridge.Handle and answers the client itself; a WebSocket upgrade,   *)
(* and a request whose dispatch fails, it leaves to the route.             *)
(*                                                                         *)
(* The host (Envoy) is external: a callback that returns Continue passes   *)
(* its headers or data on to the route, one that returns Pause does not;   *)
(* the route may answer as soon as it has the headers.  An answer is one   *)
(* step, and the context is destroyed with it.                             *)
(*                                                                         *)
(* A definition whose name ends in _word is a broken variant of the one    *)
(* after it, for mutation checks; no specification uses it.                *)
(***************************************************************************)
EXTENDS Naturals, Sequences

CONSTANTS
    Data,         \* pieces of a body
    Reply,        \* the HttpResponse messages there may be
    None,         \* a response the host cannot read, or that does not decode
    MaxChunks     \* bound: body chunks of a request

Piece == {<<>>} \cup {<<d>> : d \in Data}

VARIABLES
    client,        \* the request: "new", then "open" until its "ended"
    kind,          \* what it turned out to be: "none", "upgrade", "plain", "trailers"
    chunks,        \* history: the body chunks of the request
    reqBody,       \* req_body
    bodyPending,   \* body_pending
    passthrough,   \* passthrough
    call,          \* call_token and the call: "none", "inflight", "answered", "cancelled"
    dispatched,    \* history: the bodies of the calls dispatched
    route,         \* what the route has of the request: "none", "part" or "whole"
    answer,        \* what the client gets
    destroyed      \* the context is gone

requestVars == <<client, kind, chunks>>
vars == <<client, kind, chunks, reqBody, bodyPending, passthrough, call, dispatched,
          route, answer, destroyed>>

(* An answer: passed on from the application, a 502 of the filter's own    *)
(* making, or the route's.                                                 *)
NoAnswer    == [from |-> "none", reply |-> None]
BadGateway  == [from |-> "bridge", reply |-> None]
RouteAnswer == [from |-> "route", reply |-> None]
AppAnswer(r) == [from |-> "app", reply |-> r]

Answer == [from : {"none", "bridge", "route", "app"}, reply : Reply \cup {None}]

(* create_http_context *)
Init ==
    /\ client = "new" /\ kind = "none" /\ chunks = <<>>
    /\ reqBody = <<>> /\ bodyPending = FALSE /\ passthrough = FALSE
    /\ call = "none" /\ dispatched = <<>> /\ route = "none"
    /\ answer = NoAnswer /\ destroyed = FALSE

-----------------------------------------------------------------------------
(* Callbacks of the request; ok is the result of dispatch_grpc_call. *)

Passed(end) == IF end THEN "whole" ELSE "part"

(* dispatch_handle: on success the callback returns Pause. *)
DispatchHandle(b, ok) ==
    IF ok THEN /\ call' = "inflight" /\ dispatched' = Append(dispatched, b)
               /\ UNCHANGED <<passthrough, route>>
          ELSE /\ passthrough' = TRUE /\ route' = "whole"
               /\ UNCHANGED <<call, dispatched>>

Ends(end) == IF end THEN "ended" ELSE "open"

OnHttpRequestHeaders(upgrade, end, ok) ==
    /\ client = "new" /\ ~destroyed
    /\ client' = Ends(end)
    /\ kind' = IF upgrade THEN "upgrade" ELSE "plain"
    /\ \/ /\ upgrade
          /\ passthrough' = TRUE /\ route' = Passed(end)
          /\ UNCHANGED <<bodyPending, call, dispatched>>
       \/ /\ ~upgrade /\ end
          /\ DispatchHandle(<<>>, ok)
          /\ UNCHANGED bodyPending
       \/ /\ ~upgrade /\ ~end
          /\ bodyPending' = TRUE /\ route' = "part"
          /\ UNCHANGED <<passthrough, call, dispatched>>
    /\ UNCHANGED <<chunks, reqBody, answer, destroyed>>

Collected_last(chunk) == chunk
Collected(chunk) == reqBody \o chunk

OnHttpRequestBody(chunk, end, ok) ==
    /\ client = "open" /\ ~destroyed
    /\ Len(chunks) < MaxChunks
    /\ chunks' = Append(chunks, chunk)
    /\ client' = Ends(end)
    /\ \/ /\ passthrough \/ ~bodyPending
          /\ route' = Passed(end)
          /\ UNCHANGED <<reqBody, bodyPending, passthrough, call, dispatched>>
       \/ /\ ~passthrough /\ bodyPending /\ ~end
          /\ reqBody' = Collected(chunk)
          /\ UNCHANGED <<bodyPending, passthrough, call, dispatched, route>>
       \/ /\ ~passthrough /\ bodyPending /\ end
          /\ reqBody' = Collected(chunk) /\ bodyPending' = FALSE
          /\ DispatchHandle(Collected(chunk), ok)
    /\ UNCHANGED <<kind, answer, destroyed>>

(* The filter has no callback for trailers: the default lets them pass. *)
RequestTrailers ==
    /\ client = "open" /\ ~destroyed
    /\ client' = "ended" /\ kind' = IF kind = "plain" THEN "trailers" ELSE kind
    /\ route' = "whole"
    /\ UNCHANGED <<chunks, reqBody, bodyPending, passthrough, call, dispatched,
                   answer, destroyed>>

-----------------------------------------------------------------------------
(* The end of the exchange. *)

AnswerTo_anyStatus(ok, raw) == IF raw \in Reply THEN AppAnswer(raw) ELSE BadGateway
AnswerTo(ok, raw) == IF ok /\ raw \in Reply THEN AppAnswer(raw) ELSE BadGateway

(* on_grpc_call_response: ok is status_code = 0. *)
OnGrpcCallResponse_okOnly(ok, raw) ==
    /\ call = "inflight" /\ ok
    /\ call' = "answered"
    /\ answer' = AnswerTo(ok, raw)
    /\ destroyed' = TRUE
    /\ UNCHANGED <<requestVars, reqBody, bodyPending, passthrough, dispatched, route>>
OnGrpcCallResponse(ok, raw) ==
    /\ call = "inflight"
    /\ call' = "answered"
    /\ answer' = AnswerTo(ok, raw)
    /\ destroyed' = TRUE
    /\ UNCHANGED <<requestVars, reqBody, bodyPending, passthrough, dispatched, route>>

(* The host cancels the call of a context it destroys. *)
CallDropped == IF call = "inflight" THEN "cancelled" ELSE call

RouteAnswers ==
    /\ route # "none" /\ ~destroyed
    /\ answer' = RouteAnswer
    /\ destroyed' = TRUE /\ call' = CallDropped
    /\ UNCHANGED <<requestVars, reqBody, bodyPending, passthrough, dispatched, route>>

ClientAborts ==
    /\ ~destroyed
    /\ destroyed' = TRUE /\ call' = CallDropped
    /\ UNCHANGED <<requestVars, reqBody, bodyPending, passthrough, dispatched, route, answer>>

RequestStep ==
    \/ \E upgrade, end, ok \in BOOLEAN : OnHttpRequestHeaders(upgrade, end, ok)
    \/ \E chunk \in Piece, end, ok \in BOOLEAN : OnHttpRequestBody(chunk, end, ok)
    \/ RequestTrailers

(* Every variable has its type. *)
TypeOK ==
    /\ client \in {"new", "open", "ended"}
    /\ kind \in {"none", "upgrade", "plain", "trailers"}
    /\ chunks \in Seq(Piece) /\ reqBody \in Seq(Data)
    /\ bodyPending \in BOOLEAN /\ passthrough \in BOOLEAN
    /\ call \in {"none", "inflight", "answered", "cancelled"}
    /\ dispatched \in Seq(Seq(Data))
    /\ route \in {"none", "part", "whole"} /\ answer \in Answer /\ destroyed \in BOOLEAN

=============================================================================
