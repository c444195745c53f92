------------------------------ MODULE HttpBridge ------------------------------
(***************************************************************************)
(* One HTTP request through the WASM path: the filter of HttpBridgeFilter, *)
(* the servicer of HttpHandle, and the unary call between them.  The call  *)
(* is asynchronous in both directions: it may reach the servicer late or   *)
(* never, and its result races the 30 s timeout of dispatch_grpc_call, the *)
(* client and the route.  A servicer whose caller has gone is told later.  *)
(***************************************************************************)
EXTENDS Naturals, Sequences, Selection

CONSTANTS Data, Header, Undecodable, Status, None, MaxChunks, MaxEvents, MaxReceives

VARIABLES
    client, kind, chunks, reqBody, bodyPending, passthrough, call, dispatched,
    route, answer, destroyed,
    rpc, request, received, waiting, bodySent, status, headers, body,
    app, outcome, appGot, appSent

H == INSTANCE HttpHandle

F == INSTANCE HttpBridgeFilter WITH Reply <- H!HttpResponse

ASSUME BridgeAssumption ==
    /\ None \notin H!HttpResponse /\ Undecodable \subseteq Header /\ 200 \in Status
    /\ MaxChunks \in Nat /\ MaxEvents \in Nat /\ MaxReceives \in Nat

filterVars == <<client, kind, chunks, reqBody, bodyPending, passthrough, call,
                dispatched, route, answer, destroyed>>
handleVars == <<rpc, request, received, waiting, bodySent, status, headers, body,
                app, outcome, appGot, appSent>>
vars == <<client, kind, chunks, reqBody, bodyPending, passthrough, call, dispatched,
          route, answer, destroyed, rpc, request, received, waiting, bodySent, status,
          headers, body, app, outcome, appGot, appSent>>

Init == F!Init /\ H!Init

-----------------------------------------------------------------------------
(* The client, the route and the filter. *)
RequestStep  == F!RequestStep /\ UNCHANGED handleVars
RouteAnswers == F!RouteAnswers /\ UNCHANGED handleVars
ClientAborts == F!ClientAborts /\ UNCHANGED handleVars

(* The call reaches the server once, soon or late: its filter may have     *)
(* timed it out, or be gone, by then.                                      *)
CallArrives ==
    /\ dispatched # <<>>
    /\ H!Call(dispatched[Len(dispatched)])
    /\ UNCHANGED filterVars

(* The result of a Handle that ended; the host may fail to read it. *)
ResultArrives ==
    /\ outcome # "none"
    /\ \E raw \in {H!Response, None} : F!OnGrpcCallResponse(outcome = "OK", raw)
    /\ UNCHANGED handleVars

(* The timeout, or a transport that fails: a status other than OK. *)
CallFails == F!OnGrpcCallResponse(FALSE, None) /\ UNCHANGED handleVars

CallerGone ==
    /\ call \in {"answered", "cancelled"}
    /\ H!CancelRpc
    /\ UNCHANGED filterVars

(* The servicer and the application. *)
AppCancelled      == H!AppCancelled /\ UNCHANGED filterVars
ReceiveRequest    == H!ReceiveRequest /\ UNCHANGED filterVars
ReceiveDisconnect == H!ReceiveDisconnect /\ UNCHANGED filterVars
Wake              == H!Wake /\ UNCHANGED filterVars
AppSend           == (\E e \in H!AppEvent : H!AppSend(e)) /\ UNCHANGED filterVars
AppEnds           == (H!AppReturns \/ H!AppRaises) /\ UNCHANGED filterVars

Next ==
    \/ RequestStep
    \/ RouteAnswers
    \/ ClientAborts
    \/ CallArrives
    \/ ResultArrives
    \/ CallFails
    \/ CallerGone
    \/ AppCancelled
    \/ ReceiveRequest
    \/ ReceiveDisconnect
    \/ Wake
    \/ AppSend
    \/ AppEnds

Spec == Init /\ [][Next]_vars

(* The timer fires, cancellation travels, a woken or cancelled coroutine   *)
(* runs and a cancelled application exits.  Nothing makes an application   *)
(* that is not cancelled send, receive or return, nor the client go on.    *)
Fairness ==
    /\ WF_vars(CallFails)
    /\ WF_vars(CallerGone)
    /\ WF_vars(AppCancelled)
    /\ WF_vars(Wake)
    /\ WF_vars(app = "cancelling" /\ AppEnds)

FairSpec == Spec /\ Fairness

-----------------------------------------------------------------------------
(* Correctness. *)

(* Every variable has its type. *)
TypeOK == F!TypeOK /\ H!TypeOK

(* The application runs once the request is over, on its whole body, with  *)
(* no chunk lost, doubled or moved between the callbacks that collect them *)
(* (also when the request and the call overlap), and never for an upgrade  *)
(* or a request that ends with trailers.                                   *)
RequestFaithful ==
    /\ app # "none" => kind = "plain" /\ client = "ended" /\ dispatched = <<Joined(chunks)>>
    /\ appGot # <<>> => appGot[1] = [type |-> "request", body |-> Joined(chunks)]

(* The response that the events of an application make. *)
StartEvent == {e \in H!AppEvent : e.type = "start"}
BodyEvent  == {e \in H!AppEvent : e.type = "body"}
HeadersOf  == [e \in StartEvent |-> e.headers]
BodyOf     == [e \in BodyEvent |-> e.body]

ResponseMade(es) ==
    LET starts == Keep(es, StartEvent)
    IN  [status  |-> IF starts = <<>> THEN 200 ELSE starts[Len(starts)].status,
         headers |-> Joined(Each(starts, HeadersOf)),
         body    |-> Joined(Each(Keep(es, BodyEvent), BodyOf))]

(* A client is shown a response of the application only if the application *)
(* returned, and then all of it and nothing else, whatever it sent after   *)
(* its final chunk, in whatever order, and whatever timed out meanwhile.   *)
AnswerFaithful ==
    answer.from = "app" => outcome = "OK" /\ answer.reply = ResponseMade(appSent)

(* The final chunk and the disconnect: no application is told of one       *)
(* before it sent its final chunk, and one that waits is woken by it, in   *)
(* whichever order receive() and send() are called and whatever follows.   *)
FinalSent == \E i \in 1..Len(appSent) : H!Final(appSent[i])

DisconnectFollowsFinal ==
    /\ (\E i \in 1..Len(appGot) : appGot[i].type = "disconnect") => FinalSent
    /\ waiting /\ FinalSent => bodySent

(* The inductive invariant behind the theorems, in parts. *)

(* The closures of Handle: _body_sent is set by a final chunk and by       *)
(* nothing else, and a disconnect is only ever given out once it is set.   *)
Closures ==
    /\ bodySent <=> FinalSent
    /\ \A i \in 1..Len(appGot) : appGot[i].type = "disconnect" => bodySent

(* The first event given out is the request, to an application that runs.  *)
RequestFirst ==
    /\ waiting \/ appGot # <<>> => received
    /\ received => appGot # <<>> /\ appGot[1] = [type |-> "request", body |-> request]
    /\ rpc = "none" => ~received

(* A response shown to the client is that of a Handle that has ended, so   *)
(* nothing can change it any more.                                         *)
AnswerIsResponse == answer.from = "app" => outcome = "OK" /\ answer.reply = H!Response
Settled ==
    /\ rpc = "none" => outcome = "none" /\ app = "none"
    /\ outcome # "none" => app = "done"
    /\ AnswerIsResponse

(* One call at most, for a plain request that is over. *)
OneCall ==
    /\ call = "inflight" \/ rpc # "none" => dispatched # <<>>
    /\ dispatched # <<>> => client = "ended" /\ kind = "plain" /\ Len(dispatched) = 1
    /\ bodyPending => client # "new" /\ (client = "open" => kind = "plain")

(* What was collected is the body so far, what was dispatched the whole of *)
(* it, and what Handle got what was dispatched.                            *)
BodyCollected ==
    /\ client = "new" => chunks = <<>> /\ reqBody = <<>> /\ ~passthrough
    /\ bodyPending => ~passthrough /\ reqBody = Joined(chunks)
    /\ dispatched # <<>> => dispatched = <<Joined(chunks)>>
    /\ rpc # "none" => request = Joined(chunks)

(* What Handle buffers is the response that the events so far make. *)
Buffered == H!Response = ResponseMade(appSent)

IInv ==
    /\ TypeOK /\ Closures /\ RequestFirst /\ Settled /\ OneCall
    /\ BodyCollected /\ Buffered

(* A request the filter dispatched is answered, or its client left, even   *)
(* when the application waits for ever: for a disconnect that only its own *)
(* final chunk would bring, say.                                           *)
EveryRequestAnswered == (dispatched # <<>>) ~> destroyed

(* No application goes on for a request whose exchange is over, not even   *)
(* one that a late call starts when its filter is gone.                    *)
NoAppOutlivesExchange == destroyed ~> [](app \in {"none", "done"})

=============================================================================
