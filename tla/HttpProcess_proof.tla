-------------------------- MODULE HttpProcess_proof --------------------------
(* Theorems about HttpProcess, for every set of payloads and every bound. *)
EXTENDS HttpProcess, Selection_proof

-----------------------------------------------------------------------------
(* Type correctness. *)

(* The events the pump, the application and the handler make are typed. *)
LEMMA EventTypes ==
    /\ APP_DONE \in SendItem
    /\ EofEvent \in RequestEvent
    /\ \A m \in Request : EventOf(m) \in RequestEvent
    /\ \A e \in AppEvent : e \in SendItem /\ e # APP_DONE
    /\ \A e \in SendItem : ResponseOf(e) \in Response
<1>1. APP_DONE \in SendItem /\ EofEvent \in RequestEvent
  BY DEF APP_DONE, SendItem, EofEvent, RequestEvent, Payload
<1>2. ASSUME NEW m \in Request PROVE EventOf(m) \in RequestEvent
  <2>1. m.data \in Payload /\ m.eos \in BOOLEAN
    BY DEF Request, Payload
  <2> QED BY <2>1 DEF EventOf, RequestEvent
<1>3. ASSUME NEW e \in AppEvent PROVE e \in SendItem /\ e # APP_DONE
  <2>1. e.type # "APP_DONE" /\ APP_DONE.type = "APP_DONE"
    BY DEF AppEvent, APP_DONE
  <2> QED BY <2>1 DEF SendItem
<1>4. ASSUME NEW e \in SendItem PROVE ResponseOf(e) \in Response
  <2>1. e.body \in Payload /\ e.more \in BOOLEAN
    <3>1. CASE e \in AppEvent
      BY <3>1 DEF AppEvent, Payload
    <3>2. CASE e = APP_DONE
      BY <3>2 DEF APP_DONE, Payload
    <3> QED BY <3>1, <3>2 DEF SendItem
  <2> QED BY <2>1 DEF ResponseOf, Response, Payload
<1> QED BY <1>1, <1>2, <1>3, <1>4

(* A new RPC is well typed. *)
LEMMA TypeInit == Init => TypeOK
<1> SUFFICES ASSUME Init PROVE TypeOK
  OBVIOUS
<1> USE DEF Init, TypeOK, Outcome
<1>1. sent \in Seq(Request) /\ nread \in 0..Len(sent)
  OBVIOUS
<1>2. receiveQueue \in Seq(RequestEvent) /\ appGot \in Seq(RequestEvent)
  OBVIOUS
<1>3. sendQueue \in Seq(SendItem) /\ consumed \in Seq(SendItem) /\ responses \in Seq(Response)
  OBVIOUS
<1> QED BY <1>1, <1>2, <1>3

(* Every step of every task keeps the types. *)
LEMMA TypeStep == TypeOK /\ [Next]_vars => TypeOK'
<1> SUFFICES ASSUME TypeOK, [Next]_vars PROVE TypeOK'
  OBVIOUS
<1> USE DEF TypeOK, clientVars, requestVars, replyVars, taskVars
<1>1. ASSUME NEW m \in Request, ClientSend(m) PROVE TypeOK'
  BY <1>1 DEF ClientSend
<1>2. CASE ClientHalfClose
  BY <1>2 DEF ClientHalfClose
<1>3. CASE CancelRpc
  BY <1>3 DEF CancelRpc
<1>4. CASE FirstMissing
  BY <1>4 DEF FirstMissing, Outcome
<1>5. CASE FirstRejected
  BY <1>5 DEF FirstRejected, HasNext, Outcome
<1>6. CASE FirstHeaders
  BY <1>6 DEF FirstHeaders, HasNext
<1>7. CASE Consume
  <2>1. /\ sendQueue' \in Seq(SendItem) /\ consumed' \in Seq(SendItem)
        /\ Head(sendQueue) \in SendItem
    BY <1>7, TakeHead DEF Consume
  <2>2. responses' \in Seq(Response)
    <3>1. CASE UNCHANGED responses
      BY <3>1
    <3>2. CASE responses' = Append(responses, ResponseOf(Head(sendQueue)))
      <4>1. PICK r \in Response : r = ResponseOf(Head(sendQueue))
        BY <2>1, EventTypes
      <4> QED BY <3>2, <4>1
    <3> QED BY <1>7, <3>1, <3>2 DEF Consume
  <2>3. /\ handler' \in {"first", "consume", "yield", "gather", "ended"}
        /\ outcome' \in Outcome
        /\ pump' \in {"none", "running", "cancelling", "done"}
        /\ app' \in {"none", "created", "running", "cancelling", "dropped", "done"}
    BY <1>7 DEF Consume, Finally, PumpOnCancel, AppOnCancel, Outcome
  <2> QED BY <1>7, <2>1, <2>2, <2>3 DEF Consume
<1>8. CASE Resume
  BY <1>8 DEF Resume, Finally, PumpOnCancel, AppOnCancel, Outcome
<1>9. CASE HandlerCancelled
  BY <1>9 DEF HandlerCancelled, Finally, PumpOnCancel, AppOnCancel, Outcome
<1>10. CASE Join
  BY <1>10 DEF Join
<1>11. CASE PumpRead
  <2>1. sent[nread + 1] \in Request /\ nread' \in 0..Len(sent')
    BY <1>11 DEF PumpRead, HasNext
  <2>2. receiveQueue' \in Seq(RequestEvent)
    <3>1. CASE UNCHANGED receiveQueue
      BY <3>1
    <3>2. CASE receiveQueue' = Append(receiveQueue, EventOf(sent[nread + 1]))
      <4>1. PICK r \in RequestEvent : r = EventOf(sent[nread + 1])
        BY <2>1, EventTypes
      <4> QED BY <3>2, <4>1
    <3> QED BY <1>11, <3>1, <3>2 DEF PumpRead
  <2>3. pump' \in {"none", "running", "cancelling", "done"}
    BY <1>11 DEF PumpRead, PumpAfter, IsBody
  <2> QED BY <1>11, <2>1, <2>2, <2>3 DEF PumpRead
<1>12. CASE PumpEof
  BY <1>12, EventTypes DEF PumpEof
<1>13. CASE PumpCancelled
  BY <1>13 DEF PumpCancelled
<1>14. CASE AppStart
  BY <1>14 DEF AppStart
<1>15. CASE AppReceive
  BY <1>15, TakeHead DEF AppReceive
<1>16. ASSUME NEW e \in AppEvent, AppSend(e) PROVE TypeOK'
  BY <1>16, EventTypes DEF AppSend
<1>17. CASE AppExit
  BY <1>17, EventTypes DEF AppExit
<1>18. CASE AppDropped
  BY <1>18 DEF AppDropped
<1>19. CASE UNCHANGED vars
  BY <1>19 DEF vars
<1> QED BY <1>1, <1>2, <1>3, <1>4, <1>5, <1>6, <1>7, <1>8, <1>9, <1>10, <1>11,
           <1>12, <1>13, <1>14, <1>15, <1>16, <1>17, <1>18, <1>19 DEF Next

(* Every reachable state of Process is well typed. *)
THEOREM TypeCorrect == Spec => []TypeOK
BY TypeInit, TypeStep, PTL DEF Spec

-----------------------------------------------------------------------------
(* The tasks of one RPC. *)

(* Every step keeps the tasks in step with the handler. *)
LEMMA LifecycleStep == TypeOK /\ Lifecycle /\ [Next]_vars => Lifecycle'
<1> SUFFICES ASSUME TypeOK, Lifecycle, [Next]_vars PROVE Lifecycle'
  OBVIOUS
<1> USE DEF Lifecycle, TasksJoined, clientVars, requestVars, replyVars, taskVars
<1>1. ASSUME NEW m \in Request, ClientSend(m) PROVE Lifecycle'
  BY <1>1 DEF ClientSend
<1>2. CASE ClientHalfClose \/ CancelRpc
  BY <1>2 DEF ClientHalfClose, CancelRpc
<1>3. CASE FirstMissing \/ FirstRejected \/ FirstHeaders
  BY <1>3 DEF FirstMissing, FirstRejected, FirstHeaders
<1>4. CASE Consume
  BY <1>4 DEF Consume, Finally, PumpOnCancel, AppOnCancel
<1>5. CASE Resume
  BY <1>5 DEF Resume, Finally, PumpOnCancel, AppOnCancel
<1>6. CASE HandlerCancelled
  BY <1>6 DEF HandlerCancelled, Finally, PumpOnCancel, AppOnCancel
<1>7. CASE Join
  BY <1>7 DEF Join, TasksDone
<1>8. CASE PumpRead
  BY <1>8 DEF PumpRead, PumpAfter, TypeOK
<1>9. CASE PumpEof \/ PumpCancelled
  BY <1>9 DEF PumpEof, PumpCancelled, TypeOK
<1>10. CASE AppStart \/ AppReceive \/ AppExit \/ AppDropped
  BY <1>10 DEF AppStart, AppReceive, AppExit, AppDropped, TypeOK
<1>11. ASSUME NEW e \in AppEvent, AppSend(e) PROVE Lifecycle'
  BY <1>11 DEF AppSend
<1>12. CASE UNCHANGED vars
  BY <1>12 DEF vars
<1> QED BY <1>1, <1>2, <1>3, <1>4, <1>5, <1>6, <1>7, <1>8, <1>9, <1>10, <1>11,
           <1>12 DEF Next

(* No task outlives its RPC, however cancellation, exit and delivery       *)
(* interleave.                                                             *)
THEOREM NoTaskOutlivesRpc == Spec => []TasksJoined
<1>1. Init => Lifecycle
  BY DEF Init, Lifecycle, TasksJoined
<1>2. Lifecycle => TasksJoined
  BY DEF Lifecycle
<1> QED BY <1>1, <1>2, LifecycleStep, TypeCorrect, PTL DEF Spec

-----------------------------------------------------------------------------
(* The request direction. *)

(* What a step can do to the request direction: put an event, hand one to  *)
(* the application, or neither, the pump never coming back to life.        *)
PutsRequest(i) ==
    /\ pump = "running" /\ pump' = (IF i.more THEN "running" ELSE "done")
    /\ Offered' = Append(Offered, i)
    /\ UNCHANGED appGot

TakesRequest ==
    /\ Len(appGot) < Len(Offered)
    /\ appGot' = Append(appGot, Offered[Len(appGot) + 1])
    /\ UNCHANGED <<Offered, pump>>

LeavesRequest ==
    /\ UNCHANGED <<Offered, appGot>>
    /\ pump = "done" => pump' = "done"
    /\ pump' \in {"none", "running"} => pump \in {"none", "running"}

(* What a put, of an event for the application or of one it sends, adds to *)
(* what has been offered and produced.                                     *)
LEMMA PutIsOffered ==
    ASSUME TypeOK, NEW r \in RequestEvent,
           appGot' = appGot, receiveQueue' = Append(receiveQueue, r)
    PROVE  Offered' = Append(Offered, r)
<1>1. appGot \in Seq(RequestEvent) /\ receiveQueue \in Seq(RequestEvent)
  BY DEF TypeOK
<1>2. appGot \o Append(receiveQueue, r) = Append(appGot \o receiveQueue, r)
  BY <1>1, PutLast
<1>3. Offered' = appGot \o Append(receiveQueue, r)
  BY Zenon DEF Offered
<1>4. Append(Offered, r) = Append(appGot \o receiveQueue, r)
  BY Zenon DEF Offered
<1> QED BY <1>2, <1>3, <1>4, Zenon

(* A put at the end of the send queue appends to what was produced. *)
LEMMA PutIsProduced ==
    ASSUME TypeOK, NEW r \in SendItem,
           consumed' = consumed, sendQueue' = Append(sendQueue, r)
    PROVE  Produced' = Append(Produced, r)
<1>1. consumed \in Seq(SendItem) /\ sendQueue \in Seq(SendItem)
  BY DEF TypeOK
<1>2. consumed \o Append(sendQueue, r) = Append(consumed \o sendQueue, r)
  BY <1>1, PutLast
<1>3. Produced' = consumed \o Append(sendQueue, r)
  BY Zenon DEF Produced
<1>4. Append(Produced, r) = Append(consumed \o sendQueue, r)
  BY Zenon DEF Produced
<1> QED BY <1>2, <1>3, <1>4, Zenon

(* A step puts one event for the application, hands it one, or does       *)
(* neither: _pump_body and the application are the only ones to try.       *)
LEMMA RequestStep ==
    ASSUME TypeOK, Lifecycle, [Next]_vars
    PROVE  (\E i \in RequestEvent : PutsRequest(i)) \/ TakesRequest \/ LeavesRequest
<1> USE DEF Offered, clientVars, requestVars, replyVars, taskVars
<1>1. ASSUME UNCHANGED <<appGot, receiveQueue>>,
             \/ UNCHANGED pump
             \/ pump' = PumpOnCancel
             \/ pump = "none" /\ pump' = "running"
             \/ pump = "cancelling" /\ pump' = "done"
      PROVE  LeavesRequest
  BY <1>1 DEF LeavesRequest, PumpOnCancel
<1>2. CASE PumpRead
  <2>1. sent[nread + 1] \in Request
    BY <1>2 DEF PumpRead, HasNext, TypeOK
  <2>2. CASE IsBody(sent[nread + 1])
    <3>1. PICK r \in RequestEvent : r = EventOf(sent[nread + 1])
      BY <2>1, EventTypes
    <3>2. pump = "running" /\ UNCHANGED appGot /\ receiveQueue' = Append(receiveQueue, r)
          /\ pump' = PumpAfter(sent[nread + 1])
      BY <1>2, <2>2, <3>1 DEF PumpRead
    <3>3. PumpAfter(sent[nread + 1]) = IF r.more THEN "running" ELSE "done"
      BY <3>1 DEF EventOf, PumpAfter
    <3>4. Offered' = Append(Offered, r)
      BY <3>2, PutIsOffered
    <3> QED BY <3>1, <3>2, <3>3, <3>4 DEF PutsRequest
  <2>3. CASE ~IsBody(sent[nread + 1])
    BY <1>1, <1>2, <2>3 DEF PumpRead
  <2> QED BY <2>2, <2>3
<1>3. CASE PumpEof
  <2>1. EofEvent \in RequestEvent /\ ~EofEvent.more
    BY EventTypes DEF EofEvent
  <2>2. PICK r \in RequestEvent : r = EofEvent /\ ~r.more
    BY <2>1
  <2>3. Offered' = Append(Offered, r)
    <3>1. appGot' = appGot /\ receiveQueue' = Append(receiveQueue, r)
      BY <1>3, <2>2 DEF PumpEof
    <3> QED BY <3>1, PutIsOffered
  <2> QED BY <1>3, <2>2, <2>3 DEF PumpEof, PutsRequest
<1>4. CASE AppReceive
  <2>1. /\ appGot \in Seq(RequestEvent) /\ receiveQueue \in Seq(RequestEvent)
        /\ receiveQueue # <<>>
    BY <1>4 DEF AppReceive, TypeOK
  <2>2. /\ Append(appGot, Head(receiveQueue)) \o Tail(receiveQueue) = appGot \o receiveQueue
        /\ Len(appGot) < Len(appGot \o receiveQueue)
        /\ (appGot \o receiveQueue)[Len(appGot) + 1] = Head(receiveQueue)
    BY <2>1, TakeHead, Zenon
  <2> QED BY <1>4, <2>2 DEF AppReceive, TakesRequest
<1>5. ASSUME NEW m \in Request, ClientSend(m) PROVE LeavesRequest
  BY <1>1, <1>5 DEF ClientSend
<1>6. ASSUME NEW e \in AppEvent, AppSend(e) PROVE LeavesRequest
  BY <1>1, <1>6 DEF AppSend
<1>7. CASE FirstHeaders
  BY <1>1, <1>7 DEF FirstHeaders, Lifecycle
<1>8. CASE Consume \/ Resume \/ HandlerCancelled
  BY <1>1, <1>8 DEF Consume, Resume, HandlerCancelled, Finally
<1>9. CASE \/ ClientHalfClose \/ CancelRpc \/ FirstMissing \/ FirstRejected \/ Join
           \/ AppStart \/ AppExit \/ AppDropped \/ PumpCancelled
  BY <1>1, <1>9 DEF ClientHalfClose, CancelRpc, FirstMissing, FirstRejected, Join,
                    AppStart, AppExit, AppDropped, PumpCancelled
<1>10. CASE UNCHANGED vars
  BY <1>1, <1>10 DEF vars
<1> QED BY <1>2, <1>3, <1>4, <1>5, <1>6, <1>7, <1>8, <1>9, <1>10 DEF Next

(* Every step keeps the end of the request last. *)
LEMMA EndOfRequestStep ==
    TypeOK /\ Lifecycle /\ EndOfRequestLast /\ [Next]_vars => EndOfRequestLast'
<1> SUFFICES ASSUME TypeOK, Lifecycle, EndOfRequestLast, [Next]_vars
             PROVE  EndOfRequestLast'
  OBVIOUS
<1>1. Offered \in Seq(RequestEvent)
  BY PutLast, ConcatProperties DEF TypeOK, Offered
<1>2. ASSUME NEW i \in RequestEvent, PutsRequest(i) PROVE EndOfRequestLast'
  <2>1. /\ Len(Offered') = Len(Offered) + 1 /\ Offered'[Len(Offered) + 1] = i
        /\ \A k \in 1..Len(Offered) : Offered'[k] = Offered[k]
    BY <1>1, <1>2 DEF PutsRequest
  <2>2. \A k \in 1..Len(Offered) : Offered[k].more
    BY <1>2 DEF PutsRequest, EndOfRequestLast
  <2>3. ~i.more => pump' = "done"
    BY <1>2 DEF PutsRequest
  <2> QED BY <1>1, <2>1, <2>2, <2>3 DEF EndOfRequestLast
<1>3. CASE TakesRequest \/ LeavesRequest
  BY <1>3 DEF TakesRequest, LeavesRequest, EndOfRequestLast
<1> QED BY <1>2, <1>3, RequestStep

(* The request direction of Process is a FIFO relay: the application is    *)
(* offered one end of request, last, and receives what it is offered, in   *)
(* order (_pump_body, receive_queue and the application's receive).        *)
THEOREM RequestIsRelay == Spec => RequestRelaySpec
<1>1. Init => RequestRelay!Init /\ Lifecycle /\ EndOfRequestLast
  BY DEF Init, RequestRelay!Init, Offered, Lifecycle, TasksJoined, EndOfRequestLast
<1>2. TypeOK /\ Lifecycle /\ EndOfRequestLast /\ [Next]_vars
        => [RequestRelay!Next]_(RequestRelay!vars)
  <2> SUFFICES ASSUME TypeOK, Lifecycle, EndOfRequestLast, [Next]_vars
               PROVE  [RequestRelay!Next]_(RequestRelay!vars)
    OBVIOUS
  <2> USE DEF RequestRelay!Next, RequestRelay!vars
  <2>1. ASSUME NEW i \in RequestEvent, PutsRequest(i) PROVE RequestRelay!Accept(i)
    BY <2>1 DEF PutsRequest, RequestRelay!Accept
  <2>2. CASE TakesRequest
    <3>1. /\ appGot \in Seq(RequestEvent) /\ Offered \in Seq(RequestEvent)
          /\ \A k \in 1..Len(appGot) : Offered[k] = appGot[k]
      BY ConcatProperties DEF TypeOK, Offered
    <3>2. \A k \in 1..Len(appGot) : appGot[k].more
      BY <2>2, <3>1 DEF TakesRequest, EndOfRequestLast
    <3> QED BY <2>2, <3>1, <3>2 DEF TakesRequest, RequestRelay!Forward
  <2>3. CASE LeavesRequest
    BY <2>3 DEF LeavesRequest, RequestRelay!Close
  <2> QED BY <2>1, <2>2, <2>3, RequestStep
<1> QED BY <1>1, <1>2, LifecycleStep, EndOfRequestStep, TypeCorrect, PTL
        DEF Spec, RequestRelaySpec, RequestRelay!Spec

-----------------------------------------------------------------------------
(* The response direction. *)

(* What a step can do to the response direction: the application puts an   *)
(* item, the handler takes one, or neither.                                *)
PutsReply(i) ==
    /\ app # "done" /\ (app' = "done" <=> i = APP_DONE)
    /\ Produced' = Append(Produced, i)
    /\ UNCHANGED <<consumed, handler>>

TakesReply ==
    /\ handler = "consume" /\ sendQueue # <<>>
    /\ Produced[Len(consumed) + 1] = Head(sendQueue)
    /\ Len(consumed) < Len(Produced)
    /\ consumed' = Append(consumed, Head(sendQueue))
    /\ UNCHANGED Produced
    /\ app' = "done" <=> app = "done"

LeavesReply ==
    /\ UNCHANGED <<Produced, consumed>>
    /\ app = "done" => app' = "done"

(* A step puts one item on sendQueue, consumes one, or does neither. *)
LEMMA ReplyStep ==
    ASSUME TypeOK, Lifecycle, [Next]_vars
    PROVE  (\E i \in SendItem : PutsReply(i)) \/ TakesReply \/ LeavesReply
<1> USE DEF Produced, clientVars, requestVars, replyVars, taskVars
<1>1. ASSUME UNCHANGED <<consumed, sendQueue>>,
             UNCHANGED app \/ app' = AppOnCancel \/ app # "done"
      PROVE  LeavesReply
  BY <1>1 DEF LeavesReply, AppOnCancel
<1>2. ASSUME NEW e \in AppEvent, AppSend(e) PROVE \E i \in SendItem : PutsReply(i)
  <2>1. PICK r \in SendItem : r = e /\ r # APP_DONE
    BY EventTypes
  <2>2. Produced' = Append(Produced, r)
    <3>1. consumed' = consumed /\ sendQueue' = Append(sendQueue, r)
      BY <1>2, <2>1 DEF AppSend
    <3> QED BY <3>1, PutIsProduced
  <2>3. app # "done" /\ app' # "done" /\ UNCHANGED <<consumed, handler>>
    BY <1>2 DEF AppSend
  <2>4. PutsReply(r)
    BY <2>1, <2>2, <2>3 DEF PutsReply
  <2> QED BY <2>4
<1>3. CASE AppExit
  <2>1. PICK r \in SendItem : r = APP_DONE
    BY EventTypes
  <2>2. Produced' = Append(Produced, r)
    <3>1. consumed' = consumed /\ sendQueue' = Append(sendQueue, r)
      BY <1>3, <2>1 DEF AppExit
    <3> QED BY <3>1, PutIsProduced
  <2>3. app # "done" /\ app' = "done" /\ UNCHANGED <<consumed, handler>>
    BY <1>3 DEF AppExit
  <2>4. PutsReply(r)
    BY <2>1, <2>2, <2>3 DEF PutsReply
  <2> QED BY <2>4
<1>4. CASE Consume
  <2>1. /\ consumed \in Seq(SendItem) /\ sendQueue \in Seq(SendItem)
        /\ sendQueue # <<>> /\ handler = "consume"
    BY <1>4 DEF Consume, TypeOK
  <2>2. /\ Append(consumed, Head(sendQueue)) \o Tail(sendQueue) = consumed \o sendQueue
        /\ Len(consumed) < Len(consumed \o sendQueue)
        /\ (consumed \o sendQueue)[Len(consumed) + 1] = Head(sendQueue)
    BY <2>1, TakeHead, Zenon
  <2>3. app' = "done" <=> app = "done"
    BY <1>4 DEF Consume, Finally, AppOnCancel
  <2>4. consumed' = Append(consumed, Head(sendQueue)) /\ sendQueue' = Tail(sendQueue)
    BY <1>4 DEF Consume
  <2> QED BY <2>1, <2>2, <2>3, <2>4 DEF TakesReply
<1>5. ASSUME NEW m \in Request, ClientSend(m) PROVE LeavesReply
  BY <1>1, <1>5 DEF ClientSend
<1>6. CASE FirstHeaders
  BY <1>1, <1>6 DEF FirstHeaders, Lifecycle
<1>7. CASE Resume \/ HandlerCancelled
  BY <1>1, <1>7 DEF Resume, HandlerCancelled, Finally
<1>8. CASE \/ ClientHalfClose \/ CancelRpc \/ FirstMissing \/ FirstRejected \/ Join
           \/ PumpRead \/ PumpEof \/ PumpCancelled
  BY <1>1, <1>8 DEF ClientHalfClose, CancelRpc, FirstMissing, FirstRejected, Join,
                    PumpRead, PumpEof, PumpCancelled
<1>9. CASE AppStart \/ AppReceive \/ AppDropped
  BY <1>1, <1>9 DEF AppStart, AppReceive, AppDropped
<1>10. CASE UNCHANGED vars
  BY <1>1, <1>10 DEF vars
<1> QED BY <1>2, <1>3, <1>4, <1>5, <1>6, <1>7, <1>8, <1>9, <1>10 DEF Next

(* Where the handler may go: the loop is entered with nothing taken, or    *)
(* re-entered after a yield or an event that shows nothing.                *)
LEMMA LoopStep == TypeOK /\ Lifecycle /\ LoopGoesOn /\ [Next]_vars => LoopGoesOn'
<1> SUFFICES ASSUME TypeOK, Lifecycle, LoopGoesOn, [Next]_vars PROVE LoopGoesOn'
  OBVIOUS
<1> USE DEF clientVars, requestVars, replyVars, taskVars
<1>1. ASSUME UNCHANGED <<handler, consumed>> PROVE LoopGoesOn'
  BY <1>1 DEF LoopGoesOn
<1>2. ASSUME handler' \in {"gather", "ended"} PROVE LoopGoesOn'
  BY <1>2 DEF LoopGoesOn
<1>3. CASE FirstHeaders
  BY <1>3 DEF FirstHeaders, Lifecycle, LoopGoesOn
<1>4. CASE Consume
  <2> DEFINE e == Head(sendQueue)
  <2>1. /\ consumed \in Seq(SendItem) /\ e \in SendItem /\ handler = "consume"
        /\ consumed' = Append(consumed, e)
    BY <1>4, TakeHead DEF Consume, TypeOK
  <2>2. /\ Len(consumed') = Len(consumed) + 1 /\ consumed'[Len(consumed')] = e
        /\ \A k \in 1..Len(consumed) : consumed'[k] = consumed[k]
        /\ consumed' # <<>>
    BY <2>1
  <2>3. \A k \in 1..Len(consumed) : ~Terminator(consumed'[k])
    BY <2>1, <2>2 DEF LoopGoesOn
  <2>4. CASE handler' = "yield"
    <3>1. Yields(e)
      BY <1>4, <2>1, <2>4 DEF Consume, Finally, taskVars
    <3> QED BY <2>2, <2>3, <2>4, <3>1 DEF LoopGoesOn
  <2>5. CASE handler' = "consume"
    <3>1. ~EndsLoop(e) /\ ~Raises(e) /\ ~Yields(e)
      BY <1>4, <2>5 DEF Consume, Finally
    <3>2. ~Terminator(e)
      <4>1. e \in AppEvent
        BY <2>1, <3>1 DEF EndsLoop, SendItem
      <4>2. e.type # "APP_DONE"
        BY <4>1 DEF AppEvent
      <4> QED BY <3>1, <4>2 DEF Terminator, EndsLoop, Raises, Yields
    <3>3. \A k \in 1..Len(consumed') : ~Terminator(consumed'[k])
      BY <2>1, <2>2, <2>3, <3>2
    <3> QED BY <2>5, <3>3 DEF LoopGoesOn
  <2>6. CASE handler' = "gather"
    BY <1>2, <2>6
  <2> QED BY <1>4, <2>1, <2>4, <2>5, <2>6 DEF Consume, Finally, taskVars
<1>5. CASE Resume
  <2> DEFINE e == consumed[Len(consumed)]
  <2>1. /\ handler = "yield" /\ consumed # <<>> /\ Yields(e) /\ UNCHANGED consumed
        /\ \A k \in 1..(Len(consumed) - 1) : ~Terminator(consumed[k])
    BY <1>5 DEF Resume, LoopGoesOn
  <2>2. CASE handler' = "consume"
    <3>1. ~FinalBody(e)
      BY <1>5, <2>2 DEF Resume, Finally
    <3>2. ~Terminator(e)
      BY <2>1, <3>1 DEF Terminator, FinalBody, Yields, EndsLoop, Raises, APP_DONE
    <3>3. Len(consumed) \in Nat
      BY DEF TypeOK
    <3>4. \A k \in 1..Len(consumed) : ~Terminator(consumed[k])
      BY <2>1, <3>2, <3>3
    <3> QED BY <2>1, <2>2, <3>4 DEF LoopGoesOn
  <2> QED BY <1>2, <1>5, <2>2 DEF Resume, Finally
<1>6. CASE HandlerCancelled
  BY <1>2, <1>6 DEF HandlerCancelled, Finally, TypeOK
<1>7. CASE FirstMissing \/ FirstRejected \/ Join
  BY <1>2, <1>7 DEF FirstMissing, FirstRejected, Join
<1>8. CASE ClientHalfClose \/ CancelRpc \/ PumpRead \/ PumpEof \/ PumpCancelled
  BY <1>1, <1>8 DEF ClientHalfClose, CancelRpc, PumpRead, PumpEof, PumpCancelled
<1>9. CASE AppStart \/ AppReceive \/ AppExit \/ AppDropped
  BY <1>1, <1>9 DEF AppStart, AppReceive, AppExit, AppDropped
<1>10. ASSUME NEW m \in Request, ClientSend(m) PROVE LoopGoesOn'
  BY <1>1, <1>10 DEF ClientSend
<1>11. ASSUME NEW e \in AppEvent, AppSend(e) PROVE LoopGoesOn'
  BY <1>1, <1>11 DEF AppSend
<1>12. CASE UNCHANGED vars
  BY <1>1, <1>12 DEF vars
<1> QED BY <1>3, <1>4, <1>5, <1>6, <1>7, <1>8, <1>9, <1>10, <1>11, <1>12 DEF Next

(* The response direction of Process is a FIFO relay: what the application *)
(* puts is consumed in order, the sentinel is the last item put, and the   *)
(* consumer loop takes nothing after an event that ends the response.      *)
THEOREM ResponseIsRelay == Spec => ResponseRelaySpec
<1>1. Init => ResponseRelay!Init /\ Lifecycle /\ LoopGoesOn
  BY DEF Init, ResponseRelay!Init, Produced, Lifecycle, TasksJoined, LoopGoesOn
<1>2. TypeOK /\ Lifecycle /\ LoopGoesOn /\ [Next]_vars
        => [ResponseRelay!Next]_(ResponseRelay!vars)
  <2> SUFFICES ASSUME TypeOK, Lifecycle, LoopGoesOn, [Next]_vars
               PROVE  [ResponseRelay!Next]_(ResponseRelay!vars)
    OBVIOUS
  <2> USE DEF ResponseRelay!Next, ResponseRelay!vars
  <2>1. ASSUME NEW i \in SendItem, PutsReply(i) PROVE ResponseRelay!Accept(i)
    BY <2>1 DEF PutsReply, ResponseRelay!Accept
  <2>2. CASE TakesReply
    BY <2>2 DEF TakesReply, LoopGoesOn, ResponseRelay!Forward
  <2>3. CASE LeavesReply
    BY <2>3 DEF LeavesReply, ResponseRelay!Close
  <2> QED BY <2>1, <2>2, <2>3, ReplyStep
<1> QED BY <1>1, <1>2, LifecycleStep, LoopStep, TypeCorrect, PTL
        DEF Spec, ResponseRelaySpec, ResponseRelay!Spec

-----------------------------------------------------------------------------
(* What the application is offered of the request. *)

(* Every step keeps the count of the first message. *)
LEMMA FirstReadStep ==
    TypeOK /\ Lifecycle /\ FirstReadOnce /\ [Next]_vars => FirstReadOnce'
<1> SUFFICES ASSUME TypeOK, Lifecycle, FirstReadOnce, [Next]_vars PROVE FirstReadOnce'
  OBVIOUS
<1> USE DEF FirstReadOnce, clientVars, requestVars, replyVars, taskVars
<1>1. CASE FirstMissing \/ FirstRejected \/ FirstHeaders
  BY <1>1 DEF FirstMissing, FirstRejected, FirstHeaders, Lifecycle, TypeOK
<1>2. CASE PumpRead
  BY <1>2 DEF PumpRead, PumpAfter, Lifecycle, TypeOK
<1>3. CASE Consume \/ Resume \/ HandlerCancelled
  BY <1>3 DEF Consume, Resume, HandlerCancelled, Finally, PumpOnCancel
<1>4. CASE \/ ClientHalfClose \/ CancelRpc \/ Join \/ PumpEof \/ PumpCancelled
           \/ AppStart \/ AppReceive \/ AppExit \/ AppDropped
  BY <1>4 DEF ClientHalfClose, CancelRpc, Join, PumpEof, PumpCancelled,
              AppStart, AppReceive, AppExit, AppDropped
<1>5. ASSUME NEW m \in Request, ClientSend(m) PROVE FirstReadOnce'
  BY <1>5 DEF ClientSend
<1>6. ASSUME NEW e \in AppEvent, AppSend(e) PROVE FirstReadOnce'
  BY <1>6 DEF AppSend
<1>7. CASE UNCHANGED vars
  BY <1>7 DEF vars
<1> QED BY <1>1, <1>2, <1>3, <1>4, <1>5, <1>6, <1>7 DEF Next

(* The reference events of a request read so far. *)
EventsIn(ms) == Each(Keep(ms, BodyChunks), ChunkEvent)

(* The event of a message is an event, the one the pump makes. *)
LEMMA ChunkEventType ==
    /\ ChunkEvent \in [Request -> RequestEvent]
    /\ \A m \in Request : ChunkEvent[m] = EventOf(m)
<1>1. \A m \in Request : [body |-> m.data, more |-> ~m.eos] \in RequestEvent
  BY EventTypes DEF EventOf
<1> QED BY <1>1 DEF ChunkEvent, EventOf

(* One more message read is one more event, if it is body. *)
LEMMA EventsInAppend ==
    ASSUME NEW ms \in Seq(Request), NEW m \in Request
    PROVE  /\ EventsIn(ms) \in Seq(RequestEvent)
           /\ IsBody(m) => EventsIn(Append(ms, m)) = Append(EventsIn(ms), EventOf(m))
           /\ ~IsBody(m) => EventsIn(Append(ms, m)) = EventsIn(ms)
<1>1. PICK k : k = Keep(ms, BodyChunks) /\ k \in Seq(Request)
  BY KeepType
<1>2. PICK c : c = ChunkEvent /\ c \in [Request -> RequestEvent]
  BY ChunkEventType
<1>3. EventsIn(ms) \in Seq(RequestEvent)
  BY <1>1, <1>2, EachType DEF EventsIn
<1>4. CASE IsBody(m)
  <2>1. Keep(Append(ms, m), BodyChunks) = Append(k, m)
    <3>1. m \in BodyChunks
      BY <1>4 DEF IsBody, BodyChunks
    <3> QED BY <1>1, <3>1, KeepAppend
  <2>2. Each(Append(k, m), c) = Append(Each(k, c), c[m])
    BY <1>1, <1>2, EachAppend
  <2>3. c[m] = EventOf(m)
    BY <1>2, ChunkEventType
  <2> QED BY <1>1, <1>2, <1>3, <1>4, <2>1, <2>2, <2>3 DEF EventsIn
<1>5. CASE ~IsBody(m)
  <2>1. Keep(Append(ms, m), BodyChunks) = k
    <3>1. m \notin BodyChunks
      BY <1>5 DEF IsBody, BodyChunks
    <3> QED BY <1>1, <3>1, KeepAppend
  <2> QED BY <1>1, <1>3, <1>5, <2>1 DEF EventsIn
<1> QED BY <1>4, <1>5

(* The messages after the first, as far as they are read: none at first,   *)
(* not changed by what the client sends on, one more when the pump reads.  *)
LEMMA MessagesRead ==
    ASSUME TypeOK, TypeOK'
    PROVE  /\ nread <= 1 => SubSeq(sent, 2, nread) = <<>>
           /\ SubSeq(sent, 2, nread) \in Seq(Request)
           /\ \A m \in Request :
                sent' = Append(sent, m) => SubSeq(sent', 2, nread) = SubSeq(sent, 2, nread)
           /\ 1 <= nread /\ nread < Len(sent) =>
                SubSeq(sent, 2, nread + 1) = Append(SubSeq(sent, 2, nread), sent[nread + 1])
<1>1. sent \in Seq(Request) /\ nread \in 0..Len(sent)
  BY DEF TypeOK
<1>2. ASSUME NEW s, nread <= 1 PROVE SubSeq(s, 2, nread) = <<>>
  BY <1>1, <1>2, SubSeqEmpty
<1>3. CASE nread <= 1
  <2>1. SubSeq(sent, 2, nread) = <<>> /\ SubSeq(sent', 2, nread) = <<>>
    BY <1>2, <1>3
  <2>2. CASE nread = 1 /\ nread < Len(sent)
    <3>1. nread \in 0..(Len(sent) - 1) /\ 2 \in 1..(nread + 1)
      BY <1>1, <2>2
    <3>2. SubSeq(sent, 2, nread + 1) = Append(SubSeq(sent, 2, nread), sent[nread + 1])
      BY <1>1, <3>1, SliceGrows
    <3> QED BY <1>1, <2>1, <3>2
  <2> QED BY <1>1, <2>1, <2>2
<1>4. CASE nread > 1
  <2>1. 2 \in 1..(Len(sent) + 1) /\ nread \in 0..Len(sent)
    BY <1>1, <1>4
  <2>2. SubSeq(sent, 2, nread) \in Seq(Request)
    BY <1>1, <2>1, Slice
  <2>3. ASSUME NEW m \in Request PROVE SubSeq(Append(sent, m), 2, nread) = SubSeq(sent, 2, nread)
    BY <1>1, <2>1, SliceOfAppend
  <2>4. ASSUME nread < Len(sent)
        PROVE  SubSeq(sent, 2, nread + 1) = Append(SubSeq(sent, 2, nread), sent[nread + 1])
    <3>1. nread \in 0..(Len(sent) - 1) /\ 2 \in 1..(nread + 1)
      BY <1>1, <1>4, <2>4
    <3> QED BY <1>1, <3>1, SliceGrows
  <2> QED BY <1>1, <1>4, <2>2, <2>3, <2>4
<1> QED BY <1>1, <1>3, <1>4

(* Every step keeps what the application is offered in step with what was  *)
(* read of the stream.                                                     *)
LEMMA RequestFaithfulStep ==
    ASSUME TypeOK, TypeOK', Lifecycle, EndOfRequestLast, FirstReadOnce, RequestFaithful,
           [Next]_vars
    PROVE  RequestFaithful'
<1> USE DEF clientVars, requestVars, replyVars, taskVars
<1> DEFINE read == SubSeq(sent, 2, nread)
<1>1. /\ read \in Seq(Request) /\ BodyEvents = EventsIn(read)
      /\ BodyEvents \in Seq(RequestEvent)
  BY MessagesRead, EventsInAppend, KeepType, EachType, ChunkEventType DEF BodyEvents, EventsIn
<1>2. BodyEvents' = EventsIn(SubSeq(sent', 2, nread'))
  BY DEF BodyEvents, EventsIn
<1>3. ASSUME UNCHANGED <<Offered, BodyEvents>>, Exhausted /\ pump = "done" => Exhausted' /\ pump' = "done"
      PROVE  RequestFaithful'
  BY <1>3 DEF RequestFaithful
<1>4. ASSUME UNCHANGED <<appGot, receiveQueue, sent, nread, halfClosed>>,
             \/ UNCHANGED pump \/ pump' = PumpOnCancel \/ pump # "done",
             UNCHANGED rpc \/ rpc' \in {"cancelled", "delivered"}
      PROVE  RequestFaithful'
  <2>1. UNCHANGED <<Offered, BodyEvents>>
    BY <1>4 DEF Offered, BodyEvents
  <2>2. Exhausted /\ pump = "done" => Exhausted' /\ pump' = "done"
    BY <1>4 DEF Exhausted, PumpOnCancel
  <2> QED BY <1>3, <2>1, <2>2
<1>5. ASSUME NEW m \in Request, ClientSend(m) PROVE RequestFaithful'
  <2>1. sent' = Append(sent, m) /\ UNCHANGED <<Offered, nread, pump>> /\ ~Exhausted
    BY <1>5 DEF ClientSend, Offered, Exhausted
  <2>2. UNCHANGED BodyEvents
    BY <1>1, <1>2, <2>1, MessagesRead
  <2> QED BY <1>3, <2>1, <2>2
<1>6. CASE ClientHalfClose
  <2>1. UNCHANGED <<Offered, BodyEvents>> /\ ~Exhausted
    BY <1>6 DEF ClientHalfClose, Offered, BodyEvents, Exhausted
  <2> QED BY <1>3, <2>1
<1>7. CASE FirstRejected \/ FirstHeaders
  <2>1. /\ nread = 0 /\ nread' = 1 /\ pump = "none" /\ UNCHANGED <<sent, appGot, receiveQueue>>
    BY <1>7 DEF FirstRejected, FirstHeaders, FirstReadOnce, Lifecycle
  <2>2. SubSeq(sent', 2, nread') = <<>> /\ SubSeq(sent, 2, nread) = <<>>
    BY <2>1, SubSeqEmpty
  <2>3. UNCHANGED <<Offered, BodyEvents>>
    BY <1>1, <1>2, <2>1, <2>2 DEF Offered
  <2> QED BY <1>3, <2>1, <2>3
<1>8. CASE PumpRead
  <2> DEFINE m == sent[nread + 1]
  <2>1. /\ pump = "running" /\ nread < Len(sent) /\ nread' = nread + 1 /\ 1 <= nread
        /\ UNCHANGED <<sent, appGot>> /\ m \in Request
    BY <1>8 DEF PumpRead, HasNext, FirstReadOnce, TypeOK
  <2>2. SubSeq(sent', 2, nread') = Append(read, m)
    BY <2>1, MessagesRead
  <2>3. Offered = BodyEvents
    BY <2>1 DEF RequestFaithful
  <2>4. CASE IsBody(m)
    <3>1. BodyEvents' = Append(BodyEvents, EventOf(m))
      BY <1>1, <1>2, <2>1, <2>2, <2>4, EventsInAppend
    <3>2. receiveQueue' = Append(receiveQueue, EventOf(m))
      BY <1>8, <2>4 DEF PumpRead
    <3>3. PICK i \in RequestEvent : i = EventOf(m)
      BY <2>1, EventTypes
    <3>4. Offered' = Append(Offered, i)
      <4>1. appGot' = appGot /\ receiveQueue' = Append(receiveQueue, i)
        BY <2>1, <3>2, <3>3
      <4> QED BY <4>1, PutIsOffered
    <3> QED BY <2>3, <3>1, <3>3, <3>4 DEF RequestFaithful
  <2>5. CASE ~IsBody(m)
    <3>1. BodyEvents' = BodyEvents
      BY <1>1, <1>2, <2>1, <2>2, <2>5, EventsInAppend
    <3>2. Offered' = Offered
      BY <1>8, <2>5 DEF PumpRead, Offered
    <3> QED BY <2>3, <3>1, <3>2 DEF RequestFaithful
  <2> QED BY <2>4, <2>5
<1>9. CASE PumpEof
  <2>1. /\ pump = "running" /\ pump' = "done" /\ Exhausted /\ Exhausted' /\ UNCHANGED BodyEvents
        /\ receiveQueue' = Append(receiveQueue, EofEvent) /\ UNCHANGED appGot
    BY <1>9 DEF PumpEof, Exhausted, BodyEvents
  <2>2. Offered = BodyEvents
    BY <2>1 DEF RequestFaithful
  <2>3. \A i \in 1..Len(BodyEvents) : BodyEvents[i].more
    BY <2>1, <2>2 DEF EndOfRequestLast
  <2>4. Offered' = Append(Offered, EofEvent)
    <3>1. PICK i \in RequestEvent : i = EofEvent
      BY EventTypes
    <3>2. appGot' = appGot /\ receiveQueue' = Append(receiveQueue, i)
      BY <2>1, <3>1
    <3>3. Offered' = Append(Offered, i)
      BY <3>2, PutIsOffered
    <3> QED BY <3>1, <3>3
  <2> QED BY <2>1, <2>2, <2>3, <2>4 DEF RequestFaithful
<1>10. CASE AppReceive
  <2>1. Offered' = Offered
    <3>1. /\ appGot \in Seq(RequestEvent) /\ receiveQueue \in Seq(RequestEvent)
          /\ receiveQueue # <<>>
      BY <1>10 DEF AppReceive, TypeOK
    <3>2. Append(appGot, Head(receiveQueue)) \o Tail(receiveQueue) = appGot \o receiveQueue
      BY <3>1, TakeHead, Zenon
    <3> QED BY <1>10, <3>2 DEF AppReceive, Offered
  <2>2. UNCHANGED <<sent, nread, halfClosed, rpc, pump>>
    BY <1>10 DEF AppReceive
  <2> QED BY <1>3, <2>1, <2>2 DEF BodyEvents, Exhausted
<1>11. CASE Consume \/ Resume \/ HandlerCancelled
  BY <1>4, <1>11 DEF Consume, Resume, HandlerCancelled, Finally
<1>12. CASE \/ CancelRpc \/ FirstMissing \/ Join \/ PumpCancelled
            \/ AppStart \/ AppExit \/ AppDropped
  BY <1>4, <1>12 DEF CancelRpc, FirstMissing, Join, PumpCancelled, AppStart, AppExit, AppDropped
<1>13. ASSUME NEW e \in AppEvent, AppSend(e) PROVE RequestFaithful'
  BY <1>4, <1>13 DEF AppSend
<1>14. CASE UNCHANGED vars
  BY <1>4, <1>14 DEF vars
<1> QED BY <1>5, <1>6, <1>7, <1>8, <1>9, <1>10, <1>11, <1>12, <1>13, <1>14 DEF Next

(* The application is offered exactly the body chunks the client sent, in  *)
(* order, each once, and at most an EOF after a stream that is over        *)
(* (_pump_body, whatever ends the stream and whoever is cancelled).        *)
THEOREM RequestReachesApp == Spec => []RequestFaithful
<1>1. Init => Lifecycle /\ EndOfRequestLast /\ FirstReadOnce /\ RequestFaithful
  <2> SUFFICES ASSUME Init
               PROVE  Lifecycle /\ EndOfRequestLast /\ FirstReadOnce /\ RequestFaithful
    OBVIOUS
  <2>1. SubSeq(sent, 2, nread) = <<>>
    BY SubSeqEmpty DEF Init
  <2>2. BodyEvents = <<>>
    BY <2>1, KeepEmpty, EachEmpty DEF BodyEvents
  <2>3. Offered = <<>>
    BY DEF Init, Offered
  <2> QED BY <2>2, <2>3 DEF Init, Lifecycle, TasksJoined, EndOfRequestLast, FirstReadOnce,
             RequestFaithful
<1>2. TypeOK /\ TypeOK' /\ Lifecycle /\ EndOfRequestLast /\ FirstReadOnce /\ RequestFaithful
        /\ [Next]_vars => RequestFaithful'
  BY RequestFaithfulStep
<1> QED BY <1>1, <1>2, TypeCorrect, LifecycleStep, EndOfRequestStep, FirstReadStep, PTL DEF Spec

-----------------------------------------------------------------------------
(* What the client sees of the application's events. *)

(* The reference's wire form of an event is the response the code makes.   *)
LEMMA WireFormType ==
    /\ WireForm \in [SendItem -> Response]
    /\ \A e \in Shown : WireForm[e] = ResponseOf(e)
<1>1. ASSUME NEW e \in SendItem
      PROVE  e.body \in Payload /\ (e.type = "start" => e.body = Empty)
  <2>1. CASE e \in AppEvent
    BY <2>1 DEF AppEvent, Payload
  <2>2. CASE e = APP_DONE
    BY <2>2 DEF APP_DONE, Payload
  <2> QED BY <2>1, <2>2 DEF SendItem
<1>2. ASSUME NEW e \in SendItem
      PROVE  [kind |-> IF e.type = "start" THEN "headers" ELSE "body", data |-> e.body,
              eos |-> e.type = "body" /\ ~e.more] \in Response
  <2>1. PICK b \in BOOLEAN : b = (e.type = "body" /\ ~e.more)
    OBVIOUS
  <2> QED BY <1>1, <2>1 DEF Response
<1>3. WireForm \in [SendItem -> Response]
  BY <1>2 DEF WireForm
<1>4. ASSUME NEW e \in Shown PROVE WireForm[e] = ResponseOf(e)
  <2>1. e \in SendItem /\ e.type \in {"start", "body"}
    BY DEF Shown
  <2>2. WireForm[e] = [kind |-> IF e.type = "start" THEN "headers" ELSE "body",
                       data |-> e.body, eos |-> e.type = "body" /\ ~e.more]
    BY <2>1 DEF WireForm
  <2>3. CASE e.type = "start"
    BY <2>1, <2>2, <2>3, <1>1 DEF ResponseOf
  <2>4. CASE e.type = "body"
    BY <2>2, <2>4 DEF ResponseOf
  <2> QED BY <2>1, <2>3, <2>4
<1> QED BY <1>3, <1>4

(* The wire form of a sequence of events, event by event and part by part. *)
LEMMA OnTheWireAppend ==
    ASSUME NEW s \in Seq(SendItem), NEW e \in SendItem
    PROVE  /\ e \in Shown => OnTheWire(Append(s, e)) = Append(OnTheWire(s), ResponseOf(e))
           /\ e \notin Shown => OnTheWire(Append(s, e)) = OnTheWire(s)
<1>1. PICK k : k = Keep(s, Shown) /\ k \in Seq(SendItem)
  BY KeepType
<1>2. PICK w : w = WireForm /\ w \in [SendItem -> Response]
  BY WireFormType
<1>3. CASE e \in Shown
  <2>1. Keep(Append(s, e), Shown) = Append(k, e)
    BY <1>1, <1>3, KeepAppend
  <2>2. Each(Append(k, e), w) = Append(Each(k, w), w[e])
    BY <1>1, <1>2, EachAppend
  <2>3. w[e] = ResponseOf(e)
    BY <1>2, <1>3, WireFormType
  <2> QED BY <1>1, <1>2, <1>3, <2>1, <2>2, <2>3 DEF OnTheWire
<1>4. CASE e \notin Shown
  BY <1>1, <1>4, KeepAppend DEF OnTheWire
<1> QED BY <1>3, <1>4

(* The wire form of two pieces is the wire forms of both. *)
LEMMA OnTheWireConcat ==
    ASSUME NEW s \in Seq(SendItem), NEW t \in Seq(SendItem)
    PROVE  /\ OnTheWire(s) \in Seq(Response) /\ OnTheWire(t) \in Seq(Response)
           /\ OnTheWire(s \o t) = OnTheWire(s) \o OnTheWire(t)
<1>1. PICK k : k = Keep(s, Shown) /\ k \in Seq(SendItem)
  BY KeepType
<1>2. PICK l : l = Keep(t, Shown) /\ l \in Seq(SendItem)
  BY KeepType
<1>3. PICK w : w = WireForm /\ w \in [SendItem -> Response]
  BY WireFormType
<1>4. Each(Keep(s \o t, Shown), w) = Each(Keep(s, Shown), w) \o Each(Keep(t, Shown), w)
  BY ChosenConcat
<1>5. Each(k, w) \in Seq(Response) /\ Each(l, w) \in Seq(Response)
  BY <1>1, <1>2, <1>3, EachType
<1> QED BY <1>1, <1>2, <1>3, <1>4, <1>5 DEF OnTheWire

(* Where the events an application put stop counting: with the last one    *)
(* consumed if that ends the response, and not before the last otherwise.  *)
LEMMA UntilStops ==
    ASSUME NEW c \in Seq(SendItem), NEW q \in Seq(SendItem), c # <<>>, Terminator(c[Len(c)]),
           \A k \in 1..(Len(c) - 1) : ~Terminator(c[k])
    PROVE  UntilTerminator(c \o q) = c
<1>1. PICK w : w = c \o q /\ w \in Seq(SendItem)
  <2>1. c \o q \in Seq(SendItem)
    OBVIOUS
  <2> QED BY <2>1
<1>2. Len(w) = Len(c) + Len(q) /\ \A i \in 1..Len(c) : w[i] = c[i]
  BY <1>1
<1>3. Len(c) \in 1..Len(w) /\ Terminator(w[Len(c)])
  BY <1>2
<1> DEFINE P(i) == Terminator(w[i]) /\ \A j \in 1..(i-1) : ~Terminator(w[j])
<1>4. P(Len(c))
  BY <1>2, <1>3
<1>5. \A i \in 1..Len(w) : P(i) => i = Len(c)
  BY <1>2, <1>3
<1>6. (CHOOSE i \in 1..Len(w) : P(i)) = Len(c)
  <2> HIDE DEF P
  <2> QED BY <1>3, <1>4, <1>5
<1>7. UntilTerminator(w) = SubSeq(w, 1, Len(c))
  BY <1>3, <1>6 DEF UntilTerminator
<1>8. SubSeq(w, 1, Len(c) + 0) = c \o SubSeq(q, 1, 0)
  <2>1. 0 \in 0..Len(q)
    OBVIOUS
  <2> QED BY <1>1, <2>1, PrefixOfConcat
<1>9. SubSeq(q, 1, 0) = <<>>
  BY SubSeqEmpty
<1>10. c \o <<>> = c /\ Len(c) + 0 = Len(c)
  OBVIOUS
<1> QED BY <1>1, <1>7, <1>8, <1>9, <1>10

(* With no terminator in c, what ends the response comes after c. *)
LEMMA UntilGoesOn ==
    ASSUME NEW c \in Seq(SendItem), NEW q \in Seq(SendItem),
           \A k \in 1..Len(c) : ~Terminator(c[k])
    PROVE  \E u \in Seq(SendItem) : UntilTerminator(c \o q) = c \o u
<1>1. PICK w : w = c \o q /\ w \in Seq(SendItem)
  <2>1. c \o q \in Seq(SendItem)
    OBVIOUS
  <2> QED BY <2>1
<1>2. Len(w) = Len(c) + Len(q) /\ \A i \in 1..Len(c) : w[i] = c[i]
  BY <1>1
<1>3. CASE ~\E i \in 1..Len(w) : Terminator(w[i])
  BY <1>1, <1>3 DEF UntilTerminator
<1>4. CASE \E i \in 1..Len(w) : Terminator(w[i])
  <2> DEFINE T == {i \in 1..Len(w) : Terminator(w[i])}
             P(i) == Terminator(w[i]) /\ \A j \in 1..(i-1) : ~Terminator(w[j])
  <2>1. PICK m \in T : \A j \in T : m <= j
    <3>1. T \subseteq Nat /\ T # {}
      BY <1>4
    <3> HIDE DEF T
    <3> QED BY <3>1, LeastElement
  <2>2. \E i \in 1..Len(w) : P(i)
    BY <2>1
  <2>3. PICK n : n = CHOOSE i \in 1..Len(w) : P(i)
    OBVIOUS
  <2>4. n \in 1..Len(w) /\ P(n)
    <3> HIDE DEF P
    <3> QED BY <2>2, <2>3
  <2>5. UntilTerminator(w) = SubSeq(w, 1, n)
    BY <1>4, <2>3 DEF UntilTerminator
  <2>6. n > Len(c)
    BY <1>2, <2>4
  <2>7. PICK d \in 0..Len(q) : n = Len(c) + d
    <3>1. n - Len(c) \in 0..Len(q) /\ n = Len(c) + (n - Len(c))
      BY <1>2, <2>4, <2>6
    <3> QED BY <3>1
  <2>8. SubSeq(w, 1, n) = c \o SubSeq(q, 1, d) /\ SubSeq(q, 1, d) \in Seq(SendItem)
    BY <1>1, <2>7, PrefixOfConcat
  <2> QED BY <1>1, <2>5, <2>8
<1> QED BY <1>3, <1>4

(* Every step keeps what was yielded the wire form of what was taken. *)
LEMMA YieldedStep ==
    TypeOK /\ Lifecycle /\ LoopGoesOn /\ YieldedWhatItTook /\ [Next]_vars => YieldedWhatItTook'
<1> SUFFICES ASSUME TypeOK, Lifecycle, LoopGoesOn, YieldedWhatItTook, [Next]_vars
             PROVE  YieldedWhatItTook'
  OBVIOUS
<1> USE DEF clientVars, requestVars, replyVars, taskVars
<1>1. ASSUME UNCHANGED <<responses, consumed, handler, outcome>>,
             app' = "none" <=> app = "none"
      PROVE  YieldedWhatItTook'
  BY <1>1 DEF YieldedWhatItTook
<1>2. ASSUME UNCHANGED <<responses, consumed>>, handler' \in {"gather", "ended"},
             outcome' \notin {"OK"} \/ UNCHANGED outcome \/ app' = "none",
             app' = "none" <=> app = "none"
      PROVE  YieldedWhatItTook'
  BY <1>2 DEF YieldedWhatItTook
<1>3. CASE Consume
  <2> DEFINE e == Head(sendQueue)
  <2>1. /\ consumed \in Seq(SendItem) /\ e \in SendItem /\ handler = "consume"
        /\ consumed' = Append(consumed, e) /\ outcome = "none"
    BY <1>3, TakeHead DEF Consume, TypeOK, YieldedWhatItTook
  <2>2. /\ Len(consumed') = Len(consumed) + 1 /\ consumed'[Len(consumed')] = e
        /\ \A k \in 1..Len(consumed) : consumed'[k] = consumed[k]
        /\ consumed' # <<>>
    BY <2>1
  <2>3. \A k \in 1..(Len(consumed') - 1) : ~Terminator(consumed'[k])
    <3>1. \A k \in 1..Len(consumed) : ~Terminator(consumed[k])
      BY <2>1 DEF LoopGoesOn
    <3> QED BY <2>1, <2>2, <3>1
  <2>4. responses' = OnTheWire(consumed')
    <3>1. CASE e \in Shown
      <4>1. ~EndsLoop(e) /\ ~Raises(e) /\ Yields(e)
        BY <3>1 DEF Shown, EndsLoop, Raises, Yields, APP_DONE
      <4>2. responses' = Append(responses, ResponseOf(e))
        BY <1>3, <4>1 DEF Consume
      <4> QED BY <2>1, <3>1, <4>2, OnTheWireAppend DEF YieldedWhatItTook
    <3>2. CASE e \notin Shown
      <4>1. ~Yields(e)
        BY <2>1, <3>2 DEF Shown, Yields
      <4>2. UNCHANGED responses
        BY <1>3, <4>1 DEF Consume
      <4> QED BY <2>1, <3>2, <4>2, OnTheWireAppend DEF YieldedWhatItTook
    <3> QED BY <3>1, <3>2
  <2>5. /\ handler' \in {"first", "consume", "yield"} => outcome' = "none"
        /\ outcome' = "OK" => EndsLoop(e)
    BY <1>3, <2>1 DEF Consume, Finally
  <2>6. EndsLoop(e) => Terminator(e)
    BY DEF EndsLoop, Terminator, APP_DONE
  <2> QED BY <2>2, <2>3, <2>4, <2>5, <2>6 DEF YieldedWhatItTook
<1>4. CASE Resume
  <2>1. /\ handler = "yield" /\ consumed # <<>> /\ outcome = "none"
        /\ UNCHANGED <<consumed, responses>>
    BY <1>4 DEF Resume, LoopGoesOn, YieldedWhatItTook
  <2>2. FinalBody(consumed[Len(consumed)]) => Terminator(consumed[Len(consumed)])
    BY DEF FinalBody, Terminator
  <2>3. /\ outcome' = "OK" => FinalBody(consumed[Len(consumed)])
        /\ handler' \in {"first", "consume", "yield"} => outcome' = "none"
    BY <1>4, <2>1 DEF Resume, Finally
  <2> QED BY <2>1, <2>2, <2>3 DEF YieldedWhatItTook
<1>5. CASE HandlerCancelled
  <2>1. app' = "none" <=> app = "none"
    BY <1>5 DEF HandlerCancelled, Finally, AppOnCancel
  <2>2. UNCHANGED <<responses, consumed>> /\ handler' \in {"gather", "ended"} /\ outcome' = "CANCELLED"
    BY <1>5 DEF HandlerCancelled, Finally, TypeOK
  <2> QED BY <1>2, <2>1, <2>2
<1>6. CASE FirstMissing \/ FirstRejected \/ Join
  BY <1>2, <1>6 DEF FirstMissing, FirstRejected, Join, Lifecycle
<1>7. CASE FirstHeaders
  BY <1>7 DEF FirstHeaders, YieldedWhatItTook
<1>8. CASE \/ ClientHalfClose \/ CancelRpc \/ PumpRead \/ PumpEof \/ PumpCancelled
           \/ AppStart \/ AppReceive \/ AppExit \/ AppDropped
  BY <1>1, <1>8 DEF ClientHalfClose, CancelRpc, PumpRead, PumpEof, PumpCancelled,
                    AppStart, AppReceive, AppExit, AppDropped
<1>9. ASSUME NEW m \in Request, ClientSend(m) PROVE YieldedWhatItTook'
  BY <1>1, <1>9 DEF ClientSend
<1>10. ASSUME NEW e \in AppEvent, AppSend(e) PROVE YieldedWhatItTook'
  BY <1>1, <1>10 DEF AppSend
<1>11. CASE UNCHANGED vars
  BY <1>1, <1>11 DEF vars
<1> QED BY <1>3, <1>4, <1>5, <1>6, <1>7, <1>8, <1>9, <1>10, <1>11 DEF Next

(* The relation between what was taken and what was yielded is the promise *)
(* made to the client.                                                     *)
LEMMA ResponsePromise == TypeOK /\ YieldedWhatItTook => ResponseFaithful
<1> SUFFICES ASSUME TypeOK, YieldedWhatItTook PROVE ResponseFaithful
  OBVIOUS
<1>1. /\ consumed \in Seq(SendItem) /\ sendQueue \in Seq(SendItem)
      /\ responses = OnTheWire(consumed) /\ responses \in Seq(Response)
  BY DEF TypeOK, YieldedWhatItTook
<1> DEFINE promised == OnTheWire(UntilTerminator(Produced))
           ends == consumed # <<>> /\ Terminator(consumed[Len(consumed)])
<1>2. CASE ends
  <2>1. UntilTerminator(Produced) = consumed
    BY <1>1, <1>2, UntilStops DEF YieldedWhatItTook, Produced
  <2>2. promised = responses
    BY <1>1, <2>1
  <2>3. SubSeq(responses, 1, Len(responses)) = responses
    <3>1. responses \in Seq(Response)
      BY <1>1, Zenon
    <3> QED BY <3>1, SubSeqFull, Zenon
  <2> QED BY <1>1, <2>2, <2>3 DEF ResponseFaithful
<1>3. CASE ~ends
  <2>1. \A k \in 1..Len(consumed) : ~Terminator(consumed[k])
    <3>1. CASE consumed = <<>>
      BY <3>1
    <3>2. CASE consumed # <<>>
      BY <1>1, <1>3, <3>2 DEF YieldedWhatItTook
    <3> QED BY <3>1, <3>2
  <2>2. PICK u \in Seq(SendItem) : UntilTerminator(Produced) = consumed \o u
    BY <1>1, <2>1, UntilGoesOn DEF Produced
  <2>3. PICK w : w = OnTheWire(u) /\ w \in Seq(Response)
    BY OnTheWireConcat
  <2>4. promised = responses \o w
    BY <1>1, <2>2, <2>3, OnTheWireConcat
  <2>5. SubSeq(responses \o w, 1, Len(responses) + 0) = responses \o SubSeq(w, 1, 0)
    <3>1. 0 \in 0..Len(w)
      BY <2>3
    <3> QED BY <1>1, <2>3, <3>1, PrefixOfConcat
  <2>6. SubSeq(w, 1, 0) = <<>> /\ responses \o <<>> = responses /\ Len(responses) + 0 = Len(responses)
    BY <1>1, SubSeqEmpty
  <2>7. Len(responses) <= Len(responses \o w)
    BY <1>1, <2>3
  <2>8. ~(outcome = "OK" /\ app # "none")
    BY <1>3 DEF YieldedWhatItTook
  <2> QED BY <2>4, <2>5, <2>6, <2>7, <2>8 DEF ResponseFaithful
<1> QED BY <1>2, <1>3

(* The client never sees anything but the wire form of the application's   *)
(* events up to the first one that ends the response, and all of it when   *)
(* the RPC ends OK (the loop of Process, _run_app and their cancellation). *)
THEOREM ResponseReachesClient == Spec => []ResponseFaithful
<1>1. Init => Lifecycle /\ LoopGoesOn /\ YieldedWhatItTook
  <2>1. OnTheWire(<<>>) = <<>>
    BY KeepEmpty, EachEmpty DEF OnTheWire
  <2> QED BY <2>1 DEF Init, Lifecycle, TasksJoined, LoopGoesOn, YieldedWhatItTook
<1> QED BY <1>1, TypeCorrect, LifecycleStep, LoopStep, YieldedStep, ResponsePromise, PTL DEF Spec

(* The whole inductive invariant, as the runs check it. *)
THEOREM Invariant == Spec => []IInv
<1>1. Init => /\ Lifecycle /\ EndOfRequestLast /\ LoopGoesOn
              /\ FirstReadOnce /\ YieldedWhatItTook
  <2>1. OnTheWire(<<>>) = <<>>
    BY KeepEmpty, EachEmpty DEF OnTheWire
  <2> QED BY <2>1 DEF Init, Offered, Lifecycle, TasksJoined, EndOfRequestLast, LoopGoesOn,
             FirstReadOnce, YieldedWhatItTook
<1> QED BY <1>1, TypeCorrect, LifecycleStep, EndOfRequestStep, LoopStep, FirstReadStep,
           YieldedStep, PTL DEF Spec, IInv

=============================================================================
