--------------------------- MODULE WsConnect_proof ---------------------------
(* Theorems about WsConnect, for every set of payloads and every bound. *)
EXTENDS WsConnect, Selection_proof

-----------------------------------------------------------------------------
(* Type correctness. *)

(* The events the pump, the application and the handler make are typed. *)
LEMMA EventTypes ==
    /\ APP_DONE \in SendItem
    /\ ConnectEvent \in ReceiveEvent /\ DisconnectEvent \in ReceiveEvent
    /\ ConnectEvent # DisconnectEvent
    /\ \A f \in Frame : EventOf(f) \in ReceiveEvent /\ EventOf(f) # DisconnectEvent
    /\ \A e \in AppEvent : e \in SendItem /\ e # APP_DONE
    /\ \A e \in SendItem : Yields(e) => FrameOf(e) \in Frame
<1>1. APP_DONE \in SendItem
  BY DEF APP_DONE, SendItem
<1>2. ConnectEvent \in ReceiveEvent /\ DisconnectEvent \in ReceiveEvent
  BY DEF ConnectEvent, DisconnectEvent, ReceiveEvent
<1>3. ConnectEvent # DisconnectEvent
  <2>1. ConnectEvent.type = "connect" /\ DisconnectEvent.type = "disconnect"
    BY DEF ConnectEvent, DisconnectEvent
  <2> QED BY <2>1
<1>4. ASSUME NEW f \in Frame
      PROVE  EventOf(f) \in ReceiveEvent /\ EventOf(f) # DisconnectEvent
  <2>1. f.payload \in Payload /\ f.binary \in BOOLEAN
    BY DEF Frame
  <2>2. EventOf(f).type = "receive" /\ DisconnectEvent.type = "disconnect"
    BY DEF EventOf, DisconnectEvent
  <2>3. EventOf(f) \in ReceiveEvent
    BY <2>1 DEF EventOf, ReceiveEvent
  <2> QED BY <2>2, <2>3
<1>5. ASSUME NEW e \in AppEvent PROVE e \in SendItem /\ e # APP_DONE
  <2>1. e.type # "APP_DONE" /\ APP_DONE.type = "APP_DONE"
    BY DEF AppEvent, APP_DONE
  <2> QED BY <2>1 DEF SendItem
<1>6. ASSUME NEW e \in SendItem, Yields(e) PROVE FrameOf(e) \in Frame
  <2>1. e.text \in Payload \cup {None} /\ e.bytes \in Payload \cup {None}
    <3>1. CASE e \in AppEvent
      BY <3>1 DEF AppEvent
    <3>2. CASE e = APP_DONE
      BY <3>2 DEF APP_DONE
    <3> QED BY <3>1, <3>2 DEF SendItem
  <2>2. CASE e.text # None
    BY <2>1, <2>2 DEF FrameOf, Frame
  <2>3. CASE e.text = None
    BY <1>6, <2>1, <2>3 DEF FrameOf, Frame, Yields
  <2> QED BY <2>2, <2>3
<1> QED BY <1>1, <1>2, <1>3, <1>4, <1>5, <1>6

(* A new connection is well typed. *)
LEMMA TypeInit == Init => TypeOK
<1> SUFFICES ASSUME Init PROVE TypeOK
  OBVIOUS
<1> USE DEF Init, TypeOK
<1>1. sent \in Seq(Frame) /\ nread \in 0..Len(sent) /\ frames \in Seq(Frame)
  OBVIOUS
<1>2. receiveQueue \in Seq(ReceiveEvent) /\ appGot \in Seq(ReceiveEvent)
  OBVIOUS
<1>3. sendQueue \in Seq(SendItem) /\ consumed \in Seq(SendItem)
  OBVIOUS
<1> QED BY <1>1, <1>2, <1>3

(* Every step of every task keeps the types. *)
LEMMA TypeStep == TypeOK /\ [Next]_vars => TypeOK'
<1> SUFFICES ASSUME TypeOK, [Next]_vars PROVE TypeOK'
  OBVIOUS
<1> USE DEF TypeOK, clientVars, receiveVars, replyVars, taskVars
<1>1. ASSUME NEW f \in Frame, ClientSend(f) PROVE TypeOK'
  BY <1>1 DEF ClientSend
<1>2. CASE ClientHalfClose
  BY <1>2 DEF ClientHalfClose
<1>3. CASE CancelRpc
  BY <1>3 DEF CancelRpc
<1>4. CASE Start
  BY <1>4, EventTypes DEF Start
<1>5. CASE ScopeFails
  BY <1>5 DEF ScopeFails
<1>6. CASE Consume
  <2>1. /\ sendQueue' \in Seq(SendItem) /\ consumed' \in Seq(SendItem)
        /\ Head(sendQueue) \in SendItem
    BY <1>6, TakeHead DEF Consume
  <2>2. frames' \in Seq(Frame)
    <3>1. CASE UNCHANGED frames
      BY <3>1
    <3>2. CASE Yields(Head(sendQueue)) /\ frames' = Append(frames, FrameOf(Head(sendQueue)))
      <4>1. PICK f \in Frame : f = FrameOf(Head(sendQueue))
        BY <2>1, <3>2, EventTypes
      <4> QED BY <3>2, <4>1
    <3> QED BY <1>6, <3>1, <3>2 DEF Consume
  <2>3. /\ handler' \in {"new", "consume", "yield", "metadata", "gather", "ended"}
        /\ outcome' \in {"none", "OK", "CANCELLED", "UNKNOWN"}
        /\ pump' \in {"none", "running", "cancelling", "failed", "done"}
        /\ app' \in {"none", "created", "running", "cancelling", "dropped", "done"}
        /\ metadata' \in {"unsent", "subprotocol", "plain"}
    BY <1>6 DEF Consume, Finally, PumpOnCancel, AppOnCancel, MetadataWithFrame
  <2> QED BY <1>6, <2>1, <2>2, <2>3 DEF Consume
<1>7. CASE Resume
  BY <1>7 DEF Resume
<1>8. CASE HandlerCancelled
  BY <1>8 DEF HandlerCancelled, Finally, PumpOnCancel, AppOnCancel
<1>9. CASE Join
  BY <1>9 DEF Join
<1>10. CASE PumpRead
  <2>1. sent[nread + 1] \in Frame /\ nread' \in 0..Len(sent')
    BY <1>10 DEF PumpRead, HasNext
  <2>2. PICK r \in ReceiveEvent : r = EventOf(sent[nread + 1])
    BY <2>1, EventTypes
  <2>3. receiveQueue' \in Seq(ReceiveEvent)
    BY <1>10, <2>2 DEF PumpRead
  <2> QED BY <1>10, <2>1, <2>3 DEF PumpRead
<1>11. CASE PumpFails
  BY <1>11 DEF PumpFails, HasNext
<1>12. CASE PumpEof
  BY <1>12, EventTypes DEF PumpEof
<1>13. CASE PumpCancelled
  BY <1>13 DEF PumpCancelled
<1>14. CASE AppStart
  BY <1>14 DEF AppStart
<1>15. CASE AppReceive
  BY <1>15, TakeHead DEF AppReceive
<1>16. ASSUME NEW e \in AppEvent, AppSend(e) PROVE TypeOK'
  BY <1>16, EventTypes DEF AppSend
<1>17. CASE AppExit
  BY <1>17, EventTypes DEF AppExit
<1>18. CASE AppDropped
  BY <1>18 DEF AppDropped
<1>19. CASE UNCHANGED vars
  BY <1>19 DEF vars
<1> QED BY <1>1, <1>2, <1>3, <1>4, <1>5, <1>6, <1>7, <1>8, <1>9, <1>10, <1>11,
           <1>12, <1>13, <1>14, <1>15, <1>16, <1>17, <1>18, <1>19 DEF Next

(* Every reachable state of Connect is well typed. *)
THEOREM TypeCorrect == Spec => []TypeOK
BY TypeInit, TypeStep, PTL DEF Spec

-----------------------------------------------------------------------------
(* The tasks of one connection. *)

(* Every step keeps the tasks in step with the handler. *)
LEMMA LifecycleStep == TypeOK /\ Lifecycle /\ [Next]_vars => Lifecycle'
<1> SUFFICES ASSUME TypeOK, Lifecycle, [Next]_vars PROVE Lifecycle'
  OBVIOUS
<1> USE DEF Lifecycle, TasksJoined, clientVars, receiveVars, replyVars, taskVars
<1>1. ASSUME NEW f \in Frame, ClientSend(f) PROVE Lifecycle'
  BY <1>1 DEF ClientSend
<1>2. CASE ClientHalfClose \/ CancelRpc
  BY <1>2 DEF ClientHalfClose, CancelRpc
<1>3. CASE Start \/ ScopeFails \/ Resume
  BY <1>3 DEF Start, ScopeFails, Resume
<1>4. CASE Consume
  BY <1>4 DEF Consume, Finally, PumpOnCancel, AppOnCancel
<1>5. CASE HandlerCancelled
  BY <1>5 DEF HandlerCancelled, Finally, PumpOnCancel, AppOnCancel
<1>6. CASE Join
  BY <1>6 DEF Join, TasksDone
<1>7. CASE PumpRead \/ PumpFails \/ PumpEof \/ PumpCancelled
  BY <1>7 DEF PumpRead, PumpFails, PumpEof, PumpCancelled, TypeOK
<1>8. CASE AppStart \/ AppReceive \/ AppExit \/ AppDropped
  BY <1>8 DEF AppStart, AppReceive, AppExit, AppDropped, TypeOK
<1>9. ASSUME NEW e \in AppEvent, AppSend(e) PROVE Lifecycle'
  BY <1>9 DEF AppSend
<1>10. CASE UNCHANGED vars
  BY <1>10 DEF vars
<1> QED BY <1>1, <1>2, <1>3, <1>4, <1>5, <1>6, <1>7, <1>8, <1>9, <1>10 DEF Next

(* No task outlives its RPC, though the pump may fail at any frame while   *)
(* cancellation, close and exit interleave.                                *)
THEOREM NoTaskOutlivesRpc == Spec => []TasksJoined
<1>1. Init => Lifecycle
  BY DEF Init, Lifecycle, TasksJoined
<1>2. Lifecycle => TasksJoined
  BY DEF Lifecycle
<1> QED BY <1>1, <1>2, LifecycleStep, TypeCorrect, PTL DEF Spec

-----------------------------------------------------------------------------
(* From the client to the application. *)

(* What a step can do to this direction: put an event for the application, *)
(* hand it one, or neither, the pump never coming back to life.            *)
PutsReceive(i) ==
    /\ pump \in {"none", "running"}
    /\ pump' = (IF i = DisconnectEvent THEN "done" ELSE "running")
    /\ i = DisconnectEvent => Exhausted
    /\ Offered' = Append(Offered, i)
    /\ UNCHANGED appGot

TakesReceive ==
    /\ Len(appGot) < Len(Offered)
    /\ appGot' = Append(appGot, Offered[Len(appGot) + 1])
    /\ UNCHANGED <<Offered, pump>>

LeavesReceive ==
    /\ UNCHANGED <<Offered, appGot>>
    /\ pump = "done" => pump' = "done"
    /\ pump' \in {"none", "running"} => pump \in {"none", "running"}

(* What a put, of an event for the application or of one it sends, adds to *)
(* what has been offered and produced.                                     *)
LEMMA PutIsOffered ==
    ASSUME TypeOK, NEW r \in ReceiveEvent,
           appGot' = appGot, receiveQueue' = Append(receiveQueue, r)
    PROVE  Offered' = Append(Offered, r)
<1>1. appGot \in Seq(ReceiveEvent) /\ receiveQueue \in Seq(ReceiveEvent)
  BY DEF TypeOK
<1>2. appGot \o Append(receiveQueue, r) = Append(appGot \o receiveQueue, r)
  BY <1>1, PutLast
<1>3. Offered' = appGot \o Append(receiveQueue, r)
  BY Zenon DEF Offered
<1>4. Append(Offered, r) = Append(appGot \o receiveQueue, r)
  BY Zenon DEF Offered
<1> QED BY <1>2, <1>3, <1>4, Zenon

(* A put at the end of the send queue appends to what was produced. *)
LEMMA PutIsProduced ==
    ASSUME TypeOK, NEW r \in SendItem,
           consumed' = consumed, sendQueue' = Append(sendQueue, r)
    PROVE  Produced' = Append(Produced, r)
<1>1. consumed \in Seq(SendItem) /\ sendQueue \in Seq(SendItem)
  BY DEF TypeOK
<1>2. consumed \o Append(sendQueue, r) = Append(consumed \o sendQueue, r)
  BY <1>1, PutLast
<1>3. Produced' = consumed \o Append(sendQueue, r)
  BY Zenon DEF Produced
<1>4. Append(Produced, r) = Append(consumed \o sendQueue, r)
  BY Zenon DEF Produced
<1> QED BY <1>2, <1>3, <1>4, Zenon

(* A step puts one event for the application, hands it one, or does        *)
(* neither: Connect seeds the queue, then only _pump_frames puts.          *)
LEMMA ReceiveStep ==
    ASSUME TypeOK, Lifecycle, [Next]_vars
    PROVE  (\E i \in ReceiveEvent : PutsReceive(i)) \/ TakesReceive \/ LeavesReceive
<1> USE DEF Offered, clientVars, receiveVars, replyVars, taskVars
<1>1. ASSUME UNCHANGED <<appGot, receiveQueue>>,
             \/ UNCHANGED pump
             \/ pump' = PumpOnCancel
             \/ pump = "running" /\ pump' = "failed"
             \/ pump = "cancelling" /\ pump' = "done"
      PROVE  LeavesReceive
  BY <1>1 DEF LeavesReceive, PumpOnCancel
<1>2. CASE Start
  <2>1. PICK r \in ReceiveEvent : r = ConnectEvent /\ r # DisconnectEvent
    BY EventTypes
  <2>2. pump = "none" /\ pump' = "running" /\ UNCHANGED appGot
    BY <1>2 DEF Start, Lifecycle
  <2>3. Offered' = Append(Offered, r)
    <3>1. appGot' = appGot /\ receiveQueue' = Append(receiveQueue, r)
      BY <1>2, <2>1 DEF Start
    <3> QED BY <3>1, PutIsOffered
  <2> QED BY <2>1, <2>2, <2>3 DEF PutsReceive
<1>3. CASE PumpRead
  <2>1. sent[nread + 1] \in Frame
    BY <1>3 DEF PumpRead, HasNext, TypeOK
  <2>2. PICK r \in ReceiveEvent : r = EventOf(sent[nread + 1]) /\ r # DisconnectEvent
    BY <2>1, EventTypes
  <2>3. pump = "running" /\ pump' = "running" /\ UNCHANGED appGot
    BY <1>3 DEF PumpRead
  <2>4. Offered' = Append(Offered, r)
    <3>1. appGot' = appGot /\ receiveQueue' = Append(receiveQueue, r)
      BY <1>3, <2>2 DEF PumpRead
    <3> QED BY <3>1, PutIsOffered
  <2> QED BY <2>2, <2>3, <2>4 DEF PutsReceive
<1>4. CASE PumpEof
  <2>1. PICK r \in ReceiveEvent : r = DisconnectEvent
    BY EventTypes
  <2>2. Offered' = Append(Offered, r)
    <3>1. appGot' = appGot /\ receiveQueue' = Append(receiveQueue, r)
      BY <1>4, <2>1 DEF PumpEof
    <3> QED BY <3>1, PutIsOffered
  <2> QED BY <1>4, <2>1, <2>2 DEF PumpEof, PutsReceive
<1>5. CASE AppReceive
  <2>1. /\ appGot \in Seq(ReceiveEvent) /\ receiveQueue \in Seq(ReceiveEvent)
        /\ receiveQueue # <<>>
    BY <1>5 DEF AppReceive, TypeOK
  <2>2. /\ Append(appGot, Head(receiveQueue)) \o Tail(receiveQueue) = appGot \o receiveQueue
        /\ Len(appGot) < Len(appGot \o receiveQueue)
        /\ (appGot \o receiveQueue)[Len(appGot) + 1] = Head(receiveQueue)
    BY <2>1, TakeHead, Zenon
  <2> QED BY <1>5, <2>2 DEF AppReceive, TakesReceive
<1>6. ASSUME NEW f \in Frame, ClientSend(f) PROVE LeavesReceive
  BY <1>1, <1>6 DEF ClientSend
<1>7. ASSUME NEW e \in AppEvent, AppSend(e) PROVE LeavesReceive
  BY <1>1, <1>7 DEF AppSend
<1>8. CASE Consume \/ Resume \/ HandlerCancelled
  BY <1>1, <1>8 DEF Consume, Resume, HandlerCancelled, Finally
<1>9. CASE \/ ClientHalfClose \/ CancelRpc \/ ScopeFails \/ Join \/ PumpFails
           \/ AppStart \/ AppExit \/ AppDropped \/ PumpCancelled
  BY <1>1, <1>9 DEF ClientHalfClose, CancelRpc, ScopeFails, Join, PumpFails,
                    AppStart, AppExit, AppDropped, PumpCancelled
<1>10. CASE UNCHANGED vars
  BY <1>1, <1>10 DEF vars
<1> QED BY <1>2, <1>3, <1>4, <1>5, <1>6, <1>7, <1>8, <1>9, <1>10 DEF Next

(* Every step keeps the disconnect last. *)
LEMMA DisconnectStep ==
    TypeOK /\ Lifecycle /\ DisconnectLast /\ [Next]_vars => DisconnectLast'
<1> SUFFICES ASSUME TypeOK, Lifecycle, DisconnectLast, [Next]_vars
             PROVE  DisconnectLast'
  OBVIOUS
<1>1. Offered \in Seq(ReceiveEvent)
  BY PutLast, ConcatProperties DEF TypeOK, Offered
<1>2. DisconnectEvent' = DisconnectEvent
  BY DEF DisconnectEvent
<1>3. ASSUME NEW i \in ReceiveEvent, PutsReceive(i) PROVE DisconnectLast'
  <2>1. /\ Len(Offered') = Len(Offered) + 1 /\ Offered'[Len(Offered) + 1] = i
        /\ \A k \in 1..Len(Offered) : Offered'[k] = Offered[k]
    BY <1>1, <1>3 DEF PutsReceive
  <2>2. \A k \in 1..Len(Offered) : Offered[k] # DisconnectEvent
    BY <1>3 DEF PutsReceive, DisconnectLast
  <2>3. i = DisconnectEvent => pump' = "done"
    BY <1>3 DEF PutsReceive
  <2> QED BY <1>1, <1>2, <2>1, <2>2, <2>3 DEF DisconnectLast
<1>4. CASE TakesReceive \/ LeavesReceive
  BY <1>2, <1>4 DEF TakesReceive, LeavesReceive, DisconnectLast
<1> QED BY <1>3, <1>4, ReceiveStep

(* From client to application, Connect is a FIFO relay: connect, frames    *)
(* and one disconnect, last, received in the order they were put (the      *)
(* seeded receive_queue, _pump_frames, the application's receive).         *)
THEOREM ReceiveIsRelay == Spec => ReceiveRelaySpec
<1>1. Init => ReceiveRelay!Init /\ Lifecycle /\ DisconnectLast
  BY DEF Init, ReceiveRelay!Init, Offered, Lifecycle, TasksJoined, DisconnectLast
<1>2. TypeOK /\ Lifecycle /\ DisconnectLast /\ [Next]_vars
        => [ReceiveRelay!Next]_(ReceiveRelay!vars)
  <2> SUFFICES ASSUME TypeOK, Lifecycle, DisconnectLast, [Next]_vars
               PROVE  [ReceiveRelay!Next]_(ReceiveRelay!vars)
    OBVIOUS
  <2> USE DEF ReceiveRelay!Next, ReceiveRelay!vars
  <2>1. ASSUME NEW i \in ReceiveEvent, PutsReceive(i) PROVE ReceiveRelay!Accept(i)
    BY <2>1 DEF PutsReceive, ReceiveRelay!Accept
  <2>2. CASE TakesReceive
    <3>1. /\ appGot \in Seq(ReceiveEvent) /\ Offered \in Seq(ReceiveEvent)
          /\ \A k \in 1..Len(appGot) : Offered[k] = appGot[k]
      BY ConcatProperties DEF TypeOK, Offered
    <3>2. \A k \in 1..Len(appGot) : appGot[k] # DisconnectEvent
      BY <2>2, <3>1 DEF TakesReceive, DisconnectLast
    <3> QED BY <2>2, <3>1, <3>2 DEF TakesReceive, ReceiveRelay!Forward
  <2>3. CASE LeavesReceive
    BY <2>3 DEF LeavesReceive, ReceiveRelay!Close
  <2> QED BY <2>1, <2>2, <2>3, ReceiveStep
<1> QED BY <1>1, <1>2, LifecycleStep, DisconnectStep, TypeCorrect, PTL
        DEF Spec, ReceiveRelaySpec, ReceiveRelay!Spec

-----------------------------------------------------------------------------
(* From the application to the client. *)

(* What a step can do to this direction: the application puts an item, the *)
(* handler takes one, or neither.                                          *)
PutsSend(i) ==
    /\ app # "done" /\ (app' = "done" <=> i = APP_DONE)
    /\ Produced' = Append(Produced, i)
    /\ UNCHANGED <<consumed, handler>>

TakesSend ==
    /\ handler = "consume" /\ sendQueue # <<>>
    /\ Produced[Len(consumed) + 1] = Head(sendQueue)
    /\ Len(consumed) < Len(Produced)
    /\ consumed' = Append(consumed, Head(sendQueue))
    /\ UNCHANGED Produced
    /\ app' = "done" <=> app = "done"

LeavesSend ==
    /\ UNCHANGED <<Produced, consumed>>
    /\ app = "done" => app' = "done"

(* A step puts one item on sendQueue, consumes one, or does neither. *)
LEMMA SendStep ==
    ASSUME TypeOK, Lifecycle, [Next]_vars
    PROVE  (\E i \in SendItem : PutsSend(i)) \/ TakesSend \/ LeavesSend
<1> USE DEF Produced, clientVars, receiveVars, replyVars, taskVars
<1>1. ASSUME UNCHANGED <<consumed, sendQueue>>,
             UNCHANGED app \/ app' = AppOnCancel \/ app # "done"
      PROVE  LeavesSend
  BY <1>1 DEF LeavesSend, AppOnCancel
<1>2. ASSUME NEW e \in AppEvent, AppSend(e) PROVE \E i \in SendItem : PutsSend(i)
  <2>1. PICK r \in SendItem : r = e /\ r # APP_DONE
    BY EventTypes
  <2>2. Produced' = Append(Produced, r)
    <3>1. consumed' = consumed /\ sendQueue' = Append(sendQueue, r)
      BY <1>2, <2>1 DEF AppSend
    <3> QED BY <3>1, PutIsProduced
  <2>3. app # "done" /\ app' # "done" /\ UNCHANGED <<consumed, handler>>
    BY <1>2 DEF AppSend
  <2>4. PutsSend(r)
    BY <2>1, <2>2, <2>3 DEF PutsSend
  <2> QED BY <2>4
<1>3. CASE AppExit
  <2>1. PICK r \in SendItem : r = APP_DONE
    BY EventTypes
  <2>2. Produced' = Append(Produced, r)
    <3>1. consumed' = consumed /\ sendQueue' = Append(sendQueue, r)
      BY <1>3, <2>1 DEF AppExit
    <3> QED BY <3>1, PutIsProduced
  <2>3. app # "done" /\ app' = "done" /\ UNCHANGED <<consumed, handler>>
    BY <1>3 DEF AppExit
  <2>4. PutsSend(r)
    BY <2>1, <2>2, <2>3 DEF PutsSend
  <2> QED BY <2>4
<1>4. CASE Consume
  <2>1. /\ consumed \in Seq(SendItem) /\ sendQueue \in Seq(SendItem)
        /\ sendQueue # <<>> /\ handler = "consume"
    BY <1>4 DEF Consume, TypeOK
  <2>2. /\ Append(consumed, Head(sendQueue)) \o Tail(sendQueue) = consumed \o sendQueue
        /\ Len(consumed) < Len(consumed \o sendQueue)
        /\ (consumed \o sendQueue)[Len(consumed) + 1] = Head(sendQueue)
    BY <2>1, TakeHead, Zenon
  <2>3. app' = "done" <=> app = "done"
    BY <1>4 DEF Consume, Finally, AppOnCancel
  <2>4. consumed' = Append(consumed, Head(sendQueue)) /\ sendQueue' = Tail(sendQueue)
    BY <1>4 DEF Consume
  <2> QED BY <2>1, <2>2, <2>3, <2>4 DEF TakesSend
<1>5. ASSUME NEW f \in Frame, ClientSend(f) PROVE LeavesSend
  BY <1>1, <1>5 DEF ClientSend
<1>6. CASE Start
  BY <1>1, <1>6 DEF Start, Lifecycle
<1>7. CASE Resume \/ HandlerCancelled
  BY <1>1, <1>7 DEF Resume, HandlerCancelled, Finally
<1>8. CASE \/ ClientHalfClose \/ CancelRpc \/ ScopeFails \/ Join
           \/ PumpRead \/ PumpFails \/ PumpEof \/ PumpCancelled
  BY <1>1, <1>8 DEF ClientHalfClose, CancelRpc, ScopeFails, Join,
                    PumpRead, PumpFails, PumpEof, PumpCancelled
<1>9. CASE AppStart \/ AppReceive \/ AppDropped
  BY <1>1, <1>9 DEF AppStart, AppReceive, AppDropped
<1>10. CASE UNCHANGED vars
  BY <1>1, <1>10 DEF vars
<1> QED BY <1>2, <1>3, <1>4, <1>5, <1>6, <1>7, <1>8, <1>9, <1>10 DEF Next

(* The loop goes on only after an item that is not final. *)
LEMMA LoopStep == TypeOK /\ Lifecycle /\ LoopGoesOn /\ [Next]_vars => LoopGoesOn'
<1> SUFFICES ASSUME TypeOK, Lifecycle, LoopGoesOn, [Next]_vars PROVE LoopGoesOn'
  OBVIOUS
<1> USE DEF LoopGoesOn
<1>1. ASSUME UNCHANGED consumed,
             \/ handler \in {"new", "consume", "yield", "metadata"}
             \/ handler' \in {"gather", "ended"}
             \/ UNCHANGED handler
      PROVE  LoopGoesOn'
  BY <1>1 DEF Final
<1>2. CASE Consume
  <2> DEFINE e == Head(sendQueue)
  <2>1. /\ consumed \in Seq(SendItem) /\ e \in SendItem /\ handler = "consume"
        /\ consumed' = Append(consumed, e)
    BY <1>2, TakeHead DEF Consume, TypeOK
  <2>2. /\ Len(consumed') = Len(consumed) + 1 /\ consumed'[Len(consumed) + 1] = e
        /\ \A k \in 1..Len(consumed) : consumed'[k] = consumed[k]
    BY <2>1
  <2>3. CASE EndsLoop(e) \/ Raises(e)
    <3>1. handler' = "gather"
      BY <1>2, <2>1, <2>3, Utf8Assumption
         DEF Consume, Finally, EndsLoop, Raises, Yields, APP_DONE
    <3> QED BY <3>1
  <2>4. CASE ~EndsLoop(e) /\ ~Raises(e)
    <3>1. e.type # "APP_DONE"
      <4>1. e \in AppEvent
        BY <2>1, <2>4 DEF EndsLoop, SendItem
      <4> QED BY <4>1 DEF AppEvent
    <3>2. ~Final(e)
      BY <2>4, <3>1 DEF Final, EndsLoop, Raises
    <3>3. \A k \in 1..Len(consumed') : ~Final(consumed'[k])
      BY <2>1, <2>2, <3>2 DEF Final
    <3> QED BY <3>3 DEF Final
  <2> QED BY <2>3, <2>4
<1>3. CASE Start \/ ScopeFails \/ Resume \/ HandlerCancelled \/ Join
  BY <1>1, <1>3 DEF Start, ScopeFails, Resume, HandlerCancelled, Join, Finally,
                    replyVars
<1>4. CASE ClientHalfClose \/ CancelRpc \/ PumpRead \/ PumpFails \/ PumpEof \/ PumpCancelled
  BY <1>1, <1>4 DEF ClientHalfClose, CancelRpc, PumpRead, PumpFails, PumpEof,
                    PumpCancelled, replyVars, taskVars
<1>5. CASE AppStart \/ AppReceive \/ AppExit \/ AppDropped
  BY <1>1, <1>5 DEF AppStart, AppReceive, AppExit, AppDropped, replyVars, taskVars
<1>6. ASSUME NEW f \in Frame, ClientSend(f) PROVE LoopGoesOn'
  BY <1>1, <1>6 DEF ClientSend, replyVars, taskVars
<1>7. ASSUME NEW e \in AppEvent, AppSend(e) PROVE LoopGoesOn'
  BY <1>1, <1>7 DEF AppSend, taskVars
<1>8. CASE UNCHANGED vars
  BY <1>1, <1>8 DEF vars
<1> QED BY <1>2, <1>3, <1>4, <1>5, <1>6, <1>7, <1>8 DEF Next

(* From application to client, Connect is a FIFO relay: items are consumed *)
(* in the order they were put, the sentinel is the last one put, and the   *)
(* loop takes nothing after a close, an exit or a text that fails.         *)
THEOREM SendIsRelay == Spec => SendRelaySpec
<1>1. Init => SendRelay!Init /\ Lifecycle /\ LoopGoesOn
  BY DEF Init, SendRelay!Init, Produced, Lifecycle, TasksJoined, LoopGoesOn
<1>2. TypeOK /\ Lifecycle /\ LoopGoesOn /\ [Next]_vars
        => [SendRelay!Next]_(SendRelay!vars)
  <2> SUFFICES ASSUME TypeOK, Lifecycle, LoopGoesOn, [Next]_vars
               PROVE  [SendRelay!Next]_(SendRelay!vars)
    OBVIOUS
  <2> USE DEF SendRelay!Next, SendRelay!vars
  <2>1. ASSUME NEW i \in SendItem, PutsSend(i) PROVE SendRelay!Accept(i)
    BY <2>1 DEF PutsSend, SendRelay!Accept
  <2>2. CASE TakesSend
    BY <2>2 DEF TakesSend, LoopGoesOn, SendRelay!Forward
  <2>3. CASE LeavesSend
    BY <2>3 DEF LeavesSend, SendRelay!Close
  <2> QED BY <2>1, <2>2, <2>3, SendStep
<1> QED BY <1>1, <1>2, LifecycleStep, LoopStep, TypeCorrect, PTL
        DEF Spec, SendRelaySpec, SendRelay!Spec

-----------------------------------------------------------------------------
(* What the application is offered of the client's frames. *)

(* Nothing is read before the tasks exist, and a failed pump has read one. *)
LEMMA ReadsStep ==
    ASSUME TypeOK, TypeOK', Lifecycle, ReadsOnceStarted, [Next]_vars
    PROVE  ReadsOnceStarted'
<1> USE DEF ReadsOnceStarted, clientVars, receiveVars, replyVars, taskVars
<1>1. ASSUME UNCHANGED <<nread, appGot, receiveQueue, pump>>,
             app' = "none" <=> app = "none"
      PROVE  ReadsOnceStarted'
  BY <1>1 DEF Offered
<1>2. CASE Start
  BY <1>2 DEF Start
<1>3. CASE Consume \/ HandlerCancelled
  <2>1. /\ UNCHANGED <<nread, appGot, receiveQueue>>
        /\ UNCHANGED pump \/ pump' = PumpOnCancel
        /\ UNCHANGED app \/ app' = AppOnCancel
    BY <1>3 DEF Consume, HandlerCancelled, Finally
  <2>2. UNCHANGED Offered
    BY <2>1 DEF Offered
  <2> QED BY <2>1, <2>2 DEF PumpOnCancel, AppOnCancel
<1>4. CASE PumpRead \/ PumpFails \/ PumpEof \/ PumpCancelled
  <2>1. app # "none" /\ app' = app /\ pump' # "none"
    BY <1>4 DEF PumpRead, PumpFails, PumpEof, PumpCancelled
  <2>2. pump' = "failed" => nread' >= 1
    BY <1>4 DEF PumpRead, PumpFails, PumpEof, PumpCancelled, TypeOK
  <2> QED BY <2>1, <2>2
<1>5. CASE AppReceive
  <2>1. app # "none" /\ UNCHANGED <<app, pump, nread>>
    BY <1>5 DEF AppReceive
  <2> QED BY <2>1
<1>6. CASE ClientHalfClose \/ CancelRpc \/ ScopeFails \/ Resume \/ Join
  BY <1>1, <1>6 DEF ClientHalfClose, CancelRpc, ScopeFails, Resume, Join
<1>7. CASE AppStart \/ AppExit \/ AppDropped
  BY <1>1, <1>7 DEF AppStart, AppExit, AppDropped
<1>8. ASSUME NEW f \in Frame, ClientSend(f) PROVE ReadsOnceStarted'
  BY <1>1, <1>8 DEF ClientSend
<1>9. ASSUME NEW e \in AppEvent, AppSend(e) PROVE ReadsOnceStarted'
  BY <1>1, <1>9 DEF AppSend
<1>10. CASE UNCHANGED vars
  BY <1>1, <1>10 DEF vars
<1> QED BY <1>2, <1>3, <1>4, <1>5, <1>6, <1>7, <1>8, <1>9, <1>10 DEF Next

(* The reference's event of a frame is the one the pump puts. *)
LEMMA FrameEventType ==
    /\ FrameEvent \in [Frame -> ReceiveEvent]
    /\ \A f \in Frame : FrameEvent[f] = EventOf(f)
<1>1. \A f \in Frame : [type |-> "receive", payload |-> f.payload, binary |-> f.binary]
                         \in ReceiveEvent
  BY EventTypes DEF EventOf
<1> QED BY <1>1 DEF FrameEvent, EventOf

(* The reference events of a connection with the frames fs read. *)
EventsOf(fs) == <<ConnectEvent>> \o Each(fs, FrameEvent)

(* What frames are to the application are receive events. *)
LEMMA EventsOfType ==
    ASSUME NEW fs \in Seq(Frame) PROVE EventsOf(fs) \in Seq(ReceiveEvent)
<1>1. Each(fs, FrameEvent) \in Seq(ReceiveEvent)
  BY FrameEventType, EachType
<1>2. <<ConnectEvent>> \in Seq(ReceiveEvent)
  BY EventTypes
<1> QED BY <1>1, <1>2, ConcatProperties DEF EventsOf

(* A further frame adds its event. *)
LEMMA EventsOfAppend ==
    ASSUME NEW fs \in Seq(Frame), NEW f \in Frame
    PROVE  /\ EventsOf(fs) \in Seq(ReceiveEvent)
           /\ EventsOf(Append(fs, f)) = Append(EventsOf(fs), EventOf(f))
<1>1. PICK w : w = FrameEvent /\ w \in [Frame -> ReceiveEvent]
  BY FrameEventType
<1>2. PICK es : es = Each(fs, w) /\ es \in Seq(ReceiveEvent)
  BY <1>1, EachType
<1>3. PICK c : c = <<ConnectEvent>> /\ c \in Seq(ReceiveEvent)
  <2>1. <<ConnectEvent>> \in Seq(ReceiveEvent)
    BY EventTypes
  <2> QED BY <2>1
<1>4. PICK e \in ReceiveEvent : e = EventOf(f) /\ e = w[f]
  BY <1>1, FrameEventType
<1>5. Each(Append(fs, f), w) = Append(es, e)
  <2>1. Each(Append(fs, f), w) = Append(Each(fs, w), w[f])
    BY <1>1, EachAppend
  <2> QED BY <1>2, <1>4, <2>1
<1>6. c \o Append(es, e) = Append(c \o es, e) /\ c \o es \in Seq(ReceiveEvent)
  BY <1>2, <1>3, <1>4, PutLast
<1> QED BY <1>1, <1>2, <1>3, <1>4, <1>5, <1>6 DEF EventsOf

(* With no frame read there is the connect alone. *)
LEMMA EventsOfNone ==
    ASSUME NEW fs PROVE EventsOf(SubSeq(fs, 1, 0)) = <<ConnectEvent>>
<1>1. SubSeq(fs, 1, 0) = <<>>
  BY SubSeqEmpty
<1>2. PICK c : c = <<ConnectEvent>> /\ c \in Seq(ReceiveEvent)
  <2>1. <<ConnectEvent>> \in Seq(ReceiveEvent)
    BY EventTypes
  <2> QED BY <2>1
<1>3. c \o <<>> = c
  BY <1>2
<1> QED BY <1>1, <1>2, <1>3, EachEmpty DEF EventsOf

(* The frames read: not changed by what the client sends on, and one more  *)
(* when one more is read.                                                  *)
LEMMA FramesRead ==
    ASSUME TypeOK, NEW n \in 0..Len(sent)
    PROVE  /\ SubSeq(sent, 1, n) \in Seq(Frame)
           /\ \A f \in Frame :
                sent' = Append(sent, f) => SubSeq(sent', 1, n) = SubSeq(sent, 1, n)
           /\ n < Len(sent) =>
                SubSeq(sent, 1, n + 1) = Append(SubSeq(sent, 1, n), sent[n + 1])
<1>1. sent \in Seq(Frame) /\ 1 \in 1..(Len(sent) + 1) /\ n \in 0..Len(sent)
  BY DEF TypeOK
<1>2. SubSeq(sent, 1, n) \in Seq(Frame)
  BY <1>1, Slice
<1>3. ASSUME NEW f \in Frame PROVE SubSeq(Append(sent, f), 1, n) = SubSeq(sent, 1, n)
  BY <1>1, SliceOfAppend
<1>4. ASSUME n < Len(sent)
      PROVE  SubSeq(sent, 1, n + 1) = Append(SubSeq(sent, 1, n), sent[n + 1])
  <2>1. n \in 0..(Len(sent) - 1) /\ 1 \in 1..(n + 1)
    BY <1>1, <1>4
  <2> QED BY <1>1, <2>1, SliceGrows
<1> QED BY <1>2, <1>3, <1>4

(* Every step keeps what the application is offered in step with what was  *)
(* read and decoded of the stream.                                         *)
LEMMA OfferedStep ==
    ASSUME TypeOK, TypeOK', Lifecycle, ReadsOnceStarted, OfferedWhatWasRead, [Next]_vars
    PROVE  OfferedWhatWasRead'
<1> USE DEF clientVars, receiveVars, replyVars, taskVars
<1>1. /\ ndecoded \in 0..nread /\ ndecoded \in 0..Len(sent) /\ ndecoded \in Nat
      /\ sent \in Seq(Frame)
  BY DEF ndecoded, TypeOK, ReadsOnceStarted
<1>2. Received = EventsOf(SubSeq(sent, 1, ndecoded))
      /\ Received' = EventsOf(SubSeq(sent', 1, ndecoded'))
  BY DEF Received, EventsOf
<1>3. DisconnectEvent' = DisconnectEvent
  BY DEF DisconnectEvent
<1>4. ASSUME UNCHANGED <<Offered, Received, ndecoded>>,
             \A i \in 1..ndecoded : Decodes(sent[i]) => Decodes(sent'[i]),
             app' # "none" => app # "none",
             pump = "done" => pump' = "done"
      PROVE  OfferedWhatWasRead'
  BY <1>3, <1>4 DEF OfferedWhatWasRead, Decodes
<1>5. ASSUME UNCHANGED <<appGot, receiveQueue, sent, nread>>,
             \/ UNCHANGED pump
             \/ pump' = PumpOnCancel
             \/ pump = "cancelling" /\ pump' = "done",
             app' # "none" => app # "none"
      PROVE  OfferedWhatWasRead'
  <2>1. UNCHANGED ndecoded
    BY <1>5 DEF ndecoded, PumpOnCancel
  <2>2. UNCHANGED <<Offered, Received>>
    BY <1>5, <1>2, <2>1 DEF Offered
  <2>3. pump = "done" => pump' = "done"
    BY <1>5 DEF PumpOnCancel
  <2> QED BY <1>4, <1>5, <2>1, <2>2, <2>3
<1>6. ASSUME NEW f \in Frame, ClientSend(f) PROVE OfferedWhatWasRead'
  <2>1. sent' = Append(sent, f) /\ UNCHANGED <<Offered, nread, pump, app>>
    BY <1>6 DEF ClientSend, Offered
  <2>2. UNCHANGED ndecoded /\ \A i \in 1..ndecoded : sent'[i] = sent[i]
    BY <1>1, <2>1 DEF ndecoded
  <2>3. UNCHANGED Received
    BY <1>1, <1>2, <2>1, <2>2, FramesRead
  <2> QED BY <1>4, <2>1, <2>2, <2>3
<1>7. CASE ClientHalfClose
  BY <1>5, <1>7 DEF ClientHalfClose
<1>8. CASE Start
  <2>1. /\ app = "none" /\ nread = 0 /\ nread' = 0 /\ pump' = "running"
        /\ Offered = <<>> /\ UNCHANGED <<appGot, sent>>
        /\ receiveQueue' = Append(receiveQueue, ConnectEvent)
    BY <1>8 DEF Start, Lifecycle, ReadsOnceStarted
  <2>2. ndecoded' = 0
    BY <2>1 DEF ndecoded
  <2>3. Received' = <<ConnectEvent>>
    BY <1>2, <2>2, EventsOfNone
  <2>4. PICK c \in ReceiveEvent : c = ConnectEvent
    BY EventTypes
  <2>5. Offered' = Append(Offered, c)
    <3>1. appGot' = appGot /\ receiveQueue' = Append(receiveQueue, c)
      BY <2>1, <2>4
    <3> QED BY <3>1, PutIsOffered
  <2>6. Offered' = Received'
    BY <2>1, <2>3, <2>4, <2>5
  <2> QED BY <2>2, <2>6 DEF OfferedWhatWasRead
<1>9. CASE PumpRead
  <2> DEFINE f == sent[nread + 1]
  <2>1. /\ pump = "running" /\ pump' = "running" /\ nread < Len(sent) /\ nread' = nread + 1
        /\ UNCHANGED <<sent, appGot>> /\ f \in Frame /\ Decodes(f) /\ app # "none"
        /\ receiveQueue' = Append(receiveQueue, EventOf(f))
    BY <1>9 DEF PumpRead, HasNext, TypeOK, ReadsOnceStarted
  <2>2. ndecoded = nread /\ ndecoded' = nread + 1
    BY <2>1 DEF ndecoded
  <2>3. SubSeq(sent', 1, ndecoded') = Append(SubSeq(sent, 1, nread), f)
        /\ SubSeq(sent, 1, nread) \in Seq(Frame)
    BY <1>1, <2>1, <2>2, FramesRead
  <2>4. Received' = Append(Received, EventOf(f))
    BY <1>2, <2>1, <2>2, <2>3, EventsOfAppend
  <2>5. PICK r \in ReceiveEvent : r = EventOf(f)
    BY <2>1, EventTypes
  <2>6. Offered' = Append(Offered, r)
    <3>1. appGot' = appGot /\ receiveQueue' = Append(receiveQueue, r)
      BY <2>1, <2>5
    <3> QED BY <3>1, PutIsOffered
  <2>7. Offered = Received /\ \A i \in 1..ndecoded : Decodes(sent[i])
    BY <2>1 DEF OfferedWhatWasRead
  <2>8. \A i \in 1..ndecoded' : Decodes(sent'[i])
    BY <1>1, <2>1, <2>2, <2>7
  <2> QED BY <2>4, <2>5, <2>6, <2>7, <2>8 DEF OfferedWhatWasRead, Decodes
<1>10. CASE PumpFails
  <2>1. /\ pump = "running" /\ pump' = "failed" /\ nread' = nread + 1
        /\ UNCHANGED <<sent, appGot, receiveQueue, app>> /\ nread \in Nat
    BY <1>10 DEF PumpFails, TypeOK
  <2>2. UNCHANGED ndecoded
    BY <2>1 DEF ndecoded
  <2>3. UNCHANGED <<Offered, Received>>
    BY <1>2, <2>1, <2>2 DEF Offered
  <2> QED BY <1>4, <2>1, <2>2, <2>3
<1>11. CASE PumpEof
  <2>1. /\ pump = "running" /\ pump' = "done" /\ app # "none"
        /\ UNCHANGED <<sent, nread, appGot>>
        /\ receiveQueue' = Append(receiveQueue, DisconnectEvent)
    BY <1>11 DEF PumpEof, ReadsOnceStarted
  <2>2. UNCHANGED ndecoded
    BY <2>1 DEF ndecoded
  <2>3. UNCHANGED Received
    BY <1>2, <2>1, <2>2
  <2>4. PICK r \in ReceiveEvent : r = DisconnectEvent
    BY EventTypes
  <2>5. Offered' = Append(Offered, r)
    <3>1. appGot' = appGot /\ receiveQueue' = Append(receiveQueue, r)
      BY <2>1, <2>4
    <3> QED BY <3>1, PutIsOffered
  <2>6. Offered = Received /\ \A i \in 1..ndecoded : Decodes(sent[i])
    BY <2>1 DEF OfferedWhatWasRead
  <2> QED BY <1>3, <2>1, <2>2, <2>3, <2>4, <2>5, <2>6 DEF OfferedWhatWasRead, Decodes
<1>12. CASE AppReceive
  <2>1. Offered' = Offered
    <3>1. /\ appGot \in Seq(ReceiveEvent) /\ receiveQueue \in Seq(ReceiveEvent)
          /\ receiveQueue # <<>>
      BY <1>12 DEF AppReceive, TypeOK
    <3>2. Append(appGot, Head(receiveQueue)) \o Tail(receiveQueue) = appGot \o receiveQueue
      BY <3>1, TakeHead, Zenon
    <3> QED BY <1>12, <3>2 DEF AppReceive, Offered
  <2>2. UNCHANGED <<sent, nread, pump, app>>
    BY <1>12 DEF AppReceive
  <2>3. UNCHANGED ndecoded
    BY <2>2 DEF ndecoded
  <2>4. UNCHANGED Received
    BY <1>2, <2>2, <2>3
  <2> QED BY <1>4, <2>1, <2>2, <2>3, <2>4
<1>13. CASE Consume \/ HandlerCancelled
  BY <1>5, <1>13 DEF Consume, HandlerCancelled, Finally, AppOnCancel
<1>14. CASE CancelRpc \/ ScopeFails \/ Resume \/ Join \/ PumpCancelled
  BY <1>5, <1>14 DEF CancelRpc, ScopeFails, Resume, Join, PumpCancelled
<1>15. CASE AppStart \/ AppExit \/ AppDropped
  BY <1>5, <1>15 DEF AppStart, AppExit, AppDropped
<1>16. ASSUME NEW e \in AppEvent, AppSend(e) PROVE OfferedWhatWasRead'
  BY <1>5, <1>16 DEF AppSend
<1>17. CASE UNCHANGED vars
  BY <1>5, <1>17 DEF vars
<1> QED BY <1>6, <1>7, <1>8, <1>9, <1>10, <1>11, <1>12, <1>13, <1>14, <1>15, <1>16, <1>17
        DEF Next

(* A stream that is over stays so.                                         *)
LEMMA OverStep ==
    ASSUME TypeOK, Lifecycle, DisconnectWhenOver, [Next]_vars
    PROVE  DisconnectWhenOver'
<1> USE DEF clientVars, receiveVars, replyVars, taskVars
<1>1. Exhausted => Exhausted'
  BY DEF TypeOK, Exhausted, HasNext, Next, vars, ClientSend, ClientHalfClose, CancelRpc, Start,
         ScopeFails, Consume, Resume, HandlerCancelled, Join, PumpRead, PumpFails, PumpEof,
         PumpCancelled, AppStart, AppReceive, AppSend, AppExit, AppDropped
<1>2. DisconnectEvent' = DisconnectEvent
  BY DEF DisconnectEvent
<1>3. CASE UNCHANGED Offered
  BY <1>1, <1>2, <1>3 DEF DisconnectWhenOver
<1>4. ASSUME NEW i \in ReceiveEvent, PutsReceive(i) PROVE DisconnectWhenOver'
  <2>1. Offered \in Seq(ReceiveEvent)
    BY PutLast DEF TypeOK, Offered
  <2>2. /\ Len(Offered') = Len(Offered) + 1 /\ Offered'[Len(Offered) + 1] = i
        /\ \A k \in 1..Len(Offered) : Offered'[k] = Offered[k]
    BY <1>4, <2>1 DEF PutsReceive
  <2>3. i = DisconnectEvent => Exhausted
    BY <1>4 DEF PutsReceive
  <2> QED BY <1>1, <1>2, <2>1, <2>2, <2>3 DEF DisconnectWhenOver
<1> QED BY <1>3, <1>4, ReceiveStep DEF TakesReceive, LeavesReceive

(* The two parts together are the property.                                *)
LEMMA ReadAndOver ==
    TypeOK /\ ReadsOnceStarted /\ OfferedWhatWasRead /\ DisconnectWhenOver => ReceiveFaithful
<1> SUFFICES ASSUME TypeOK, ReadsOnceStarted, OfferedWhatWasRead, DisconnectWhenOver,
                    app # "none", Offered = Append(Received, DisconnectEvent)
             PROVE  Exhausted
  BY DEF OfferedWhatWasRead, ReceiveFaithful
<1>1. PICK d \in ReceiveEvent : d = DisconnectEvent
  BY EventTypes
<1>2. Received \in Seq(ReceiveEvent)
  <2>1. ndecoded \in 0..Len(sent)
    BY DEF TypeOK, ndecoded, ReadsOnceStarted
  <2>2. Received = EventsOf(SubSeq(sent, 1, ndecoded))
    BY DEF Received, EventsOf
  <2> QED BY <2>1, <2>2, FramesRead, EventsOfType
<1>3. PICK read \in Seq(ReceiveEvent) : read = Received
  BY <1>2
<1>4. Append(read, d)[Len(read) + 1] = d /\ Len(Append(read, d)) = Len(read) + 1
  OBVIOUS
<1> QED BY <1>1, <1>3, <1>4 DEF DisconnectWhenOver

(* The frames among the events for a sequence of frames are the events of  *)
(* those, with a disconnect after them or without.                         *)
LEMMA FrameEventsOf ==
    ASSUME NEW fs \in Seq(Frame)
    PROVE  /\ Keep(EventsOf(fs), FrameEvents) = Each(fs, FrameEvent)
           /\ Keep(Append(EventsOf(fs), DisconnectEvent), FrameEvents) = Each(fs, FrameEvent)
<1>1. PICK w : w = FrameEvent /\ w \in [Frame -> ReceiveEvent]
  BY FrameEventType
<1>2. FrameEvent \in [Frame -> FrameEvents]
  BY DEF FrameEvent, FrameEvents, ReceiveEvent, Frame
<1>3. PICK es : es = Each(fs, w) /\ es \in Seq(ReceiveEvent) /\ es \in Seq(FrameEvents)
  BY <1>1, <1>2, EachType
<1>4. PICK c \in ReceiveEvent : c = ConnectEvent /\ c \notin FrameEvents
  <2>1. ConnectEvent \in ReceiveEvent /\ ConnectEvent \notin FrameEvents
    BY EventTypes DEF ConnectEvent, FrameEvents
  <2> QED BY <2>1
<1>5. PICK d \in ReceiveEvent : d = DisconnectEvent /\ d \notin FrameEvents
  <2>1. DisconnectEvent \in ReceiveEvent /\ DisconnectEvent \notin FrameEvents
    BY EventTypes DEF DisconnectEvent, FrameEvents
  <2> QED BY <2>1
<1>6. PICK s \in Seq(ReceiveEvent) : s = <<c>>
  <2>1. <<c>> \in Seq(ReceiveEvent)
    OBVIOUS
  <2> QED BY <2>1
<1>7. Keep(s, FrameEvents) = <<>>
  <2>1. s = Append(<<>>, c) /\ <<>> \in Seq(ReceiveEvent)
    BY <1>6
  <2> QED BY <1>4, <2>1, KeepAppend, KeepEmpty
<1>8. Keep(es, FrameEvents) = es
  BY <1>3, KeepAll
<1>9. Keep(s \o es, FrameEvents) = es
  <2>1. Keep(s \o es, FrameEvents) = Keep(s, FrameEvents) \o Keep(es, FrameEvents)
    <3>1. es \in Seq(ReceiveEvent)
      BY <1>3
    <3> QED BY <3>1, KeepConcat
  <2>2. <<>> \o es = es
    BY <1>3
  <2> QED BY <1>7, <1>8, <2>1, <2>2
<1>10. PICK all \in Seq(ReceiveEvent) : all = s \o es
  BY <1>3, <1>6, ConcatProperties
<1>11. Keep(Append(all, d), FrameEvents) = Keep(all, FrameEvents)
  <2>1. d \notin FrameEvents
    BY <1>5
  <2> QED BY <2>1, KeepAppend
<1> QED BY <1>1, <1>3, <1>4, <1>5, <1>6, <1>9, <1>10, <1>11 DEF EventsOf

(* The application is offered connect, then exactly the frames the client  *)
(* sent, in order and as text or bytes as they were sent, up to the first  *)
(* that does not decode, and a disconnect only after a stream that is over *)
(* (_pump_frames).                                                         *)
THEOREM FramesReachApp == Spec => []ReceiveFaithful
<1>1. Init => /\ Lifecycle /\ DisconnectLast /\ ReadsOnceStarted
              /\ OfferedWhatWasRead /\ DisconnectWhenOver
  BY DEF Init, Offered, Lifecycle, TasksJoined, DisconnectLast, ReadsOnceStarted,
         OfferedWhatWasRead, DisconnectWhenOver
<1>2. TypeOK /\ TypeOK' /\ Lifecycle /\ ReadsOnceStarted /\ OfferedWhatWasRead /\ [Next]_vars
        => OfferedWhatWasRead'
  BY OfferedStep
<1>3. TypeOK /\ TypeOK' /\ Lifecycle /\ ReadsOnceStarted /\ [Next]_vars => ReadsOnceStarted'
  BY ReadsStep
<1>4. TypeOK /\ Lifecycle /\ DisconnectWhenOver /\ [Next]_vars => DisconnectWhenOver'
  BY OverStep
<1>5. TypeOK /\ ReadsOnceStarted /\ OfferedWhatWasRead /\ DisconnectWhenOver
        => ReceiveFaithful
  BY ReadAndOver
<1> QED BY <1>1, <1>2, <1>3, <1>4, <1>5, TypeCorrect, LifecycleStep, PTL DEF Spec

-----------------------------------------------------------------------------
(* What the client sees of the application's events. *)

(* The reference's form of a shown event is the frame the code makes. *)
LEMMA WireFormType ==
    /\ \E R : WireForm \in [SendItem -> R]
    /\ \A e \in Shown : Yields(e) /\ WireForm[e] = FrameOf(e) /\ WireForm[e] \in Frame
    /\ \A e \in SendItem : Yields(e) => e \in Shown
<1> DEFINE form(e) == IF e.text = None THEN [payload |-> e.bytes, binary |-> TRUE]
                                       ELSE [payload |-> e.text, binary |-> FALSE]
           R == {form(e) : e \in SendItem}
<1>1. WireForm \in [SendItem -> R]
  BY DEF WireForm
<1>2. ASSUME NEW e \in Shown PROVE Yields(e) /\ WireForm[e] = FrameOf(e) /\ WireForm[e] \in Frame
  <2>1. e \in SendItem /\ Yields(e)
    BY DEF Shown, Shows, Yields
  <2>2. WireForm[e] = FrameOf(e)
    BY <2>1 DEF WireForm, FrameOf
  <2> QED BY <2>1, <2>2, EventTypes
<1>3. \A e \in SendItem : Yields(e) => e \in Shown
  BY DEF Shown, Shows, Yields
<1> HIDE DEF R
<1> QED BY <1>1, <1>2, <1>3

(* The wire form of a sequence of events, event by event and part by part. *)
LEMMA OnTheWireAppend ==
    ASSUME NEW s \in Seq(SendItem), NEW e \in SendItem
    PROVE  /\ e \in Shown => OnTheWire(Append(s, e)) = Append(OnTheWire(s), FrameOf(e))
           /\ e \notin Shown => OnTheWire(Append(s, e)) = OnTheWire(s)
<1>1. PICK k : k = Keep(s, Shown) /\ k \in Seq(SendItem)
  BY KeepType
<1>2. PICK R : WireForm \in [SendItem -> R]
  BY WireFormType
<1>3. PICK w : w = WireForm /\ w \in [SendItem -> R]
  BY <1>2
<1>4. CASE e \in Shown
  <2>1. Keep(Append(s, e), Shown) = Append(k, e)
    BY <1>1, <1>4, KeepAppend
  <2>2. Each(Append(k, e), w) = Append(Each(k, w), w[e])
    BY <1>1, <1>3, EachAppend
  <2>3. w[e] = FrameOf(e)
    BY <1>3, <1>4, WireFormType
  <2> QED BY <1>1, <1>3, <1>4, <2>1, <2>2, <2>3 DEF OnTheWire
<1>5. CASE e \notin Shown
  BY <1>1, <1>5, KeepAppend DEF OnTheWire
<1> QED BY <1>4, <1>5

(* The events of two sequences show one after the other. *)
LEMMA OnTheWireConcat ==
    ASSUME NEW s \in Seq(SendItem), NEW t \in Seq(SendItem)
    PROVE  \E R : /\ OnTheWire(s) \in Seq(R) /\ OnTheWire(t) \in Seq(R)
                  /\ OnTheWire(s \o t) = OnTheWire(s) \o OnTheWire(t)
<1>1. PICK k : k = Keep(s, Shown) /\ k \in Seq(SendItem)
  BY KeepType
<1>2. PICK l : l = Keep(t, Shown) /\ l \in Seq(SendItem)
  BY KeepType
<1>3. PICK R : WireForm \in [SendItem -> R]
  BY WireFormType
<1>4. PICK w : w = WireForm /\ w \in [SendItem -> R]
  BY <1>3
<1>5. Each(Keep(s \o t, Shown), w) = Each(Keep(s, Shown), w) \o Each(Keep(t, Shown), w)
  BY ChosenConcat
<1>6. Each(k, w) \in Seq(R) /\ Each(l, w) \in Seq(R)
  BY <1>1, <1>2, <1>4, EachType
<1> QED BY <1>1, <1>2, <1>4, <1>5, <1>6 DEF OnTheWire

(* Whether an event ends the connection depends on those before it alone. *)
LEMMA TerminatorLocal ==
    ASSUME NEW s, NEW t, NEW i \in Nat \ {0}, \A j \in 1..i : s[j] = t[j]
    PROVE  Terminator(s, i) <=> Terminator(t, i)
<1>1. s[i] = t[i] /\ \A j \in 1..(i-1) : s[j] = t[j]
  OBVIOUS
<1> QED BY <1>1 DEF Terminator

(* The events count up to the first that ends the connection. *)
LEMMA UntilFirst ==
    ASSUME NEW s \in Seq(SendItem), NEW n \in 1..Len(s), Terminator(s, n),
           \A k \in 1..(n-1) : ~Terminator(s, k)
    PROVE  UntilTerminator(s) = SubSeq(s, 1, n - 1)
<1> DEFINE P(i) == Terminator(s, i) /\ \A j \in 1..(i-1) : ~Terminator(s, j)
<1>1. P(n)
  OBVIOUS
<1>2. \A i \in 1..Len(s) : P(i) => i = n
  OBVIOUS
<1>3. (CHOOSE i \in 1..Len(s) : P(i)) = n
  <2> HIDE DEF P
  <2> QED BY <1>1, <1>2
<1> QED BY <1>3 DEF UntilTerminator

(* When one of the events taken ended the connection, what waits behind    *)
(* them does not count.                                                    *)
LEMMA UntilStops ==
    ASSUME NEW c \in Seq(SendItem), NEW q \in Seq(SendItem),
           \E k \in 1..Len(c) : Terminator(c, k)
    PROVE  UntilTerminator(c \o q) = UntilTerminator(c)
<1>1. PICK w : w = c \o q /\ w \in Seq(SendItem)
  <2>1. c \o q \in Seq(SendItem)
    OBVIOUS
  <2> QED BY <2>1
<1>2. Len(w) = Len(c) + Len(q) /\ \A i \in 1..Len(c) : w[i] = c[i]
  BY <1>1
<1> DEFINE T == {i \in 1..Len(c) : Terminator(c, i)}
<1>3. PICK n \in T : \A j \in T : n <= j
  <2>1. T \subseteq Nat /\ T # {}
    OBVIOUS
  <2> HIDE DEF T
  <2> QED BY <2>1, LeastElement
<1>4. n \in 1..Len(c) /\ Terminator(c, n) /\ \A k \in 1..(n-1) : ~Terminator(c, k)
  BY <1>3
<1>5. n \in 1..Len(w) /\ Terminator(w, n) /\ \A k \in 1..(n-1) : ~Terminator(w, k)
  <2>1. ASSUME NEW k \in 1..n PROVE Terminator(w, k) <=> Terminator(c, k)
    <3>1. k \in Nat \ {0} /\ \A j \in 1..k : w[j] = c[j]
      BY <1>2, <1>4
    <3> QED BY <3>1, TerminatorLocal
  <2> QED BY <1>2, <1>4, <2>1
<1>6. UntilTerminator(c) = SubSeq(c, 1, n - 1) /\ UntilTerminator(w) = SubSeq(w, 1, n - 1)
  BY <1>1, <1>4, <1>5, UntilFirst
<1>7. SubSeq(c \o q, 1, n - 1) = SubSeq(c, 1, n - 1)
  <2>1. n - 1 \in 0..Len(c)
    BY <1>4
  <2> QED BY <2>1, PrefixOfFirst
<1> QED BY <1>1, <1>6, <1>7

(* When none did, all of them count, and some of what waits. *)
LEMMA UntilGoesOn ==
    ASSUME NEW c \in Seq(SendItem), NEW q \in Seq(SendItem),
           \A k \in 1..Len(c) : ~Terminator(c, k)
    PROVE  /\ UntilTerminator(c) = c
           /\ \E u \in Seq(SendItem) : UntilTerminator(c \o q) = c \o u
<1>1. PICK w : w = c \o q /\ w \in Seq(SendItem)
  <2>1. c \o q \in Seq(SendItem)
    OBVIOUS
  <2> QED BY <2>1
<1>2. Len(w) = Len(c) + Len(q) /\ \A i \in 1..Len(c) : w[i] = c[i]
  BY <1>1
<1>3. ASSUME NEW k \in 1..Len(c) PROVE ~Terminator(w, k)
  <2>1. k \in Nat \ {0} /\ \A j \in 1..k : w[j] = c[j]
    BY <1>2
  <2> QED BY <2>1, TerminatorLocal
<1>4. UntilTerminator(c) = c
  BY DEF UntilTerminator
<1>5. CASE ~\E i \in 1..Len(w) : Terminator(w, i)
  BY <1>1, <1>4, <1>5 DEF UntilTerminator
<1>6. CASE \E i \in 1..Len(w) : Terminator(w, i)
  <2> DEFINE T == {i \in 1..Len(w) : Terminator(w, i)}
  <2>1. PICK n \in T : \A j \in T : n <= j
    <3>1. T \subseteq Nat /\ T # {}
      BY <1>6
    <3> HIDE DEF T
    <3> QED BY <3>1, LeastElement
  <2>2. n \in 1..Len(w) /\ Terminator(w, n) /\ \A k \in 1..(n-1) : ~Terminator(w, k)
    BY <2>1
  <2>3. UntilTerminator(w) = SubSeq(w, 1, n - 1)
    BY <1>1, <2>2, UntilFirst
  <2>4. PICK d \in 0..Len(q) : n - 1 = Len(c) + d
    <3>1. n > Len(c)
      BY <1>3, <2>2
    <3>2. n - 1 - Len(c) \in 0..Len(q) /\ n - 1 = Len(c) + (n - 1 - Len(c))
      BY <1>2, <2>2, <3>1
    <3> QED BY <3>2
  <2>5. SubSeq(w, 1, n - 1) = c \o SubSeq(q, 1, d) /\ SubSeq(q, 1, d) \in Seq(SendItem)
    BY <1>1, <2>4, PrefixOfConcat
  <2> QED BY <1>1, <1>4, <2>3, <2>5
<1> QED BY <1>5, <1>6

(* Every step keeps what was yielded the wire form of what was taken, and  *)
(* the metadata in step with it.                                           *)
LEMMA YieldedStep ==
    TypeOK /\ Lifecycle /\ YieldedWhatItTook /\ [Next]_vars => YieldedWhatItTook'
<1> SUFFICES ASSUME TypeOK, Lifecycle, YieldedWhatItTook, [Next]_vars
             PROVE  YieldedWhatItTook'
  OBVIOUS
<1> USE DEF clientVars, receiveVars, replyVars, taskVars
<1>1. ASSUME UNCHANGED <<frames, consumed, metadata, handler, outcome>>,
             app' = "none" <=> app = "none"
      PROVE  YieldedWhatItTook'
  BY <1>1 DEF YieldedWhatItTook
<1>2. ASSUME UNCHANGED <<frames, consumed, metadata>>, handler' \in {"gather", "ended"},
             outcome' # "OK" \/ UNCHANGED outcome,
             app' = "none" <=> app = "none"
      PROVE  YieldedWhatItTook'
  BY <1>2 DEF YieldedWhatItTook
<1>3. CASE Consume
  <2> DEFINE e == Head(sendQueue)
             c == consumed'
  <2>1. /\ consumed \in Seq(SendItem) /\ e \in SendItem /\ handler = "consume"
        /\ c = Append(consumed, e) /\ c \in Seq(SendItem) /\ outcome = "none"
        /\ \A k \in 1..Len(consumed) : ~Terminator(consumed, k)
    BY <1>3, TakeHead DEF Consume, TypeOK, YieldedWhatItTook
  <2>2. /\ Len(c) = Len(consumed) + 1 /\ c[Len(c)] = e
        /\ \A k \in 1..Len(consumed) : c[k] = consumed[k]
    BY <2>1
  <2>3. \A k \in 1..Len(consumed) : ~Terminator(c, k)
    <3>1. ASSUME NEW k \in 1..Len(consumed) PROVE Terminator(c, k) <=> Terminator(consumed, k)
      <4>1. k \in Nat \ {0} /\ \A j \in 1..k : c[j] = consumed[j]
        BY <2>2
      <4> QED BY <4>1, TerminatorLocal
    <3> QED BY <2>1, <3>1
  <2>4. UntilTerminator(consumed) = consumed
    BY <2>1, UntilGoesOn
  <2>5. /\ frames = OnTheWire(consumed)
        /\ metadata = "unsent" <=>
             \A i \in 1..Len(consumed) : ~Shows(consumed[i]) /\ consumed[i].type # "acceptWith"
        /\ metadata = "subprotocol" => AnnouncedFirst(consumed)
    BY <2>4 DEF YieldedWhatItTook
  <2>6. /\ e.type \in {"close", "APP_DONE"} <=> EndsLoop(e)
        /\ Yields(e) <=> Shows(e)
        /\ e.type = "send" /\ e.text \in NotUtf8 => Shows(e)
    <3>1. e.type = "APP_DONE" <=> e = APP_DONE
      BY <2>1 DEF SendItem, AppEvent, APP_DONE
    <3> QED BY <3>1, Utf8Assumption DEF EndsLoop, Yields, Shows
  <2>7. Terminator(c, Len(c)) <=> EndsLoop(e) \/ Raises(e)
    <3>1. (\E j \in 1..(Len(c) - 1) : Shows(c[j]) \/ c[j].type = "acceptWith")
            <=> metadata # "unsent"
      BY <2>1, <2>2, <2>5
    <3>2. Shows(e) => e.type = "send"
      BY DEF Shows
    <3> QED BY <2>2, <2>6, <3>1, <3>2 DEF Terminator, Raises
  <2>8. CASE EndsLoop(e) \/ Raises(e)
    <3>1. /\ handler' = "gather" /\ UNCHANGED <<metadata, frames>>
          /\ outcome' \in {"OK", "UNKNOWN"}
      <4>1. /\ e.type \in {"close", "APP_DONE", "acceptWith"} => ~Yields(e)
            /\ EndsLoop(e) => e.type # "acceptWith"
        BY <2>6 DEF Yields
      <4>2. e.type = "acceptWith" /\ ~Raises(e) => ~EndsLoop(e)
        BY <4>1
      <4>3. Raises(e) => e.type = "acceptWith" \/ Yields(e)
        BY <2>6 DEF Raises
      <4> QED BY <1>3, <2>6, <2>8, <4>1, <4>2, <4>3 DEF Consume, Finally
    <3>2. Len(c) \in 1..Len(c) /\ Terminator(c, Len(c))
      BY <2>1, <2>2, <2>7, <2>8
    <3>3. UntilTerminator(c) = consumed
      <4>1. UntilTerminator(c) = SubSeq(c, 1, Len(c) - 1)
        <5>1. \A k \in 1..(Len(c) - 1) : ~Terminator(c, k)
          BY <2>1, <2>2, <2>3
        <5> QED BY <2>1, <3>2, <5>1, UntilFirst
      <4>2. SubSeq(Append(consumed, e), 1, Len(consumed)) = SubSeq(consumed, 1, Len(consumed))
        <5>1. 1 \in 1..(Len(consumed) + 1) /\ Len(consumed) \in 0..Len(consumed)
          BY <2>1
        <5> QED BY <2>1, <5>1, SliceOfAppend
      <4>3. SubSeq(consumed, 1, Len(consumed)) = consumed
        BY <2>1, SubSeqFull
      <4>4. Len(c) - 1 = Len(consumed)
        BY <2>1, <2>2
      <4> QED BY <2>1, <4>1, <4>2, <4>3, <4>4
    <3> HIDE DEF c
    <3>4. YieldedWhatItTook'
      BY <2>4, <2>5, <3>1, <3>2, <3>3 DEF YieldedWhatItTook, c
    <3> QED BY <3>4
  <2>9. CASE ~EndsLoop(e) /\ ~Raises(e)
    <3>1. \A k \in 1..Len(c) : ~Terminator(c, k)
      BY <2>1, <2>2, <2>3, <2>7, <2>9
    <3>2. UntilTerminator(c) = c
      BY <2>1, <3>1, UntilGoesOn
    <3>3. outcome' = "none"
      BY <1>3, <2>1, <2>9 DEF Consume
    <3>4. frames' = OnTheWire(c)
      <4>1. CASE e \in Shown
        <5>1. Yields(e)
          BY <4>1, WireFormType
        <5>2. frames' = Append(frames, FrameOf(e))
          BY <1>3, <2>9, <5>1 DEF Consume, Yields
        <5> QED BY <2>1, <2>5, <4>1, <5>2, OnTheWireAppend
      <4>2. CASE e \notin Shown
        <5>1. ~Yields(e)
          BY <2>1, <4>2, WireFormType
        <5>2. UNCHANGED frames
          BY <1>3, <2>9, <5>1 DEF Consume
        <5> QED BY <2>1, <2>5, <4>2, <5>2, OnTheWireAppend
      <4> QED BY <4>1, <4>2
    <3>5. metadata' = IF e.type = "acceptWith" THEN "subprotocol"
                      ELSE IF Shows(e) /\ metadata = "unsent" THEN "plain" ELSE metadata
      <4>1. Shows(e) => e.type = "send"
        BY DEF Shows
      <4> QED BY <1>3, <2>6, <2>9, <4>1 DEF Consume, MetadataWithFrame
    <3>6. metadata' = "unsent" <=>
            \A i \in 1..Len(c) : ~Shows(c[i]) /\ c[i].type # "acceptWith"
      BY <2>1, <2>2, <2>5, <3>5
    <3>7. metadata' = "subprotocol" => AnnouncedFirst(c)
      <4>1. CASE e.type = "acceptWith"
        <5>1. metadata = "unsent"
          BY <2>9, <4>1 DEF Raises
        <5>2. Len(c) \in 1..Len(c) /\ \A j \in 1..(Len(c) - 1) : ~Shows(c[j])
          BY <2>1, <2>2, <2>5, <5>1
        <5> QED BY <2>2, <4>1, <5>2 DEF AnnouncedFirst
      <4>2. CASE e.type # "acceptWith" /\ metadata' = "subprotocol"
        <5>1. metadata = "subprotocol"
          BY <3>5, <4>2
        <5>2. PICK i \in 1..Len(consumed) :
                consumed[i].type = "acceptWith" /\ \A j \in 1..(i-1) : ~Shows(consumed[j])
          BY <2>5, <5>1 DEF AnnouncedFirst
        <5>3. i \in 1..Len(c) /\ c[i] = consumed[i] /\ \A j \in 1..(i-1) : c[j] = consumed[j]
          BY <2>1, <2>2
        <5> QED BY <5>2, <5>3 DEF AnnouncedFirst
      <4> QED BY <4>1, <4>2
    <3> QED BY <3>1, <3>2, <3>3, <3>4, <3>6, <3>7 DEF YieldedWhatItTook
  <2> QED BY <2>8, <2>9
<1>4. CASE Resume
  BY <1>4 DEF Resume, YieldedWhatItTook
<1>5. CASE HandlerCancelled
  <2>1. app' = "none" <=> app = "none"
    BY <1>5 DEF HandlerCancelled, Finally, AppOnCancel
  <2>2. /\ UNCHANGED <<frames, consumed, metadata>> /\ handler' \in {"gather", "ended"}
        /\ outcome' = "CANCELLED"
    BY <1>5 DEF HandlerCancelled, Finally, TypeOK
  <2> QED BY <1>2, <2>1, <2>2
<1>6. CASE Start
  BY <1>6 DEF Start, YieldedWhatItTook
<1>7. CASE ScopeFails \/ Join
  BY <1>2, <1>7 DEF ScopeFails, Join
<1>8. CASE ClientHalfClose \/ CancelRpc \/ PumpRead \/ PumpFails \/ PumpEof \/ PumpCancelled
  BY <1>1, <1>8 DEF ClientHalfClose, CancelRpc, PumpRead, PumpFails, PumpEof, PumpCancelled
<1>9. CASE AppStart \/ AppReceive \/ AppExit \/ AppDropped
  BY <1>1, <1>9 DEF AppStart, AppReceive, AppExit, AppDropped
<1>10. ASSUME NEW f \in Frame, ClientSend(f) PROVE YieldedWhatItTook'
  BY <1>1, <1>10 DEF ClientSend
<1>11. ASSUME NEW e \in AppEvent, AppSend(e) PROVE YieldedWhatItTook'
  BY <1>1, <1>11 DEF AppSend
<1>12. CASE UNCHANGED vars
  BY <1>1, <1>12 DEF vars
<1> QED BY <1>3, <1>4, <1>5, <1>6, <1>7, <1>8, <1>9, <1>10, <1>11, <1>12 DEF Next

(* The relation between what was taken and what was yielded is the promise *)
(* made to the client.                                                     *)
LEMMA SendPromise == TypeOK /\ YieldedWhatItTook => SendFaithful
<1> SUFFICES ASSUME TypeOK, YieldedWhatItTook PROVE SendFaithful
  OBVIOUS
<1>1. /\ consumed \in Seq(SendItem) /\ sendQueue \in Seq(SendItem) /\ frames \in Seq(Frame)
  BY DEF TypeOK
<1> DEFINE before == UntilTerminator(Produced)
           promised == OnTheWire(before)
<1>2. CASE \E k \in 1..Len(consumed) : Terminator(consumed, k)
  <2>1. before = UntilTerminator(consumed)
    BY <1>1, <1>2, UntilStops DEF Produced
  <2>2. promised = frames
    BY <2>1 DEF YieldedWhatItTook
  <2>3. SubSeq(frames, 1, Len(frames)) = frames
    <3>1. frames \in Seq(Frame)
      BY <1>1
    <3> QED BY <3>1, SubSeqFull, Zenon
  <2>4. metadata = "subprotocol" => AnnouncedFirst(before)
    BY <2>1, Zenon DEF YieldedWhatItTook
  <2> QED BY <1>1, <2>2, <2>3, <2>4 DEF SendFaithful
<1>3. CASE \A k \in 1..Len(consumed) : ~Terminator(consumed, k)
  <2>1. UntilTerminator(consumed) = consumed
    BY <1>1, <1>3, UntilGoesOn
  <2>2. PICK u \in Seq(SendItem) : before = consumed \o u
    BY <1>1, <1>3, UntilGoesOn DEF Produced
  <2>3. frames = OnTheWire(consumed)
    BY <2>1 DEF YieldedWhatItTook
  <2>4. PICK R : /\ OnTheWire(consumed) \in Seq(R) /\ OnTheWire(u) \in Seq(R)
                 /\ OnTheWire(consumed \o u) = OnTheWire(consumed) \o OnTheWire(u)
    BY <1>1, OnTheWireConcat
  <2>5. PICK w : w = OnTheWire(u) /\ w \in Seq(R)
    BY <2>4
  <2>6. frames \in Seq(R) /\ promised = frames \o w
    BY <2>2, <2>3, <2>4, <2>5
  <2>7. SubSeq(frames \o w, 1, Len(frames)) = SubSeq(frames, 1, Len(frames))
    <3>1. Len(frames) \in 0..Len(frames)
      BY <1>1
    <3> QED BY <2>5, <2>6, <3>1, PrefixOfFirst
  <2>8. SubSeq(frames, 1, Len(frames)) = frames
    <3>1. frames \in Seq(Frame)
      BY <1>1
    <3> QED BY <3>1, SubSeqFull, Zenon
  <2>9. Len(frames) <= Len(frames \o w)
    BY <2>5, <2>6
  <2>10. ~(outcome = "OK" /\ app # "none")
    BY <1>3 DEF YieldedWhatItTook
  <2>11. metadata = "subprotocol" => AnnouncedFirst(before)
    <3> SUFFICES ASSUME metadata = "subprotocol" PROVE AnnouncedFirst(before)
      OBVIOUS
    <3>1. PICK i \in 1..Len(consumed) :
            consumed[i].type = "acceptWith" /\ \A j \in 1..(i-1) : ~Shows(consumed[j])
      BY <2>1 DEF YieldedWhatItTook, AnnouncedFirst
    <3>2. PICK b : b = consumed \o u
      OBVIOUS
    <3>3. i \in 1..Len(b) /\ b[i] = consumed[i] /\ \A j \in 1..(i-1) : b[j] = consumed[j]
      BY <1>1, <3>2
    <3>4. AnnouncedFirst(b)
      BY <3>1, <3>3 DEF AnnouncedFirst
    <3> QED BY <2>2, <3>2, <3>4
  <2> QED BY <2>6, <2>7, <2>8, <2>9, <2>10, <2>11 DEF SendFaithful
<1> QED BY <1>2, <1>3

(* A step yields at most one frame, in the loop, and nothing after it; an  *)
(* RPC that was cancelled stays so.                                        *)
LEMMA YieldStep ==
    ASSUME TypeOK, [Next]_vars
    PROVE  /\ \/ /\ \E f \in Frame : frames' = Append(frames, f)
                 /\ {handler, handler'} \cap {"gather", "ended"} = {}
              \/ /\ frames' = frames
                 /\ handler \in {"gather", "ended"} => handler' \in {"gather", "ended"}
           /\ rpc # "live" => rpc' # "live"
<1> USE DEF clientVars, receiveVars, replyVars, taskVars
<1>1. CASE Consume
  <2>1. Head(sendQueue) \in SendItem
    BY <1>1 DEF Consume, TypeOK
  <2>2. handler = "consume" /\ rpc' = rpc
    BY <1>1 DEF Consume
  <2>3. CASE frames' = frames
    BY <2>2, <2>3
  <2>4. CASE frames' # frames
    <3>1. /\ Yields(Head(sendQueue)) /\ frames' = Append(frames, FrameOf(Head(sendQueue)))
          /\ handler' = "yield"
      BY <1>1, <2>4 DEF Consume
    <3>2. FrameOf(Head(sendQueue)) \in Frame
      BY <2>1, <3>1, EventTypes
    <3> QED BY <2>2, <3>1, <3>2
  <2> QED BY <2>3, <2>4
<1>2. CASE HandlerCancelled
  BY <1>2 DEF HandlerCancelled, Finally
<1>3. CASE Start \/ ScopeFails \/ Resume \/ Join
  BY <1>3 DEF Start, ScopeFails, Resume, Join
<1>4. CASE ClientHalfClose \/ CancelRpc \/ PumpRead \/ PumpFails \/ PumpEof \/ PumpCancelled
  BY <1>4 DEF ClientHalfClose, CancelRpc, PumpRead, PumpFails, PumpEof, PumpCancelled
<1>5. CASE AppStart \/ AppReceive \/ AppExit \/ AppDropped
  BY <1>5 DEF AppStart, AppReceive, AppExit, AppDropped
<1>6. ASSUME NEW f \in Frame, ClientSend(f) PROVE UNCHANGED <<frames, handler, rpc>>
  BY <1>6 DEF ClientSend
<1>7. ASSUME NEW e \in AppEvent, AppSend(e) PROVE UNCHANGED <<frames, handler, rpc>>
  BY <1>7 DEF AppSend
<1>8. CASE UNCHANGED vars
  BY <1>8 DEF vars
<1> QED BY <1>1, <1>2, <1>3, <1>4, <1>5, <1>6, <1>7, <1>8 DEF Next

(* Every step of the servicer keeps its invariant. *)
LEMMA IInvStep == IInv /\ [Next]_vars => IInv'
<1> SUFFICES ASSUME IInv, [Next]_vars PROVE IInv'
  OBVIOUS
<1>1. TypeOK'
  BY TypeStep DEF IInv
<1>2. Lifecycle' /\ DisconnectLast' /\ LoopGoesOn' /\ YieldedWhatItTook'
  BY LifecycleStep, DisconnectStep, LoopStep, YieldedStep DEF IInv
<1>3. ReadsOnceStarted'
  BY <1>1, ReadsStep DEF IInv
<1> QED BY <1>1, <1>2, <1>3 DEF IInv

(* A new connection has taken and yielded nothing. *)
LEMMA YieldedInit == Init => YieldedWhatItTook
<1> SUFFICES ASSUME Init PROVE YieldedWhatItTook
  OBVIOUS
<1>1. <<>> \in Seq(SendItem) /\ \A k \in 1..Len(<<>>) : ~Terminator(<<>>, k)
  OBVIOUS
<1>2. UntilTerminator(<<>>) = <<>>
  BY <1>1, UntilGoesOn
<1>3. OnTheWire(<<>>) = <<>>
  BY KeepEmpty, EachEmpty DEF OnTheWire
<1> QED BY <1>2, <1>3 DEF Init, YieldedWhatItTook

(* The invariant holds at the start. *)
LEMMA IInvInit == Init => IInv
<1>1. Init => Lifecycle /\ DisconnectLast /\ LoopGoesOn /\ ReadsOnceStarted
  BY DEF Init, Offered, Lifecycle, TasksJoined, DisconnectLast, LoopGoesOn, ReadsOnceStarted
<1> QED BY <1>1, TypeInit, YieldedInit DEF IInv

(* The client never sees anything but the frames the application sent      *)
(* before it closed, exited or broke the handshake, all of them when the   *)
(* RPC ends OK, and a subprotocol only ahead of them (the loop of Connect, *)
(* _run_app and their cancellation).                                       *)
THEOREM EventsReachClient == Spec => []SendFaithful
<1>1. Init => Lifecycle
  BY DEF Init, Lifecycle, TasksJoined
<1> QED BY <1>1, YieldedInit, TypeCorrect, LifecycleStep, YieldedStep, SendPromise, PTL DEF Spec

(* The whole inductive invariant, as the runs check it. *)
THEOREM Invariant == Spec => []IInv
BY IInvInit, IInvStep, PTL DEF Spec

=============================================================================
