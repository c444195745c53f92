----------------------------- MODULE WsPath_proof -----------------------------
(* Proofs about WsPath, for every set of frames and events and every bound. *)
(* They rest on the lemmas about the two components, taken at the instances *)
(* of their proof modules with the substitutions of WsPath.                 *)
EXTENDS WsPath, WsFraming_proof

FP == INSTANCE WsGrpcBridgeFilter_proof WITH MaxMessages <- MaxEvents

SP == INSTANCE WsConnect_proof WITH
    Payload <- 1..MaxFrames,
    frames <- yielded,
    sent <- OnStream,
    halfClosed <- (grpc = "halfClosed")

-----------------------------------------------------------------------------
(* A proof module's instance has the component's definitions a second time. *)
(* With all of them expanded both are the same formula.                     *)

(* Both instances of the filter have the same steps. *)
LEMMA SameFilter ==
    /\ F!Init <=> FP!Init
    /\ [F!Next]_(F!vars) <=> [FP!Next]_(FP!vars)
  BY DEF F!Init, FP!Init, F!Next, FP!Next, F!vars, FP!vars, F!Frame, FP!Frame,
         F!ClientSend, FP!ClientSend, F!ClientEnds, FP!ClientEnds, F!PlainRequest,
         FP!PlainRequest, F!UpgradeRequest, FP!UpgradeRequest, F!UpgradeFails,
         FP!UpgradeFails, F!DecodeDataIgnored, FP!DecodeDataIgnored,
         F!DecodeDataConnecting, FP!DecodeDataConnecting, F!DecodeDataActive,
         FP!DecodeDataActive, F!OnReceiveInitialMetadata, FP!OnReceiveInitialMetadata,
         F!OnReceiveMessage, FP!OnReceiveMessage, F!OnRemoteClose, FP!OnRemoteClose,
         F!OnDestroy, FP!OnDestroy, F!MaySend, FP!MaySend, F!UnitsOf, FP!UnitsOf,
         F!filterVars, FP!filterVars, F!serverVars, FP!serverVars, F!outVars, FP!outVars,
         F!clientVars, FP!clientVars, F!CloseFrame, FP!CloseFrame, F!Taken, FP!Taken,
         F!Chunk, FP!Chunk, F!ProcessWebSocketData, FP!ProcessWebSocketData,
         F!LoopEnds, FP!LoopEnds, F!LoopBreaks, FP!LoopBreaks, F!TearsDown, FP!TearsDown,
         F!Ends, FP!Ends, F!StreamLive, FP!StreamLive, F!WsFrame, FP!WsFrame, F!Resets, FP!Resets,
         F!HasClosed, FP!HasClosed, F!MidMessage, FP!MidMessage, F!Handled, FP!Handled,
         F!HasClose, FP!HasClose, F!Rest, FP!Rest, F!Forwarded, FP!Forwarded, F!Pongs,
         FP!Pongs, F!WholeFrames, FP!WholeFrames, F!UnitsPerItem, FP!UnitsPerItem, F!Each,
         FP!Each, F!Keep, FP!Keep, F!At, FP!At, F!FrameProto, FP!FrameProto, F!Pong,
         FP!Pong, F!KeptUpto, FP!KeptUpto

(* Both instances of the filter have the same invariant. *)
LEMMA SameFilterIInv == (F!IInv <=> FP!IInv) /\ (F!IInv' <=> FP!IInv')
  BY DEF F!IInv, FP!IInv, F!TypeOK, FP!TypeOK, F!FramingInv, FP!FramingInv, F!StreamInv,
         FP!StreamInv, F!ForwardFaithful, FP!ForwardFaithful, F!ReplyFaithful,
         FP!ReplyFaithful, F!Frame, FP!Frame, F!Unit, FP!Unit, F!ForwardedFrame,
         FP!ForwardedFrame, F!Message, FP!Message, F!ClientFrame, FP!ClientFrame,
         F!CloseIsLast, FP!CloseIsLast, F!Ending, FP!Ending, F!Between, FP!Between,
         F!UnitsPerItem, FP!UnitsPerItem, F!Delivered, FP!Delivered, F!HasClosed,
         FP!HasClosed, F!StreamLive, FP!StreamLive, F!IsPrefixOf, FP!IsPrefixOf,
         F!DataAmong, FP!DataAmong, F!Only, FP!Only, F!PongsFor, FP!PongsFor, F!FramesFor,
         FP!FramesFor, F!Aligned, FP!Aligned, F!Arrived, FP!Arrived, F!Each, FP!Each,
         F!Keep, FP!Keep, F!Upto, FP!Upto, F!At, FP!At, F!KeptUpto, FP!KeptUpto

(* Both instances of the servicer have the same steps. *)
LEMMA SameServicer ==
    /\ S!Init <=> SP!Init
    /\ [S!Next]_(S!vars) <=> [SP!Next]_(SP!vars)
<1>1. S!Init <=> SP!Init
  BY DEF S!Init, SP!Init
<1>2. /\ (\E f \in S!Frame : S!ClientSend(f)) <=> (\E f \in SP!Frame : SP!ClientSend(f))
      /\ S!ClientHalfClose <=> SP!ClientHalfClose
      /\ S!CancelRpc <=> SP!CancelRpc
  BY DEF S!Frame, SP!Frame, S!ClientSend, SP!ClientSend, S!ClientHalfClose,
         SP!ClientHalfClose, S!CancelRpc, SP!CancelRpc, S!receiveVars, SP!receiveVars,
         S!replyVars, SP!replyVars, S!taskVars, SP!taskVars, S!clientVars, SP!clientVars
<1>3. /\ S!Start <=> SP!Start
      /\ S!ScopeFails <=> SP!ScopeFails
      /\ S!HandlerCancelled <=> SP!HandlerCancelled
      /\ S!Join <=> SP!Join
  BY DEF S!Start, SP!Start, S!ScopeFails, SP!ScopeFails, S!HandlerCancelled,
         SP!HandlerCancelled, S!Join, SP!Join, S!ConnectEvent, SP!ConnectEvent, S!Finally,
         SP!Finally, S!TasksDone, SP!TasksDone, S!PumpOnCancel, SP!PumpOnCancel,
         S!AppOnCancel, SP!AppOnCancel, S!receiveVars, SP!receiveVars, S!replyVars,
         SP!replyVars, S!taskVars, SP!taskVars, S!clientVars, SP!clientVars
<1>4. (S!Consume <=> SP!Consume) /\ (S!Resume <=> SP!Resume)
  BY DEF S!Consume, SP!Consume, S!Resume, SP!Resume, S!EndsLoop, SP!EndsLoop, S!Finally,
         SP!Finally, S!Raises, SP!Raises, S!Yields, SP!Yields, S!FrameOf, SP!FrameOf,
         S!MetadataWithFrame, SP!MetadataWithFrame, S!APP_DONE, SP!APP_DONE,
         S!PumpOnCancel, SP!PumpOnCancel, S!AppOnCancel, SP!AppOnCancel, S!receiveVars,
         SP!receiveVars, S!replyVars, SP!replyVars, S!taskVars, SP!taskVars,
         S!clientVars, SP!clientVars
<1>5. /\ S!PumpRead <=> SP!PumpRead
      /\ S!PumpFails <=> SP!PumpFails
      /\ S!PumpEof <=> SP!PumpEof
      /\ S!PumpCancelled <=> SP!PumpCancelled
  BY DEF S!PumpRead, SP!PumpRead, S!PumpFails, SP!PumpFails, S!PumpEof, SP!PumpEof,
         S!PumpCancelled, SP!PumpCancelled, S!HasNext, SP!HasNext, S!Decodes, SP!Decodes,
         S!EventOf, SP!EventOf, S!Exhausted, SP!Exhausted, S!DisconnectEvent,
         SP!DisconnectEvent, S!receiveVars, SP!receiveVars, S!replyVars, SP!replyVars,
         S!taskVars, SP!taskVars, S!clientVars, SP!clientVars
<1>6. /\ S!AppStart <=> SP!AppStart
      /\ S!AppReceive <=> SP!AppReceive
      /\ (\E e \in S!AppEvent : S!AppSend(e)) <=> (\E e \in SP!AppEvent : SP!AppSend(e))
      /\ S!AppExit <=> SP!AppExit
      /\ S!AppDropped <=> SP!AppDropped
  BY DEF S!AppStart, SP!AppStart, S!AppReceive, SP!AppReceive, S!AppEvent, SP!AppEvent,
         S!AppSend, SP!AppSend, S!AppExit, SP!AppExit, S!AppDropped, SP!AppDropped,
         S!APP_DONE, SP!APP_DONE, S!receiveVars, SP!receiveVars, S!replyVars,
         SP!replyVars, S!taskVars, SP!taskVars, S!clientVars, SP!clientVars
<1>7. S!Next <=> SP!Next
  BY <1>2, <1>3, <1>4, <1>5, <1>6 DEF S!Next, SP!Next
<1>8. S!vars = SP!vars /\ S!vars' = SP!vars'
  <2>1. S!vars = SP!vars
    BY DEF S!vars, SP!vars
  <2>2. S!vars' = SP!vars'
    BY DEF S!vars, SP!vars
  <2> QED BY <2>1, <2>2
<1> QED BY <1>1, <1>7, <1>8

(* They agree on what ends a connection and what goes on the wire. *)
LEMMA SameWire ==
    /\ \A s, i : S!Terminator(s, i) <=> SP!Terminator(s, i)
    /\ \A s : S!UntilTerminator(s) = SP!UntilTerminator(s)
    /\ \A s : S!OnTheWire(s) = SP!OnTheWire(s)
    /\ \A s : S!AnnouncedFirst(s) <=> SP!AnnouncedFirst(s)
    /\ \A e : S!Shows(e) <=> SP!Shows(e)
<1>1. /\ \A e : S!Shows(e) <=> SP!Shows(e)
      /\ \A s, i : S!Terminator(s, i) <=> SP!Terminator(s, i)
  BY DEF S!Shows, SP!Shows, S!Terminator, SP!Terminator
<1>2. \A s : S!UntilTerminator(s) = SP!UntilTerminator(s)
  BY DEF S!UntilTerminator, SP!UntilTerminator, S!Terminator, SP!Terminator, S!Shows,
         SP!Shows
<1>3. \A s : S!OnTheWire(s) = SP!OnTheWire(s)
  BY DEF S!OnTheWire, SP!OnTheWire, S!Shown, SP!Shown, S!WireForm, SP!WireForm, S!Shows,
         SP!Shows, S!SendItem, SP!SendItem, S!AppEvent, SP!AppEvent, S!APP_DONE,
         SP!APP_DONE, S!Each, SP!Each, S!Keep, SP!Keep, S!KeptUpto, SP!KeptUpto
<1>4. \A s : S!AnnouncedFirst(s) <=> SP!AnnouncedFirst(s)
  BY DEF S!AnnouncedFirst, SP!AnnouncedFirst, S!Shows, SP!Shows
<1> QED BY <1>1, <1>2, <1>3, <1>4

(* They have the same invariant. *)
LEMMA SameServicerIInv == (S!IInv <=> SP!IInv) /\ (S!IInv' <=> SP!IInv')
<1>1. /\ S!TypeOK <=> SP!TypeOK
      /\ S!TypeOK' <=> SP!TypeOK'
  BY DEF S!TypeOK, SP!TypeOK, S!Frame, SP!Frame, S!ReceiveEvent, SP!ReceiveEvent,
         S!SendItem, SP!SendItem, S!AppEvent, SP!AppEvent, S!APP_DONE, SP!APP_DONE
<1>2. /\ S!Lifecycle /\ S!LoopGoesOn <=> SP!Lifecycle /\ SP!LoopGoesOn
      /\ S!Lifecycle' /\ S!LoopGoesOn' <=> SP!Lifecycle' /\ SP!LoopGoesOn'
  BY DEF S!Lifecycle, SP!Lifecycle, S!LoopGoesOn, SP!LoopGoesOn, S!TasksJoined,
         SP!TasksJoined, S!Final, SP!Final
<1>3. /\ S!DisconnectLast /\ S!ReadsOnceStarted <=> SP!DisconnectLast /\ SP!ReadsOnceStarted
      /\ S!DisconnectLast' /\ S!ReadsOnceStarted'
           <=> SP!DisconnectLast' /\ SP!ReadsOnceStarted'
  BY DEF S!DisconnectLast, SP!DisconnectLast, S!ReadsOnceStarted, SP!ReadsOnceStarted,
         S!Offered, SP!Offered, S!DisconnectEvent, SP!DisconnectEvent
<1>4. S!YieldedWhatItTook <=> SP!YieldedWhatItTook
  BY SameWire DEF S!YieldedWhatItTook, SP!YieldedWhatItTook
<1>5. S!YieldedWhatItTook' <=> SP!YieldedWhatItTook'
  BY <1>4, PTL
<1> QED BY <1>1, <1>2, <1>3, <1>4, <1>5 DEF S!IInv, SP!IInv

(* They agree on what the application was offered. *)
LEMMA SameOffered ==
    /\ S!OfferedWhatWasRead <=> SP!OfferedWhatWasRead
    /\ S!OfferedWhatWasRead' <=> SP!OfferedWhatWasRead'
    /\ S!Offered = SP!Offered /\ S!Offered' = SP!Offered'
    /\ S!DisconnectEvent = SP!DisconnectEvent
    /\ S!Exhausted <=> SP!Exhausted
  BY DEF S!OfferedWhatWasRead, SP!OfferedWhatWasRead, S!Offered, SP!Offered,
         S!DisconnectEvent, SP!DisconnectEvent, S!Exhausted, SP!Exhausted, S!ndecoded,
         SP!ndecoded, S!Decodes, SP!Decodes, S!Received, SP!Received, S!ConnectEvent,
         SP!ConnectEvent, S!Each, SP!Each, S!FrameEvent, SP!FrameEvent, S!Frame, SP!Frame

(* They agree on what frames and events are. *)
LEMMA SameSets ==
    /\ S!Frame = SP!Frame /\ S!ReceiveEvent = SP!ReceiveEvent /\ S!FrameEvents = SP!FrameEvents
  BY DEF S!Frame, SP!Frame, S!ReceiveEvent, SP!ReceiveEvent, S!FrameEvents, SP!FrameEvents

(* The operators of WsFraming are those of the filter. *)
LEMMA SameFraming ==
    /\ F!Frame = Frame /\ F!Unit = Unit /\ F!ForwardedFrame = ForwardedFrame
    /\ F!Message = Message /\ F!ClientFrame = ClientFrame
    /\ \A s, t : F!IsPrefixOf(s, t) <=> IsPrefixOf(s, t)
    /\ \A s, t : FP!IsPrefixOf(s, t) <=> IsPrefixOf(s, t)
    /\ \A fs : F!HasClosed(fs) <=> HasClosed(fs)
    /\ \A fs, units : F!Arrived(fs, units) = Arrived(fs, units)
    /\ \A fs, n : F!DataAmong(fs, n) = DataAmong(fs, n)
    /\ \A out, ops : F!Only(out, ops) = Only(out, ops)
    /\ \A ms : F!FramesFor(ms) = FramesFor(ms)
    /\ \A b, i : F!WsFrame(b, i) = WsFrame(b, i)
  BY DEF F!Frame, Frame, F!Unit, Unit, F!ForwardedFrame, ForwardedFrame, F!Message,
         Message, F!ClientFrame, ClientFrame, F!IsPrefixOf, IsPrefixOf, FP!IsPrefixOf,
         F!HasClosed, HasClosed, F!Arrived, Arrived, F!DataAmong, DataAmong, F!Only, Only,
         F!FramesFor, FramesFor, F!WsFrame, WsFrame, F!UnitsPerItem, UnitsPerItem, F!Each,
         Each, F!Keep, Keep, F!Upto, Upto, F!At, At, F!KeptUpto, KeptUpto

-----------------------------------------------------------------------------
(* The steps of the components. *)

(* A callback of the filter keeps its invariant, and what was sent.        *)
LEMMA FilterStep ==
    ASSUME F!IInv, [F!Next]_(F!vars)
    PROVE  F!IInv' /\ IsPrefixOf(toGrpc, toGrpc')
<1>1. FP!IInv /\ [FP!Next]_(FP!vars)
  BY SameFilter, SameFilterIInv
<1>2. FP!IInv'
  BY <1>1, FP!IInvStep, PathAssumption
<1>3. FP!IsPrefixOf(toGrpc, toGrpc')
  BY <1>1, <1>2, FP!SentGrows, PathAssumption
<1> QED BY <1>2, <1>3, SameFilterIInv, SameFraming

(* A step of the servicer or of the application keeps the servicer's.      *)
LEMMA ServicerStep ==
    ASSUME S!IInv, S!OfferedWhatWasRead, [S!Next]_(S!vars)
    PROVE  S!IInv' /\ S!OfferedWhatWasRead'
<1>1. SP!IInv /\ SP!OfferedWhatWasRead /\ [SP!Next]_(SP!vars)
  BY SameServicer, SameServicerIInv, SameOffered
<1>2. SP!IInv'
  BY <1>1, SP!IInvStep, PathAssumption
<1>3. /\ SP!TypeOK /\ SP!TypeOK' /\ SP!Lifecycle /\ SP!ReadsOnceStarted
  BY <1>1, <1>2 DEF SP!IInv
<1>4. SP!OfferedWhatWasRead'
  BY <1>1, <1>3, SP!OfferedStep, PathAssumption
<1> QED BY <1>2, <1>4, SameServicerIInv, SameOffered

(* What it does to the queue towards the application, to the frames        *)
(* yielded and to the RPC.                                                 *)
LEMMA ServicerMoves ==
    ASSUME S!IInv, [S!Next]_(S!vars)
    PROVE  /\ \/ /\ S!Offered' = S!Offered
                 /\ \/ appGot' = appGot
                    \/ /\ Len(appGot) < Len(S!Offered)
                       /\ appGot' = Append(appGot, S!Offered[Len(appGot) + 1])
              \/ /\ appGot' = appGot
                 /\ \E e \in S!ReceiveEvent :
                      S!Offered' = Append(S!Offered, e) /\ (e = S!DisconnectEvent => S!Exhausted)
           /\ \/ /\ \E f \in S!Frame : yielded' = Append(yielded, f)
                 /\ {handler, handler'} \cap {"gather", "ended"} = {}
              \/ /\ yielded' = yielded
                 /\ handler \in {"gather", "ended"} => handler' \in {"gather", "ended"}
           /\ rpc # "live" => rpc' # "live"
<1>1. SP!TypeOK /\ SP!Lifecycle /\ [SP!Next]_(SP!vars)
  BY SameServicer, SameServicerIInv DEF SP!IInv
<1>2. (\E i \in SP!ReceiveEvent : SP!PutsReceive(i)) \/ SP!TakesReceive \/ SP!LeavesReceive
  BY <1>1, SP!ReceiveStep, PathAssumption
<1>3. /\ \/ /\ \E f \in SP!Frame : yielded' = Append(yielded, f)
            /\ {handler, handler'} \cap {"gather", "ended"} = {}
         \/ /\ yielded' = yielded
            /\ handler \in {"gather", "ended"} => handler' \in {"gather", "ended"}
      /\ rpc # "live" => rpc' # "live"
  BY <1>1, SP!YieldStep, PathAssumption
<1>4. CASE SP!TakesReceive \/ SP!LeavesReceive
  BY <1>3, <1>4, SameOffered, SameSets DEF SP!TakesReceive, SP!LeavesReceive
<1>5. ASSUME NEW i \in SP!ReceiveEvent, SP!PutsReceive(i)
      PROVE  /\ i \in S!ReceiveEvent /\ appGot' = appGot
             /\ S!Offered' = Append(S!Offered, i) /\ (i = S!DisconnectEvent => S!Exhausted)
  BY <1>5, SameOffered, SameSets DEF SP!PutsReceive
<1> QED BY <1>2, <1>3, <1>4, <1>5, SameSets

(* What the filter's invariant says to the path. *)
LEMMA FilterFacts ==
    ASSUME F!IInv
    PROVE  /\ frames \in Seq(Frame) /\ toGrpc \in Seq(ForwardedFrame)
           /\ messages \in Seq(Message) /\ toClient \in Seq(ClientFrame)
           /\ IsPrefixOf(toGrpc, DataAmong(frames, Len(frames)))
           /\ grpc = "halfClosed" => HasClosed(frames) \/ clientEnd # "no"
           /\ Only(toClient, Data) = FramesFor(messages)
           /\ \A i \in 1..Len(toClient) : toClient[i].op = "close" => i = Len(toClient)
<1> USE DEF F!IInv
<1>1. /\ frames \in Seq(Frame) /\ inbound \in Seq(Unit) /\ toGrpc \in Seq(ForwardedFrame)
      /\ messages \in Seq(Message) /\ toClient \in Seq(ClientFrame)
  BY SameFraming DEF F!TypeOK
<1>2. IsPrefixOf(toGrpc, DataAmong(frames, Len(frames)))
  <2>1. PICK m \in 0..Len(frames) : m = Arrived(frames, inbound)
    BY <1>1, ArrivedType
  <2>2. IsPrefixOf(toGrpc, DataAmong(frames, m))
    BY <2>1, SameFraming DEF F!ForwardFaithful, F!Delivered
  <2>3. m \in Nat /\ Len(frames) \in m..Len(frames)
    BY <1>1, <2>1
  <2> QED BY <1>1, <2>2, <2>3, PrefixDelivered
<1>3. ASSUME grpc = "halfClosed" PROVE HasClosed(frames) \/ clientEnd # "no"
  <2>1. state = "Closing"
    BY <1>3 DEF F!TypeOK, F!StreamInv, F!StreamLive
  <2> QED BY <2>1, SameFraming DEF F!FramingInv
<1>4. /\ Only(toClient, Data) = FramesFor(messages)
      /\ \A i \in 1..Len(toClient) : toClient[i].op = "close" => i = Len(toClient)
  BY SameFraming DEF F!ReplyFaithful, Data
<1> QED BY <1>1, <1>2, <1>3, <1>4

-----------------------------------------------------------------------------
(* What a step of the path is: one of the filter and its client, or one of *)
(* the servicer and its application.                                       *)

ClientAct ==
    \/ ClientSend \/ ClientEnds \/ Request \/ DecodeData \/ OnDestroy
    \/ MetadataArrives \/ MessageArrives \/ TrailersArrive \/ ConnectionLost

FilterMoves ==
    /\ [F!Next]_(F!vars) /\ UNCHANGED servicerVars
    /\ \/ frames' = frames /\ (clientEnd # "no" => clientEnd' # "no")
       \/ /\ Len(frames) < MaxFrames /\ ~F!HasClosed(frames)
          /\ clientEnd = "no" /\ clientEnd' = "no"
          /\ \E f \in F!Frame : frames' = Append(frames, f)
    /\ \/ messages' = messages
       \/ /\ Len(messages) < Len(yielded)
          /\ messages' =
               Append(messages, [binary |-> yielded[Len(messages) + 1].binary, ok |-> TRUE])

(* Each action of the client, of Envoy and of the stream is one of the *)
(* filter.                                                             *)
LEMMA ClientActs ==
    ASSUME F!IInv, S!IInv, ClientAct
    PROVE  FilterMoves
<1> USE DEF F!clientVars, F!filterVars, F!serverVars, F!outVars
<1>1. CASE ClientSend
  <2>1. PICK f \in F!Frame : F!ClientSend(f)
    BY <1>1, ChoiceAssumption DEF ClientSend
  <2>2. F!Next /\ UNCHANGED servicerVars
    BY <1>1, <2>1 DEF F!Next, ClientSend
  <2>3. /\ Len(frames) < MaxFrames /\ ~F!HasClosed(frames)
        /\ clientEnd = "no" /\ clientEnd' = "no"
        /\ frames' = Append(frames, f) /\ messages' = messages
    BY <2>1 DEF F!ClientSend, F!MaySend
  <2> QED BY <2>2, <2>3 DEF FilterMoves
<1>2. CASE ClientEnds
  <2>1. F!Next /\ UNCHANGED servicerVars
    BY <1>2 DEF F!Next, ClientEnds
  <2>2. frames' = frames /\ clientEnd' = "sent" /\ messages' = messages
    BY <1>2 DEF ClientEnds, F!ClientEnds
  <2> QED BY <2>1, <2>2 DEF FilterMoves
<1>3. CASE Request
  <2>1. F!Next /\ UNCHANGED servicerVars
    BY <1>3 DEF F!Next, Request
  <2>2. frames' = frames /\ clientEnd' = clientEnd /\ messages' = messages
    BY <1>3 DEF Request, F!PlainRequest, F!UpgradeRequest, F!UpgradeFails
  <2> QED BY <2>1, <2>2 DEF FilterMoves
<1>4. CASE DecodeData
  <2>1. PICK n \in 0..(Len(inbound) \div 2) : F!DecodeData(2 * n)
    BY <1>4 DEF DecodeData, F!UnitsPerItem
  <2>2. PICK l \in Nat : l = Len(inbound)
    <3>1. inbound \in Seq(F!Unit)
      BY DEF F!IInv, F!TypeOK
    <3>2. Len(inbound) \in Nat
      BY <3>1
    <3> QED BY <3>2
  <2>3. 2 * n \in 0..Len(inbound)
    <3>1. n \in 0..(l \div 2)
      BY <2>1, <2>2
    <3>2. 2 * n \in 0..l
      BY <3>1
    <3> QED BY <2>2, <3>2
  <2>4. PICK m \in 0..Len(inbound) : F!DecodeData(m)
    BY <2>1, <2>3
  <2>5. F!Next /\ UNCHANGED servicerVars
    BY <1>4, <2>4 DEF F!Next, F!DecodeData, DecodeData
  <2>6. /\ frames' = frames /\ messages' = messages
        /\ clientEnd' \in {clientEnd, "seen"}
    BY <2>4 DEF F!DecodeData, F!DecodeDataIgnored, F!DecodeDataConnecting, F!DecodeDataActive,
                F!Taken
  <2> QED BY <2>5, <2>6 DEF FilterMoves
<1>5. CASE OnDestroy \/ MetadataArrives \/ TrailersArrive \/ ConnectionLost
  <2>1. F!Next /\ UNCHANGED servicerVars
    BY <1>5 DEF F!Next, OnDestroy, MetadataArrives, TrailersArrive, ConnectionLost
  <2>2. frames' = frames /\ clientEnd' = clientEnd /\ messages' = messages
    BY <1>5 DEF OnDestroy, MetadataArrives, TrailersArrive, ConnectionLost, F!OnDestroy,
                F!OnReceiveInitialMetadata, F!OnRemoteClose
  <2> QED BY <2>1, <2>2 DEF FilterMoves
<1>6. CASE MessageArrives
  <2>1. /\ Len(messages) < Len(yielded) /\ UNCHANGED servicerVars
        /\ F!OnReceiveMessage(yielded[Len(messages) + 1].binary)
    BY <1>6 DEF MessageArrives
  <2>2. yielded[Len(messages) + 1].binary \in BOOLEAN
    <3>1. messages \in Seq(F!Message) /\ yielded \in Seq(S!Frame)
      BY DEF F!IInv, F!TypeOK, S!IInv, S!TypeOK
    <3>2. yielded[Len(messages) + 1] \in S!Frame
      BY <2>1, <3>1
    <3> QED BY <3>2 DEF S!Frame
  <2>3. F!Next
    BY <2>1, <2>2 DEF F!Next
  <2>4. /\ frames' = frames /\ clientEnd' = clientEnd
        /\ messages' =
             Append(messages, [binary |-> yielded[Len(messages) + 1].binary, ok |-> TRUE])
    BY <2>1 DEF F!OnReceiveMessage
  <2> QED BY <2>1, <2>3, <2>4 DEF FilterMoves
<1> QED BY <1>1, <1>2, <1>3, <1>4, <1>5, <1>6 DEF ClientAct

(* A step of the path is one of the filter or one of the servicer. *)
LEMMA PathSteps ==
    ASSUME F!IInv, S!IInv, [Next]_vars
    PROVE  FilterMoves \/ ([S!Next]_(S!vars) /\ UNCHANGED filterVars)
<1>1. CASE ClientAct
  BY <1>1, ClientActs
<1>2. CASE CancelRpc \/ HandlerStep \/ PumpStep \/ AppRuns \/ AppReceive \/ AppExit
  BY <1>2 DEF CancelRpc, HandlerStep, PumpStep, AppRuns, AppReceive, AppExit, S!Next,
              S!HandlerStep, S!PumpStep
<1>3. CASE AppSend
  BY <1>3, ChoiceAssumption DEF AppSend, S!Next
<1>4. CASE UNCHANGED vars
  <2>1. UNCHANGED filterVars
    BY <1>4 DEF vars, filterVars
  <2>2. UNCHANGED S!vars
    BY <1>4 DEF vars, S!vars, OnStream
  <2> QED BY <2>1, <2>2
<1> QED BY <1>1, <1>2, <1>3, <1>4 DEF Next, ClientAct

-----------------------------------------------------------------------------
(* The stream between them. *)

(* What the client sent for the application, and the Frames on the stream: *)
(* each is, to the application, what the client's frame is.                *)
LEMMA OnStreamIs ==
    ASSUME F!IInv, Len(frames) <= MaxFrames
    PROVE  /\ OnStream \in Seq(S!Frame) /\ Len(OnStream) = Len(toGrpc)
           /\ Sent \in Seq(S!FrameEvents) /\ Len(toGrpc) <= Len(Sent)
           /\ \A k \in 1..Len(toGrpc) : S!FrameEvent[OnStream[k]] = Sent[k]
<1>1. PICK n \in Nat : n = Len(frames) /\ n <= MaxFrames
  <2>1. frames \in Seq(Frame)
    BY FilterFacts
  <2>2. Len(frames) \in Nat
    BY <2>1
  <2> QED BY <2>2
<1>2. PICK data : data = DataAmong(frames, n)
  OBVIOUS
<1>3. /\ data \in Seq(ForwardedFrame)
      /\ \A k \in 1..Len(data) :
           data[k].frame \in 1..n /\ data[k].binary = (frames[data[k].frame].op = "binary")
  <2>1. n \in 0..Len(frames) /\ frames \in Seq(Frame)
    BY <1>1, FilterFacts
  <2> QED BY <1>1, <1>2, <2>1, DataIs
<1>4. /\ toGrpc \in Seq(ForwardedFrame) /\ Len(toGrpc) <= Len(data)
      /\ \A k \in 1..Len(toGrpc) : toGrpc[k] = data[k]
  <2>1. IsPrefixOf(toGrpc, data) /\ toGrpc \in Seq(ForwardedFrame)
    BY <1>1, <1>2, FilterFacts
  <2> QED BY <1>3, <2>1, PrefixElements
<1>5. Sent = [k \in 1..Len(data) |-> Received(data[k].frame)]
  BY <1>1, <1>2, SameFraming DEF Sent
<1>6. ASSUME NEW k \in 1..Len(data)
      PROVE  /\ Received(data[k].frame) \in S!FrameEvents
             /\ Received(data[k].frame) =
                  [type |-> "receive", payload |-> data[k].frame, binary |-> data[k].binary]
             /\ [payload |-> data[k].frame, binary |-> data[k].binary] \in S!Frame
  <2>1. data[k].frame \in 1..MaxFrames /\ data[k].binary \in BOOLEAN
    <3>1. data[k].frame \in 1..n /\ data[k] \in ForwardedFrame
      BY <1>3
    <3> QED BY <1>1, <3>1, PathAssumption DEF ForwardedFrame
  <2> QED BY <1>3, <2>1 DEF Received, S!FrameEvents, S!ReceiveEvent, S!Frame
<1>7. PICK f : f = S!FrameEvent
  OBVIOUS
<1>8. \A o \in S!Frame : f[o] = [type |-> "receive", payload |-> o.payload, binary |-> o.binary]
  BY <1>7 DEF S!FrameEvent
<1>9. ASSUME NEW k \in 1..Len(toGrpc)
      PROVE  /\ OnStream[k] = [payload |-> data[k].frame, binary |-> data[k].binary]
             /\ OnStream[k] \in S!Frame
             /\ f[OnStream[k]] = Sent[k]
  <2>1. k \in 1..Len(data) /\ toGrpc[k] = data[k]
    BY <1>3, <1>4
  <2>2. OnStream[k] = [payload |-> data[k].frame, binary |-> data[k].binary]
    BY <2>1 DEF OnStream
  <2>3. OnStream[k] \in S!Frame
    BY <1>6, <2>1, <2>2
  <2>4. f[OnStream[k]] =
          [type |-> "receive", payload |-> data[k].frame, binary |-> data[k].binary]
    BY <1>8, <2>2, <2>3
  <2> QED BY <1>5, <1>6, <2>1, <2>2, <2>3, <2>4
<1>10. Len(toGrpc) \in Nat /\ Len(data) \in Nat
  BY <1>3, <1>4
<1>11. OnStream \in Seq(S!Frame) /\ Len(OnStream) = Len(toGrpc)
  <2>1. PICK m \in Nat : m = Len(toGrpc)
    BY <1>10
  <2>2. OnStream = [k \in 1..m |-> OnStream[k]]
    BY <2>1 DEF OnStream
  <2>3. \A k \in 1..m : OnStream[k] \in S!Frame
    BY <1>9, <2>1
  <2> QED BY <2>1, <2>2, <2>3
<1>12. Sent \in Seq(S!FrameEvents) /\ Len(Sent) = Len(data)
  <2>1. PICK m \in Nat : m = Len(data)
    BY <1>10
  <2>2. \A k \in 1..m : Received(data[k].frame) \in S!FrameEvents
    BY <1>6, <2>1
  <2> QED BY <1>5, <2>1, <2>2
<1> QED BY <1>4, <1>7, <1>9, <1>11, <1>12

(* The servicer's queues keep their relation to the stream while the       *)
(* filter sends more on it.                                                *)
LEMMA Undisturbed ==
    ASSUME S!IInv, S!OfferedWhatWasRead, UNCHANGED servicerVars,
           IsPrefixOf(OnStream, OnStream'), OnStream' \in Seq(S!Frame),
           (grpc' = "halfClosed") \in BOOLEAN
    PROVE  S!IInv' /\ S!OfferedWhatWasRead'
<1>1. /\ OnStream \in Seq(S!Frame) /\ nread \in 0..Len(OnStream)
      /\ S!ndecoded \in 0..nread
  BY DEF S!IInv, S!TypeOK, S!ReadsOnceStarted, S!ndecoded
<1>2. PICK s \in Seq(S!Frame), t \in Seq(S!Frame) : s = OnStream /\ t = OnStream'
  BY <1>1
<1>3. Len(s) <= Len(t) /\ s = SubSeq(t, 1, Len(s)) /\ \A i \in 1..Len(s) : s[i] = t[i]
  BY <1>2, PrefixElements DEF IsPrefixOf
<1>4. S!TypeOK'
  <2>1. nread' \in 0..Len(OnStream')
    BY <1>1, <1>2, <1>3 DEF servicerVars
  <2> QED BY <2>1 DEF S!IInv, S!TypeOK, servicerVars, S!Frame, S!ReceiveEvent, S!SendItem,
                      S!AppEvent, S!APP_DONE
<1>5. /\ S!Lifecycle' /\ S!LoopGoesOn'
      /\ S!ReadsOnceStarted' /\ S!DisconnectLast' /\ S!YieldedWhatItTook'
  <2> USE DEF S!IInv, servicerVars
  <2>1. S!Lifecycle'
    BY DEF S!Lifecycle, S!TasksJoined
  <2>2. S!LoopGoesOn'
    BY DEF S!LoopGoesOn, S!Final
  <2>3. S!ReadsOnceStarted' /\ S!DisconnectLast'
    BY DEF S!ReadsOnceStarted, S!Offered, S!DisconnectLast, S!DisconnectEvent
  <2>4. S!YieldedWhatItTook'
    BY DEF S!YieldedWhatItTook
  <2> QED BY <2>1, <2>2, <2>3, <2>4
<1>6. S!OfferedWhatWasRead'
  <2>1. PICK n \in 0..Len(s) : n = S!ndecoded /\ n = S!ndecoded'
    BY <1>1, <1>2 DEF S!ndecoded, servicerVars
  <2>2. SubSeq(t, 1, n) = SubSeq(s, 1, n)
    <3>1. PICK p, q : p = SubSeq(t, 1, n) /\ q = SubSeq(s, 1, n)
      OBVIOUS
    <3>2. 1 \in 1..(Len(s) + 1) /\ 1 \in 1..(Len(t) + 1) /\ n \in 0..Len(t)
      BY <1>3
    <3>3. q \in Seq(S!Frame) /\ Len(q) = n /\ \A i \in 1..n : q[i] = s[i]
      BY <3>1, <3>2, Slice
    <3>4. p \in Seq(S!Frame) /\ Len(p) = n /\ \A i \in 1..n : p[i] = t[i]
      BY <3>1, <3>2, Slice
    <3>5. \A i \in 1..n : p[i] = q[i]
      <4>1. \A i \in 1..n : i \in 1..Len(s)
        OBVIOUS
      <4> QED BY <1>3, <3>3, <3>4, <4>1
    <3> QED BY <3>1, <3>3, <3>4, <3>5, SeqEqual
  <2>3. S!Received' = S!Received
    <3>1. PICK p : p = SubSeq(s, 1, n) /\ p = SubSeq(t, 1, n)
      BY <2>2
    <3>2. SubSeq(OnStream, 1, S!ndecoded) = p /\ SubSeq(OnStream', 1, S!ndecoded') = p
      BY <1>2, <2>1, <3>1
    <3>3. S!ConnectEvent' = S!ConnectEvent /\ S!FrameEvent' = S!FrameEvent
      BY DEF S!ConnectEvent, S!FrameEvent, S!Frame
    <3>4. \A o, f : S!Each(o, f)' = S!Each(o, f)
      BY DEF S!Each
    <3> QED BY <3>2, <3>3, <3>4 DEF S!Received, S!Each
  <2>4. \A i \in 1..n : S!Decodes(OnStream[i]) => S!Decodes(OnStream'[i])
    BY <1>2, <1>3 DEF S!Decodes
  <2> QED BY <2>1, <2>3, <2>4 DEF S!OfferedWhatWasRead, S!Offered, S!DisconnectEvent,
                                  S!Decodes, servicerVars
<1> QED BY <1>4, <1>5, <1>6 DEF S!IInv

-----------------------------------------------------------------------------
(* The invariant of the path. *)

(* The invariant holds at the start. *)
LEMMA IInvInit == Init => IInv
<1> SUFFICES ASSUME Init PROVE IInv
  OBVIOUS
<1>1. F!IInv
  BY SameFilter, SameFilterIInv, FP!IInvInit, PathAssumption DEF Init
<1>2. S!IInv
  BY SameServicer, SameServicerIInv, SP!IInvInit, PathAssumption DEF Init
<1>3. /\ frames = <<>> /\ messages = <<>> /\ yielded = <<>> /\ app = "none"
      /\ appGot = <<>> /\ receiveQueue = <<>>
  BY DEF Init, F!Init, S!Init
<1>4. S!Offered = <<>>
  BY <1>3 DEF S!Offered
<1>5. Linked
  BY <1>3, <1>4, PathAssumption DEF Linked, S!OfferedWhatWasRead, ToldOfDisconnect
<1> QED BY <1>1, <1>2, <1>5 DEF IInv

(* What is on the stream, after a step as before it. *)
WithinBound == Len(frames) <= MaxFrames
StreamTyped == OnStream \in Seq(S!Frame) /\ Len(OnStream) = Len(toGrpc)

(* What the servicer can read are frames, before a step and after it. *)
LEMMA OnStreamNext ==
    /\ F!IInv /\ WithinBound => StreamTyped
    /\ F!IInv' /\ WithinBound' => StreamTyped'
<1>1. F!IInv /\ WithinBound => StreamTyped
  BY OnStreamIs DEF WithinBound, StreamTyped
<1> QED BY <1>1, PTL

(* A step of the filter or its client keeps it: the servicer sees only     *)
(* that there is more on the stream, or that it is half closed.            *)
LEMMA FilterKeeps ==
    ASSUME IInv, FilterMoves
    PROVE  IInv'
<1>1. F!IInv' /\ IsPrefixOf(toGrpc, toGrpc')
  BY FilterStep DEF IInv, FilterMoves
<1>2. UNCHANGED servicerVars
  BY DEF FilterMoves
<1>3. WithinBound /\ WithinBound'
  <2>1. frames \in Seq(Frame) /\ Len(frames) <= MaxFrames
    BY FilterFacts DEF IInv, Linked
  <2>2. CASE frames' = frames
    BY <2>1, <2>2 DEF WithinBound
  <2>3. ASSUME NEW f \in F!Frame, frames' = Append(frames, f), Len(frames) < MaxFrames
        PROVE  WithinBound'
    <3>1. Len(frames') = Len(frames) + 1
      BY <2>1, <2>3
    <3> QED BY <2>1, <2>3, <3>1, PathAssumption DEF WithinBound
  <2> QED BY <2>1, <2>2, <2>3 DEF FilterMoves, WithinBound
<1>4. StreamTyped /\ StreamTyped'
  BY <1>1, <1>3, OnStreamNext DEF IInv
<1>5. IsPrefixOf(OnStream, OnStream')
  <2>1. PICK s \in Seq(S!Frame), t \in Seq(S!Frame) :
          /\ s = OnStream /\ t = OnStream' /\ Len(s) = Len(toGrpc) /\ Len(t) = Len(toGrpc')
    BY <1>4 DEF StreamTyped, S!Frame
  <2>2. toGrpc \in Seq(ForwardedFrame) /\ toGrpc' \in Seq(ForwardedFrame)
    BY <1>1, SameFraming DEF IInv, F!IInv, F!TypeOK
  <2>3. Len(toGrpc) <= Len(toGrpc') /\ \A k \in 1..Len(toGrpc) : toGrpc[k] = toGrpc'[k]
    BY <1>1, <2>2, PrefixElements
  <2>4. ASSUME NEW k \in 1..Len(s) PROVE s[k] = t[k]
    <3>1. k \in 1..Len(toGrpc) /\ k \in 1..Len(toGrpc') /\ toGrpc[k] = toGrpc'[k]
      BY <2>1, <2>2, <2>3
    <3>2. /\ OnStream[k] = [payload |-> toGrpc[k].frame, binary |-> toGrpc[k].binary]
          /\ OnStream'[k] = [payload |-> toGrpc'[k].frame, binary |-> toGrpc'[k].binary]
      BY <3>1 DEF OnStream
    <3> QED BY <2>1, <3>1, <3>2
  <2>5. IsPrefixOf(s, t)
    BY <2>1, <2>3, <2>4, PrefixElements
  <2> QED BY <2>1, <2>5
<1>6. S!IInv' /\ S!OfferedWhatWasRead'
  <2>1. OnStream' \in Seq(S!Frame)
    BY <1>4 DEF StreamTyped, S!Frame
  <2> QED BY <1>2, <1>5, <2>1, Undisturbed DEF IInv, Linked
<1>7. ToldOfDisconnect' => ClientLeft'
  <2>1. /\ ToldOfDisconnect' <=> ToldOfDisconnect
        /\ rpc' = rpc
    BY <1>2 DEF ToldOfDisconnect, servicerVars, S!Offered, S!DisconnectEvent
  <2>2. CASE frames' = frames /\ (clientEnd # "no" => clientEnd' # "no")
    BY <2>1, <2>2 DEF IInv, Linked, ClientLeft, F!HasClosed
  <2>3. CASE ~F!HasClosed(frames) /\ clientEnd = "no"
    BY <2>1, <2>3 DEF IInv, Linked, ClientLeft
  <2> QED BY <2>2, <2>3 DEF FilterMoves
<1>8. /\ Len(messages') <= Len(yielded')
      /\ \A i \in 1..Len(messages') :
           messages'[i] = [binary |-> yielded'[i].binary, ok |-> TRUE]
  <2>1. yielded' = yielded /\ messages \in Seq(Message) /\ yielded \in Seq(S!Frame)
    BY <1>2, FilterFacts DEF servicerVars, IInv, S!IInv, S!TypeOK
  <2>2. CASE messages' = messages
    BY <2>1, <2>2 DEF IInv, Linked
  <2>3. ASSUME Len(messages) < Len(yielded),
               messages' = Append(messages,
                             [binary |-> yielded[Len(messages) + 1].binary, ok |-> TRUE])
        PROVE  /\ Len(messages') <= Len(yielded)
               /\ \A i \in 1..Len(messages') :
                    messages'[i] = [binary |-> yielded[i].binary, ok |-> TRUE]
    <3>1. /\ Len(messages') = Len(messages) + 1
          /\ \A i \in 1..Len(messages) : messages'[i] = messages[i]
          /\ messages'[Len(messages) + 1] =
               [binary |-> yielded[Len(messages) + 1].binary, ok |-> TRUE]
      BY <2>1, <2>3
    <3>2. PICK m \in Nat, n \in Nat : m = Len(messages) /\ n = Len(yielded)
      BY <2>1
    <3>3. \A i \in 1..m : messages'[i] = [binary |-> yielded[i].binary, ok |-> TRUE]
      BY <3>1, <3>2 DEF IInv, Linked
    <3>4. Len(messages') = m + 1 /\ m < n
      BY <2>3, <3>1, <3>2
    <3>5. \A i \in 1..(m + 1) : i \in 1..m \/ i = m + 1
      BY <3>2
    <3>6. messages'[m + 1] = [binary |-> yielded[m + 1].binary, ok |-> TRUE]
      BY <3>1, <3>2
    <3>7. \A i \in 1..(m + 1) : messages'[i] = [binary |-> yielded[i].binary, ok |-> TRUE]
      BY <3>3, <3>5, <3>6
    <3>8. m + 1 <= n
      BY <3>2, <3>4
    <3> QED BY <3>2, <3>4, <3>7, <3>8
  <2> QED BY <2>1, <2>2, <2>3 DEF FilterMoves
<1> QED BY <1>1, <1>3, <1>6, <1>7, <1>8 DEF IInv, Linked, WithinBound

(* A step of the servicer or its application keeps it. *)
LEMMA ServicerKeeps ==
    ASSUME IInv, [S!Next]_(S!vars), UNCHANGED filterVars
    PROVE  IInv'
<1>1. F!IInv'
  BY FilterStep DEF IInv, filterVars, F!vars
<1>2. S!IInv' /\ S!OfferedWhatWasRead'
  BY ServicerStep DEF IInv, Linked
<1>3. ToldOfDisconnect' => ClientLeft'
  <2>1. ClientLeft => ClientLeft'
    BY ServicerMoves DEF IInv, ClientLeft, F!HasClosed, filterVars
  <2>2. CASE S!Offered' = S!Offered
    BY <2>1, <2>2 DEF IInv, Linked, ToldOfDisconnect, S!DisconnectEvent
  <2>3. ASSUME NEW e \in S!ReceiveEvent, S!Offered' = Append(S!Offered, e),
               e = S!DisconnectEvent => S!Exhausted, ToldOfDisconnect'
        PROVE  ClientLeft'
    <3>1. PICK o \in Seq(S!ReceiveEvent) : o = S!Offered
      BY ConcatProperties DEF IInv, S!IInv, S!TypeOK, S!Offered
    <3>2. PICK k \in 1..Len(Append(o, e)) : Append(o, e)[k] = S!DisconnectEvent
      BY <2>3, <3>1 DEF ToldOfDisconnect, S!DisconnectEvent
    <3>3. CASE k <= Len(o)
      <4>1. k \in 1..Len(o) /\ o[k] = S!DisconnectEvent
        BY <3>2, <3>3
      <4> QED BY <2>1, <3>1, <4>1 DEF IInv, Linked, ToldOfDisconnect
    <3>4. CASE ~(k <= Len(o))
      <4>1. e = S!DisconnectEvent
        BY <3>2, <3>4
      <4>2. grpc = "halfClosed" \/ rpc # "live"
        BY <2>3, <4>1 DEF S!Exhausted
      <4>3. ClientLeft
        BY <4>2, FilterFacts, SameFraming DEF ClientLeft, IInv
      <4> QED BY <2>1, <4>3
    <3> QED BY <3>3, <3>4
  <2> QED BY <2>2, <2>3, ServicerMoves DEF IInv
<1>4. /\ Len(messages') <= Len(yielded')
      /\ \A i \in 1..Len(messages') :
           messages'[i] = [binary |-> yielded'[i].binary, ok |-> TRUE]
  <2>1. messages' = messages /\ messages \in Seq(Message) /\ yielded \in Seq(S!Frame)
    BY FilterFacts DEF filterVars, IInv, S!IInv, S!TypeOK
  <2>2. CASE yielded' = yielded
    BY <2>1, <2>2 DEF IInv, Linked
  <2>3. ASSUME NEW f \in S!Frame, yielded' = Append(yielded, f)
        PROVE  /\ Len(messages) <= Len(yielded')
               /\ \A i \in 1..Len(messages) :
                    messages[i] = [binary |-> yielded'[i].binary, ok |-> TRUE]
    <3>1. /\ Len(yielded') = Len(yielded) + 1
          /\ \A i \in 1..Len(yielded) : yielded'[i] = yielded[i]
      BY <2>1, <2>3
    <3>2. Len(messages) \in Nat /\ Len(yielded) \in Nat
      BY <2>1
    <3> QED BY <3>1, <3>2 DEF IInv, Linked
  <2> QED BY <2>1, <2>2, <2>3, ServicerMoves DEF IInv
<1> QED BY <1>1, <1>2, <1>3, <1>4 DEF IInv, Linked, filterVars

(* Every step keeps the invariant. *)
LEMMA IInvStep == IInv /\ [Next]_vars => IInv'
BY PathSteps, FilterKeeps, ServicerKeeps DEF IInv

(* On every path, of any number of frames, however they are cut, buffered, *)
(* queued, reset or cancelled, both components keep their invariants, the  *)
(* application is offered what came through the stream, and the filter has *)
(* the messages yielded first.                                             *)
THEOREM Invariant == Spec => []IInv
BY IInvInit, IInvStep, PTL DEF Spec

-----------------------------------------------------------------------------
(* From end to end. *)

(* The servicer and the path select with the same operators. *)
LEMMA SameSelection ==
    /\ \A s, K : SP!Keep(s, K) = Keep(s, K)
    /\ \A s, f : SP!Each(s, f) = Each(s, f)
    /\ S!FrameEvent = SP!FrameEvent /\ S!ndecoded = SP!ndecoded
  BY DEF Keep, SP!Keep, KeptUpto, SP!KeptUpto, Each, SP!Each, S!FrameEvent, SP!FrameEvent,
         S!Frame, SP!Frame, S!ndecoded, SP!ndecoded

(* The application is offered the client's data frames, as far as the pump *)
(* has read them.                                                          *)
LEMMA OfferedIsSent ==
    ASSUME IInv
    PROVE  /\ Got(S!Offered) \in Seq(S!FrameEvents) /\ Sent \in Seq(S!FrameEvents)
           /\ IsPrefixOf(Got(S!Offered), Sent)
<1>1. /\ OnStream \in Seq(S!Frame) /\ Sent \in Seq(S!FrameEvents)
      /\ Len(OnStream) = Len(toGrpc) /\ Len(toGrpc) <= Len(Sent)
      /\ \A k \in 1..Len(toGrpc) : S!FrameEvent[OnStream[k]] = Sent[k]
  BY OnStreamIs DEF IInv, Linked
<1>2. CASE app = "none"
  <2>1. S!Offered = <<>>
    BY <1>2 DEF IInv, S!IInv, S!ReadsOnceStarted
  <2>2. Got(S!Offered) = <<>>
    BY <2>1, KeepEmpty DEF Got
  <2> QED BY <1>1, <2>2, PrefixEmpty
<1>3. CASE app # "none"
  <2>1. PICK n \in 0..Len(OnStream) : n = S!ndecoded
    BY DEF IInv, S!IInv, S!TypeOK, S!ReadsOnceStarted, S!ndecoded
  <2>2. PICK fs : fs = SubSeq(OnStream, 1, n)
    OBVIOUS
  <2>3. fs \in Seq(S!Frame) /\ Len(fs) = n /\ \A i \in 1..n : fs[i] = OnStream[i]
    <3>1. 1 \in 1..(Len(OnStream) + 1)
      BY <1>1
    <3> QED BY <1>1, <2>1, <2>2, <3>1, Slice
  <2>4. \/ SP!Offered = SP!EventsOf(fs)
        \/ SP!Offered = Append(SP!EventsOf(fs), SP!DisconnectEvent)
    <3>1. SP!Received = SP!EventsOf(fs)
      BY <2>1, <2>2, SameSelection DEF SP!Received, SP!EventsOf
    <3>2. SP!OfferedWhatWasRead
      BY SameOffered DEF IInv, Linked
    <3> QED BY <1>3, <3>1, <3>2 DEF SP!OfferedWhatWasRead
  <2>5. /\ SP!Keep(SP!EventsOf(fs), SP!FrameEvents) = SP!Each(fs, SP!FrameEvent)
        /\ SP!Keep(Append(SP!EventsOf(fs), SP!DisconnectEvent), SP!FrameEvents)
             = SP!Each(fs, SP!FrameEvent)
    <3>1. fs \in Seq(SP!Frame)
      BY <2>3, SameSets
    <3> QED BY <3>1, SP!FrameEventsOf, PathAssumption
  <2>6. PICK f : f = S!FrameEvent /\ f \in [S!Frame -> S!FrameEvents]
    <3>1. S!FrameEvent \in [S!Frame -> S!FrameEvents]
      BY DEF S!FrameEvent, S!FrameEvents, S!ReceiveEvent, S!Frame
    <3> QED BY <3>1
  <2>7. Got(S!Offered) = Each(fs, f)
    BY <2>4, <2>5, <2>6, SameSelection, SameSets, SameOffered, Zenon DEF Got
  <2>8. PICK got : got = Each(fs, f)
    OBVIOUS
  <2>9. got \in Seq(S!FrameEvents) /\ Len(got) = n /\ \A i \in 1..n : got[i] = f[OnStream[i]]
    <3>1. /\ got \in Seq(S!FrameEvents) /\ Len(got) = Len(fs)
          /\ \A i \in 1..Len(fs) : got[i] = f[fs[i]]
      <4>1. got \in Seq(S!FrameEvents)
        BY <2>3, <2>6, <2>8, EachType
      <4>2. PICK l \in Nat : l = Len(fs)
        BY <2>3
      <4>3. got = [i \in 1..l |-> f[fs[i]]]
        BY <2>8, <4>2 DEF Each
      <4> QED BY <4>1, <4>2, <4>3
    <3> QED BY <2>3, <3>1
  <2>10. Len(got) <= Len(Sent) /\ \A i \in 1..Len(got) : got[i] = Sent[i]
    <3>1. PICK l \in Nat, m \in Nat : l = Len(toGrpc) /\ m = Len(Sent)
      BY <1>1
    <3>2. l <= m /\ n <= l /\ \A i \in 1..l : f[OnStream[i]] = Sent[i]
      BY <1>1, <2>1, <2>6, <3>1
    <3>3. n <= m /\ \A i \in 1..n : got[i] = Sent[i]
      BY <2>1, <2>9, <3>2
    <3> QED BY <2>9, <3>1, <3>3
  <2> QED BY <1>1, <2>7, <2>8, <2>9, <2>10, PrefixElements
<1> QED BY <1>2, <1>3

(* The client is shown the first of the frames yielded. *)
LEMMA ShownIsYielded ==
    ASSUME IInv
    PROVE  /\ messages \in Seq(Message) /\ yielded \in Seq(S!Frame)
           /\ Len(messages) <= Len(yielded)
           /\ ShownToClient \in Seq(ClientFrame) /\ Len(ShownToClient) = Len(messages)
           /\ \A i \in 1..Len(messages) : ShownToClient[i] = WsFrame(yielded[i].binary, i)
<1>1. messages \in Seq(Message) /\ yielded \in Seq(S!Frame)
  BY FilterFacts DEF IInv, S!IInv, S!TypeOK
<1>2. ShownToClient = FramesFor(messages)
  BY FilterFacts, SameFraming DEF IInv, ShownToClient, Data
<1>3. /\ Len(messages) <= Len(yielded)
      /\ \A i \in 1..Len(messages) :
           messages[i].ok /\ messages[i].binary = yielded[i].binary
  <2>1. /\ Len(messages) <= Len(yielded)
        /\ \A i \in 1..Len(messages) :
             messages[i] = [binary |-> yielded[i].binary, ok |-> TRUE]
    BY DEF IInv, Linked
  <2>2. ASSUME NEW i \in 1..Len(messages)
        PROVE  messages[i].ok /\ messages[i].binary = yielded[i].binary
    <3>1. messages[i] = [binary |-> yielded[i].binary, ok |-> TRUE]
      BY <2>1
    <3> QED BY <3>1
  <2> QED BY <2>1, <2>2
<1>4. /\ FramesFor(messages) \in Seq(ClientFrame) /\ Len(FramesFor(messages)) = Len(messages)
      /\ \A i \in 1..Len(messages) : FramesFor(messages)[i] = WsFrame(messages[i].binary, i)
  BY <1>1, <1>3, FramesForAll
<1> QED BY <1>1, <1>2, <1>3, <1>4

(* The invariant says all that the property does. *)
LEMMA EndToEnd == IInv => PathFaithful
<1> SUFFICES ASSUME IInv PROVE PathFaithful
  OBVIOUS
<1>1. IsPrefixOf(Got(S!Offered), Sent)
  BY OfferedIsSent
<1>2. IsPrefixOf(ShownToClient, Yielded)
  <2>1. PICK n \in Nat, m \in Nat : n = Len(messages) /\ m = Len(yielded) /\ n <= m
    <3>1. Len(messages) \in Nat /\ Len(yielded) \in Nat /\ Len(messages) <= Len(yielded)
      BY ShownIsYielded
    <3> QED BY <3>1
  <2>2. PICK s : s = ShownToClient
    OBVIOUS
  <2>3. /\ s \in Seq(ClientFrame) /\ Len(s) = n
        /\ \A i \in 1..n : s[i] = WsFrame(yielded[i].binary, i)
    BY <2>1, <2>2, ShownIsYielded
  <2>4. PICK t : t = Yielded
    OBVIOUS
  <2>5. \A i \in 1..m : t[i] = WsFrame(yielded[i].binary, i)
    BY <2>1, <2>4, SameFraming DEF Yielded
  <2>6. t \in Seq(ClientFrame) /\ Len(t) = m
    <3>1. \A i \in 1..m : WsFrame(yielded[i].binary, i) \in ClientFrame
      BY DEF WsFrame, ClientFrame
    <3>2. t = [i \in 1..m |-> WsFrame(yielded[i].binary, i)]
      BY <2>1, <2>4, SameFraming DEF Yielded
    <3> QED BY <3>1, <3>2
  <2>7. Len(s) <= Len(t) /\ \A i \in 1..Len(s) : s[i] = t[i]
    <3>1. \A i \in 1..n : i \in 1..m
      BY <2>1
    <3> QED BY <2>1, <2>3, <2>5, <2>6, <3>1
  <2>8. IsPrefixOf(s, t)
    BY <2>3, <2>6, <2>7, PrefixElements
  <2> QED BY <2>2, <2>4, <2>8
<1>3. \A i \in 1..Len(toClient) : toClient[i].op = "close" => i = Len(toClient)
  BY FilterFacts DEF IInv
<1> QED BY <1>1, <1>2, <1>3, SameFraming DEF PathFaithful, IInv, Linked

(* Whatever is buffered, queued, reset or cancelled on the way between      *)
(* the client, Envoy's filter, the servicer and the application: frames     *)
(* arrive in order, once, with no gap, in both directions, and a disconnect *)
(* is never made up.                                                        *)
THEOREM PathCarriesFrames == Spec => []PathFaithful
BY Invariant, EndToEnd, PTL

-----------------------------------------------------------------------------
(* The components keep their own promises on the path. *)

(* Behind the path's stream the filter does only what it does with any     *)
(* gRPC server: every theorem about it holds here.                         *)
THEOREM FilterOnPath == Spec => FilterSpec
<1>1. Init => F!Init
  BY DEF Init
<1>2. IInv /\ [Next]_vars => [F!Next]_(F!vars)
  <2> SUFFICES ASSUME IInv, [Next]_vars PROVE [F!Next]_(F!vars)
    OBVIOUS
  <2>1. FilterMoves \/ UNCHANGED filterVars
    BY PathSteps DEF IInv
  <2>2. FilterMoves => [F!Next]_(F!vars)
    BY DEF FilterMoves
  <2>3. UNCHANGED filterVars => UNCHANGED F!vars
    <3>1. F!vars = filterVars
      BY DEF filterVars, F!vars
    <3>2. F!vars' = filterVars'
      BY DEF filterVars, F!vars
    <3> QED BY <3>1, <3>2
  <2> QED BY <2>1, <2>2, <2>3
<1> QED BY <1>1, <1>2, Invariant, PTL DEF Spec, FilterSpec, F!Spec

(* Both instances of the servicer promise the same. *)
LEMMA SamePromise == S!SendFaithful <=> SP!SendFaithful
<1>1. S!Produced = SP!Produced
  BY DEF S!Produced, SP!Produced
<1> QED BY <1>1, SameWire DEF S!SendFaithful, SP!SendFaithful

(* Behind Envoy's filter, however it resets the stream or loses it, what   *)
(* the servicer yields is what the application sent before it closed or    *)
(* failed, and no task of the servicer outlives its RPC.                   *)
THEOREM ServicerOnPath == Spec => [](S!SendFaithful /\ S!TasksJoined)
<1>1. IInv => S!SendFaithful /\ S!TasksJoined
  <2> SUFFICES ASSUME IInv PROVE S!SendFaithful /\ S!TasksJoined
    OBVIOUS
  <2>1. SP!IInv
    BY SameServicerIInv DEF IInv
  <2>2. SP!SendFaithful
    BY <2>1, SP!SendPromise, PathAssumption DEF SP!IInv
  <2> QED BY <2>2, SamePromise DEF IInv, S!IInv, S!Lifecycle
<1> QED BY <1>1, Invariant, PTL

-----------------------------------------------------------------------------
(* The two relays. *)

(* A further frame of the client is one more event to come, if it has data.*)
LEMMA SentGrows ==
    ASSUME frames \in Seq(Frame), NEW f \in Frame, frames' = Append(frames, f)
    PROVE  Sent' = IF f.op \in Data
                     THEN Append(Sent, [type |-> "receive", payload |-> Len(frames) + 1,
                                        binary |-> f.op = "binary"])
                     ELSE Sent
<1>1. PICK n \in Nat : n = Len(frames)
  OBVIOUS
<1>2. PICK gs \in Seq(Frame) : gs = frames'
  <2>1. Append(frames, f) \in Seq(Frame)
    OBVIOUS
  <2> QED BY <2>1
<1>3. Len(gs) = n + 1 /\ gs[n + 1] = f /\ \A i \in 1..n : gs[i] = frames[i]
  BY <1>1, <1>2
<1>4. PICK data, more : data = DataAmong(frames, n) /\ more = DataAmong(gs, n + 1)
  OBVIOUS
<1>5. /\ data \in Seq(ForwardedFrame)
      /\ \A k \in 1..Len(data) : data[k].frame \in 1..n
  <2>1. n \in 0..Len(frames)
    BY <1>1
  <2> QED BY <1>1, <1>4, <2>1, DataIs
<1>6. more = IF f.op \in Data THEN Append(data, FrameProto(gs, n + 1)) ELSE data
  BY <1>1, <1>2, <1>4, DataAppend
<1>7. PICK p \in ForwardedFrame : p = FrameProto(gs, n + 1) /\ p.frame = n + 1
  <2>1. FrameProto(gs, n + 1) \in ForwardedFrame /\ FrameProto(gs, n + 1).frame = n + 1
    BY <1>1 DEF FrameProto, ForwardedFrame
  <2> QED BY <2>1
<1>8. PICK l \in Nat : l = Len(data)
  BY <1>5
<1> DEFINE old(i) == [type |-> "receive", payload |-> i, binary |-> frames[i].op = "binary"]
           new(i) == [type |-> "receive", payload |-> i, binary |-> gs[i].op = "binary"]
<1>9. Sent = [k \in 1..l |-> old(data[k].frame)]
  BY <1>1, <1>4, <1>8, SameFraming DEF Sent, Received
<1>10. Sent' = [k \in 1..Len(more) |-> new(more[k].frame)]
  <2>1. Len(frames') = n + 1
    BY <1>2, <1>3
  <2>2. \A fs, m : F!DataAmong(fs, m) = DataAmong(fs, m)
    BY SameFraming
  <2> QED BY <1>2, <1>4, <2>1, <2>2 DEF Sent, Received
<1>11. \A k \in 1..l : new(data[k].frame) = old(data[k].frame)
  BY <1>3, <1>5, <1>8
<1>12. CASE f.op \notin Data
  BY <1>6, <1>8, <1>9, <1>10, <1>11, <1>12
<1>13. CASE f.op \in Data
  <2>1. Len(more) = l + 1 /\ more[l + 1] = p /\ \A k \in 1..l : more[k] = data[k]
    BY <1>5, <1>6, <1>7, <1>8, <1>13
  <2>2. new(n + 1) = [type |-> "receive", payload |-> n + 1, binary |-> f.op = "binary"]
    BY <1>3
  <2> HIDE DEF old, new
  <2>3. PICK s : s = Sent /\ s = [k \in 1..l |-> old(data[k].frame)]
    BY <1>9
  <2>4. PICK e : e = new(n + 1)
    OBVIOUS
  <2>5. PICK t : t = [k \in 1..(l + 1) |-> new(more[k].frame)]
    OBVIOUS
  <2>6. \A k \in 1..l : t[k] = s[k]
    BY <1>11, <2>1, <2>3, <2>5
  <2>7. t[l + 1] = e
    BY <1>7, <2>1, <2>4, <2>5
  <2>8. PICK V : V = {s[k] : k \in 1..l} \cup {e}
    OBVIOUS
  <2>9. /\ s \in Seq(V) /\ e \in V /\ Len(s) = l
        /\ \A k \in 1..(l + 1) : k \in 1..l \/ k = l + 1
    BY <2>3, <2>8
  <2>10. t \in Seq(V) /\ Len(t) = l + 1
    <3>1. \A k \in 1..(l + 1) : t[k] \in V
      <4>1. \A k \in 1..l : s[k] \in V
        BY <2>8
      <4> QED BY <2>6, <2>7, <2>9, <4>1
    <3> QED BY <2>5, <3>1
  <2>11. t = Append(s, e)
    <3>1. Append(s, e) \in Seq(V) /\ Len(Append(s, e)) = l + 1
      BY <2>9
    <3>2. \A k \in 1..(l + 1) : t[k] = Append(s, e)[k]
      <4>1. Append(s, e)[l + 1] = e /\ \A k \in 1..l : Append(s, e)[k] = s[k]
        BY <2>9
      <4> QED BY <2>6, <2>7, <2>9, <4>1
    <3> QED BY <2>10, <3>1, <3>2, SeqEqual
  <2>12. Sent' = t
    BY <1>10, <2>1, <2>5
  <2> QED BY <1>1, <1>13, <2>2, <2>3, <2>4, <2>11, <2>12
<1> QED BY <1>12, <1>13

(* A step of the filter's side hands over at most one event.               *)
LEMMA UpFilterStep ==
    ASSUME IInv, FilterMoves
    PROVE  [UpRelay!Next]_(UpRelay!vars)
<1>1. Got(appGot)' = Got(appGot)
  BY DEF FilterMoves, servicerVars, Got, S!FrameEvents, S!ReceiveEvent, Keep, KeptUpto
<1>2. CASE frames' = frames /\ (clientEnd # "no" => clientEnd' # "no")
  <2>1. Sent' = Sent
    BY <1>2, SameFraming DEF Sent, Received
  <2>2. F!HasClosed(frames') <=> F!HasClosed(frames)
    BY <1>2
  <2> QED BY <1>1, <1>2, <2>1, <2>2 DEF UpRelay!Next, UpRelay!Close, UpRelay!vars, F!HasClosed
<1>3. ASSUME NEW f \in F!Frame, frames' = Append(frames, f), Len(frames) < MaxFrames,
             ~F!HasClosed(frames), clientEnd = "no", clientEnd' = "no"
      PROVE  [UpRelay!Next]_(UpRelay!vars)
  <2>1. frames \in Seq(Frame) /\ f \in Frame
    BY FilterFacts, SameFraming DEF IInv
  <2>2. PICK n \in Nat : n = Len(frames) /\ n + 1 \in 1..MaxFrames
    <3>1. Len(frames) \in Nat
      BY <2>1
    <3>2. Len(frames) + 1 \in 1..MaxFrames
      BY <1>3, <3>1, PathAssumption
    <3> QED BY <3>1, <3>2
  <2>3. Len(frames') = n + 1 /\ frames'[n + 1] = f /\ \A i \in 1..n : frames'[i] = frames[i]
    BY <1>3, <2>1, <2>2
  <2>4. F!HasClosed(frames') <=> f.op = "close"
    <3>1. \A i \in 1..n : frames'[i].op # "close"
      BY <1>3, <2>2, <2>3 DEF F!HasClosed
    <3>2. n + 1 \in 1..(n + 1) /\ \A i \in 1..(n + 1) : i \in 1..n \/ i = n + 1
      OBVIOUS
    <3>3. (\E i \in 1..(n + 1) : frames'[i].op = "close") <=> f.op = "close"
      BY <2>3, <3>1, <3>2
    <3> QED BY <2>3, <3>3 DEF F!HasClosed
  <2>5. PICK e \in S!FrameEvents :
          e = [type |-> "receive", payload |-> n + 1, binary |-> f.op = "binary"]
    <3>1. [type |-> "receive", payload |-> n + 1, binary |-> f.op = "binary"] \in S!FrameEvents
      BY <2>2 DEF S!FrameEvents, S!ReceiveEvent
    <3> QED BY <3>1
  <2>6. Sent' = IF f.op \in Data THEN Append(Sent, e) ELSE Sent
    BY <1>3, <2>1, <2>2, <2>5, SentGrows
  <2>7. /\ (clientEnd = "no" /\ ~F!HasClosed(frames))
        /\ (clientEnd' = "no" /\ ~F!HasClosed(frames')) <=> f.op # "close"
    BY <1>3, <2>4
  <2>8. CASE f.op \in Data
    <3>1. UpRelay!Accept(e)
      BY <1>1, <2>6, <2>7, <2>8 DEF UpRelay!Accept, Data, F!HasClosed
    <3> QED BY <2>5, <3>1 DEF UpRelay!Next
  <2>9. CASE f.op = "close"
    BY <1>1, <2>6, <2>7, <2>9 DEF UpRelay!Next, UpRelay!Close, Data, F!HasClosed
  <2>10. CASE f.op \notin Data /\ f.op # "close"
    BY <1>1, <2>6, <2>7, <2>10 DEF UpRelay!vars, Data, F!HasClosed
  <2> QED BY <2>8, <2>9, <2>10
<1> QED BY <1>2, <1>3 DEF FilterMoves

(* What begins a concatenation is what was put in front.                   *)
LEMMA ConcatWithin ==
    ASSUME NEW V, NEW s \in Seq(V), NEW t \in Seq(V), NEW i \in 1..Len(s)
    PROVE  i <= Len(s \o t) /\ (s \o t)[i] = s[i]
<1>1. PICK m \in Nat, n \in Nat : m = Len(s) /\ n = Len(t)
  OBVIOUS
<1>2. Len(s \o t) = m + n
  BY <1>1, ConcatProperties
<1>3. i \in 1..(m + n) /\ i <= m
  BY <1>1
<1>4. (s \o t)[i] = s[i]
  BY <1>1, <1>3, ConcatProperties
<1> QED BY <1>2, <1>3, <1>4

(* A step of the servicer's side receives at most one, the next one sent.  *)
LEMMA UpServicerStep ==
    ASSUME IInv, IInv', [S!Next]_(S!vars), UNCHANGED filterVars
    PROVE  [UpRelay!Next]_(UpRelay!vars)
<1>1. Sent' = Sent /\ clientEnd' = clientEnd /\ F!HasClosed(frames)' = F!HasClosed(frames)
  BY SameFraming DEF filterVars, Sent, Received, F!HasClosed
<1>2. CASE appGot' = appGot
  BY <1>1, <1>2 DEF UpRelay!vars, Got, S!FrameEvents, S!ReceiveEvent, Keep, KeptUpto
<1>3. CASE /\ S!Offered' = S!Offered /\ Len(appGot) < Len(S!Offered)
           /\ appGot' = Append(appGot, S!Offered[Len(appGot) + 1])
  <2>1. PICK K, R : K = S!FrameEvents /\ R = S!ReceiveEvent /\ R \cap K = K
    BY DEF S!FrameEvents
  <2>2. ASSUME NEW s \in Seq(R) PROVE Keep(s, K) \in Seq(K)
    <3>1. Keep(s, K) \in Seq(R \cap K)
      BY KeepType
    <3> QED BY <2>1, <3>1
  <2>3. ASSUME NEW s \in Seq(R), NEW x \in R
        PROVE  Keep(Append(s, x), K) = IF x \in K THEN Append(Keep(s, K), x) ELSE Keep(s, K)
    BY KeepAppend
  <2>4. ASSUME NEW s \in Seq(R), NEW t \in Seq(R)
        PROVE  Keep(s \o t, K) = Keep(s, K) \o Keep(t, K)
    BY KeepConcat
  <2>5. PICK a \in Seq(R), b \in Seq(R), q \in Seq(R) :
          a = appGot /\ b = appGot' /\ q = receiveQueue'
    BY <2>1 DEF IInv, S!IInv, S!TypeOK, S!ReceiveEvent
  <2>6. PICK o \in Seq(R) : o = S!Offered /\ o = b \o q
    BY <1>3, <2>5, ConcatProperties DEF S!Offered
  <2>7. PICK e \in R : b = Append(a, e)
    <3>1. o[Len(a) + 1] \in R
      BY <1>3, <2>5, <2>6
    <3> QED BY <1>3, <2>5, <2>6, <3>1
  <2>8. PICK kept \in Seq(K), more \in Seq(K), rest \in Seq(K) :
          kept = Keep(a, K) /\ more = Keep(b, K) /\ rest = Keep(q, K)
    BY <2>2
  <2>9. more = IF e \in K THEN Append(kept, e) ELSE kept
    BY <2>3, <2>7, <2>8
  <2>10. PICK all \in Seq(K) : all = more \o rest /\ all = Keep(o, K)
    <3>1. more \o rest \in Seq(K)
      BY ConcatProperties
    <3>2. Keep(o, K) = more \o rest
      BY <2>4, <2>6, <2>8
    <3> QED BY <3>1, <3>2
  <2>11. Got(appGot) = kept /\ Got(appGot)' = more /\ Got(S!Offered) = all
    <3>1. Got(appGot) = kept
      BY <2>1, <2>5, <2>8 DEF Got
    <3>2. Got(appGot)' = more
      BY <2>1, <2>5, <2>8 DEF Got
    <3>3. Got(S!Offered) = all
      BY <2>1, <2>6, <2>10 DEF Got
    <3> QED BY <3>1, <3>2, <3>3
  <2>12. CASE e \notin K
    BY <1>1, <2>9, <2>11, <2>12 DEF UpRelay!vars
  <2>13. CASE e \in K
    <3>1. PICK to \in Seq(K) : to = Sent /\ IsPrefixOf(all, to)
      BY <2>1, <2>11, OfferedIsSent
    <3>2. Len(all) <= Len(to) /\ \A i \in 1..Len(all) : all[i] = to[i]
      BY <3>1, PrefixElements
    <3>3. PICK n \in Nat, m \in Nat, l \in Nat : n = Len(kept) /\ m = Len(all) /\ l = Len(to)
      OBVIOUS
    <3>4. Len(more) = n + 1 /\ more[n + 1] = e
      BY <2>9, <2>13, <3>3
    <3>5. n + 1 <= m /\ all[n + 1] = e
      <4>1. n + 1 \in 1..Len(more)
        BY <3>3, <3>4
      <4>2. n + 1 <= Len(more \o rest) /\ (more \o rest)[n + 1] = more[n + 1]
        BY <4>1, ConcatWithin
      <4> QED BY <2>10, <3>3, <3>4, <4>2
    <3>6. n < l /\ to[n + 1] = e
      <4>1. n + 1 \in 1..m /\ m <= l
        BY <3>2, <3>3, <3>5
      <4> QED BY <3>2, <3>3, <3>5, <4>1
    <3>7. Got(appGot)' = Append(Got(appGot), e)
      BY <2>9, <2>11, <2>13
    <3>8. UpRelay!Forward
      BY <1>1, <2>11, <3>1, <3>3, <3>6, <3>7 DEF UpRelay!Forward
    <3> QED BY <3>8 DEF UpRelay!Next
  <2> QED BY <2>12, <2>13
<1> QED BY <1>2, <1>3, ServicerMoves DEF IInv

(* From the client to the application, across Envoy and the servicer, the  *)
(* path is a FIFO relay of the client's data frames, closed by the Close   *)
(* or the end of the client's stream.                                      *)
THEOREM UpIsRelay == Spec => UpRelaySpec
<1>1. Init => UpRelay!Init
  <2> SUFFICES ASSUME Init PROVE UpRelay!Init
    OBVIOUS
  <2>1. frames = <<>> /\ appGot = <<>> /\ clientEnd = "no"
    BY DEF Init, F!Init, S!Init
  <2>2. Sent = <<>>
    <3>1. DataAmong(<<>>, 0) = <<>> /\ Len(<<>>) = 0
      BY ReferencesEmpty
    <3> QED BY <2>1, <3>1, SameFraming DEF Sent
  <2>3. Got(appGot) = <<>>
    BY <2>1, KeepEmpty DEF Got
  <2> QED BY <2>1, <2>2, <2>3 DEF UpRelay!Init, F!HasClosed
<1>2. IInv /\ IInv' /\ [Next]_vars => [UpRelay!Next]_(UpRelay!vars)
  BY PathSteps, UpFilterStep, UpServicerStep DEF IInv
<1> QED BY <1>1, <1>2, Invariant, PTL DEF Spec, UpRelaySpec, UpRelay!Spec

(* What the client was shown, before a step and after it. *)
SeenTyped ==
    /\ messages \in Seq(Message) /\ yielded \in Seq(S!Frame)
    /\ Len(messages) <= Len(yielded)
    /\ Seen \in Seq(S!Frame) /\ Len(Seen) = Len(messages)
    /\ \A i \in 1..Len(messages) : Seen[i] = yielded[i]

(* The frames shown are the first of those yielded, one for each message. *)
LEMMA SeenNext == (IInv => SeenTyped) /\ (IInv' => SeenTyped')
<1>1. IInv => SeenTyped
  <2> SUFFICES ASSUME IInv PROVE SeenTyped
    OBVIOUS
  <2>1. PICK n \in Nat : n = Len(messages) /\ n = Len(ShownToClient)
    <3>1. Len(messages) \in Nat /\ Len(ShownToClient) = Len(messages)
      BY ShownIsYielded
    <3> QED BY <3>1
  <2>2. \A i \in 1..n : ShownToClient[i] = WsFrame(yielded[i].binary, i)
    BY <2>1, ShownIsYielded
  <2>3. \A i \in 1..n : yielded[i] \in S!Frame
    <3>1. PICK m \in Nat : m = Len(yielded)
      BY ShownIsYielded
    <3>2. n <= m /\ yielded \in Seq(S!Frame)
      BY <2>1, <3>1, ShownIsYielded
    <3> QED BY <3>1, <3>2
  <2>4. ASSUME NEW i \in 1..n
        PROVE  [payload |-> yielded[ShownToClient[i].ref].payload,
                binary  |-> ShownToClient[i].op = "binary"] = yielded[i]
    <3>2. PICK y \in S!Frame : y = yielded[i] /\ y.binary \in BOOLEAN
      BY <2>3 DEF S!Frame
    <3>1. ShownToClient[i].ref = i /\ (ShownToClient[i].op = "binary" <=> y.binary)
      <4>1. ShownToClient[i] = [op |-> IF y.binary THEN "binary" ELSE "text", ref |-> i]
        BY <2>2, <3>2 DEF WsFrame
      <4> QED BY <3>2, <4>1
    <3>3. /\ y = [payload |-> y.payload, binary |-> y.binary]
          /\ (ShownToClient[i].op = "binary") = y.binary
      BY <3>1, <3>2 DEF S!Frame
    <3> QED BY <3>1, <3>2, <3>3
  <2>5. PICK s : s = Seen /\ s = [i \in 1..n |-> Seen[i]]
    BY <2>1 DEF Seen
  <2>6. \A i \in 1..n : s[i] = yielded[i]
    BY <2>1, <2>4, <2>5 DEF Seen
  <2>7. s \in Seq(S!Frame) /\ Len(s) = n
    BY <2>3, <2>5, <2>6
  <2> QED BY <2>1, <2>5, <2>6, <2>7, ShownIsYielded DEF SeenTyped
<1> QED BY <1>1, PTL

(* A step accepts at most one frame of the servicer or shows at most one,  *)
(* the next one yielded, to the client.                                    *)
LEMMA DownStep ==
    ASSUME IInv, IInv', [Next]_vars
    PROVE  [DownRelay!Next]_(DownRelay!vars)
<1>1. PICK n \in Nat, m \in Nat, s \in Seq(S!Frame), y \in Seq(S!Frame) :
        /\ n = Len(messages) /\ m = Len(yielded) /\ n <= m /\ s = Seen /\ y = yielded
        /\ Len(s) = n /\ \A i \in 1..n : s[i] = y[i]
  <2>1. Len(messages) \in Nat /\ Len(yielded) \in Nat /\ SeenTyped
    BY SeenNext DEF SeenTyped
  <2> QED BY <2>1 DEF SeenTyped
<1>2. PICK k \in Nat, t \in Seq(S!Frame), z \in Seq(S!Frame) :
        /\ k = Len(messages') /\ t = Seen' /\ z = yielded'
        /\ Len(t) = k /\ \A i \in 1..k : t[i] = z[i]
  <2>1. SeenTyped'
    BY SeenNext
  <2>2. /\ messages' \in Seq(Message) /\ yielded' \in Seq(S!Frame)
        /\ Seen' \in Seq(S!Frame) /\ Len(Seen') = Len(messages')
        /\ \A i \in 1..Len(messages') : Seen'[i] = yielded'[i]
    BY <2>1 DEF SeenTyped, Message, S!Frame
  <2>3. Len(messages') \in Nat
    BY <2>2
  <2> QED BY <2>2, <2>3
<1>3. CASE FilterMoves
  <2>1. z = y /\ handler' = handler
    BY <1>1, <1>2, <1>3 DEF FilterMoves, servicerVars
  <2>2. CASE messages' = messages
    <3>1. k = n /\ \A i \in 1..n : t[i] = s[i]
      BY <1>1, <1>2, <2>1, <2>2
    <3>2. t = s
      BY <1>1, <1>2, <3>1, SeqEqual
    <3> QED BY <1>1, <1>2, <2>1, <3>2 DEF DownRelay!vars
  <2>3. ASSUME Len(messages) < Len(yielded), NEW x, messages' = Append(messages, x)
        PROVE  [DownRelay!Next]_(DownRelay!vars)
    <3>1. k = n + 1 /\ n < m
      <4>1. messages \in Seq(Message)
        BY ShownIsYielded
      <4>2. Len(messages') = Len(messages) + 1
        BY <2>3, <4>1
      <4> QED BY <1>1, <1>2, <2>3, <4>2
    <3>2. PICK e \in S!Frame : e = y[n + 1]
      BY <1>1, <3>1
    <3>3. t[n + 1] = e /\ \A i \in 1..n : t[i] = s[i]
      BY <1>1, <1>2, <2>1, <3>1, <3>2
    <3>4. t = Append(s, e)
      <4>1. /\ Append(s, e) \in Seq(S!Frame) /\ Len(Append(s, e)) = n + 1
            /\ Append(s, e)[n + 1] = e /\ \A i \in 1..n : Append(s, e)[i] = s[i]
        BY <1>1, <3>2
      <4>2. \A i \in 1..(n + 1) : i \in 1..n \/ i = n + 1
        OBVIOUS
      <4>3. \A i \in 1..(n + 1) : t[i] = Append(s, e)[i]
        BY <3>3, <4>1, <4>2
      <4> QED BY <1>2, <3>1, <4>1, <4>3, SeqEqual
    <3>5. DownRelay!Forward
      BY <1>1, <1>2, <2>1, <3>1, <3>2, <3>4 DEF DownRelay!Forward
    <3> QED BY <3>5 DEF DownRelay!Next
  <2> QED BY <1>3, <2>2, <2>3 DEF FilterMoves
<1>4. CASE [S!Next]_(S!vars) /\ UNCHANGED filterVars
  <2>1. k = n
    BY <1>1, <1>2, <1>4 DEF filterVars
  <2>2. CASE z = y
    <3>1. t = s
      BY <1>1, <1>2, <2>1, <2>2, SeqEqual
    <3>2. handler \in {"gather", "ended"} => handler' \in {"gather", "ended"}
      BY <1>4, ServicerMoves DEF IInv
    <3> QED BY <1>1, <1>2, <2>2, <3>1, <3>2 DEF DownRelay!Next, DownRelay!Close, DownRelay!vars
  <2>3. ASSUME NEW f \in S!Frame, z = Append(y, f),
               {handler, handler'} \cap {"gather", "ended"} = {}
        PROVE  [DownRelay!Next]_(DownRelay!vars)
    <3>1. \A i \in 1..n : t[i] = s[i]
      <4>1. \A i \in 1..m : z[i] = y[i]
        BY <1>1, <2>3
      <4>2. \A i \in 1..n : i \in 1..m
        BY <1>1
      <4> QED BY <1>1, <1>2, <2>1, <4>1, <4>2
    <3>2. t = s
      BY <1>1, <1>2, <2>1, <3>1, SeqEqual
    <3>3. DownRelay!Accept(f)
      BY <1>1, <1>2, <2>3, <3>2 DEF DownRelay!Accept
    <3> QED BY <3>3 DEF DownRelay!Next
  <2>4. \/ /\ \E f \in S!Frame : yielded' = Append(yielded, f)
           /\ {handler, handler'} \cap {"gather", "ended"} = {}
        \/ yielded' = yielded
    BY <1>4, ServicerMoves DEF IInv
  <2> QED BY <1>1, <1>2, <2>2, <2>3, <2>4
<1> QED BY <1>3, <1>4, PathSteps DEF IInv

(* From the servicer to the client the path is a FIFO relay of the frames  *)
(* yielded, closed when the handler goes to its gather or ends.            *)
THEOREM DownIsRelay == Spec => DownRelaySpec
<1>1. Init => DownRelay!Init
  <2> SUFFICES ASSUME Init PROVE DownRelay!Init
    OBVIOUS
  <2>1. toClient = <<>> /\ yielded = <<>> /\ handler = "new"
    BY DEF Init, F!Init, S!Init
  <2>2. ShownToClient = <<>>
    BY <2>1, ReferencesEmpty, SameFraming DEF ShownToClient
  <2>3. Seen = <<>>
    BY <2>2 DEF Seen
  <2> QED BY <2>1, <2>3 DEF DownRelay!Init
<1>2. IInv /\ IInv' /\ [Next]_vars => [DownRelay!Next]_(DownRelay!vars)
  BY DownStep
<1> QED BY <1>1, <1>2, Invariant, PTL DEF Spec, DownRelaySpec, DownRelay!Spec

=============================================================================
