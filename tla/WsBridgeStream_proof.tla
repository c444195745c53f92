------------------------- MODULE WsBridgeStream_proof -------------------------
(* Theorems about WsBridgeStream, for any number of frames and messages:   *)
(* which bytes the filter lets through to the upstream, what it sends on   *)
(* its gRPC stream and when, and what the client is sent.                  *)
EXTENDS WsBridgeStream, WsFraming_proof

(* What may still be on its way of the upgrade request. *)
RequestLeft == {UnitsOf(0), <<[item |-> 0, last |-> TRUE]>>}

-----------------------------------------------------------------------------
(* The upgrade request. *)

(* A chunk of the request that holds its end leaves nothing on its way,    *)
(* another one leaves the end.                                             *)
LEMMA RequestChunk ==
    ASSUME inbound \in RequestLeft, NEW n \in 1..Len(inbound), Taken(n)
    PROVE  /\ (\E i \in 1..n : Chunk(n)[i].last) => inbound' = <<>>
           /\ ~(\E i \in 1..n : Chunk(n)[i].last) => inbound' \in RequestLeft
<1> DEFINE first == [item |-> 0, last |-> FALSE]
           end == [item |-> 0, last |-> TRUE]
           U == {first, end}
<1> HIDE DEF first, end
<1>t. ~first.last /\ end.last
  BY DEF first, end
<1>1. CASE inbound = <<end>>
  <2>1. inbound \in Seq(U) /\ Len(inbound) = 1 /\ n = 1
    BY <1>1
  <2>2. Chunk(n) = inbound /\ inbound' = <<>>
    BY <2>1, SubSeqFull, SubSeqEmpty DEF Chunk, Taken
  <2> QED BY <1>1, <1>t, <2>1, <2>2
<1>2. CASE inbound = <<first, end>>
  <2>1. inbound \in Seq(U) /\ Len(inbound) = 2 /\ inbound[1] = first /\ inbound[2] = end
    BY <1>2
  <2>2. CASE n = 1
    <3>1. Chunk(n)[1] = first
      BY <2>1, <2>2, SubSeqProperties DEF Chunk
    <3>2. Tail(inbound) = <<end>> /\ Tail(inbound) = SubSeq(inbound, 2, 2)
      BY <1>2, <2>1, TailIsSubSeq
    <3>3. n + 1 = 2
      BY <2>2
    <3>4. inbound' = SubSeq(inbound, 2, 2)
      BY <2>1, <3>3 DEF Taken
    <3>5. inbound' = <<end>>
      BY <3>2, <3>4
    <3> QED BY <1>t, <2>2, <3>1, <3>5 DEF RequestLeft, end
  <2>3. CASE n = 2
    <3>1. Chunk(n) = inbound /\ inbound' = <<>>
      BY <2>1, <2>3, SubSeqFull, SubSeqEmpty DEF Chunk, Taken
    <3> QED BY <1>t, <2>1, <2>3, <3>1
  <2> QED BY <2>1, <2>2, <2>3
<1> QED BY <1>1, <1>2 DEF RequestLeft, UnitsOf, first, end

-----------------------------------------------------------------------------
(* The inductive invariant, action by action. *)

(* A new connection: the whole request is on its way. *)
LEMMA IInvInit == Init => IInv
<1> SUFFICES ASSUME Init PROVE IInv
  OBVIOUS
<1> USE DEF Init
<1>1. inbound \in Seq(Unit)
  BY UnitsAligned
<1>2. \A S : <<>> \in Seq(S)
  OBVIOUS
<1>3. TypeOK
  BY <1>1, <1>2 DEF TypeOK
<1>4. UpgradeInv
  BY DEF UpgradeInv, NoRawBytesUpstream
<1>5. FramingInv
  <2>1. Len(frames) = 0 /\ CloseIsLast(frames)
    BY DEF CloseIsLast
  <2> QED BY <2>1 DEF FramingInv
<1>6. StreamInv
  BY DEF StreamInv, StreamLive
<1>7. ForwardFaithful
  <2>1. Delivered = 0
    <3>1. frames \in Seq(Frame) /\ Len(frames) = 0
      BY <1>2
    <3>2. Delivered \in 0..Len(frames)
      BY <1>1, <3>1, ArrivedType DEF Delivered
    <3> QED BY <3>1, <3>2
  <2>2. IsPrefixOf(toGrpc, DataAmong(frames, Delivered))
    BY <1>2, <2>1, ReferencesEmpty, PrefixSelf
  <2> QED BY <2>2 DEF ForwardFaithful
<1>8. ReplyFaithful
  BY ReferencesEmpty DEF ReplyFaithful
<1> QED BY <1>3, <1>4, <1>5, <1>6, <1>7, <1>8 DEF IInv

(* The client sends a frame: it waits behind what is on its way. *)
LEMMA ClientSendKeeps ==
    ASSUME IInv, NEW f \in Frame, ClientSend(f)
    PROVE  IInv'
<1> USE DEF IInv
<1>1. /\ Upgraded /\ MaySend(frames, f)
      /\ frames' = Append(frames, f) /\ inbound' = inbound \o UnitsOf(Len(frames) + 1)
      /\ UNCHANGED <<state, downstreamBuf, grpcStreamId, upstream, leaked, grpc,
                     metadataSeen, toGrpc, messages, toClient>>
  BY DEF ClientSend, filterVars, serverVars, outVars
<1>2. frames \in Seq(Frame) /\ inbound \in Seq(Unit)
  BY DEF TypeOK
<1>3. state # "AwaitingUpgradeRequest"
  BY <1>1 DEF UpgradeInv, Upgraded
<1>4. CloseIsLast(frames) /\ Ending(frames, inbound)
  BY <1>3 DEF FramingInv
<1>5. /\ frames' \in Seq(Frame) /\ CloseIsLast(frames')
      /\ inbound' \in Seq(Unit) /\ Ending(frames', inbound')
      /\ Arrived(frames', inbound') = Arrived(frames, inbound)
      /\ \A n \in Nat, buf \in Seq(Unit) :
           Between(frames, n, buf, inbound) => Between(frames', n, buf, inbound')
  <2>1. PICK fs \in Seq(Frame), units \in Seq(Unit) : fs = frames /\ units = inbound
    BY <1>2
  <2>2. PICK gs, more : gs = Append(fs, f) /\ more = units \o UnitsOf(Len(fs) + 1)
    OBVIOUS
  <2>3. /\ gs = frames' /\ more = inbound'
        /\ MaySend(fs, f) /\ CloseIsLast(fs) /\ Ending(fs, units)
    BY <1>1, <1>4, <2>1, <2>2
  <2>4. /\ gs \in Seq(Frame) /\ CloseIsLast(gs)
        /\ more \in Seq(Unit) /\ Ending(gs, more)
        /\ Arrived(gs, more) = Arrived(fs, units)
        /\ \A n \in Nat, buf \in Seq(Unit) :
             Between(fs, n, buf, units) => Between(gs, n, buf, more)
    BY <2>2, <2>3, SendFollows, Zenon
  <2> QED BY <2>1, <2>3, <2>4, Zenon
<1>6. Delivered' = Delivered
  BY <1>5 DEF Delivered
<1>7. Delivered \in 0..Len(frames)
  BY <1>2, ArrivedType DEF Delivered
<1>8. /\ DataAmong(frames', Delivered') = DataAmong(frames, Delivered)
      /\ PongsFor(frames', Delivered') = PongsFor(frames, Delivered)
  BY <1>1, <1>2, <1>6, <1>7, ReferencesKept
<1>9. TypeOK'
  BY <1>1, <1>5 DEF TypeOK
<1>10. UpgradeInv'
  BY <1>1 DEF UpgradeInv, Upgraded, NoRawBytesUpstream
<1>11. FramingInv'
  <2>1. CASE state = "Active"
    <3>1. Len(downstreamBuf) < UnitsPerItem /\ Between(frames, Delivered, downstreamBuf, inbound)
      BY <2>1 DEF FramingInv
    <3>2. downstreamBuf \in Seq(Unit) /\ Delivered \in Nat
      BY <1>7 DEF TypeOK
    <3>3. Between(frames', Delivered, downstreamBuf, inbound')
      BY <1>5, <3>1, <3>2
    <3> QED BY <1>1, <1>5, <1>6, <3>1, <3>3 DEF FramingInv
  <2>2. CASE state # "Active"
    BY <1>1, <1>5, <2>2 DEF FramingInv
  <2> QED BY <2>1, <2>2
<1>12. StreamInv'
  <2>1. ~HasClosed(frames)
    BY <1>1 DEF MaySend
  <2> QED BY <1>1, <2>1 DEF StreamInv, StreamLive
<1>13. ForwardFaithful'
  BY <1>1, <1>8 DEF ForwardFaithful
<1>14. ReplyFaithful'
  BY <1>1, <1>8 DEF ReplyFaithful
<1> QED BY <1>9, <1>10, <1>11, <1>12, <1>13, <1>14

(* Before the filter is Active it has sent nothing. *)
LEMMA NothingSentYet ==
    ASSUME IInv, state # "Active"
    PROVE  grpc = "none" /\ grpcStreamId = "None" /\ toGrpc = <<>> /\ toClient = <<>>
BY DEF IInv, StreamInv, StreamLive, ForwardFaithful

(* A chunk of the upgrade request. *)
LEMMA UpgradeRequestKeeps ==
    ASSUME IInv, NEW n \in 1..Len(inbound), UpgradeRequestData(n)
    PROVE  IInv'
<1> USE DEF IInv
<1>1. /\ state = "AwaitingUpgradeRequest" /\ Taken(n)
      /\ IF \E i \in 1..n : Chunk(n)[i].last
           THEN /\ downstreamBuf' = <<>>
                /\ state' = "AwaitingUpgradeResponse"
                /\ upstream' = "asked"
           ELSE /\ downstreamBuf' = downstreamBuf \o Chunk(n)
                /\ UNCHANGED <<state, upstream>>
      /\ UNCHANGED <<frames, grpcStreamId, leaked, grpc, metadataSeen, toGrpc, messages, toClient>>
  BY DEF UpgradeRequestData, serverVars, outVars
<1>2. inbound \in RequestLeft /\ upstream = "idle" /\ frames = <<>>
  BY <1>1 DEF UpgradeInv, RequestLeft, Upgraded
<1>3. /\ (\E i \in 1..n : Chunk(n)[i].last) => inbound' = <<>>
      /\ ~(\E i \in 1..n : Chunk(n)[i].last) => inbound' \in RequestLeft
  BY <1>1, <1>2, RequestChunk
<1>4. /\ state' \in {"AwaitingUpgradeRequest", "AwaitingUpgradeResponse"}
      /\ state' = "AwaitingUpgradeRequest" =>
           upstream' = "idle" /\ inbound' \in RequestLeft
      /\ state' = "AwaitingUpgradeResponse" =>
           upstream' = "asked" /\ inbound' = <<>> /\ downstreamBuf' = <<>>
  BY <1>1, <1>2, <1>3
<1>5. grpc = "none" /\ grpcStreamId = "None" /\ toGrpc = <<>> /\ toClient = <<>>
  BY <1>1, NothingSentYet
<1>6. inbound' \in Seq(Unit) /\ Chunk(n) \in Seq(Unit)
  <2>1. inbound \in Seq(Unit) /\ 1 \in 1..(Len(inbound) + 1) /\ n \in 0..Len(inbound)
        /\ n + 1 \in 1..(Len(inbound) + 1) /\ Len(inbound) \in 0..Len(inbound)
    BY DEF TypeOK
  <2>2. SubSeq(inbound, 1, n) \in Seq(Unit)
    BY <2>1, Slice
  <2>3. SubSeq(inbound, n + 1, Len(inbound)) \in Seq(Unit)
    BY <2>1, Slice
  <2> QED BY <1>1, <2>2, <2>3 DEF Taken, Chunk
<1>7. downstreamBuf' \in Seq(Unit) /\ frames' \in Seq(Frame)
  <2>1. downstreamBuf \in Seq(Unit) /\ frames \in Seq(Frame)
    BY DEF TypeOK
  <2>2. downstreamBuf \o Chunk(n) \in Seq(Unit) /\ <<>> \in Seq(Unit)
    BY <1>6, <2>1
  <2> QED BY <1>1, <2>1, <2>2
<1>8. TypeOK'
  BY <1>1, <1>4, <1>6, <1>7 DEF TypeOK
<1>9. UpgradeInv'
  <2>1. RequestLeft = {UnitsOf(0), <<[item |-> 0, last |-> TRUE]>>}
    BY DEF RequestLeft
  <2>2. frames' = <<>> /\ leaked' = leaked /\ ~leaked
    BY <1>1, <1>2 DEF UpgradeInv, NoRawBytesUpstream
  <2> QED BY <1>4, <2>1, <2>2 DEF UpgradeInv, NoRawBytesUpstream, UnitsOf
<1>10. FramingInv'
  <2>1. state' = "AwaitingUpgradeResponse" => Ending(frames', inbound')
    BY <1>1, <1>2, <1>4 DEF Ending, Aligned, UnitsPerItem
  <2>2. CloseIsLast(frames')
    BY <1>1 DEF FramingInv
  <2> QED BY <1>4, <2>1, <2>2 DEF FramingInv
<1>11. StreamInv'
  BY <1>1, <1>4, <1>5 DEF StreamInv, StreamLive
<1>12. ForwardFaithful'
  BY <1>1, <1>5, <1>6, <1>7, SendingNothing DEF ForwardFaithful, Delivered
<1>13. ReplyFaithful'
  BY <1>1, <1>4 DEF ReplyFaithful
<1> QED BY <1>8, <1>9, <1>10, <1>11, <1>12, <1>13

(* Frames that the filter passes on, because it missed the 101. *)
LEMMA PassedThroughKeeps ==
    ASSUME IInv, NEW n \in 1..Len(inbound), PassedThrough(n)
    PROVE  IInv'
<1> USE DEF IInv
<1>1. /\ state = "AwaitingUpgradeResponse" /\ Taken(n) /\ leaked' = TRUE
      /\ UNCHANGED <<frames, upstream, state, downstreamBuf, grpcStreamId, grpc, metadataSeen,
                     toGrpc, messages, toClient>>
  BY DEF PassedThrough, filterVars, serverVars
<1>2. inbound # <<>> /\ upstream = "switchedInPieces"
  <2>1. inbound # <<>>
    OBVIOUS
  <2> QED BY <1>1, <2>1 DEF UpgradeInv
<1>3. grpc = "none" /\ grpcStreamId = "None" /\ toGrpc = <<>> /\ toClient = <<>>
  BY <1>1, NothingSentYet
<1>4. inbound' \in Seq(Unit) /\ Ending(frames', inbound')
  <2>1. PICK units \in Seq(Unit), fs \in Seq(Frame) : units = inbound /\ fs = frames
    BY DEF TypeOK
  <2>2. Ending(fs, units) /\ n \in 0..Len(units)
    BY <1>1, <2>1 DEF FramingInv
  <2>3. PICK more : more = SubSeq(units, n + 1, Len(units))
    OBVIOUS
  <2>4. more \in Seq(Unit) /\ Ending(fs, more)
    BY <2>2, <2>3, MoreTaken, Zenon
  <2>5. frames' = fs /\ inbound' = more
    BY <1>1, <2>1, <2>3 DEF Taken
  <2> QED BY <2>4, <2>5
<1>5. TypeOK'
  BY <1>1, <1>4 DEF TypeOK
<1>6. UpgradeInv'
  BY <1>1, <1>2 DEF UpgradeInv, Upgraded, NoRawBytesUpstream
<1>7. FramingInv'
  BY <1>1, <1>4 DEF FramingInv
<1>8. StreamInv'
  BY <1>1, <1>3 DEF StreamInv, StreamLive
<1>9. ForwardFaithful'
  <2>1. frames' \in Seq(Frame)
    BY <1>5 DEF TypeOK
  <2> QED BY <1>1, <1>3, <1>4, <2>1, SendingNothing DEF ForwardFaithful, Delivered
<1>10. ReplyFaithful'
  BY <1>1 DEF ReplyFaithful
<1> QED BY <1>5, <1>6, <1>7, <1>8, <1>9, <1>10

(* What a chunk does to an Active filter: the frames that are whole now    *)
(* are handled, and the references grow by what they send on.              *)
LEMMA ActiveChunk ==
    ASSUME IInv, NEW n \in 1..Len(inbound), ActiveData(n)
    PROVE  \E handled \in Seq(1..Len(frames)) :
             /\ inbound' \in Seq(Unit) /\ Ending(frames, inbound')
             /\ downstreamBuf' \in Seq(Unit) /\ Len(downstreamBuf') < UnitsPerItem
             /\ Between(frames, Delivered', downstreamBuf', inbound')
             /\ DataAmong(frames, Delivered') =
                  DataAmong(frames, Delivered) \o Forwarded(frames, handled)
             /\ PongsFor(frames, Delivered') = PongsFor(frames, Delivered) \o Pongs(frames, handled)
             /\ HasClose(frames, handled) => HasClosed(frames) /\ inbound' = <<>>
             /\ toClient' = toClient \o Pongs(frames, handled)
             /\ IF grpcStreamId = "Some"
                  THEN /\ toGrpc' = toGrpc \o Forwarded(frames, handled)
                       /\ grpcStreamId' = IF HasClose(frames, handled) THEN "None" ELSE "Some"
                       /\ grpc' = IF HasClose(frames, handled) THEN "halfClosed" ELSE grpc
                  ELSE UNCHANGED <<toGrpc, grpcStreamId, grpc>>
<1> USE DEF IInv
<1>1. PICK fs \in Seq(Frame), units \in Seq(Unit), kept \in Seq(Unit) :
        fs = frames /\ units = inbound /\ kept = downstreamBuf
  BY DEF TypeOK
<1>2. PICK buf, more : buf = kept \o SubSeq(units, 1, n) /\ more = SubSeq(units, n + 1, Len(units))
  OBVIOUS
<1>3. PICK m \in Nat : m = Delivered
  <2>1. Delivered \in 0..Len(frames)
    BY ArrivedType DEF TypeOK, Delivered
  <2>2. Len(frames) \in Nat
    BY DEF TypeOK
  <2> QED BY <2>1, <2>2
<1>4. state = "Active" /\ frames' = fs /\ inbound' = more
  BY <1>1, <1>2 DEF ActiveData, Taken
<1>5. /\ CloseIsLast(fs) /\ Ending(fs, units) /\ Between(fs, m, kept, units)
      /\ n \in 0..Len(units)
  BY <1>1, <1>3, <1>4 DEF FramingInv
<1>6. /\ buf \in Seq(Unit) /\ more \in Seq(Unit)
      /\ Between(fs, m, buf, more) /\ Ending(fs, more)
  BY <1>2, <1>5, ChunkTaken, Zenon
<1>7. PICK handled, rest, now :
        handled = Handled(fs, buf) /\ rest = Rest(buf, handled) /\ now = Arrived(fs, more)
  OBVIOUS
<1>8. /\ handled \in Seq(1..Len(fs))
      /\ rest \in Seq(Unit) /\ Len(rest) < UnitsPerItem
      /\ Between(fs, now, rest, more)
      /\ DataAmong(fs, now) = DataAmong(fs, m) \o Forwarded(fs, handled)
      /\ PongsFor(fs, now) = PongsFor(fs, m) \o Pongs(fs, handled)
      /\ HasClose(fs, handled) =>
           HasClosed(fs) /\ more = <<>> /\ rest = <<>> /\ now = Len(fs)
  <2>1. CloseIsLast(fs) /\ more \in Seq(Unit) /\ buf \in Seq(Unit) /\ Between(fs, m, buf, more)
    BY <1>5, <1>6, Zenon
  <2> QED BY <2>1, <1>7, BufferHandled, ZenonT(60)
<1>9. Delivered' = now
  BY <1>4, <1>7 DEF Delivered
<1>10. downstreamBuf \o Chunk(n) = buf
  BY <1>1, <1>2 DEF Chunk
<1>11. Handled(frames, downstreamBuf \o Chunk(n)) = handled
  BY <1>1, <1>7, <1>10
<1>12. /\ downstreamBuf' = rest
       /\ toClient' = toClient \o Pongs(frames, handled)
       /\ IF grpcStreamId = "Some"
            THEN /\ toGrpc' = toGrpc \o Forwarded(frames, handled)
                 /\ grpcStreamId' = IF HasClose(frames, handled) THEN "None" ELSE "Some"
                 /\ grpc' = IF HasClose(frames, handled) THEN "halfClosed" ELSE grpc
            ELSE UNCHANGED <<toGrpc, grpcStreamId, grpc>>
  BY <1>7, <1>10, <1>11, Zenon DEF ActiveData
<1> QED BY <1>1, <1>3, <1>4, <1>6, <1>8, <1>9, <1>12

(* A chunk of frames. *)
LEMMA ActiveDataKeeps ==
    ASSUME IInv, NEW n \in 1..Len(inbound), ActiveData(n)
    PROVE  IInv'
<1> USE DEF IInv
<1>1. PICK handled \in Seq(1..Len(frames)) :
        /\ inbound' \in Seq(Unit) /\ Ending(frames, inbound')
        /\ downstreamBuf' \in Seq(Unit) /\ Len(downstreamBuf') < UnitsPerItem
        /\ Between(frames, Delivered', downstreamBuf', inbound')
        /\ DataAmong(frames, Delivered') =
             DataAmong(frames, Delivered) \o Forwarded(frames, handled)
        /\ PongsFor(frames, Delivered') = PongsFor(frames, Delivered) \o Pongs(frames, handled)
        /\ HasClose(frames, handled) => HasClosed(frames) /\ inbound' = <<>>
        /\ toClient' = toClient \o Pongs(frames, handled)
        /\ IF grpcStreamId = "Some"
             THEN /\ toGrpc' = toGrpc \o Forwarded(frames, handled)
                  /\ grpcStreamId' = IF HasClose(frames, handled) THEN "None" ELSE "Some"
                  /\ grpc' = IF HasClose(frames, handled) THEN "halfClosed" ELSE grpc
             ELSE UNCHANGED <<toGrpc, grpcStreamId, grpc>>
  BY ActiveChunk
<1>2. state = "Active" /\ UNCHANGED <<frames, state, upstream, leaked, metadataSeen, messages>>
  BY DEF ActiveData
<1>3. inbound # <<>>
  BY DEF TypeOK
<1>4. PICK sent \in Seq(ForwardedFrame) : sent = Forwarded(frames, handled)
  BY SentOnType DEF TypeOK
<1>5. PICK pongs \in Seq(PongFrame) : pongs = Pongs(frames, handled)
  BY SentOnType DEF TypeOK
<1>6. PICK out \in Seq(ClientFrame) : out = toClient
  BY DEF TypeOK
<1>7. PICK after : after = toClient' /\ after = out \o pongs
  BY <1>1, <1>5, <1>6
<1>8. /\ after \in Seq(ClientFrame)
      /\ Only(after, {"pong"}) = Only(out, {"pong"}) \o pongs
      /\ \A ops : "pong" \notin ops => Only(after, ops) = Only(out, ops)
      /\ Len(after) = Len(out) + Len(pongs)
      /\ \A i \in 1..Len(out) : after[i] = out[i]
      /\ \A i \in (Len(out) + 1)..Len(after) : after[i].op = "pong"
  <2>1. after = out \o pongs
    BY <1>7
  <2> QED BY <2>1, OnlyPongs
<1>9. /\ grpc # "none" /\ (grpc = "open" => grpcStreamId = "Some")
      /\ (~StreamLive => grpcStreamId = "None") /\ grpc # "halfClosed"
  BY <1>2, <1>3 DEF StreamInv
<1>10. \/ /\ grpc = "open" /\ grpcStreamId = "Some" /\ toGrpc' = toGrpc \o sent
          /\ \/ /\ HasClosed(frames) /\ inbound' = <<>>
                /\ grpcStreamId' = "None" /\ grpc' = "halfClosed"
             \/ grpcStreamId' = "Some" /\ grpc' = "open"
       \/ /\ grpc \in {"failed", "closed", "aborted"} /\ grpcStreamId = "None"
          /\ UNCHANGED <<toGrpc, grpcStreamId, grpc>>
  <2>1. grpc \in {"open", "failed", "closed", "aborted"}
    BY <1>9 DEF TypeOK
  <2>2. CASE grpc = "open"
    BY <1>1, <1>4, <1>9, <2>2
  <2>3. CASE grpc # "open"
    BY <1>1, <1>9, <2>1, <2>3 DEF StreamLive
  <2> QED BY <2>2, <2>3
<1>11. TypeOK'
  <2>1. toGrpc' \in Seq(ForwardedFrame)
    <3>1. toGrpc \in Seq(ForwardedFrame)
      BY DEF TypeOK
    <3>2. toGrpc \o sent \in Seq(ForwardedFrame)
      BY <3>1
    <3> QED BY <1>10, <3>1, <3>2
  <2>2. toClient' \in Seq(ClientFrame)
    BY <1>7, <1>8
  <2>3. /\ grpcStreamId' \in {"None", "Some"}
        /\ grpc' \in {"none", "failed", "open", "halfClosed", "closed", "aborted"}
    BY <1>10
  <2> QED BY <1>1, <1>2, <2>1, <2>2, <2>3 DEF TypeOK
<1>12. UpgradeInv'
  BY <1>2 DEF UpgradeInv, Upgraded, NoRawBytesUpstream
<1>13. FramingInv'
  BY <1>1, <1>2 DEF FramingInv
<1>14. StreamInv'
  <2>1. grpc' \notin {"closed", "aborted"} => \A i \in 1..Len(after) : after[i].op # "close"
    <3>1. SUFFICES ASSUME grpc' \notin {"closed", "aborted"}, NEW i \in 1..Len(after)
                   PROVE  after[i].op # "close"
      OBVIOUS
    <3>2. grpc \notin {"closed", "aborted"}
      BY <1>10, <3>1
    <3>3. CASE i \in 1..Len(out)
      BY <1>6, <1>8, <3>2, <3>3 DEF StreamInv
    <3>4. CASE i \notin 1..Len(out)
      <4>1. i \in (Len(out) + 1)..Len(after)
        BY <1>8, <3>4
      <4> QED BY <1>8, <4>1
    <3> QED BY <3>3, <3>4
  <2>2. /\ grpc' # "none" /\ (grpc' = "open" => grpcStreamId' = "Some")
        /\ (grpc' \notin {"open", "halfClosed"} => grpcStreamId' = "None")
        /\ (grpc' = "halfClosed" => HasClosed(frames) /\ inbound' = <<>>)
    BY <1>10
  <2> QED BY <1>2, <1>7, <2>1, <2>2 DEF StreamInv, StreamLive
<1>15. ForwardFaithful'
  <2>1. Delivered \in 0..Len(frames)
    BY ArrivedType DEF TypeOK, Delivered
  <2>2. PICK data \in Seq(ForwardedFrame) : data = DataAmong(frames, Delivered)
    BY <2>1, ReferenceTypes DEF TypeOK
  <2>3. DataAmong(frames, Delivered') = data \o sent
    BY <1>1, <1>4, <2>2
  <2>4. data \o sent \in Seq(ForwardedFrame)
    OBVIOUS
  <2>5. CASE grpc = "open"
    <3>1. toGrpc = data
      BY <2>2, <2>5 DEF ForwardFaithful
    <3>2. toGrpc' = data \o sent /\ grpc' \in {"open", "halfClosed"}
      BY <1>10, <2>5, <3>1
    <3>3. IsPrefixOf(data \o sent, data \o sent)
      BY <2>4, PrefixSelf
    <3> QED BY <1>2, <2>3, <3>2, <3>3 DEF ForwardFaithful
  <2>6. CASE grpc # "open"
    <3>1. toGrpc' = toGrpc /\ grpc' = grpc /\ grpc \in {"failed", "closed", "aborted"}
      BY <1>10, <2>6
    <3>2. PICK t \in Seq(ForwardedFrame) : t = toGrpc
      BY DEF TypeOK
    <3>3. IsPrefixOf(t, data)
      BY <2>2, <3>2 DEF ForwardFaithful
    <3>4. IsPrefixOf(t, data \o sent)
      BY <3>3, PrefixGrows
    <3> QED BY <1>2, <2>3, <3>1, <3>2, <3>4 DEF ForwardFaithful
  <2> QED BY <2>5, <2>6
<1>16. ReplyFaithful'
  <2>1. Only(after, {"pong"}) = PongsFor(frames', Delivered')
    BY <1>1, <1>2, <1>5, <1>6, <1>8 DEF ReplyFaithful
  <2>2. Only(after, {"text", "binary"}) = FramesFor(messages')
    <3>1. Only(after, {"text", "binary"}) = Only(out, {"text", "binary"})
      BY <1>8
    <3> QED BY <1>2, <1>6, <3>1 DEF ReplyFaithful
  <2>3. Len(Only(after, {"close"})) = (IF grpc' \in {"closed", "aborted"} THEN 1 ELSE 0)
    <3>1. Only(after, {"close"}) = Only(out, {"close"})
      BY <1>8
    <3>2. grpc' \in {"closed", "aborted"} <=> grpc \in {"closed", "aborted"}
      BY <1>10
    <3> QED BY <1>6, <3>1, <3>2 DEF ReplyFaithful
  <2>4. ASSUME NEW i \in 1..Len(after), NEW j \in 1..Len(after), after[i].op = "close", j > i
        PROVE  after[j].op = "pong"
    <3>1. CASE j \in 1..Len(out)
      <4>1. i \in 1..Len(out)
        BY <2>4, <3>1
      <4> QED BY <1>6, <1>8, <2>4, <3>1, <4>1 DEF ReplyFaithful
    <3>2. CASE j \notin 1..Len(out)
      <4>1. j \in (Len(out) + 1)..Len(after)
        BY <1>8, <3>2
      <4> QED BY <1>8, <4>1
    <3> QED BY <3>1, <3>2
  <2> QED BY <1>7, <2>1, <2>2, <2>3, <2>4 DEF ReplyFaithful
<1> QED BY <1>11, <1>12, <1>13, <1>14, <1>15, <1>16

(* The 101: from now on the bytes are frames, and none has come yet. *)
LEMMA SwitchingKeeps ==
    ASSUME IInv, NEW opened \in BOOLEAN, Switching(opened)
    PROVE  IInv'
<1> USE DEF IInv
<1>1. /\ state = "AwaitingUpgradeResponse" /\ upstream \in {"asked", "otherwise"}
      /\ upstream' = "switched" /\ state' = "Active"
      /\ \/ opened /\ grpc' = "open" /\ grpcStreamId' = "Some"
         \/ ~opened /\ grpc' = "failed" /\ grpcStreamId' = grpcStreamId
      /\ UNCHANGED <<frames, inbound, downstreamBuf, metadataSeen, messages, leaked, toGrpc,
                     toClient>>
  BY DEF Switching, MaySwitch, clientVars, outVars
<1>2. grpc = "none" /\ grpcStreamId = "None" /\ toGrpc = <<>> /\ toClient = <<>>
  BY <1>1, NothingSentYet
<1>3. inbound = <<>> /\ downstreamBuf = <<>> /\ frames = <<>> /\ ~leaked
  BY <1>1 DEF UpgradeInv, Upgraded, NoRawBytesUpstream
<1>4. Delivered = 0 /\ Delivered' = 0
  <2>1. frames \in Seq(Frame) /\ inbound \in Seq(Unit) /\ Len(frames) = 0
    BY <1>3 DEF TypeOK
  <2>2. Delivered \in 0..Len(frames)
    BY <2>1, ArrivedType DEF Delivered
  <2>3. Delivered' = Delivered
    BY <1>1 DEF Delivered
  <2> QED BY <2>1, <2>2, <2>3
<1>5. TypeOK'
  BY <1>1 DEF TypeOK
<1>6. UpgradeInv'
  BY <1>1, <1>3 DEF UpgradeInv, Upgraded, NoRawBytesUpstream
<1>7. FramingInv'
  <2>1. CloseIsLast(frames) /\ Ending(frames, inbound)
    BY <1>1 DEF FramingInv
  <2>2. Len(downstreamBuf) < UnitsPerItem /\ Between(frames, 0, downstreamBuf, inbound)
    BY <1>3 DEF Between, Aligned, UnitsPerItem
  <2> QED BY <1>1, <1>4, <2>1, <2>2 DEF FramingInv
<1>8. StreamInv'
  BY <1>1, <1>2 DEF StreamInv, StreamLive
<1>9. ForwardFaithful'
  <2>1. DataAmong(frames', Delivered') = <<>> /\ toGrpc' = <<>>
    BY <1>1, <1>2, <1>4, ReferencesEmpty
  <2>2. <<>> \in Seq(ForwardedFrame)
    OBVIOUS
  <2>3. IsPrefixOf(<<>>, <<>>)
    BY <2>2, PrefixSelf
  <2> QED BY <2>1, <2>3 DEF ForwardFaithful
<1>10. ReplyFaithful'
  <2>1. PongsFor(frames', Delivered') = <<>> /\ Only(toClient', {"pong"}) = <<>>
    BY <1>1, <1>2, <1>4, ReferencesEmpty
  <2>2. /\ Only(toClient', {"text", "binary"}) = FramesFor(messages')
        /\ Len(Only(toClient', {"close"})) = 0
    BY <1>1, <1>2 DEF ReplyFaithful
  <2> QED BY <1>1, <1>2, <2>1, <2>2 DEF ReplyFaithful
<1> QED BY <1>5, <1>6, <1>7, <1>8, <1>9, <1>10

(* An answer the filter does not see, or one that is no 101. *)
LEMMA OtherAnswerKeeps ==
    ASSUME IInv, SwitchingInPieces \/ OtherResponse
    PROVE  IInv'
<1> USE DEF IInv
<1>1. /\ state = "AwaitingUpgradeResponse"
      /\ upstream \in {"asked", "otherwise", "switching"}
      /\ upstream' \in {"switching", "switchedInPieces", "otherwise"}
      /\ UNCHANGED <<frames, inbound, state, downstreamBuf, grpcStreamId, grpc, metadataSeen,
                     messages, leaked, toGrpc, toClient>>
  BY DEF SwitchingInPieces, MaySwitch, OtherResponse, clientVars, filterVars, serverVars, outVars
<1>2. Delivered' = Delivered
  BY <1>1 DEF Delivered
<1>3. TypeOK'
  BY <1>1 DEF TypeOK
<1>4. UpgradeInv'
  BY <1>1 DEF UpgradeInv, Upgraded, NoRawBytesUpstream
<1>5. FramingInv'
  BY <1>1, <1>2 DEF FramingInv
<1>6. StreamInv'
  BY <1>1 DEF StreamInv, StreamLive
<1>7. ForwardFaithful' /\ ReplyFaithful'
  BY <1>1, <1>2 DEF ForwardFaithful, ReplyFaithful
<1> QED BY <1>3, <1>4, <1>5, <1>6, <1>7

-----------------------------------------------------------------------------
(* The gRPC callbacks. *)

(* Metadata stores the id of a stream that is live. *)
LEMMA MetadataKeeps ==
    ASSUME IInv, OnGrpcInitialMetadata
    PROVE  IInv'
<1> USE DEF IInv
<1>1. /\ StreamLive /\ metadataSeen' = TRUE /\ grpcStreamId' = "Some"
      /\ UNCHANGED <<frames, inbound, state, downstreamBuf, upstream, grpc, messages,
                     leaked, toGrpc, toClient>>
  BY DEF OnGrpcInitialMetadata, clientVars, outVars
<1>2. Delivered' = Delivered
  BY <1>1 DEF Delivered
<1>3. TypeOK'
  BY <1>1 DEF TypeOK
<1>4. UpgradeInv'
  BY <1>1 DEF UpgradeInv, Upgraded, NoRawBytesUpstream
<1>5. FramingInv'
  BY <1>1, <1>2 DEF FramingInv
<1>6. StreamInv'
  BY <1>1 DEF StreamInv, StreamLive
<1>7. ForwardFaithful' /\ ReplyFaithful'
  BY <1>1, <1>2 DEF ForwardFaithful, ReplyFaithful
<1> QED BY <1>3, <1>4, <1>5, <1>6, <1>7

(* A message of the server, of which the client is sent a frame. *)
LEMMA MessageKeeps ==
    ASSUME IInv, NEW binary \in BOOLEAN, NEW ok \in BOOLEAN, OnGrpcMessage(binary, ok)
    PROVE  IInv'
<1> USE DEF IInv
<1>1. PICK x \in Message : x = [binary |-> binary, ok |-> ok]
  <2>1. [binary |-> binary, ok |-> ok] \in Message
    BY DEF Message
  <2> QED BY <2>1
<1>2. /\ StreamLive /\ messages' = Append(messages, x)
      /\ toClient' = IF x.ok THEN Append(toClient, WsFrame(x.binary, Len(messages) + 1))
                             ELSE toClient
      /\ UNCHANGED <<frames, inbound, state, downstreamBuf, grpcStreamId, upstream, grpc,
                     metadataSeen, leaked, toGrpc>>
  <2>1. x.ok = ok /\ x.binary = binary
    BY <1>1
  <2> QED BY <1>1, <2>1 DEF OnGrpcMessage, clientVars, filterVars
<1>3. PICK ms \in Seq(Message), out \in Seq(ClientFrame) : ms = messages /\ out = toClient
  BY DEF TypeOK
<1>4. PICK c \in ClientFrame : c = WsFrame(x.binary, Len(ms) + 1)
  <2>1. WsFrame(x.binary, Len(ms) + 1) \in ClientFrame
    BY DEF WsFrame, ClientFrame
  <2> QED BY <2>1
<1>5. c.op \in {"text", "binary"}
  BY <1>4 DEF WsFrame
<1>6. PICK more : more = Append(ms, x)
  OBVIOUS
<1>7. /\ more \in Seq(Message)
      /\ FramesFor(more) = IF x.ok THEN Append(FramesFor(ms), c) ELSE FramesFor(ms)
  <2>1. Append(ms, x) \in Seq(Message)
    OBVIOUS
  <2>2. FramesFor(Append(ms, x)) =
          IF x.ok THEN Append(FramesFor(ms), WsFrame(x.binary, Len(ms) + 1)) ELSE FramesFor(ms)
    BY FramesForAppend
  <2> QED BY <1>4, <1>6, <2>1, <2>2, Zenon
<1>8. PICK after : after = Append(out, c)
  OBVIOUS
<1>9. /\ after \in Seq(ClientFrame) /\ Len(after) = Len(out) + 1 /\ after[Len(out) + 1] = c
      /\ \A i \in 1..Len(out) : after[i] = out[i]
      /\ \A ops : Only(after, ops) = IF c.op \in ops THEN Append(Only(out, ops), c)
                                                   ELSE Only(out, ops)
  <2>1. /\ after \in Seq(ClientFrame) /\ Len(after) = Len(out) + 1 /\ after[Len(out) + 1] = c
        /\ \A i \in 1..Len(out) : after[i] = out[i]
    BY <1>8
  <2>2. \A ops : Only(Append(out, c), ops) =
           IF c.op \in ops THEN Append(Only(out, ops), c) ELSE Only(out, ops)
    BY OnlyAppend
  <2> QED BY <1>8, <2>1, <2>2
<1>10. messages' = more /\ toClient' = IF x.ok THEN after ELSE out
  BY <1>2, <1>3, <1>4, <1>6, <1>8
<1>11. Delivered' = Delivered /\ state = "Active" /\ grpc \in {"open", "halfClosed"}
  BY <1>2 DEF Delivered, StreamInv, StreamLive
<1>12. TypeOK'
  <2>1. toClient' \in Seq(ClientFrame)
    BY <1>9, <1>10
  <2> QED BY <1>2, <1>7, <1>10, <2>1 DEF TypeOK
<1>13. UpgradeInv' /\ FramingInv'
  BY <1>2, <1>11 DEF UpgradeInv, Upgraded, NoRawBytesUpstream, FramingInv
<1>14. \A i \in 1..Len(toClient') : toClient'[i].op # "close"
  <2>1. \A i \in 1..Len(out) : out[i].op # "close"
    BY <1>3, <1>11 DEF StreamInv
  <2>2. ASSUME NEW i \in 1..Len(after) PROVE after[i].op # "close"
    BY <1>5, <1>9, <2>1
  <2> QED BY <1>10, <2>1, <2>2
<1>15. StreamInv'
  BY <1>2, <1>11, <1>14 DEF StreamInv, StreamLive
<1>16. ForwardFaithful'
  BY <1>2, <1>11 DEF ForwardFaithful
<1>17. ReplyFaithful'
  <2>1. /\ Only(out, {"pong"}) = PongsFor(frames, Delivered)
        /\ Only(out, {"text", "binary"}) = FramesFor(ms)
        /\ Len(Only(out, {"close"})) = 0
    BY <1>3, <1>11 DEF ReplyFaithful
  <2>2. /\ Only(after, {"pong"}) = Only(out, {"pong"})
        /\ Only(after, {"text", "binary"}) = Append(Only(out, {"text", "binary"}), c)
        /\ Only(after, {"close"}) = Only(out, {"close"})
    BY <1>5, <1>9
  <2>3. CASE x.ok
    <3>1. toClient' = after /\ FramesFor(messages') = Append(FramesFor(ms), c)
      BY <1>7, <1>10, <2>3
    <3> QED BY <1>2, <1>11, <1>14, <2>1, <2>2, <3>1 DEF ReplyFaithful
  <2>4. CASE ~x.ok
    <3>1. toClient' = out /\ FramesFor(messages') = FramesFor(ms)
      BY <1>7, <1>10, <2>4
    <3> QED BY <1>2, <1>11, <1>14, <2>1, <3>1 DEF ReplyFaithful
  <2> QED BY <2>3, <2>4
<1> QED BY <1>12, <1>13, <1>15, <1>16, <1>17

(* The end of the stream, of which the client is sent a Close. *)
LEMMA CloseKeeps ==
    ASSUME IInv, NEW status \in {0, 1}, OnGrpcClose(status)
    PROVE  IInv'
<1> USE DEF IInv
<1>1. PICK c \in ClientFrame : c = [op |-> "close", ref |-> CloseCode(status)]
  <2>1. [op |-> "close", ref |-> CloseCode(status)] \in ClientFrame
    BY DEF CloseCode, ClientFrame
  <2> QED BY <2>1
<1>2. /\ StreamLive /\ grpc' \in {"closed", "aborted"} /\ grpcStreamId' = "None"
      /\ toClient' = Append(toClient, c)
      /\ UNCHANGED <<frames, inbound, state, downstreamBuf, upstream, metadataSeen, messages,
                     leaked, toGrpc>>
  BY <1>1 DEF OnGrpcClose, clientVars
<1>3. PICK out \in Seq(ClientFrame) : out = toClient
  BY DEF TypeOK
<1>4. PICK after : after = Append(out, c)
  OBVIOUS
<1>14. after = toClient'
  BY <1>2, <1>3, <1>4
<1>5. /\ after \in Seq(ClientFrame) /\ Len(after) = Len(out) + 1
      /\ \A i \in 1..Len(out) : after[i] = out[i]
  BY <1>4
<1>6. \A ops : Only(after, ops) = IF c.op \in ops THEN Append(Only(out, ops), c)
                                              ELSE Only(out, ops)
  <2>1. \A ops : Only(Append(out, c), ops) =
           IF c.op \in ops THEN Append(Only(out, ops), c) ELSE Only(out, ops)
    BY OnlyAppend
  <2> QED BY <1>4, <2>1
<1>7. /\ Only(after, {"pong"}) = Only(out, {"pong"})
      /\ Only(after, {"text", "binary"}) = Only(out, {"text", "binary"})
      /\ Only(after, {"close"}) = Append(Only(out, {"close"}), c)
  <2>1. c.op = "close"
    BY <1>1
  <2> QED BY <1>6, <2>1
<1>8. Delivered' = Delivered /\ state = "Active" /\ grpc \in {"open", "halfClosed"}
  BY <1>2 DEF Delivered, StreamInv, StreamLive
<1>9. TypeOK'
  BY <1>2, <1>5, <1>14 DEF TypeOK
<1>10. UpgradeInv' /\ FramingInv'
  BY <1>2, <1>8 DEF UpgradeInv, Upgraded, NoRawBytesUpstream, FramingInv
<1>11. StreamInv'
  BY <1>2, <1>8 DEF StreamInv, StreamLive
<1>12. ForwardFaithful'
  BY <1>2, <1>8 DEF ForwardFaithful
<1>13. ReplyFaithful'
  <2>1. \A i \in 1..Len(out) : out[i].op # "close"
    BY <1>3, <1>8 DEF StreamInv
  <2>2. \A i, j \in 1..Len(after) : after[i].op = "close" /\ j > i => after[j].op = "pong"
    BY <1>5, <2>1
  <2>3. Len(Only(after, {"close"})) = 1
    <3>1. PICK k \in Seq(ClientFrame) : k = Only(out, {"close"})
      BY OnlyAppend
    <3>2. Len(k) = 0
      BY <1>3, <1>8, <3>1 DEF ReplyFaithful
    <3> QED BY <1>7, <3>1, <3>2
  <2> QED BY <1>2, <1>3, <1>7, <1>8, <1>14, <2>2, <2>3 DEF ReplyFaithful
<1> QED BY <1>9, <1>10, <1>11, <1>12, <1>13

-----------------------------------------------------------------------------
(* The theorems. *)

(* Every callback of the host keeps the invariant. *)
LEMMA IInvStep == IInv /\ [Next]_vars => IInv'
<1> SUFFICES ASSUME IInv, [Next]_vars PROVE IInv'
  OBVIOUS
<1>1. CASE UNCHANGED vars
  <2>1. UNCHANGED <<frames, inbound, state, downstreamBuf, grpcStreamId, upstream, leaked,
                    grpc, metadataSeen, toGrpc, messages, toClient>>
    BY <1>1 DEF vars
  <2>2. TypeOK' /\ UpgradeInv' /\ StreamInv'
    BY <2>1 DEF IInv, TypeOK, UpgradeInv, Upgraded, NoRawBytesUpstream, StreamInv, StreamLive
  <2>3. FramingInv' /\ ForwardFaithful' /\ ReplyFaithful'
    BY <2>1 DEF IInv, FramingInv, ForwardFaithful, ReplyFaithful, Delivered
  <2> QED BY <2>2, <2>3 DEF IInv
<1> QED BY <1>1, ClientSendKeeps, UpgradeRequestKeeps, PassedThroughKeeps, ActiveDataKeeps,
           SwitchingKeeps, OtherAnswerKeeps, MetadataKeeps, MessageKeeps, CloseKeeps, Zenon
        DEF Next

(* The invariant holds in every reachable state. *)
THEOREM Invariant == Spec => []IInv
BY IInvInit, IInvStep, PTL DEF Spec

(* Every variable has its type in every reachable state. *)
THEOREM TypeCorrect == Spec => []TypeOK
<1>1. IInv => TypeOK
  BY DEF IInv
<1> QED BY <1>1, Invariant, PTL

(* However TCP cuts the upgrade request and the answer, no WebSocket byte  *)
(* of the client goes on to the upstream unless the 101 came in pieces.    *)
THEOREM RawBytesStay == Spec => []NoRawBytesUpstream
<1>1. IInv => NoRawBytesUpstream
  BY DEF IInv, UpgradeInv
<1> QED BY <1>1, Invariant, PTL

(* However TCP cuts the frames and the callbacks interleave, what is sent  *)
(* on the gRPC stream is the data frames that arrived, in order.           *)
THEOREM FramesReachServer == Spec => []ForwardFaithful
<1>1. IInv => ForwardFaithful
  BY DEF IInv
<1> QED BY <1>1, Invariant, PTL

(* The client is sent a pong for each ping, a frame for each message and   *)
(* one Close for the stream's end, in order.                               *)
THEOREM RepliesReachClient == Spec => []ReplyFaithful
<1>1. IInv => ReplyFaithful
  BY DEF IInv
<1> QED BY <1>1, Invariant, PTL

(* Late metadata stores the id of a half-closed stream again, and yet      *)
(* nothing more is sent on it.                                             *)
THEOREM SendsWhileOpen == Spec => SendOnlyWhileOpen
<1>1. IInv /\ [Next]_vars => [toGrpc' # toGrpc => grpc = "open"]_vars
  <2> SUFFICES ASSUME IInv, [Next]_vars, toGrpc' # toGrpc PROVE grpc = "open"
    OBVIOUS
  <2> USE DEF clientVars, filterVars, serverVars, outVars
  <2>1. PICK n \in 1..Len(inbound) : ActiveData(n)
    <3>1. CASE UNCHANGED vars
      BY <3>1 DEF vars
    <3>2. CASE Next
      BY <3>2 DEF Next, ClientSend, UpgradeRequestData, PassedThrough, Switching,
         SwitchingInPieces, OtherResponse, OnGrpcInitialMetadata, OnGrpcMessage, OnGrpcClose
    <3> QED BY <3>1, <3>2
  <2>2. grpcStreamId = "Some" /\ inbound # <<>>
    BY <2>1 DEF ActiveData, IInv, TypeOK
  <2> QED BY <2>2 DEF IInv, StreamInv, StreamLive
<1> QED BY <1>1, Invariant, PTL DEF Spec, SendOnlyWhileOpen

=============================================================================
