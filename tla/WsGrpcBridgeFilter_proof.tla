----------------------- MODULE WsGrpcBridgeFilter_proof -----------------------
(* Theorems about WsGrpcBridgeFilter, for any number of frames and messages:*)
(* what the server and the client are sent, whenever the stream becomes    *)
(* ready, and that the filter's state, its stream pointer and the stream   *)
(* go together.                                                            *)
EXTENDS WsGrpcBridgeFilter, WsFraming_proof

(* The two halves of the type invariant: what is a sequence, and what is *)
(* one of a few values.                                                  *)
SequencesTyped ==
    /\ frames \in Seq(Frame) /\ inbound \in Seq(Unit)
    /\ pending \in Seq(Unit) /\ remainder \in Seq(Unit)
    /\ toGrpc \in Seq(ForwardedFrame) /\ messages \in Seq(Message)
    /\ toClient \in Seq(ClientFrame)

StatesTyped ==
    /\ clientEnd \in {"no", "sent", "seen"} /\ request \in {"new", "held", "passed"}
    /\ state \in {"Passthrough", "Connecting", "Active", "Closing", "Closed"}
    /\ grpcStream \in {"null", "set"}
    /\ grpc \in {"none", "failed", "open", "halfClosed", "closed", "reset"}
    /\ metadataSeen \in BOOLEAN /\ destroyed \in BOOLEAN
    /\ reply \in {"none", "503", "reset", "reset, 503"}

-----------------------------------------------------------------------------
(* The inductive invariant, action by action. *)

(* A new filter has no stream and has seen no byte. *)
LEMMA IInvInit == Init => IInv
<1> SUFFICES ASSUME Init PROVE IInv
  OBVIOUS
<1> USE DEF Init
<1>1. \A S : <<>> \in Seq(S)
  OBVIOUS
<1>2. TypeOK
  BY <1>1 DEF TypeOK
<1>3. Len(frames) = 0 /\ Len(inbound) = 0
  OBVIOUS
<1>4. FramingInv
  <2>1. CloseIsLast(frames) /\ Ending(frames, inbound) /\ Between(frames, 0, pending, inbound)
    BY <1>3 DEF CloseIsLast, Ending, Between, Aligned, UnitsPerItem
  <2> QED BY <2>1 DEF FramingInv
<1>5. StreamInv
  BY DEF StreamInv, StreamLive
<1>6. ForwardFaithful
  <2>1. IsPrefixOf(toGrpc, DataAmong(frames, Delivered))
    BY <1>1, SendingNothing DEF Delivered
  <2> QED BY <2>1 DEF ForwardFaithful
<1>7. ReplyFaithful
  BY ReferencesEmpty DEF ReplyFaithful
<1> QED BY <1>2, <1>4, <1>5, <1>6, <1>7 DEF IInv

(* The client sends a frame: it waits behind what is on its way. *)
LEMMA ClientSendKeeps ==
    ASSUME IInv, NEW f \in Frame, ClientSend(f)
    PROVE  IInv'
<1> USE DEF IInv
<1>1. /\ clientEnd = "no" /\ MaySend(frames, f)
      /\ frames' = Append(frames, f) /\ inbound' = inbound \o UnitsOf(Len(frames) + 1)
      /\ UNCHANGED <<clientEnd, request, state, pending, remainder, grpcStream, grpc,
                     metadataSeen, messages, toGrpc, toClient, reply, destroyed>>
  BY DEF ClientSend, filterVars, serverVars, outVars
<1>2. frames \in Seq(Frame) /\ inbound \in Seq(Unit)
  BY DEF TypeOK
<1>3. CloseIsLast(frames) /\ Ending(frames, inbound)
  BY DEF FramingInv
<1>4. /\ frames' \in Seq(Frame) /\ CloseIsLast(frames')
      /\ inbound' \in Seq(Unit) /\ Ending(frames', inbound')
      /\ Arrived(frames', inbound') = Arrived(frames, inbound)
      /\ \A n \in Nat, buf \in Seq(Unit) :
           Between(frames, n, buf, inbound) => Between(frames', n, buf, inbound')
  <2>1. PICK fs \in Seq(Frame), units \in Seq(Unit) : fs = frames /\ units = inbound
    BY <1>2
  <2>2. PICK gs, more : gs = Append(fs, f) /\ more = units \o UnitsOf(Len(fs) + 1)
    OBVIOUS
  <2>3. /\ gs = frames' /\ more = inbound'
        /\ MaySend(fs, f) /\ CloseIsLast(fs) /\ Ending(fs, units)
    BY <1>1, <1>3, <2>1, <2>2
  <2>4. /\ gs \in Seq(Frame) /\ CloseIsLast(gs)
        /\ more \in Seq(Unit) /\ Ending(gs, more)
        /\ Arrived(gs, more) = Arrived(fs, units)
        /\ \A n \in Nat, buf \in Seq(Unit) :
             Between(fs, n, buf, units) => Between(gs, n, buf, more)
    BY <2>2, <2>3, SendFollows, Zenon
  <2> QED BY <2>1, <2>3, <2>4, Zenon
<1>5. Delivered' = Delivered
  BY <1>4 DEF Delivered
<1>6. Delivered \in 0..Len(frames)
  BY <1>2, ArrivedType DEF Delivered
<1>7. /\ DataAmong(frames', Delivered') = DataAmong(frames, Delivered)
      /\ PongsFor(frames', Delivered') = PongsFor(frames, Delivered)
  BY <1>1, <1>2, <1>5, <1>6, ReferencesKept
<1>8. TypeOK'
  <2>1. SequencesTyped'
    BY <1>1, <1>4 DEF TypeOK, SequencesTyped
  <2>2. StatesTyped'
    BY <1>1, <1>4 DEF TypeOK, StatesTyped
  <2> QED BY <2>1, <2>2, Zenon DEF TypeOK, SequencesTyped, StatesTyped
<1>9. FramingInv'
  <2>1. pending \in Seq(Unit) /\ remainder \in Seq(Unit) /\ 0 \in Nat /\ Delivered \in Nat
    <3>1. Len(frames) \in Nat
      BY <1>2
    <3>2. Delivered \in Nat
      BY <1>6, <3>1
    <3> QED BY <3>2 DEF TypeOK
  <2>2. request = "new" \/ state = "Connecting" =>
          remainder = <<>> /\ Between(frames', 0, pending, inbound')
    BY <1>4, <2>1 DEF FramingInv
  <2>3. state = "Active" =>
          Len(remainder) < UnitsPerItem /\ Between(frames', Delivered, remainder, inbound')
    BY <1>4, <2>1 DEF FramingInv
  <2>4. state # "Closing"
    BY <1>1 DEF FramingInv, MaySend
  <2> QED BY <1>1, <1>4, <1>5, <2>2, <2>3, <2>4 DEF FramingInv
<1>10. StreamInv'
  BY <1>1 DEF StreamInv, StreamLive
<1>11. ForwardFaithful'
  BY <1>1, <1>7 DEF ForwardFaithful
<1>12. ReplyFaithful'
  BY <1>1, <1>7 DEF ReplyFaithful
<1> QED BY <1>8, <1>9, <1>10, <1>11, <1>12

(* The client's end_stream is on its way. *)
LEMMA ClientEndsKeeps ==
    ASSUME IInv, ClientEnds
    PROVE  IInv'
<1> USE DEF IInv
<1>1. /\ clientEnd = "no" /\ clientEnd' = "sent"
      /\ UNCHANGED <<frames, inbound, request, state, pending, remainder, grpcStream, grpc,
                     metadataSeen, messages, toGrpc, toClient, reply, destroyed>>
  BY DEF ClientEnds, filterVars, serverVars, outVars
<1>2. Delivered' = Delivered
  BY <1>1 DEF Delivered
<1>3. TypeOK' /\ FramingInv' /\ StreamInv'
  <2>1. SequencesTyped'
    BY <1>1 DEF TypeOK, SequencesTyped
  <2>2. StatesTyped'
    BY <1>1 DEF TypeOK, StatesTyped
  <2>3. TypeOK'
    BY <2>1, <2>2, Zenon DEF TypeOK, SequencesTyped, StatesTyped
  <2>4. FramingInv'
    BY <1>1, <1>2 DEF FramingInv
  <2>5. StreamInv'
    BY <1>1 DEF StreamInv, StreamLive
  <2> QED BY <2>3, <2>4, <2>5, Zenon
<1>4. ForwardFaithful' /\ ReplyFaithful'
  BY <1>1, <1>2 DEF ForwardFaithful, ReplyFaithful
<1> QED BY <1>3, <1>4

(* The request: it passes, or opens the stream, or finds none to open. *)
LEMMA RequestKeeps ==
    ASSUME IInv, PlainRequest \/ UpgradeRequest
    PROVE  IInv'
<1> USE DEF IInv
<1>1. /\ request = "new" /\ ~destroyed
      /\ \/ request' = "passed" /\ UNCHANGED <<state, grpcStream, grpc>>
         \/ request' = "held" /\ state' = "Connecting" /\ grpcStream' = "set" /\ grpc' = "open"
      /\ UNCHANGED <<frames, inbound, clientEnd, pending, remainder, metadataSeen, messages,
                     toGrpc, toClient, reply, destroyed>>
  BY DEF PlainRequest, UpgradeRequest, clientVars, serverVars, outVars
<1>2. /\ state = "Passthrough" /\ toGrpc = <<>> /\ toClient = <<>> /\ ~metadataSeen
      /\ grpcStream = "null" /\ grpc = "none"
  BY <1>1 DEF StreamInv
<1>3. Delivered' = Delivered
  BY <1>1 DEF Delivered
<1>4. TypeOK'
  <2>1. SequencesTyped'
    BY <1>1 DEF TypeOK, SequencesTyped
  <2>2. StatesTyped'
    BY <1>1 DEF TypeOK, StatesTyped
  <2> QED BY <2>1, <2>2, Zenon DEF TypeOK, SequencesTyped, StatesTyped
<1>5. FramingInv'
  BY <1>1, <1>2 DEF FramingInv
<1>6. StreamInv'
  BY <1>1, <1>2 DEF StreamInv, StreamLive
<1>7. ForwardFaithful' /\ ReplyFaithful'
  BY <1>1, <1>2, <1>3 DEF ForwardFaithful, ReplyFaithful
<1> QED BY <1>4, <1>5, <1>6, <1>7

(* What a Close at the end of what the client was sent changes. *)
LEMMA CloseAppended ==
    ASSUME NEW out \in Seq(ClientFrame), \A i \in 1..Len(out) : out[i].op # "close"
    PROVE  LET after == Append(out, CloseFrame)
           IN  /\ after \in Seq(ClientFrame)
               /\ Only(after, {"text", "binary"}) = Only(out, {"text", "binary"})
               /\ \A i \in 1..Len(after) : after[i].op = "close" => i = Len(after)
<1>1. PICK c \in ClientFrame : c = CloseFrame /\ c.op = "close"
  <2>1. CloseFrame \in ClientFrame /\ CloseFrame.op = "close"
    BY DEF CloseFrame, ClientFrame
  <2> QED BY <2>1
<1>2. Append(out, c) \in Seq(ClientFrame)
  OBVIOUS
<1>3. PICK after : after = Append(out, c)
  OBVIOUS
<1>4. /\ after \in Seq(ClientFrame) /\ Len(after) = Len(out) + 1
      /\ \A i \in 1..Len(out) : after[i] = out[i]
  BY <1>3
<1>5. Only(after, {"text", "binary"}) = Only(out, {"text", "binary"})
  <2>1. Only(Append(out, c), {"text", "binary"}) = Only(out, {"text", "binary"})
    BY <1>1, OnlyAppend
  <2> QED BY <1>3, <2>1
<1>6. \A i \in 1..Len(after) : after[i].op = "close" => i = Len(after)
  BY <1>4
<1> QED BY <1>1, <1>3, <1>4, <1>5, <1>6, Zenon

(* The stream does not open. *)
LEMMA UpgradeFailsKeeps ==
    ASSUME IInv, NEW inline \in BOOLEAN, UpgradeFails(inline)
    PROVE  IInv'
<1> USE DEF IInv
<1>1. /\ request = "new" /\ ~destroyed /\ request' = "held" /\ state' = "Closed"
      /\ grpc' = "failed" /\ reply' \in {"503", "reset, 503"}
      /\ toClient' = (IF inline THEN Append(toClient, CloseFrame) ELSE toClient)
      /\ UNCHANGED <<frames, inbound, clientEnd, pending, remainder, grpcStream,
                     metadataSeen, messages, toGrpc, destroyed>>
  BY DEF UpgradeFails, clientVars
<1>2. toGrpc = <<>> /\ toClient = <<>> /\ grpcStream = "null"
  BY <1>1 DEF StreamInv
<1>3. Delivered' = Delivered
  BY <1>1 DEF Delivered
<1>4. /\ toClient' \in Seq(ClientFrame)
      /\ Only(toClient', {"text", "binary"}) = Only(toClient, {"text", "binary"})
      /\ \A i \in 1..Len(toClient') : toClient'[i].op = "close" => i = Len(toClient')
  <2>1. PICK out \in Seq(ClientFrame) : out = toClient
    BY DEF TypeOK
  <2>2. Len(out) = 0
    BY <1>2, <2>1
  <2>3. PICK after : after = Append(out, CloseFrame)
    OBVIOUS
  <2>4. \A i \in 1..Len(out) : out[i].op # "close"
    BY <2>2
  <2>5. /\ after \in Seq(ClientFrame)
        /\ Only(after, {"text", "binary"}) = Only(out, {"text", "binary"})
        /\ \A i \in 1..Len(after) : after[i].op = "close" => i = Len(after)
    BY <2>3, <2>4, CloseAppended, Zenon
  <2>6. toClient' = after \/ toClient' = out
    BY <1>1, <2>1, <2>3
  <2> QED BY <2>1, <2>4, <2>5, <2>6
<1>5. TypeOK'
  <2>1. SequencesTyped'
    BY <1>1, <1>4 DEF TypeOK, SequencesTyped
  <2>2. StatesTyped'
    BY <1>1, <1>4 DEF TypeOK, StatesTyped
  <2> QED BY <2>1, <2>2, Zenon DEF TypeOK, SequencesTyped, StatesTyped
<1>6. FramingInv'
  BY <1>1 DEF FramingInv
<1>7. StreamInv'
  BY <1>1, <1>2 DEF StreamInv, StreamLive
<1>8. ForwardFaithful' /\ ReplyFaithful'
  BY <1>1, <1>3, <1>4 DEF ForwardFaithful, ReplyFaithful
<1> QED BY <1>5, <1>6, <1>7, <1>8

-----------------------------------------------------------------------------
(* Data of the client. *)

(* Whatever the filter does with a chunk, the rest of the stream is still  *)
(* on its way, and what was sent of it before is still right.              *)
LEMMA TakenLeaves ==
    ASSUME IInv, NEW n \in 0..Len(inbound), Taken(n), frames' = frames
    PROVE  /\ inbound' \in Seq(Unit) /\ Ending(frames', inbound')
           /\ clientEnd' \in {"no", "sent", "seen"}
           /\ clientEnd' = "seen" => inbound' = <<>>
           /\ clientEnd' = clientEnd \/ (clientEnd' = "seen" /\ inbound' = <<>>)
           /\ IsPrefixOf(toGrpc, DataAmong(frames', Delivered'))
<1> USE DEF IInv
<1>1. PICK units \in Seq(Unit), fs \in Seq(Frame), sent \in Seq(ForwardedFrame) :
        units = inbound /\ fs = frames /\ sent = toGrpc
  BY DEF TypeOK
<1>2. PICK more : more = SubSeq(units, n + 1, Len(units))
  OBVIOUS
<1>3. Ending(fs, units) /\ n \in 0..Len(units)
  BY <1>1 DEF FramingInv
<1>4. /\ more \in Seq(Unit) /\ Ending(fs, more)
      /\ Arrived(fs, units) <= Arrived(fs, more)
  BY <1>2, <1>3, MoreTaken, Zenon
<1>5. frames' = fs /\ inbound' = more
  BY <1>1, <1>2 DEF Taken
<1>6. /\ clientEnd' \in {"no", "sent", "seen"}
      /\ clientEnd' = "seen" => inbound' = <<>>
      /\ clientEnd' = clientEnd \/ (clientEnd' = "seen" /\ inbound' = <<>>)
  <2>1. CASE Ends(n)
    <3>1. more = <<>>
      BY <1>1, <1>2, <2>1, SubSeqEmpty DEF Ends
    <3> QED BY <1>5, <2>1, <3>1 DEF Taken
  <2>2. CASE ~Ends(n)
    <3>1. clientEnd' = clientEnd
      BY <2>2 DEF Taken
    <3>2. inbound = <<>> => inbound' = <<>>
      <4>1. ASSUME units = <<>> PROVE more = <<>>
        <5>1. Len(units) = 0 /\ n = 0
          BY <1>3, <4>1
        <5> QED BY <1>2, <5>1, SubSeqEmpty
      <4> QED BY <1>1, <1>5, <4>1
    <3> QED BY <3>1, <3>2 DEF TypeOK, FramingInv
  <2> QED BY <2>1, <2>2
<1>7. IsPrefixOf(sent, DataAmong(fs, Arrived(fs, more)))
  <2>1. PICK L \in Nat : L = Len(fs)
    OBVIOUS
  <2>2. PICK m \in Nat, l \in Nat : m = Arrived(fs, units) /\ l = Arrived(fs, more) /\ l <= L
    <3>1. Arrived(fs, units) \in 0..L /\ Arrived(fs, more) \in 0..L
      BY <1>4, <2>1, ArrivedType
    <3> QED BY <3>1
  <2>3. l \in m..Len(fs)
    BY <1>4, <2>1, <2>2
  <2>4. IsPrefixOf(sent, DataAmong(fs, m))
    BY <1>1, <2>2 DEF ForwardFaithful, Delivered
  <2> QED BY <2>2, <2>3, <2>4, PrefixDelivered
<1> QED BY <1>1, <1>4, <1>5, <1>6, <1>7 DEF Delivered

(* The filter is out of the way, or the client has said its last. *)
LEMMA IgnoredKeeps ==
    ASSUME IInv, NEW n \in 0..Len(inbound), DecodeDataIgnored(n)
    PROVE  IInv'
<1> USE DEF IInv
<1>1. /\ state \in {"Passthrough", "Closing", "Closed"} /\ Taken(n) /\ request # "new"
      /\ UNCHANGED <<frames, request, state, pending, remainder, grpcStream, grpc,
                     metadataSeen, messages, toGrpc, toClient, reply, destroyed>>
  BY DEF DecodeDataIgnored, Taken, filterVars, serverVars, outVars
<1>2. /\ inbound' \in Seq(Unit) /\ Ending(frames', inbound')
      /\ clientEnd' \in {"no", "sent", "seen"}
      /\ clientEnd' = "seen" => inbound' = <<>>
      /\ clientEnd' = clientEnd \/ (clientEnd' = "seen" /\ inbound' = <<>>)
      /\ IsPrefixOf(toGrpc, DataAmong(frames', Delivered'))
  BY <1>1, TakenLeaves
<1>3. state = "Closing" => inbound' = inbound /\ Delivered' = Delivered
  <2>1. ASSUME state = "Closing" PROVE inbound' = inbound
    <3>1. inbound = <<>> /\ n = 0 /\ Len(inbound) = 0
      BY <2>1 DEF FramingInv
    <3>2. inbound' = SubSeq(inbound, 1, 0)
      BY <1>1, <3>1 DEF Taken
    <3>3. inbound' = <<>>
      BY <3>1, <3>2, SubSeqEmpty
    <3> QED BY <3>1, <3>3
  <2> QED BY <1>1, <2>1 DEF Delivered
<1>4. TypeOK'
  <2>1. SequencesTyped'
    BY <1>1, <1>2 DEF TypeOK, SequencesTyped
  <2>2. StatesTyped'
    BY <1>1, <1>2 DEF TypeOK, StatesTyped
  <2> QED BY <2>1, <2>2, Zenon DEF TypeOK, SequencesTyped, StatesTyped
<1>5. FramingInv'
  <2>1. state = "Closing" => inbound' = <<>> /\ (HasClosed(frames') \/ clientEnd' = "seen")
    BY <1>1, <1>2, <1>3 DEF FramingInv
  <2> QED BY <1>1, <1>2, <2>1 DEF FramingInv
<1>6. StreamInv'
  BY <1>1 DEF StreamInv, StreamLive
<1>7. ForwardFaithful'
  BY <1>1, <1>2, <1>3 DEF ForwardFaithful
<1>8. ReplyFaithful'
  BY <1>1, <1>3 DEF ReplyFaithful
<1> QED BY <1>4, <1>5, <1>6, <1>7, <1>8

(* The filter keeps what comes before it is ready. *)
LEMMA ConnectingKeeps ==
    ASSUME IInv, NEW n \in 0..Len(inbound), DecodeDataConnecting(n)
    PROVE  IInv'
<1> USE DEF IInv
<1>1. /\ state = "Connecting" /\ Taken(n) /\ pending' = pending \o Chunk(n)
      /\ UNCHANGED <<frames, request, state, remainder, grpcStream, grpc,
                     metadataSeen, messages, toGrpc, toClient, reply, destroyed>>
  BY DEF DecodeDataConnecting, serverVars, outVars
<1>2. /\ inbound' \in Seq(Unit) /\ Ending(frames', inbound')
      /\ clientEnd' \in {"no", "sent", "seen"}
      /\ clientEnd' = "seen" => inbound' = <<>>
      /\ IsPrefixOf(toGrpc, DataAmong(frames', Delivered'))
  BY <1>1, TakenLeaves
<1>3. pending' \in Seq(Unit) /\ Between(frames', 0, pending', inbound')
  <2>1. PICK units \in Seq(Unit), fs \in Seq(Frame), kept \in Seq(Unit) :
          units = inbound /\ fs = frames /\ kept = pending
    BY DEF TypeOK
  <2>2. PICK buf, more : buf = kept \o SubSeq(units, 1, n) /\ more = SubSeq(units, n + 1, Len(units))
    OBVIOUS
  <2>3. Between(fs, 0, kept, units) /\ Ending(fs, units) /\ n \in 0..Len(units) /\ 0 \in Nat
    BY <1>1, <2>1 DEF FramingInv
  <2>4. buf \in Seq(Unit) /\ Between(fs, 0, buf, more)
    BY <2>2, <2>3, ChunkTaken, Zenon
  <2>5. frames' = fs /\ inbound' = more /\ pending' = buf
    BY <1>1, <2>1, <2>2 DEF Taken, Chunk
  <2> QED BY <2>4, <2>5
<1>4. TypeOK'
  <2>1. SequencesTyped'
    BY <1>1, <1>2, <1>3 DEF TypeOK, SequencesTyped
  <2>2. StatesTyped'
    BY <1>1, <1>2, <1>3 DEF TypeOK, StatesTyped
  <2> QED BY <2>1, <2>2, Zenon DEF TypeOK, SequencesTyped, StatesTyped
<1>5. FramingInv'
  BY <1>1, <1>2, <1>3 DEF FramingInv
<1>6. StreamInv'
  BY <1>1 DEF StreamInv, StreamLive
<1>7. ForwardFaithful' /\ ReplyFaithful'
  BY <1>1, <1>2 DEF ForwardFaithful, ReplyFaithful
<1> QED BY <1>4, <1>5, <1>6, <1>7

(* The frame loop on what was kept and what came, m frames into the        *)
(* stream: all that has arrived is now sent on and answered.               *)
LEMMA Processed ==
    ASSUME TypeOK, CloseIsLast(frames), frames' = frames, inbound' \in Seq(Unit),
           NEW data, remainder \o data \in Seq(Unit), NEW end \in BOOLEAN,
           NEW m \in Nat, Between(frames, m, remainder \o data, inbound'),
           toGrpc = DataAmong(frames, m), Only(toClient, {"pong"}) = PongsFor(frames, m),
           \A i \in 1..Len(toClient) : toClient[i].op # "close",
           LoopEnds(data, end)
    PROVE  /\ remainder' \in Seq(Unit) /\ Len(remainder') < UnitsPerItem
           /\ Between(frames', Delivered', remainder', inbound')
           /\ toGrpc' \in Seq(ForwardedFrame) /\ toGrpc' = DataAmong(frames', Delivered')
           /\ toClient' \in Seq(ClientFrame)
           /\ Only(toClient', {"pong"}) = PongsFor(frames', Delivered')
           /\ Only(toClient', {"text", "binary"}) = Only(toClient, {"text", "binary"})
           /\ \A i \in 1..Len(toClient') : toClient'[i].op # "close"
           /\ \/ state' = "Active" /\ grpc' = grpc
              \/ /\ state' = "Closing" /\ grpc' = "halfClosed"
                 /\ end \/ (HasClosed(frames') /\ inbound' = <<>>)
           /\ grpcStream' = grpcStream /\ reply' = reply
<1>1. PICK fs \in Seq(Frame), more \in Seq(Unit), out \in Seq(ClientFrame) :
        fs = frames /\ more = inbound' /\ out = toClient
  BY DEF TypeOK
<1>0. PICK buf \in Seq(Unit) : buf = remainder \o data
  OBVIOUS
<1>2. PICK handled, rest, now :
        handled = Handled(fs, buf) /\ rest = Rest(buf, handled) /\ now = Arrived(fs, more)
  OBVIOUS
<1>3. CloseIsLast(fs) /\ Between(fs, m, buf, more)
  BY <1>0, <1>1
<1>4. /\ handled \in Seq(1..Len(fs))
      /\ rest \in Seq(Unit) /\ Len(rest) < UnitsPerItem
      /\ Between(fs, now, rest, more)
      /\ DataAmong(fs, now) = DataAmong(fs, m) \o Forwarded(fs, handled)
      /\ PongsFor(fs, now) = PongsFor(fs, m) \o Pongs(fs, handled)
      /\ HasClose(fs, handled) =>
           HasClosed(fs) /\ more = <<>> /\ rest = <<>> /\ now = Len(fs)
  BY <1>2, <1>3, BufferHandled, ZenonT(60)
<1>5. PICK sent \in Seq(ForwardedFrame), pongs \in Seq(PongFrame) :
        sent = Forwarded(fs, handled) /\ pongs = Pongs(fs, handled)
  BY <1>4, SentOnType
<1>6. handled = Handled(frames, remainder \o data) /\ rest = Rest(remainder \o data, handled)
  BY <1>0, <1>1, <1>2
<1>7. /\ remainder' = IF HasClose(fs, handled) THEN <<>> ELSE rest
      /\ toGrpc' = toGrpc \o sent
      /\ toClient' = out \o pongs
      /\ state' = IF HasClose(fs, handled) \/ end THEN "Closing" ELSE "Active"
      /\ grpc' = IF HasClose(fs, handled) \/ end THEN "halfClosed" ELSE grpc
      /\ grpcStream' = grpcStream /\ reply' = reply
  BY <1>1, <1>5, <1>6, Zenon DEF LoopEnds
<1>8. remainder' = rest
  BY <1>4, <1>7
<1>9. frames' = fs /\ Delivered' = now
  BY <1>1, <1>2 DEF Delivered
<1>10. toGrpc' = DataAmong(fs, now) /\ toGrpc' \in Seq(ForwardedFrame)
  <2>1. PICK data0 \in Seq(ForwardedFrame) : data0 = toGrpc
    BY DEF TypeOK
  <2>2. data0 \o sent \in Seq(ForwardedFrame)
    OBVIOUS
  <2>3. data0 = DataAmong(fs, m)
    BY <1>1, <2>1
  <2> QED BY <1>4, <1>5, <1>7, <2>1, <2>2, <2>3
<1>11. PICK after : after = out \o pongs
  OBVIOUS
<1>12. /\ after \in Seq(ClientFrame)
       /\ Only(after, {"pong"}) = Only(out, {"pong"}) \o pongs
       /\ Only(after, {"text", "binary"}) = Only(out, {"text", "binary"})
       /\ Len(after) = Len(out) + Len(pongs)
       /\ \A i \in 1..Len(out) : after[i] = out[i]
       /\ \A i \in (Len(out) + 1)..Len(after) : after[i].op = "pong"
  BY <1>11, OnlyPongs
<1>13. Only(after, {"pong"}) = PongsFor(fs, now)
  BY <1>1, <1>4, <1>5, <1>12
<1>14. \A i \in 1..Len(after) : after[i].op # "close"
  <2>1. ASSUME NEW i \in 1..Len(after) PROVE after[i].op # "close"
    <3>1. CASE i \in 1..Len(out)
      BY <1>1, <1>12, <3>1
    <3>2. CASE i \notin 1..Len(out)
      <4>1. i \in (Len(out) + 1)..Len(after)
        BY <1>12, <3>2
      <4> QED BY <1>12, <4>1
    <3> QED BY <3>1, <3>2
  <2> QED BY <2>1
<1>15. toClient' = after
  BY <1>7, <1>11
<1>16. \/ state' = "Active" /\ grpc' = grpc
       \/ /\ state' = "Closing" /\ grpc' = "halfClosed"
          /\ end \/ (HasClosed(frames') /\ inbound' = <<>>)
  BY <1>1, <1>4, <1>7, <1>9
<1> QED BY <1>1, <1>4, <1>7, <1>8, <1>9, <1>10, <1>12, <1>13, <1>14, <1>15, <1>16

(* The stream breaks inside the loop: what was sent is part of what has    *)
(* arrived, and more than before; the client gets pongs and a Close.       *)
LEMMA Broken ==
    ASSUME TypeOK, CloseIsLast(frames), frames' = frames, inbound' \in Seq(Unit),
           NEW data, remainder \o data \in Seq(Unit),
           NEW m \in Nat, Between(frames, m, remainder \o data, inbound'),
           toGrpc = DataAmong(frames, m),
           \A i \in 1..Len(toClient) : toClient[i].op # "close",
           LoopBreaks(data)
    PROVE  /\ remainder' = <<>> /\ grpc' = "closed" /\ state' = "Closed"
           /\ grpcStream' = "null" /\ reply' = "reset"
           /\ toGrpc' \in Seq(ForwardedFrame) /\ IsPrefixOf(toGrpc, toGrpc')
           /\ IsPrefixOf(toGrpc', DataAmong(frames', Delivered'))
           /\ toClient' \in Seq(ClientFrame)
           /\ Only(toClient', {"text", "binary"}) = Only(toClient, {"text", "binary"})
           /\ \A i \in 1..Len(toClient') : toClient'[i].op = "close" => i = Len(toClient')
<1>1. PICK fs \in Seq(Frame), more \in Seq(Unit), out \in Seq(ClientFrame),
           sent \in Seq(ForwardedFrame) :
        fs = frames /\ more = inbound' /\ out = toClient /\ sent = toGrpc
  BY DEF TypeOK
<1>2. PICK buf \in Seq(Unit) : buf = remainder \o data
  OBVIOUS
<1>3. PICK handled, now : handled = Handled(fs, buf) /\ now = Arrived(fs, more)
  OBVIOUS
<1>4. /\ handled \in Seq(1..Len(fs))
      /\ DataAmong(fs, now) = DataAmong(fs, m) \o Forwarded(fs, handled)
  <2>1. CloseIsLast(fs) /\ Between(fs, m, buf, more)
    BY <1>1, <1>2
  <2> QED BY <1>3, <2>1, BufferHandled, ZenonT(60)
<1>5. PICK k \in 1..Len(handled) :
        LET done == SubSeq(handled, 1, k)
        IN  /\ remainder' = <<>>
            /\ toGrpc' = sent \o Forwarded(fs, done)
            /\ TearsDown(out \o Pongs(fs, done))
  BY <1>1, <1>2, <1>3, Zenon DEF LoopBreaks
<1>6. PICK done : done = SubSeq(handled, 1, k)
  OBVIOUS
<1>7. /\ remainder' = <<>> /\ grpc' = "closed" /\ state' = "Closed"
      /\ grpcStream' = "null" /\ reply' = "reset"
      /\ toGrpc' = sent \o Forwarded(fs, done)
      /\ toClient' = Append(out \o Pongs(fs, done), CloseFrame)
  BY <1>5, <1>6, Zenon DEF TearsDown
<1>8. /\ done \in Seq(1..Len(fs))
      /\ toGrpc' \in Seq(ForwardedFrame) /\ IsPrefixOf(sent, toGrpc')
      /\ IsPrefixOf(toGrpc', sent \o Forwarded(fs, handled))
  <2>1. k \in 0..Len(handled)
    BY <1>4
  <2> QED BY <1>4, <1>6, <1>7, <2>1, PartForwarded
<1>9. frames' = fs /\ Delivered' = now
  BY <1>1, <1>3 DEF Delivered
<1>10. IsPrefixOf(toGrpc', DataAmong(frames', Delivered'))
  BY <1>1, <1>4, <1>8, <1>9
<1>11. PICK pongs \in Seq(PongFrame) : pongs = Pongs(fs, done)
  BY <1>8, SentOnType
<1>12. PICK before : before = out \o pongs
  OBVIOUS
<1>13. /\ before \in Seq(ClientFrame)
       /\ Only(before, {"text", "binary"}) = Only(out, {"text", "binary"})
       /\ Len(before) = Len(out) + Len(pongs)
       /\ \A i \in 1..Len(out) : before[i] = out[i]
       /\ \A i \in (Len(out) + 1)..Len(before) : before[i].op = "pong"
  BY <1>12, OnlyPongs
<1>14. \A i \in 1..Len(before) : before[i].op # "close"
  <2>1. ASSUME NEW i \in 1..Len(before) PROVE before[i].op # "close"
    <3>1. CASE i \in 1..Len(out)
      BY <1>1, <1>13, <3>1
    <3>2. CASE i \notin 1..Len(out)
      <4>1. i \in (Len(out) + 1)..Len(before)
        BY <1>13, <3>2
      <4> QED BY <1>13, <4>1
    <3> QED BY <3>1, <3>2
  <2> QED BY <2>1
<1>15. PICK after : after = Append(before, CloseFrame)
  OBVIOUS
<1>16. /\ after \in Seq(ClientFrame)
       /\ Only(after, {"text", "binary"}) = Only(before, {"text", "binary"})
       /\ \A i \in 1..Len(after) : after[i].op = "close" => i = Len(after)
  BY <1>13, <1>14, <1>15, CloseAppended, Zenon
<1>17. toClient' = after
  BY <1>7, <1>11, <1>12, <1>15
<1> QED BY <1>1, <1>7, <1>8, <1>10, <1>13, <1>16, <1>17

(* A filter whose stream breaks inside the loop is done.                   *)
LEMMA BreakKeeps ==
    ASSUME IInv, state \in {"Connecting", "Active"},
           NEW data, remainder \o data \in Seq(Unit),
           NEW m \in Nat, Between(frames, m, remainder \o data, inbound'),
           toGrpc = DataAmong(frames, m), LoopBreaks(data),
           inbound' \in Seq(Unit), Ending(frames', inbound'),
           clientEnd' \in {"no", "sent", "seen"}, clientEnd' = "seen" => inbound' = <<>>,
           metadataSeen' \in BOOLEAN,
           UNCHANGED <<frames, request, pending, messages, destroyed>>
    PROVE  IInv'
<1> USE DEF IInv
<1>1. CloseIsLast(frames) /\ request # "new" /\ ~destroyed
      /\ \A i \in 1..Len(toClient) : toClient[i].op # "close"
  BY DEF FramingInv, StreamInv
<1>2. /\ remainder' = <<>> /\ grpc' = "closed" /\ state' = "Closed"
      /\ grpcStream' = "null" /\ reply' = "reset"
      /\ toGrpc' \in Seq(ForwardedFrame)
      /\ IsPrefixOf(toGrpc', DataAmong(frames', Delivered'))
      /\ toClient' \in Seq(ClientFrame)
      /\ Only(toClient', {"text", "binary"}) = Only(toClient, {"text", "binary"})
      /\ \A i \in 1..Len(toClient') : toClient'[i].op = "close" => i = Len(toClient')
  BY <1>1, Broken
<1>3. TypeOK'
  <2>1. SequencesTyped'
    <3>1. remainder' \in Seq(Unit)
      BY <1>2
    <3>2. frames' \in Seq(Frame) /\ pending' \in Seq(Unit) /\ messages' \in Seq(Message)
      BY DEF TypeOK
    <3> QED BY <1>2, <3>1, <3>2, Zenon DEF SequencesTyped
  <2>2. StatesTyped'
    BY <1>2 DEF TypeOK, StatesTyped
  <2> QED BY <2>1, <2>2, Zenon DEF TypeOK, SequencesTyped, StatesTyped
<1>4. FramingInv'
  BY <1>1, <1>2 DEF FramingInv
<1>5. StreamInv'
  BY <1>1, <1>2 DEF StreamInv, StreamLive
<1>6. ForwardFaithful' /\ ReplyFaithful'
  BY <1>2 DEF ForwardFaithful, ReplyFaithful
<1> QED BY <1>3, <1>4, <1>5, <1>6

(* What an Active filter has kept, with a chunk that comes, starts where   *)
(* the frames that have arrived, and been handled, end.                    *)
LEMMA ChunkFollows ==
    ASSUME IInv, NEW n \in 0..Len(inbound), state = "Active", Taken(n)
    PROVE  \E m \in Nat :
             /\ remainder \o Chunk(n) \in Seq(Unit)
             /\ Between(frames, m, remainder \o Chunk(n), inbound')
             /\ toGrpc = DataAmong(frames, m) /\ Only(toClient, {"pong"}) = PongsFor(frames, m)
<1> USE DEF IInv
<1>1. PICK m \in Nat : m = Delivered
  <2>1. Delivered \in 0..Len(frames)
    BY ArrivedType DEF TypeOK, Delivered
  <2>2. frames \in Seq(Frame)
    BY DEF TypeOK
  <2>3. Len(frames) \in Nat
    BY <2>2
  <2> QED BY <2>1, <2>3
<1>2. PICK units \in Seq(Unit), fs \in Seq(Frame), kept \in Seq(Unit) :
        units = inbound /\ fs = frames /\ kept = remainder
  BY DEF TypeOK
<1>3. PICK buf, more : buf = kept \o SubSeq(units, 1, n) /\ more = SubSeq(units, n + 1, Len(units))
  OBVIOUS
<1>4. Between(fs, m, kept, units) /\ Ending(fs, units) /\ n \in 0..Len(units)
  BY <1>1, <1>2 DEF FramingInv
<1>5. buf \in Seq(Unit) /\ Between(fs, m, buf, more)
  BY <1>3, <1>4, ChunkTaken, Zenon
<1>6. inbound' = more /\ buf = remainder \o Chunk(n)
  BY <1>2, <1>3 DEF Taken, Chunk
<1>7. toGrpc = DataAmong(frames, m) /\ Only(toClient, {"pong"}) = PongsFor(frames, m)
  BY <1>1 DEF ForwardFaithful, ReplyFaithful
<1> QED BY <1>2, <1>5, <1>6, <1>7

(* A chunk of frames. *)
LEMMA ActiveKeeps ==
    ASSUME IInv, NEW n \in 0..Len(inbound), DecodeDataActive(n)
    PROVE  IInv'
<1> USE DEF IInv
<1>1. /\ state = "Active" /\ Taken(n)
      /\ LoopEnds(Chunk(n), Ends(n)) \/ LoopBreaks(Chunk(n))
      /\ UNCHANGED <<frames, request, pending, metadataSeen, messages, destroyed>>
  BY DEF DecodeDataActive, ProcessWebSocketData
<1>2. /\ inbound' \in Seq(Unit) /\ Ending(frames', inbound')
      /\ clientEnd' \in {"no", "sent", "seen"}
      /\ clientEnd' = "seen" => inbound' = <<>>
  BY <1>1, TakenLeaves
<1>3. PICK m \in Nat :
        /\ remainder \o Chunk(n) \in Seq(Unit)
        /\ Between(frames, m, remainder \o Chunk(n), inbound')
        /\ toGrpc = DataAmong(frames, m) /\ Only(toClient, {"pong"}) = PongsFor(frames, m)
  BY <1>1, ChunkFollows
<1>4. /\ TypeOK /\ CloseIsLast(frames) /\ frames' = frames
      /\ \A i \in 1..Len(toClient) : toClient[i].op # "close"
      /\ grpc = "open" /\ grpcStream = "set" /\ ~destroyed /\ request # "new"
  BY <1>1 DEF FramingInv, StreamInv, Taken
<1>5. Ends(n) \in BOOLEAN /\ (Ends(n) => clientEnd' = "seen")
  BY <1>1 DEF Ends, Taken
<1>6. CASE LoopBreaks(Chunk(n))
  <2>1. metadataSeen' \in BOOLEAN
    BY <1>1 DEF TypeOK
  <2> QED BY <1>1, <1>2, <1>3, <1>4, <1>6, <2>1, BreakKeeps
<1>7. CASE LoopEnds(Chunk(n), Ends(n))
  <2>1. /\ remainder' \in Seq(Unit) /\ Len(remainder') < UnitsPerItem
        /\ Between(frames', Delivered', remainder', inbound')
        /\ toGrpc' \in Seq(ForwardedFrame) /\ toGrpc' = DataAmong(frames', Delivered')
        /\ toClient' \in Seq(ClientFrame)
        /\ Only(toClient', {"pong"}) = PongsFor(frames', Delivered')
        /\ Only(toClient', {"text", "binary"}) = Only(toClient, {"text", "binary"})
        /\ \A i \in 1..Len(toClient') : toClient'[i].op # "close"
        /\ \/ state' = "Active" /\ grpc' = grpc
           \/ /\ state' = "Closing" /\ grpc' = "halfClosed"
              /\ Ends(n) \/ (HasClosed(frames') /\ inbound' = <<>>)
        /\ grpcStream' = grpcStream /\ reply' = reply
    BY <1>1, <1>2, <1>3, <1>4, <1>5, <1>7, Processed
  <2>2. TypeOK'
    <3>1. SequencesTyped'
      BY <1>1, <1>2, <1>4, <2>1 DEF TypeOK, SequencesTyped
    <3>2. StatesTyped'
      BY <1>1, <1>2, <1>4, <2>1 DEF TypeOK, StatesTyped
    <3> QED BY <3>1, <3>2, Zenon DEF TypeOK, SequencesTyped, StatesTyped
  <2>3. FramingInv'
    BY <1>1, <1>2, <1>4, <1>5, <2>1 DEF FramingInv
  <2>4. StreamInv'
    BY <1>1, <1>4, <2>1 DEF StreamInv, StreamLive
  <2>5. ForwardFaithful'
    <3>1. IsPrefixOf(toGrpc', DataAmong(frames', Delivered'))
      BY <2>1, PrefixSelf
    <3> QED BY <2>1, <3>1 DEF ForwardFaithful
  <2>6. ReplyFaithful'
    BY <1>1, <2>1 DEF ReplyFaithful
  <2> QED BY <2>2, <2>3, <2>4, <2>5, <2>6
<1> QED BY <1>1, <1>6, <1>7

-----------------------------------------------------------------------------
(* The gRPC callbacks. *)

(* The stream is ready: what was kept is handled now, from the first frame *)
(* on.                                                                     *)
LEMMA MetadataKeeps ==
    ASSUME IInv, OnReceiveInitialMetadata
    PROVE  IInv'
<1> USE DEF IInv
<1>1. /\ StreamLive /\ ~metadataSeen /\ metadataSeen' = TRUE
      /\ UNCHANGED <<frames, inbound, clientEnd, request, pending, messages, destroyed>>
  BY DEF OnReceiveInitialMetadata, clientVars
<1>2. CASE state = "Connecting"
  <2>1. LoopEnds(pending, FALSE) \/ LoopBreaks(pending)
    BY <1>2 DEF OnReceiveInitialMetadata, ProcessWebSocketData
  <2>2. /\ grpc = "open" /\ grpcStream = "set" /\ ~destroyed /\ request # "new"
        /\ toGrpc = <<>> /\ toClient = <<>>
    BY <1>2 DEF StreamInv
  <2>3. remainder = <<>> /\ Between(frames, 0, pending, inbound)
    BY <1>2 DEF FramingInv
  <2>4. /\ remainder \o pending \in Seq(Unit) /\ inbound' \in Seq(Unit)
        /\ Between(frames, 0, remainder \o pending, inbound')
    <3>1. PICK kept \in Seq(Unit) : kept = pending
      BY DEF TypeOK
    <3>2. <<>> \o kept = kept
      OBVIOUS
    <3>3. inbound' \in Seq(Unit)
      BY <1>1 DEF TypeOK
    <3> QED BY <1>1, <2>3, <3>1, <3>2, <3>3
  <2>5. /\ TypeOK /\ CloseIsLast(frames) /\ frames' = frames /\ 0 \in Nat
        /\ toGrpc = DataAmong(frames, 0) /\ Only(toClient, {"pong"}) = PongsFor(frames, 0)
        /\ \A i \in 1..Len(toClient) : toClient[i].op # "close"
    <3>1. \A i \in 1..Len(toClient) : toClient[i].op # "close"
      BY <2>2
    <3> QED BY <1>1, <2>2, <3>1, ReferencesEmpty DEF FramingInv
  <2>6. CASE LoopBreaks(pending)
    <3>1. /\ inbound' \in Seq(Unit) /\ Ending(frames', inbound')
          /\ clientEnd' \in {"no", "sent", "seen"} /\ (clientEnd' = "seen" => inbound' = <<>>)
          /\ metadataSeen' \in BOOLEAN
      BY <1>1, <2>4 DEF TypeOK, FramingInv
    <3> QED BY <1>1, <1>2, <2>4, <2>5, <2>6, <3>1, BreakKeeps
  <2>7. CASE LoopEnds(pending, FALSE)
    <3>1. /\ remainder' \in Seq(Unit) /\ Len(remainder') < UnitsPerItem
          /\ Between(frames', Delivered', remainder', inbound')
          /\ toGrpc' \in Seq(ForwardedFrame) /\ toGrpc' = DataAmong(frames', Delivered')
          /\ toClient' \in Seq(ClientFrame)
          /\ Only(toClient', {"pong"}) = PongsFor(frames', Delivered')
          /\ Only(toClient', {"text", "binary"}) = Only(toClient, {"text", "binary"})
          /\ \A i \in 1..Len(toClient') : toClient'[i].op # "close"
          /\ \/ state' = "Active" /\ grpc' = grpc
             \/ /\ state' = "Closing" /\ grpc' = "halfClosed"
                /\ FALSE \/ (HasClosed(frames') /\ inbound' = <<>>)
          /\ grpcStream' = grpcStream /\ reply' = reply
      BY <2>4, <2>5, <2>7, Processed
    <3>2. TypeOK'
      <4>1. SequencesTyped'
        BY <1>1, <2>2, <3>1 DEF TypeOK, SequencesTyped
      <4>2. StatesTyped'
        BY <1>1, <2>2, <3>1 DEF TypeOK, StatesTyped
      <4> QED BY <4>1, <4>2, Zenon DEF TypeOK, SequencesTyped, StatesTyped
    <3>3. FramingInv'
      <4>1. /\ CloseIsLast(frames') /\ Ending(frames', inbound')
            /\ (clientEnd' = "seen" => inbound' = <<>>)
        BY <1>1 DEF FramingInv
      <4> QED BY <1>1, <2>2, <3>1, <4>1 DEF FramingInv
    <3>4. StreamInv'
      BY <1>1, <2>2, <3>1 DEF StreamInv, StreamLive
    <3>5. ForwardFaithful'
      <4>1. IsPrefixOf(toGrpc', DataAmong(frames', Delivered'))
        BY <3>1, PrefixSelf
      <4> QED BY <3>1, <4>1 DEF ForwardFaithful
    <3>6. ReplyFaithful'
      BY <1>1, <3>1 DEF ReplyFaithful
    <3> QED BY <3>2, <3>3, <3>4, <3>5, <3>6
  <2> QED BY <2>1, <2>6, <2>7
<1>3. CASE state # "Connecting"
  <2>1. UNCHANGED <<remainder, toGrpc, toClient, state, grpc, grpcStream, reply>>
    BY <1>3 DEF OnReceiveInitialMetadata
  <2>2. Delivered' = Delivered
    BY <1>1 DEF Delivered
  <2>3. state # "Passthrough"
    BY <1>1 DEF StreamInv, StreamLive
  <2>4. TypeOK' /\ FramingInv'
    <3>1. TypeOK'
      <4>1. SequencesTyped'
        BY <1>1, <2>1 DEF TypeOK, SequencesTyped
      <4>2. StatesTyped'
        BY <1>1, <2>1 DEF TypeOK, StatesTyped
      <4> QED BY <4>1, <4>2, Zenon DEF TypeOK, SequencesTyped, StatesTyped
    <3>2. FramingInv'
      BY <1>1, <2>1, <2>2 DEF FramingInv
    <3> QED BY <3>1, <3>2
  <2>5. StreamInv'
    BY <1>1, <1>3, <2>1, <2>3 DEF StreamInv, StreamLive
  <2>6. ForwardFaithful' /\ ReplyFaithful'
    BY <1>1, <2>1, <2>2 DEF ForwardFaithful, ReplyFaithful
  <2> QED BY <2>4, <2>5, <2>6
<1> QED BY <1>2, <1>3

(* A message of the server, of which the client is sent a frame: the       *)
(* filter is Active or Closing whenever one can come.                      *)
LEMMA MessageKeeps ==
    ASSUME IInv, NEW binary \in BOOLEAN, OnReceiveMessage(binary)
    PROVE  IInv'
<1> USE DEF IInv
<1>1. PICK x \in Message : x = [binary |-> binary, ok |-> TRUE]
  <2>1. [binary |-> binary, ok |-> TRUE] \in Message
    BY DEF Message
  <2> QED BY <2>1
<1>2. StreamLive /\ metadataSeen
  BY DEF OnReceiveMessage
<1>3. state \in {"Active", "Closing"}
  BY <1>2 DEF StreamInv, StreamLive, TypeOK
<1>4. /\ messages' = Append(messages, x)
      /\ toClient' = Append(toClient, WsFrame(x.binary, Len(messages) + 1))
      /\ UNCHANGED <<frames, inbound, clientEnd, request, state, pending, remainder, grpcStream,
                     grpc, metadataSeen, toGrpc, reply, destroyed>>
  <2>1. x.binary = binary
    BY <1>1
  <2> QED BY <1>1, <1>3, <2>1 DEF OnReceiveMessage, clientVars, filterVars
<1>5. PICK ms \in Seq(Message), out \in Seq(ClientFrame) : ms = messages /\ out = toClient
  BY DEF TypeOK
<1>6. PICK c \in ClientFrame : c = WsFrame(x.binary, Len(ms) + 1)
  <2>1. WsFrame(x.binary, Len(ms) + 1) \in ClientFrame
    BY DEF WsFrame, ClientFrame
  <2> QED BY <2>1
<1>7. c.op \in {"text", "binary"}
  BY <1>6 DEF WsFrame
<1>8. PICK more : more = Append(ms, x)
  OBVIOUS
<1>9. more \in Seq(Message) /\ FramesFor(more) = Append(FramesFor(ms), c)
  <2>1. Append(ms, x) \in Seq(Message) /\ x.ok
    BY <1>1
  <2>2. FramesFor(Append(ms, x)) =
          IF x.ok THEN Append(FramesFor(ms), WsFrame(x.binary, Len(ms) + 1)) ELSE FramesFor(ms)
    BY FramesForAppend
  <2> QED BY <1>6, <1>8, <2>1, <2>2, Zenon
<1>10. PICK after : after = Append(out, c)
  OBVIOUS
<1>11. /\ after \in Seq(ClientFrame) /\ Len(after) = Len(out) + 1 /\ after[Len(out) + 1] = c
       /\ \A i \in 1..Len(out) : after[i] = out[i]
       /\ \A ops : Only(after, ops) = IF c.op \in ops THEN Append(Only(out, ops), c)
                                                    ELSE Only(out, ops)
  <2>1. /\ after \in Seq(ClientFrame) /\ Len(after) = Len(out) + 1 /\ after[Len(out) + 1] = c
        /\ \A i \in 1..Len(out) : after[i] = out[i]
    BY <1>10
  <2>2. \A ops : Only(Append(out, c), ops) =
           IF c.op \in ops THEN Append(Only(out, ops), c) ELSE Only(out, ops)
    BY OnlyAppend
  <2> QED BY <1>10, <2>1, <2>2
<1>12. messages' = more /\ toClient' = after
  BY <1>4, <1>5, <1>6, <1>8, <1>10
<1>13. Delivered' = Delivered
  BY <1>4 DEF Delivered
<1>14. \A i \in 1..Len(after) : after[i].op # "close"
  <2>1. \A i \in 1..Len(out) : out[i].op # "close"
    BY <1>3, <1>5 DEF StreamInv
  <2> QED BY <1>7, <1>11, <2>1
<1>15. TypeOK'
  <2>1. messages' \in Seq(Message) /\ toClient' \in Seq(ClientFrame)
    BY <1>9, <1>11, <1>12
  <2>2. metadataSeen' \in BOOLEAN /\ destroyed' \in BOOLEAN
    BY <1>4 DEF TypeOK
  <2>3. /\ frames' \in Seq(Frame) /\ inbound' \in Seq(Unit)
        /\ pending' \in Seq(Unit) /\ remainder' \in Seq(Unit)
        /\ toGrpc' \in Seq(ForwardedFrame)
    BY <1>4 DEF TypeOK
  <2> QED BY <1>4, <2>1, <2>2, <2>3 DEF TypeOK
<1>16. FramingInv'
  BY <1>4, <1>13 DEF FramingInv
<1>17. StreamInv'
  BY <1>3, <1>4, <1>12, <1>14 DEF StreamInv, StreamLive
<1>18. ForwardFaithful'
  BY <1>4, <1>13 DEF ForwardFaithful
<1>19. ReplyFaithful'
  <2>1. /\ Only(out, {"pong"}) = PongsFor(frames, Delivered)
        /\ Only(out, {"text", "binary"}) = FramesFor(ms)
    BY <1>3, <1>5 DEF ReplyFaithful
  <2>2. /\ Only(after, {"pong"}) = Only(out, {"pong"})
        /\ Only(after, {"text", "binary"}) = Append(Only(out, {"text", "binary"}), c)
    BY <1>7, <1>11
  <2> QED BY <1>4, <1>9, <1>12, <1>13, <1>14, <2>1, <2>2 DEF ReplyFaithful
<1> QED BY <1>15, <1>16, <1>17, <1>18, <1>19

(* The server's end of the stream: a Close, and the filter is done. *)
LEMMA RemoteCloseKeeps ==
    ASSUME IInv, OnRemoteClose
    PROVE  IInv'
<1> USE DEF IInv
<1>1. /\ StreamLive /\ grpc' = "closed" /\ state' = "Closed" /\ grpcStream' = "null"
      /\ toClient' = Append(toClient, CloseFrame) /\ reply' = "reset"
      /\ UNCHANGED <<frames, inbound, clientEnd, request, pending, remainder, metadataSeen,
                     messages, toGrpc, destroyed>>
  BY DEF OnRemoteClose, TearsDown, clientVars
<1>2. state \notin {"Passthrough", "Closed"} /\ ~destroyed /\ request # "new"
  BY <1>1 DEF StreamInv, StreamLive
<1>3. Delivered' = Delivered
  BY <1>1 DEF Delivered
<1>4. /\ toClient' \in Seq(ClientFrame)
      /\ Only(toClient', {"text", "binary"}) = Only(toClient, {"text", "binary"})
      /\ \A i \in 1..Len(toClient') : toClient'[i].op = "close" => i = Len(toClient')
  <2>1. PICK out \in Seq(ClientFrame) : out = toClient
    BY DEF TypeOK
  <2>2. \A i \in 1..Len(out) : out[i].op # "close"
    BY <1>2, <2>1 DEF StreamInv
  <2>3. PICK after : after = Append(out, CloseFrame)
    OBVIOUS
  <2>4. /\ after \in Seq(ClientFrame)
        /\ Only(after, {"text", "binary"}) = Only(out, {"text", "binary"})
        /\ \A i \in 1..Len(after) : after[i].op = "close" => i = Len(after)
    BY <2>2, <2>3, CloseAppended, Zenon
  <2>5. toClient' = after
    BY <1>1, <2>1, <2>3
  <2> QED BY <2>1, <2>4, <2>5
<1>5. TypeOK'
  <2>1. SequencesTyped'
    BY <1>1, <1>4 DEF TypeOK, SequencesTyped
  <2>2. StatesTyped'
    BY <1>1, <1>4 DEF TypeOK, StatesTyped
  <2> QED BY <2>1, <2>2, Zenon DEF TypeOK, SequencesTyped, StatesTyped
<1>6. FramingInv'
  BY <1>1, <1>2 DEF FramingInv
<1>7. StreamInv'
  BY <1>1, <1>2 DEF StreamInv, StreamLive
<1>8. ForwardFaithful' /\ ReplyFaithful'
  BY <1>1, <1>3, <1>4 DEF ForwardFaithful, ReplyFaithful
<1> QED BY <1>5, <1>6, <1>7, <1>8

(* Envoy destroys the filter, which resets the stream it has. *)
LEMMA DestroyKeeps ==
    ASSUME IInv, OnDestroy
    PROVE  IInv'
<1> USE DEF IInv
<1>1. /\ ~destroyed /\ destroyed' = TRUE /\ state' = "Closed"
      /\ IF grpcStream = "set" THEN grpcStream' = "null" /\ grpc' = "reset"
                               ELSE UNCHANGED <<grpcStream, grpc>>
      /\ UNCHANGED <<frames, inbound, clientEnd, request, pending, remainder, metadataSeen,
                     messages, toGrpc, toClient, reply>>
  BY DEF OnDestroy, Resets, clientVars, outVars
<1>2. Delivered' = Delivered
  BY <1>1 DEF Delivered
<1>3. grpcStream' = "null" /\ grpc' \in {"none", "failed", "closed", "reset"}
  BY <1>1 DEF TypeOK, StreamInv, StreamLive
<1>4. TypeOK'
  <2>1. SequencesTyped'
    BY <1>1, <1>3 DEF TypeOK, SequencesTyped
  <2>2. StatesTyped'
    BY <1>1, <1>3 DEF TypeOK, StatesTyped
  <2> QED BY <2>1, <2>2, Zenon DEF TypeOK, SequencesTyped, StatesTyped
<1>5. FramingInv'
  BY <1>1 DEF FramingInv
<1>6. StreamInv'
  BY <1>1, <1>3 DEF StreamInv, StreamLive
<1>7. ForwardFaithful' /\ ReplyFaithful'
  BY <1>1, <1>2 DEF ForwardFaithful, ReplyFaithful
<1> QED BY <1>4, <1>5, <1>6, <1>7

-----------------------------------------------------------------------------
(* The theorems. *)

(* Every callback keeps the invariant. *)
LEMMA IInvStep == IInv /\ [Next]_vars => IInv'
<1> SUFFICES ASSUME IInv, [Next]_vars PROVE IInv'
  OBVIOUS
<1>1. CASE UNCHANGED vars
  <2>1. UNCHANGED <<frames, inbound, clientEnd, request, state, pending, remainder, grpcStream,
                    grpc, metadataSeen, toGrpc, messages, toClient, reply, destroyed>>
    BY <1>1 DEF vars
  <2>2. Delivered' = Delivered
    BY <2>1 DEF Delivered
  <2>3. TypeOK' /\ FramingInv' /\ StreamInv'
    <3>1. TypeOK'
      <4>1. /\ frames' \in Seq(Frame) /\ inbound' \in Seq(Unit)
            /\ pending' \in Seq(Unit) /\ remainder' \in Seq(Unit)
        BY <2>1 DEF IInv, TypeOK
      <4>2. toGrpc' \in Seq(ForwardedFrame) /\ messages' \in Seq(Message)
        BY <2>1 DEF IInv, TypeOK
      <4>3. toClient' \in Seq(ClientFrame)
        BY <2>1 DEF IInv, TypeOK
      <4>4. metadataSeen' \in BOOLEAN /\ destroyed' \in BOOLEAN
        BY <2>1 DEF IInv, TypeOK
      <4> QED BY <2>1, <4>1, <4>2, <4>3, <4>4 DEF IInv, TypeOK
    <3>2. FramingInv'
      BY <2>1, <2>2 DEF IInv, FramingInv
    <3>3. StreamInv'
      BY <2>1 DEF IInv, StreamInv, StreamLive
    <3> QED BY <3>1, <3>2, <3>3
  <2>4. ForwardFaithful' /\ ReplyFaithful'
    BY <2>1, <2>2 DEF IInv, ForwardFaithful, ReplyFaithful
  <2> QED BY <2>3, <2>4 DEF IInv
<1>2. CASE Next
  BY <1>2, ClientSendKeeps, ClientEndsKeeps, RequestKeeps, UpgradeFailsKeeps, IgnoredKeeps,
     ConnectingKeeps, ActiveKeeps, MetadataKeeps, MessageKeeps, RemoteCloseKeeps, DestroyKeeps,
     Zenon DEF Next
<1> QED BY <1>1, <1>2

(* What was sent on the gRPC stream is never taken back, and more follows. *)
LEMMA SentGrows == IInv /\ IInv' /\ [Next]_vars => IsPrefixOf(toGrpc, toGrpc')
<1> SUFFICES ASSUME IInv, IInv', [Next]_vars PROVE IsPrefixOf(toGrpc, toGrpc')
  OBVIOUS
<1>1. PICK sent \in Seq(ForwardedFrame) : sent = toGrpc
  BY DEF IInv, TypeOK
<1>2. CASE toGrpc' = toGrpc
  BY <1>1, <1>2, PrefixSelf
<1>3. ASSUME NEW n \in 0..Len(inbound), DecodeDataActive(n) PROVE IsPrefixOf(toGrpc, toGrpc')
  <2>1. IsPrefixOf(toGrpc, DataAmong(frames', Delivered'))
    BY <1>3, TakenLeaves DEF DecodeDataActive
  <2>2. CASE LoopEnds(Chunk(n), Ends(n))
    <3>1. state' \in {"Active", "Closing"}
      BY <2>2 DEF LoopEnds
    <3>2. toGrpc' = DataAmong(frames', Delivered')
      BY <3>1 DEF IInv, ForwardFaithful
    <3> QED BY <2>1, <3>2
  <2>3. CASE LoopBreaks(Chunk(n))
    <3>1. state = "Active" /\ Taken(n) /\ frames' = frames
      BY <1>3 DEF DecodeDataActive
    <3>2. PICK m \in Nat :
            /\ remainder \o Chunk(n) \in Seq(Unit)
            /\ Between(frames, m, remainder \o Chunk(n), inbound')
            /\ toGrpc = DataAmong(frames, m)
      BY <3>1, ChunkFollows
    <3>3. /\ TypeOK /\ CloseIsLast(frames) /\ inbound' \in Seq(Unit)
          /\ \A i \in 1..Len(toClient) : toClient[i].op # "close"
      BY <3>1 DEF IInv, TypeOK, FramingInv, StreamInv
    <3> QED BY <2>3, <3>1, <3>2, <3>3, Broken
  <2> QED BY <1>3, <2>2, <2>3 DEF DecodeDataActive, ProcessWebSocketData
<1>4. CASE OnReceiveInitialMetadata /\ state = "Connecting"
  <2>1. toGrpc = <<>>
    BY <1>4 DEF IInv, StreamInv
  <2>2. toGrpc' \in Seq(ForwardedFrame)
    BY DEF IInv, TypeOK
  <2> QED BY <2>1, <2>2, PrefixEmpty
<1>5. CASE OnReceiveInitialMetadata /\ state # "Connecting"
  BY <1>2, <1>5 DEF OnReceiveInitialMetadata
<1>6. ASSUME NEW n \in 0..Len(inbound), DecodeDataIgnored(n) \/ DecodeDataConnecting(n)
      PROVE  toGrpc' = toGrpc
  BY <1>6 DEF DecodeDataIgnored, DecodeDataConnecting, outVars
<1>7. ASSUME NEW f \in Frame, ClientSend(f) PROVE toGrpc' = toGrpc
  BY <1>7 DEF ClientSend, outVars
<1>8. CASE ClientEnds \/ PlainRequest \/ UpgradeRequest
  BY <1>2, <1>8 DEF ClientEnds, PlainRequest, UpgradeRequest, outVars
<1>9. ASSUME NEW inline \in BOOLEAN, UpgradeFails(inline) PROVE toGrpc' = toGrpc
  BY <1>9 DEF UpgradeFails
<1>10. ASSUME NEW binary \in BOOLEAN, OnReceiveMessage(binary) PROVE toGrpc' = toGrpc
  BY <1>10 DEF OnReceiveMessage
<1>11. CASE OnRemoteClose \/ OnDestroy
  BY <1>2, <1>11 DEF OnRemoteClose, OnDestroy, outVars
<1>12. CASE UNCHANGED vars
  BY <1>2, <1>12 DEF vars
<1> QED BY <1>2, <1>3, <1>4, <1>5, <1>6, <1>7, <1>8, <1>9, <1>10, <1>11, <1>12, Zenon DEF Next

(* The invariant holds in every reachable state. *)
THEOREM Invariant == Spec => []IInv
BY IInvInit, IInvStep, PTL DEF Spec

(* Every variable has its type. *)
THEOREM TypeCorrect == Spec => []TypeOK
<1>1. IInv => TypeOK
  BY DEF IInv
<1> QED BY <1>1, Invariant, PTL

(* The server is sent every data frame that has wholly arrived, once and   *)
(* in order, from the moment the stream is ready, and nothing before,      *)
(* however the frames are cut and whenever they come.                      *)
THEOREM FramesReachServer == Spec => []ForwardFaithful
<1>1. IInv => ForwardFaithful
  BY DEF IInv
<1> QED BY <1>1, Invariant, PTL

(* The client is sent each message of the server and a pong for each ping, *)
(* in order, and nothing after the one Close.                              *)
THEOREM RepliesReachClient == Spec => []ReplyFaithful
<1>1. IInv => ReplyFaithful
  BY DEF IInv
<1> QED BY <1>1, Invariant, PTL

(* An Active or Closing filter has the stream it sends on, half-closed     *)
(* exactly when Closing, a Closed one no dangling pointer, and a destroyed *)
(* one no stream left to call back into it, whatever order Envoy, the      *)
(* server and the client go away in.                                       *)
THEOREM StreamFollowsState == Spec => []StreamMatchesState
<1>1. IInv => StreamMatchesState
  BY DEF IInv, StreamInv, StreamMatchesState, StreamLive
<1> QED BY <1>1, Invariant, PTL

=============================================================================
