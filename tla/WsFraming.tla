------------------------------ MODULE WsFraming ------------------------------
(***************************************************************************)
(* The client's WebSocket byte stream as both Envoy filters see it: frames *)
(* that TCP cuts anywhere, put together again in a buffer and handled in a *)
(* loop that a Close breaks (process_ws_frames in wasm/src/lib.rs,         *)
(* processWebSocketData in envoy-filter/ws_grpc_bridge_filter.cc).  A      *)
(* frame travels as two units; its payload is abstracted to its position   *)
(* in the client's sequence of frames, the parameter fs.                   *)
(*                                                                         *)
(* A definition whose name ends in _word is a broken variant of the one    *)
(* after it, for mutation checks; no specification uses it.                *)
(***************************************************************************)
EXTENDS Integers, Selection

Frame == [op : {"text", "binary", "cont"}, fin : BOOLEAN]
   \cup [op : {"close", "ping", "pong"}, fin : {TRUE}]

UnitsPerItem == 2

(* A unit: which item it belongs to, and whether the item ends with it. *)
Unit == [item : Nat, last : BOOLEAN]

UnitsOf(i) == <<[item |-> i, last |-> FALSE], [item |-> i, last |-> TRUE]>>

(* A conforming client: no frame after its Close, and a message cut into   *)
(* fragments goes on with continuation frames, control frames between.     *)
HasClosed(fs) == \E i \in 1..Len(fs) : fs[i].op = "close"

MidMessage(fs) ==
    \E i \in 1..Len(fs) :
        /\ ~fs[i].fin
        /\ \A j \in (i+1)..Len(fs) : fs[j].op \notin {"text", "binary", "cont"}

MaySend(fs, f) ==
    /\ ~HasClosed(fs)
    /\ f.op \in {"text", "binary"} => ~MidMessage(fs)
    /\ f.op = "cont" => MidMessage(fs)

(* The frames that are whole at the front of a buffer, in order. *)
WholeFrames(buf) == [k \in 1..(Len(buf) \div UnitsPerItem) |-> buf[UnitsPerItem * k].item]

(* As far as the loop gets: through the first Close. *)
Handled(fs, buf) ==
    LET whole == WholeFrames(buf)
        closes(n) == fs[whole[n]].op = "close"
    IN  SubSeq(whole, 1, CHOOSE n \in 0..Len(whole) :
                             /\ \A k \in 1..(n - 1) : ~closes(k)
                             /\ n < Len(whole) => n > 0 /\ closes(n))

HasClose_ignored(fs, items) == FALSE
HasClose(fs, items) == \E k \in 1..Len(items) : fs[items[k]].op = "close"

(* What the frames handled leave in the buffer. *)
Rest_cleared(buf, handled) == <<>>
Rest(buf, handled) == SubSeq(buf, UnitsPerItem * Len(handled) + 1, Len(buf))

(* The Frame proto of a data frame, and the pong that answers a ping. *)
FrameProto(fs, i) == [frame |-> i, binary |-> fs[i].op = "binary"]

Pong_echo(i) == [op |-> "ping", ref |-> i]
Pong(i) == [op |-> "pong", ref |-> i]

(* Text and binary frames are forwarded, pings answered, in the order of   *)
(* the frames; pongs, continuations and unknown opcodes are discarded.     *)
At(fs, ops) == {i \in 1..Len(fs) : fs[i].op \in ops}

Forwarded(fs, items) ==
    Each(Keep(items, At(fs, {"text", "binary"})), [i \in 1..Len(fs) |-> FrameProto(fs, i)])

Pongs(fs, items) == Each(Keep(items, At(fs, {"ping"})), [i \in 1..Len(fs) |-> Pong(i)])

(* The WebSocket frame made of the i-th message of the server. *)
WsFrame_text(binary, i) == [op |-> "text", ref |-> i]
WsFrame(binary, i) == [op |-> IF binary THEN "binary" ELSE "text", ref |-> i]

ForwardedFrame == [frame : Nat, binary : BOOLEAN]
Message == [binary : BOOLEAN, ok : BOOLEAN]
ClientFrame == [op : {"text", "binary", "pong", "close"}, ref : Nat]

-----------------------------------------------------------------------------
(* References for the properties, over the first n frames of fs and the    *)
(* server's messages ms.                                                   *)

(* How many frames have wholly arrived, with units still on their way. *)
Arrived(fs, units) ==
    IF UnitsPerItem * Len(fs) < Len(units) THEN 0
    ELSE (UnitsPerItem * Len(fs) - Len(units)) \div UnitsPerItem

(* Units of the client's stream from the position at + 1 on; the frame q   *)
(* is at the positions 2q - 1 and 2q.                                      *)
Aligned(units, at) ==
    \A k \in 1..Len(units) :
        at + k = UnitsPerItem * units[k].item - (IF units[k].last THEN 0 ELSE 1)

(* The units that end the stream of fs, and a buffer of what lies between  *)
(* its first n frames and those.                                           *)
Ending(fs, units) ==
    /\ Len(units) <= UnitsPerItem * Len(fs)
    /\ Aligned(units, UnitsPerItem * Len(fs) - Len(units))

Between(fs, n, buf, units) ==
    /\ UnitsPerItem * n + Len(buf) + Len(units) = UnitsPerItem * Len(fs)
    /\ Aligned(buf, UnitsPerItem * n)

CloseIsLast(fs) == \A i \in 1..Len(fs) : fs[i].op = "close" => i = Len(fs)

Upto(n) == [i \in 1..n |-> i]

DataAmong(fs, n) ==
    Each(Keep(Upto(n), At(fs, {"text", "binary"})),
         [i \in 1..Len(fs) |-> [frame |-> i, binary |-> fs[i].op = "binary"]])

PongsFor(fs, n) ==
    Each(Keep(Upto(n), At(fs, {"ping"})), [i \in 1..Len(fs) |-> [op |-> "pong", ref |-> i]])

FramesFor(ms) ==
    Each(Keep(Upto(Len(ms)), {i \in 1..Len(ms) : ms[i].ok}),
         [i \in 1..Len(ms) |-> [op |-> IF ms[i].binary THEN "binary" ELSE "text", ref |-> i]])

Only(out, ops) == Keep(out, {o \in ClientFrame : o.op \in ops})

IsPrefixOf(s, t) == Len(s) <= Len(t) /\ s = SubSeq(t, 1, Len(s))

=============================================================================
