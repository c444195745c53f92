------------------------------ MODULE ProtoCodec ------------------------------
(***************************************************************************)
(* The hand-written protobuf of the two WASM filters, as operators on      *)
(* sequences of bytes: varints, the Frame message (wasm/src/lib.rs), and   *)
(* HttpRequest and HttpResponse (wasm/http-bridge/src/lib.rs).  The widths *)
(* are parameters, so that small instances reach every boundary; beside    *)
(* each stands its value in the code.  Positions count from 1.             *)
(*                                                                         *)
(* A decoder that returns the Rust None returns None; one that does not    *)
(* return, as it slices out of range, which traps, or reads the same       *)
(* fields for ever, returns Trap.  Sums of a position and a length wrap,   *)
(* as usize does in a release build (a debug build panics).  Strings are   *)
(* bytes: those of a protobuf message are UTF-8, which from_utf8_lossy     *)
(* keeps.                                                                  *)
(*                                                                         *)
(* A definition whose name ends in _word is a broken variant of the one    *)
(* after it, for mutation checks.                                          *)
(***************************************************************************)
EXTENDS Naturals, Sequences, FiniteSetsExt, SequencesExt

CONSTANTS
    Group,      \* 128: values of a varint digit; a byte is below 2 * Group
    MaxDigits,  \* 10: digits read before a varint is given up
    Word,       \* 2^64: values of u64
    U32,        \* 2^32: values of u32, and of usize on wasm32
    Fixed32,    \* 4: bytes of a 32-bit field
    Fixed64,    \* 8: bytes of a 64-bit field
    None,       \* no result
    Trap        \* no return

ASSUME WidthAssumption ==
    /\ Group \in Nat /\ Group >= 32 /\ MaxDigits \in Nat \ {0}
    /\ Word \in Nat \ {0} /\ U32 \in Nat \ {0} /\ Fixed32 \in Nat /\ Fixed64 \in Nat

Byte == 0..(2 * Group - 1)

-----------------------------------------------------------------------------
(* Varints: digits, least significant first; all but the last are marked.  *)

WriteVarint(v) ==
    LET write[n \in Nat] == IF n < Group THEN <<n>>
                            ELSE <<Group + (n % Group)>> \o write[n \div Group]
    IN  write[v]

(* The value and the next position, from position i of buf.  Digits beyond *)
(* the word are shifted out.                                               *)
GivesUpAfter_early == MaxDigits - 1
GivesUpAfter == MaxDigits

ReadVarint(buf, i) ==
    LET last == {k \in i..Len(buf) : buf[k] < Group}
        end == Min(last)
        value[k \in i..(end + 1)] ==
            IF k > end THEN 0 ELSE (buf[k] % Group) + Group * value[k + 1]
    IN  IF last = {} \/ end - i >= GivesUpAfter
          THEN None
          ELSE [value |-> value[i] % Word, next |-> end + 1]

(* A cast to u32 or usize. *)
AsU32(v) == v % U32

Tag(field, wire) == WriteVarint(8 * field + wire)

(* push_len_field *)
LenField(field, data) == Tag(field, 2) \o WriteVarint(Len(data)) \o data

-----------------------------------------------------------------------------
(* One field from position i: where its value or its data start, and where *)
(* the next field would, within the input or not: behind them, or before   *)
(* them if the sum with the length wraps.                                  *)

Width(wire) == IF wire = 1 THEN Fixed64 ELSE Fixed32

(* i + len in usize, of a position that counts from 1. *)
Advanced(i, len) == 1 + AsU32(i - 1 + len)

(* From its number and type, its value read as v or at position i. *)
Varying(head, v) ==
    IF v = None THEN None
    ELSE head @@ [value |-> v.value, from |-> v.next,
                  next |-> IF head.wire = 2 THEN Advanced(v.next, AsU32(v.value)) ELSE v.next]

AfterTag(buf, head, i) ==
    IF head.wire \in {0, 2} THEN Varying(head, ReadVarint(buf, i))
    ELSE head @@ [value |-> 0, from |-> i,
                  next |-> i + IF head.wire \in {1, 5} THEN Width(head.wire) ELSE 0]

FieldAt(buf, i) ==
    LET tag == ReadVarint(buf, i)
    IN  IF tag = None THEN None
        ELSE AfterTag(buf, [field |-> AsU32(tag.value \div 8), wire |-> tag.value % 8], tag.next)

Supported == {0, 1, 2, 5}

DataOf(buf, f) == SubSeq(buf, f.from, f.next - 1)
AllData(buf, fs) == [k \in 1..Len(fs) |-> DataOf(buf, fs[k])]

(* The fields of one number and type, and the last of them or a default. *)
OfKind(fs, field, wire) ==
    SelectSeq(fs, LAMBDA f : f \notin {None, Trap} /\ f.field = field /\ f.wire = wire)
Holds_first(fs) == Head(fs)
Holds(fs) == Last(fs)
LastOr(fs, default, Op(_)) == IF fs = <<>> THEN default ELSE Op(Holds(fs))

-----------------------------------------------------------------------------
(* Frame: encode_frame_proto, decode_frame_proto with skip_field. *)

EncodeFrameProto(payload, binary) ==
    (IF payload # <<>> THEN LenField(1, payload) ELSE <<>>)
        \o (IF binary THEN Tag(2, 0) \o <<1>> ELSE <<>>)

Overruns_atEnd(buf, f) == f.next >= Len(buf) + 1
Overruns(buf, f) == f.next > Len(buf) + 1

(* Of a field that is skipped, the next one is read wherever the sum       *)
(* wraps to; the data of a field that is kept would end before they start, *)
(* which traps.                                                            *)
TrapsOnWrap(f, kept) == f.wire = 2 /\ f.field \in kept /\ f.next < f.from

(* All the fields, or None in the place of the one that does not parse, is *)
(* of an unsupported type or overruns the input.  After as many fields as  *)
(* there are bytes, one of them has been read twice and will be for ever.  *)
StrictFields(buf) ==
    LET fields[i \in Nat, left \in Nat] ==
            LET f == FieldAt(buf, i)
            IN  IF i > Len(buf) THEN <<>>
                ELSE IF left = 0 THEN <<Trap>>
                ELSE IF f = None THEN <<None>>
                ELSE IF f.wire \notin Supported \/ Overruns(buf, f) THEN <<None>>
                ELSE IF TrapsOnWrap(f, {1}) THEN <<Trap>>
                ELSE <<f>> \o fields[f.next, left - 1]
    IN  fields[1, Len(buf)]

(* What a sequence that holds None or Trap stands for, else its value. *)
Unless(fs, value) ==
    IF Contains(fs, None) THEN None ELSE IF Contains(fs, Trap) THEN Trap ELSE value

DecodeFrameProto(buf) ==
    LET fs == StrictFields(buf)
    IN  Unless(fs, [payload |-> LastOr(OfKind(fs, 1, 2), <<>>, LAMBDA f : DataOf(buf, f)),
                    binary |-> LastOr(OfKind(fs, 2, 0), FALSE, LAMBDA f : f.value # 0)])

-----------------------------------------------------------------------------
(* HttpRequest: encode_http_request.  A header is a pair of byte strings. *)

EncodeHeader(h) == LenField(1, h[1]) \o LenField(2, h[2])

EncodeHttpRequest(headers, body) ==
    FlattenSeq([i \in 1..Len(headers) |-> LenField(1, EncodeHeader(headers[i]))])
        \o (IF body # <<>> THEN LenField(2, body) ELSE <<>>)

-----------------------------------------------------------------------------
(* HttpResponse: decode_http_response, decode_header.  Both stop at a wire *)
(* type they do not skip and keep what they have; a field they know that   *)
(* overruns the input traps, another one ends the loop.                    *)

LenientFields(buf, known, wires) ==
    LET fields[i \in Nat, left \in Nat] ==
            LET f == FieldAt(buf, i)
            IN  IF i > Len(buf) THEN <<>>
                ELSE IF left = 0 THEN <<Trap>>
                ELSE IF f = None THEN <<None>>
                ELSE IF f.wire \notin wires THEN <<>>
                ELSE IF TrapsOnWrap(f, known) THEN <<Trap>>
                ELSE IF ~Overruns(buf, f) THEN <<f>> \o fields[f.next, left - 1]
                ELSE IF f.wire = 2 /\ f.field \in known THEN <<Trap>>
                ELSE <<>>
    IN  fields[1, Len(buf)]

HeaderOr_bothGiven(key, val) == IF key = <<>> \/ val = <<>> THEN None ELSE <<key, val>>
HeaderOr(key, val) == IF key = <<>> THEN None ELSE <<key, val>>
HeaderOf(buf, fs) ==
    Unless(fs, HeaderOr(LastOr(OfKind(fs, 1, 2), <<>>, LAMBDA f : DataOf(buf, f)),
                        LastOr(OfKind(fs, 2, 2), <<>>, LAMBDA f : DataOf(buf, f))))
DecodeHeader(buf) == HeaderOf(buf, LenientFields(buf, {1, 2}, {0, 2}))
DecodeHeaders(datas) == [k \in 1..Len(datas) |-> DecodeHeader(datas[k])]

ResponseOf(buf, fs, headers) ==
    IF Contains(headers, Trap) THEN Trap ELSE Unless(fs,
        [status |-> LastOr(OfKind(fs, 1, 0), 200, LAMBDA f : AsU32(f.value)),
         headers |-> SelectSeq(headers, LAMBDA h : h # None),
         body |-> FlattenSeq(AllData(buf, OfKind(fs, 3, 2)))])

DecodeHttpResponse(buf) ==
    LET fs == LenientFields(buf, {2, 3}, Supported)
    IN  ResponseOf(buf, fs, DecodeHeaders(AllData(buf, OfKind(fs, 2, 2))))

=============================================================================
