------------------------------- MODULE WsCodec -------------------------------
(***************************************************************************)
(* The WebSocket frame codec of wasm/src/lib.rs: parse_ws_frame and        *)
(* encode_ws_frame, byte by byte, with the widths as parameters (beside    *)
(* each its value in the code).  The top bit of a byte is Group, and usize *)
(* is that of wasm32, U32.  None: more bytes are needed.  A length that    *)
(* wraps to an end before the payload starts slices out of range: Trap.    *)
(*                                                                         *)
(* A definition whose name ends in _word is a broken variant of the one    *)
(* after it, for mutation checks.                                          *)
(***************************************************************************)
EXTENDS ProtoCodec, Bitwise

CONSTANTS
    ExtLen,    \* 2: bytes of the extended length
    LongLen,   \* 8: bytes of the long length
    KeyLen     \* 4: bytes of the masking key

ASSUME WsWidthAssumption ==
    /\ ExtLen \in Nat \ {0} /\ LongLen \in Nat \ {0} /\ KeyLen \in Nat \ {0}

Radix == 2 * Group

BigEndian(bs) ==
    LET value[k \in 0..Len(bs)] == IF k = 0 THEN 0 ELSE Radix * value[k - 1] + bs[k]
    IN  value[Len(bs)]

ToBigEndian(v, n) == [k \in 1..n |-> (v \div Radix^(n - k)) % Radix]

(* The three forms of a length: how many bytes follow the indicator. *)
Extended == Group - 2
Long     == Group - 1
LengthBytes(indicator) ==
    IF indicator = Extended THEN ExtLen ELSE IF indicator = Long THEN LongLen ELSE 0

PayloadLength_truncated(buf, n) ==
    IF n = 0 THEN buf[2] % Group ELSE BigEndian(SubSeq(buf, 3, 2 + n)) % Radix
PayloadLength(buf, n) ==
    IF n = 0 THEN buf[2] % Group ELSE BigEndian(SubSeq(buf, 3, 2 + n)) % U32

Unmask(raw, key) == [i \in 1..Len(raw) |-> raw[i] ^^ key[1 + ((i - 1) % KeyLen)]]

ParseWsFrame(buf) ==
    LET masked == buf[2] >= Group
        n == LengthBytes(buf[2] % Group)
        maskOffset == 2 + n
        payloadOffset == maskOffset + IF masked THEN KeyLen ELSE 0
        total == AsU32(payloadOffset + PayloadLength(buf, n))
        raw == SubSeq(buf, payloadOffset + 1, total)
        key == SubSeq(buf, maskOffset + 1, payloadOffset)
    IN  IF Len(buf) < 2 THEN None
        ELSE IF Len(buf) < maskOffset THEN None
        ELSE IF Len(buf) < total THEN None
        ELSE IF total < payloadOffset THEN Trap
        ELSE [opcode |-> buf[1] % 16, payload |-> IF masked THEN Unmask(raw, key) ELSE raw,
              consumed |-> total]

EncodeLength(len) ==
    IF len < Extended THEN <<len>>
    ELSE IF len < Radix^ExtLen THEN <<Extended>> \o ToBigEndian(len, ExtLen)
    ELSE <<Long>> \o ToBigEndian(len, LongLen)

EncodeWsFrame(opcode, payload) ==
    <<Group + (opcode % 16)>> \o EncodeLength(Len(payload)) \o payload

=============================================================================
