-------------------------------- MODULE Codecs --------------------------------
(***************************************************************************)
(* The pure code of the bridge on bounded inputs: the codecs of ProtoCodec *)
(* and WsCodec and the headers of ScopeBuilders.  A behaviour grows one    *)
(* input by one element a step: a payload (its bytes all different, up to  *)
(* every boundary of the lengths), arbitrary bytes over an alphabet of     *)
(* tags, digits and lengths, the header lines of an upgrade request, or    *)
(* the header list of an HTTP request.  The properties of the operators    *)
(* are invariants of the inputs reached.                                   *)
(***************************************************************************)
EXTENDS WsCodec, ScopeBuilders

CONSTANTS
    MaxPayload,   \* bound: length of a payload
    Alphabet,     \* the bytes of arbitrary input
    MaxBytes,     \* bound: length of arbitrary input
    MaxHeaders    \* bound: header lines, headers

ASSUME CodecsAssumption ==
    /\ MaxPayload \in Nat /\ MaxBytes \in Nat /\ MaxHeaders \in Nat
    /\ Alphabet \subseteq Byte

VARIABLES payload, bytes, lines, fields

vars == <<payload, bytes, lines, fields>>

(* What a client sends and what Envoy makes of it. *)
Target == [path : {"/", "/p"}, query : {Absent, "q"}]
Authority == [host : {"h"}, port : {Absent, 8080}]

(* A line of an upgrade request: headers of which some mean something to   *)
(* _build_scope, a line without a colon, one that is not UTF-8.            *)
UpgradeLine == {Absent, NotUtf8}
    \cup [name : {"host"}, capital : BOOLEAN, value : {"a"}]
    \cup [name : {"sec-websocket-protocol", "x"}, capital : {TRUE}, value : {"a", "b"}]
    \cup {Header("user-agent", "a"), Header("grpcgi-other", "a")}

HttpHeader == {Header(":path", t) : t \in Target} \cup {Header(":authority", a) : a \in Authority}
    \cup {Header(":method", Method("POST", FALSE)), Header(":scheme", "https"), Header("x", "a"), Header("x", "b")}

Init == payload = <<>> /\ bytes = <<>> /\ lines = <<>> /\ fields = <<>>

GrowPayload ==
    /\ <<bytes, lines, fields>> = <<<<>>, <<>>, <<>>>> /\ Len(payload) < MaxPayload
    /\ payload' = Append(payload, (7 * Len(payload) + 5) % (2 * Group))
    /\ UNCHANGED <<bytes, lines, fields>>

GrowBytes ==
    /\ <<payload, lines, fields>> = <<<<>>, <<>>, <<>>>> /\ Len(bytes) < MaxBytes
    /\ \E b \in Alphabet : bytes' = Append(bytes, b)
    /\ UNCHANGED <<payload, lines, fields>>

GrowLines ==
    /\ <<payload, bytes, fields>> = <<<<>>, <<>>, <<>>>> /\ Len(lines) < MaxHeaders
    /\ \E l \in UpgradeLine : lines' = Append(lines, l)
    /\ UNCHANGED <<payload, bytes, fields>>

GrowFields ==
    /\ <<payload, bytes, lines>> = <<<<>>, <<>>, <<>>>> /\ Len(fields) < MaxHeaders
    /\ \E h \in HttpHeader : fields' = Append(fields, h)
    /\ UNCHANGED <<payload, bytes, lines>>

Next == GrowPayload \/ GrowBytes \/ GrowLines \/ GrowFields

Spec == Init /\ [][Next]_vars

Prefix(s, n) == SubSeq(s, 1, n)

-----------------------------------------------------------------------------
(* Correctness. *)

(* write_varint and read_varint (either filter's) agree on every value of  *)
(* the word, whatever follows; no proper prefix reads as a value; and the  *)
(* same value in more digits than it needs is read, up to the tenth digit. *)
(* The values are 0..64 and those up to the word's last around each length.*)
Padded(w, n) ==
    [k \in 1..n |-> IF k < Len(w) THEN w[k] ELSE IF k = Len(w) THEN Group + w[k]
                    ELSE IF k < n THEN Group ELSE 0]

Value == {v \in {Len(payload), Group * Len(payload) + 1, Word - 1 - Len(payload)} : v < Word}

VarintFaithful ==
    \A v \in Value :
        LET w == WriteVarint(v) IN
        /\ ReadVarint(w \o payload, 1) = [value |-> v, next |-> Len(w) + 1]
        /\ \A n \in 0..(Len(w) - 1) : ReadVarint(Prefix(w, n), 1) = None
        /\ \A n \in (Len(w) + 1)..(MaxDigits + 1) :
             ReadVarint(Padded(w, n) \o payload, 1) =
                 IF n <= MaxDigits THEN [value |-> v, next |-> n + 1] ELSE None

(* A Frame, the raw message that Envoy adds the gRPC header to, decodes to *)
(* what was encoded, though fields of a later version stand before it; one *)
(* cut off anywhere is refused, or has lost exactly its flag, but never    *)
(* yields part of a payload.                                               *)
UnknownVarying(n) == Tag(n, 0) \o WriteVarint(Group) \o LenField(n, payload)
UnknownFields(n) == UnknownVarying(n)
    \o Tag(n, 5) \o [k \in 1..Fixed32 |-> 10] \o Tag(n, 1) \o [k \in 1..Fixed64 |-> 10]

FrameProtoFaithful ==
    \A binary \in BOOLEAN :
        LET e == EncodeFrameProto(payload, binary) IN
        /\ DecodeFrameProto(UnknownFields(3) \o e) = [payload |-> payload, binary |-> binary]
        /\ \A n \in 0..(Len(e) - 1) :
             DecodeFrameProto(Prefix(e, n)) \in
                 {None, [payload |-> <<>>, binary |-> FALSE], [payload |-> payload, binary |-> FALSE]}

(* A frame as a client sends it: masked or not, its length in any form     *)
(* that holds it.                                                          *)
Key == [1..KeyLen -> {0, 1, 2 * Group - 1}]

LengthIn(form, len) ==
    IF form = 0 THEN <<len>>
    ELSE <<IF form = ExtLen THEN Extended ELSE Long>> \o ToBigEndian(len, form)

Forms == {f \in {0, ExtLen, LongLen} :
            Len(payload) < IF f = 0 THEN Extended ELSE Radix^f}

Masked(key, form) ==
    LET n == LengthIn(form, Len(payload))
    IN  <<Group + 1>> \o <<n[1] + Group>> \o Tail(n) \o key
            \o [i \in 1..Len(payload) |-> payload[i] ^^ key[((i - 1) % KeyLen) + 1]]

ParsesTo(frame, opcode) ==
    /\ ParseWsFrame(frame \o payload) =
         [opcode |-> opcode, payload |-> payload, consumed |-> Len(frame)]
    /\ \A n \in 0..(Len(frame) - 1) : ParseWsFrame(Prefix(frame, n)) = None

(* Of a client's frame, and of one of encode_ws_frame, the parser takes    *)
(* exactly the frame, whatever follows it, unmasked, and nothing while any *)
(* byte is missing (for every length that usize holds).                    *)
WsFrameFaithful ==
    /\ \A key \in Key, form \in Forms : ParsesTo(Masked(key, form), 1)
    /\ \A opcode \in {1, 2, 8, 10} : ParsesTo(EncodeWsFrame(opcode, payload), opcode)

(* The HttpRequest the filter encodes is, field by field, the headers in   *)
(* order and the body, for a reader of protobuf messages.                  *)
HeaderLists == {<<>>, <<<<<<1>>, payload>>>>, <<<<payload, <<>>>>, <<<<2>>, <<3>>>>>>}

FieldsRead(e, fs) == [k \in 1..Len(fs) |-> <<fs[k].field, DataOf(e, fs[k])>>]

HttpRequestFaithful ==
    \A hs \in HeaderLists : \A body \in {<<>>, payload} :
        LET e == EncodeHttpRequest(hs, body) IN
        FieldsRead(e, StrictFields(e)) =
            [i \in 1..Len(hs) |-> <<1, EncodeHeader(hs[i])>>]
                \o IF body = <<>> THEN <<>> ELSE <<<<2, body>>>>

(* The servicer's HttpResponse as protobuf writes it (defaults left out)   *)
(* is the filter's answer, though fields of a later version stand before   *)
(* them (in a header, of the types that decode_header skips); but a status *)
(* of 0 is taken for 200, and a header without a name is left out.  It     *)
(* never traps.                                                            *)
ReplyHeader(h) == UnknownVarying(3) \o (IF h[1] = <<>> THEN <<>> ELSE LenField(1, h[1]))
               \o (IF h[2] = <<>> THEN <<>> ELSE LenField(2, h[2]))
ReplyBytes(status, hs, body) ==
    UnknownFields(4) \o (IF status = 0 THEN <<>> ELSE Tag(1, 0) \o WriteVarint(status))
        \o FlattenSeq([i \in 1..Len(hs) |-> LenField(2, ReplyHeader(hs[i]))])
        \o (IF body = <<>> THEN <<>> ELSE LenField(3, body))

HttpResponseFaithful ==
    \A hs \in HeaderLists : \A body \in {<<>>, payload}, status \in {0, 200, 404} :
        DecodeHttpResponse(ReplyBytes(status, hs, body)) =
            [status |-> IF status = 0 THEN 200 ELSE status,
             headers |-> SelectSeq(hs, LAMBDA h : h[1] # <<>>),
             body |-> body]

(* Both ways across the unary call. *)
HttpMessagesFaithful == HttpRequestFaithful /\ HttpResponseFaithful

(* Decoding goes by fields and not by how the bytes came together: what    *)
(* two inputs decode to, their concatenation decodes to, merged; and a     *)
(* frame that was parsed is parsed the same when more bytes follow.        *)
Merged(f, g, rest) == [payload |-> IF OfKind(StrictFields(rest), 1, 2) = <<>>
                                     THEN f.payload ELSE g.payload,
                       binary |-> IF OfKind(StrictFields(rest), 2, 0) = <<>>
                                     THEN f.binary ELSE g.binary]

DecodersCompose ==
    \A n \in 0..Len(bytes) :
        LET a == Prefix(bytes, n)
            b == SubSeq(bytes, n + 1, Len(bytes))
        IN  /\ {DecodeFrameProto(a), DecodeFrameProto(b)} \cap {None, Trap} = {} =>
                 DecodeFrameProto(bytes) = Merged(DecodeFrameProto(a), DecodeFrameProto(b), b)
            /\ ParseWsFrame(a) # None => ParseWsFrame(bytes) = ParseWsFrame(a)

-----------------------------------------------------------------------------
(* Scopes. *)

Regular(hs) == SelectSeq(hs, LAMBDA h : h.name \notin Pseudo)

ScopeOf(target) == WsScope(Metadata(ParseHttpRequestHeaders("GET", target, lines)))

(* The headers of the scope are those of the request, in order, each once: *)
(* of an upgrade those that are not gRPC's or the bridge's own, in lower   *)
(* case, or none if a line is not UTF-8; of an HTTP request those that are *)
(* not pseudo-headers, and a host for each :authority.                     *)
HeadersReachApp ==
    /\ \A target \in Target :
        LET kept == SelectSeq(IF Contains(lines, NotUtf8) THEN <<>> ELSE lines,
                    LAMBDA l : l # Absent /\ l.name \notin {"user-agent", "grpcgi-other"})
        IN  ScopeOf(target).headers = [i \in 1..Len(kept) |-> Header(kept[i].name, kept[i].value)]
    /\ Regular(SelectSeq(HttpScope(fields).headers, LAMBDA h : h.name # "host")) = Regular(fields)
    /\ Len(HttpScope(fields).headers) =
         Len(SelectSeq(fields, LAMBDA h : h.name = ":authority" \/ h.name \notin Pseudo))

(* ws.py: the filter is configured to match the "grpcgi-" keys by which    *)
(* _build_scope knows the path.  So the application sees the path that the *)
(* client asked for.                                                       *)
PathReachesApp == \A target \in Target : ScopeOf(target).path = target.path

=============================================================================
