---------------------------- MODULE ScopeBuilders ----------------------------
(***************************************************************************)
(* How a request becomes an ASGI scope: the headers each Envoy filter      *)
(* takes from an upgrade request (parse_http_request_headers in            *)
(* wasm/src/lib.rs, startGrpcStream in ws_grpc_bridge_filter.cc), and the  *)
(* two _build_scope of python/grpcgi/ws.py and http.py.                    *)
(*                                                                         *)
(* A header is a name, in lower case or capitalised, and a value; headers  *)
(* that only name themselves stand for all others.  A request target is    *)
(* its path and its query (Absent when it has no "?"), an authority its host *)
(* and its port (Absent when it has no ":").                                 *)
(*                                                                         *)
(* A definition whose name ends in _word is a broken variant of the one    *)
(* after it, for mutation checks.                                          *)
(***************************************************************************)
EXTENDS Naturals, Sequences

CONSTANTS
    Absent,   \* no query, no port, no colon
    NotUtf8   \* a header line that is not UTF-8

Header(name, value) == [name |-> name, capital |-> FALSE, value |-> value]

Lower_kept(h) == h
Lower(h) == [h EXCEPT !.capital = FALSE]

Method(name, capital) == [name |-> name, capital |-> capital]
Upper(m) == [m EXCEPT !.capital = TRUE]

Pseudo == {":method", ":path", ":scheme", ":authority"}

-----------------------------------------------------------------------------
(* Upgrade requests. *)

(* The request line, then every line with a colon (one without is Absent), *)
(* its name lowered; nothing at all of a block that is not UTF-8.          *)
ParseHttpRequestHeaders(method, target, lines) ==
    LET fields == SelectSeq(lines, LAMBDA l : l # Absent)
    IN  IF \E i \in 1..Len(lines) : lines[i] = NotUtf8 THEN <<>> ELSE
        <<Header(":method", method), Header(":path", target)>>
            \o [i \in 1..Len(fields) |-> Lower(fields[i])]

(* What of the headers becomes metadata of the call: gRPC rejects keys     *)
(* that start with ":".                                                    *)
Metadata(headers) == SelectSeq(headers, LAMBDA h : h.name \notin Pseudo)

-----------------------------------------------------------------------------
(* The value of the last header of that name, or a default. *)
LastValue(hs, name, default) ==
    LET them == SelectSeq(hs, LAMBDA h : h.name = name)
    IN  IF them = <<>> THEN default ELSE them[Len(them)].value

(* The path of the last target; a query stays until another one comes. *)
TargetIn(hs, name) ==
    [path  |-> LastValue(hs, name, [path |-> "/"]).path,
     query |-> LastValue(SelectSeq(hs, LAMBDA h : h.name = name /\ h.value.query # Absent), name,
                         [query |-> Absent]).query]

NoAuthority == [host |-> "", port |-> Absent]

(* _parse_authority: a port that is not a number is left in the host. *)
ParseAuthority(a) ==
    IF a = NoAuthority THEN <<"localhost", 80>>
    ELSE IF a.port # Absent THEN <<a.host, a.port>>
    ELSE <<a.host, 80>>

(* raw_headers: what a header adds to them, by its name. *)
Dropped == {"grpcgi-path", "grpcgi-scheme", "grpcgi-other", "user-agent", ":authority"}

WsRawHeader(h) ==
    IF h.name = "grpcgi-authority" THEN <<Header("host", h.value)>>
    ELSE IF h.name = "grpcgi-protocol" THEN <<Header("sec-websocket-protocol", h.value)>>
    ELSE IF h.name \in Dropped THEN <<>>
    ELSE <<Lower(h)>>

HttpRawHeader(h) ==
    IF h.name = ":authority" THEN <<Header("host", h.value)>>
    ELSE IF h.name \in Pseudo THEN <<>>
    ELSE <<h>>

AllOf(Op(_), hs) ==
    LET upto[n \in 0..Len(hs)] == IF n = 0 THEN <<>> ELSE upto[n - 1] \o Op(hs[n])
    IN  upto[Len(hs)]

WsScope(metadata) ==
    LET target == TargetIn(metadata, "grpcgi-path")
    IN  [path |-> target.path, query |-> target.query,
         scheme |-> IF LastValue(metadata, "grpcgi-scheme", "ws") \in {"https", "wss"}
                      THEN "wss" ELSE "ws",
         server |-> ParseAuthority(LastValue(metadata, "grpcgi-authority", NoAuthority)),
         subprotocols |-> LastValue(metadata, "grpcgi-protocol", <<>>),
         headers |-> AllOf(WsRawHeader, metadata)]

HttpScope(headers) ==
    LET target == TargetIn(headers, ":path")
    IN  [method |-> Upper(LastValue(headers, ":method", Method("GET", TRUE))),
         path |-> target.path, query |-> target.query,
         scheme |-> LastValue(headers, ":scheme", "http"),
         server |-> ParseAuthority(LastValue(headers, ":authority", NoAuthority)),
         headers |-> AllOf(HttpRawHeader, headers)]

=============================================================================
