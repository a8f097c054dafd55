------------------------------- MODULE TlsProxy -------------------------------
(***************************************************************************)
(* One session of src/tools/tls_terminate_proxy.py, the proxy on port 443  *)
(* between the game client and its backends: handle_client looks at the    *)
(* first bytes, decides what the session is, ends the client's TLS or      *)
(* leaves it alone, connects to a backend and starts one pump thread for   *)
(* each direction.                                                         *)
(*                                                                         *)
(* A token stands for some bytes.  "rec1", "rec2", "sni" are the           *)
(* ClientHello: the five bytes of the first peek, which may arrive in two  *)
(* parts, and the rest.  "get1" and "get2" are the two parts of an HTTP    *)
(* method and what follows it, "end0" the end of a header without a body,  *)
(* "end1" the end of a header with one, "body" that body.  "js5" is the    *)
(* first byte of a JS5 handshake, "game" any other traffic.  "rehost" is   *)
(* "get2" as rewrite_http_request leaves it, "cipher" a TLS record that is *)
(* read without being decrypted.  What a backend sends is numbered, and 0  *)
(* is a record of it that is not decrypted.                                *)
(***************************************************************************)
EXTENDS Naturals, Sequences, SequencesExt

CONSTANTS Cases,      \* clients and the options of the proxy they meet
          MaxReplies  \* bound: tokens one backend connection sends

Token == {"get1", "get2", "end0", "end1", "body", "js5", "game"}
HelloToken == {"rec1", "rec2", "sni"}
Wire == Token \cup HelloToken \cup {"rehost", "cipher"}

ClientKind == [tls : BOOLEAN, sni : {"localhost", "world", "content", "other"}, app : Seq(Token)]

\* What the tokens stand for: a method begins a request, and what follows it comes next; a
\* body comes after the header that announces it.  Bytes that merely look like these in
\* the middle of other traffic are part of a "game" token.
WellFormed(app) ==
    \A i \in DOMAIN app :
        /\ app[i] = "get1" => i = 1 \/ app[i - 1] \in {"end0", "body"}
        /\ app[i] = "get1" => i = Len(app) \/ app[i + 1] = "get2"
        /\ app[i] = "get2" => i > 1 /\ app[i - 1] = "get1"
        /\ app[i] = "end1" => i = Len(app) \/ app[i + 1] = "body"
        /\ app[i] = "body" => i > 1 /\ app[i - 1] = "end1"

\* --tls-passthrough, --allow-retail-js5-upstream, --raw-client-byte-cap
Settings == [passthrough : BOOLEAN, retail : BOOLEAN, cap : Nat]

ASSUME CasesAssumption ==
    /\ Cases \subseteq ClientKind \X Settings
    /\ \A c \in Cases : WellFormed(c[1].app)
ASSUME MaxRepliesAssumption == MaxReplies \in Nat

VARIABLES
    client,    \* who connected
    cfg,       \* the options the proxy was started with
    toSend,    \* what the client has still to send
    up,        \* sent by the client, not yet read by the proxy
    cEnd,      \* the client's end of its stream: "open", "eof", "reset"
    replies,   \* tokens sent on the backend connection in use
    down,      \* sent by the backend, not yet read by the proxy
    rEnd,      \* the backend's end of its stream
    atRemote,  \* what the backend has received
    atClient,  \* what the client has received
    remoteFin, \* the proxy has shut the backend's stream down for writing
    clientFin, \* and the client's
    pc,        \* where handle_client is
    how,       \* "raw", or route_mode
    route,     \* session_route
    source,    \* route_source
    target,    \* the backend connected to
    peeked,    \* len(initial_peek)
    hand1,     \* read from the client, not passed on: buffered_client_data, data, pending
    hand2,     \* read from the backend, not passed on
    t1,        \* the pump from the client
    t2,        \* the pump to the client
    upCount,   \* client_counter
    tlsC,      \* TLS of client_stream
    tlsR,      \* TLS of remote_stream
    socks      \* sockets of the session that are open

ends == <<client, cfg>>
wire == <<toSend, up, cEnd, replies, down, rEnd>>
clientWire == <<toSend, cEnd>>
got == <<atRemote, atClient, remoteFin, clientFin>>
choice == <<how, route, source, target>>
hands == <<hand1, hand2>>
pumps == <<t1, t2, upCount>>
tls == <<tlsC, tlsR>>
vars == <<ends, wire, got, pc, choice, peeked, hands, pumps, tls, socks>>

End == {"open", "eof", "reset"}
Tls == {"plain", "up", "dropping", "dropped"}
Thread == {"off", "recv", "send", "fin", "done"}
Source == {"none", "clienthello", "raw-js5-retail", "client-js5-retail", "client-js5",
           "client-http", "client-nonhttp", "backend", "timeout", "eof"}

TypeOK ==
    /\ <<client, cfg>> \in Cases
    /\ toSend \in Seq(Wire) /\ up \in Seq(Wire) /\ cEnd \in End
    /\ replies \in 0..MaxReplies /\ down \in Seq(Nat) /\ rEnd \in End
    /\ atRemote \in Seq(Wire) /\ atClient \in Seq(Nat)
    /\ remoteFin \in BOOLEAN /\ clientFin \in BOOLEAN
    /\ pc \in {"accepted", "peek", "hello", "wrap", "provision", "inspect", "sniff",
               "connect", "forward", "pump", "ending", "done", "died"}
    /\ how \in {"none", "raw", "passthrough", "mitm", "inspect", "terminate"}
    /\ route \in {"none", "raw", "game", "http"}
    /\ source \in Source /\ target \in {"none", "local", "retail", "content"}
    /\ peeked \in 0..3 /\ hand1 \in Seq(Wire) /\ hand2 \in Seq(Nat)
    /\ t1 \in Thread /\ t2 \in Thread /\ upCount \in Nat
    /\ tlsC \in Tls /\ tlsR \in Tls
    /\ socks \subseteq {"client", "provisional", "remote"}

Hello == IF client.tls THEN <<"rec1", "rec2", "sni">> ELSE <<>>

Init ==
    /\ \E c \in Cases : client = c[1] /\ cfg = c[2]
    /\ toSend = Hello \o client.app /\ up = <<>> /\ cEnd = "open"
    /\ replies = 0 /\ down = <<>> /\ rEnd = "open"
    /\ atRemote = <<>> /\ atClient = <<>> /\ remoteFin = FALSE /\ clientFin = FALSE
    /\ pc = "accepted" /\ how = "none" /\ route = "none"
    /\ source = "none" /\ target = "none" /\ peeked = 0
    /\ hand1 = <<>> /\ hand2 = <<>> /\ t1 = "off" /\ t2 = "off" /\ upCount = 0
    /\ tlsC = "plain" /\ tlsR = "plain" /\ socks = {"client"}

-----------------------------------------------------------------------------
(* Looking at bytes *)

\* looks_like_http_request
LooksHttp(s) == IsPrefix(<<"get1", "get2">>, s)

\* looks_like_js5_handshake_prefix
LooksJs5(s) == s # <<>> /\ Head(s) = "js5"

\* looks_like_tls_client_hello: it takes all five bytes
LooksHello(s) == IsPrefix(<<"rec1", "rec2">>, s)

\* expectedTotalBytes of parse_http_request_header, 0 while the header is not whole
HeaderEnds(s) == {i \in DOMAIN s : s[i] \in {"end0", "end1"}}
\* Mutant: the body is not counted.
RequestLengthOfHeader(s) ==
    IF ~LooksHttp(s) \/ HeaderEnds(s) = {} THEN 0
    ELSE Min(HeaderEnds(s))

RequestLength(s) ==
    IF ~LooksHttp(s) \/ HeaderEnds(s) = {} THEN 0
    ELSE LET i == Min(HeaderEnds(s))
         IN  IF s[i] = "end1" THEN i + 1 ELSE i

\* the test of flush_complete_requests
HasRequest(s) == RequestLength(s) \in 1..Len(s)

\* rewrite_http_request: the Host header is the backend's
Rewritten(request) == [request EXCEPT ![2] = "rehost"]

\* decide_tls_route_from_clienthello; name is "none" when the hello could not be parsed
RouteOf(name) ==
    CASE cfg.passthrough -> [route |-> "game", how |-> "passthrough"]
      [] ~cfg.passthrough /\ name = "localhost" -> [route |-> "http", how |-> "inspect"]
      [] ~cfg.passthrough /\ name = "world" -> [route |-> "game", how |-> "terminate"]
      [] ~cfg.passthrough /\ name = "content" -> [route |-> "http", how |-> "mitm"]
      [] OTHER -> [route |-> "game", how |-> "passthrough"]

\* Mutant: a part of an HTTP method decides, as in classify_tls_first_appdata.
SniffedAtOnce(s) ==
    CASE LooksJs5(s) -> IF cfg.retail THEN "client-js5-retail" ELSE "client-js5"
      [] LooksHttp(s) -> "client-http"
      [] s = <<>> -> "none"
      [] OTHER -> "client-nonhttp"

\* classify_tls_client_prefix_route, after the test for JS5 that precedes it
SniffedSource(s) ==
    CASE LooksJs5(s) -> IF cfg.retail THEN "client-js5-retail" ELSE "client-js5"
      [] LooksHttp(s) -> "client-http"
      [] s \in {<<>>, <<"get1">>} -> "none"
      [] OTHER -> "client-nonhttp"

\* the pump of an HTTP session parses requests; the others pass bytes on
Http == route = "http" /\ how # "passthrough"
Capped == how = "raw" /\ cfg.cap > 0
CapReached == Capped /\ upCount >= cfg.cap

\* should_disable_pump_timeouts
Untimed == how = "raw" \/ route = "game"

\* What recv returns when s is in the buffer of a stream: SSLSocket.shutdown lets go
\* of the TLS object, but a read already in progress still uses it.
Readings(s, state, opaque) ==
    LET raw == [i \in DOMAIN s |-> opaque]
    IN  CASE state \in {"plain", "up"} -> {s}
          [] state = "dropping" -> {s, raw}
          [] state = "dropped" -> {raw}

AfterRead(state) == IF state = "dropping" THEN "dropped" ELSE state
AfterShutdown(state, reader) ==
    IF state # "up" THEN state ELSE IF reader = "recv" THEN "dropping" ELSE "dropped"

-----------------------------------------------------------------------------
(* The client and the backend *)

Live == pc \notin {"done", "died"}
Connected == socks \cap {"provisional", "remote"} # {}

\* A TLS client sends its own data when the handshake is over, with whomever it is.
Handshaken == tlsC # "plain" \/ (how = "passthrough" /\ pc = "pump")

ClientSends ==
    /\ Live /\ cEnd = "open" /\ toSend # <<>>
    /\ client.tls => Head(toSend) \in HelloToken \/ Handshaken
    /\ up' = Append(up, Head(toSend)) /\ toSend' = Tail(toSend)
    /\ UNCHANGED <<ends, cEnd, replies, down, rEnd, got, pc, choice, peeked, hands,
                   pumps, tls, socks>>

ClientCloses ==
    /\ Live /\ cEnd = "open" /\ cEnd' = "eof"
    /\ UNCHANGED <<ends, toSend, up, replies, down, rEnd, got, pc, choice, peeked,
                   hands, pumps, tls, socks>>

ClientResets ==
    /\ Live /\ cEnd # "reset" /\ cEnd' = "reset" /\ up' = <<>>
    /\ UNCHANGED <<ends, toSend, replies, down, rEnd, got, pc, choice, peeked, hands,
                   pumps, tls, socks>>

RemoteSends ==
    /\ Live /\ Connected /\ rEnd = "open" /\ replies < MaxReplies
    /\ replies' = replies + 1 /\ down' = Append(down, replies + 1)
    /\ UNCHANGED <<ends, clientWire, up, rEnd, got, pc, choice, peeked, hands, pumps,
                   tls, socks>>

RemoteCloses ==
    /\ Live /\ Connected /\ rEnd = "open" /\ rEnd' = "eof"
    /\ UNCHANGED <<ends, clientWire, up, replies, down, got, pc, choice, peeked, hands,
                   pumps, tls, socks>>

RemoteResets ==
    /\ Live /\ Connected /\ rEnd # "reset" /\ rEnd' = "reset" /\ down' = <<>>
    /\ UNCHANGED <<ends, clientWire, up, replies, got, pc, choice, peeked, hands, pumps,
                   tls, socks>>

-----------------------------------------------------------------------------
(* handle_client *)

\* The except clause: whatever raises ends the session.
Raises == pc' = "ending"

\* getpeername is called before the try: a client that is gone by then ends the
\* thread without a log, a summary or a close.
Begins ==
    /\ pc = "accepted"
    /\ \/ pc' = "peek"
       \/ cEnd = "reset" /\ pc' = "died"
    /\ UNCHANGED <<ends, wire, got, choice, peeked, hands, pumps, tls, socks>>

\* recv(5, MSG_PEEK); two tokens are five bytes.
Peeks ==
    /\ pc = "peek" /\ cEnd # "reset"
    /\ up # <<>> \/ cEnd = "eof"
    /\ LET seen == SubSeq(up, 1, IF Len(up) < 2 THEN Len(up) ELSE 2)
       IN  /\ peeked' = Len(seen)
           /\ IF LooksHello(seen)
              THEN pc' = "hello" /\ UNCHANGED choice
              ELSE /\ pc' = "connect" /\ how' = "raw" /\ route' = "raw"
                   /\ source' = IF LooksJs5(seen) /\ cfg.retail THEN "raw-js5-retail"
                                ELSE "none"
                   /\ UNCHANGED target
    /\ UNCHANGED <<ends, wire, got, hands, pumps, tls, socks>>

\* The client has sent nothing within socket_timeout, or is gone.
PeekFails ==
    /\ pc = "peek" /\ up = <<>> /\ cEnd # "eof" /\ Raises
    /\ UNCHANGED <<ends, wire, got, choice, peeked, hands, pumps, tls, socks>>

\* peek_tls_client_hello reads what is there of the record, and nothing else can be there
\* yet; parse_tls_client_hello_sni finds no name in a part of it.
Classifies ==
    /\ pc = "hello"
    /\ IF cEnd = "reset"
       THEN Raises /\ UNCHANGED <<choice, peeked>>
       ELSE LET r == RouteOf(IF "sni" \in Range(up) THEN client.sni ELSE "none")
            IN  /\ peeked' = Len(up) /\ how' = r.how /\ route' = r.route
                /\ source' = "clienthello" /\ UNCHANGED target
                /\ pc' = IF r.how = "passthrough" THEN "connect" ELSE "wrap"
    /\ UNCHANGED <<ends, wire, got, hands, pumps, tls, socks>>

\* wrap_socket: the handshake, with the whole ClientHello.
Wraps ==
    /\ pc = "wrap" /\ cEnd = "open" /\ "sni" \in Range(up)
    /\ up' = <<>> /\ tlsC' = "up"
    /\ pc' = CASE how = "inspect" -> "provision"
               [] how = "terminate" -> "sniff"
               [] OTHER -> "connect"
    /\ UNCHANGED <<ends, clientWire, replies, down, rEnd, got, choice, peeked, hands,
                   pumps, tlsR, socks>>

WrapFails ==
    /\ pc = "wrap" /\ Raises
    /\ UNCHANGED <<ends, wire, got, choice, peeked, hands, pumps, tls, socks>>

\* Before it inspects, the proxy connects to the game backend, on trial.
Provisions ==
    /\ pc = "provision"
    /\ \/ pc' = "inspect" /\ socks' = socks \cup {"provisional"}
       \/ Raises /\ UNCHANGED socks
    /\ UNCHANGED <<ends, wire, got, choice, peeked, hands, pumps, tls>>

\* What handle_client does with the answer of classify_tls_first_appdata: the
\* connection on trial is kept or closed.
Settles(r, s) ==
    /\ route' = r /\ source' = s /\ UNCHANGED how
    /\ IF r = "http"
       THEN /\ socks' = socks \ {"provisional"} /\ pc' = "connect"
            /\ UNCHANGED target
       ELSE /\ socks' = (socks \ {"provisional"}) \cup {"remote"} /\ pc' = "forward"
            /\ target' = "local"

\* classify_tls_first_appdata with the client ready: what it sent decides, whatever it
\* is, and what the backend sent meanwhile is kept for it.
InspectsClient ==
    /\ pc = "inspect" /\ cEnd # "reset" /\ up # <<>>
    /\ up' = <<>> /\ hand1' = up
    /\ IF LooksHttp(up)
       THEN Settles("http", "client-http") /\ UNCHANGED <<hand2, down>>
       ELSE /\ rEnd # "reset" /\ Settles("game", "client-nonhttp")
            /\ hand2' = down /\ down' = <<>>
    /\ UNCHANGED <<ends, clientWire, replies, rEnd, got, peeked, pumps, tls>>

\* ... with nothing from the client: the end of its stream, the backend or the clock.
InspectsOther ==
    /\ pc = "inspect" /\ up = <<>> /\ cEnd # "reset"
    /\ cEnd = "eof" \/ rEnd # "reset"
    /\ IF cEnd = "eof" \/ (down = <<>> /\ rEnd = "eof")
       THEN Settles("game", "eof") /\ UNCHANGED <<hand2, down>>
       ELSE IF down # <<>>
       THEN Settles("game", "backend") /\ hand2' = down /\ down' = <<>>
       ELSE Settles("game", "timeout") /\ UNCHANGED <<hand2, down>>
    /\ UNCHANGED <<ends, clientWire, up, replies, rEnd, got, peeked, hand1, pumps, tls>>

\* Mutant: a read that raises leaves the connection on trial open.
InspectFailsLeaking ==
    /\ pc = "inspect"
    /\ cEnd = "reset" \/ (rEnd = "reset" /\ up = <<>> /\ cEnd = "open")
    /\ Raises
    /\ UNCHANGED <<ends, wire, got, choice, peeked, hands, pumps, tls, socks>>

\* A read raises; the connection on trial is closed.
InspectFails ==
    /\ pc = "inspect"
    /\ \/ cEnd = "reset"
       \/ rEnd = "reset" /\ ~LooksHttp(up) /\ (up = <<>> => cEnd = "open")
    /\ socks' = socks \ {"provisional"} /\ Raises
    /\ UNCHANGED <<ends, wire, got, choice, peeked, hands, pumps, tls>>

\* sniff_terminated_tls_route
Sniffed(s) ==
    /\ source' = s /\ route' = (IF s = "client-http" THEN "http" ELSE "game")
    /\ pc' = "connect" /\ UNCHANGED <<how, target>>

Sniffs ==
    /\ pc = "sniff" /\ cEnd # "reset" /\ up # <<>>
    /\ up' = <<>> /\ hand1' = hand1 \o up
    /\ IF SniffedSource(hand1') = "none"
       THEN UNCHANGED <<pc, choice>>
       ELSE Sniffed(SniffedSource(hand1'))
    /\ UNCHANGED <<ends, clientWire, replies, down, rEnd, got, peeked, hand2, pumps,
                   tls, socks>>

SniffEnds ==
    /\ pc = "sniff" /\ up = <<>>
    /\ \/ cEnd = "reset" /\ Raises /\ UNCHANGED choice
       \/ cEnd = "eof" /\ Sniffed("eof")
       \/ cEnd = "open" /\ Sniffed("timeout")
    /\ UNCHANGED <<ends, wire, got, peeked, hands, pumps, tls, socks>>

\* create_remote_stream
TargetOf ==
    CASE route = "http" -> "content"
      [] source \in {"raw-js5-retail", "client-js5-retail"} -> "retail"
      [] OTHER -> "local"

Connects ==
    /\ pc = "connect"
    /\ \/ /\ pc' = "forward" /\ target' = TargetOf
          /\ socks' = socks \cup {"remote"}
          /\ tlsR' = IF route = "http" \/ source = "client-js5-retail" THEN "up"
                     ELSE "plain"
          /\ replies' = 0 /\ down' = <<>> /\ rEnd' = "open"
       \/ Raises /\ UNCHANGED <<target, socks, tlsR, replies, down, rEnd>>
    /\ UNCHANGED <<ends, clientWire, up, got, how, route, source, peeked, hands, pumps,
                   tlsC>>

StartsPumps(first) ==
    /\ pc' = "pump" /\ t2' = "recv"
    /\ t1' = IF Http /\ HasRequest(first) THEN "send" ELSE "recv"

\* Mutant: what was peeked at is sent on without being read.
ForwardsPeekedOnly ==
    /\ pc = "forward" /\ tlsC = "plain" /\ cEnd # "reset"
    /\ atRemote' = SubSeq(up, 1, peeked) /\ upCount' = peeked
    /\ StartsPumps(<<>>)
    /\ UNCHANGED <<ends, wire, atClient, remoteFin, clientFin, choice, peeked, hands, tls,
                   socks>>

\* forward_initial_raw_bytes: what was peeked at is read and sent on before the pumps
\* start.
ForwardsPeeked ==
    /\ pc = "forward" /\ tlsC = "plain" /\ cEnd # "reset"
    /\ atRemote' = SubSeq(up, 1, peeked) /\ upCount' = peeked
    /\ up' = SubSeq(up, peeked + 1, Len(up))
    /\ StartsPumps(<<>>)
    /\ UNCHANGED <<ends, clientWire, replies, down, rEnd, atClient, remoteFin,
                   clientFin, choice, peeked, hands, tls, socks>>

\* send_buffered_data, both ways; an HTTP session leaves its bytes to the pump.
ForwardsBuffered ==
    /\ pc = "forward" /\ tlsC # "plain"
    /\ IF Http
       THEN UNCHANGED <<atRemote, atClient, hands, upCount>>
       ELSE /\ atRemote' = hand1 /\ atClient' = hand2 /\ upCount' = Len(hand1)
            /\ hand1' = <<>> /\ hand2' = <<>>
    /\ StartsPumps(hand1)
    /\ UNCHANGED <<ends, wire, remoteFin, clientFin, choice, peeked, tls, socks>>

ForwardFails ==
    /\ pc = "forward" /\ ~Http /\ (cEnd = "reset" \/ rEnd # "open") /\ Raises
    /\ UNCHANGED <<ends, wire, got, choice, peeked, hands, pumps, tls, socks>>

\* The finally clause, and the return, when the last reference to the TLS stream goes.
Ends ==
    /\ \/ pc = "ending"
       \/ pc = "pump" /\ t1 = "done" /\ t2 = "done"
    /\ pc' = "done" /\ socks' = socks \ {"client", "remote"}
    /\ UNCHANGED <<ends, wire, got, choice, peeked, hands, pumps, tls>>

-----------------------------------------------------------------------------
(* The pump threads *)

\* recv of pump, pump_with_byte_cap and pump_http_requests: at the cap the rest of
\* what was read is dropped; a request waits until it is whole.
UpReads ==
    /\ pc = "pump" /\ t1 = "recv" /\ ~CapReached /\ cEnd # "reset" /\ up # <<>>
    /\ \E data \in Readings(up, tlsC, "cipher") :
          LET kept == IF Capped /\ Len(data) > cfg.cap - upCount
                      THEN SubSeq(data, 1, cfg.cap - upCount) ELSE data
          IN  /\ hand1' = hand1 \o kept
              /\ t1' = IF Http /\ ~HasRequest(hand1') THEN "recv" ELSE "send"
    /\ up' = <<>> /\ tlsC' = AfterRead(tlsC)
    /\ UNCHANGED <<ends, clientWire, replies, down, rEnd, got, pc, choice, peeked,
                   hand2, t2, upCount, tlsR, socks>>

\* Mutant: no stream has a timeout.
UpStopsAtEndOnly ==
    /\ pc = "pump" /\ t1 = "recv" /\ t1' = "fin"
    /\ CapReached \/ (up = <<>> /\ cEnd # "open")
    /\ UNCHANGED <<ends, wire, got, pc, choice, peeked, hands, t2, upCount, tls, socks>>

\* Mutant: game sessions have one.
UpStopsAnyTime ==
    /\ pc = "pump" /\ t1 = "recv" /\ t1' = "fin"
    /\ CapReached \/ up = <<>>
    /\ UNCHANGED <<ends, wire, got, pc, choice, peeked, hands, t2, upCount, tls, socks>>

\* The cap, the end of the stream, an error, or socket_timeout where it is not disabled.
UpStops ==
    /\ pc = "pump" /\ t1 = "recv" /\ t1' = "fin"
    /\ CapReached \/ (up = <<>> /\ (cEnd # "open" \/ ~Untimed))
    /\ UNCHANGED <<ends, wire, got, pc, choice, peeked, hands, t2, upCount, tls, socks>>

\* sendall; flush_complete_requests sends one request at a time.
UpSends ==
    /\ pc = "pump" /\ t1 = "send" /\ rEnd # "reset"
    /\ LET n == IF Http THEN RequestLength(hand1) ELSE Len(hand1)
           data == SubSeq(hand1, 1, n)
       IN  /\ atRemote' = atRemote \o (IF Http THEN Rewritten(data) ELSE data)
           /\ hand1' = SubSeq(hand1, n + 1, Len(hand1)) /\ upCount' = upCount + n
    /\ t1' = IF Http /\ HasRequest(hand1') THEN "send" ELSE "recv"
    /\ UNCHANGED <<ends, wire, atClient, remoteFin, clientFin, pc, choice, peeked,
                   hand2, t2, tls, socks>>

UpSendFails ==
    /\ pc = "pump" /\ t1 = "send" /\ rEnd # "open" /\ t1' = "fin"
    /\ UNCHANGED <<ends, wire, got, pc, choice, peeked, hands, t2, upCount, tls, socks>>

\* Mutant: the backend is not told the end of the client's stream.
UpFinishesSilently ==
    /\ pc = "pump" /\ t1 = "fin" /\ t1' = "done"
    /\ UNCHANGED <<ends, wire, got, pc, choice, peeked, hands, t2, upCount, tls, socks>>

\* The finally clause: shutdown_target is false in an HTTP session.
UpFinishes ==
    /\ pc = "pump" /\ t1 = "fin" /\ t1' = "done"
    /\ IF Http THEN UNCHANGED <<remoteFin, tlsR>>
       ELSE remoteFin' = TRUE /\ tlsR' = AfterShutdown(tlsR, t2)
    /\ UNCHANGED <<ends, wire, atRemote, atClient, clientFin, pc, choice, peeked, hands,
                   t2, upCount, tlsC, socks>>

\* pump and pump_http_response, from the backend to the client.
DownReads ==
    /\ pc = "pump" /\ t2 = "recv" /\ rEnd # "reset" /\ down # <<>>
    /\ hand2' \in Readings(down, tlsR, 0) /\ t2' = "send"
    /\ down' = <<>> /\ tlsR' = AfterRead(tlsR)
    /\ UNCHANGED <<ends, clientWire, up, replies, rEnd, got, pc, choice, peeked, hand1,
                   t1, upCount, tlsC, socks>>

DownStops ==
    /\ pc = "pump" /\ t2 = "recv" /\ t2' = "fin"
    /\ down = <<>> /\ (rEnd # "open" \/ ~Untimed)
    /\ UNCHANGED <<ends, wire, got, pc, choice, peeked, hands, t1, upCount, tls, socks>>

DownSends ==
    /\ pc = "pump" /\ t2 = "send" /\ cEnd # "reset"
    /\ atClient' = atClient \o hand2 /\ hand2' = <<>> /\ t2' = "recv"
    /\ UNCHANGED <<ends, wire, atRemote, remoteFin, clientFin, pc, choice, peeked,
                   hand1, t1, upCount, tls, socks>>

DownSendFails ==
    /\ pc = "pump" /\ t2 = "send" /\ cEnd # "open" /\ t2' = "fin"
    /\ UNCHANGED <<ends, wire, got, pc, choice, peeked, hands, t1, upCount, tls, socks>>

DownFinishes ==
    /\ pc = "pump" /\ t2 = "fin" /\ t2' = "done"
    /\ clientFin' = TRUE /\ tlsC' = AfterShutdown(tlsC, t1)
    /\ UNCHANGED <<ends, wire, atRemote, atClient, remoteFin, pc, choice, peeked, hands,
                   t1, upCount, tlsR, socks>>

-----------------------------------------------------------------------------
Peers ==
    \/ ClientSends \/ ClientCloses \/ ClientResets
    \/ RemoteSends \/ RemoteCloses \/ RemoteResets

Handler ==
    \/ Begins \/ Peeks \/ PeekFails \/ Classifies \/ Wraps \/ WrapFails \/ Provisions
    \/ InspectsClient \/ InspectsOther \/ InspectFails \/ Sniffs \/ SniffEnds
    \/ Connects \/ ForwardsPeeked \/ ForwardsBuffered \/ ForwardFails \/ Ends

UpPump == UpReads \/ UpStops \/ UpSends \/ UpSendFails \/ UpFinishes
DownPump == DownReads \/ DownStops \/ DownSends \/ DownSendFails \/ DownFinishes

Next == Peers \/ Handler \/ UpPump \/ DownPump

\* The proxy's threads run.  Of a peer it is only assumed, and only in the sessions
\* without timeouts, that it closes its end once it has been sent the end of the other's.
Fairness ==
    /\ WF_vars(Handler) /\ WF_vars(UpPump) /\ WF_vars(DownPump)
    /\ WF_vars(Untimed /\ clientFin /\ ClientCloses)
    /\ WF_vars(Untimed /\ remoteFin /\ RemoteCloses)

Spec == Init /\ [][Next]_vars /\ Fairness

-----------------------------------------------------------------------------
(* Properties *)

\* What a backend has received, before the proxy rewrote it.
AsSent(s) == [i \in DOMAIN s |-> IF s[i] = "rehost" THEN "get2" ELSE s[i]]

\* What the client has sent to whoever speaks to it: without the ClientHello where the
\* proxy ends its TLS.
Sent ==
    LET script == Hello \o client.app
        all == SubSeq(script, 1, Len(script) - Len(toSend))
    IN  IF tlsC = "plain" THEN all ELSE SubSeq(all, Len(Hello) + 1, Len(all))

\* handle_client, pump, pump_http_requests: what the client sends is read by a peek, by
\* a classifier, by the main thread and by a pump, in turn; the backend gets it in
\* order, and until a pump ends or fails nothing is lost or duplicated between them.
UpstreamIntact ==
    tlsC \in {"plain", "up"} =>
        /\ IsPrefix(AsSent(atRemote), Sent)
        /\ pc # "ending" /\ t1 \in {"off", "recv", "send"} /\ cEnd # "reset" /\ ~Capped
           /\ Live
           => AsSent(atRemote) \o hand1 \o up = Sent

\* classify_tls_first_appdata, pump, pump_http_response: the same of what the backend
\* in use sends; what the backend on trial sent never reaches an HTTP client.
DownstreamIntact ==
    tlsR \in {"plain", "up"} =>
        LET said == [i \in 1..replies |-> i]
        IN  /\ target # "none" => IsPrefix(atClient, said)
            /\ pc = "pump" /\ t2 \in {"recv", "send"} /\ rEnd # "reset"
               => atClient \o hand2 \o down = said

\* handle_client and everything it calls: each peer's bytes reach the other once and in
\* order, whoever reads and writes them, and the session's fields keep their types.
StreamsIntact == TypeOK /\ UpstreamIntact /\ DownstreamIntact

\* pump: a peer that is told the end of the stream, and has not gone itself, has been
\* sent everything the other sent before it closed.
NothingCutShort ==
    /\ remoteFin /\ cEnd = "eof" /\ rEnd = "open" /\ ~Capped
       /\ tlsC \in {"plain", "up"}
       => atRemote = Sent
    /\ clientFin /\ rEnd = "eof" /\ cEnd = "open" /\ Untimed /\ tlsR \in {"plain", "up"}
       => atClient = [i \in 1..replies |-> i]

\* pump_http_requests: however the client's bytes are cut, the content backend sees
\* whole requests only, each of them rewritten.
WholeRequests ==
    target = "content" /\ tlsC = "up" /\ atRemote # <<>> =>
        /\ Last(atRemote) \in {"end0", "body"}
        /\ "get2" \notin Range(atRemote)

\* sniff_terminated_tls_route, --allow-retail-js5-upstream: a client whose first bytes
\* decided was routed by what it really sends, however they were cut; and only what starts
\* like JS5, and only with the option, leaves for the retail servers.
RoutedRight ==
    /\ how = "terminate" /\ pc \notin {"wrap", "sniff", "ending", "done"} =>
           /\ source = "client-http" => client.app[1] = "get1"
           /\ source = "client-nonhttp" => client.app[1] \notin {"get1", "js5"}
    /\ target = "retail" =>
           /\ cfg.retail /\ client.app[1] = "js5"
           /\ atRemote # <<>> => Head(atRemote) = "js5"

\* handle_client closes every socket it opened, on every way out of it.
NoSocketLeft == pc = "done" => socks = {}

\* socket_timeout: until a game session is pumping, and in an HTTP session for good, no
\* peer can hold the proxy's threads up.
ProxySettles == []<>(~Live \/ (pc = "pump" /\ Untimed))

\* The timeouts of a game session are disabled: its threads end when a peer closes and
\* the other does so in its turn.
GameEnds == (pc = "pump" /\ (cEnd # "open" \/ rEnd # "open")) ~> ~Live

=============================================================================
