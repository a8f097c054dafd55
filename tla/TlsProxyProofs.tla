---------------------------- MODULE TlsProxyProofs ----------------------------
(***************************************************************************)
(* Theorems about TlsProxy, for every client, every setting and every      *)
(* number of replies.                                                      *)
(***************************************************************************)
EXTENDS TlsProxy, SequenceTheorems, WellFoundedInduction, TLAPS

----------------------------------------------------------------------------
(* The sockets of a session.                                               *)

\* The connection on trial is open only while the session is inspected, so that the
\* finally clause, which knows of the client's and the backend's, closes all there is.
Sockets ==
    /\ socks \subseteq {"client", "provisional", "remote"}
    /\ "provisional" \in socks => pc = "inspect"
    /\ pc = "done" => socks = {}

LEMMA SocketsInit == Init => Sockets
    BY DEF Init, Sockets

\* What the peers do, and the pumps, leaves the sockets as they are.
LEMMA OthersKeepSockets == Peers \/ UpPump \/ DownPump => UNCHANGED <<socks, pc>>
<1>1. Peers => UNCHANGED <<socks, pc>>
    BY DEF Peers, ClientSends, ClientCloses, ClientResets, RemoteSends, RemoteCloses, RemoteResets
<1>2. UpPump => UNCHANGED <<socks, pc>>
    BY DEF UpPump, UpReads, UpStops, UpSends, UpSendFails, UpFinishes
<1>3. DownPump => UNCHANGED <<socks, pc>>
    BY DEF DownPump, DownReads, DownStops, DownSends, DownSendFails, DownFinishes
<1> QED BY <1>1, <1>2, <1>3

\* Up to the inspection handle_client has the client's socket only.
LEMMA BeforeInspection ==
    ASSUME Sockets,
           Begins \/ Peeks \/ PeekFails \/ Classifies \/ Wraps \/ WrapFails \/ Provisions
    PROVE  Sockets'
<1>1. CASE Begins \/ PeekFails \/ WrapFails
    BY <1>1 DEF Begins, PeekFails, WrapFails, Raises, Sockets
<1>2. CASE Peeks
    BY <1>2 DEF Peeks, Sockets
<1>3. CASE Classifies
    BY <1>3 DEF Classifies, Raises, Sockets
<1>4. CASE Wraps
    BY <1>4 DEF Wraps, Sockets
<1>5. CASE Provisions
    BY <1>5 DEF Provisions, Raises, Sockets
<1> QED BY <1>1, <1>2, <1>3, <1>4, <1>5

\* Each way out of the inspection keeps the connection on trial as the backend's or closes it.
LEMMA Inspection ==
    ASSUME Sockets, InspectsClient \/ InspectsOther \/ InspectFails
    PROVE  Sockets'
<1>1. ASSUME NEW r, NEW s, Settles(r, s)
      PROVE  Sockets'
  <2>1. CASE r = "http"
    <3>1. socks' = socks \ {"provisional"} /\ pc' = "connect"
        BY <1>1, <2>1 DEF Settles
    <3> QED BY <3>1 DEF Sockets
  <2>2. CASE r # "http"
    <3>1. socks' = (socks \ {"provisional"}) \cup {"remote"} /\ pc' = "forward"
        BY <1>1, <2>2 DEF Settles
    <3> QED BY <3>1 DEF Sockets
  <2> QED BY <2>1, <2>2
<1>2. CASE InspectsClient
    BY <1>1, <1>2 DEF InspectsClient
<1>3. CASE InspectsOther
    BY <1>1, <1>3 DEF InspectsOther
<1>4. CASE InspectFails
    BY <1>4 DEF InspectFails, Raises, Sockets
<1> QED BY <1>2, <1>3, <1>4

LEMMA AfterInspection ==
    ASSUME Sockets, Sniffs \/ SniffEnds \/ Connects \/ ForwardsPeeked \/ ForwardsBuffered
                    \/ ForwardFails \/ Ends
    PROVE  Sockets'
<1>1. CASE Sniffs \/ SniffEnds
  <2>1. ASSUME NEW s, Sniffed(s)
        PROVE  pc' = "connect"
      BY <2>1 DEF Sniffed
  <2>2. pc = "sniff" /\ pc' \in {"sniff", "connect", "ending"} /\ UNCHANGED socks
    <3>1. CASE Sniffs
        BY <2>1, <3>1 DEF Sniffs
    <3>2. CASE SniffEnds
        BY <2>1, <3>2 DEF SniffEnds, Raises
    <3> QED BY <1>1, <3>1, <3>2
  <2> QED BY <2>2 DEF Sockets
<1>2. CASE Connects
    BY <1>2 DEF Connects, Raises, Sockets
<1>3. CASE ForwardsPeeked \/ ForwardsBuffered \/ ForwardFails
    BY <1>3 DEF ForwardsPeeked, ForwardsBuffered, ForwardFails, StartsPumps, Raises, Sockets
<1>4. CASE Ends
    BY <1>4 DEF Ends, Sockets
<1> QED BY <1>1, <1>2, <1>3, <1>4

LEMMA SocketsStep == Sockets /\ [Next]_vars => Sockets'
<1> SUFFICES ASSUME Sockets, [Next]_vars PROVE Sockets'
    OBVIOUS
<1>1. CASE Handler
    BY <1>1, BeforeInspection, Inspection, AfterInspection DEF Handler
<1>2. CASE Peers \/ UpPump \/ DownPump
    BY <1>2, OthersKeepSockets DEF Sockets
<1>3. CASE UNCHANGED vars
    BY <1>3 DEF vars, Sockets
<1> QED BY <1>1, <1>2, <1>3 DEF Next

\* handle_client: whichever way a session ends, none of its sockets stays open.
THEOREM SocketsClosed == Spec => []NoSocketLeft
<1>1. Sockets => NoSocketLeft
    BY DEF Sockets, NoSocketLeft
<1> QED BY <1>1, SocketsInit, SocketsStep, PTL DEF Spec

----------------------------------------------------------------------------
(* The bytes on their way: the inductive invariant.                        *)

Script == Hello \o client.app
AllSent == SubSeq(Script, 1, Len(Script) - Len(toSend))
Said(n) == [i \in 1..n |-> i]

Plain == Token \cup HelloToken   \* what a client sends
Kept == Wire \ {"rehost"}        \* what the proxy reads of it

TlsUp(state) == state \in {"plain", "up"}

\* The fields, more narrowly than in TypeOK.
Types ==
    /\ TypeOK
    /\ toSend \in Seq(Plain) /\ up \in Seq(Plain) /\ hand1 \in Seq(Kept)

\* What the client has still to send is the end of its script; a TLS client sends its
\* own data after the handshake only.
Scripted ==
    /\ Len(toSend) <= Len(Script)
    /\ toSend = SubSeq(Script, Len(Script) - Len(toSend) + 1, Len(Script))
    /\ tlsC # "plain" => client.tls /\ Len(toSend) <= Len(client.app)
    /\ client.tls /\ pc \in {"accepted", "peek", "hello", "wrap"}
       => Len(toSend) >= Len(client.app)

\* Before the pumps run, nothing has been passed on, and up to the inspection nothing
\* has been read.
Early == {"accepted", "peek", "hello", "wrap", "provision", "inspect", "sniff", "connect", "forward"}
Unread ==
    /\ pc \in Early \cup {"ending"} => /\ atRemote = <<>> /\ atClient = <<>> /\ upCount = 0
                        /\ t1 = "off" /\ t2 = "off" /\ ~remoteFin /\ ~clientFin
                        /\ TlsUp(tlsC) /\ TlsUp(tlsR)
    /\ pc \in {"accepted", "peek", "hello", "wrap", "provision", "inspect"} => hand1 = <<>>
    /\ pc \in {"connect", "forward"} /\ tlsC = "plain" => hand1 = <<>>
    /\ pc \in Early \ {"forward"} => hand2 = <<>>
    /\ pc = "forward" /\ (tlsC = "plain" \/ Http) => hand2 = <<>>

\* What is known of the session where.
Known ==
    /\ pc \in {"accepted", "peek", "hello", "died"}
       => how = "none" /\ route = "none" /\ source = "none" /\ target = "none"
    /\ pc \in {"accepted", "peek", "hello", "wrap"} => tlsC = "plain"
    /\ pc \in {"hello", "wrap"} => client.tls
    /\ pc \in {"wrap", "provision", "inspect", "sniff"}
       => /\ how \in {"inspect", "terminate", "mitm"} /\ target = "none"
          /\ route \in {"game", "http"}
    /\ pc \in {"provision", "inspect"} => how = "inspect"
    /\ pc = "sniff" => how = "terminate"
    /\ pc \in {"provision", "inspect", "sniff"} => tlsC = "up"
    /\ pc \in {"connect", "forward", "pump"} => how # "none" /\ route # "none"
    /\ how = "raw" <=> route = "raw"
    /\ how = "passthrough" => route = "game"
    /\ pc \in {"connect", "forward", "pump"} /\ how \notin {"raw", "passthrough"} => tlsC # "plain"
    /\ how = "raw" => tlsC = "plain"
    /\ pc \in {"forward", "pump"} => target # "none"
    /\ target = "content" => route = "http" /\ how # "passthrough"
    /\ pc \in {"connect", "forward"} /\ tlsC = "plain" /\ cEnd # "reset" => peeked <= Len(up)

\* The pumps.
Pumping ==
    /\ pc = "pump" => t1 # "off" /\ t2 # "off"
    /\ pc \notin {"pump", "done"} => t1 = "off" /\ t2 = "off"
    /\ t1 = "recv" /\ ~Http => hand1 = <<>>
    /\ t1 = "send" /\ Http => HasRequest(hand1)
    /\ t2 = "recv" => hand2 = <<>>
    /\ remoteFin => t1 = "done" /\ ~Http
    /\ clientFin => t2 = "done"
    /\ ~Http => atRemote \in Seq(Kept)

\* What was sent is what was passed on, what is in hand, and what is still to be read.
Flowing ==
    /\ pc \notin {"ending", "done", "died"}
    /\ t1 \in {"off", "recv", "send"}
    /\ cEnd # "reset"
    /\ Capped => upCount + Len(hand1) < cfg.cap

UpFlow ==
    TlsUp(tlsC) =>
        /\ IsPrefix(AsSent(atRemote) \o hand1, Sent)
        /\ Flowing => AsSent(atRemote) \o hand1 \o up = Sent

\* The same of the backend's replies.
DownFlow ==
    /\ pc \in {"accepted", "peek", "hello", "wrap", "provision", "sniff"}
       => replies = 0 /\ down = <<>> /\ rEnd = "open" /\ socks = {"client"}
    /\ TlsUp(tlsR) =>
         /\ IsPrefix(atClient \o hand2, Said(replies))
         /\ /\ pc \in {"inspect", "forward", "pump"}
            /\ t2 \in {"off", "recv", "send"} /\ rEnd # "reset"
            => atClient \o hand2 \o down = Said(replies)

\* A pump that has ended in a session without timeouts has seen the end of its source
\* or the end of its target.
Ended ==
    /\ t1 \in {"fin", "done"} /\ ~Http /\ rEnd = "open" /\ ~Capped =>
         /\ cEnd # "open"
         /\ cEnd = "eof" /\ TlsUp(tlsC) => atRemote = Sent
    /\ t2 \in {"fin", "done"} /\ Untimed /\ cEnd = "open" =>
         /\ rEnd # "open"
         /\ rEnd = "eof" /\ TlsUp(tlsR) => atClient = Said(replies)

\* The content backend's requests.
Requests ==
    target = "content" /\ tlsC = "up" /\ atRemote # <<>> =>
        /\ Last(atRemote) \in {"end0", "body"}
        /\ "get2" \notin Range(atRemote)

\* How the route came about.
Begun(t) == client.app # <<>> /\ client.app[1] = t
Decided ==
    /\ pc \in {"wrap", "provision", "inspect", "sniff"} => source = "clienthello"
    /\ how = "terminate" /\ pc \in {"connect", "forward", "pump"} =>
           /\ source = "client-http" => Begun("get1")
           /\ source = "client-nonhttp" => client.app # <<>> /\ client.app[1] \notin {"get1", "js5"}
    /\ source = "raw-js5-retail" => cfg.retail /\ Begun("js5") /\ ~client.tls /\ how = "raw"
    /\ source = "client-js5-retail" =>
           /\ cfg.retail /\ Begun("js5") /\ how = "terminate" /\ route = "game"
           /\ pc \in {"connect", "forward"} => hand1 # <<>> /\ hand1[1] = "js5"
           /\ pc = "pump" => atRemote # <<>>
           /\ atRemote # <<>> => Head(atRemote) = "js5"
    /\ target = "retail" => source \in {"raw-js5-retail", "client-js5-retail"}

TlsInv ==
    /\ Types /\ Scripted /\ Unread /\ Known /\ Pumping
    /\ UpFlow /\ DownFlow /\ Ended /\ Requests /\ Decided

----------------------------------------------------------------------------
(* Sequences.                                                              *)

LEMMA PrefixIs ==
    ASSUME NEW S, NEW s \in Seq(S), NEW t \in Seq(S)
    PROVE  IsPrefix(s, t) <=> Len(s) <= Len(t) /\ \A i \in 1..Len(s) : s[i] = t[i]
<1>1. CASE Len(s) <= Len(t)
  <2> DEFINE u == SubSeq(t, 1, Len(s))
  <2>1. u \in Seq(S) /\ Len(u) = Len(s) /\ \A i \in 1..Len(s) : u[i] = t[i]
      BY <1>1
  <2>2. SubSeq(s, 1, Len(s)) = s
      BY SubSeqFull, Zenon
  <2>3. s = u <=> \A i \in 1..Len(s) : s[i] = u[i]
    <3> HIDE DEF u
    <3> QED BY <2>1
  <2> QED BY <1>1, <2>1, <2>2, <2>3 DEF IsPrefix
<1> QED BY <1>1 DEF IsPrefix

LEMMA ConcatElements ==
    ASSUME NEW S, NEW s \in Seq(S), NEW t \in Seq(S)
    PROVE  /\ s \o t \in Seq(S) /\ Len(s \o t) = Len(s) + Len(t)
           /\ \A i \in 1..Len(s) : (s \o t)[i] = s[i]
           /\ \A i \in 1..Len(t) : (s \o t)[Len(s) + i] = t[i]
<1>1. /\ s \o t \in Seq(S) /\ Len(s \o t) = Len(s) + Len(t)
      /\ \A i \in 1..Len(s) : (s \o t)[i] = s[i]
    OBVIOUS
<1>2. ASSUME NEW i \in 1..Len(t) PROVE (s \o t)[Len(s) + i] = t[i]
    OBVIOUS
<1> QED BY <1>1, <1>2

\* Two sequences with the same first and last part are the same.
LEMMA SameParts ==
    ASSUME NEW S, NEW s \in Seq(S), NEW t \in Seq(S), NEW m \in Nat, NEW n \in Nat,
           Len(s) = m + n, Len(t) = m + n,
           \A i \in 1..m : s[i] = t[i],
           \A i \in 1..n : s[m + i] = t[m + i]
    PROVE  s = t
<1>1. ASSUME NEW i \in 1..Len(s) PROVE s[i] = t[i]
  <2>1. CASE i \in 1..m
      BY <2>1
  <2>2. CASE i \notin 1..m
    <3>1. i - m \in 1..n /\ m + (i - m) = i
        BY <2>2
    <3>2. s[m + (i - m)] = t[m + (i - m)]
        BY <3>1
    <3> QED BY <3>1, <3>2
  <2> QED BY <2>1, <2>2
<1> QED BY <1>1, SeqEqual, Zenon

LEMMA PrefixOfConcat ==
    ASSUME NEW S, NEW s \in Seq(S), NEW t \in Seq(S)
    PROVE  IsPrefix(s, s \o t)
<1> DEFINE u == s \o t
<1>1. u \in Seq(S) /\ Len(s) <= Len(u) /\ \A i \in 1..Len(s) : s[i] = u[i]
    OBVIOUS
<1> HIDE DEF u
<1>2. IsPrefix(s, u)
    BY <1>1, PrefixIs
<1> QED BY <1>2 DEF u

LEMMA PrefixShorter ==
    ASSUME NEW S, NEW s \in Seq(S), NEW t \in Seq(S), NEW u \in Seq(S), IsPrefix(s \o t, u)
    PROVE  IsPrefix(s, u)
<1> DEFINE v == s \o t
<1>1. v \in Seq(S) /\ Len(s) <= Len(v) /\ \A i \in 1..Len(s) : s[i] = v[i]
    OBVIOUS
<1>2. IsPrefix(v, u)
    OBVIOUS
<1> HIDE DEF v
<1>3. Len(v) <= Len(u) /\ \A i \in 1..Len(v) : v[i] = u[i]
    BY <1>1, <1>2, PrefixIs
<1>4. Len(s) <= Len(u) /\ \A i \in 1..Len(s) : s[i] = u[i]
    BY <1>1, <1>3
<1> QED BY <1>4, PrefixIs

LEMMA PrefixLonger ==
    ASSUME NEW S, NEW s \in Seq(S), NEW t \in Seq(S), NEW e \in S, IsPrefix(s, t)
    PROVE  IsPrefix(s, Append(t, e))
<1> DEFINE u == Append(t, e)
<1>1. u \in Seq(S) /\ Len(u) = Len(t) + 1 /\ \A i \in 1..Len(t) : u[i] = t[i]
    OBVIOUS
<1>2. Len(s) <= Len(t) /\ \A i \in 1..Len(s) : s[i] = t[i]
    BY PrefixIs
<1> HIDE DEF u
<1>3. Len(s) <= Len(u) /\ \A i \in 1..Len(s) : s[i] = u[i]
    BY <1>1, <1>2
<1>4. IsPrefix(s, u)
    BY <1>1, <1>3, PrefixIs
<1> QED BY <1>4 DEF u

LEMMA PrefixOfNothing ==
    ASSUME NEW S, NEW s \in Seq(S)
    PROVE  IsPrefix(<<>>, s) /\ (IsPrefix(s, <<>>) => s = <<>>)
<1>1. <<>> \in Seq(S) /\ Len(<<>>) = 0 /\ Len(s) \in Nat /\ (s # <<>> => Len(s) # 0)
    OBVIOUS
<1>2. SubSeq(<<>>, 1, 0) = <<>> /\ SubSeq(s, 1, 0) = <<>>
    BY SubSeqEmpty
<1>4. IsPrefix(<<>>, s)
    BY <1>1, <1>2 DEF IsPrefix
<1>3. IsPrefix(s, <<>>) => Len(s) <= 0
    BY <1>1 DEF IsPrefix
<1> QED BY <1>1, <1>3, <1>4

\* What the backend received, with the rewriting undone.
LEMMA AsSentElements ==
    ASSUME NEW s \in Seq(Wire)
    PROVE  /\ AsSent(s) \in Seq(Kept) /\ AsSent(s) \in Seq(Wire)
           /\ Len(AsSent(s)) = Len(s)
           /\ \A i \in 1..Len(s) : AsSent(s)[i] = IF s[i] = "rehost" THEN "get2" ELSE s[i]
<1> DEFINE f == [i \in 1..Len(s) |-> IF s[i] = "rehost" THEN "get2" ELSE s[i]]
<1>1. AsSent(s) = f
    BY DEF AsSent
<1>2. Len(s) \in Nat /\ \A i \in 1..Len(s) : s[i] \in Wire
    OBVIOUS
<1>3. f \in [1..Len(s) -> Kept]
    BY <1>2 DEF Kept, Wire, Token
<1>4. f \in Seq(Kept)
    BY <1>2, <1>3, SeqDef, Zenon
<1>5. Len(f) = Len(s)
    BY <1>2, <1>4
<1>6. f \in Seq(Wire)
    BY <1>4, SeqMonotonic, Zenon DEF Kept
<1> QED BY <1>1, <1>4, <1>5, <1>6

LEMMA AsSentOfKept ==
    ASSUME NEW s \in Seq(Kept)
    PROVE  AsSent(s) = s /\ s \in Seq(Wire)
<1>1. s \in Seq(Wire)
    BY SeqMonotonic, Zenon DEF Kept
<1>2. Len(s) \in Nat /\ \A i \in 1..Len(s) : s[i] # "rehost"
    BY DEF Kept
<1> DEFINE v == AsSent(s)
<1>3. v \in Seq(Wire) /\ Len(v) = Len(s)
      /\ \A i \in 1..Len(s) : v[i] = IF s[i] = "rehost" THEN "get2" ELSE s[i]
    BY <1>1, AsSentElements, Zenon
<1> HIDE DEF v
<1>4. s = v
    BY <1>1, <1>2, <1>3
<1> QED BY <1>1, <1>4 DEF v

LEMMA AsSentOfConcat ==
    ASSUME NEW s \in Seq(Wire), NEW t \in Seq(Wire)
    PROVE  AsSent(s \o t) = AsSent(s) \o AsSent(t)
<1> DEFINE u == s \o t
           a == AsSent(s)
           b == AsSent(t)
           l == AsSent(u)
           r == a \o b
<1>1. /\ u \in Seq(Wire) /\ Len(u) = Len(s) + Len(t)
      /\ \A i \in 1..Len(s) : u[i] = s[i]
      /\ \A i \in 1..Len(t) : u[Len(s) + i] = t[i]
    BY ConcatElements
<1>2. /\ a \in Seq(Wire) /\ Len(a) = Len(s)
      /\ \A i \in 1..Len(s) : a[i] = IF s[i] = "rehost" THEN "get2" ELSE s[i]
    BY AsSentElements, Zenon
<1>3. /\ b \in Seq(Wire) /\ Len(b) = Len(t)
      /\ \A i \in 1..Len(t) : b[i] = IF t[i] = "rehost" THEN "get2" ELSE t[i]
    BY AsSentElements, Zenon
<1> HIDE DEF u, a, b
<1>4. /\ l \in Seq(Wire) /\ Len(l) = Len(u)
      /\ \A i \in 1..Len(u) : l[i] = IF u[i] = "rehost" THEN "get2" ELSE u[i]
    BY <1>1, AsSentElements, Zenon
<1>5. /\ r \in Seq(Wire) /\ Len(r) = Len(a) + Len(b)
      /\ \A i \in 1..Len(a) : r[i] = a[i]
      /\ \A i \in 1..Len(b) : r[Len(a) + i] = b[i]
  <2>1. a \in Seq(Wire) /\ b \in Seq(Wire)
      BY <1>2, <1>3
  <2> QED BY <2>1, ConcatElements
<1> HIDE DEF l, r
<1>6. Len(s) \in Nat /\ Len(t) \in Nat
    OBVIOUS
<1>7. ASSUME NEW i \in 1..Len(s) PROVE l[i] = r[i]
  <2>1. i \in 1..Len(u) /\ i \in 1..Len(a)
      BY <1>1, <1>2, <1>6
  <2> QED BY <2>1, <1>1, <1>2, <1>4, <1>5
<1>8. ASSUME NEW i \in 1..Len(t) PROVE l[Len(s) + i] = r[Len(s) + i]
  <2>1. Len(s) + i \in 1..Len(u)
      BY <1>1, <1>6
  <2>2. l[Len(s) + i] = IF u[Len(s) + i] = "rehost" THEN "get2" ELSE u[Len(s) + i]
      BY <1>4, <2>1
  <2>3. r[Len(s) + i] = b[i]
      BY <1>2, <1>3, <1>5
  <2> QED BY <2>2, <2>3, <1>1, <1>3
<1>9. Len(l) = Len(s) + Len(t) /\ Len(r) = Len(s) + Len(t)
    BY <1>1, <1>2, <1>3, <1>4, <1>5
<1>10. l = r
    BY <1>4, <1>5, <1>6, <1>7, <1>8, <1>9, SameParts
<1> QED BY <1>10 DEF l, r, u, a, b

\* A part passed on and the rest are the whole.
LEMMA CutInTwo ==
    ASSUME NEW S, NEW s \in Seq(S), NEW n \in 0..Len(s)
    PROVE  /\ SubSeq(s, 1, n) \in Seq(S) /\ Len(SubSeq(s, 1, n)) = n
           /\ \A i \in 1..n : SubSeq(s, 1, n)[i] = s[i]
           /\ SubSeq(s, n + 1, Len(s)) \in Seq(S)
           /\ Len(SubSeq(s, n + 1, Len(s))) = Len(s) - n
           /\ SubSeq(s, 1, n) \o SubSeq(s, n + 1, Len(s)) = s
<1> DEFINE u == SubSeq(s, 1, n)
           v == SubSeq(s, n + 1, Len(s))
<1>1. u \in Seq(S) /\ Len(u) = n /\ \A i \in 1..n : u[i] = s[i]
    OBVIOUS
<1>2. v \in Seq(S) /\ Len(v) = Len(s) - n /\ \A i \in 1..(Len(s) - n) : v[i] = s[n + i]
    OBVIOUS
<1>3. Len(s) \in Nat /\ n \in Nat /\ n <= Len(s)
    OBVIOUS
<1> HIDE DEF u, v
<1>4. /\ u \o v \in Seq(S) /\ Len(u \o v) = Len(u) + Len(v)
      /\ \A i \in 1..Len(u) : (u \o v)[i] = u[i]
      /\ \A i \in 1..Len(v) : (u \o v)[Len(u) + i] = v[i]
  <2>1. u \in Seq(S) /\ v \in Seq(S)
      BY <1>1, <1>2
  <2> QED BY <2>1, ConcatElements
<1> DEFINE w == u \o v
<1>5. /\ w \in Seq(S) /\ Len(w) = n + (Len(s) - n) /\ Len(s) = n + (Len(s) - n)
      /\ \A i \in 1..n : w[i] = s[i]
      /\ \A i \in 1..(Len(s) - n) : w[n + i] = s[n + i]
      /\ Len(s) - n \in Nat
  <2>1. Len(s) - n \in Nat /\ Len(s) = n + (Len(s) - n)
      BY <1>3
  <2>2. w \in Seq(S) /\ Len(w) = n + (Len(s) - n)
      BY <1>1, <1>2, <1>4
  <2>3. \A i \in 1..n : w[i] = s[i]
      BY <1>1, <1>4
  <2>4. \A i \in 1..(Len(s) - n) : w[n + i] = s[n + i]
      BY <1>1, <1>2, <1>4
  <2> QED BY <2>1, <2>2, <2>3, <2>4
<1> HIDE DEF w
<1> DEFINE k == Len(s) - n
<1>6. w = s
  <2>1. /\ w \in Seq(S) /\ Len(w) = n + k /\ Len(s) = n + k
        /\ \A i \in 1..n : w[i] = s[i]
        /\ \A i \in 1..k : w[n + i] = s[n + i]
        /\ k \in Nat /\ n \in Nat
      BY <1>3, <1>5
  <2> HIDE DEF k
  <2> QED BY <2>1, SameParts, Zenon
<1> QED BY <1>1, <1>2, <1>6 DEF u, v, w

LEMMA LeastOf ==
    ASSUME NEW T \in SUBSET Nat, T # {}
    PROVE  Min(T) \in T /\ \A y \in T : Min(T) <= y
<1>1. PICK x \in T : \A y \in T : ~(<<y, x>> \in OpToRel(<, Nat))
    BY NatLessThanWellFounded, WFMin, Zenon
<1>2. ASSUME NEW y \in T PROVE x <= y
  <2>1. x \in Nat /\ y \in Nat
      OBVIOUS
  <2>2. ~(y < x)
    <3>1. SUFFICES ASSUME y < x PROVE FALSE
        OBVIOUS
    <3>2. <<y, x>> \in Nat \X Nat /\ <<y, x>>[1] < <<y, x>>[2]
        BY <2>1, <3>1
    <3>3. <<y, x>> \in OpToRel(<, Nat)
        BY <3>2, Zenon DEF OpToRel
    <3> QED BY <1>1, <3>3, Zenon
  <2> QED BY <2>1, <2>2
<1> QED BY <1>2 DEF Min

----------------------------------------------------------------------------
(* Requests.                                                               *)

LEMMA BeginsWithTwo ==
    ASSUME NEW s \in Seq(Wire), NEW a \in Wire, NEW b \in Wire
    PROVE  IsPrefix(<<a, b>>, s) <=> Len(s) >= 2 /\ s[1] = a /\ s[2] = b
<1> DEFINE p == <<a, b>>
<1>1. p \in Seq(Wire) /\ Len(p) = 2 /\ p[1] = a /\ p[2] = b
    OBVIOUS
<1> HIDE DEF p
<1>2. IsPrefix(p, s) <=> Len(p) <= Len(s) /\ \A i \in 1..Len(p) : p[i] = s[i]
  <2>1. ASSUME NEW q \in Seq(Wire), NEW r \in Seq(Wire)
        PROVE  IsPrefix(q, r) <=> Len(q) <= Len(r) /\ \A i \in 1..Len(q) : q[i] = r[i]
      BY PrefixIs
  <2> QED BY <1>1, <2>1
<1>3. Len(s) \in Nat /\ 1..Len(p) = {1, 2}
    BY <1>1
<1>4. IsPrefix(p, s) <=> Len(s) >= 2 /\ s[1] = a /\ s[2] = b
    BY <1>1, <1>2, <1>3
<1> QED BY <1>4 DEF p

LEMMA HttpIs ==
    ASSUME NEW s \in Seq(Wire)
    PROVE  LooksHttp(s) <=> Len(s) >= 2 /\ s[1] = "get1" /\ s[2] = "get2"
    BY BeginsWithTwo DEF LooksHttp, Wire, Token

LEMMA HelloIs ==
    ASSUME NEW s \in Seq(Wire)
    PROVE  LooksHello(s) <=> Len(s) >= 2 /\ s[1] = "rec1" /\ s[2] = "rec2"
    BY BeginsWithTwo DEF LooksHello, Wire, HelloToken

\* A whole request begins with the method and ends with its header or the body.
LEMMA RequestIs ==
    ASSUME NEW s \in Seq(Wire), HasRequest(s)
    PROVE  /\ RequestLength(s) \in 3..Len(s)
           /\ s[1] = "get1" /\ s[2] = "get2"
           /\ \E h \in 3..Len(s) :
                /\ \A j \in 1..(h - 1) : s[j] \notin {"end0", "end1"}
                /\ \/ s[h] = "end0" /\ RequestLength(s) = h
                   \/ s[h] = "end1" /\ RequestLength(s) = h + 1
<1>1. Len(s) \in Nat /\ DOMAIN s = 1..Len(s)
    OBVIOUS
<1>2. RequestLength(s) # 0 /\ RequestLength(s) \in 1..Len(s)
    BY <1>1 DEF HasRequest
<1>3. LooksHttp(s) /\ HeaderEnds(s) # {}
    BY <1>2 DEF RequestLength
<1>4. Len(s) >= 2 /\ s[1] = "get1" /\ s[2] = "get2"
    BY <1>3, HttpIs
<1> DEFINE h == Min(HeaderEnds(s))
<1>5. h \in HeaderEnds(s) /\ \A j \in HeaderEnds(s) : h <= j
  <2>1. HeaderEnds(s) \in SUBSET Nat
      BY <1>1 DEF HeaderEnds
  <2> QED BY <2>1, <1>3, LeastOf
<1>6. RequestLength(s) = IF s[h] = "end1" THEN h + 1 ELSE h
    BY <1>3 DEF RequestLength
<1> HIDE DEF h
<1>7. h \in 1..Len(s) /\ s[h] \in {"end0", "end1"}
    BY <1>1, <1>5 DEF HeaderEnds
<1>8. h # 1 /\ h # 2
    BY <1>4, <1>7
<1>9. h \in 3..Len(s)
    BY <1>1, <1>7, <1>8
<1>10. ASSUME NEW j \in 1..(h - 1) PROVE s[j] \notin {"end0", "end1"}
  <2>1. j \in 1..Len(s) /\ ~(h <= j)
      BY <1>1, <1>9
  <2> QED BY <2>1, <1>1, <1>5 DEF HeaderEnds
<1>11. RequestLength(s) \in 3..Len(s)
    BY <1>2, <1>6, <1>9
<1> QED BY <1>4, <1>6, <1>7, <1>9, <1>10, <1>11

LEMMA RewrittenIs ==
    ASSUME NEW d \in Seq(Kept), Len(d) >= 2, d[2] = "get2"
    PROVE  /\ Rewritten(d) \in Seq(Wire) /\ Len(Rewritten(d)) = Len(d)
           /\ \A i \in 1..Len(d) : Rewritten(d)[i] = IF i = 2 THEN "rehost" ELSE d[i]
           /\ AsSent(Rewritten(d)) = d
<1> DEFINE r == Rewritten(d)
<1>1. d \in Seq(Wire) /\ Len(d) \in Nat /\ 2 \in 1..Len(d)
      /\ \A i \in 1..Len(d) : d[i] # "rehost"
    BY AsSentOfKept DEF Kept
<1>2. "rehost" \in Wire
    BY DEF Wire
<1>3. /\ r \in Seq(Wire) /\ Len(r) = Len(d)
      /\ \A i \in 1..Len(d) : r[i] = IF i = 2 THEN "rehost" ELSE d[i]
    BY <1>1, <1>2, ExceptSeq DEF Rewritten
<1> HIDE DEF r
<1> DEFINE v == AsSent(r)
<1>4. /\ v \in Seq(Wire) /\ Len(v) = Len(r)
      /\ \A i \in 1..Len(r) : v[i] = IF r[i] = "rehost" THEN "get2" ELSE r[i]
    BY <1>3, AsSentElements
<1> HIDE DEF v
<1>5. v = d
    BY <1>1, <1>3, <1>4
<1> QED BY <1>3, <1>5 DEF r, v

\* recv returns what is there while the stream is as it was set up.
LEMMA ReadingsIs ==
    ASSUME NEW s, NEW state, NEW opaque, TlsUp(state)
    PROVE  Readings(s, state, opaque) = {s} /\ AfterRead(state) = state
    BY DEF Readings, TlsUp, AfterRead

\* Once a stream has lost its TLS it does not get it back.
LEMMA TlsStays ==
    ASSUME NEW state, NEW reader
    PROVE  /\ TlsUp(AfterRead(state)) => TlsUp(state) /\ AfterRead(state) = state
           /\ TlsUp(AfterShutdown(state, reader)) => state = "plain" /\ AfterShutdown(state, reader) = state
           /\ state \in Tls => AfterRead(state) \in Tls /\ AfterShutdown(state, reader) \in Tls
    BY DEF TlsUp, AfterRead, AfterShutdown, Tls

----------------------------------------------------------------------------
(* What the client has sent.                                               *)

LEMMA RestOfAppend ==
    ASSUME NEW S, NEW s \in Seq(S), NEW e \in S, NEW h \in 0..Len(s)
    PROVE  SubSeq(Append(s, e), h + 1, Len(Append(s, e))) = Append(SubSeq(s, h + 1, Len(s)), e)
<1> DEFINE a == Append(s, e)
           u == SubSeq(a, h + 1, Len(a))
           v == SubSeq(s, h + 1, Len(s))
           w == Append(v, e)
<1>1. a \in Seq(S) /\ Len(a) = Len(s) + 1 /\ a[Len(s) + 1] = e
      /\ \A i \in 1..Len(s) : a[i] = s[i]
    OBVIOUS
<1>2. Len(s) \in Nat /\ h \in Nat /\ h <= Len(s)
    OBVIOUS
<1>3. v \in Seq(S) /\ Len(v) = Len(s) - h /\ \A i \in 1..(Len(s) - h) : v[i] = s[h + i]
    OBVIOUS
<1> HIDE DEF a, v
<1>4. w \in Seq(S) /\ Len(w) = Len(v) + 1 /\ w[Len(v) + 1] = e /\ \A i \in 1..Len(v) : w[i] = v[i]
    BY <1>3
<1>5. u \in Seq(S) /\ Len(u) = Len(a) - h /\ \A i \in 1..(Len(a) - h) : u[i] = a[h + i]
    BY <1>1, <1>2
<1> HIDE DEF u, w
<1>6. Len(u) = Len(w)
    BY <1>1, <1>2, <1>3, <1>4, <1>5
<1>7. ASSUME NEW i \in 1..Len(u) PROVE u[i] = w[i]
  <2>1. u[i] = a[h + i] /\ h + i \in 1..(Len(s) + 1)
      BY <1>1, <1>2, <1>5
  <2>2. CASE i \in 1..Len(v)
    <3>1. h + i \in 1..Len(s)
        BY <2>2, <1>2, <1>3
    <3> QED BY <2>1, <2>2, <3>1, <1>1, <1>3, <1>4
  <2>3. CASE i = Len(v) + 1
    <3>1. h + i = Len(s) + 1
        BY <2>3, <1>2, <1>3
    <3> QED BY <2>1, <2>3, <3>1, <1>1, <1>4
  <2> QED BY <2>2, <2>3, <1>2, <1>3, <1>4, <1>6
<1>8. u = w
    BY <1>4, <1>5, <1>6, <1>7, SeqEqual
<1> QED BY <1>8 DEF a, u, v, w

LEMMA HelloElements ==
    /\ Hello \in Seq(Plain)
    /\ Len(Hello) = IF client.tls THEN 3 ELSE 0
    /\ client.tls => Hello[1] = "rec1" /\ Hello[2] = "rec2" /\ Hello[3] = "sni"
<1>1. <<"rec1", "rec2", "sni">> \in Seq(Plain)
    BY DEF Plain, HelloToken
<1> QED BY <1>1 DEF Hello

LEMMA AppTyped ==
    ASSUME TypeOK
    PROVE  /\ client \in ClientKind /\ cfg \in Settings /\ client.app \in Seq(Token)
           /\ client.app \in Seq(Plain) /\ WellFormed(client.app)
<1>1. client \in ClientKind /\ cfg \in Settings /\ WellFormed(client.app)
    BY CasesAssumption DEF TypeOK
<1>2. client.app \in Seq(Token)
    BY <1>1 DEF ClientKind
<1>3. client.app \in Seq(Plain)
    BY <1>2, SeqMonotonic DEF Plain
<1> QED BY <1>1, <1>2, <1>3

LEMMA ScriptElements ==
    ASSUME TypeOK
    PROVE  /\ Script \in Seq(Plain) /\ Len(Script) = Len(Hello) + Len(client.app)
           /\ \A i \in 1..Len(Hello) : Script[i] = Hello[i]
           /\ \A i \in 1..Len(client.app) : Script[Len(Hello) + i] = client.app[i]
           /\ Len(client.app) \in Nat
<1>1. Hello \in Seq(Plain) /\ client.app \in Seq(Plain)
    BY AppTyped, HelloElements
<1> DEFINE a == client.app
<1>2. a \in Seq(Plain)
    BY <1>1
<1> HIDE DEF a
<1>3. /\ Hello \o a \in Seq(Plain) /\ Len(Hello \o a) = Len(Hello) + Len(a)
      /\ \A i \in 1..Len(Hello) : (Hello \o a)[i] = Hello[i]
      /\ \A i \in 1..Len(a) : (Hello \o a)[Len(Hello) + i] = a[i]
      /\ Len(a) \in Nat
    BY <1>1, <1>2, ConcatElements
<1> QED BY <1>3 DEF Script, a

LEMMA AllSentElements ==
    ASSUME Types, Scripted
    PROVE  /\ AllSent \in Seq(Plain) /\ Len(AllSent) = Len(Script) - Len(toSend)
           /\ \A i \in 1..Len(AllSent) : AllSent[i] = Script[i]
           /\ Len(toSend) \in Nat /\ Len(Script) \in Nat /\ Len(toSend) <= Len(Script)
<1>1. Script \in Seq(Plain) /\ toSend \in Seq(Plain) /\ Len(toSend) <= Len(Script)
    BY ScriptElements DEF Types, Scripted
<1>2. Len(Script) - Len(toSend) \in 0..Len(Script) /\ Len(toSend) \in Nat /\ Len(Script) \in Nat
    BY <1>1
<1> DEFINE n == Len(Script) - Len(toSend)
<1>3. n \in 0..Len(Script)
    BY <1>2
<1> HIDE DEF n
<1>4. SubSeq(Script, 1, n) \in Seq(Plain) /\ Len(SubSeq(Script, 1, n)) = n
      /\ \A i \in 1..n : SubSeq(Script, 1, n)[i] = Script[i]
    BY <1>1, <1>3, CutInTwo
<1> QED BY <1>1, <1>2, <1>4 DEF n, AllSent

LEMMA SentIs ==
    Sent = IF tlsC = "plain" THEN AllSent ELSE SubSeq(AllSent, Len(Hello) + 1, Len(AllSent))
    BY DEF Sent, AllSent, Script

\* Where the proxy ends the TLS, Sent is the client's own data; elsewhere all it sent.
LEMMA SentElements ==
    ASSUME Types, Scripted
    PROVE  /\ Sent \in Seq(Plain)
           /\ tlsC = "plain" => Sent = AllSent
           /\ tlsC # "plain" => /\ Len(Sent) = Len(client.app) - Len(toSend)
                                /\ \A i \in 1..Len(Sent) : Sent[i] = client.app[i]
           /\ ~client.tls => \A i \in 1..Len(Sent) : Sent[i] = client.app[i]
           /\ Len(Sent) <= Len(Script)
<1>1. /\ AllSent \in Seq(Plain) /\ Len(AllSent) = Len(Script) - Len(toSend)
      /\ \A i \in 1..Len(AllSent) : AllSent[i] = Script[i]
      /\ Len(toSend) \in Nat /\ Len(Script) \in Nat /\ Len(toSend) <= Len(Script)
    BY AllSentElements
<1>2. /\ Len(Script) = Len(Hello) + Len(client.app)
      /\ \A i \in 1..Len(client.app) : Script[Len(Hello) + i] = client.app[i]
      /\ Len(client.app) \in Nat
    BY ScriptElements DEF Types
<1>3. Len(Hello) = IF client.tls THEN 3 ELSE 0
    BY HelloElements
<1>4. CASE tlsC = "plain"
  <2>1. Sent = AllSent
      BY <1>4, SentIs
  <2>2. ASSUME ~client.tls, NEW i \in 1..Len(AllSent) PROVE AllSent[i] = client.app[i]
    <3>1. i \in 1..Len(client.app) /\ Len(Hello) + i = i
        BY <1>1, <1>2, <1>3, <2>2
    <3> QED BY <1>1, <1>2, <2>2, <3>1
  <2> QED BY <1>1, <1>4, <2>1, <2>2
<1>5. CASE tlsC # "plain"
  <2>1. client.tls /\ Len(toSend) <= Len(client.app)
      BY <1>5 DEF Scripted
  <2> DEFINE s == AllSent
             n == Len(Hello)
             u == SubSeq(s, n + 1, Len(s))
  <2>2. s \in Seq(Plain) /\ n \in 0..Len(s)
      BY <1>1, <1>2, <1>3, <2>1
  <2> HIDE DEF s, n
  <2>3. u \in Seq(Plain) /\ Len(u) = Len(s) - n /\ \A i \in 1..(Len(s) - n) : u[i] = s[n + i]
      BY <2>2
  <2>4. Sent = u
      BY <1>5, SentIs DEF s, n
  <2> HIDE DEF u
  <2>5. Len(s) - n = Len(client.app) - Len(toSend) /\ n \in Nat /\ Len(s) \in Nat
    <3>1. Len(Hello) = 3
        BY <1>3, <2>1
    <3> QED BY <1>1, <1>2, <3>1 DEF s, n
  <2>6. ASSUME NEW i \in 1..(Len(s) - n) PROVE u[i] = client.app[i]
    <3>1. i \in 1..Len(client.app) /\ n + i \in 1..Len(s)
        BY <2>5, <1>1, <1>2
    <3>2. s[n + i] = Script[n + i] /\ Script[n + i] = client.app[i]
        BY <3>1, <1>1, <1>2 DEF s, n
    <3> QED BY <2>3, <3>2
  <2>7. Sent \in Seq(Plain) /\ Len(Sent) = Len(client.app) - Len(toSend)
        /\ \A i \in 1..Len(Sent) : Sent[i] = client.app[i]
      BY <2>3, <2>4, <2>5, <2>6
  <2>8. Len(Sent) <= Len(Script)
      BY <1>1, <1>2, <1>3, <2>1, <2>7
  <2> QED BY <1>5, <2>1, <2>7, <2>8
<1> QED BY <1>4, <1>5

LEMMA SentStays ==
    ASSUME UNCHANGED <<client, toSend>>, tlsC' = "plain" <=> tlsC = "plain"
    PROVE  Sent' = Sent
    BY DEF Sent, Hello

\* The client sends the next of its script.
LEMMA SentGrows ==
    ASSUME Types, Scripted, toSend # <<>>, toSend' = Tail(toSend), UNCHANGED <<client, tlsC>>,
           tlsC = "plain" \/ Len(toSend) <= Len(client.app)
    PROVE  Sent' = Append(Sent, Head(toSend)) /\ Head(toSend) \in Plain
<1>1. /\ AllSent \in Seq(Plain) /\ Len(AllSent) = Len(Script) - Len(toSend)
      /\ \A i \in 1..Len(AllSent) : AllSent[i] = Script[i]
      /\ Len(toSend) \in Nat /\ Len(Script) \in Nat /\ Len(toSend) <= Len(Script)
    BY AllSentElements
<1>2. Script \in Seq(Plain)
    BY ScriptElements DEF Types
<1>3. Script' = Script /\ Hello' = Hello
    BY DEF Script, Hello
<1>4. toSend \in Seq(Plain) /\ Head(toSend) = toSend[1] /\ Len(toSend) >= 1 /\ Len(Tail(toSend)) = Len(toSend) - 1
      /\ Head(toSend) \in Plain
    BY DEF Types
<1> DEFINE n == Len(Script) - Len(toSend)
<1>5. n \in 0..Len(Script) /\ n + 1 \in 1..Len(Script) /\ n \in Nat
    BY <1>1, <1>4
<1>6. toSend[1] = Script[n + 1]
  <2>1. toSend = SubSeq(Script, n + 1, Len(Script))
      BY DEF Scripted
  <2> HIDE DEF n
  <2> QED BY <1>2, <1>5, <2>1
<1>7. AllSent' = SubSeq(Script, 1, n + 1)
    BY <1>1, <1>3, <1>4 DEF AllSent
<1>8. AllSent = SubSeq(Script, 1, n)
    BY DEF AllSent
<1> HIDE DEF n
<1>9. SubSeq(Script, 1, n + 1) = Append(SubSeq(Script, 1, n), Script[n + 1])
    BY <1>2, <1>5
<1>10. AllSent' = Append(AllSent, Head(toSend))
    BY <1>4, <1>6, <1>7, <1>8, <1>9
<1>11. CASE tlsC = "plain"
  <2>1. Sent = AllSent
      BY <1>11, SentIs
  <2>2. Sent' = AllSent'
      BY <1>11 DEF Sent, AllSent, Script
  <2> QED BY <1>4, <1>10, <2>1, <2>2
<1>12. CASE tlsC # "plain"
  <2>1. Len(Hello) \in 0..Len(AllSent)
    <3>1. Len(Script) = Len(Hello) + Len(client.app) /\ Len(client.app) \in Nat
        BY ScriptElements DEF Types
    <3>2. Len(Hello) \in Nat
        BY HelloElements
    <3> QED BY <1>1, <1>12, <3>1, <3>2
  <2> DEFINE s == AllSent
             h == Len(Hello)
             e == Head(toSend)
  <2>2. s \in Seq(Plain) /\ h \in 0..Len(s) /\ e \in Plain
      BY <1>1, <1>4, <2>1
  <2>3. Sent = SubSeq(s, h + 1, Len(s))
      BY <1>12, SentIs
  <2>4. AllSent' = Append(s, e)
      BY <1>10
  <2>5. Sent' = SubSeq(AllSent', Len(Hello) + 1, Len(AllSent'))
      BY <1>3, <1>12 DEF Sent, AllSent, Script
  <2>6. Sent' = SubSeq(Append(s, e), h + 1, Len(Append(s, e)))
      BY <2>4, <2>5
  <2> HIDE DEF s, h, e
  <2>7. SubSeq(Append(s, e), h + 1, Len(Append(s, e))) = Append(SubSeq(s, h + 1, Len(s)), e)
      BY <2>2, RestOfAppend
  <2> QED BY <1>4, <2>3, <2>6, <2>7 DEF e
<1> QED BY <1>11, <1>12

----------------------------------------------------------------------------
(* The handler: what raises, and the first steps.                          *)

LEMMA FailsStep ==
    ASSUME TlsInv, pc \in Early, pc' = "ending",
           UNCHANGED <<ends, wire, got, choice, peeked, hands, pumps, tls>>,
           socks' \subseteq socks
    PROVE  TlsInv'
<1> USE DEF ends, wire, got, choice, hands, pumps, tls
<1>0. UNCHANGED <<Sent, Script, Http, Capped, Untimed>>
    BY DEF Sent, Script, Hello, Http, Capped, Untimed
<1>1. Types'
    BY DEF TlsInv, Types, TypeOK
<1>2. Scripted'
    BY <1>0 DEF TlsInv, Scripted
<1>3. Unread'
    BY DEF TlsInv, Unread, Early
<1>4. Known'
    BY DEF TlsInv, Known, Early, Http
<1>5. Pumping'
    BY <1>0 DEF TlsInv, Pumping, Early, HasRequest, RequestLength, LooksHttp, HeaderEnds
<1>6. UpFlow'
  <2>1. ~Flowing'
      BY DEF Flowing
  <2> QED BY <1>0, <2>1 DEF TlsInv, UpFlow, AsSent
<1>7. DownFlow'
    BY DEF TlsInv, DownFlow, Said
<1>8. Ended'
    BY <1>0 DEF TlsInv, Ended, Said
<1>9. Requests'
    BY DEF TlsInv, Requests
<1>10. Decided'
    BY DEF TlsInv, Decided, Begun, Early
<1> QED BY <1>1, <1>2, <1>3, <1>4, <1>5, <1>6, <1>7, <1>8, <1>9, <1>10 DEF TlsInv

LEMMA BeginsStep == TlsInv /\ Begins => TlsInv'
<1> SUFFICES ASSUME TlsInv, Begins PROVE TlsInv'
    OBVIOUS
<1> USE DEF ends, wire, got, choice, hands, pumps, tls
<1>a. /\ pc = "accepted" /\ pc' \in {"peek", "died"}
      /\ UNCHANGED <<ends, wire, got, choice, peeked, hands, pumps, tls, socks>>
    BY DEF Begins
<1>0. UNCHANGED <<Sent, Script, Http, Capped, Untimed>>
    BY <1>a DEF Sent, Script, Hello, Http, Capped, Untimed
<1>1. Types'
    BY <1>a DEF TlsInv, Types, TypeOK
<1>2. Scripted'
    BY <1>0, <1>a DEF TlsInv, Scripted
<1>3. Unread'
    BY <1>a DEF TlsInv, Unread, Early
<1>4. Known'
    BY <1>a DEF TlsInv, Known, Http
<1>5. Pumping'
    BY <1>0, <1>a DEF TlsInv, Pumping, HasRequest, RequestLength, LooksHttp, HeaderEnds
<1>6. UpFlow'
  <2>1. Flowing' => Flowing
      BY <1>0, <1>a DEF Flowing
  <2> QED BY <1>0, <1>a, <2>1 DEF TlsInv, UpFlow, AsSent
<1>7. DownFlow'
    BY <1>a DEF TlsInv, DownFlow, Said
<1>8. Ended'
    BY <1>0, <1>a DEF TlsInv, Ended, Said
<1>9. Requests'
    BY <1>a DEF TlsInv, Requests
<1>10. Decided'
    BY <1>a DEF TlsInv, Decided, Begun
<1> QED BY <1>1, <1>2, <1>3, <1>4, <1>5, <1>6, <1>7, <1>8, <1>9, <1>10 DEF TlsInv

\* What is there to peek at is all the client has sent.
LEMMA PeekedAt ==
    ASSUME TlsInv, pc \in {"accepted", "peek", "hello", "wrap"}, cEnd # "reset"
    PROVE  /\ up = AllSent /\ Sent = AllSent /\ hand1 = <<>> /\ atRemote = <<>>
           /\ client.tls => Len(up) <= 3 /\ \A i \in 1..Len(up) : up[i] = Hello[i]
           /\ ~client.tls => \A i \in 1..Len(up) : up[i] = client.app[i]
           /\ Len(up) <= Len(Script) /\ Len(up) \in Nat
           /\ ~client.tls => Len(up) <= Len(client.app)
<1>1. /\ AllSent \in Seq(Plain) /\ Len(AllSent) = Len(Script) - Len(toSend)
      /\ \A i \in 1..Len(AllSent) : AllSent[i] = Script[i]
      /\ Len(toSend) \in Nat /\ Len(Script) \in Nat /\ Len(toSend) <= Len(Script)
    BY AllSentElements DEF TlsInv
<1>2. /\ Script \in Seq(Plain) /\ Len(Script) = Len(Hello) + Len(client.app)
      /\ \A i \in 1..Len(Hello) : Script[i] = Hello[i]
      /\ \A i \in 1..Len(client.app) : Script[Len(Hello) + i] = client.app[i]
      /\ Len(client.app) \in Nat
    BY ScriptElements DEF TlsInv, Types
<1>3. Len(Hello) = IF client.tls THEN 3 ELSE 0
    BY HelloElements
<1>4. tlsC = "plain" /\ Sent = AllSent
    BY SentElements DEF TlsInv, Known
<1>5. hand1 = <<>> /\ atRemote = <<>> /\ t1 = "off" /\ upCount = 0
    BY DEF TlsInv, Unread, Early
<1>6. Flowing
    BY <1>5 DEF Flowing, Capped, TlsInv, Types, TypeOK, Settings
<1>7. up = AllSent
  <2>1. AsSent(<<>>) = <<>>
      BY DEF AsSent
  <2>2. <<>> \o <<>> \o up = AllSent
      BY <1>4, <1>5, <1>6, <2>1 DEF TlsInv, UpFlow, TlsUp
  <2>3. up \in Seq(Plain)
      BY DEF TlsInv, Types
  <2> QED BY <2>2, <2>3
<1>8. ASSUME client.tls PROVE Len(up) <= 3 /\ \A i \in 1..Len(up) : up[i] = Hello[i]
  <2>1. Len(toSend) >= Len(client.app)
      BY <1>8 DEF TlsInv, Scripted
  <2>2. Len(up) <= 3 /\ Len(up) \in Nat
      BY <1>1, <1>2, <1>3, <1>7, <1>8, <2>1
  <2> QED BY <1>1, <1>2, <1>3, <1>7, <1>8, <2>2
<1>9. ASSUME ~client.tls PROVE /\ \A i \in 1..Len(up) : up[i] = client.app[i]
                               /\ Len(up) <= Len(client.app)
  <2>1. Len(Hello) = 0 /\ Len(up) <= Len(client.app) /\ Len(up) \in Nat
      BY <1>1, <1>2, <1>3, <1>7, <1>9
  <2>2. ASSUME NEW i \in 1..Len(up) PROVE up[i] = client.app[i]
    <3>1. i \in 1..Len(client.app) /\ Len(Hello) + i = i
        BY <1>2, <2>1
    <3>2. Script[Len(Hello) + i] = client.app[i]
        BY <1>2, <3>1
    <3> QED BY <1>1, <1>7, <3>1, <3>2
  <2> QED BY <2>1, <2>2
<1> QED BY <1>1, <1>4, <1>5, <1>7, <1>8, <1>9

LEMMA PeeksStep == TlsInv /\ Peeks => TlsInv'
<1> SUFFICES ASSUME TlsInv, Peeks PROVE TlsInv'
    OBVIOUS
<1> USE DEF ends, wire, got, choice, hands, pumps, tls
<1> DEFINE n == IF Len(up) < 2 THEN Len(up) ELSE 2
           seen == SubSeq(up, 1, n)
<1>a. /\ pc = "peek" /\ cEnd # "reset"
      /\ peeked' = Len(seen)
      /\ UNCHANGED <<ends, wire, got, target, hands, pumps, tls, socks>>
      /\ \/ LooksHello(seen) /\ pc' = "hello" /\ UNCHANGED choice
         \/ /\ ~LooksHello(seen) /\ pc' = "connect" /\ how' = "raw" /\ route' = "raw"
            /\ source' = IF LooksJs5(seen) /\ cfg.retail THEN "raw-js5-retail" ELSE "none"
    BY DEF Peeks
<1>b. up \in Seq(Plain) /\ Len(up) \in Nat
    BY DEF TlsInv, Types
<1>c. /\ seen \in Seq(Plain) /\ Len(seen) = n /\ n <= Len(up) /\ n <= 2 /\ n \in Nat
      /\ \A i \in 1..n : seen[i] = up[i]
      /\ (seen # <<>> => n >= 1 /\ Head(seen) = seen[1])
    BY <1>b
<1> HIDE DEF seen
<1>p. /\ up = AllSent /\ Sent = AllSent /\ hand1 = <<>> /\ atRemote = <<>>
      /\ client.tls => Len(up) <= 3 /\ \A i \in 1..Len(up) : up[i] = Hello[i]
      /\ ~client.tls => \A i \in 1..Len(up) : up[i] = client.app[i]
      /\ ~client.tls => Len(up) <= Len(client.app)
    BY <1>a, PeekedAt
<1>h. LooksHello(seen) => client.tls
  <2> SUFFICES ASSUME LooksHello(seen), ~client.tls PROVE FALSE
      OBVIOUS
  <2>1. seen \in Seq(Wire)
      BY <1>c, SeqMonotonic DEF Plain, Wire
  <2>2. Len(seen) >= 2 /\ seen[1] = "rec1"
      BY <2>1, HelloIs
  <2>3. client.app[1] = "rec1" /\ 1 \in 1..Len(client.app)
      BY <1>b, <1>c, <1>p, <2>2
  <2>4. client.app \in Seq(Token)
      BY AppTyped DEF TlsInv, Types
  <2>5. client.app[1] \in Token
      BY <2>3, <2>4
  <2> QED BY <2>3, <2>5 DEF Token
<1>j. LooksJs5(seen) => ~client.tls /\ Begun("js5")
  <2> SUFFICES ASSUME LooksJs5(seen) PROVE ~client.tls /\ Begun("js5")
      OBVIOUS
  <2>1. n >= 1 /\ up[1] = "js5" /\ 1 \in 1..Len(up)
      BY <1>b, <1>c DEF LooksJs5
  <2>2. ~client.tls
      BY <1>p, <2>1, HelloElements
  <2>3. client.app[1] = "js5" /\ Len(client.app) >= 1
      BY <1>b, <1>p, <2>1, <2>2
  <2>4. client.app # <<>>
      BY <2>3
  <2> QED BY <2>2, <2>3, <2>4 DEF Begun
<1>0. UNCHANGED <<Sent, Script>> /\ ~Http /\ ~Http'
  <2>1. route = "none" /\ route' \in {"none", "raw"}
      BY <1>a DEF TlsInv, Known
  <2> QED BY <1>a, <2>1 DEF Sent, Script, Hello, Http
<1>k. /\ how = "none" /\ route = "none" /\ source = "none" /\ target = "none" /\ tlsC = "plain"
    BY <1>a DEF TlsInv, Known
<1>u. /\ atRemote = <<>> /\ atClient = <<>> /\ upCount = 0
      /\ t1 = "off" /\ t2 = "off" /\ ~remoteFin /\ ~clientFin
      /\ TlsUp(tlsC) /\ TlsUp(tlsR) /\ hand1 = <<>> /\ hand2 = <<>>
    BY <1>a DEF TlsInv, Unread, Early
<1>1. Types'
  <2>1. /\ pc' \in {"hello", "connect"} /\ peeked' \in 0..3 /\ how' \in {"none", "raw"}
        /\ route' \in {"none", "raw"} /\ source' \in {"none", "raw-js5-retail"}
    <3>1. peeked' = Len(seen) /\ Len(seen) = n
        BY <1>a, <1>c
    <3>2. peeked' \in 0..3
      <4> HIDE DEF n
      <4> QED BY <3>1, <1>c
    <3>3. source' \in {"none", "raw-js5-retail"} /\ pc' \in {"hello", "connect"}
        BY <1>a, <1>k
    <3>4. how' \in {"none", "raw"} /\ route' \in {"none", "raw"}
        BY <1>a, <1>k
    <3> QED BY <3>2, <3>3, <3>4
  <2>2. UNCHANGED <<ends, wire, got, target, hands, pumps, tls, socks>>
      BY <1>a
  <2> QED BY <2>1, <2>2 DEF TlsInv, Types, TypeOK, Source
<1>2. Scripted'
    BY <1>0, <1>a DEF TlsInv, Scripted
<1>3. Unread'
    BY <1>a, <1>u, <1>0 DEF Unread, Early
<1>4. Known'
  <2>1. Http' => FALSE
      BY <1>0
  <2> QED BY <1>a, <1>h, <1>k, <1>c, <2>1 DEF TlsInv, Known
<1>5. Pumping'
    BY <1>0, <1>a, <1>u DEF TlsInv, Pumping
<1>6. UpFlow'
  <2>1. Flowing
      BY <1>a, <1>u, <1>k DEF Flowing, Capped
  <2> QED BY <1>0, <1>a, <2>1 DEF TlsInv, UpFlow, AsSent
<1>7. DownFlow'
    BY <1>a, <1>u DEF TlsInv, DownFlow, Said
<1>8. Ended'
    BY <1>0, <1>a, <1>u DEF Ended
<1>9. Requests'
    BY <1>a, <1>k DEF Requests
<1>10. Decided'
    BY <1>a, <1>j, <1>k, <1>u DEF Decided, Begun
<1> QED BY <1>1, <1>2, <1>3, <1>4, <1>5, <1>6, <1>7, <1>8, <1>9, <1>10 DEF TlsInv

LEMMA ClassifiesStep == TlsInv /\ Classifies => TlsInv'
<1> SUFFICES ASSUME TlsInv, Classifies PROVE TlsInv'
    OBVIOUS
<1> USE DEF ends, wire, got, choice, hands, pumps, tls
<1>f. CASE cEnd = "reset"
    BY <1>f, FailsStep DEF Classifies, Raises, Early
<1>g. CASE cEnd # "reset"
  <2>a. /\ pc = "hello" /\ peeked' = Len(up) /\ source' = "clienthello"
        /\ UNCHANGED <<ends, wire, got, target, hands, pumps, tls, socks>>
        /\ \/ how' = "passthrough" /\ route' = "game" /\ pc' = "connect"
           \/ how' = "inspect" /\ route' = "http" /\ pc' = "wrap"
           \/ how' = "terminate" /\ route' = "game" /\ pc' = "wrap"
           \/ how' = "mitm" /\ route' = "http" /\ pc' = "wrap"
    <3> DEFINE r == RouteOf(IF "sni" \in Range(up) THEN client.sni ELSE "none")
    <3>1. \/ r.how = "passthrough" /\ r.route = "game"
          \/ r.how = "inspect" /\ r.route = "http"
          \/ r.how = "terminate" /\ r.route = "game"
          \/ r.how = "mitm" /\ r.route = "http"
        BY DEF RouteOf
    <3>2. /\ pc = "hello" /\ peeked' = Len(up) /\ source' = "clienthello"
          /\ UNCHANGED <<ends, wire, got, target, hands, pumps, tls, socks>>
          /\ how' = r.how /\ route' = r.route
          /\ pc' = IF r.how = "passthrough" THEN "connect" ELSE "wrap"
        BY <1>g DEF Classifies
    <3> HIDE DEF r
    <3> QED BY <3>1, <3>2
  <2>k. /\ how = "none" /\ route = "none" /\ source = "none" /\ target = "none" /\ tlsC = "plain" /\ client.tls
      BY <2>a DEF TlsInv, Known
  <2>p. Len(up) <= 3 /\ Len(up) \in Nat
      BY <1>g, <2>a, <2>k, PeekedAt
  <2>0. UNCHANGED <<Sent, Script>>
      BY <2>a DEF Sent, Script, Hello
  <2>u. /\ atRemote = <<>> /\ atClient = <<>> /\ upCount = 0
        /\ t1 = "off" /\ t2 = "off" /\ ~remoteFin /\ ~clientFin
        /\ TlsUp(tlsC) /\ TlsUp(tlsR) /\ hand1 = <<>> /\ hand2 = <<>>
      BY <2>a DEF TlsInv, Unread, Early
  <2>1. Types'
    <3>1. /\ pc' \in {"wrap", "connect"} /\ peeked' \in 0..3 /\ source' = "clienthello"
          /\ how' \in {"passthrough", "inspect", "terminate", "mitm"} /\ route' \in {"game", "http"}
        BY <2>a, <2>p
    <3>2. UNCHANGED <<ends, wire, got, target, hands, pumps, tls, socks>>
        BY <2>a
    <3> QED BY <3>1, <3>2 DEF TlsInv, Types, TypeOK, Source
  <2>2. Scripted'
      BY <2>0, <2>a DEF TlsInv, Scripted
  <2>3. Unread'
      BY <2>a, <2>u DEF Unread, Early
  <2>4. Known'
      BY <2>a, <2>p, <2>k DEF TlsInv, Known, Http
  <2>5. Pumping'
      BY <2>a, <2>u DEF TlsInv, Pumping
  <2>6. UpFlow'
    <3>1. Flowing
        BY <1>g, <2>a, <2>u, <2>k DEF Flowing, Capped
    <3> QED BY <2>0, <2>a, <3>1 DEF TlsInv, UpFlow, AsSent
  <2>7. DownFlow'
      BY <2>a, <2>u DEF TlsInv, DownFlow, Said
  <2>8. Ended'
      BY <2>a, <2>u DEF Ended
  <2>9. Requests'
      BY <2>a, <2>k DEF Requests
  <2>10. Decided'
      BY <2>a, <2>k, <2>u DEF Decided, Begun
  <2> QED BY <2>1, <2>2, <2>3, <2>4, <2>5, <2>6, <2>7, <2>8, <2>9, <2>10 DEF TlsInv
<1> QED BY <1>f, <1>g

\* Before the pumps, what was sent is in hand or still to be read.
LEMMA EarlyFlow ==
    ASSUME TlsInv, pc \in Early
    PROVE  /\ atRemote = <<>> /\ AsSent(<<>>) = <<>> /\ upCount = 0 /\ t1 = "off" /\ t2 = "off"
           /\ atClient = <<>> /\ ~remoteFin /\ ~clientFin /\ TlsUp(tlsC) /\ TlsUp(tlsR)
           /\ IsPrefix(hand1, Sent) /\ hand1 \in Seq(Kept)
           /\ cEnd # "reset" => hand1 \o up = Sent
<1>1. /\ atRemote = <<>> /\ upCount = 0 /\ t1 = "off" /\ t2 = "off"
      /\ atClient = <<>> /\ ~remoteFin /\ ~clientFin /\ TlsUp(tlsC) /\ TlsUp(tlsR)
    BY DEF TlsInv, Unread
<1>2. AsSent(<<>>) = <<>>
    BY DEF AsSent
<1>3. hand1 \in Seq(Kept) /\ up \in Seq(Plain)
    BY DEF TlsInv, Types
<1>4. <<>> \o hand1 = hand1
    BY <1>3
<1>5. IsPrefix(hand1, Sent)
    BY <1>1, <1>2, <1>4 DEF TlsInv, UpFlow
<1>6. ASSUME cEnd # "reset" PROVE hand1 \o up = Sent
  <2>1. Capped => hand1 = <<>>
      BY DEF Capped, TlsInv, Known, Unread, Early
  <2>2. Capped => upCount + Len(hand1) < cfg.cap
      BY <1>1, <2>1, AppTyped DEF Capped, TlsInv, Types, Settings
  <2>3. Flowing
      BY <1>1, <1>6, <2>2 DEF Flowing, Early
  <2> QED BY <1>1, <1>2, <1>4, <2>3 DEF TlsInv, UpFlow
<1> QED BY <1>1, <1>2, <1>3, <1>5, <1>6

\* ... and while it is read nothing of it is lost.
LEMMA EarlyUpFlow ==
    ASSUME atRemote' = <<>>, hand1' \in Seq(Kept), IsPrefix(hand1', Sent'),
           cEnd' # "reset" => hand1' \o up' = Sent'
    PROVE  UpFlow'
<1>1. AsSent(<<>>) = <<>> /\ <<>> \o hand1' = hand1'
    BY DEF AsSent
<1>2. AsSent(atRemote)' = <<>>
    BY <1>1 DEF AsSent
<1> QED BY <1>1, <1>2 DEF UpFlow, Flowing

LEMMA Nothing ==
    /\ <<>> \o <<>> = <<>> /\ IsPrefix(<<>>, <<>>) /\ Said(0) = <<>> /\ AsSent(<<>>) = <<>>
    /\ <<>> \in Seq(Kept) /\ <<>> \in Seq(Plain) /\ <<>> \in Seq(Nat)
<1>1. SubSeq(<<>>, 1, 0) = <<>>
    BY SubSeqEmpty
<1>2. Len(<<>>) = 0 /\ <<>> \in Seq(Kept) /\ <<>> \in Seq(Plain) /\ <<>> \in Seq(Nat) /\ <<>> \o <<>> = <<>>
    OBVIOUS
<1>3. IsPrefix(<<>>, <<>>)
    BY <1>1, <1>2 DEF IsPrefix
<1>4. Said(0) = <<>> /\ AsSent(<<>>) = <<>>
    BY DEF Said, AsSent
<1> QED BY <1>2, <1>3, <1>4

LEMMA WrapsStep == TlsInv /\ Wraps => TlsInv'
<1> SUFFICES ASSUME TlsInv, Wraps PROVE TlsInv'
    OBVIOUS
<1> USE DEF ends, clientWire, got, choice, hands, pumps
<1>a. /\ pc = "wrap" /\ cEnd = "open" /\ "sni" \in Range(up) /\ up' = <<>> /\ tlsC' = "up"
      /\ how = "inspect" => pc' = "provision"
      /\ how = "terminate" => pc' = "sniff"
      /\ how = "mitm" => pc' = "connect"
      /\ UNCHANGED <<ends, clientWire, replies, down, rEnd, got, choice, peeked, hands, pumps,
                     tlsR, socks>>
    BY DEF Wraps
<1>k. /\ how \in {"inspect", "terminate", "mitm"} /\ target = "none" /\ tlsC = "plain" /\ client.tls
    BY <1>a DEF TlsInv, Known
<1>b. pc' \in {"provision", "sniff", "connect"} /\ how' = how /\ route' = route /\ source' = source
    BY <1>a, <1>k
<1>p. /\ up = AllSent /\ Sent = AllSent /\ hand1 = <<>> /\ atRemote = <<>>
      /\ Len(up) <= 3 /\ Len(up) \in Nat /\ \A i \in 1..Len(up) : up[i] = Hello[i]
    BY <1>a, <1>k, PeekedAt
<1>u. /\ atRemote = <<>> /\ atClient = <<>> /\ upCount = 0
      /\ t1 = "off" /\ t2 = "off" /\ ~remoteFin /\ ~clientFin
      /\ TlsUp(tlsC) /\ TlsUp(tlsR) /\ hand1 = <<>> /\ hand2 = <<>>
    BY <1>a DEF TlsInv, Unread, Early
<1>h. Len(Hello) = 3 /\ Hello[1] = "rec1" /\ Hello[2] = "rec2"
    BY <1>k, HelloElements
<1>n. Len(up) = 3
  <2>1. up \in Seq(Plain)
      BY DEF TlsInv, Types
  <2>2. PICK i \in 1..Len(up) : up[i] = "sni"
      BY <1>a, <2>1 DEF Range
  <2>3. i # 1 /\ i # 2
      BY <1>p, <1>h, <2>2
  <2> QED BY <1>p, <2>2, <2>3
<1>s. Sent' = <<>> /\ Len(toSend) <= Len(client.app)
  <2>1. AllSent' = AllSent /\ Hello' = Hello
      BY <1>a DEF AllSent, Script, Hello
  <2>2. Sent' = SubSeq(AllSent', Len(Hello') + 1, Len(AllSent'))
      BY <1>a DEF Sent, AllSent, Script
  <2>8. Len(Hello) = 3
      BY <1>k, HelloElements
  <2>9. Len(AllSent) = 3 /\ AllSent' = up
      BY <1>p, <1>n, <2>1
  <2>7. Len(Hello') + 1 = 4 /\ Len(AllSent') = 3 /\ AllSent' = up
      BY <2>1, <2>8, <2>9
  <2>3. Sent' = SubSeq(up, 4, 3)
      BY <2>2, <2>7
  <2>4. Len(AllSent) = Len(Script) - Len(toSend) /\ Len(toSend) \in Nat /\ Len(Script) \in Nat
      BY AllSentElements DEF TlsInv
  <2>5. Len(Script) = Len(Hello) + Len(client.app) /\ Len(client.app) \in Nat
      BY ScriptElements DEF TlsInv, Types
  <2>6. Len(toSend) <= Len(client.app)
    <3>1. Len(Script) - Len(toSend) = 3
        BY <2>4, <2>9
    <3>2. Len(Script) = 3 + Len(client.app)
        BY <2>5, <2>8
    <3>3. ASSUME NEW x \in Nat, NEW y \in Nat, NEW z \in Nat, x - y = 3, x = 3 + z
          PROVE  y <= z
        BY <3>3
    <3> QED BY <3>1, <3>2, <3>3, <2>4, <2>5
  <2> QED BY <2>3, <2>6, SubSeqEmpty
<1>1. Types'
    BY <1>a, <1>b DEF TlsInv, Types, TypeOK, Tls
<1>2. Scripted'
    BY <1>a, <1>b, <1>k, <1>s DEF TlsInv, Scripted, Script, Hello
<1>3. Unread'
    BY <1>a, <1>b, <1>u DEF Unread, Early, TlsUp
<1>4. Known'
    BY <1>a, <1>b, <1>k DEF TlsInv, Known, Http
<1>5. Pumping'
    BY <1>a, <1>b, <1>u DEF TlsInv, Pumping, Http
<1>6. UpFlow'
  <2>1. hand1' = <<>> /\ up' = <<>> /\ atRemote' = <<>> /\ <<>> \in Seq(Kept)
      BY <1>a, <1>u
  <2>2. <<>> \o <<>> = <<>> /\ IsPrefix(<<>>, <<>>)
      BY Nothing
  <2> QED BY <1>s, <2>1, <2>2, EarlyUpFlow
<1>7. DownFlow'
    BY <1>a, <1>b, <1>u DEF TlsInv, DownFlow, Said
<1>8. Ended'
    BY <1>a, <1>u DEF Ended
<1>9. Requests'
    BY <1>a, <1>k DEF Requests
<1>10. Decided'
    BY <1>a, <1>b, <1>k, <1>u DEF TlsInv, Decided, Begun
<1> QED BY <1>1, <1>2, <1>3, <1>4, <1>5, <1>6, <1>7, <1>8, <1>9, <1>10 DEF TlsInv

LEMMA ProvisionsStep == TlsInv /\ Provisions => TlsInv'
<1> SUFFICES ASSUME TlsInv, Provisions PROVE TlsInv'
    OBVIOUS
<1> USE DEF ends, wire, got, choice, hands, pumps, tls
<1>f. CASE Raises /\ UNCHANGED socks
    BY <1>f, FailsStep DEF Provisions, Raises, Early
<1>g. CASE pc' = "inspect" /\ socks' = socks \cup {"provisional"}
  <2>a. /\ pc = "provision" /\ pc' = "inspect" /\ socks' = socks \cup {"provisional"}
        /\ UNCHANGED <<ends, wire, got, choice, peeked, hands, pumps, tls>>
      BY <1>g DEF Provisions
  <2>0. UNCHANGED <<Sent, Script, Http>>
      BY <2>a DEF Sent, Script, Hello, Http
  <2>d. /\ replies = 0 /\ down = <<>> /\ atClient = <<>> /\ hand2 = <<>> /\ hand1 = <<>>
        /\ t1 = "off" /\ t2 = "off"
      BY <2>a DEF TlsInv, DownFlow, Unread, Early
  <2>1. Types'
      BY <2>a DEF TlsInv, Types, TypeOK
  <2>2. Scripted'
      BY <2>0, <2>a DEF TlsInv, Scripted
  <2>3. Unread'
      BY <2>a, <2>0 DEF TlsInv, Unread, Early
  <2>4. Known'
      BY <2>a, <2>0 DEF TlsInv, Known
  <2>5. Pumping'
      BY <2>a, <2>0, <2>d DEF TlsInv, Pumping
  <2>6. UpFlow'
    <3>1. /\ atRemote = <<>> /\ IsPrefix(hand1, Sent) /\ hand1 \in Seq(Kept)
          /\ cEnd # "reset" => hand1 \o up = Sent
        BY <2>a, EarlyFlow DEF Early
    <3> QED BY <2>0, <2>a, <3>1, EarlyUpFlow
  <2>7. DownFlow'
    <3>1. Said(0) = <<>> /\ <<>> \o <<>> = <<>> /\ IsPrefix(<<>>, <<>>)
        BY Nothing
    <3> QED BY <2>a, <2>d, <3>1 DEF DownFlow, Said
  <2>8. Ended'
      BY <2>a, <2>d DEF Ended
  <2>9. Requests'
      BY <2>a DEF TlsInv, Requests
  <2>10. Decided'
      BY <2>a DEF TlsInv, Decided, Begun
  <2> QED BY <2>1, <2>2, <2>3, <2>4, <2>5, <2>6, <2>7, <2>8, <2>9, <2>10 DEF TlsInv
<1> QED BY <1>f, <1>g DEF Provisions

LEMMA PrefixSame == ASSUME NEW S, NEW s \in Seq(S) PROVE IsPrefix(s, s)
    BY DEF IsPrefix

\* The way on of the connection on trial.
LEMMA SettlesIs ==
    ASSUME NEW r \in {"http", "game"}, NEW s, Settles(r, s)
    PROVE  /\ route' = r /\ source' = s /\ how' = how
           /\ socks' \subseteq socks \cup {"remote"}
           /\ r = "http" => pc' = "connect" /\ target' = target
           /\ r = "game" => pc' = "forward" /\ target' = "local"
    BY DEF Settles

\* The inspection, whichever way it ends: what it read of the client is in hand, and of
\* the backend too if that is kept.
LEMMA InspectionStep ==
    ASSUME TlsInv, pc = "inspect", cEnd # "reset",
           UNCHANGED <<ends, clientWire, replies, rEnd, got, peeked, pumps, tls>>,
           hand1' \in {hand1, up}, hand1' = hand1 => up' = up, hand1' = up => up' = <<>>,
           NEW r \in {"http", "game"}, NEW s \in Source \ {"raw-js5-retail", "client-js5-retail"},
           Settles(r, s),
           \/ UNCHANGED <<hand2, down>>
           \/ r = "game" /\ rEnd # "reset" /\ hand2' = down /\ down' = <<>>
    PROVE  TlsInv'
<1> USE DEF ends, clientWire, got, hands, pumps, tls
<1>a. /\ route' = r /\ source' = s /\ how' = how
      /\ socks' \subseteq socks \cup {"remote"}
      /\ r = "http" => pc' = "connect" /\ target' = target
      /\ r = "game" => pc' = "forward" /\ target' = "local"
    BY SettlesIs
<1>k. how = "inspect" /\ target = "none" /\ tlsC = "up" /\ tlsC' = "up"
    BY DEF TlsInv, Known
<1>e. /\ atRemote = <<>> /\ upCount = 0 /\ t1 = "off" /\ t2 = "off"
      /\ atClient = <<>> /\ ~remoteFin /\ ~clientFin /\ TlsUp(tlsC) /\ TlsUp(tlsR)
      /\ IsPrefix(hand1, Sent) /\ hand1 \in Seq(Kept)
      /\ hand1 \o up = Sent
    BY EarlyFlow DEF Early
<1>h. hand1 = <<>> /\ hand2 = <<>>
    BY DEF TlsInv, Unread, Early
<1>t. up \in Seq(Plain) /\ up \in Seq(Kept) /\ down \in Seq(Nat)
    BY SeqMonotonic DEF TlsInv, Types, TypeOK, Plain, Kept, Wire, Token, HelloToken
<1>s. up = Sent /\ Sent' = Sent
  <2>1. Sent' = Sent
      BY <1>k DEF Sent, Hello
  <2>2. <<>> \o up = up
      BY <1>t
  <2> QED BY <1>e, <1>h, <2>1, <2>2
<1>1. Types'
  <2>1. pc' \in {"connect", "forward"} /\ target' \in {"none", "local"}
      BY <1>a, <1>k
  <2>2. socks' \subseteq {"client", "provisional", "remote"}
      BY <1>a DEF TlsInv, Types, TypeOK
  <2>3. hand2' \in Seq(Nat) /\ down' \in Seq(Nat)
      BY <1>t, Nothing DEF TlsInv, Types, TypeOK
  <2>4. hand1' \in Seq(Kept) /\ hand1' \in Seq(Wire) /\ up' \in Seq(Plain) /\ up' \in Seq(Wire)
    <3>1. hand1' \in Seq(Kept) /\ up' \in Seq(Plain)
        BY <1>e, <1>t, Nothing
    <3>2. up' \in Seq(Kept)
        BY <1>t, <1>h, Nothing
    <3> QED BY <3>1, <3>2, AsSentOfKept
  <2> QED BY <1>a, <2>1, <2>2, <2>3, <2>4 DEF TlsInv, Types, TypeOK
<1>2. Scripted'
    BY <1>a, <1>k DEF TlsInv, Scripted, Script, Hello
<1>3. Unread'
  <2>1. r = "http" => hand2' = <<>>
      BY <1>h
  <2>2. Http' <=> r = "http"
      BY <1>a, <1>k DEF Http
  <2> QED BY <1>a, <1>e, <1>k, <2>1, <2>2 DEF Unread, Early
<1>4. Known'
    BY <1>a, <1>k DEF Known, Http
<1>5. Pumping'
    BY <1>a, <1>e DEF TlsInv, Pumping
<1>6. UpFlow'
  <2>1. IsPrefix(hand1', Sent') /\ hand1' \o up' = Sent'
    <3>1. CASE hand1' = hand1
        BY <3>1, <1>e, <1>s
    <3>2. CASE hand1' = up /\ up' = <<>>
      <4>1. up \o <<>> = up
          BY <1>t
      <4>2. IsPrefix(up, up)
          BY <1>t, PrefixSame
      <4> QED BY <3>2, <4>1, <4>2, <1>s
    <3> QED BY <3>1, <3>2
  <2>2. hand1' \in Seq(Kept)
      BY <1>e, <1>t
  <2> QED BY <1>e, <2>1, <2>2, EarlyUpFlow
<1>7. DownFlow'
  <2>1. IsPrefix(atClient \o hand2, Said(replies))
        /\ (rEnd # "reset" => atClient \o hand2 \o down = Said(replies))
      BY <1>e DEF TlsInv, DownFlow
  <2>2. <<>> \o <<>> = <<>> /\ <<>> \o down = down /\ down \o <<>> = down
      BY <1>t, Nothing
  <2>3. CASE UNCHANGED <<hand2, down>>
      BY <2>1, <2>3, <1>a, <1>e DEF DownFlow, Said
  <2>4. CASE rEnd # "reset" /\ hand2' = down /\ down' = <<>>
    <3>1. down = Said(replies)
        BY <2>1, <2>2, <2>4, <1>e, <1>h
    <3>2. IsPrefix(down, down)
        BY <1>t, PrefixSame
    <3>3. atClient' \o hand2' = down /\ atClient' \o hand2' \o down' = down
        BY <2>2, <2>4, <1>e
    <3>4. Said(replies)' = Said(replies)
        BY DEF Said
    <3> QED BY <2>2, <3>1, <3>2, <3>3, <3>4, <1>a DEF DownFlow
  <2> QED BY <2>3, <2>4
<1>8. Ended'
    BY <1>e DEF Ended
<1>9. Requests'
    BY <1>a, <1>k DEF Requests
<1>10. Decided'
    BY <1>a, <1>k DEF Decided, Source
<1> QED BY <1>1, <1>2, <1>3, <1>4, <1>5, <1>6, <1>7, <1>8, <1>9, <1>10 DEF TlsInv

LEMMA InspectsStep == TlsInv /\ (InspectsClient \/ InspectsOther \/ InspectFails) => TlsInv'
<1> SUFFICES ASSUME TlsInv, InspectsClient \/ InspectsOther \/ InspectFails PROVE TlsInv'
    OBVIOUS
<1>h. pc = "inspect" => hand1 = <<>>
    BY DEF TlsInv, Unread
<1>1. CASE InspectsClient
  <2>1. /\ pc = "inspect" /\ cEnd # "reset" /\ up # <<>> /\ up' = <<>> /\ hand1' = up
        /\ UNCHANGED <<ends, clientWire, replies, rEnd, got, peeked, pumps, tls>>
      BY <1>1 DEF InspectsClient
  <2>2. hand1' \in {hand1, up} /\ (hand1' = hand1 => up' = up) /\ (hand1' = up => up' = <<>>)
      BY <2>1, <1>h
  <2>3. CASE LooksHttp(up)
    <3>1. Settles("http", "client-http") /\ UNCHANGED <<hand2, down>>
        BY <1>1, <2>3 DEF InspectsClient
    <3> QED BY <2>1, <2>2, <3>1, InspectionStep DEF Source
  <2>4. CASE ~LooksHttp(up)
    <3>1. rEnd # "reset" /\ Settles("game", "client-nonhttp") /\ hand2' = down /\ down' = <<>>
        BY <1>1, <2>4 DEF InspectsClient
    <3> QED BY <2>1, <2>2, <3>1, InspectionStep DEF Source
  <2> QED BY <2>3, <2>4
<1>2. CASE InspectsOther
  <2>1. /\ pc = "inspect" /\ cEnd # "reset" /\ up = <<>>
        /\ UNCHANGED <<ends, clientWire, up, replies, rEnd, got, peeked, hand1, pumps, tls>>
      BY <1>2 DEF InspectsOther
  <2>2. hand1' \in {hand1, up} /\ (hand1' = hand1 => up' = up) /\ (hand1' = up => up' = <<>>)
      BY <2>1, <1>h
  <2>3. \/ Settles("game", "eof") /\ UNCHANGED <<hand2, down>>
        \/ Settles("game", "backend") /\ rEnd # "reset" /\ hand2' = down /\ down' = <<>>
        \/ Settles("game", "timeout") /\ UNCHANGED <<hand2, down>>
      BY <1>2, <2>1 DEF InspectsOther
  <2>4. CASE Settles("game", "eof") /\ UNCHANGED <<hand2, down>>
      BY <2>1, <2>2, <2>4, InspectionStep DEF Source
  <2>5. CASE Settles("game", "backend") /\ rEnd # "reset" /\ hand2' = down /\ down' = <<>>
      BY <2>1, <2>2, <2>5, InspectionStep DEF Source
  <2>6. CASE Settles("game", "timeout") /\ UNCHANGED <<hand2, down>>
      BY <2>1, <2>2, <2>6, InspectionStep DEF Source
  <2> QED BY <2>3, <2>4, <2>5, <2>6
<1>3. CASE InspectFails
    BY <1>3, FailsStep DEF InspectFails, Raises, Early
<1> QED BY <1>1, <1>2, <1>3

\* sniff_terminated_tls_route: the first bytes it decides by are the client's own.
LEMMA SniffedRight ==
    ASSUME NEW s \in Seq(Wire), NEW a \in Seq(Token), WellFormed(a), Len(s) <= Len(a),
           \A i \in 1..Len(s) : s[i] = a[i]
    PROVE  /\ SniffedSource(s) \in {"none", "client-js5-retail", "client-js5", "client-http", "client-nonhttp"}
           /\ SniffedSource(s) # "none" => s # <<>> /\ a # <<>> /\ s[1] = a[1]
           /\ SniffedSource(s) = "client-js5-retail" => cfg.retail /\ a[1] = "js5"
           /\ SniffedSource(s) = "client-http" => a[1] = "get1"
           /\ SniffedSource(s) = "client-nonhttp" => a[1] \notin {"get1", "js5"}
<1>1. s # <<>> => Len(s) >= 1 /\ Head(s) = s[1] /\ s[1] = a[1] /\ a # <<>>
  <2>1. s # <<>> => Len(s) >= 1 /\ Head(s) = s[1] /\ Len(s) \in Nat
      OBVIOUS
  <2> QED BY <2>1
<1>2. CASE LooksJs5(s)
    BY <1>1, <1>2, HttpIs DEF LooksJs5, SniffedSource
<1>3. CASE ~LooksJs5(s) /\ LooksHttp(s)
  <2>1. Len(s) >= 2 /\ s[1] = "get1"
      BY <1>3, HttpIs
  <2>2. s # <<>> /\ s \notin {<<>>, <<"get1">>}
      BY <2>1
  <2> QED BY <1>1, <1>3, <2>1, <2>2 DEF SniffedSource
<1>4. CASE ~LooksJs5(s) /\ ~LooksHttp(s) /\ s \in {<<>>, <<"get1">>}
    BY <1>4 DEF SniffedSource
<1>5. CASE ~LooksJs5(s) /\ ~LooksHttp(s) /\ s \notin {<<>>, <<"get1">>}
  <2>1. SniffedSource(s) = "client-nonhttp"
      BY <1>5 DEF SniffedSource
  <2>2. a[1] # "js5"
      BY <1>1, <1>5 DEF LooksJs5
  <2>3. ASSUME a[1] = "get1" PROVE FALSE
    <3>1. Len(s) \in Nat /\ Len(a) \in Nat /\ DOMAIN a = 1..Len(a) /\ Len(s) >= 1 /\ s[1] = "get1"
        BY <1>1, <1>5, <2>3
    <3>2. Len(s) # 1
      <4> SUFFICES ASSUME Len(s) = 1 PROVE FALSE
          OBVIOUS
      <4>1. s = <<"get1">>
          BY <3>1
      <4> QED BY <4>1, <1>5
    <3>3. Len(s) >= 2 /\ Len(a) >= 2
      <4>1. ASSUME NEW x \in Nat, NEW y \in Nat, x >= 1, x # 1, x <= y
            PROVE  x >= 2 /\ y >= 2
          BY <4>1
      <4>2. Len(s) <= Len(a)
          OBVIOUS
      <4> QED BY <3>1, <3>2, <4>1, <4>2
    <3>4. a[2] = "get2"
        BY <3>1, <3>3, <2>3 DEF WellFormed
    <3>5. s[2] = "get2" /\ Len(s) >= 2
      <4>1. 2 \in 1..Len(s)
          BY <3>1, <3>3
      <4> QED BY <3>3, <3>4, <4>1
    <3> QED BY <1>5, <3>1, <3>5, HttpIs
  <2> QED BY <1>1, <1>5, <2>1, <2>2, <2>3
<1> QED BY <1>2, <1>3, <1>4, <1>5

\* What both ends of the sniffing do.
LEMMA SniffingStep ==
    ASSUME TlsInv, pc = "sniff", cEnd # "reset",
           UNCHANGED <<ends, clientWire, replies, down, rEnd, got, peeked, hand2, pumps, tls, socks>>,
           hand1' = hand1 \o up, up' = <<>>,
           \/ UNCHANGED <<pc, choice>>
           \/ \E s \in {SniffedSource(hand1'), "eof", "timeout"} : s # "none" /\ Sniffed(s)
    PROVE  TlsInv'
<1> USE DEF ends, clientWire, got, hands, pumps, tls, choice
<1>k. how = "terminate" /\ target = "none" /\ tlsC = "up" /\ tlsC' = "up" /\ source = "clienthello"
      /\ route \in {"game", "http"}
    BY DEF TlsInv, Known, Decided
<1>e. /\ atRemote = <<>> /\ upCount = 0 /\ t1 = "off" /\ t2 = "off"
      /\ atClient = <<>> /\ ~remoteFin /\ ~clientFin /\ TlsUp(tlsC) /\ TlsUp(tlsR)
      /\ IsPrefix(hand1, Sent) /\ hand1 \in Seq(Kept)
      /\ hand1 \o up = Sent
    BY EarlyFlow DEF Early
<1>h. hand2 = <<>>
    BY DEF TlsInv, Unread, Early
<1>s. Sent' = Sent /\ hand1' = Sent /\ Sent \in Seq(Plain) /\ Sent \in Seq(Kept) /\ Sent \in Seq(Wire)
  <2>1. Sent' = Sent
      BY <1>k DEF Sent, Hello
  <2>2. Sent \in Seq(Plain)
      BY SentElements DEF TlsInv
  <2>3. Sent \in Seq(Kept)
      BY <2>2, SeqMonotonic DEF Plain, Kept, Wire, Token, HelloToken
  <2> QED BY <1>e, <2>1, <2>2, <2>3, AsSentOfKept
<1>r. /\ SniffedSource(Sent) \in {"none", "client-js5-retail", "client-js5", "client-http", "client-nonhttp"}
      /\ SniffedSource(Sent) # "none" => Sent # <<>> /\ client.app # <<>> /\ Sent[1] = client.app[1]
      /\ SniffedSource(Sent) = "client-js5-retail" => cfg.retail /\ client.app[1] = "js5"
      /\ SniffedSource(Sent) = "client-http" => client.app[1] = "get1"
      /\ SniffedSource(Sent) = "client-nonhttp" => client.app[1] \notin {"get1", "js5"}
  <2> DEFINE a == client.app
  <2>1. a \in Seq(Token) /\ WellFormed(a)
      BY AppTyped DEF TlsInv, Types
  <2>2. Len(Sent) <= Len(a) /\ \A i \in 1..Len(Sent) : Sent[i] = a[i]
    <3>1. Len(Sent) = Len(client.app) - Len(toSend) /\ \A i \in 1..Len(Sent) : Sent[i] = client.app[i]
      <4>1. Types /\ Scripted
          BY DEF TlsInv
      <4> QED BY <1>k, <4>1, SentElements
    <3>2. Len(toSend) \in Nat /\ Len(a) \in Nat /\ Len(Sent) \in Nat
        BY <1>s, <2>1 DEF TlsInv, Types
    <3>3. Len(Sent) = Len(a) - Len(toSend) /\ \A i \in 1..Len(Sent) : Sent[i] = a[i]
        BY <3>1
    <3> HIDE DEF a
    <3> QED BY <3>2, <3>3
  <2> HIDE DEF a
  <2>3. /\ SniffedSource(Sent) \in {"none", "client-js5-retail", "client-js5", "client-http", "client-nonhttp"}
        /\ SniffedSource(Sent) # "none" => Sent # <<>> /\ a # <<>> /\ Sent[1] = a[1]
        /\ SniffedSource(Sent) = "client-js5-retail" => cfg.retail /\ a[1] = "js5"
        /\ SniffedSource(Sent) = "client-http" => a[1] = "get1"
        /\ SniffedSource(Sent) = "client-nonhttp" => a[1] \notin {"get1", "js5"}
      BY <1>s, <2>1, <2>2, SniffedRight
  <2> QED BY <2>3 DEF a
<1>b. /\ how' = how /\ target' = target
      /\ \/ pc' = "sniff" /\ source' = source /\ route' = route
         \/ /\ pc' = "connect" /\ source' \in {SniffedSource(Sent), "eof", "timeout"} /\ source' # "none"
            /\ route' = IF source' = "client-http" THEN "http" ELSE "game"
  <2>1. CASE UNCHANGED <<pc, choice>>
      BY <2>1
  <2>2. ASSUME NEW s \in {SniffedSource(hand1'), "eof", "timeout"}, s # "none", Sniffed(s)
        PROVE  /\ how' = how /\ target' = target
               /\ pc' = "connect" /\ source' \in {SniffedSource(Sent), "eof", "timeout"} /\ source' # "none"
               /\ route' = IF source' = "client-http" THEN "http" ELSE "game"
      BY <2>2, <1>s DEF Sniffed
  <2> QED BY <2>1, <2>2, <1>k
<1>c. /\ pc' \in {"sniff", "connect"} /\ route' \in {"game", "http"}
      /\ source' \in {"clienthello", "client-js5-retail", "client-js5", "client-http", "client-nonhttp", "eof", "timeout"}
    BY <1>b, <1>k, <1>r
<1>1. Types'
  <2>1. hand1' \in Seq(Kept) /\ hand1' \in Seq(Wire) /\ up' \in Seq(Plain) /\ up' \in Seq(Wire)
    <3>1. up' \in Seq(Plain) /\ up' \in Seq(Kept)
        BY Nothing
    <3> QED BY <1>s, <3>1, AsSentOfKept
  <2> QED BY <1>b, <1>c, <2>1 DEF TlsInv, Types, TypeOK, Source
<1>2. Scripted'
    BY <1>c, <1>k DEF TlsInv, Scripted, Script, Hello
<1>3. Unread'
    BY <1>c, <1>e, <1>k, <1>h DEF Unread, Early
<1>4. Known'
    BY <1>b, <1>c, <1>k DEF Known, Http
<1>5. Pumping'
    BY <1>c, <1>e DEF TlsInv, Pumping
<1>6. UpFlow'
  <2>1. Sent \o <<>> = Sent /\ IsPrefix(Sent, Sent)
      BY <1>s, PrefixSame
  <2> QED BY <1>s, <1>e, <2>1, EarlyUpFlow
<1>7. DownFlow'
  <2>1. replies = 0 /\ down = <<>> /\ rEnd = "open" /\ socks = {"client"}
      BY DEF TlsInv, DownFlow
  <2> QED BY <1>c, <1>e, <1>h, <2>1, Nothing DEF DownFlow, Said
<1>8. Ended'
    BY <1>e DEF Ended
<1>9. Requests'
    BY <1>b, <1>k DEF Requests
<1>10. Decided'
  <2>1. CASE pc' = "sniff"
      BY <2>1, <1>b, <1>k DEF Decided
  <2>2. CASE pc' = "connect"
    <3>1. source' \in {SniffedSource(Sent), "eof", "timeout"} /\ source' # "none"
          /\ route' = IF source' = "client-http" THEN "http" ELSE "game"
        BY <1>b, <1>k, <2>2
    <3>2. CASE source' \in {"eof", "timeout"}
        BY <2>2, <3>2, <1>b, <1>k DEF Decided
    <3>3. CASE source' = SniffedSource(Sent)
      <4>1. hand1' # <<>> /\ hand1'[1] = client.app[1] /\ client.app # <<>> /\ client' = client /\ cfg' = cfg
          BY <3>1, <3>3, <1>r, <1>s
      <4>2. /\ source' = "client-js5-retail" => cfg.retail /\ client.app[1] = "js5"
            /\ source' = "client-http" => client.app[1] = "get1"
            /\ source' = "client-nonhttp" => client.app[1] \notin {"get1", "js5"}
            /\ source' \in {"none", "client-js5-retail", "client-js5", "client-http", "client-nonhttp"}
          BY <3>3, <1>r
      <4> QED BY <2>2, <3>1, <4>1, <4>2, <1>b, <1>k, <1>e DEF Decided, Begun
    <3> QED BY <3>1, <3>2, <3>3
  <2> QED BY <1>c, <2>1, <2>2
<1> QED BY <1>1, <1>2, <1>3, <1>4, <1>5, <1>6, <1>7, <1>8, <1>9, <1>10 DEF TlsInv

LEMMA SniffsStep == TlsInv /\ (Sniffs \/ SniffEnds) => TlsInv'
<1> SUFFICES ASSUME TlsInv, Sniffs \/ SniffEnds PROVE TlsInv'
    OBVIOUS
<1>1. CASE Sniffs
  <2>1. /\ pc = "sniff" /\ cEnd # "reset" /\ up' = <<>> /\ hand1' = hand1 \o up
        /\ UNCHANGED <<ends, clientWire, replies, down, rEnd, got, peeked, hand2, pumps, tls, socks>>
      BY <1>1 DEF Sniffs
  <2>2. \/ UNCHANGED <<pc, choice>>
        \/ SniffedSource(hand1') # "none" /\ Sniffed(SniffedSource(hand1'))
      BY <1>1 DEF Sniffs
  <2> QED BY <2>1, <2>2, SniffingStep
<1>2. CASE SniffEnds
  <2>1. CASE cEnd = "reset"
      BY <1>2, <2>1, FailsStep DEF SniffEnds, Raises, Early
  <2>2. CASE cEnd # "reset"
    <3>1. /\ pc = "sniff" /\ up = <<>>
          /\ UNCHANGED <<ends, wire, got, peeked, hands, pumps, tls, socks>>
          /\ \/ Sniffed("eof")
             \/ Sniffed("timeout")
        BY <1>2, <2>2 DEF SniffEnds
    <3>2. hand1' = hand1 \o up /\ up' = <<>>
      <4>1. hand1 \in Seq(Kept)
          BY DEF TlsInv, Types
      <4> QED BY <3>1, <4>1 DEF hands, wire
    <3>3. UNCHANGED <<ends, clientWire, replies, down, rEnd, got, peeked, hand2, pumps, tls, socks>>
        BY <3>1 DEF wire, clientWire, hands
    <3> QED BY <2>2, <3>1, <3>2, <3>3, SniffingStep
  <2> QED BY <2>1, <2>2
<1> QED BY <1>1, <1>2

LEMMA ConnectsStep == TlsInv /\ Connects => TlsInv'
<1> SUFFICES ASSUME TlsInv, Connects PROVE TlsInv'
    OBVIOUS
<1> USE DEF ends, clientWire, got, choice, hands, pumps, tls
<1>f. CASE Raises /\ UNCHANGED <<target, socks, tlsR, replies, down, rEnd>>
  <2>1. /\ pc = "connect" /\ pc' = "ending"
        /\ UNCHANGED <<ends, wire, got, choice, peeked, hands, pumps, tls>> /\ socks' = socks
      BY <1>f DEF Connects, Raises, wire
  <2> QED BY <2>1, FailsStep DEF Early
<1>g. CASE /\ pc' = "forward" /\ target' = TargetOf
           /\ socks' = socks \cup {"remote"}
           /\ tlsR' = IF route = "http" \/ source = "client-js5-retail" THEN "up" ELSE "plain"
           /\ replies' = 0 /\ down' = <<>> /\ rEnd' = "open"
  <2>a. /\ pc = "connect"
        /\ UNCHANGED <<ends, clientWire, up, got, how, route, source, peeked, hands, pumps, tlsC>>
      BY <1>g DEF Connects
  <2>t. /\ target' \in {"content", "retail", "local"} /\ tlsR' \in {"up", "plain"}
        /\ target' = "content" => route = "http"
        /\ target' = "retail" => source \in {"raw-js5-retail", "client-js5-retail"}
      BY <1>g DEF TargetOf
  <2>k. how # "none" /\ route # "none" /\ (how = "passthrough" => route = "game")
      BY <2>a DEF TlsInv, Known
  <2>0. UNCHANGED <<Sent, Script, Http>>
      BY <2>a DEF Sent, Script, Hello, Http
  <2>e. /\ atRemote = <<>> /\ upCount = 0 /\ t1 = "off" /\ t2 = "off"
        /\ atClient = <<>> /\ ~remoteFin /\ ~clientFin /\ TlsUp(tlsC) /\ TlsUp(tlsR)
        /\ IsPrefix(hand1, Sent) /\ hand1 \in Seq(Kept)
        /\ cEnd # "reset" => hand1 \o up = Sent
      BY <2>a, EarlyFlow DEF Early
  <2>h. hand2 = <<>> /\ (tlsC = "plain" => hand1 = <<>>)
      BY <2>a DEF TlsInv, Unread, Early
  <2>1. Types'
      BY <1>g, <2>a, <2>t, Nothing, MaxRepliesAssumption DEF TlsInv, Types, TypeOK, Tls, End
  <2>2. Scripted'
      BY <1>g, <2>a, <2>0 DEF TlsInv, Scripted
  <2>3. Unread'
      BY <1>g, <2>a, <2>e, <2>h, <2>t DEF Unread, Early, TlsUp
  <2>4. Known'
      BY <1>g, <2>a, <2>k, <2>t, <2>0 DEF TlsInv, Known
  <2>5. Pumping'
      BY <1>g, <2>a, <2>e, <2>0 DEF TlsInv, Pumping
  <2>6. UpFlow'
      BY <2>a, <2>e, <2>0, EarlyUpFlow
  <2>7. DownFlow'
    <3>1. Said(replies)' = <<>>
        BY <1>g DEF Said
    <3> QED BY <1>g, <2>a, <2>e, <2>h, <3>1, Nothing DEF DownFlow
  <2>8. Ended'
      BY <2>a, <2>e DEF Ended
  <2>9. Requests'
      BY <2>a, <2>e DEF Requests
  <2>10. Decided'
      BY <1>g, <2>a, <2>t DEF TlsInv, Decided, Begun
  <2> QED BY <2>1, <2>2, <2>3, <2>4, <2>5, <2>6, <2>7, <2>8, <2>9, <2>10 DEF TlsInv
<1> QED BY <1>f, <1>g DEF Connects

\* The first bytes go to the backend, and the pumps start.
LEMMA ForwardsPeekedStep == TlsInv /\ ForwardsPeeked => TlsInv'
<1> SUFFICES ASSUME TlsInv, ForwardsPeeked PROVE TlsInv'
    OBVIOUS
<1> USE DEF ends, clientWire, choice, hands, tls
<1>a. /\ pc = "forward" /\ tlsC = "plain" /\ cEnd # "reset"
      /\ atRemote' = SubSeq(up, 1, peeked) /\ upCount' = peeked
      /\ up' = SubSeq(up, peeked + 1, Len(up))
      /\ StartsPumps(<<>>)
      /\ UNCHANGED <<ends, clientWire, replies, down, rEnd, atClient, remoteFin,
                     clientFin, choice, peeked, hands, tls, socks>>
    BY DEF ForwardsPeeked
<1>k. /\ how \in {"raw", "passthrough"} /\ route # "none" /\ route # "http" /\ ~Http /\ target # "none"
      /\ peeked <= Len(up)
    BY <1>a DEF TlsInv, Known, Http, Types, TypeOK
<1>b. pc' = "pump" /\ t2' = "recv" /\ t1' = "recv"
    BY <1>a, <1>k DEF StartsPumps
<1>0. UNCHANGED <<Sent, Script, Http>>
    BY <1>a DEF Sent, Script, Hello, Http
<1>e. /\ atClient = <<>> /\ ~remoteFin /\ ~clientFin /\ TlsUp(tlsR) /\ t2 = "off"
      /\ cEnd # "reset" => hand1 \o up = Sent
    BY <1>a, EarlyFlow DEF Early
<1>h. hand2 = <<>> /\ hand1 = <<>>
    BY <1>a DEF TlsInv, Unread, Early
<1>t. up \in Seq(Plain) /\ peeked \in 0..Len(up) /\ peeked \in 0..3 /\ up = Sent
  <2>1. up \in Seq(Plain) /\ peeked \in 0..3
      BY DEF TlsInv, Types, TypeOK
  <2>2. <<>> \o up = up /\ Len(up) \in Nat
      BY <2>1
  <2> QED BY <1>a, <1>e, <1>h, <1>k, <2>1, <2>2
<1>c. /\ atRemote' \in Seq(Plain) /\ up' \in Seq(Plain) /\ atRemote' \o up' = up
    BY <1>a, <1>t, CutInTwo
<1>d. atRemote' \in Seq(Kept) /\ atRemote' \in Seq(Wire) /\ up' \in Seq(Wire)
  <2>1. atRemote' \in Seq(Kept) /\ up' \in Seq(Kept)
      BY <1>c, SeqMonotonic DEF Plain, Kept, Wire, Token, HelloToken
  <2> QED BY <2>1, AsSentOfKept
<1>1. Types'
  <2>1. upCount' \in Nat
      BY <1>a, <1>t
  <2> QED BY <1>a, <1>b, <1>c, <1>d, <2>1 DEF TlsInv, Types, TypeOK, Thread
<1>2. Scripted'
    BY <1>0, <1>a, <1>b DEF TlsInv, Scripted
<1>3. Unread'
    BY <1>b DEF Unread, Early
<1>4. Known'
    BY <1>a, <1>b, <1>k DEF TlsInv, Known
<1>5. Pumping'
    BY <1>a, <1>b, <1>0, <1>d, <1>e, <1>h, <1>k DEF Pumping
<1>6. UpFlow'
  <2>1. AsSent(atRemote') = atRemote' /\ AsSent(atRemote)' = AsSent(atRemote')
      BY <1>d, AsSentOfKept DEF AsSent
  <2>2. hand1' = <<>> /\ atRemote' \o <<>> = atRemote'
      BY <1>a, <1>c, <1>h
  <2>3. IsPrefix(atRemote', atRemote' \o up')
      BY <1>c, PrefixOfConcat
  <2> QED BY <1>0, <1>c, <1>t, <2>1, <2>2, <2>3 DEF UpFlow
<1>7. DownFlow'
    BY <1>a, <1>b, <1>e DEF TlsInv, DownFlow, Said
<1>8. Ended'
    BY <1>b DEF Ended
<1>9. Requests'
    BY <1>a DEF Requests
<1>10. Decided'
    BY <1>a, <1>b, <1>k DEF TlsInv, Decided, Begun
<1> QED BY <1>1, <1>2, <1>3, <1>4, <1>5, <1>6, <1>7, <1>8, <1>9, <1>10 DEF TlsInv

LEMMA ForwardsBufferedStep == TlsInv /\ ForwardsBuffered => TlsInv'
<1> SUFFICES ASSUME TlsInv, ForwardsBuffered PROVE TlsInv'
    OBVIOUS
<1> USE DEF ends, wire, choice, tls
<1>a. /\ pc = "forward" /\ tlsC # "plain"
      /\ StartsPumps(hand1)
      /\ UNCHANGED <<ends, wire, remoteFin, clientFin, choice, peeked, tls, socks>>
    BY DEF ForwardsBuffered
<1>b. /\ pc' = "pump" /\ t2' = "recv" /\ t1' \in {"send", "recv"}
      /\ t1' = "send" => Http /\ HasRequest(hand1)
    BY <1>a DEF StartsPumps
<1>c. \/ Http /\ UNCHANGED <<atRemote, atClient, hand1, hand2, upCount>>
      \/ /\ ~Http /\ atRemote' = hand1 /\ atClient' = hand2 /\ upCount' = Len(hand1)
         /\ hand1' = <<>> /\ hand2' = <<>> /\ t1' = "recv"
    BY <1>a DEF ForwardsBuffered, hands, StartsPumps
<1>0. UNCHANGED <<Sent, Script, Http>>
    BY <1>a DEF Sent, Script, Hello, Http
<1>e. /\ atRemote = <<>> /\ AsSent(<<>>) = <<>> /\ upCount = 0 /\ t1 = "off" /\ t2 = "off"
      /\ atClient = <<>> /\ ~remoteFin /\ ~clientFin /\ TlsUp(tlsC) /\ TlsUp(tlsR)
      /\ IsPrefix(hand1, Sent) /\ hand1 \in Seq(Kept)
      /\ cEnd # "reset" => hand1 \o up = Sent
    BY <1>a, EarlyFlow DEF Early
<1>k. how # "none" /\ route # "none" /\ target # "none" /\ how # "raw"
    BY <1>a DEF TlsInv, Known
<1>h. Http => hand2 = <<>>
    BY <1>a DEF TlsInv, Unread
<1>t. hand1 \in Seq(Wire) /\ hand2 \in Seq(Nat) /\ Len(hand1) \in Nat /\ <<>> \in Seq(Wire)
    BY <1>e, Nothing, AsSentOfKept DEF TlsInv, Types, TypeOK
<1>1. Types'
  <2>1. atRemote' \in Seq(Wire) /\ atClient' \in Seq(Nat) /\ upCount' \in Nat
        /\ hand1' \in Seq(Kept) /\ hand1' \in Seq(Wire) /\ hand2' \in Seq(Nat)
    <3>1. CASE Http
        BY <3>1, <1>c, <1>e, <1>t, Nothing
    <3>2. CASE ~Http
        BY <3>2, <1>c, <1>e, <1>t, Nothing
    <3> QED BY <3>1, <3>2
  <2> QED BY <1>a, <1>b, <2>1 DEF TlsInv, Types, TypeOK, Thread
<1>2. Scripted'
    BY <1>0, <1>a, <1>b DEF TlsInv, Scripted
<1>3. Unread'
    BY <1>b DEF Unread, Early
<1>4. Known'
    BY <1>a, <1>b, <1>k DEF TlsInv, Known
<1>5. Pumping'
  <2>1. CASE Http
    <3>1. HasRequest(hand1)' = HasRequest(hand1)
        BY <1>c, <2>1 DEF HasRequest, RequestLength, LooksHttp, HeaderEnds
    <3> QED BY <1>a, <1>b, <1>c, <1>0, <1>e, <1>h, <2>1, <3>1 DEF Pumping
  <2>2. CASE ~Http
      BY <1>a, <1>b, <1>c, <1>0, <1>e, <2>2 DEF Pumping
  <2> QED BY <2>1, <2>2
<1>6. UpFlow'
  <2>1. CASE Http
      BY <1>0, <1>a, <1>c, <1>e, <2>1, EarlyUpFlow
  <2>2. CASE ~Http
    <3>1. atRemote' = hand1 /\ hand1' = <<>> /\ up' = up /\ cEnd' = cEnd
        BY <1>a, <1>c, <2>2
    <3>2. AsSent(atRemote)' = hand1
        BY <1>e, <3>1, AsSentOfKept DEF AsSent
    <3>3. hand1 \o <<>> = hand1
        BY <1>e
    <3> QED BY <1>0, <1>e, <3>1, <3>2, <3>3 DEF UpFlow, Flowing
  <2> QED BY <2>1, <2>2
<1>7. DownFlow'
  <2>1. IsPrefix(atClient \o hand2, Said(replies))
        /\ (rEnd # "reset" => atClient \o hand2 \o down = Said(replies))
      BY <1>a, <1>e DEF TlsInv, DownFlow
  <2>2. atClient' \o hand2' = atClient \o hand2
    <3>1. <<>> \o hand2 = hand2 /\ hand2 \o <<>> = hand2
        BY <1>t
    <3> QED BY <1>c, <1>e, <3>1
  <2>3. Said(replies)' = Said(replies) /\ down' = down /\ rEnd' = rEnd
      BY <1>a DEF Said
  <2> QED BY <1>b, <2>1, <2>2, <2>3 DEF DownFlow
<1>8. Ended'
    BY <1>b DEF Ended
<1>9. Requests'
  <2>1. target = "content" => Http
      BY DEF TlsInv, Known, Http
  <2> QED BY <1>a, <1>c, <1>e, <2>1 DEF Requests
<1>10. Decided'
  <2>1. source = "client-js5-retail" => atRemote' # <<>> /\ Head(atRemote') = "js5"
    <3>1. source = "client-js5-retail" => hand1 # <<>> /\ hand1[1] = "js5" /\ ~Http
        BY <1>a DEF TlsInv, Decided, Http
    <3>2. hand1 # <<>> => Head(hand1) = hand1[1]
        BY <1>t
    <3> QED BY <1>c, <1>e, <3>1, <3>2
  <2> QED BY <1>a, <1>b, <2>1 DEF TlsInv, Decided, Begun
<1> QED BY <1>1, <1>2, <1>3, <1>4, <1>5, <1>6, <1>7, <1>8, <1>9, <1>10 DEF TlsInv

LEMMA ForwardFailsStep == TlsInv /\ ForwardFails => TlsInv'
    BY FailsStep DEF ForwardFails, Raises, Early

LEMMA EndsStep == TlsInv /\ Ends => TlsInv'
<1> SUFFICES ASSUME TlsInv, Ends PROVE TlsInv'
    OBVIOUS
<1> USE DEF ends, wire, got, choice, hands, pumps, tls
<1>a. /\ pc \in {"ending", "pump"} /\ pc' = "done" /\ socks' = socks \ {"client", "remote"}
      /\ UNCHANGED <<ends, wire, got, choice, peeked, hands, pumps, tls>>
    BY DEF Ends
<1>0. UNCHANGED <<Sent, Script, Http, Capped, Untimed>>
    BY <1>a DEF Sent, Script, Hello, Http, Capped, Untimed
<1>1. Types'
    BY <1>a DEF TlsInv, Types, TypeOK
<1>2. Scripted'
    BY <1>0, <1>a DEF TlsInv, Scripted
<1>3. Unread'
    BY <1>a DEF Unread, Early
<1>4. Known'
    BY <1>a DEF TlsInv, Known
<1>5. Pumping'
    BY <1>0, <1>a DEF TlsInv, Pumping, HasRequest, RequestLength, LooksHttp, HeaderEnds
<1>6. UpFlow'
  <2>1. ~Flowing'
      BY <1>a DEF Flowing
  <2> QED BY <1>0, <1>a, <2>1 DEF TlsInv, UpFlow, AsSent
<1>7. DownFlow'
    BY <1>a DEF TlsInv, DownFlow, Said
<1>8. Ended'
    BY <1>0, <1>a DEF TlsInv, Ended, Said
<1>9. Requests'
    BY <1>a DEF TlsInv, Requests
<1>10. Decided'
    BY <1>a DEF TlsInv, Decided, Begun
<1> QED BY <1>1, <1>2, <1>3, <1>4, <1>5, <1>6, <1>7, <1>8, <1>9, <1>10 DEF TlsInv

----------------------------------------------------------------------------
(* What the pumps leave alone.                                             *)

LEMMA PumpFrame ==
    ASSUME TlsInv, pc = "pump", UNCHANGED <<ends, toSend, pc, choice, peeked, socks>>,
           tlsC' = "plain" <=> tlsC = "plain"
    PROVE  /\ Scripted' /\ Unread' /\ Known'
           /\ UNCHANGED <<Sent, Http, Capped, Untimed>>
<1> USE DEF ends, choice
<1>1. UNCHANGED <<Sent, Http, Capped, Untimed, Script>>
    BY DEF Sent, Script, Hello, Http, Capped, Untimed
<1>2. Scripted'
    BY <1>1 DEF TlsInv, Scripted
<1>3. Unread'
    BY DEF Unread, Early
<1>4. Known'
    BY DEF TlsInv, Known
<1> QED BY <1>1, <1>2, <1>3, <1>4

LEMMA RouteStays ==
    ASSUME TlsInv, pc = "pump", UNCHANGED <<ends, pc, choice>>,
           atRemote # <<>> => atRemote' # <<>> /\ Head(atRemote') = Head(atRemote)
    PROVE  Decided'
<1> USE DEF ends, choice
<1> QED BY DEF TlsInv, Decided, Begun

LEMMA UpKeeps ==
    ASSUME TlsInv, UNCHANGED <<ends, toSend, up, cEnd, atRemote, hand1, t1, upCount, pc, choice>>,
           tlsC' = "plain" <=> tlsC = "plain", TlsUp(tlsC') => TlsUp(tlsC)
    PROVE  UpFlow'
<1> USE DEF ends, choice
<1>1. UNCHANGED <<Sent, Capped>>
    BY DEF Sent, Hello, Capped
<1>2. Flowing' => Flowing
    BY <1>1 DEF Flowing
<1> QED BY <1>1, <1>2 DEF TlsInv, UpFlow, AsSent

LEMMA DownKeeps ==
    ASSUME TlsInv, UNCHANGED <<replies, down, rEnd, atClient, hand2, t2, pc, socks>>,
           TlsUp(tlsR') => TlsUp(tlsR)
    PROVE  DownFlow'
    BY DEF TlsInv, DownFlow, Said

\* What an up pump reads, whole or cut at the cap.
LEMMA ReadUp ==
    ASSUME TypeOK, up \in Seq(Plain), NEW data \in Readings(up, tlsC, "cipher")
    PROVE  data \in Seq(Kept)
<1>1. up \in Seq(Kept) /\ tlsC \in Tls
    BY SeqMonotonic DEF TypeOK, Plain, Kept, Wire, Token, HelloToken
<1> DEFINE raw == [i \in DOMAIN up |-> "cipher"]
<1>2. raw \in Seq(Kept)
  <2>1. raw = [i \in 1..Len(up) |-> "cipher"] /\ Len(up) \in Nat
      BY <1>1
  <2>2. raw \in [1..Len(up) -> Kept]
      BY <2>1 DEF Kept, Wire
  <2> QED BY <2>1, <2>2, SeqDef, Zenon
<1>3. data \in {up, raw}
    BY <1>1 DEF Readings, Tls
<1> QED BY <1>1, <1>2, <1>3

\* A session with a cap is raw, and one that parses requests is not.
LEMMA Sessions ==
    ASSUME TlsInv, pc = "pump"
    PROVE  /\ Capped => ~Http
           /\ ~Http => Untimed
           /\ cfg.cap \in Nat /\ upCount \in Nat
    BY AppTyped DEF TlsInv, Known, Types, TypeOK, Capped, Http, Untimed, Settings

----------------------------------------------------------------------------
(* The pump from the client.                                               *)

LEMMA ThreeParts ==
    ASSUME NEW a \in Seq(Kept), NEW b \in Seq(Kept), NEW c \in Seq(Kept)
    PROVE  a \o (b \o c) = (a \o b) \o c
    BY ConcatAssociative

LEMMA UpReadsStep == TlsInv /\ UpReads => TlsInv'
<1> SUFFICES ASSUME TlsInv, UpReads PROVE TlsInv'
    OBVIOUS
<1> DEFINE room == cfg.cap - upCount
<1>a. /\ pc = "pump" /\ t1 = "recv" /\ ~CapReached /\ cEnd # "reset" /\ up # <<>>
      /\ up' = <<>> /\ tlsC' = AfterRead(tlsC)
      /\ UNCHANGED <<ends, clientWire, replies, down, rEnd, got, pc, choice, peeked,
                     hand2, t2, upCount, tlsR, socks>>
    BY DEF UpReads
<1>b. PICK data \in Readings(up, tlsC, "cipher") :
         /\ hand1' = hand1 \o (IF Capped /\ Len(data) > room THEN SubSeq(data, 1, room) ELSE data)
         /\ t1' = IF Http /\ ~HasRequest(hand1') THEN "recv" ELSE "send"
    BY DEF UpReads
<1> DEFINE cut == Capped /\ Len(data) > room
           kept == IF cut THEN SubSeq(data, 1, room) ELSE data
<1>s. (Capped => ~Http) /\ cfg.cap \in Nat /\ upCount \in Nat
    BY <1>a, Sessions
<1>d. data \in Seq(Kept) /\ hand1 \in Seq(Kept) /\ up \in Seq(Plain) /\ up \in Seq(Kept)
  <2>1. data \in Seq(Kept)
      BY ReadUp DEF TlsInv, Types
  <2> QED BY <2>1, SeqMonotonic DEF TlsInv, Types, Plain, Kept, Wire, Token, HelloToken
<1>n. cut => room \in 0..Len(data) /\ upCount + room = cfg.cap
    BY <1>a, <1>s, <1>d DEF CapReached
<1>k. kept \in Seq(Kept) /\ (cut => Len(kept) = room)
  <2>1. CASE cut
    <3> HIDE DEF room
    <3> QED BY <2>1, <1>d, <1>n, CutInTwo
  <2>2. CASE ~cut
      BY <2>2, <1>d
  <2> QED BY <2>1, <2>2
<1> HIDE DEF kept
<1>h. hand1' = hand1 \o kept /\ hand1' \in Seq(Kept)
    BY <1>b, <1>d, <1>k DEF kept
<1>t. /\ tlsC \in Tls /\ tlsC' \in Tls /\ (tlsC' = "plain" <=> tlsC = "plain")
      /\ TlsUp(tlsC') => TlsUp(tlsC) /\ tlsC' = tlsC
      /\ tlsC' = "up" => tlsC = "up"
    BY <1>a DEF TlsInv, Types, TypeOK, Tls, TlsUp, AfterRead
<1>0. /\ Scripted' /\ Unread' /\ Known' /\ UNCHANGED <<Sent, Http, Capped, Untimed>>
  <2>1. UNCHANGED <<ends, toSend, pc, choice, peeked, socks>>
      BY <1>a DEF clientWire
  <2> QED BY <1>a, <1>t, <2>1, PumpFrame
<1> USE DEF ends, clientWire, got, choice
<1>1. Types'
  <2>1. t1' \in {"recv", "send"}
      BY <1>b
  <2>2. hand1' \in Seq(Wire) /\ <<>> \in Seq(Plain) /\ <<>> \in Seq(Wire)
      BY <1>h, AsSentOfKept, Nothing
  <2> QED BY <1>a, <1>h, <1>t, <2>1, <2>2 DEF TlsInv, Types, TypeOK, Thread
<1>5. Pumping'
  <2>1. t1' \in {"recv", "send"} /\ (t1' = "recv" => Http)
        /\ (t1' = "send" /\ Http => HasRequest(hand1'))
      BY <1>b
  <2>2. HasRequest(hand1)' = HasRequest(hand1')
      BY DEF HasRequest, RequestLength, LooksHttp, HeaderEnds
  <2> QED BY <1>0, <1>a, <2>1, <2>2 DEF TlsInv, Pumping
<1>6. UpFlow'
  <2> SUFFICES ASSUME TlsUp(tlsC') PROVE UpFlow'
      BY DEF UpFlow
  <2> DEFINE A == AsSent(atRemote)
  <2>1. data = up
      BY <1>t, ReadingsIs
  <2>2. A \in Seq(Kept)
      BY AsSentElements DEF TlsInv, Types, TypeOK
  <2>3. Capped => hand1 = <<>>
      BY <1>a, <1>s DEF TlsInv, Pumping
  <2>4. Flowing
    <3>1. Capped => upCount + Len(hand1) < cfg.cap
        BY <1>a, <1>s, <2>3 DEF CapReached
    <3> QED BY <1>a, <3>1 DEF Flowing
  <2>5. A \o hand1 \o up = Sent
      BY <1>t, <2>4 DEF TlsInv, UpFlow
  <2>6. A' = A
      BY <1>a DEF AsSent
  <2> HIDE DEF A
  <2>7. CASE ~cut
    <3>1. hand1' = hand1 \o up
        BY <1>h, <2>1, <2>7 DEF kept
    <3>2. A \o hand1' = Sent
        BY <3>1, <1>d, <2>2, <2>5, ThreeParts, Zenon
    <3>3. Sent \in Seq(Kept) /\ Sent \o <<>> = Sent
      <4>1. A \o hand1' \in Seq(Kept)
          BY <1>h, <2>2
      <4> QED BY <3>2, <4>1
    <3>4. IsPrefix(Sent, Sent)
        BY <3>3, PrefixSame
    <3> QED BY <1>0, <1>a, <2>6, <3>2, <3>3, <3>4 DEF UpFlow, A
  <2>8. CASE cut
    <3>1. ~Flowing'
      <4>1. hand1' = kept /\ Len(hand1') = room
          BY <1>h, <1>k, <2>3, <2>8
      <4>2. upCount' + Len(hand1') = cfg'.cap
          BY <1>a, <1>n, <2>8, <4>1
      <4>3. upCount' + Len(hand1') \in Nat
          BY <4>2, <1>a, <1>s
      <4> QED BY <1>0, <2>8, <4>2, <4>3 DEF Flowing
    <3> DEFINE rest == SubSeq(data, room + 1, Len(data))
    <3>2. rest \in Seq(Kept) /\ kept \o rest = up
      <4>1. kept = SubSeq(data, 1, room)
          BY <2>8 DEF kept
      <4> HIDE DEF room
      <4> QED BY <1>d, <1>n, <2>1, <2>8, <4>1, CutInTwo
    <3> HIDE DEF rest
    <3>3. A \o hand1' \in Seq(Kept)
        BY <1>h, <2>2
    <3>4. (A \o hand1') \o rest = Sent
      <4>1. (A \o hand1) \o (kept \o rest) = Sent
          BY <2>5, <3>2
      <4>2. (A \o (hand1 \o kept)) \o rest = (A \o hand1) \o (kept \o rest)
        <5>1. A \in Seq(Kept) /\ hand1 \in Seq(Kept) /\ kept \in Seq(Kept) /\ rest \in Seq(Kept)
            BY <1>d, <1>k, <2>2, <3>2
        <5>2. A \o hand1 \in Seq(Kept) /\ hand1 \o kept \in Seq(Kept)
            BY <5>1
        <5>3. A \o (hand1 \o kept) = (A \o hand1) \o kept
            BY <5>1, ThreeParts, Zenon
        <5> DEFINE C == A \o hand1
        <5>5. C \in Seq(Kept)
            BY <5>2
        <5> HIDE DEF C
        <5>6. C \o (kept \o rest) = (C \o kept) \o rest
            BY <5>1, <5>5, ThreeParts, Zenon
        <5>4. (A \o hand1) \o (kept \o rest) = ((A \o hand1) \o kept) \o rest
            BY <5>6 DEF C
        <5> QED BY <5>3, <5>4
      <4> QED BY <1>h, <4>1, <4>2
    <3> DEFINE B == A \o hand1'
    <3>5. B \in Seq(Kept) /\ B \o rest = Sent
        BY <3>3, <3>4
    <3> HIDE DEF B
    <3>6. IsPrefix(B, Sent)
        BY <3>2, <3>5, PrefixOfConcat
    <3>7. IsPrefix(A \o hand1', Sent)
        BY <3>6 DEF B
    <3> QED BY <1>0, <2>6, <3>1, <3>7 DEF UpFlow, A
  <2> QED BY <2>7, <2>8
<1>7. DownFlow'
    BY <1>a, DownKeeps
<1>8. Ended'
  <2>1. t1' \in {"recv", "send"}
      BY <1>b
  <2> QED BY <1>0, <1>a, <2>1 DEF TlsInv, Ended, Said
<1>9. Requests'
    BY <1>a, <1>t DEF TlsInv, Requests
<1>10. Decided'
    BY <1>a, RouteStays
<1> QED BY <1>0, <1>1, <1>5, <1>6, <1>7, <1>8, <1>9, <1>10 DEF TlsInv

LEMMA UpEndsStep == TlsInv /\ (UpStops \/ UpSendFails \/ UpFinishes) => TlsInv'
<1> SUFFICES ASSUME TlsInv, UpStops \/ UpSendFails \/ UpFinishes PROVE TlsInv'
    OBVIOUS
<1>a. /\ pc = "pump" /\ t1 \in {"recv", "send", "fin"} /\ t1' \in {"fin", "done"}
      /\ UNCHANGED <<ends, wire, atRemote, atClient, clientFin, pc, choice, peeked, hands,
                     t2, upCount, tlsC, socks>>
    BY DEF UpStops, UpSendFails, UpFinishes, got, tls
<1>b. \/ t1' = "fin" /\ UNCHANGED <<remoteFin, tlsR>>
      \/ t1' = "done" /\ Http /\ UNCHANGED <<remoteFin, tlsR>>
      \/ t1' = "done" /\ ~Http /\ remoteFin' = TRUE /\ tlsR' = AfterShutdown(tlsR, t2)
    BY DEF UpStops, UpSendFails, UpFinishes, got, tls
<1>c. \/ t1 = "recv" /\ (CapReached \/ (up = <<>> /\ (cEnd # "open" \/ ~Untimed)))
      \/ t1 = "send" /\ rEnd # "open"
      \/ t1 = "fin"
    BY DEF UpStops, UpSendFails, UpFinishes
<1>t. tlsR' \in Tls /\ (TlsUp(tlsR') => TlsUp(tlsR))
    BY <1>b DEF TlsInv, Types, TypeOK, Tls, TlsUp, AfterShutdown
<1>0. /\ Scripted' /\ Unread' /\ Known' /\ UNCHANGED <<Sent, Http, Capped, Untimed>>
  <2>1. UNCHANGED <<ends, toSend, pc, choice, peeked, socks, tlsC>>
      BY <1>a DEF wire
  <2> QED BY <1>a, <2>1, PumpFrame
<1> USE DEF ends, wire, choice, hands
<1>1. Types'
  <2>1. remoteFin' \in BOOLEAN /\ t1' \in Thread
      BY <1>a, <1>b DEF TlsInv, Types, TypeOK, Thread
  <2> QED BY <1>a, <1>t, <2>1 DEF TlsInv, Types, TypeOK
<1>5. Pumping'
  <2>1. HasRequest(hand1)' = HasRequest(hand1)
      BY <1>a DEF HasRequest, RequestLength, LooksHttp, HeaderEnds
  <2> QED BY <1>0, <1>a, <1>b, <2>1 DEF TlsInv, Pumping
<1>6. UpFlow'
  <2>1. ~Flowing'
      BY <1>a DEF Flowing
  <2> QED BY <1>0, <1>a, <2>1 DEF TlsInv, UpFlow, AsSent
<1>7. DownFlow'
    BY <1>a, <1>t, DownKeeps
<1>8. Ended'
  <2>1. ASSUME ~Http, rEnd = "open", ~Capped
        PROVE  cEnd # "open" /\ (cEnd = "eof" /\ TlsUp(tlsC) => atRemote = Sent)
    <3>1. CASE t1 = "fin"
        BY <2>1, <3>1 DEF TlsInv, Ended
    <3>2. CASE t1 = "recv"
      <4>1. up = <<>> /\ cEnd # "open"
          BY <1>a, <1>c, <2>1, <3>2, Sessions DEF CapReached
      <4>2. hand1 = <<>> /\ atRemote \in Seq(Kept)
          BY <2>1, <3>2 DEF TlsInv, Pumping
      <4>3. ASSUME cEnd = "eof", TlsUp(tlsC) PROVE atRemote = Sent
        <5>1. Flowing
            BY <1>a, <2>1, <3>2, <4>3 DEF Flowing
        <5>2. AsSent(atRemote) \o <<>> \o <<>> = Sent
            BY <4>1, <4>2, <4>3, <5>1 DEF TlsInv, UpFlow
        <5>3. AsSent(atRemote) = atRemote
            BY <4>2, AsSentOfKept
        <5> QED BY <4>2, <5>2, <5>3
      <4> QED BY <4>1, <4>3
    <3> QED BY <1>c, <2>1, <3>1, <3>2
  <2> QED BY <1>0, <1>a, <1>t, <2>1 DEF TlsInv, Ended, Said
<1>9. Requests'
    BY <1>a DEF TlsInv, Requests
<1>10. Decided'
    BY <1>a, RouteStays
<1> QED BY <1>0, <1>1, <1>5, <1>6, <1>7, <1>8, <1>9, <1>10 DEF TlsInv

\* Where the TLS ends at the proxy, what a pump holds is the next of the client's own data.
LEMMA HandIsApp ==
    ASSUME TlsInv, tlsC = "up"
    PROVE  \A j \in 1..Len(hand1) : /\ Len(atRemote) + j \in 1..Len(client.app)
                                    /\ hand1[j] = client.app[Len(atRemote) + j]
<1> DEFINE A == AsSent(atRemote)
           B == A \o hand1
<1>1. A \in Seq(Kept) /\ Len(A) = Len(atRemote) /\ hand1 \in Seq(Kept) /\ Len(atRemote) \in Nat
      /\ Len(hand1) \in Nat
    BY AsSentElements DEF TlsInv, Types, TypeOK
<1>2. IsPrefix(B, Sent)
    BY DEF TlsInv, UpFlow, TlsUp
<1>3. /\ Sent \in Seq(Kept) /\ Len(Sent) = Len(client.app) - Len(toSend)
      /\ \A i \in 1..Len(Sent) : Sent[i] = client.app[i]
  <2>1. Sent \in Seq(Plain) => Sent \in Seq(Kept)
      BY SeqMonotonic DEF Plain, Kept, Wire, Token, HelloToken
  <2> QED BY <2>1, SentElements DEF TlsInv
<1>4. Len(client.app) \in Nat /\ Len(toSend) \in Nat
    BY ScriptElements, AllSentElements DEF TlsInv, Types
<1> HIDE DEF A
<1>5. /\ B \in Seq(Kept) /\ Len(B) = Len(A) + Len(hand1)
      /\ \A i \in 1..Len(hand1) : B[Len(A) + i] = hand1[i]
  <2>1. A \in Seq(Kept) /\ hand1 \in Seq(Kept)
      BY <1>1
  <2>2. ASSUME NEW s \in Seq(Kept), NEW t \in Seq(Kept)
        PROVE  /\ s \o t \in Seq(Kept) /\ Len(s \o t) = Len(s) + Len(t)
               /\ \A i \in 1..Len(t) : (s \o t)[Len(s) + i] = t[i]
      BY ConcatElements
  <2> QED BY <2>1, <2>2
<1> HIDE DEF B
<1>6. Len(B) <= Len(Sent) /\ \A i \in 1..Len(B) : B[i] = Sent[i]
    BY <1>2, <1>3, <1>5, PrefixIs
<1>7. ASSUME NEW j \in 1..Len(hand1)
      PROVE  Len(A) + j \in 1..Len(client.app) /\ hand1[j] = client.app[Len(A) + j]
  <2>1. Len(A) + j \in 1..Len(B) /\ Len(A) + j \in 1..Len(Sent) /\ Len(A) + j \in 1..Len(client.app)
      BY <1>1, <1>3, <1>4, <1>5, <1>6
  <2> QED BY <1>3, <1>5, <1>6, <2>1
<1> QED BY <1>1, <1>7

\* A whole request of a well-formed client ends where the next one begins, and names its
\* host once.
LEMMA WholeRequest ==
    ASSUME TlsInv, tlsC = "up", HasRequest(hand1)
    PROVE  LET n == RequestLength(hand1)
           IN  /\ hand1[n] \in {"end0", "body"}
               /\ \A j \in 1..n : hand1[j] = "get2" => j = 2
<1> DEFINE n == RequestLength(hand1)
           a == Len(atRemote)
           app == client.app
<1>1. hand1 \in Seq(Wire) /\ Len(hand1) \in Nat /\ a \in Nat
    BY DEF TlsInv, Types, TypeOK
<1>2. /\ n \in 3..Len(hand1) /\ hand1[1] = "get1" /\ hand1[2] = "get2"
      /\ \E h \in 3..Len(hand1) :
           /\ \A j \in 1..(h - 1) : hand1[j] \notin {"end0", "end1"}
           /\ \/ hand1[h] = "end0" /\ n = h
              \/ hand1[h] = "end1" /\ n = h + 1
    BY <1>1, RequestIs
<1>3. \A j \in 1..Len(hand1) : a + j \in 1..Len(app) /\ hand1[j] = app[a + j]
    BY HandIsApp
<1>4. Len(app) \in Nat /\ DOMAIN app = 1..Len(app)
    BY AppTyped DEF TlsInv, Types
<1>5. \A i \in 1..Len(app) :
        /\ app[i] = "get1" => i = 1 \/ app[i - 1] \in {"end0", "body"}
        /\ app[i] = "get2" => app[i - 1] = "get1"
        /\ app[i] = "end1" => i = Len(app) \/ app[i + 1] = "body"
        /\ app[i] = "body" => app[i - 1] = "end1"
    BY <1>4, AppTyped DEF TlsInv, Types, WellFormed
<1> HIDE DEF n, a, app
<1>6. PICK h \in 3..Len(hand1) :
         /\ \A j \in 1..(h - 1) : hand1[j] \notin {"end0", "end1"}
         /\ \/ hand1[h] = "end0" /\ n = h
            \/ hand1[h] = "end1" /\ n = h + 1
    BY <1>2
<1>7. ASSUME NEW j \in 2..Len(hand1)
      PROVE  /\ hand1[j] = "get1" => hand1[j - 1] \in {"end0", "body"}
             /\ hand1[j] = "get2" => hand1[j - 1] = "get1"
             /\ hand1[j - 1] = "end1" => hand1[j] = "body"
             /\ hand1[j] = "body" => hand1[j - 1] = "end1"
  <2>1. j \in 1..Len(hand1) /\ j - 1 \in 1..Len(hand1)
      BY <1>1
  <2>2. /\ a + j \in 1..Len(app) /\ hand1[j] = app[a + j]
        /\ a + (j - 1) \in 1..Len(app) /\ hand1[j - 1] = app[a + (j - 1)]
      BY <1>3, <2>1
  <2>3. a + (j - 1) = (a + j) - 1 /\ a + j # 1 /\ (a + (j - 1)) + 1 = a + j /\ a + (j - 1) # Len(app)
      BY <1>1, <1>4, <2>2
  <2> QED BY <1>5, <2>2, <2>3
<1>8. hand1[n] \in {"end0", "body"}
  <2>1. CASE n = h
      BY <1>6, <2>1
  <2>2. CASE n = h + 1 /\ hand1[h] = "end1"
    <3>1. n \in 2..Len(hand1) /\ n - 1 = h
        BY <1>1, <1>2, <2>2
    <3> QED BY <1>7, <2>2, <3>1
  <2> QED BY <1>6, <2>1, <2>2
<1>9. ASSUME NEW j \in 1..n, hand1[j] = "get2" PROVE j = 2
  <2>1. j # 1
      BY <1>2, <1>9
  <2>2. SUFFICES ASSUME j >= 3 PROVE FALSE
      BY <1>2, <2>1
  <2>3. n <= h + 1 /\ n \in Nat /\ h \in Nat /\ n <= Len(hand1)
      BY <1>2, <1>6
  <2>4. j \in 2..Len(hand1) /\ j - 1 \in 2..Len(hand1) /\ (j - 1) - 1 = j - 2
      BY <2>2, <2>3, <1>1
  <2>5. hand1[j - 1] = "get1"
      BY <1>7, <1>9, <2>4
  <2>6. hand1[j - 2] \in {"end0", "body"}
      BY <1>7, <2>4, <2>5
  <2>7. j # 3 /\ j # 4
    <3>1. CASE j = 3
        BY <1>2, <2>5, <3>1
    <3>2. CASE j = 4
        BY <1>2, <2>6, <3>2
    <3> QED BY <3>1, <3>2
  <2>8. j - 2 \in 1..(h - 1) /\ j - 2 \in 2..Len(hand1) /\ j - 3 \in 1..(h - 1) /\ (j - 2) - 1 = j - 3
      BY <2>2, <2>3, <2>7, <1>1
  <2>9. hand1[j - 2] = "body"
      BY <1>6, <2>6, <2>8
  <2>10. hand1[j - 3] = "end1"
      BY <1>7, <2>8, <2>9
  <2> QED BY <1>6, <2>8, <2>10
<1> QED BY <1>8, <1>9 DEF n

LEMMA UpSendsPlain == TlsInv /\ ~Http /\ UpSends
                      => /\ atRemote' = atRemote \o hand1 /\ hand1' = <<>> /\ t1' = "recv"
                         /\ upCount' = upCount + Len(hand1)
<1> SUFFICES ASSUME TlsInv, ~Http, UpSends
             PROVE  /\ atRemote' = atRemote \o hand1 /\ hand1' = <<>> /\ t1' = "recv"
                    /\ upCount' = upCount + Len(hand1)
    OBVIOUS
<1>1. hand1 \in Seq(Kept) /\ Len(hand1) \in Nat
    BY DEF TlsInv, Types
<1>2. SubSeq(hand1, 1, Len(hand1)) = hand1 /\ SubSeq(hand1, Len(hand1) + 1, Len(hand1)) = <<>>
    BY <1>1
<1> QED BY <1>2 DEF UpSends

\* One request leaves, rewritten; what is left is what came after it.
LEMMA UpSendsRequest ==
    ASSUME TlsInv, pc = "pump", Http, UpSends, NEW n, n = RequestLength(hand1)
    PROVE  /\ n \in 3..Len(hand1) /\ HasRequest(hand1)
           /\ atRemote' = atRemote \o Rewritten(SubSeq(hand1, 1, n))
           /\ SubSeq(hand1, 1, n) \in Seq(Kept) /\ Len(SubSeq(hand1, 1, n)) = n
           /\ \A i \in 1..n : SubSeq(hand1, 1, n)[i] = hand1[i]
           /\ hand1[2] = "get2"
           /\ hand1' \in Seq(Kept) /\ SubSeq(hand1, 1, n) \o hand1' = hand1
           /\ upCount' = upCount + n
           /\ t1' = IF HasRequest(hand1') THEN "send" ELSE "recv"
<1>1. t1 = "send" /\ HasRequest(hand1)
    BY DEF UpSends, TlsInv, Pumping
<1>2. hand1 \in Seq(Kept) /\ hand1 \in Seq(Wire) /\ Len(hand1) \in Nat
    BY DEF TlsInv, Types, TypeOK
<1>3. n \in 3..Len(hand1) /\ hand1[2] = "get2"
    BY <1>1, <1>2, RequestIs
<1>4. /\ atRemote' = atRemote \o Rewritten(SubSeq(hand1, 1, n))
      /\ hand1' = SubSeq(hand1, n + 1, Len(hand1)) /\ upCount' = upCount + n
      /\ t1' = IF HasRequest(hand1') THEN "send" ELSE "recv"
    BY DEF UpSends
<1>5. n \in 0..Len(hand1)
    BY <1>3
<1>6. /\ SubSeq(hand1, 1, n) \in Seq(Kept) /\ Len(SubSeq(hand1, 1, n)) = n
      /\ \A i \in 1..n : SubSeq(hand1, 1, n)[i] = hand1[i]
      /\ SubSeq(hand1, n + 1, Len(hand1)) \in Seq(Kept)
      /\ SubSeq(hand1, 1, n) \o SubSeq(hand1, n + 1, Len(hand1)) = hand1
    BY <1>2, <1>5, CutInTwo
<1> QED BY <1>1, <1>3, <1>4, <1>6

LEMMA Joined ==
    ASSUME NEW S, NEW a \in Seq(S), NEW b \in Seq(S)
    PROVE  a \o b \in Seq(S)
    OBVIOUS

LEMMA JoinedLonger ==
    ASSUME NEW S, NEW a \in Seq(S), NEW b \in Seq(S), NEW e \in S
    PROVE  a \o Append(b, e) = Append(a \o b, e)
<1>1. /\ Append(b, e) \in Seq(S) /\ Len(Append(b, e)) = Len(b) + 1
      /\ \A i \in 1..Len(b) : Append(b, e)[i] = b[i]
      /\ Append(b, e)[Len(b) + 1] = e
    OBVIOUS
<1> QED BY <1>1

LEMMA UpSendsStep == TlsInv /\ UpSends => TlsInv'
<1> SUFFICES ASSUME TlsInv, UpSends PROVE TlsInv'
    OBVIOUS
<1> DEFINE n == RequestLength(hand1)
           data == SubSeq(hand1, 1, n)
           request == Rewritten(data)
<1>a. /\ pc = "pump" /\ t1 = "send"
      /\ UNCHANGED <<ends, wire, atClient, remoteFin, clientFin, pc, choice, peeked,
                     hand2, t2, tls, socks>>
      /\ t1' = IF Http /\ HasRequest(hand1') THEN "send" ELSE "recv"
    BY DEF UpSends
<1>0. /\ Scripted' /\ Unread' /\ Known' /\ UNCHANGED <<Sent, Http, Capped, Untimed>>
  <2>1. UNCHANGED <<ends, toSend, pc, choice, peeked, socks, tlsC>>
      BY <1>a DEF wire, tls
  <2> QED BY <1>a, <2>1, PumpFrame
<1>b. /\ atRemote \in Seq(Wire) /\ hand1 \in Seq(Kept) /\ hand1 \in Seq(Wire) /\ upCount \in Nat
      /\ Len(hand1) \in Nat
    BY DEF TlsInv, Types, TypeOK
<1>c. ASSUME Http
      PROVE  /\ n \in 3..Len(hand1) /\ HasRequest(hand1)
             /\ atRemote' = atRemote \o request
             /\ data \in Seq(Kept) /\ Len(data) = n /\ \A i \in 1..n : data[i] = hand1[i]
             /\ hand1' \in Seq(Kept) /\ data \o hand1' = hand1
             /\ upCount' = upCount + n
             /\ request \in Seq(Wire) /\ Len(request) = n /\ AsSent(request) = data
             /\ \A i \in 1..n : request[i] = IF i = 2 THEN "rehost" ELSE hand1[i]
  <2>1. /\ n \in 3..Len(hand1) /\ HasRequest(hand1)
        /\ atRemote' = atRemote \o request
        /\ data \in Seq(Kept) /\ Len(data) = n /\ \A i \in 1..n : data[i] = hand1[i]
        /\ hand1[2] = "get2"
        /\ hand1' \in Seq(Kept) /\ data \o hand1' = hand1
        /\ upCount' = upCount + n
      BY <1>a, <1>c, UpSendsRequest
  <2> HIDE DEF n
  <2>2. 2 \in 1..n /\ n \in Nat
      BY <1>b, <2>1
  <2> HIDE DEF data
  <2>3. Len(data) >= 2 /\ data[2] = "get2"
      BY <2>1, <2>2
  <2>4. /\ request \in Seq(Wire) /\ Len(request) = Len(data) /\ AsSent(request) = data
        /\ \A i \in 1..Len(data) : request[i] = IF i = 2 THEN "rehost" ELSE data[i]
      BY <2>1, <2>3, RewrittenIs
  <2> QED BY <2>1, <2>4
<1>d. ASSUME ~Http
      PROVE  atRemote' = atRemote \o hand1 /\ hand1' = <<>> /\ t1' = "recv"
             /\ upCount' = upCount + Len(hand1)
    BY <1>d, UpSendsPlain
<1> HIDE DEF request, data, n
<1> USE DEF ends, wire, choice, tls
<1>1. Types'
  <2>1. atRemote' \in Seq(Wire) /\ hand1' \in Seq(Kept) /\ hand1' \in Seq(Wire) /\ upCount' \in Nat
    <3>1. CASE Http
      <4>1. hand1' \in Seq(Wire)
          BY <1>c, <3>1, AsSentOfKept
      <4>2. request \in Seq(Wire) /\ atRemote' = atRemote \o request
          BY <1>c, <3>1
      <4>3. atRemote' \in Seq(Wire)
          BY <1>b, <4>2, Joined
      <4>4. upCount' = upCount + n /\ n \in 3..Len(hand1) /\ hand1' \in Seq(Kept)
          BY <1>c, <3>1
      <4> QED BY <1>b, <4>1, <4>3, <4>4
    <3>2. CASE ~Http
      <4>1. atRemote' = atRemote \o hand1 /\ hand1' = <<>> /\ upCount' = upCount + Len(hand1)
          BY <1>d, <3>2
      <4>2. atRemote' \in Seq(Wire)
          BY <1>b, <4>1, Joined
      <4>3. <<>> \in Seq(Kept) /\ <<>> \in Seq(Wire)
          BY Nothing, AsSentOfKept
      <4> QED BY <1>b, <4>1, <4>2, <4>3
    <3> QED BY <3>1, <3>2
  <2>2. t1' \in Thread
      BY <1>a DEF Thread
  <2> QED BY <1>a, <2>1, <2>2 DEF TlsInv, Types, TypeOK
<1>5. Pumping'
  <2>1. HasRequest(hand1)' = HasRequest(hand1')
      BY DEF HasRequest, RequestLength, LooksHttp, HeaderEnds
  <2>2. ~Http => atRemote' \in Seq(Kept)
    <3>1. ~Http => atRemote \in Seq(Kept)
        BY DEF TlsInv, Pumping
    <3>2. ~Http => atRemote' = atRemote \o hand1
        BY <1>d
    <3> QED BY <1>b, <3>1, <3>2, Joined
  <2> QED BY <1>0, <1>a, <1>d, <2>1, <2>2 DEF TlsInv, Pumping
<1>6. UpFlow'
  <2> SUFFICES ASSUME TlsUp(tlsC) PROVE UpFlow'
      BY <1>a DEF UpFlow
  <2> DEFINE A == AsSent(atRemote)
             B == AsSent(atRemote')
  <2>1. A \in Seq(Kept) /\ AsSent(atRemote)' = B
      BY <1>b, AsSentElements DEF AsSent
  <2>2. IsPrefix(A \o hand1, Sent) /\ (Flowing => A \o hand1 \o up = Sent)
      BY DEF TlsInv, UpFlow
  <2>3. B \o hand1' = A \o hand1
    <3>1. CASE Http
      <4>1. B = A \o AsSent(request)
          BY <1>b, <1>c, <3>1, AsSentOfConcat
      <4>2. AsSent(request) = data /\ data \o hand1' = hand1 /\ data \in Seq(Kept) /\ hand1' \in Seq(Kept)
          BY <1>c, <3>1
      <4> HIDE DEF A, B
      <4>3. A \o (data \o hand1') = (A \o data) \o hand1'
          BY <2>1, <4>2, ThreeParts, Zenon
      <4> QED BY <4>1, <4>2, <4>3
    <3>2. CASE ~Http
      <4>1. B = A \o AsSent(hand1) /\ AsSent(hand1) = hand1
          BY <1>b, <1>d, <3>2, AsSentOfConcat, AsSentOfKept
      <4> HIDE DEF A, B
      <4>2. A \o hand1 \in Seq(Kept)
          BY <1>b, <2>1
      <4>3. (A \o hand1) \o <<>> = A \o hand1
        <5> DEFINE C == A \o hand1
        <5>1. C \in Seq(Kept)
            BY <4>2
        <5> HIDE DEF C
        <5>2. C \o <<>> = C
            BY <5>1
        <5> QED BY <5>2 DEF C
      <4> QED BY <1>d, <3>2, <4>1, <4>3
    <3> QED BY <3>1, <3>2
  <2>4. Flowing' => Flowing
    <3>1. Capped => ~Http /\ cfg.cap \in Nat
        BY <1>a, Sessions
    <3>2. Capped /\ upCount' + Len(hand1') < cfg.cap => upCount + Len(hand1) < cfg.cap
      <4>1. Capped => hand1' = <<>> /\ upCount' = upCount + Len(hand1) /\ Len(<<>>) = 0
          BY <1>d, <3>1
      <4> QED BY <1>b, <3>1, <4>1
    <3> QED BY <1>0, <1>a, <3>2 DEF Flowing
  <2> HIDE DEF A, B
  <2> QED BY <1>0, <1>a, <2>1, <2>2, <2>3, <2>4 DEF UpFlow, A
<1>7. DownFlow'
    BY <1>a, DownKeeps
<1>8. Ended'
  <2>1. t1' \in {"recv", "send"}
      BY <1>a
  <2> QED BY <1>0, <1>a, <2>1 DEF TlsInv, Ended, Said
<1>9. Requests'
  <2> SUFFICES ASSUME target = "content", tlsC = "up"
               PROVE  Last(atRemote') \in {"end0", "body"} /\ "get2" \notin Range(atRemote')
      BY <1>a DEF Requests
  <2>1. Http
      BY <1>a DEF TlsInv, Known, Http
  <2>2. hand1[n] \in {"end0", "body"} /\ \A j \in 1..n : hand1[j] = "get2" => j = 2
      BY <1>c, <2>1, WholeRequest DEF n
  <2>3. /\ atRemote' = atRemote \o request /\ n \in 3..Len(hand1) /\ request \in Seq(Wire)
        /\ Len(request) = n
        /\ \A i \in 1..n : request[i] = IF i = 2 THEN "rehost" ELSE hand1[i]
      BY <1>c, <2>1
  <2> DEFINE r == atRemote'
             m == Len(atRemote)
  <2>4. /\ r \in Seq(Wire) /\ Len(r) = m + n /\ m \in Nat /\ n \in Nat /\ n >= 3
        /\ \A i \in 1..m : r[i] = atRemote[i]
        /\ \A i \in 1..n : r[m + i] = request[i]
    <3>1. ASSUME NEW s \in Seq(Wire), NEW t \in Seq(Wire)
          PROVE  /\ s \o t \in Seq(Wire) /\ Len(s \o t) = Len(s) + Len(t)
                 /\ \A i \in 1..Len(s) : (s \o t)[i] = s[i]
                 /\ \A i \in 1..Len(t) : (s \o t)[Len(s) + i] = t[i]
        BY ConcatElements
    <3>2. atRemote \in Seq(Wire) /\ request \in Seq(Wire)
        BY <1>b, <2>3
    <3>3. /\ atRemote \o request \in Seq(Wire) /\ Len(atRemote \o request) = m + Len(request)
          /\ \A i \in 1..m : (atRemote \o request)[i] = atRemote[i]
          /\ \A i \in 1..Len(request) : (atRemote \o request)[m + i] = request[i]
        BY <3>1, <3>2
    <3>4. n \in Nat /\ n >= 3 /\ m \in Nat
        BY <1>b, <2>3
    <3> QED BY <2>3, <3>3, <3>4
  <2>5. \A i \in 1..m : atRemote[i] # "get2"
    <3>1. atRemote # <<>> => "get2" \notin Range(atRemote)
        BY <2>1 DEF TlsInv, Requests
    <3> QED BY <1>b, <3>1 DEF Range
  <2> HIDE DEF r, m
  <2>6. Last(r) = request[n]
    <3>1. Last(r) = r[m + n]
        BY <2>4 DEF Last
    <3> QED BY <2>4, <3>1
  <2>7. Last(r) \in {"end0", "body"}
      BY <2>2, <2>3, <2>4, <2>6
  <2>8. ASSUME NEW i \in 1..(m + n) PROVE r[i] # "get2"
    <3>1. CASE i \in 1..m
        BY <2>4, <2>5, <3>1
    <3>2. CASE i \notin 1..m
      <4>1. i - m \in 1..n /\ m + (i - m) = i
          BY <2>4, <3>2
      <4>2. r[i] = request[i - m]
          BY <2>4, <4>1
      <4> QED BY <2>2, <2>3, <4>1, <4>2
    <3> QED BY <3>1, <3>2
  <2>9. "get2" \notin Range(r)
      BY <2>4, <2>8 DEF Range
  <2> QED BY <2>7, <2>9 DEF r
<1>10. Decided'
  <2>1. atRemote # <<>> => atRemote' # <<>> /\ Head(atRemote') = Head(atRemote)
    <3>1. PICK x \in Seq(Wire) : atRemote' = atRemote \o x
      <4>1. CASE Http
          BY <1>c, <4>1
      <4>2. CASE ~Http
          BY <1>b, <1>d, <4>2
      <4> QED BY <4>1, <4>2
    <3> QED BY <1>b, <3>1
  <2> QED BY <1>a, <2>1, RouteStays
<1> QED BY <1>0, <1>1, <1>5, <1>6, <1>7, <1>8, <1>9, <1>10 DEF TlsInv

----------------------------------------------------------------------------
(* The pump to the client.                                                 *)

LEMMA ReadDown ==
    ASSUME TypeOK, NEW data \in Readings(down, tlsR, 0)
    PROVE  data \in Seq(Nat)
<1>1. down \in Seq(Nat) /\ tlsR \in Tls
    BY DEF TypeOK
<1> DEFINE raw == [i \in DOMAIN down |-> 0]
<1>2. raw \in Seq(Nat)
  <2>1. raw = [i \in 1..Len(down) |-> 0] /\ Len(down) \in Nat
      BY <1>1
  <2>2. raw \in [1..Len(down) -> Nat]
      BY <2>1
  <2> HIDE DEF raw
  <2>3. Seq(Nat) = UNION {[1..n -> Nat] : n \in Nat}
      BY SeqDef, Zenon
  <2> QED BY <2>1, <2>2, <2>3, Zenon
<1>3. data \in {down, raw}
    BY <1>1 DEF Readings, Tls
<1> QED BY <1>1, <1>2, <1>3

LEMMA DownStep ==
    ASSUME TlsInv, DownReads \/ DownStops \/ DownSends \/ DownSendFails \/ DownFinishes
    PROVE  TlsInv'
<1>a. /\ pc = "pump" /\ t2 \in {"recv", "send", "fin"} /\ t2' \in {"recv", "send", "fin", "done"}
      /\ UNCHANGED <<ends, toSend, up, cEnd, replies, rEnd, atRemote, remoteFin, pc, choice, peeked,
                     hand1, t1, upCount, socks>>
    BY DEF DownReads, DownStops, DownSends, DownSendFails, DownFinishes, wire, clientWire, got,
           hands, tls
<1>b. \/ /\ t2 = "recv" /\ t2' = "send" /\ rEnd # "reset" /\ down' = <<>> /\ tlsR' = AfterRead(tlsR)
         /\ hand2' \in Readings(down, tlsR, 0) /\ UNCHANGED <<atClient, clientFin, tlsC>>
      \/ /\ t2 = "recv" /\ t2' = "fin" /\ down = <<>> /\ (rEnd # "open" \/ ~Untimed)
         /\ UNCHANGED <<down, hand2, tlsR, atClient, clientFin, tlsC>>
      \/ /\ t2 = "send" /\ t2' = "recv" /\ atClient' = atClient \o hand2 /\ hand2' = <<>>
         /\ UNCHANGED <<down, tlsR, clientFin, tlsC>>
      \/ /\ t2 = "send" /\ t2' = "fin" /\ cEnd # "open"
         /\ UNCHANGED <<down, hand2, tlsR, atClient, clientFin, tlsC>>
      \/ /\ t2 = "fin" /\ t2' = "done" /\ clientFin' = TRUE /\ tlsC' = AfterShutdown(tlsC, t1)
         /\ UNCHANGED <<down, hand2, tlsR, atClient>>
    BY DEF DownReads, DownStops, DownSends, DownSendFails, DownFinishes, wire, clientWire, got,
           hands, tls
<1>c. /\ tlsC' \in Tls /\ (tlsC' = "plain" <=> tlsC = "plain") /\ (TlsUp(tlsC') => TlsUp(tlsC))
      /\ tlsC' = "up" => tlsC = "up"
  <2>1. tlsC' = tlsC \/ tlsC' = AfterShutdown(tlsC, t1)
      BY <1>b
  <2> QED BY <2>1 DEF TlsInv, Types, TypeOK, Tls, TlsUp, AfterShutdown
<1>d. tlsR' \in Tls /\ (TlsUp(tlsR') => TlsUp(tlsR) /\ tlsR' = tlsR)
  <2>1. tlsR' = tlsR \/ tlsR' = AfterRead(tlsR)
      BY <1>b
  <2> QED BY <2>1 DEF TlsInv, Types, TypeOK, Tls, TlsUp, AfterRead
<1>0. /\ Scripted' /\ Unread' /\ Known' /\ UNCHANGED <<Sent, Http, Capped, Untimed>>
    BY <1>a, <1>c, PumpFrame
<1>e. /\ hand2 \in Seq(Nat) /\ down \in Seq(Nat) /\ atClient \in Seq(Nat)
      /\ t2 = "recv" => hand2 = <<>>
    BY DEF TlsInv, Types, TypeOK, Pumping
<1>f. hand2' \in Seq(Nat) /\ down' \in Seq(Nat) /\ atClient' \in Seq(Nat)
  <2>1. CASE hand2' \in Readings(down, tlsR, 0) /\ down' = <<>> /\ UNCHANGED atClient
      BY <1>e, <2>1, ReadDown, Nothing DEF TlsInv, Types
  <2>2. CASE atClient' = atClient \o hand2 /\ hand2' = <<>> /\ UNCHANGED down
      BY <1>e, <2>2, Joined, Nothing
  <2>3. CASE UNCHANGED <<down, hand2, atClient>>
      BY <1>e, <2>3
  <2> QED BY <1>b, <2>1, <2>2, <2>3
<1> USE DEF ends, choice
<1>1. Types'
  <2>1. t2' \in Thread /\ clientFin' \in BOOLEAN
      BY <1>a, <1>b DEF TlsInv, Types, TypeOK, Thread
  <2> QED BY <1>a, <1>c, <1>d, <1>f, <2>1 DEF TlsInv, Types, TypeOK
<1>5. Pumping'
  <2>1. HasRequest(hand1)' = HasRequest(hand1)
      BY <1>a DEF HasRequest, RequestLength, LooksHttp, HeaderEnds
  <2>2. t2' # "off" /\ (t2' = "recv" => hand2' = <<>>) /\ (clientFin' => t2' = "done")
      BY <1>a, <1>b DEF TlsInv, Pumping
  <2> QED BY <1>0, <1>a, <2>1, <2>2 DEF TlsInv, Pumping
<1>6. UpFlow'
    BY <1>a, <1>c, UpKeeps
<1>7. DownFlow'
  <2> SUFFICES ASSUME TlsUp(tlsR) PROVE DownFlow'
      BY <1>a, <1>d DEF DownFlow
  <2>1. /\ IsPrefix(atClient \o hand2, Said(replies))
        /\ t2 \in {"recv", "send"} /\ rEnd # "reset" => atClient \o hand2 \o down = Said(replies)
      BY <1>a DEF TlsInv, DownFlow
  <2>2. Said(replies)' = Said(replies)
      BY <1>a DEF Said
  <2>3. CASE /\ t2 = "recv" /\ t2' = "send" /\ rEnd # "reset" /\ down' = <<>>
             /\ hand2' \in Readings(down, tlsR, 0) /\ UNCHANGED atClient
    <3>1. hand2 = <<>> /\ hand2' = down
        BY <1>e, <2>3, ReadingsIs
    <3>2. atClient \o <<>> = atClient
        BY <1>e
    <3>3. atClient \o down = Said(replies)
        BY <2>1, <2>3, <3>1, <3>2
    <3> DEFINE s == atClient \o down
    <3>4. s \in Seq(Nat)
        BY <1>e, Joined
    <3> HIDE DEF s
    <3>5. IsPrefix(s, s) /\ s \o <<>> = s
        BY <3>4, PrefixSame
    <3> QED BY <1>a, <2>2, <2>3, <3>1, <3>3, <3>5 DEF DownFlow, s
  <2>4. CASE t2 = "send" /\ t2' = "recv" /\ atClient' = atClient \o hand2 /\ hand2' = <<>>
             /\ UNCHANGED down
    <3> DEFINE s == atClient \o hand2
    <3>1. s \in Seq(Nat)
        BY <1>e, Joined
    <3>2. atClient' = s /\ IsPrefix(s, Said(replies)) /\ (rEnd # "reset" => s \o down = Said(replies))
        BY <2>1, <2>4
    <3> HIDE DEF s
    <3>3. s \o <<>> = s
        BY <3>1
    <3> QED BY <1>a, <2>2, <2>4, <3>2, <3>3 DEF DownFlow
  <2>5. CASE UNCHANGED <<down, hand2, atClient>> /\ t2' \in {"fin", "done"}
      BY <1>a, <2>1, <2>2, <2>5 DEF DownFlow
  <2> QED BY <1>b, <2>3, <2>4, <2>5
<1>8. Ended'
  <2>1. ASSUME t2' \in {"fin", "done"}, Untimed, cEnd = "open"
        PROVE  rEnd # "open" /\ (rEnd = "eof" /\ TlsUp(tlsR) => atClient = Said(replies))
    <3>1. CASE t2 = "fin"
        BY <2>1, <3>1 DEF TlsInv, Ended
    <3>2. CASE t2 = "recv"
      <4>1. down = <<>> /\ rEnd # "open" /\ hand2 = <<>>
          BY <1>b, <1>e, <2>1, <3>2
      <4>2. ASSUME rEnd = "eof", TlsUp(tlsR) PROVE atClient = Said(replies)
        <5>1. atClient \o <<>> \o <<>> = Said(replies)
            BY <1>a, <3>2, <4>1, <4>2 DEF TlsInv, DownFlow
        <5> QED BY <1>e, <5>1
      <4> QED BY <4>1, <4>2
    <3>3. CASE t2 = "send"
        BY <1>b, <2>1, <3>3
    <3> QED BY <1>a, <3>1, <3>2, <3>3
  <2>2. t2' \in {"fin", "done"} => UNCHANGED atClient
      BY <1>b
  <2>3. Said(replies)' = Said(replies)
      BY <1>a DEF Said
  <2> QED BY <1>0, <1>a, <1>c, <1>d, <2>1, <2>2, <2>3 DEF TlsInv, Ended
<1>9. Requests'
    BY <1>a, <1>c DEF TlsInv, Requests
<1>10. Decided'
    BY <1>a, RouteStays
<1> QED BY <1>0, <1>1, <1>5, <1>6, <1>7, <1>8, <1>9, <1>10 DEF TlsInv

----------------------------------------------------------------------------
(* The client and the backend.                                             *)

\* What the peers leave alone.
LEMMA PeersFrame ==
    ASSUME TlsInv, Live,
           UNCHANGED <<ends, got, pc, choice, peeked, hands, pumps, tls, socks>>,
           cEnd' # "reset" => cEnd # "reset" /\ Len(up) <= Len(up') /\ Len(up') \in Nat
    PROVE  /\ Unread' /\ Known' /\ Pumping' /\ Requests' /\ Decided'
           /\ UNCHANGED <<Script, Http, Capped, Untimed>>
<1> USE DEF ends, got, choice, hands, pumps, tls
<1>0. UNCHANGED <<Script, Http, Capped, Untimed>>
    BY DEF Script, Hello, Http, Capped, Untimed
<1>1. Unread'
    BY <1>0 DEF TlsInv, Unread, Early
<1>2. Known'
  <2>1. ASSUME pc \in {"connect", "forward"}, tlsC = "plain", cEnd' # "reset"
        PROVE  peeked <= Len(up')
    <3>1. peeked <= Len(up) /\ Len(up) <= Len(up') /\ Len(up') \in Nat
        BY <2>1 DEF TlsInv, Known
    <3>2. peeked \in Nat /\ Len(up) \in Nat
        BY DEF TlsInv, Types, TypeOK
    <3> QED BY <3>1, <3>2
  <2> QED BY <1>0, <2>1 DEF TlsInv, Known
<1>3. Pumping'
  <2>1. HasRequest(hand1)' = HasRequest(hand1)
      BY DEF HasRequest, RequestLength, LooksHttp, HeaderEnds
  <2> QED BY <1>0, <2>1 DEF TlsInv, Pumping
<1>4. Requests'
    BY DEF TlsInv, Requests
<1>5. Decided'
    BY DEF TlsInv, Decided, Begun
<1> QED BY <1>0, <1>1, <1>2, <1>3, <1>4, <1>5

LEMMA ClientSendsStep == TlsInv /\ ClientSends => TlsInv'
<1> SUFFICES ASSUME TlsInv, ClientSends PROVE TlsInv'
    OBVIOUS
<1> DEFINE e == Head(toSend)
<1>a. /\ Live /\ cEnd = "open" /\ toSend # <<>>
      /\ client.tls => e \in HelloToken \/ Handshaken
      /\ up' = Append(up, e) /\ toSend' = Tail(toSend)
      /\ UNCHANGED <<ends, cEnd, replies, down, rEnd, got, pc, choice, peeked, hands,
                     pumps, tls, socks>>
    BY DEF ClientSends
<1>b. /\ toSend \in Seq(Plain) /\ up \in Seq(Plain) /\ e \in Plain /\ e = toSend[1]
      /\ toSend' \in Seq(Plain) /\ Len(toSend') = Len(toSend) - 1 /\ Len(toSend) \in Nat /\ Len(toSend) >= 1
      /\ up' \in Seq(Plain) /\ Len(up') = Len(up) + 1 /\ Len(up) \in Nat
    BY <1>a DEF TlsInv, Types
<1>0. /\ Unread' /\ Known' /\ Pumping' /\ Requests' /\ Decided'
      /\ UNCHANGED <<Script, Http, Capped, Untimed>>
    BY <1>a, <1>b, PeersFrame
<1>s. Sent' = Append(Sent, e) /\ Sent \in Seq(Plain)
  <2>1. tlsC = "plain" \/ Len(toSend) <= Len(client.app)
      BY DEF TlsInv, Scripted
  <2>2. UNCHANGED <<client, tlsC>> /\ Types /\ Scripted
      BY <1>a DEF ends, tls, TlsInv
  <2> QED BY <1>a, <2>1, <2>2, SentGrows, SentElements
<1>h. /\ Script \in Seq(Plain) /\ Len(Script) = Len(Hello) + Len(client.app)
      /\ \A i \in 1..Len(client.app) : Script[Len(Hello) + i] = client.app[i]
      /\ Len(client.app) \in Nat /\ Len(Hello) \in Nat /\ Len(Script) \in Nat
  <2>1. Len(Hello) \in Nat
      BY HelloElements
  <2> QED BY <2>1, ScriptElements DEF TlsInv, Types
<1>c. /\ Len(toSend) <= Len(Script)
      /\ toSend = SubSeq(Script, Len(Script) - Len(toSend) + 1, Len(Script))
    BY DEF TlsInv, Scripted
<1> USE DEF ends, got, choice, hands, pumps, tls
<1>1. Types'
  <2>1. up' \in Seq(Wire) /\ toSend' \in Seq(Wire)
    <3>1. ASSUME NEW s \in Seq(Plain) PROVE s \in Seq(Wire)
        BY SeqMonotonic DEF Plain, Wire
    <3> QED BY <1>b, <3>1
  <2> QED BY <1>a, <1>b, <2>1 DEF TlsInv, Types, TypeOK
<1>2. Scripted'
  <2> DEFINE k == Len(Script) - Len(toSend)
  <2>1. k \in Nat /\ k + 1 <= Len(Script) /\ Len(Script) - Len(toSend') = k + 1
      BY <1>b, <1>c, <1>h
  <2>2. toSend' = SubSeq(Script, (k + 1) + 1, Len(Script))
    <3> DEFINE t == SubSeq(Script, (k + 1) + 1, Len(Script))
    <3>1. toSend = SubSeq(Script, k + 1, Len(Script))
        BY <1>c
    <3> HIDE DEF k
    <3>2. Tail(SubSeq(Script, k + 1, Len(Script))) = SubSeq(Script, (k + 1) + 1, Len(Script))
        BY <1>h, <2>1
    <3> QED BY <1>a, <3>1, <3>2
  <2>3. ASSUME client.tls, pc \in {"accepted", "peek", "hello", "wrap"}
        PROVE  Len(toSend') >= Len(client.app)
    <3>1. e \in HelloToken
        BY <1>a, <2>3 DEF Handshaken, TlsInv, Known
    <3>2. Len(toSend) >= Len(client.app)
        BY <2>3 DEF TlsInv, Scripted
    <3>3. ASSUME Len(toSend) = Len(client.app) PROVE FALSE
      <4>1. k = Len(Hello) /\ 1 \in 1..Len(client.app)
          BY <1>b, <1>h, <3>3
      <4>2. toSend[1] = Script[k + 1]
        <5>1. toSend = SubSeq(Script, k + 1, Len(Script))
            BY <1>c
        <5> HIDE DEF k
        <5> QED BY <1>h, <2>1, <5>1
      <4>3. Script[k + 1] = client.app[1]
          BY <1>h, <4>1
      <4>4. client.app[1] \in Token
        <5>1. client.app \in Seq(Token)
            BY AppTyped DEF TlsInv, Types
        <5> QED BY <4>1, <5>1
      <4> QED BY <1>b, <3>1, <4>2, <4>3, <4>4 DEF Token, HelloToken
    <3> QED BY <1>b, <1>h, <3>2, <3>3
  <2>4. tlsC # "plain" => client.tls /\ Len(toSend') <= Len(client.app)
    <3>1. tlsC # "plain" => client.tls /\ Len(toSend) <= Len(client.app)
        BY DEF TlsInv, Scripted
    <3> QED BY <1>b, <1>h, <3>1
  <2>5. /\ Len(toSend') <= Len(Script)
        /\ toSend' = SubSeq(Script, Len(Script) - Len(toSend') + 1, Len(Script))
    <3>1. Len(toSend') <= Len(Script)
        BY <1>b, <1>c, <1>h
    <3> QED BY <2>1, <2>2, <3>1
  <2> HIDE DEF k
  <2> QED BY <1>0, <1>a, <2>3, <2>4, <2>5 DEF Scripted
<1>6. UpFlow'
  <2> SUFFICES ASSUME TlsUp(tlsC) PROVE UpFlow'
      BY <1>a DEF UpFlow
  <2> DEFINE B == AsSent(atRemote) \o hand1
  <2>1. IsPrefix(B, Sent) /\ (Flowing => B \o up = Sent)
      BY DEF TlsInv, UpFlow
  <2>2. B \in Seq(Kept)
      BY AsSentElements, Joined DEF TlsInv, Types, TypeOK
  <2>3. B' = B
      BY <1>a DEF AsSent
  <2>4. Flowing' => Flowing
      BY <1>0, <1>a DEF Flowing
  <2> HIDE DEF B
  <2>5. Sent \in Seq(Kept) /\ up \in Seq(Kept) /\ e \in Kept
    <3>1. ASSUME NEW s \in Seq(Plain) PROVE s \in Seq(Kept)
        BY SeqMonotonic DEF Plain, Kept, Wire, Token, HelloToken
    <3>2. e \in Kept
        BY <1>b DEF Plain, Kept, Wire, Token, HelloToken
    <3> QED BY <1>b, <1>s, <3>1, <3>2
  <2> HIDE DEF e
  <2>6. IsPrefix(B, Append(Sent, e))
      BY <2>1, <2>2, <2>5, PrefixLonger
  <2>7. B \o Append(up, e) = Append(B \o up, e)
      BY <2>2, <2>5, JoinedLonger
  <2> QED BY <1>a, <1>s, <2>1, <2>3, <2>4, <2>6, <2>7 DEF UpFlow, B
<1>7. DownFlow'
    BY <1>a DEF TlsInv, DownFlow, Said
<1>8. Ended'
    BY <1>0, <1>a DEF TlsInv, Ended, Said
<1> QED BY <1>0, <1>1, <1>2, <1>6, <1>7, <1>8 DEF TlsInv

LEMMA ClientGoesStep == TlsInv /\ (ClientCloses \/ ClientResets) => TlsInv'
<1> SUFFICES ASSUME TlsInv, ClientCloses \/ ClientResets PROVE TlsInv'
    OBVIOUS
<1>a. /\ Live
      /\ UNCHANGED <<ends, toSend, replies, down, rEnd, got, pc, choice, peeked, hands, pumps,
                     tls, socks>>
      /\ \/ cEnd = "open" /\ cEnd' = "eof" /\ up' = up
         \/ cEnd # "reset" /\ cEnd' = "reset" /\ up' = <<>>
    BY DEF ClientCloses, ClientResets
<1>b. up \in Seq(Plain) /\ Len(up) \in Nat
    BY DEF TlsInv, Types
<1>0. /\ Unread' /\ Known' /\ Pumping' /\ Requests' /\ Decided'
      /\ UNCHANGED <<Script, Http, Capped, Untimed>>
    BY <1>a, <1>b, PeersFrame
<1> USE DEF ends, got, choice, hands, pumps, tls
<1>s. Sent' = Sent
    BY <1>a, SentStays
<1>1. Types'
  <2>1. up' \in Seq(Plain) /\ up' \in Seq(Wire) /\ cEnd' \in End
      BY <1>a, <1>b, Nothing, AsSentOfKept DEF TlsInv, Types, TypeOK, End
  <2> QED BY <1>a, <2>1 DEF TlsInv, Types, TypeOK
<1>2. Scripted'
    BY <1>0, <1>a DEF TlsInv, Scripted
<1>6. UpFlow'
  <2>1. Flowing' => Flowing /\ up' = up
      BY <1>0, <1>a DEF Flowing
  <2> QED BY <1>a, <1>s, <2>1 DEF TlsInv, UpFlow, AsSent
<1>7. DownFlow'
    BY <1>a DEF TlsInv, DownFlow, Said
<1>8. Ended'
    BY <1>0, <1>a, <1>s DEF TlsInv, Ended, Said
<1> QED BY <1>0, <1>1, <1>2, <1>6, <1>7, <1>8 DEF TlsInv

LEMMA SaidGrows ==
    ASSUME NEW n \in Nat
    PROVE  Said(n) \in Seq(Nat) /\ Said(n + 1) = Append(Said(n), n + 1)
<1> DEFINE s == Said(n)
           t == Said(n + 1)
           u == Append(s, n + 1)
<1>1. s \in Seq(Nat) /\ Len(s) = n /\ \A i \in 1..n : s[i] = i
    BY DEF Said
<1>2. t \in Seq(Nat) /\ Len(t) = n + 1 /\ \A i \in 1..(n + 1) : t[i] = i
    BY DEF Said
<1> HIDE DEF s, t
<1>3. u \in Seq(Nat) /\ Len(u) = n + 1 /\ \A i \in 1..(n + 1) : u[i] = i
    BY <1>1
<1> HIDE DEF u
<1>4. t = u
    BY <1>2, <1>3
<1> QED BY <1>1, <1>4 DEF s, t, u

LEMMA RemoteStep == TlsInv /\ (RemoteSends \/ RemoteCloses \/ RemoteResets) => TlsInv'
<1> SUFFICES ASSUME TlsInv, RemoteSends \/ RemoteCloses \/ RemoteResets PROVE TlsInv'
    OBVIOUS
<1>a. /\ Live /\ Connected
      /\ UNCHANGED <<ends, toSend, cEnd, up, got, pc, choice, peeked, hands, pumps, tls, socks>>
      /\ \/ /\ rEnd = "open" /\ replies < MaxReplies /\ rEnd' = rEnd
            /\ replies' = replies + 1 /\ down' = Append(down, replies + 1)
         \/ rEnd = "open" /\ rEnd' = "eof" /\ UNCHANGED <<replies, down>>
         \/ rEnd # "reset" /\ rEnd' = "reset" /\ down' = <<>> /\ replies' = replies
    BY DEF RemoteSends, RemoteCloses, RemoteResets, clientWire
<1>b. /\ replies \in Nat /\ down \in Seq(Nat) /\ atClient \in Seq(Nat) /\ hand2 \in Seq(Nat)
      /\ Len(up) \in Nat
    BY MaxRepliesAssumption DEF TlsInv, Types, TypeOK
<1>0. /\ Unread' /\ Known' /\ Pumping' /\ Requests' /\ Decided'
      /\ UNCHANGED <<Script, Http, Capped, Untimed>>
    BY <1>a, <1>b, PeersFrame
<1> USE DEF ends, got, choice, hands, pumps, tls
<1>s. Sent' = Sent
    BY <1>a, SentStays
<1>1. Types'
  <2>1. replies' \in 0..MaxReplies /\ rEnd' \in End /\ down' \in Seq(Nat)
    <3>1. replies' \in 0..MaxReplies
        BY <1>a, MaxRepliesAssumption DEF TlsInv, Types, TypeOK
    <3>2. rEnd' \in End
        BY <1>a DEF TlsInv, Types, TypeOK, End
    <3>3. down' \in Seq(Nat)
      <4>1. replies + 1 \in Nat /\ <<>> \in Seq(Nat)
          BY <1>b, Nothing
      <4>2. Append(down, replies + 1) \in Seq(Nat)
          BY <1>b, <4>1
      <4>3. down' \in {Append(down, replies + 1), down, <<>>}
          BY <1>a
      <4> QED BY <1>b, <4>1, <4>2, <4>3
    <3> QED BY <3>1, <3>2, <3>3
  <2> QED BY <1>a, <2>1 DEF TlsInv, Types, TypeOK
<1>2. Scripted'
    BY <1>0, <1>a DEF TlsInv, Scripted
<1>6. UpFlow'
  <2>1. Flowing' => Flowing
      BY <1>0, <1>a DEF Flowing
  <2> QED BY <1>a, <1>s, <2>1 DEF TlsInv, UpFlow, AsSent
<1>7. DownFlow'
  <2>1. pc \notin {"accepted", "peek", "hello", "wrap", "provision", "sniff"}
      BY <1>a DEF TlsInv, DownFlow, Connected
  <2> SUFFICES ASSUME TlsUp(tlsR) PROVE DownFlow'
      BY <1>a, <2>1 DEF DownFlow
  <2> DEFINE s == atClient \o hand2
             said == Said(replies)
  <2>2. s \in Seq(Nat) /\ s' = s
      BY <1>a, <1>b, Joined
  <2>3. IsPrefix(s, said)
        /\ (/\ pc \in {"inspect", "forward", "pump"} /\ t2 \in {"off", "recv", "send"} /\ rEnd # "reset"
            => s \o down = said)
      BY DEF TlsInv, DownFlow
  <2>4. said \in Seq(Nat) /\ Said(replies + 1) = Append(said, replies + 1)
      BY <1>b, SaidGrows
  <2>5. Said(replies)' = Said(replies')
      BY DEF Said
  <2> HIDE DEF s, said
  <2>6. CASE replies' = replies + 1 /\ rEnd = "open" /\ down' = Append(down, replies + 1)
    <3>1. IsPrefix(s, Append(said, replies + 1))
      <4>1. replies + 1 \in Nat
          BY <1>b
      <4> QED BY <2>2, <2>3, <2>4, <4>1, PrefixLonger
    <3>2. s \o Append(down, replies + 1) = Append(s \o down, replies + 1)
      <4> DEFINE e == replies + 1
      <4>1. e \in Nat /\ down \in Seq(Nat) /\ s \in Seq(Nat)
          BY <1>b, <2>2
      <4> HIDE DEF e
      <4>2. s \o Append(down, e) = Append(s \o down, e)
          BY <4>1, JoinedLonger
      <4> QED BY <4>2 DEF e
    <3>3. Said(replies') = Append(said, replies + 1)
        BY <2>4, <2>6
    <3>4. IsPrefix(s', Said(replies)')
        BY <2>2, <2>5, <3>1, <3>3
    <3>5. ASSUME pc \in {"inspect", "forward", "pump"}, t2 \in {"off", "recv", "send"}
          PROVE  s' \o down' = Said(replies)'
        BY <2>2, <2>3, <2>5, <2>6, <3>2, <3>3, <3>5
    <3> QED BY <1>a, <2>1, <3>4, <3>5 DEF DownFlow, s
  <2>7. CASE replies' = replies /\ (rEnd' # "reset" => rEnd # "reset" /\ down' = down)
    <3>1. Said(replies)' = said
        BY <2>5, <2>7 DEF said
    <3> QED BY <1>a, <2>1, <2>2, <2>3, <2>7, <3>1 DEF DownFlow, s
  <2> QED BY <1>a, <2>6, <2>7
<1>8. Ended'
    BY <1>0, <1>a, <1>s DEF TlsInv, Ended, Said
<1> QED BY <1>0, <1>1, <1>2, <1>6, <1>7, <1>8 DEF TlsInv

----------------------------------------------------------------------------
(* The invariant, and what follows from it.                                *)

LEMMA TlsInvInit == Init => TlsInv
<1> SUFFICES ASSUME Init PROVE TlsInv
    OBVIOUS
<1> USE DEF Init
<1>k. <<client, cfg>> \in Cases
  <2>1. PICK c \in Cases : client = c[1] /\ cfg = c[2]
      OBVIOUS
  <2>2. c = <<c[1], c[2]>>
      BY CasesAssumption
  <2> QED BY <2>1, <2>2
<1>t. client.app \in Seq(Token) /\ cfg \in Settings
    BY <1>k, CasesAssumption DEF ClientKind
<1>s. Script \in Seq(Plain) /\ toSend = Script
  <2>1. client.app \in Seq(Plain)
      BY <1>t, SeqMonotonic DEF Plain
  <2> QED BY <2>1, HelloElements, Joined DEF Script
<1>n. Len(Script) \in Nat /\ SubSeq(Script, 1, Len(Script)) = Script
    BY <1>s
<1>w. <<>> \in Seq(Wire) /\ toSend \in Seq(Wire)
  <2>1. Script \in Seq(Wire)
      BY <1>s, SeqMonotonic DEF Plain, Wire
  <2> QED BY <1>s, <2>1, Nothing, AsSentOfKept
<1>1. Types
  <2>1. TypeOK
    <3>1. replies \in 0..MaxReplies /\ peeked \in 0..3
        BY MaxRepliesAssumption
    <3>2. /\ toSend \in Seq(Wire) /\ up \in Seq(Wire) /\ atRemote \in Seq(Wire)
          /\ hand1 \in Seq(Wire)
        BY <1>w
    <3>3. down \in Seq(Nat) /\ atClient \in Seq(Nat) /\ hand2 \in Seq(Nat)
        BY Nothing
    <3>4. /\ cEnd \in End /\ rEnd \in End /\ t1 \in Thread /\ t2 \in Thread
          /\ tlsC \in Tls /\ tlsR \in Tls /\ source \in Source
        BY DEF End, Thread, Tls, Source
    <3> HIDE DEF Init
    <3> QED BY <1>k, <3>1, <3>2, <3>3, <3>4 DEF TypeOK, Init
  <2> QED BY <1>s, <2>1, Nothing DEF Types
<1>2. Scripted
  <2>1. Len(Script) - Len(toSend) + 1 = 1 /\ Len(toSend) <= Len(Script)
      BY <1>s, <1>n
  <2>2. client.tls => Len(toSend) >= Len(client.app)
    <3>1. Len(Script) = Len(Hello) + Len(client.app) /\ Len(client.app) \in Nat
        BY <1>1, ScriptElements DEF Types
    <3>2. Len(Hello) \in Nat
        BY HelloElements
    <3> QED BY <1>s, <3>1, <3>2
  <2> QED BY <1>s, <1>n, <2>1, <2>2 DEF Scripted
<1>3. Unread
    BY DEF Unread, Early, TlsUp, Http
<1>4. Known
    BY DEF Known
<1>5. Pumping
    BY Nothing DEF Pumping
<1>6. UpFlow
  <2>1. Sent = <<>>
    <3>1. AllSent = SubSeq(Script, 1, 0)
        BY <1>s, <1>n DEF AllSent
    <3> QED BY <3>1, SentIs, SubSeqEmpty
  <2> QED BY <2>1, Nothing DEF UpFlow
<1>7. DownFlow
    BY Nothing DEF DownFlow
<1>8. Ended /\ Requests /\ Decided
    BY DEF Ended, Requests, Decided
<1> QED BY <1>1, <1>2, <1>3, <1>4, <1>5, <1>6, <1>7, <1>8 DEF TlsInv

LEMMA PeersStep == TlsInv /\ Peers => TlsInv'
    BY ClientSendsStep, ClientGoesStep, RemoteStep DEF Peers

LEMMA HandlerStep == TlsInv /\ Handler => TlsInv'
<1>1. TlsInv /\ (PeekFails \/ WrapFails) => TlsInv'
    BY FailsStep DEF PeekFails, WrapFails, Raises, Early
<1> QED BY <1>1, BeginsStep, PeeksStep, ClassifiesStep, WrapsStep, ProvisionsStep, InspectsStep,
           SniffsStep, ConnectsStep, ForwardsPeekedStep, ForwardsBufferedStep, ForwardFailsStep,
           EndsStep DEF Handler

LEMMA PumpsStep == TlsInv /\ (UpPump \/ DownPump) => TlsInv'
    BY UpReadsStep, UpSendsStep, UpEndsStep, DownStep DEF UpPump, DownPump

LEMMA TlsStutters == TlsInv /\ UNCHANGED vars => TlsInv'
<1> SUFFICES ASSUME TlsInv, UNCHANGED vars PROVE TlsInv'
    OBVIOUS
<1> USE DEF vars, ends, wire, got, choice, hands, pumps, tls
<1>0. UNCHANGED <<Sent, Script, Http, Capped, Untimed>>
    BY DEF Sent, Script, Hello, Http, Capped, Untimed
<1>1. Types' /\ Scripted' /\ Unread' /\ Known'
    BY <1>0 DEF TlsInv, Types, TypeOK, Scripted, Unread, Known
<1>2. Pumping'
    BY <1>0 DEF TlsInv, Pumping, HasRequest, RequestLength, LooksHttp, HeaderEnds
<1>3. UpFlow' /\ DownFlow'
    BY <1>0 DEF TlsInv, UpFlow, DownFlow, Flowing, AsSent, Said
<1>4. Ended' /\ Requests' /\ Decided'
    BY <1>0 DEF TlsInv, Ended, Requests, Decided, Said, Begun
<1> QED BY <1>1, <1>2, <1>3, <1>4 DEF TlsInv

\* The narrower types, the peers' scripts, and the bytes on their way, in every state.
THEOREM TlsInvariant == Spec => []TlsInv
<1>1. TlsInv /\ [Next]_vars => TlsInv'
    BY PeersStep, HandlerStep, PumpsStep, TlsStutters DEF Next
<1> QED BY <1>1, TlsInvInit, PTL DEF Spec

\* peek, classifiers, handle_client and pumps, whoever reads and writes them: each peer's
\* bytes reach the other once and in order.
THEOREM BytesIntact == Spec => []StreamsIntact
<1>1. ASSUME TlsInv, tlsC \in {"plain", "up"}
      PROVE  /\ IsPrefix(AsSent(atRemote), Sent)
             /\ /\ pc # "ending" /\ t1 \in {"off", "recv", "send"} /\ cEnd # "reset" /\ ~Capped /\ Live
                => AsSent(atRemote) \o hand1 \o up = Sent
  <2> DEFINE A == AsSent(atRemote)
  <2>1. A \in Seq(Wire) /\ hand1 \in Seq(Wire) /\ Sent \in Seq(Wire)
    <3>1. A \in Seq(Wire) /\ hand1 \in Seq(Wire)
        BY <1>1, AsSentElements DEF TlsInv, Types, TypeOK
    <3>2. Sent \in Seq(Plain) => Sent \in Seq(Wire)
        BY SeqMonotonic DEF Plain, Wire
    <3> QED BY <1>1, <3>1, <3>2, SentElements DEF TlsInv
  <2>2. IsPrefix(A \o hand1, Sent) /\ (Flowing => A \o hand1 \o up = Sent)
      BY <1>1 DEF TlsInv, UpFlow, TlsUp
  <2> HIDE DEF A
  <2>3. IsPrefix(A, Sent)
      BY <2>1, <2>2, PrefixShorter
  <2> QED BY <2>2, <2>3 DEF A, Flowing, Live
<1>2. ASSUME TlsInv, tlsR \in {"plain", "up"}
      PROVE  /\ IsPrefix(atClient, Said(replies))
             /\ /\ pc = "pump" /\ t2 \in {"recv", "send"} /\ rEnd # "reset"
                => atClient \o hand2 \o down = Said(replies)
  <2>1. atClient \in Seq(Nat) /\ hand2 \in Seq(Nat) /\ replies \in Nat
      BY <1>2, MaxRepliesAssumption DEF TlsInv, Types, TypeOK
  <2>2. Said(replies) \in Seq(Nat)
      BY <2>1, SaidGrows
  <2>3. /\ IsPrefix(atClient \o hand2, Said(replies))
        /\ pc = "pump" /\ t2 \in {"recv", "send"} /\ rEnd # "reset"
           => atClient \o hand2 \o down = Said(replies)
      BY <1>2 DEF TlsInv, DownFlow, TlsUp
  <2>4. IsPrefix(atClient, Said(replies))
      BY <2>1, <2>2, <2>3, PrefixShorter
  <2> QED BY <2>3, <2>4
<1>3. TlsInv => TypeOK
    BY DEF TlsInv, Types
<1>4. TlsInv => StreamsIntact
    BY <1>1, <1>2, <1>3 DEF StreamsIntact, UpstreamIntact, DownstreamIntact, Said
<1> QED BY <1>4, TlsInvariant, PTL

\* pump: a peer that is told the end of the stream was sent everything before it.
THEOREM EndsAfterEverything == Spec => []NothingCutShort
<1>1. TlsInv => NothingCutShort
    BY DEF TlsInv, Pumping, Ended, NothingCutShort, TlsUp, Said
<1> QED BY <1>1, TlsInvariant, PTL

\* pump_http_requests, flush_complete_requests: the content backend sees whole, rewritten
\* requests only.
THEOREM RequestsWhole == Spec => []WholeRequests
<1>1. TlsInv => WholeRequests
    BY DEF TlsInv, Requests, WholeRequests
<1> QED BY <1>1, TlsInvariant, PTL

\* sniff_terminated_tls_route, --allow-retail-js5-upstream: a session is routed by what its
\* client really sends, and only a JS5 session leaves for the retail servers.
THEOREM Routed == Spec => []RoutedRight
<1>1. ASSUME TlsInv, target = "retail"
      PROVE  cfg.retail /\ client.app[1] = "js5" /\ (atRemote # <<>> => Head(atRemote) = "js5")
  <2>1. CASE source = "client-js5-retail"
      BY <1>1, <2>1 DEF TlsInv, Decided, Begun
  <2>2. CASE source = "raw-js5-retail"
    <3>1. /\ cfg.retail /\ client.app[1] = "js5" /\ ~client.tls /\ how = "raw"
        BY <1>1, <2>2 DEF TlsInv, Decided, Begun
    <3>2. tlsC = "plain" /\ ~Http
        BY <1>1, <3>1 DEF TlsInv, Known, Http
    <3>3. atRemote \in Seq(Kept) /\ hand1 \in Seq(Kept)
        BY <1>1, <3>2 DEF TlsInv, Pumping, Types
    <3>4. Sent \in Seq(Kept) /\ \A i \in 1..Len(Sent) : Sent[i] = client.app[i]
      <4>1. Sent \in Seq(Plain) => Sent \in Seq(Kept)
          BY SeqMonotonic DEF Plain, Kept, Wire, Token, HelloToken
      <4> QED BY <1>1, <3>1, <4>1, SentElements DEF TlsInv
    <3>5. IsPrefix(atRemote \o hand1, Sent)
        BY <1>1, <3>2, <3>3, AsSentOfKept DEF TlsInv, UpFlow, TlsUp
    <3>6. Len(atRemote) <= Len(Sent) /\ \A i \in 1..Len(atRemote) : atRemote[i] = Sent[i]
      <4>1. IsPrefix(atRemote, Sent)
          BY <3>3, <3>4, <3>5, PrefixShorter
      <4> QED BY <3>3, <3>4, <4>1, PrefixIs
    <3>7. atRemote # <<>> => Head(atRemote) = atRemote[1] /\ 1 \in 1..Len(atRemote) /\ 1 \in 1..Len(Sent)
        BY <3>3, <3>4, <3>6
    <3> QED BY <3>1, <3>4, <3>6, <3>7
  <2> QED BY <1>1, <2>1, <2>2 DEF TlsInv, Decided
<1>2. ASSUME TlsInv, how = "terminate", pc \notin {"wrap", "sniff", "ending", "done"}
      PROVE  /\ source = "client-http" => client.app[1] = "get1"
             /\ source = "client-nonhttp" => client.app[1] \notin {"get1", "js5"}
  <2>1. pc \in {"connect", "forward", "pump"}
      BY <1>2 DEF TlsInv, Types, TypeOK, Known
  <2> QED BY <1>2, <2>1 DEF TlsInv, Decided, Begun
<1>3. TlsInv => RoutedRight
    BY <1>1, <1>2 DEF RoutedRight
<1> QED BY <1>3, TlsInvariant, PTL
=============================================================================
