-------------------------- MODULE RetailProxyProofs --------------------------
(***************************************************************************)
(* Theorems about RetailProxy, for every number of chunks and payloads.    *)
(***************************************************************************)
EXTENDS RetailProxy, TLAPS

----------------------------------------------------------------------------
(* What adding to the end and taking from the front of a queue do to its   *)
(* elements.                                                               *)

\* add() and addLast() keep the elements and put the new one at the end.
LEMMA AppendElements ==
    ASSUME NEW S, NEW s \in Seq(S), NEW e \in S
    PROVE  /\ Append(s, e) \in Seq(S)
           /\ DOMAIN s = 1..Len(s)
           /\ DOMAIN Append(s, e) = 1..(Len(s) + 1)
           /\ \A i \in 1..Len(s) : Append(s, e)[i] = s[i]
           /\ Append(s, e)[Len(s) + 1] = e
           /\ Len(s) \in Nat
    OBVIOUS

\* poll() and removeFirst() take the first element and keep the others.
LEMMA TailElements ==
    ASSUME NEW S, NEW s \in Seq(S), s # <<>>
    PROVE  /\ Tail(s) \in Seq(S)
           /\ Head(s) \in S
           /\ Head(s) = s[1]
           /\ Len(s) \in Nat /\ Len(s) >= 1
           /\ DOMAIN s = 1..Len(s)
           /\ DOMAIN Tail(s) = 1..(Len(s) - 1)
           /\ \A i \in 1..(Len(s) - 1) : Tail(s)[i] = s[i + 1]
    OBVIOUS

----------------------------------------------------------------------------
(* The inductive invariant.                                                *)

Live == link \in {"connecting", "active"}

\* A chunk that has passed the test of closed is the last one sent.
Past == IF forward = "checked" THEN 1 ELSE 0

\* The retail connection's flags: what may be set before what, and that close() is only
\* reached from a connection that is gone.
Flags ==
    /\ forward = "checked" => sent >= 1
    /\ remoteSet <=> link \in {"active", "down"}
    /\ ready => remoteSet
    /\ remote = "flush" => ready /\ link = "active"
    /\ closed \/ remote \in {"close", "drain"} \/ inactive => ~Live
    /\ remote = "drain" => closed
    /\ ready /\ remote # "flush" => greeted = 2
    /\ tasks # <<>> => ready
    /\ written # <<>> => ready /\ greeted = 2

\* The client's chunks: those written, then those queued, then those the remote loop was
\* given are the chunks sent, in order, for as long as the connection lives.
Written ==
    /\ \A i \in 1..Len(written) : written[i] = i
    /\ Len(written) <= sent
Waiting ==
    Live =>
        /\ \A i \in 1..Len(queue) : queue[i] = Len(written) + i
        /\ \A i \in 1..Len(tasks) : tasks[i] = Len(written) + Len(queue) + i
        /\ Len(written) + Len(queue) + Len(tasks) + Past = sent

\* None is left in the queue of a connection that is ready, and one at most in that of a
\* closed proxy.
Flushed == CanWrite /\ remote # "flush" => queue = <<>>
Released == closed /\ remote # "drain" => Len(queue) + Past <= 1

\* The server's: those delivered and then those the client's loop was given are those
\* decode has taken; behind them come only orders to close.
Payloads ==
    /\ \A i \in 1..Len(delivered) : delivered[i] = i
    /\ Len(delivered) <= forwarded
    /\ clientUp =>
        /\ Len(delivered) + Len(localTasks) >= forwarded
        /\ Live => Len(delivered) + Len(localTasks) = forwarded
        /\ \A i \in 1..Len(localTasks) :
               localTasks[i] = IF Len(delivered) + i <= forwarded
                               THEN Len(delivered) + i ELSE CloseTask

IInv == TypeOK /\ Flags /\ Written /\ Waiting /\ Flushed /\ Released /\ Payloads

----------------------------------------------------------------------------
(* Prefixes of the numbers that were sent.                                 *)

LEMMA CountingPrefix ==
    ASSUME NEW n \in Nat, NEW S, NEW s \in Seq(S), Len(s) <= n, \A i \in 1..Len(s) : s[i] = i
    PROVE  IsPrefix(s, [i \in 1..n |-> i])
<1> DEFINE t == [i \in 1..n |-> i]
<1>1. t \in Seq(Nat) /\ Len(t) = n
    OBVIOUS
<1>2. \A i \in 1..n : t[i] = i
    OBVIOUS
<1>3. SubSeq(t, 1, Len(s)) = s
  <2> DEFINE u == SubSeq(t, 1, Len(s))
  <2>1. Len(s) \in Nat /\ u = [i \in 1..Len(s) |-> t[i]]
      BY <1>1
  <2>2. s = [i \in 1..Len(s) |-> s[i]]
      OBVIOUS
  <2> HIDE DEF t
  <2>3. ASSUME NEW i \in 1..Len(s) PROVE t[i] = s[i]
      BY <1>2, <2>1
  <2> QED BY <2>1, <2>2, <2>3
<1>4. SubSeq(s, 1, Len(s)) = s
    OBVIOUS
<1> QED BY <1>1, <1>3, <1>4 DEF IsPrefix

----------------------------------------------------------------------------
(* Type correctness.                                                       *)

\* The flags, the counters and places, ...
Booleans ==
    /\ clientUp \in BOOLEAN /\ remoteEof \in BOOLEAN /\ inactive \in BOOLEAN
    /\ remoteSet \in BOOLEAN /\ ready \in BOOLEAN /\ closed \in BOOLEAN
Scalars ==
    /\ sent \in 0..MaxChunks /\ forward \in {"idle", "checked"}
    /\ answer \in {"none", "ok", "bad"} /\ payloads \in 0..MaxPayloads
    /\ link \in {"connecting", "failed", "active", "down"}
    /\ forwarded \in 0..payloads
    /\ remote \in {"idle", "flush", "close", "drain"}
    /\ greeted \in 0..2

\* ... and the sequences of either direction.
ChunkSeqs ==
    /\ tasks \in Seq(1..MaxChunks) /\ written \in Seq(1..MaxChunks)
    /\ queue \in Seq(1..MaxChunks)
PayloadSeqs ==
    /\ localTasks \in Seq(0..MaxPayloads) /\ delivered \in Seq(1..MaxPayloads)

LEMMA TypeParts == TypeOK <=> Booleans /\ Scalars /\ ChunkSeqs /\ PayloadSeqs
    BY Zenon DEF TypeOK, Booleans, Scalars, ChunkSeqs, PayloadSeqs

LEMMA TypeInit == Init => TypeOK
<1> SUFFICES ASSUME Init PROVE Booleans /\ Scalars /\ ChunkSeqs /\ PayloadSeqs
    BY TypeParts
<1>1. PayloadSeqs
    BY DEF Init, PayloadSeqs
<1>2. ChunkSeqs
    BY DEF Init, ChunkSeqs
<1>3. Scalars
    BY BoundsAssumption DEF Init, Scalars
<1>4. Booleans
    BY DEF Init, Booleans
<1> QED BY <1>1, <1>2, <1>3, <1>4

LEMMA BooleansStep == Booleans /\ [Next]_vars => Booleans'
<1> SUFFICES ASSUME Booleans, [Next]_vars PROVE Booleans'
    OBVIOUS
<1> USE DEF Booleans
<1>1. CASE ClientSends \/ ClientLeaves \/ Local
    BY <1>1 DEF ClientSends, ClientLeaves, Local, Forwards, RunsLocalTask, serverVars, bridgeVars,
                sharedVars
<1>2. CASE ServerAnswers \/ ServerSends \/ ServerCloses
    BY <1>2 DEF ServerAnswers, ServerSends, ServerCloses, localVars, bridgeVars, sharedVars
<1>3. CASE Connects \/ Rejects \/ ReadsEof \/ ChannelInactive \/ ExceptionCaught
    BY <1>3 DEF Connects, ConnectFails, ChannelActive, Rejects, ReadsEof, ChannelInactive,
                ExceptionCaught, localVars, serverVars, sharedVars
<1>4. CASE Accepts \/ Flushes \/ ForwardsPayload
    BY <1>4 DEF Accepts, Flushes, ForwardsPayload, localVars, serverVars, sharedVars
<1>5. CASE Closes \/ Drains \/ RunsTask
    BY <1>5 DEF Closes, Drains, RunsTask, localVars, serverVars, sharedVars
<1>6. CASE UNCHANGED vars
    BY <1>6 DEF vars, localVars, serverVars, bridgeVars, sharedVars
<1> QED BY <1>1, <1>2, <1>3, <1>4, <1>5, <1>6 DEF Next, Bridge

LEMMA ScalarsStep == Scalars /\ [Next]_vars => Scalars'
<1> SUFFICES ASSUME Scalars, [Next]_vars PROVE Scalars'
    OBVIOUS
<1> USE BoundsAssumption DEF Scalars
<1>1. CASE ClientSends \/ ClientLeaves \/ Local
    BY <1>1 DEF ClientSends, ClientLeaves, Local, Forwards, RunsLocalTask, serverVars, bridgeVars,
                sharedVars
<1>2. CASE ServerAnswers \/ ServerSends \/ ServerCloses
    BY <1>2 DEF ServerAnswers, ServerSends, ServerCloses, localVars, bridgeVars, sharedVars
<1>3. CASE Connects \/ Rejects \/ ReadsEof \/ ChannelInactive \/ ExceptionCaught
    BY <1>3 DEF Connects, ConnectFails, ChannelActive, Rejects, ReadsEof, ChannelInactive,
                ExceptionCaught, localVars, serverVars, sharedVars
<1>4. CASE Accepts \/ Flushes \/ ForwardsPayload
    BY <1>4 DEF Accepts, Flushes, ForwardsPayload, localVars, serverVars, sharedVars
<1>5. CASE Closes \/ Drains \/ RunsTask
    BY <1>5 DEF Closes, Drains, RunsTask, localVars, serverVars, sharedVars
<1>6. CASE UNCHANGED vars
    BY <1>6 DEF vars, localVars, serverVars, bridgeVars, sharedVars
<1> QED BY <1>1, <1>2, <1>3, <1>4, <1>5, <1>6 DEF Next, Bridge

\* Which steps touch the client's chunks, and which the server's payloads.
LEMMA ChunkFrame ==
    ASSUME Next, ~Forwards, ~Flushes, ~Drains, ~RunsTask
    PROVE  UNCHANGED <<tasks, written, queue>>
    BY DEF Next, ClientSends, ClientLeaves, Local, RunsLocalTask, ServerAnswers, ServerSends,
           ServerCloses, Connects, ConnectFails, ChannelActive, Bridge, Accepts, ForwardsPayload,
           Rejects, ReadsEof, ChannelInactive, Closes, ExceptionCaught, bridgeVars, sharedVars

ClosingStep == ConnectFails \/ Rejects \/ ChannelInactive \/ ExceptionCaught

LEMMA PayloadFrame ==
    ASSUME Next, ~RunsLocalTask, ~ForwardsPayload, ~ClosingStep
    PROVE  UNCHANGED <<localTasks, delivered>>
    BY DEF Next, ClosingStep, ClientSends, ClientLeaves, Local, Forwards, ServerAnswers,
           ServerSends, ServerCloses, Connects, ChannelActive, Bridge, Accepts, Flushes, ReadsEof,
           Closes, Drains, RunsTask, localVars

LEMMA ChunkSeqsStep == Scalars /\ ChunkSeqs /\ Flags /\ [Next]_vars => ChunkSeqs'
<1> SUFFICES ASSUME Scalars, ChunkSeqs, Flags, [Next]_vars PROVE ChunkSeqs'
    OBVIOUS
<1>1. CASE Forwards
  <2>1. sent \in 1..MaxChunks
      BY <1>1, BoundsAssumption DEF Forwards, Flags, Scalars
  <2>2. Append(tasks, sent) \in Seq(1..MaxChunks) /\ Append(queue, sent) \in Seq(1..MaxChunks)
      BY <2>1, AppendElements DEF ChunkSeqs
  <2> QED BY <1>1, <2>2, Zenon DEF Forwards, ChunkSeqs
<1>2. CASE Flushes
  <2>1. <<>> \in Seq(1..MaxChunks) /\ written \o queue \in Seq(1..MaxChunks)
      BY DEF ChunkSeqs
  <2> QED BY <1>2, <2>1 DEF Flushes, ChunkSeqs
<1>3. CASE Drains
  <2>1. <<>> \in Seq(1..MaxChunks)
      OBVIOUS
  <2> QED BY <1>3, <2>1 DEF Drains, ChunkSeqs
<1>4. CASE RunsTask
  <2>1. Head(tasks) \in 1..MaxChunks /\ Tail(tasks) \in Seq(1..MaxChunks)
      BY <1>4, TailElements DEF RunsTask, ChunkSeqs
  <2>2. Append(written, Head(tasks)) \in Seq(1..MaxChunks)
      BY <2>1, AppendElements DEF ChunkSeqs
  <2> QED BY <1>4, <2>1, <2>2 DEF RunsTask, ChunkSeqs, sharedVars
<1>5. CASE UNCHANGED <<tasks, written, queue>>
    BY <1>5 DEF ChunkSeqs
<1> QED BY <1>1, <1>2, <1>3, <1>4, <1>5, ChunkFrame DEF vars, bridgeVars, sharedVars

LEMMA PayloadSeqsStep == Scalars /\ PayloadSeqs /\ [Next]_vars => PayloadSeqs'
<1> SUFFICES ASSUME Scalars, PayloadSeqs, [Next]_vars PROVE PayloadSeqs'
    OBVIOUS
<1>1. CASE RunsLocalTask
  <2>1. Head(localTasks) \in 0..MaxPayloads /\ Tail(localTasks) \in Seq(0..MaxPayloads)
      BY <1>1, TailElements DEF RunsLocalTask, PayloadSeqs
  <2>2. CASE Head(localTasks) = CloseTask
      BY <1>1, <2>1, <2>2 DEF RunsLocalTask, PayloadSeqs
  <2>3. CASE Head(localTasks) # CloseTask
    <3>1. Head(localTasks) \in 1..MaxPayloads
        BY <2>1, <2>3, BoundsAssumption DEF CloseTask
    <3>2. Append(delivered, Head(localTasks)) \in Seq(1..MaxPayloads)
        BY <3>1, AppendElements DEF PayloadSeqs
    <3> QED BY <1>1, <2>1, <3>2 DEF RunsLocalTask, PayloadSeqs
  <2> QED BY <2>2, <2>3
<1>2. CASE ForwardsPayload
  <2>1. forwarded + 1 \in 0..MaxPayloads
      BY <1>2, BoundsAssumption DEF ForwardsPayload, Scalars
  <2>2. Append(localTasks, forwarded + 1) \in Seq(0..MaxPayloads)
      BY <2>1, AppendElements DEF PayloadSeqs
  <2> QED BY <1>2, <2>2 DEF ForwardsPayload, PayloadSeqs
<1>3. CASE ClosingStep
  <2>1. CloseTask \in 0..MaxPayloads
      BY BoundsAssumption DEF CloseTask
  <2>2. Append(localTasks, CloseTask) \in Seq(0..MaxPayloads)
      BY <2>1, AppendElements DEF PayloadSeqs
  <2> QED BY <1>3, <2>2 DEF ClosingStep, ConnectFails, Rejects, ChannelInactive, ExceptionCaught,
                            ClosesLocal, PayloadSeqs
<1>4. CASE UNCHANGED <<localTasks, delivered>>
    BY <1>4 DEF PayloadSeqs
<1> QED BY <1>1, <1>2, <1>3, <1>4, PayloadFrame DEF vars, localVars

LEMMA TypeStep == TypeOK /\ Flags /\ [Next]_vars => TypeOK'
<1> SUFFICES ASSUME Booleans, Scalars, ChunkSeqs, PayloadSeqs, Flags, [Next]_vars
             PROVE  Booleans' /\ Scalars' /\ ChunkSeqs' /\ PayloadSeqs'
    BY TypeParts DEF TypeOK, Booleans, Scalars, ChunkSeqs, PayloadSeqs
<1> QED BY BooleansStep, ScalarsStep, ChunkSeqsStep, PayloadSeqsStep

----------------------------------------------------------------------------
(* The flags.                                                              *)

LEMMA LocalFlags ==
    ASSUME TypeOK, Flags, ClientSends \/ ClientLeaves \/ Local
    PROVE  Flags'
<1>1. CASE ClientSends
    BY <1>1 DEF ClientSends, TypeOK, Flags, Live, bridgeVars, sharedVars
<1>2. CASE ClientLeaves \/ RunsLocalTask
    BY <1>2 DEF ClientLeaves, RunsLocalTask, Flags, Live, bridgeVars, sharedVars
<1>3. CASE Forwards
    BY <1>3 DEF Forwards, Flags, Live, CanWrite
<1> QED BY <1>1, <1>2, <1>3 DEF Local

LEMMA RemoteFlags ==
    ASSUME TypeOK, Flags, ServerAnswers \/ ServerSends \/ ServerCloses \/ Connects \/ Bridge
                          \/ ExceptionCaught
    PROVE  Flags'
<1>1. CASE ServerAnswers \/ ServerSends \/ ServerCloses
    BY <1>1 DEF ServerAnswers, ServerSends, ServerCloses, Flags, Live, localVars, bridgeVars, sharedVars
<1>2. CASE Connects \/ Rejects \/ ReadsEof \/ ExceptionCaught
    BY <1>2 DEF Connects, ConnectFails, ChannelActive, Rejects, ReadsEof, ExceptionCaught, Flags,
                Live, TypeOK, localVars, sharedVars
<1>3. CASE Accepts \/ ForwardsPayload \/ ChannelInactive \/ Closes
    BY <1>3 DEF Accepts, ForwardsPayload, ChannelInactive, Closes, Flags, Live, TypeOK, localVars,
                sharedVars
<1>4. CASE Flushes
    BY <1>4 DEF Flushes, Flags, Live, TypeOK, localVars
<1>5. CASE Drains
    BY <1>5 DEF Drains, Flags, Live, TypeOK, localVars
<1>6. CASE RunsTask
    BY <1>6 DEF RunsTask, Flags, Live, TypeOK, localVars, sharedVars
<1> QED BY <1>1, <1>2, <1>3, <1>4, <1>5, <1>6 DEF Bridge

LEMMA FlagsStep == TypeOK /\ Flags /\ [Next]_vars => Flags'
<1>1. CASE UNCHANGED vars
    BY <1>1 DEF vars, localVars, bridgeVars, sharedVars, Flags, Live
<1> QED BY <1>1, LocalFlags, RemoteFlags DEF Next

----------------------------------------------------------------------------
(* The client's chunks.                                                    *)

LEMMA Lengths ==
    ASSUME TypeOK
    PROVE  Len(tasks) \in Nat /\ Len(queue) \in Nat /\ Len(written) \in Nat /\ sent \in Nat
    BY BoundsAssumption DEF TypeOK

\* No chunk is written once the connection is gone, and until then those written, queued
\* and handed over stay one line.
LEMMA LineStep ==
    TypeOK /\ Flags /\ Flushed /\ Written /\ Waiting /\ [Next]_vars => Written' /\ Waiting'
<1> SUFFICES ASSUME TypeOK, Flags, Flushed, Written, Waiting, [Next]_vars
             PROVE  Written' /\ Waiting'
    OBVIOUS
<1>1. Len(tasks) \in Nat /\ Len(queue) \in Nat /\ Len(written) \in Nat /\ sent \in Nat
    BY Lengths
<1>2. CASE ClientSends
  <2>1. UNCHANGED <<written, queue, tasks, link>> /\ sent' = sent + 1
      BY <1>2 DEF ClientSends, bridgeVars, sharedVars
  <2>2. Live => Past = 0 /\ Past' = 1
      BY <1>2 DEF ClientSends, Flags, Past
  <2> QED BY <1>1, <2>1, <2>2 DEF Written, Waiting, Live
<1>3. CASE Forwards /\ CanWrite
  <2>1. /\ tasks' = Append(tasks, sent) /\ Past = 1 /\ Past' = 0
        /\ UNCHANGED <<queue, written, sent, link>>
      BY <1>3 DEF Forwards, Past
  <2>2. /\ Len(tasks') = Len(tasks) + 1
        /\ \A i \in 1..Len(tasks) : tasks'[i] = tasks[i]
        /\ tasks'[Len(tasks) + 1] = sent
      BY <1>1, <2>1 DEF TypeOK
  <2>3. Live => Len(written) + Len(queue) + Len(tasks) + 1 = sent
      BY <1>1, <2>1 DEF Waiting
  <2>4. ASSUME Live, NEW i \in 1..Len(tasks')
        PROVE  tasks'[i] = Len(written) + Len(queue) + i
    <3>1. CASE i = Len(tasks) + 1
        BY <1>1, <2>2, <2>3, <2>4, <3>1
    <3>2. CASE i \in 1..Len(tasks)
        BY <2>2, <2>4, <3>2 DEF Waiting
    <3> QED BY <1>1, <2>2, <3>1, <3>2
  <2>5. Live' <=> Live
      BY <2>1 DEF Live
  <2>6. Written'
      BY <2>1 DEF Written
  <2>7. Live => \A i \in 1..Len(queue') : queue'[i] = Len(written') + i
      BY <2>1 DEF Waiting
  <2>8. Live => \A i \in 1..Len(tasks') : tasks'[i] = Len(written') + Len(queue') + i
      BY <2>1, <2>4
  <2>9. Live => Len(written') + Len(queue') + Len(tasks') + Past' = sent'
      BY <1>1, <2>1, <2>2, <2>3
  <2> QED BY <2>5, <2>6, <2>7, <2>8, <2>9 DEF Waiting
<1>4. CASE Forwards /\ ~CanWrite
  <2>1. /\ queue' = Append(queue, sent) /\ Past = 1 /\ Past' = 0
        /\ UNCHANGED <<tasks, written, sent, link>>
      BY <1>4 DEF Forwards, Past
  <2>2. /\ Len(queue') = Len(queue) + 1
        /\ \A i \in 1..Len(queue) : queue'[i] = queue[i]
        /\ queue'[Len(queue) + 1] = sent
      BY <1>1, <2>1 DEF TypeOK
  <2>3. Live => tasks = <<>>
      BY <1>4 DEF Flags, Live, CanWrite
  <2>4. Live => Len(tasks) = 0 /\ Len(tasks') = 0
      BY <2>1, <2>3
  <2>5. Live' <=> Live
      BY <2>1 DEF Live
  <2>6. Written'
      BY <2>1 DEF Written
  <2>7. Live => Len(written) + Len(queue) + 1 = sent
      BY <1>1, <2>1, <2>4 DEF Waiting
  <2>8. ASSUME Live, NEW i \in 1..Len(queue')
        PROVE  queue'[i] = Len(written) + i
    <3>1. CASE i = Len(queue) + 1
        BY <1>1, <2>2, <2>7, <2>8, <3>1
    <3>2. CASE i \in 1..Len(queue)
        BY <2>2, <2>8, <3>2 DEF Waiting
    <3> QED BY <1>1, <2>2, <3>1, <3>2
  <2>9. Live => \A i \in 1..Len(queue') : queue'[i] = Len(written') + i
      BY <2>1, <2>8
  <2>10. Live => \A i \in 1..Len(tasks') : tasks'[i] = Len(written') + Len(queue') + i
      BY <2>4
  <2>11. Live => Len(written') + Len(queue') + Len(tasks') + Past' = sent'
      BY <1>1, <2>1, <2>2, <2>4, <2>7
  <2> QED BY <2>5, <2>6, <2>9, <2>10, <2>11 DEF Waiting
<1>5. CASE Flushes
  <2>1. /\ written' = written \o queue /\ queue' = <<>> /\ link = "active"
        /\ UNCHANGED <<tasks, forward, sent, link>>
      BY <1>5 DEF Flushes, Flags, CanWrite, localVars
  <2>2. /\ Len(written') = Len(written) + Len(queue) /\ Len(queue') = 0
        /\ \A i \in 1..Len(written') :
               written'[i] = IF i <= Len(written) THEN written[i] ELSE queue[i - Len(written)]
      BY <2>1 DEF TypeOK
  <2>3. Past' = Past
      BY <2>1 DEF Past
  <2>4. Past \in {0, 1}
      BY DEF Past
  <2> QED BY <1>1, <2>1, <2>2, <2>3, <2>4 DEF Written, Waiting, Live
<1>6. CASE Drains
  <2>1. UNCHANGED <<written, sent>> /\ ~Live'
      BY <1>6 DEF Drains, Flags, Live, localVars
  <2> QED BY <2>1 DEF Written, Waiting
<1>7. CASE RunsTask /\ link = "active"
  <2>1. /\ tasks # <<>> /\ tasks' = Tail(tasks) /\ written' = Append(written, Head(tasks))
        /\ UNCHANGED <<queue, sent, forward, link>>
      BY <1>7 DEF RunsTask, localVars, sharedVars
  <2>2. queue = <<>> /\ Len(queue) = 0
      BY <1>7 DEF RunsTask, Flags, Flushed, CanWrite
  <2>3. /\ Head(tasks) = tasks[1] /\ Len(tasks) >= 1
        /\ Len(tasks') = Len(tasks) - 1
        /\ \A i \in 1..Len(tasks') : tasks'[i] = tasks[i + 1]
      BY <1>1, <2>1 DEF TypeOK
  <2>4. /\ Len(written') = Len(written) + 1
        /\ \A i \in 1..Len(written) : written'[i] = written[i]
        /\ written'[Len(written) + 1] = tasks[1]
      BY <1>1, <2>1, <2>3 DEF TypeOK
  <2>5. tasks[1] = Len(written) + 1
      BY <1>1, <1>7, <2>2, <2>3 DEF Waiting, Live
  <2>6. Past' = Past /\ Past \in {0, 1}
      BY <2>1 DEF Past
  <2>7. Len(written) + Len(queue) + Len(tasks) + Past = sent
      BY <1>7 DEF Waiting, Live
  <2>8. Written'
      BY <1>1, <2>1, <2>2, <2>3, <2>4, <2>5, <2>6, <2>7 DEF Written
  <2>9. \A i \in 1..Len(tasks') : tasks'[i] = Len(written') + Len(queue') + i
      BY <1>1, <1>7, <2>1, <2>2, <2>3, <2>4 DEF Waiting, Live
  <2>10. Len(written') + Len(queue') + Len(tasks') + Past' = sent'
      BY <1>1, <2>1, <2>2, <2>3, <2>4, <2>6, <2>7
  <2>11. \A i \in 1..Len(queue') : queue'[i] = Len(written') + i
      BY <2>1, <2>2
  <2> QED BY <2>8, <2>9, <2>10, <2>11 DEF Waiting
<1>8. CASE RunsTask /\ link # "active"
  <2>1. UNCHANGED <<written, sent, link>> /\ tasks # <<>>
      BY <1>8 DEF RunsTask, localVars
  <2>2. ~Live'
      BY <1>8, <2>1 DEF Flags, Live
  <2> QED BY <2>1, <2>2 DEF Written, Waiting
<1>9. ASSUME UNCHANGED <<written, queue, tasks, sent, forward>>, Live' => Live
      PROVE  Written' /\ Waiting'
    BY <1>9 DEF Written, Waiting, Past
<1>10. CASE ClientLeaves \/ RunsLocalTask \/ ServerAnswers \/ ServerSends \/ ServerCloses
           \/ UNCHANGED vars
    BY <1>9, <1>10 DEF ClientLeaves, RunsLocalTask, ServerAnswers, ServerSends, ServerCloses, vars,
                       localVars, bridgeVars, sharedVars, Live
<1>11. CASE Connects \/ Accepts \/ ForwardsPayload \/ Rejects \/ ReadsEof \/ ChannelInactive
           \/ Closes \/ ExceptionCaught
    BY <1>9, <1>11 DEF Connects, ConnectFails, ChannelActive, Accepts, ForwardsPayload, Rejects,
                       ReadsEof, ChannelInactive, Closes, ExceptionCaught, localVars, sharedVars, Live
<1> QED BY <1>2, <1>3, <1>4, <1>5, <1>6, <1>7, <1>8, <1>10, <1>11 DEF Next, Local, Bridge

LEMMA FlushedStep ==
    TypeOK /\ Flags /\ Flushed /\ [Next]_vars => Flushed'
<1> SUFFICES ASSUME TypeOK, Flags, Flushed, [Next]_vars, CanWrite', remote' # "flush"
             PROVE  queue' = <<>>
    BY DEF Flushed
<1>1. CASE ClientSends \/ ClientLeaves \/ RunsLocalTask \/ ServerAnswers \/ ServerSends
           \/ ServerCloses \/ UNCHANGED vars
    BY <1>1 DEF ClientSends, ClientLeaves, RunsLocalTask, ServerAnswers, ServerSends, ServerCloses,
                vars, localVars, bridgeVars, sharedVars, Flushed, CanWrite
<1>2. CASE Forwards
    BY <1>2 DEF Forwards, Flushed, CanWrite
<1>3. CASE Connects \/ Rejects \/ ReadsEof \/ ExceptionCaught \/ Accepts
    BY <1>3 DEF Connects, ConnectFails, ChannelActive, Rejects, ReadsEof, ExceptionCaught, Accepts,
                localVars, sharedVars, Flags, CanWrite
<1>4. CASE Flushes
    BY <1>4 DEF Flushes, Flags, CanWrite
<1>5. CASE ForwardsPayload \/ ChannelInactive \/ Closes \/ Drains \/ RunsTask
    BY <1>5 DEF ForwardsPayload, ChannelInactive, Closes, Drains, RunsTask, localVars, sharedVars,
                Flags, Flushed, CanWrite, Live
<1> QED BY <1>1, <1>2, <1>3, <1>4, <1>5 DEF Next, Local, Bridge

LEMMA ReleasedStep ==
    TypeOK /\ Flags /\ Released /\ [Next]_vars => Released'
<1> SUFFICES ASSUME TypeOK, Flags, Released, [Next]_vars, closed', remote' # "drain"
             PROVE  Len(queue') + Past' <= 1
    BY DEF Released
<1>1. Len(queue) \in Nat /\ Past \in {0, 1} /\ Past' \in {0, 1}
    BY Lengths DEF Past
<1>2. CASE ClientSends
  <2>1. closed /\ forward' = "idle" /\ forward = "idle" /\ UNCHANGED <<queue, remote>>
      BY <1>2 DEF ClientSends, bridgeVars, sharedVars
  <2> QED BY <2>1 DEF Released, Past
<1>3. CASE Forwards
  <2>1. closed /\ remote # "drain" /\ forward' = "idle" /\ forward = "checked"
      BY <1>3 DEF Forwards
  <2>2. Past = 1 /\ Past' = 0
      BY <2>1 DEF Past
  <2>3. ~CanWrite
      BY <2>1 DEF Flags, CanWrite, Live
  <2>4. Len(queue') = Len(queue) + 1
      BY <1>3, <2>3 DEF Forwards, TypeOK
  <2> QED BY <1>1, <2>1, <2>2, <2>4 DEF Released
<1>4. CASE Closes
    BY <1>4 DEF Closes, Released, Past, localVars
<1>5. CASE Drains
  <2>1. queue' = <<>>
      BY <1>5 DEF Drains
  <2>2. Len(queue') = 0
      BY <2>1
  <2>3. CASE Past' = 0
      BY <2>2, <2>3
  <2>4. CASE Past' = 1
      BY <2>2, <2>4
  <2> QED BY <1>1, <2>3, <2>4
<1>6. CASE Flushes
    BY <1>6 DEF Flushes, Flags, Live
<1>7. ASSUME UNCHANGED <<queue, forward, closed>>, remote # "drain"
      PROVE  Len(queue') + Past' <= 1
    BY <1>7 DEF Released, Past
<1>8. CASE ClientLeaves \/ RunsLocalTask \/ ServerAnswers \/ ServerSends \/ ServerCloses
           \/ UNCHANGED vars
    BY <1>7, <1>8 DEF ClientLeaves, RunsLocalTask, ServerAnswers, ServerSends, ServerCloses, vars,
                      localVars, bridgeVars, sharedVars
<1>9. CASE Connects \/ Accepts \/ ForwardsPayload \/ Rejects \/ ReadsEof \/ ChannelInactive
           \/ ExceptionCaught \/ RunsTask
    BY <1>7, <1>9 DEF Connects, ConnectFails, ChannelActive, Accepts, ForwardsPayload, Rejects,
                      ReadsEof, ChannelInactive, ExceptionCaught, RunsTask, localVars, sharedVars
<1> QED BY <1>2, <1>3, <1>4, <1>5, <1>6, <1>8, <1>9 DEF Next, Local, Bridge

----------------------------------------------------------------------------
(* The server's payloads.                                                  *)

LEMMA PayloadsStep == TypeOK /\ Flags /\ Payloads /\ [Next]_vars => Payloads'
<1> SUFFICES ASSUME TypeOK, Flags, Payloads, [Next]_vars PROVE Payloads'
    OBVIOUS
<1>1. Len(delivered) \in Nat /\ Len(localTasks) \in Nat /\ forwarded \in Nat
    BY BoundsAssumption DEF TypeOK
<1>2. CASE RunsLocalTask /\ clientUp /\ Head(localTasks) # CloseTask
  <2>1. /\ localTasks # <<>> /\ localTasks' = Tail(localTasks)
        /\ delivered' = Append(delivered, Head(localTasks))
        /\ UNCHANGED <<clientUp, forwarded, link>>
      BY <1>2 DEF RunsLocalTask, TypeOK, bridgeVars
  <2>2. /\ Head(localTasks) = localTasks[1] /\ Len(localTasks) >= 1
        /\ Len(localTasks') = Len(localTasks) - 1
        /\ \A i \in 1..Len(localTasks') : localTasks'[i] = localTasks[i + 1]
      BY <1>1, <2>1 DEF TypeOK
  <2>3. Head(localTasks) = Len(delivered) + 1 /\ Len(delivered) + 1 <= forwarded
      BY <1>1, <1>2, <2>2 DEF Payloads
  <2>4. Head(localTasks) \in 1..MaxPayloads
      BY <1>1, <2>3, BoundsAssumption DEF TypeOK
  <2>5. /\ Len(delivered') = Len(delivered) + 1
        /\ \A i \in 1..Len(delivered) : delivered'[i] = delivered[i]
        /\ delivered'[Len(delivered) + 1] = Len(delivered) + 1
      BY <1>1, <2>1, <2>3, <2>4, AppendElements DEF TypeOK
  <2>6. \A i \in 1..Len(delivered') : delivered'[i] = i
      BY <1>1, <2>5 DEF Payloads
  <2>7. ASSUME NEW i \in 1..Len(localTasks')
        PROVE  localTasks'[i] = IF Len(delivered') + i <= forwarded'
                                THEN Len(delivered') + i ELSE CloseTask
      BY <1>1, <1>2, <2>1, <2>2, <2>5 DEF Payloads
  <2>8. /\ Len(delivered') <= forwarded'
        /\ Len(delivered') + Len(localTasks') >= forwarded'
        /\ Live' => Len(delivered') + Len(localTasks') = forwarded'
    <3>1. Live' <=> Live
        BY <2>1 DEF Live
    <3>2. /\ Len(delivered) + Len(localTasks) >= forwarded
          /\ Live => Len(delivered) + Len(localTasks) = forwarded
        BY <1>2 DEF Payloads
    <3>3. /\ forwarded' = forwarded /\ Len(delivered') = Len(delivered) + 1
          /\ Len(localTasks') = Len(localTasks) - 1
        BY <2>1, <2>2, <2>5
    <3>4. Len(delivered') <= forwarded'
        BY <1>1, <2>3, <3>3
    <3>5. Len(delivered') + Len(localTasks') = Len(delivered) + Len(localTasks)
        BY <1>1, <3>3
    <3> QED BY <3>1, <3>2, <3>3, <3>4, <3>5
  <2> QED BY <2>6, <2>7, <2>8 DEF Payloads
<1>3. CASE RunsLocalTask /\ ~(clientUp /\ Head(localTasks) # CloseTask)
  <2>1. UNCHANGED <<delivered, forwarded>> /\ ~clientUp'
      BY <1>3 DEF RunsLocalTask, bridgeVars
  <2> QED BY <2>1 DEF Payloads
<1>4. CASE ForwardsPayload /\ clientUp
  <2>1. /\ forwarded' = forwarded + 1 /\ localTasks' = Append(localTasks, forwarded + 1)
        /\ UNCHANGED <<clientUp, delivered, link>> /\ Live
      BY <1>4 DEF ForwardsPayload, Live
  <2>2. forwarded + 1 \in 0..MaxPayloads
      BY <1>4, BoundsAssumption DEF ForwardsPayload, TypeOK
  <2>3. /\ Len(localTasks') = Len(localTasks) + 1
        /\ \A i \in 1..Len(localTasks) : localTasks'[i] = localTasks[i]
        /\ localTasks'[Len(localTasks) + 1] = forwarded + 1
      BY <1>1, <2>1, <2>2, AppendElements DEF TypeOK
  <2>4. Len(delivered) + Len(localTasks) = forwarded
      BY <1>4, <2>1 DEF Payloads
  <2>5. ASSUME NEW i \in 1..Len(localTasks')
        PROVE  localTasks'[i] = Len(delivered) + i /\ Len(delivered) + i <= forwarded'
    <3>1. CASE i = Len(localTasks) + 1
        BY <1>1, <2>1, <2>3, <2>4, <3>1
    <3>2. CASE i \in 1..Len(localTasks)
        BY <1>1, <1>4, <2>1, <2>3, <2>4, <3>2 DEF Payloads
    <3> QED BY <1>1, <2>3, <3>1, <3>2
  <2>6. \A i \in 1..Len(delivered') : delivered'[i] = i
      BY <2>1 DEF Payloads
  <2>7. Len(delivered') <= forwarded' /\ Len(delivered') + Len(localTasks') = forwarded'
      BY <1>1, <2>1, <2>3, <2>4
  <2> QED BY <1>1, <2>1, <2>3, <2>5, <2>6, <2>7 DEF Payloads
<1>5. CASE ForwardsPayload /\ ~clientUp
  <2>1. forwarded' = forwarded + 1 /\ UNCHANGED <<delivered, clientUp>>
      BY <1>5 DEF ForwardsPayload
  <2> QED BY <1>1, <1>5, <2>1 DEF Payloads
<1>6. CASE ClosingStep
  <2>1. /\ localTasks' = Append(localTasks, CloseTask) /\ ~Live'
        /\ UNCHANGED <<clientUp, delivered, forwarded>>
      BY <1>6 DEF ClosingStep, ConnectFails, Rejects, ChannelInactive, ExceptionCaught, ClosesLocal,
                  Flags, Live
  <2>2. CloseTask \in 0..MaxPayloads
      BY BoundsAssumption DEF CloseTask
  <2>3. /\ Len(localTasks') = Len(localTasks) + 1
        /\ \A i \in 1..Len(localTasks) : localTasks'[i] = localTasks[i]
        /\ localTasks'[Len(localTasks) + 1] = CloseTask
      BY <1>1, <2>1, <2>2, AppendElements DEF TypeOK
  <2>4. ASSUME clientUp, NEW i \in 1..Len(localTasks')
        PROVE  localTasks'[i] = IF Len(delivered) + i <= forwarded
                                THEN Len(delivered) + i ELSE CloseTask
    <3>1. CASE i = Len(localTasks) + 1
        BY <1>1, <2>3, <2>4, <3>1 DEF Payloads
    <3>2. CASE i \in 1..Len(localTasks)
        BY <2>3, <2>4, <3>2 DEF Payloads
    <3> QED BY <1>1, <2>3, <3>1, <3>2
  <2>5. \A i \in 1..Len(delivered') : delivered'[i] = i
      BY <2>1 DEF Payloads
  <2>6. /\ Len(delivered') <= forwarded'
        /\ clientUp => Len(delivered') + Len(localTasks') >= forwarded'
      BY <1>1, <2>1, <2>3 DEF Payloads
  <2> QED BY <2>1, <2>4, <2>5, <2>6 DEF Payloads
<1>7. ASSUME UNCHANGED <<localTasks, delivered, forwarded>>, clientUp' => clientUp, Live' => Live
      PROVE  Payloads'
    BY <1>7 DEF Payloads
<1>8. CASE ClientSends \/ ClientLeaves \/ Forwards \/ ServerAnswers \/ ServerSends
           \/ ServerCloses \/ UNCHANGED vars
    BY <1>7, <1>8 DEF ClientSends, ClientLeaves, Forwards, ServerAnswers, ServerSends, ServerCloses,
                      vars, localVars, bridgeVars, Live
<1>9. CASE ChannelActive \/ Accepts \/ Flushes \/ ReadsEof \/ Closes \/ Drains \/ RunsTask
    BY <1>7, <1>9 DEF ChannelActive, Accepts, Flushes, ReadsEof, Closes, Drains, RunsTask, localVars,
                      Live
<1> QED BY <1>2, <1>3, <1>4, <1>5, <1>6, <1>8, <1>9
        DEF Next, Local, Connects, Bridge, ClosingStep

----------------------------------------------------------------------------
(* The theorems.                                                           *)

LEMMA IInvInit == Init => IInv
<1> SUFFICES ASSUME Init PROVE IInv
    OBVIOUS
<1>1. Len(written) = 0 /\ Len(queue) = 0 /\ Len(tasks) = 0 /\ Len(delivered) = 0 /\ Len(localTasks) = 0
    BY DEF Init
<1>2. Past = 0
    BY DEF Init, Past
<1>3. Written /\ Waiting
    BY <1>1, <1>2 DEF Init, Written, Waiting
<1>4. Payloads
    BY <1>1 DEF Init, Payloads
<1>5. Flushed /\ Released
    BY DEF Init, Flushed, Released
<1>6. Flags
    BY DEF Init, Flags, Live
<1> QED BY <1>3, <1>4, <1>5, <1>6, TypeInit DEF IInv

LEMMA IInvStep == IInv /\ [Next]_vars => IInv'
    BY TypeStep, FlagsStep, LineStep, FlushedStep, ReleasedStep, PayloadsStep DEF IInv

\* RetailLoggedOutJs5Proxy: the invariant of the two event loops, for every number of chunks.
THEOREM Invariant == Spec => []IInv
    BY IInvInit, IInvStep, PTL DEF Spec

\* RetailLoggedOutJs5Proxy: its fields, and the tasks its loops give each other, keep their types.
THEOREM TypeCorrect == Spec => []TypeOK
<1>1. IInv => TypeOK
    BY DEF IInv
<1> QED BY <1>1, Invariant, PTL

\* forwardClientBytes, flushPendingClientWrites, decode: however the two event loops interleave,
\* each side sees what the other sent in order and without gaps, and the retail server only after
\* the initial packets.
THEOREM InOrder == Spec => []WireOrder
<1>1. IInv => WireOrder
  <2> SUFFICES ASSUME IInv PROVE WireOrder
      OBVIOUS
  <2>1. /\ sent \in Nat /\ written \in Seq(1..MaxChunks)
        /\ forwarded \in Nat /\ delivered \in Seq(1..MaxPayloads)
      BY BoundsAssumption DEF IInv, TypeOK
  <2>2. IsPrefix(written, [i \in 1..sent |-> i])
      BY <2>1, CountingPrefix DEF IInv, Written
  <2>3. IsPrefix(delivered, [i \in 1..forwarded |-> i])
      BY <2>1, CountingPrefix DEF IInv, Payloads
  <2> QED BY <2>2, <2>3 DEF IInv, Flags, WireOrder
<1> QED BY <1>1, Invariant, PTL

\* forwardClientBytes against decode and close(): no chunk is left in the queue of a ready
\* connection, and one at most in that of a closed proxy.
THEOREM NoneLeft == Spec => []NoneForgotten
<1>1. IInv => NoneForgotten
  <2> SUFFICES ASSUME IInv, remote = "idle" PROVE (CanWrite => queue = <<>>) /\ (closed => Len(queue) <= 1)
      BY DEF NoneForgotten
  <2>1. CanWrite => queue = <<>>
      BY DEF IInv, Flushed
  <2>2. Past \in {0, 1} /\ Len(queue) \in Nat
      BY Lengths DEF Past, IInv
  <2>3. closed => Len(queue) <= 1
      BY <2>2 DEF IInv, Released
  <2> QED BY <2>1, <2>3
<1> QED BY <1>1, Invariant, PTL

=============================================================================
