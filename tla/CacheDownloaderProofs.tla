------------------------ MODULE CacheDownloaderProofs ------------------------
(***************************************************************************)
(* Theorems about CacheDownloader, for any requests, any answers and any   *)
(* pool of clients.                                                        *)
(***************************************************************************)
EXTENDS CacheDownloader, FiniteSetTheorems, TLAPS

----------------------------------------------------------------------------
(* Where a request is.                                                     *)

Placed(r) ==
    /\ r \in fresh => r \notin pending \cup processing \cup processingHttp \cup requeue
                                \cup ioQueue \cup writing \cup stored \cup failed
    /\ r \in pending => r \notin processing \cup processingHttp \cup requeue
                                \cup ioQueue \cup writing \cup stored \cup failed
    /\ r \in processing => r \notin processingHttp \cup requeue
                                \cup ioQueue \cup writing \cup stored \cup failed
    /\ r \in processingHttp => r \notin requeue \cup ioQueue \cup writing \cup stored \cup failed
    /\ r \in requeue => r \notin ioQueue \cup writing \cup stored \cup failed
    /\ r \in ioQueue => r \notin writing \cup stored \cup failed
    /\ r \in writing => r \notin stored \cup failed
    /\ r \in stored => r \notin failed
    /\ r \in fresh \cup pending \cup processing \cup processingHttp \cup requeue
                     \cup ioQueue \cup writing \cup stored \cup failed

\* OnePlace says that the nine sets are apart and leave no request out.
LEMMA PlacesApart == OnePlace <=> \A r \in Requests : Placed(r)
<1>1. DOMAIN Places = 1..9
    BY DEF Places
<1>2. /\ Places[1] = fresh /\ Places[2] = pending /\ Places[3] = processing
      /\ Places[4] = processingHttp /\ Places[5] = requeue /\ Places[6] = ioQueue
      /\ Places[7] = writing /\ Places[8] = stored /\ Places[9] = failed
    BY DEF Places
<1>3. ASSUME NEW r
      PROVE  (\E i \in 1..9 : \A j \in 1..9 : r \in Places[j] <=> j = i) <=> Placed(r)
  <2>1. \A j \in 1..9 : j = 1 \/ j = 2 \/ j = 3 \/ j = 4 \/ j = 5 \/ j = 6 \/ j = 7 \/ j = 8 \/ j = 9
      OBVIOUS
  <2>2. ASSUME NEW i \in 1..9, \A j \in 1..9 : r \in Places[j] <=> j = i
        PROVE  Placed(r)
      BY <1>2, <2>1, <2>2 DEF Placed
  <2>3. ASSUME Placed(r)
        PROVE  \E i \in 1..9 : \A j \in 1..9 : r \in Places[j] <=> j = i
      BY <1>2, <2>1, <2>3 DEF Placed
  <2> QED BY <2>2, <2>3
<1> QED BY <1>1, <1>3 DEF OnePlace

----------------------------------------------------------------------------
(* The invariant, with its types and places spelled out.                   *)

Sets ==
    /\ fresh \subseteq Requests /\ pending \subseteq Requests /\ processing \subseteq Requests
    /\ processingHttp \subseteq Requests /\ requeue \subseteq Requests
    /\ completed \subseteq Requests /\ crashed \subseteq Requests /\ retried \subseteq Requests
    /\ httpQueue \subseteq Requests /\ httpRun \subseteq Requests
    /\ ioQueue \subseteq Requests /\ writing \subseteq Requests
    /\ stored \subseteq Requests /\ failed \subseteq Requests
    /\ todo \subseteq Requests /\ batch \subseteq Requests /\ dropped \subseteq Requests

Scalars ==
    /\ checkerDied \in BOOLEAN /\ closed \in BOOLEAN /\ doneHttp \in BOOLEAN
    /\ opening \in BOOLEAN /\ snap \in [js5 : BOOLEAN, http : BOOLEAN, io : BOOLEAN]
    /\ hpc \in {"start", "health", "open", "lock", "assign", "send", "scan", "requeue", "exit"}
    /\ slot \in 1..(NumClients + 1) /\ mpc \in {"watch", "act", "exit"}
    /\ losses \in 0..MaxLosses

ClientTypes ==
    /\ state \in [Clients -> {"none", "handshake", "active", "closed"}]
    /\ downloading \in [Clients -> SUBSET Requests]
    /\ current \in [Clients -> Requests \cup {NoRequest}]
    /\ left \in [Clients -> [Requests -> Nat]]
    /\ \A c \in Clients, r \in Requests : left[c][r] <= Blocks[r]

BufferTypes ==
    /\ attempts \in [Requests -> 0..MaxHttpAttempts]
    /\ got \in [Requests -> Nat] /\ \A r \in Requests : got[r] <= Blocks[r]
    /\ right \in [Requests -> BOOLEAN]

Types == Sets /\ Scalars /\ ClientTypes /\ BufferTypes

InPlace == \A r \in Requests : Placed(r)

\* Which requests the clients, the handler and the executors have in hand.
Work ==
    /\ Marks /\ HttpTasks /\ HandlerWork /\ ClientWork /\ OwnedOnce /\ Tracked

\* What their buffers hold.
Content == Filled /\ Unspoilt /\ StoredIsRight /\ NoFailureWithoutRetry

Inv == Types /\ InPlace /\ Work /\ Content

LEMMA InvIsIInv == Inv <=> IInv
<1>1. TypeOK /\ BuffersType <=> Types
  <2>1. \A r \in Requests : Blocks[r] \in Nat
      BY BlocksAssumption
  <2>2. (\A S \in {fresh, pending, processing, processingHttp, requeue, completed, crashed,
                 retried, httpQueue, httpRun, ioQueue, writing, stored, failed, todo,
                 batch, dropped} : S \subseteq Requests) <=> Sets
      BY DEF Sets
  <2>3. BuffersType => /\ (\A r \in Requests : got[r] \in 0..Blocks[r])
                            <=> (\A r \in Requests : got[r] <= Blocks[r])
                       /\ (\A c \in Clients, r \in Requests : left[c][r] \in 0..Blocks[r])
                            <=> (\A c \in Clients, r \in Requests : left[c][r] <= Blocks[r])
      BY <2>1 DEF BuffersType
  <2> QED BY <2>2, <2>3 DEF TypeOK, BuffersType, Types, Scalars, ClientTypes, BufferTypes
<1>2. Marks => NeverBoth
    BY DEF Marks, NeverBoth
<1> QED BY <1>1, <1>2, PlacesApart DEF IInv, Inv, Accounted, InPlace, Work, Content

----------------------------------------------------------------------------
(* The checkers.                                                           *)

LEMMA RequestTypes ==
    ASSUME Types, NEW S \in SUBSET Requests, Request(S)
    PROVE  /\ pending' \subseteq Requests /\ processingHttp' \subseteq Requests
           /\ httpQueue' \subseteq Requests /\ crashed' \subseteq Requests
           /\ attempts' \in [Requests -> 0..MaxHttpAttempts]
<1>1. attempts \in [Requests -> 0..MaxHttpAttempts]
    BY DEF Types, BufferTypes
<1>2. ByHttp(S) \subseteq S /\ \A r \in ByHttp(S) : attempts[r] < MaxHttpAttempts
    BY DEF ByHttp
<1>3. attempts' \in [Requests -> 0..MaxHttpAttempts]
    BY <1>1, <1>2, PoolAssumption DEF Request
<1> QED BY <1>2, <1>3 DEF Request, Types, Sets

LEMMA AskKeeps ==
    ASSUME Inv, NEW S \in SUBSET fresh, Ask(S)
    PROVE  Inv'
<1>1. /\ UNCHANGED <<checkerDied, processing, requeue, completed, got, right, retried>>
      /\ UNCHANGED <<state, downloading, current, left, httpRun, ioQueue, writing, stored, failed>>
      /\ UNCHANGED <<hpc, slot, opening, todo, batch, dropped, mpc, snap, closed, doneHttp, losses>>
    BY DEF Ask, buffers, clients, io, handler, main
<1>2. /\ Request(S) /\ fresh' = fresh \ S /\ ByHttp(S) \subseteq S /\ LockFree
      /\ S \subseteq Requests
    BY DEF Ask, ByHttp, Inv, Types, Sets
<1>3. Types'
    BY <1>1, <1>2, RequestTypes DEF Inv, Types, Sets, Scalars, ClientTypes, BufferTypes
<1>4. InPlace'
    BY <1>1, <1>2 DEF Inv, InPlace, Placed, Request
<1>5. Marks' /\ HttpTasks'
    BY <1>1, <1>2 DEF Inv, InPlace, Placed, Work, Marks, HttpTasks, Request
<1>6. HandlerWork' /\ ClientWork' /\ OwnedOnce'
    BY <1>1, <1>2 DEF Inv, Work, HandlerWork, ClientWork, OwnedOnce, Request, LockFree
<1>7. Tracked'
    BY <1>1, <1>2 DEF Inv, InPlace, Placed, Work, Tracked, Request
<1>8. Content'
    BY <1>1, <1>2 DEF Inv, Content, Filled, Unspoilt, StoredIsRight, NoFailureWithoutRetry, Request, Whole
<1> QED BY <1>3, <1>4, <1>5, <1>6, <1>7, <1>8 DEF Inv, Work

LEMMA AskClosedKeeps ==
    ASSUME Inv, NEW r \in Requests, AskClosed(r)
    PROVE  Inv'
<1>1. /\ UNCHANGED <<pending, processing, requeue, completed, crashed, attempts, got, right, retried>>
      /\ UNCHANGED <<state, downloading, current, left, httpQueue, httpRun>>
      /\ UNCHANGED <<ioQueue, writing, stored, failed>>
      /\ UNCHANGED <<hpc, slot, opening, todo, batch, dropped, mpc, snap, closed, doneHttp, losses>>
    BY DEF AskClosed, fields, buffers, clients, http, io, handler, main
<1>2. /\ fresh' = fresh \ {r} /\ checkerDied' = TRUE /\ processingHttp' = processingHttp \cup {r}
      /\ r \in fresh /\ LockFree /\ closed
    BY DEF AskClosed, ByHttp
<1>3. Types'
    BY <1>1, <1>2 DEF Inv, Types, Sets, Scalars, ClientTypes, BufferTypes
<1>4. InPlace'
    BY <1>1, <1>2 DEF Inv, InPlace, Placed
<1>5. Marks' /\ HttpTasks'
    BY <1>1, <1>2 DEF Inv, InPlace, Placed, Work, Marks, HttpTasks
<1>6. HandlerWork' /\ ClientWork' /\ OwnedOnce' /\ Tracked'
    BY <1>1, <1>2 DEF Inv, Work, HandlerWork, ClientWork, OwnedOnce, Tracked, LockFree
<1>7. Content'
    BY <1>1, <1>2 DEF Inv, Content, Filled, Unspoilt, StoredIsRight, NoFailureWithoutRetry, Whole
<1> QED BY <1>3, <1>4, <1>5, <1>6, <1>7 DEF Inv, Work

----------------------------------------------------------------------------
(* The clients' event loops.                                               *)

\* Connecting, losing the connection and reading a header take no request anywhere.
LEMMA ConnectionKeeps ==
    ASSUME Inv, NEW c \in Clients, ClientStep(c),
           Connect(c) \/ Lose(c) \/ \E r \in Requests : ReadHeader(c, r)
    PROVE  Inv'
<1>1. /\ UNCHANGED <<fresh, checkerDied, pending, processing, processingHttp, requeue>>
      /\ UNCHANGED <<crashed, attempts, retried, httpQueue, httpRun>>
      /\ UNCHANGED <<ioQueue, writing, stored, failed>>
      /\ UNCHANGED <<hpc, slot, opening, todo, batch, dropped, mpc, snap, closed, doneHttp>>
    BY DEF ClientStep, asking, handed, http, io, handler, main
<1>2. UNCHANGED <<completed, got, right, downloading, left>>
    BY DEF Connect, Lose, ReadHeader, buffers
<1>3. state' \in [Clients -> {"none", "handshake", "active", "closed"}] /\ losses' \in 0..MaxLosses
  <2>1. state \in [Clients -> {"none", "handshake", "active", "closed"}] /\ losses \in 0..MaxLosses
      BY DEF Inv, Types, ClientTypes, Scalars
  <2>2. CASE Connect(c)
      BY <2>1, <2>2 DEF Connect
  <2>3. CASE Lose(c)
      BY <2>1, <2>3, PoolAssumption DEF Lose
  <2>4. CASE \E r \in Requests : ReadHeader(c, r)
      BY <2>1, <2>4 DEF ReadHeader
  <2> QED BY <2>2, <2>3, <2>4
<1>4. \/ UNCHANGED current
      \/ \E r \in Requests : /\ current' = [current EXCEPT ![c] = r]
                             /\ r \in downloading[c] /\ left[c][r] > 0
    BY DEF Connect, Lose, ReadHeader
<1>5. current \in [Clients -> Requests \cup {NoRequest}]
    BY DEF Inv, Types, ClientTypes
<1>6. ClientWork'
    BY <1>1, <1>2, <1>4, <1>5 DEF Inv, Work, ClientWork
<1>7. Types'
    BY <1>1, <1>2, <1>3, <1>4, <1>5 DEF Inv, Types, Sets, Scalars, ClientTypes, BufferTypes
<1>8. InPlace'
    BY <1>1 DEF Inv, InPlace, Placed
<1>9. Work'
    BY <1>1, <1>2, <1>6 DEF Inv, Work, Marks, HttpTasks, HandlerWork, OwnedOnce, Tracked
<1>10. Content'
    BY <1>1, <1>2 DEF Inv, Content, Filled, Unspoilt, StoredIsRight, NoFailureWithoutRetry, Whole
<1> QED BY <1>7, <1>8, <1>9, <1>10 DEF Inv

LEMMA ReadBlockKeeps ==
    ASSUME Inv, NEW c \in Clients, ClientStep(c), ReadBlock(c)
    PROVE  Inv'
<1> DEFINE r == current[c]
           complete == got[r] + 1 = Blocks[r]
<1>1. /\ UNCHANGED <<fresh, checkerDied, pending, processing, processingHttp, requeue>>
      /\ UNCHANGED <<crashed, attempts, retried, httpQueue, httpRun>>
      /\ UNCHANGED <<ioQueue, writing, stored, failed>>
      /\ UNCHANGED <<hpc, slot, opening, todo, batch, dropped, mpc, snap, closed, doneHttp>>
    BY DEF ClientStep, asking, handed, http, io, handler, main
<1>2. /\ UNCHANGED <<state, losses>> /\ current' = [current EXCEPT ![c] = NoRequest]
      /\ left' = [left EXCEPT ![c][r] = @ - 1]
      /\ got' = [got EXCEPT ![r] = @ + 1]
      /\ right' = [right EXCEPT ![r] = @ /\ got[r] = Blocks[r] - left[c][r]]
      /\ completed' = IF complete THEN completed \cup {r} ELSE completed
      /\ downloading' = IF complete THEN [downloading EXCEPT ![c] = @ \ {r}] ELSE downloading
    BY DEF ReadBlock
<1>3. /\ r \in Requests /\ r \in downloading[c] /\ left[c][r] > 0
      /\ r \in processing /\ r \notin completed /\ r \notin crashed
      /\ got[r] # Blocks[r] /\ got[r] < Blocks[r] /\ Blocks[r] \in Nat
  <2>1. r \in Requests /\ r \in downloading[c] /\ left[c][r] > 0
      BY DEF ReadBlock, Inv, Types, ClientTypes, Work, ClientWork
  <2>2. r \in processing /\ r \notin completed /\ r \notin crashed
      BY <2>1 DEF Inv, Work, ClientWork, OwnedOnce
  <2>3. got[r] # Blocks[r]
      BY <2>1, <2>2 DEF Inv, Content, Filled
  <2> QED BY <2>1, <2>2, <2>3, BlocksAssumption DEF Inv, Types, BufferTypes
<1>4. /\ got \in [Requests -> Nat] /\ right \in [Requests -> BOOLEAN]
      /\ left \in [Clients -> [Requests -> Nat]] /\ downloading \in [Clients -> SUBSET Requests]
      /\ current \in [Clients -> Requests \cup {NoRequest}] /\ NoRequest \notin Requests
    BY RequestsAssumption DEF Inv, Types, ClientTypes, BufferTypes
<1> HIDE DEF r
<1>5. /\ got' \in [Requests -> Nat] /\ right' \in [Requests -> BOOLEAN]
      /\ left' \in [Clients -> [Requests -> Nat]] /\ downloading' \in [Clients -> SUBSET Requests]
      /\ current' \in [Clients -> Requests \cup {NoRequest}]
    BY <1>2, <1>3, <1>4
<1>6. /\ \A q \in Requests : /\ got'[q] = IF q = r THEN got[r] + 1 ELSE got[q]
                             /\ q # r => right'[q] = right[q]
      /\ right'[r] <=> right[r] /\ got[r] = Blocks[r] - left[c][r]
      /\ \A d \in Clients, q \in Requests :
             left'[d][q] = IF d = c /\ q = r THEN left[c][r] - 1 ELSE left[d][q]
      /\ \A d \in Clients : /\ downloading'[d] \subseteq downloading[d]
                            /\ downloading[d] \ {r} \subseteq downloading'[d]
                            /\ d # c => current'[d] = current[d]
      /\ current'[c] = NoRequest
      /\ complete => r \notin downloading'[c] /\ completed' = completed \cup {r}
      /\ ~complete => r \in downloading'[c] /\ completed' = completed
    BY <1>2, <1>3, <1>4
<1> HIDE DEF complete
<1>7. Types'
  <2>1. Sets' /\ Scalars'
      BY <1>1, <1>2, <1>3, <1>6 DEF Inv, Types, Sets, Scalars
  <2>2. ClientTypes'
      BY <1>1, <1>2, <1>3, <1>4, <1>5, <1>6, BlocksAssumption DEF Inv, Types, ClientTypes
  <2>3. BufferTypes'
    <3>1. \A q \in Requests : got[q] <= Blocks[q] /\ got[q] \in Nat
        BY <1>4 DEF Inv, Types, BufferTypes
    <3>2. \A q \in Requests : got'[q] <= Blocks[q]
        BY <1>3, <1>6, <3>1
    <3>3. attempts' \in [Requests -> 0..MaxHttpAttempts]
        BY <1>1 DEF Inv, Types, BufferTypes
    <3> QED BY <1>5, <3>2, <3>3 DEF BufferTypes
  <2> QED BY <2>1, <2>2, <2>3 DEF Types
<1>8. InPlace'
    BY <1>1 DEF Inv, InPlace, Placed
<1>9. Marks' /\ HttpTasks' /\ HandlerWork'
    BY <1>1, <1>3, <1>6 DEF Inv, InPlace, Placed, Work, Marks, HttpTasks, HandlerWork
<1>10. OwnedOnce'
    BY <1>1, <1>3, <1>6 DEF Inv, Work, OwnedOnce
<1>11. ClientWork'
    BY <1>1, <1>3, <1>4, <1>6 DEF Inv, Work, ClientWork, OwnedOnce
<1>12. Tracked'
    BY <1>1, <1>3, <1>6 DEF Inv, Work, Tracked
<1>13. Filled'
    BY <1>3, <1>4, <1>6, BlocksAssumption DEF Inv, Content, Filled, complete
<1>14. StoredIsRight' /\ NoFailureWithoutRetry'
  <2>1. r \notin stored
      BY <1>3 DEF Inv, InPlace, Placed
  <2> QED BY <1>1, <1>6, <2>1 DEF Inv, Types, Sets, Content, StoredIsRight, NoFailureWithoutRetry, Whole
<1>15. Unspoilt'
  <2>1. /\ r \notin fresh \cup pending \cup requeue \cup processingHttp
        /\ r \notin batch
      BY <1>3 DEF Inv, InPlace, Placed, Work, HandlerWork
  <2>2. \A d \in Clients : r \in downloading[d] => d = c
      BY <1>3 DEF Inv, Work, OwnedOnce
  <2>3. /\ got[r] \in Nat /\ left[c][r] \in Nat /\ r \in Requests
        /\ r \notin retried => right[r] /\ got[r] + left[c][r] = Blocks[r]
      BY <1>3, <1>4 DEF Inv, Content, Unspoilt
  <2>4. ASSUME NEW q \in Requests \ retried, q # r
        PROVE  /\ q \in fresh \cup pending \cup requeue \cup batch \cup (processingHttp \ completed)
                     => got'[q] = 0 /\ right'[q]
               /\ q \in completed' => right'[q]
               /\ q \in processing => q \notin crashed
               /\ \A d \in Clients : q \in downloading'[d] => right'[q] /\ got'[q] + left'[d][q] = Blocks[q]
      BY <1>6, <2>4 DEF Inv, Content, Unspoilt
  <2>5. ASSUME r \notin retried
        PROVE  right'[r] /\ got'[r] + left'[c][r] = Blocks[r]
      BY <1>3, <1>6, <2>3, <2>5
  <2> QED BY <1>1, <1>3, <1>6, <2>1, <2>2, <2>4, <2>5 DEF Unspoilt
<1> QED BY <1>7, <1>8, <1>9, <1>10, <1>11, <1>12, <1>13, <1>14, <1>15 DEF Inv, Work, Content

LEMMA ClientKeeps ==
    ASSUME Inv, NEW c \in Clients, ClientStep(c)
    PROVE  Inv'
    BY ConnectionKeeps, ReadBlockKeeps DEF ClientStep

----------------------------------------------------------------------------
(* The HTTP executor and the I/O workers.                                  *)

LEMMA HttpStartKeeps ==
    ASSUME Inv, NEW r \in Requests, HttpStart(r)
    PROVE  Inv'
<1>1. /\ UNCHANGED <<fresh, checkerDied, pending, processing, processingHttp, requeue>>
      /\ UNCHANGED <<completed, crashed, attempts, got, right, retried>>
      /\ UNCHANGED <<state, downloading, current, left, ioQueue, writing, stored, failed>>
      /\ UNCHANGED <<hpc, slot, opening, todo, batch, dropped, mpc, snap, closed, doneHttp, losses>>
    BY DEF HttpStart, asking, handed, fields, buffers, clients, io, handler, main
<1>2. r \in httpQueue /\ httpQueue' = httpQueue \ {r} /\ httpRun' = httpRun \cup {r}
    BY DEF HttpStart
<1>3. Types'
    BY <1>1, <1>2 DEF Inv, Types, Sets, Scalars, ClientTypes, BufferTypes
<1>4. InPlace'
    BY <1>1 DEF Inv, InPlace, Placed
<1>5. HttpTasks'
    BY <1>1, <1>2 DEF Inv, Work, HttpTasks
<1>6. Work'
    BY <1>1, <1>5 DEF Inv, Work, Marks, HandlerWork, ClientWork, OwnedOnce, Tracked
<1>7. Content'
    BY <1>1 DEF Inv, Content, Filled, Unspoilt, StoredIsRight, NoFailureWithoutRetry, Whole
<1> QED BY <1>3, <1>4, <1>6, <1>7 DEF Inv

\* The answer fills the buffer of a request no client waits for.
LEMMA HttpDoneKeeps ==
    ASSUME Inv, NEW r \in Requests, HttpDone(r)
    PROVE  Inv'
<1>1. /\ UNCHANGED <<fresh, checkerDied, pending, processing, processingHttp, requeue>>
      /\ UNCHANGED <<crashed, attempts, retried, httpQueue>>
      /\ UNCHANGED <<state, downloading, current, left, ioQueue, writing, stored, failed>>
      /\ UNCHANGED <<hpc, slot, opening, todo, batch, dropped, mpc, snap, closed, doneHttp, losses>>
    BY DEF HttpDone, asking, handed, clients, io, handler, main
<1>2. /\ r \in httpRun /\ httpRun' = httpRun \ {r} /\ completed' = completed \cup {r}
      /\ got' = [got EXCEPT ![r] = Blocks[r]] /\ right' = [right EXCEPT ![r] = TRUE]
    BY DEF HttpDone
<1>3. /\ r \in processingHttp /\ r \notin processing /\ r \notin httpQueue
      /\ r \notin completed /\ r \notin crashed /\ r \notin stored /\ r \notin batch
      /\ r \notin fresh \cup pending \cup requeue
      /\ \A c \in Clients : r \notin downloading[c]
    BY <1>2 DEF Inv, InPlace, Placed, Work, HttpTasks, HandlerWork, OwnedOnce
<1>4. got \in [Requests -> Nat] /\ right \in [Requests -> BOOLEAN] /\ Blocks \in [Requests -> Nat]
    BY BlocksAssumption DEF Inv, Types, BufferTypes
<1>5. /\ got' \in [Requests -> Nat] /\ right' \in [Requests -> BOOLEAN]
      /\ got'[r] = Blocks[r] /\ right'[r]
      /\ \A q \in Requests : q # r => got'[q] = got[q] /\ right'[q] = right[q]
    BY <1>2, <1>4
<1>6. Types'
  <2>1. Sets' /\ Scalars' /\ ClientTypes'
      BY <1>1, <1>2 DEF Inv, Types, Sets, Scalars, ClientTypes
  <2>2. \A q \in Requests : got'[q] <= Blocks[q]
      BY <1>4, <1>5 DEF Inv, Types, BufferTypes
  <2> QED BY <1>1, <1>5, <2>1, <2>2 DEF Inv, Types, BufferTypes
<1>7. InPlace'
    BY <1>1 DEF Inv, InPlace, Placed
<1>8. Marks' /\ HttpTasks' /\ HandlerWork'
    BY <1>1, <1>2, <1>3 DEF Inv, Work, Marks, HttpTasks, HandlerWork
<1>9. ClientWork' /\ OwnedOnce' /\ Tracked'
    BY <1>1, <1>2, <1>3 DEF Inv, Work, ClientWork, OwnedOnce, Tracked
<1>10. Filled' /\ StoredIsRight' /\ NoFailureWithoutRetry'
    BY <1>1, <1>2, <1>3, <1>5
    DEF Inv, Types, Sets, Content, Filled, StoredIsRight, NoFailureWithoutRetry, Whole
<1>11. Unspoilt'
    BY <1>1, <1>2, <1>3, <1>5 DEF Inv, Content, Unspoilt
<1> QED BY <1>6, <1>7, <1>8, <1>9, <1>10, <1>11 DEF Inv, Work, Content

LEMMA HttpFailsKeeps ==
    ASSUME Inv, NEW r \in Requests, HttpFails(r)
    PROVE  Inv'
<1>1. /\ UNCHANGED <<fresh, checkerDied, pending, processing, processingHttp, requeue>>
      /\ UNCHANGED <<completed, attempts, got, right, retried, httpQueue>>
      /\ UNCHANGED <<state, downloading, current, left, ioQueue, writing, stored, failed>>
      /\ UNCHANGED <<hpc, slot, opening, todo, batch, dropped, mpc, snap, closed, doneHttp, losses>>
    BY DEF HttpFails, asking, handed, buffers, clients, io, handler, main
<1>2. r \in httpRun /\ httpRun' = httpRun \ {r} /\ crashed' = crashed \cup {r}
    BY DEF HttpFails
<1>3. /\ r \in processingHttp /\ r \notin processing /\ r \notin httpQueue
      /\ r \notin completed /\ r \notin batch /\ r \notin fresh \cup pending
      /\ \A c \in Clients : r \notin downloading[c]
    BY <1>2 DEF Inv, InPlace, Placed, Work, HttpTasks, HandlerWork, OwnedOnce
<1>4. Types'
    BY <1>1, <1>2 DEF Inv, Types, Sets, Scalars, ClientTypes, BufferTypes
<1>5. InPlace'
    BY <1>1 DEF Inv, InPlace, Placed
<1>6. Marks' /\ HttpTasks' /\ HandlerWork'
    BY <1>1, <1>2, <1>3 DEF Inv, Work, Marks, HttpTasks, HandlerWork
<1>7. ClientWork' /\ OwnedOnce' /\ Tracked'
    BY <1>1, <1>2, <1>3 DEF Inv, Work, ClientWork, OwnedOnce, Tracked
<1>8. Content'
    BY <1>1, <1>2, <1>3 DEF Inv, Content, Filled, Unspoilt, StoredIsRight, NoFailureWithoutRetry, Whole
<1> QED BY <1>4, <1>5, <1>6, <1>7, <1>8 DEF Inv, Work

LEMMA IoKeeps ==
    ASSUME Inv, NEW r \in Requests, StartWrite(r) \/ Write(r)
    PROVE  Inv'
<1>1. /\ UNCHANGED <<fresh, checkerDied, pending, processing, processingHttp, requeue>>
      /\ UNCHANGED <<completed, crashed, attempts, got, right, retried, httpQueue, httpRun>>
      /\ UNCHANGED <<state, downloading, current, left>>
      /\ UNCHANGED <<hpc, slot, opening, todo, batch, dropped, mpc, snap, closed, doneHttp, losses>>
    BY DEF StartWrite, Write, asking, handed, fields, buffers, clients, http, handler, main
<1>2. \/ /\ r \in ioQueue /\ ioQueue' = ioQueue \ {r} /\ writing' = writing \cup {r}
         /\ stored' = stored /\ failed' = failed
      \/ /\ r \in writing /\ writing' = writing \ {r} /\ ioQueue' = ioQueue
         /\ \/ Whole(r) /\ stored' = stored \cup {r} /\ failed' = failed
            \/ ~Whole(r) /\ failed' = failed \cup {r} /\ stored' = stored
    BY DEF StartWrite, Write
<1>3. r \in completed /\ (Whole(r) \/ r \in retried)
    BY <1>2 DEF Inv, Work, Marks, Content, Filled, Unspoilt, Whole
<1>4. Types'
    BY <1>1, <1>2 DEF Inv, Types, Sets, Scalars, ClientTypes, BufferTypes
<1>5. InPlace'
    BY <1>1, <1>2 DEF Inv, InPlace, Placed
<1>6. Work'
    BY <1>1, <1>2, <1>3 DEF Inv, Work, Marks, HttpTasks, HandlerWork, ClientWork, OwnedOnce, Tracked
<1>7. Content'
    BY <1>1, <1>2, <1>3 DEF Inv, Content, Filled, Unspoilt, StoredIsRight, NoFailureWithoutRetry, Whole
<1> QED BY <1>4, <1>5, <1>6, <1>7 DEF Inv

----------------------------------------------------------------------------
(* The request handler.                                                    *)

\* Steps that move the handler on and leave the requests where they are.
Moves ==
    \/ StartHealth \/ Healthy \/ EndHealth \/ Open \/ OpenFails
    \/ TakeLock \/ AssignClosed \/ EndAssign \/ EndScan \/ RequeueClosed
    \/ \E r \in Requests : PassOver(r)

LEMMA MovesKeep ==
    ASSUME Inv, Moves
    PROVE  Inv'
<1>1. /\ UNCHANGED <<fresh, checkerDied, pending, processing, processingHttp, requeue>>
      /\ UNCHANGED <<completed, crashed, attempts, got, right, retried, httpQueue, httpRun>>
      /\ UNCHANGED <<downloading, current, left, ioQueue, writing, stored, failed>>
      /\ UNCHANGED <<batch, dropped, mpc, snap, closed, doneHttp, losses>>
    BY DEF Moves, StartHealth, Healthy, EndHealth, Open, OpenFails, TakeLock, AssignClosed, EndAssign,
           EndScan, RequeueClosed, PassOver, Quit, asking, handed, fields, buffers, clients, http, io, main
<1>2. /\ state' \in [Clients -> {"none", "handshake", "active", "closed"}]
      /\ slot' \in 1..(NumClients + 1) /\ opening' \in BOOLEAN
  <2>1. /\ state \in [Clients -> {"none", "handshake", "active", "closed"}]
        /\ slot \in 1..(NumClients + 1) /\ opening \in BOOLEAN
      BY DEF Inv, Types, ClientTypes, Scalars
  <2>2. CASE Healthy
      BY <2>1, <2>2, PoolAssumption DEF Healthy, clients
  <2>3. CASE Open
      BY <2>1, <2>3 DEF Open
  <2>4. CASE StartHealth \/ EndHealth
    <3>1. UNCHANGED state /\ slot' = 1 /\ opening' = FALSE
        BY <2>4 DEF StartHealth, EndHealth, clients
    <3>2. 1 \in 1..(NumClients + 1)
        BY PoolAssumption
    <3> QED BY <2>1, <3>1, <3>2
  <2>5. CASE ~(Healthy \/ Open \/ StartHealth \/ EndHealth)
      BY <2>1, <2>5 DEF Moves, OpenFails, TakeLock, AssignClosed, EndAssign, EndScan, RequeueClosed,
                        PassOver, Quit, clients
  <2> QED BY <2>2, <2>3, <2>4, <2>5
<1>3. /\ hpc # "send" /\ hpc' # "send"
      /\ hpc' \in {"start", "health", "open", "lock", "assign", "scan", "requeue", "exit"}
      /\ hpc' = "assign" => todo' \subseteq pending
      /\ hpc' = "scan" => todo' \subseteq processing \cup processingHttp
      /\ todo' \subseteq Requests
  <2>1. /\ todo \subseteq Requests /\ pending \subseteq Requests
        /\ processing \subseteq Requests /\ processingHttp \subseteq Requests
        /\ hpc \in {"assign", "send"} => todo \subseteq pending
      BY DEF Inv, Types, Sets, Work, HandlerWork
  <2>2. CASE StartHealth \/ Healthy \/ EndHealth
      BY <2>1, <2>2 DEF StartHealth, Healthy, EndHealth, At
  <2>3. CASE Open
      BY <2>1, <2>3 DEF Open, At
  <2>4. CASE OpenFails \/ AssignClosed \/ RequeueClosed
      BY <2>1, <2>4 DEF OpenFails, AssignClosed, RequeueClosed, Quit, At
  <2>5. CASE TakeLock
      BY <2>1, <2>5 DEF TakeLock, At
  <2>6. CASE EndAssign \/ EndScan
      BY <2>1, <2>6 DEF EndAssign, EndScan, At
  <2>7. CASE \E r \in Requests : PassOver(r)
      BY <2>1, <2>7 DEF PassOver, At
  <2> QED BY <2>2, <2>3, <2>4, <2>5, <2>6, <2>7 DEF Moves
<1>4. Types'
    BY <1>1, <1>2, <1>3 DEF Inv, Types, Sets, Scalars, ClientTypes, BufferTypes
<1>5. InPlace'
    BY <1>1 DEF Inv, InPlace, Placed
<1>6. Work'
    BY <1>1, <1>3 DEF Inv, Work, Marks, HttpTasks, HandlerWork, ClientWork, OwnedOnce, Tracked
<1>7. Content'
    BY <1>1 DEF Inv, Content, Filled, Unspoilt, StoredIsRight, NoFailureWithoutRetry, Whole
<1> QED BY <1>4, <1>5, <1>6, <1>7 DEF Inv

\* A replaced client's requests are marked in the step that takes them from it.
LEMMA ReplaceKeeps ==
    ASSUME Inv, Replace
    PROVE  Inv'
<1>1. /\ UNCHANGED <<fresh, checkerDied, pending, processing, processingHttp, requeue>>
      /\ UNCHANGED <<completed, attempts, got, right, httpQueue, httpRun>>
      /\ UNCHANGED <<ioQueue, writing, stored, failed, hpc, todo, batch, dropped>>
      /\ UNCHANGED <<mpc, snap, closed, doneHttp>>
    BY DEF Replace, asking, handed, buffers, http, io, main
<1>2. /\ crashed' = crashed \cup downloading[slot] /\ retried' = retried \cup downloading[slot]
      /\ state' = [state EXCEPT ![slot] = "none"]
      /\ downloading' = [downloading EXCEPT ![slot] = {}]
      /\ current' = [current EXCEPT ![slot] = NoRequest]
      /\ left' = [left EXCEPT ![slot] = NothingLeft]
      /\ slot' = slot + 1 /\ opening' = TRUE /\ hpc = "health"
    BY DEF Replace, TakeDown, At
<1>3. slot \in Clients /\ losses' \in 0..MaxLosses
  <2>1. slot \in 1..(NumClients + 1) /\ losses \in 0..MaxLosses /\ slot <= NumClients
      BY DEF Replace, Inv, Types, Scalars
  <2>2. losses' = losses \/ (losses < MaxLosses /\ losses' = losses + 1)
      BY DEF Replace
  <2> QED BY <2>1, <2>2, PoolAssumption DEF Clients
<1>4. /\ state \in [Clients -> {"none", "handshake", "active", "closed"}]
      /\ downloading \in [Clients -> SUBSET Requests]
      /\ current \in [Clients -> Requests \cup {NoRequest}]
      /\ left \in [Clients -> [Requests -> Nat]]
      /\ \A c \in Clients, r \in Requests : left[c][r] <= Blocks[r]
      /\ NothingLeft \in [Requests -> Nat] /\ \A r \in Requests : NothingLeft[r] <= Blocks[r]
    BY BlocksAssumption DEF Inv, Types, ClientTypes, NothingLeft
<1> DEFINE here == downloading[slot]
<1>5. /\ here \subseteq Requests /\ here \subseteq processing
      /\ here \cap completed = {} /\ here \cap crashed = {} /\ here \cap batch = {}
    BY <1>3, <1>4 DEF Inv, Work, OwnedOnce, ClientWork, HandlerWork
<1>6. /\ downloading'[slot] = {} /\ current'[slot] = NoRequest
      /\ \A c \in Clients : c # slot => /\ downloading'[c] = downloading[c]
                                        /\ downloading[c] \cap here = {}
                                        /\ current'[c] = current[c] /\ left'[c] = left[c]
    BY <1>2, <1>3, <1>4 DEF Inv, Work, OwnedOnce
<1> HIDE DEF here
<1>7. Types'
  <2>1. ClientTypes'
      BY <1>2, <1>3, <1>4 DEF ClientTypes
  <2>2. Sets'
      BY <1>1, <1>2, <1>5 DEF Inv, Types, Sets, here
  <2>3. Scalars'
      BY <1>1, <1>2, <1>3, PoolAssumption DEF Inv, Types, Scalars, Clients
  <2> QED BY <1>1, <2>1, <2>2, <2>3 DEF Inv, Types, BufferTypes
<1>8. InPlace'
    BY <1>1 DEF Inv, InPlace, Placed
<1>9. Marks' /\ HttpTasks'
    BY <1>1, <1>2, <1>5 DEF Inv, InPlace, Placed, Work, Marks, HttpTasks, here
<1>10. HandlerWork' /\ ClientWork' /\ OwnedOnce'
    BY <1>1, <1>2, <1>3, <1>5, <1>6 DEF Inv, Work, HandlerWork, ClientWork, OwnedOnce, here
<1>11. Tracked'
    BY <1>1, <1>2, <1>3, <1>6 DEF Inv, Work, Tracked, here
<1>12. Filled' /\ StoredIsRight' /\ NoFailureWithoutRetry'
    BY <1>1, <1>2 DEF Inv, Content, Filled, StoredIsRight, NoFailureWithoutRetry, Whole
<1>13. Unspoilt'
    BY <1>1, <1>2, <1>3, <1>6 DEF Inv, Content, Unspoilt, here
<1> QED BY <1>7, <1>8, <1>9, <1>10, <1>11, <1>12, <1>13 DEF Inv, Work, Content

\* A batch leaves pending with the step that makes it processing.
LEMMA DrainKeeps ==
    ASSUME Inv, NEW c \in Clients, NEW B \in SUBSET todo, Drain(c, B)
    PROVE  Inv'
<1>1. /\ UNCHANGED <<fresh, checkerDied, processingHttp, requeue>>
      /\ UNCHANGED <<completed, crashed, attempts, got, right, retried, httpQueue, httpRun>>
      /\ UNCHANGED <<state, downloading, current, left, ioQueue, writing, stored, failed>>
      /\ UNCHANGED <<opening, dropped, mpc, snap, closed, doneHttp, losses>>
    BY DEF Drain, asking, fields, buffers, clients, http, io, main
<1>2. /\ pending' = pending \ B /\ processing' = processing \cup B
      /\ todo' = todo \ B /\ batch' = B /\ slot' = c /\ hpc' = "send" /\ hpc = "assign"
    BY DEF Drain, At
<1>3. /\ todo \subseteq pending /\ B \subseteq pending /\ batch = {}
      /\ B \cap (completed \cup crashed) = {} /\ B \cap processing = {}
      /\ \A d \in Clients : B \cap downloading[d] = {}
  <2>1. todo \subseteq pending /\ batch = {}
      BY <1>2 DEF Inv, Work, HandlerWork
  <2>2. B \cap processing = {}
      BY <2>1 DEF Inv, Types, Sets, InPlace, Placed
  <2> QED BY <2>1, <2>2 DEF Inv, Work, Marks, OwnedOnce
<1>4. c \in 1..(NumClients + 1)
    BY PoolAssumption DEF Clients
<1>5. Types'
    BY <1>1, <1>2, <1>3, <1>4 DEF Inv, Types, Sets, Scalars, ClientTypes, BufferTypes
<1>6. InPlace'
    BY <1>1, <1>2, <1>3 DEF Inv, InPlace, Placed
<1>7. Marks' /\ HttpTasks'
    BY <1>1, <1>2, <1>3 DEF Inv, InPlace, Placed, Work, Marks, HttpTasks
<1>8. HandlerWork' /\ ClientWork' /\ OwnedOnce' /\ Tracked'
    BY <1>1, <1>2, <1>3 DEF Inv, Work, HandlerWork, ClientWork, OwnedOnce, Tracked
<1>9. Content'
    BY <1>1, <1>2, <1>3 DEF Inv, Content, Filled, Unspoilt, StoredIsRight, NoFailureWithoutRetry, Whole
<1> QED BY <1>5, <1>6, <1>7, <1>8, <1>9 DEF Inv, Work

\* Of a closed channel addAllUnchecked drops the batch; else the client waits for it.
LEMMA SendKeeps ==
    ASSUME Inv, Send
    PROVE  Inv'
<1>1. /\ UNCHANGED <<fresh, checkerDied, pending, processing, processingHttp, requeue>>
      /\ UNCHANGED <<completed, crashed, attempts, got, right, retried, httpQueue, httpRun>>
      /\ UNCHANGED <<state, current, ioQueue, writing, stored, failed>>
      /\ UNCHANGED <<opening, todo, mpc, snap, closed, doneHttp, losses>>
    BY DEF Send, asking, handed, fields, buffers, http, io, main
<1>2. /\ hpc = "send" /\ hpc' = "assign" /\ batch' = {} /\ slot' = 1
      /\ slot \in Clients /\ batch \subseteq Requests
      /\ batch \subseteq processing \ (completed \cup crashed)
      /\ \A c \in Clients : batch \cap downloading[c] = {}
    BY DEF Send, At, Inv, Types, Sets, Work, HandlerWork
<1>3. /\ downloading \in [Clients -> SUBSET Requests] /\ left \in [Clients -> [Requests -> Nat]]
      /\ current \in [Clients -> Requests \cup {NoRequest}]
      /\ got \in [Requests -> Nat]
      /\ \A c \in Clients, r \in Requests : left[c][r] <= Blocks[r]
      /\ Blocks \in [Requests -> Nat] /\ \A r \in Requests : Blocks[r] > 0
      /\ 1 \in 1..(NumClients + 1)
    BY BlocksAssumption, PoolAssumption DEF Inv, Types, ClientTypes, BufferTypes
<1>4. CASE state[slot] = "active"
  <2>1. /\ downloading' = [downloading EXCEPT ![slot] = @ \cup batch]
        /\ left' = [left EXCEPT ![slot] =
                       [r \in Requests |-> IF r \in batch THEN Blocks[r] ELSE left[slot][r]]]
        /\ dropped' = dropped
      BY <1>4 DEF Send
  <2>2. /\ downloading' \in [Clients -> SUBSET Requests] /\ left' \in [Clients -> [Requests -> Nat]]
        /\ \A c \in Clients : downloading'[c] = IF c = slot THEN downloading[c] \cup batch
                                                            ELSE downloading[c]
        /\ \A c \in Clients, r \in Requests :
               left'[c][r] = IF c = slot /\ r \in batch THEN Blocks[r] ELSE left[c][r]
      BY <1>2, <1>3, <2>1
  <2>3. Types'
    <3>1. \A c \in Clients, r \in Requests : left'[c][r] <= Blocks[r]
        BY <1>3, <2>2
    <3>2. ClientTypes'
        BY <1>1, <2>2, <3>1 DEF Inv, Types, ClientTypes
    <3> QED BY <1>1, <1>2, <1>3, <2>1, <3>2 DEF Inv, Types, Sets, Scalars, BufferTypes
  <2>4. HandlerWork' /\ OwnedOnce'
      BY <1>1, <1>2, <2>2 DEF Inv, Work, HandlerWork, OwnedOnce
  <2>5. ClientWork'
      BY <1>1, <1>2, <1>3, <2>2 DEF Inv, Work, ClientWork
  <2>6. Tracked'
      BY <1>1, <1>2, <2>1, <2>2 DEF Inv, Work, Tracked
  <2>7. Unspoilt'
    <3>1. ASSUME NEW r \in Requests \ retried, NEW c \in Clients, r \in downloading'[c]
          PROVE  right[r] /\ got[r] + left'[c][r] = Blocks[r]
      <4>1. CASE c = slot /\ r \in batch
        <5>1. got[r] = 0 /\ right[r] /\ left'[c][r] = Blocks[r]
            BY <2>2, <3>1, <4>1 DEF Inv, Content, Unspoilt
        <5> QED BY <1>3, <5>1
      <4>2. CASE ~(c = slot /\ r \in batch)
        <5>1. r \in downloading[c] /\ left'[c][r] = left[c][r]
            BY <2>2, <3>1, <4>2
        <5> QED BY <3>1, <5>1 DEF Inv, Content, Unspoilt
      <4> QED BY <4>1, <4>2
    <3> QED BY <1>1, <1>2, <3>1 DEF Inv, Content, Unspoilt
  <2> QED BY <1>1, <2>3, <2>4, <2>5, <2>6, <2>7
      DEF Inv, InPlace, Placed, Work, Marks, HttpTasks, Content, Filled, StoredIsRight,
          NoFailureWithoutRetry, Whole
<1>5. CASE state[slot] # "active"
  <2>1. dropped' = dropped \cup batch /\ UNCHANGED <<downloading, left>>
      BY <1>5 DEF Send
  <2>2. Types'
      BY <1>1, <1>2, <1>3, <2>1 DEF Inv, Types, Sets, Scalars, ClientTypes, BufferTypes
  <2>3. Work'
      BY <1>1, <1>2, <2>1
      DEF Inv, Work, Marks, HttpTasks, HandlerWork, ClientWork, OwnedOnce, Tracked
  <2>4. Content'
      BY <1>1, <1>2, <2>1 DEF Inv, Content, Filled, Unspoilt, StoredIsRight, NoFailureWithoutRetry, Whole
  <2> QED BY <1>1, <2>2, <2>3, <2>4 DEF Inv, InPlace, Placed
<1> QED BY <1>4, <1>5

\* A request the scan takes is completed or crashed, never both.
LEMMA ScanKeeps ==
    ASSUME Inv, NEW r \in Requests, Scan(r)
    PROVE  Inv'
<1>1. /\ UNCHANGED <<fresh, checkerDied, pending, completed, crashed, attempts, got, right, retried>>
      /\ UNCHANGED <<state, downloading, current, left, httpQueue, httpRun, writing, stored, failed>>
      /\ UNCHANGED <<slot, opening, batch, dropped, mpc, snap, closed, doneHttp, losses>>
    BY DEF Scan, asking, fields, buffers, clients, http, main
<1>2. /\ hpc = "scan" /\ hpc' \in {"scan", "exit"} /\ r \in todo /\ todo' = todo \ {r}
      /\ ioQueue' = IF r \in completed THEN ioQueue \cup {r} ELSE ioQueue
      /\ requeue' = IF r \in crashed THEN requeue \cup {r} ELSE requeue
      /\ processing' = IF r \in completed \cup crashed THEN processing \ {r} ELSE processing
      /\ processingHttp' = IF r \in completed \cup crashed THEN processingHttp \ {r} ELSE processingHttp
    BY DEF Scan, At
<1>3. /\ r \in processing \cup processingHttp /\ todo \subseteq processing \cup processingHttp
      /\ ~(r \in completed /\ r \in crashed) /\ batch = {}
      /\ r \in completed \cup crashed =>
             r \notin httpQueue \cup httpRun /\ \A c \in Clients : r \notin downloading[c]
    BY <1>2 DEF Inv, Work, Marks, HttpTasks, HandlerWork, ClientWork, OwnedOnce
<1>4. Types'
    BY <1>1, <1>2 DEF Inv, Types, Sets, Scalars, ClientTypes, BufferTypes
<1>5. InPlace'
  <2>1. Placed(r)'
    <3>1. Placed(r)
        BY DEF Inv, InPlace
    <3> QED BY <1>1, <1>2, <1>3, <3>1 DEF Placed
  <2>2. ASSUME NEW q \in Requests, q # r PROVE Placed(q)'
    <3>1. Placed(q)
        BY DEF Inv, InPlace
    <3> QED BY <1>1, <1>2, <2>2, <3>1 DEF Placed
  <2> QED BY <2>1, <2>2 DEF InPlace
<1>6. Marks'
    BY <1>1, <1>2 DEF Inv, Work, Marks
<1>7. HttpTasks'
    BY <1>1, <1>2, <1>3 DEF Inv, Work, HttpTasks
<1>8. HandlerWork'
  <2>1. todo' \subseteq processing' \cup processingHttp'
      BY <1>2, <1>3
  <2> QED BY <1>1, <1>2, <1>3, <2>1 DEF HandlerWork
<1>9. ClientWork' /\ OwnedOnce'
    BY <1>1, <1>2, <1>3 DEF Inv, Work, ClientWork, OwnedOnce
<1>10. Tracked'
    BY <1>1, <1>2 DEF Inv, Work, Tracked
<1>11. Unspoilt'
  <2>1. ASSUME r \in crashed PROVE r \in retried \/ (got[r] = 0 /\ right[r])
      BY <1>3, <2>1 DEF Inv, Content, Unspoilt
  <2> QED BY <1>1, <1>2, <2>1 DEF Inv, Content, Unspoilt
<1>12. Filled' /\ StoredIsRight' /\ NoFailureWithoutRetry'
    BY <1>1 DEF Inv, Content, Filled, StoredIsRight, NoFailureWithoutRetry, Whole
<1> QED BY <1>4, <1>5, <1>6, <1>7, <1>8, <1>9, <1>10, <1>11, <1>12 DEF Inv, Work, Content

LEMMA RequeueKeeps ==
    ASSUME Inv, Requeue
    PROVE  Inv'
<1>1. /\ UNCHANGED <<fresh, checkerDied, processing, completed, got, right, retried>>
      /\ UNCHANGED <<state, downloading, current, left, httpRun, ioQueue, writing, stored, failed>>
      /\ UNCHANGED <<slot, opening, todo, batch, dropped, mpc, snap, closed, doneHttp, losses>>
    BY DEF Requeue, asking, buffers, clients, io, main
<1>2. /\ Request(requeue) /\ requeue' = {} /\ hpc = "requeue" /\ hpc' = "start"
      /\ ByHttp(requeue) \subseteq requeue /\ requeue \subseteq Requests /\ batch = {}
    BY DEF Requeue, ByHttp, At, Inv, Types, Sets, Work, HandlerWork
<1>3. Types'
    BY <1>1, <1>2, RequestTypes DEF Inv, Types, Sets, Scalars, ClientTypes, BufferTypes
<1>4. InPlace'
    BY <1>1, <1>2 DEF Inv, InPlace, Placed, Request
<1>5. Marks' /\ HttpTasks'
    BY <1>1, <1>2 DEF Inv, Types, Sets, InPlace, Placed, Work, Marks, HttpTasks, Request
<1>6. HandlerWork' /\ ClientWork' /\ OwnedOnce'
    BY <1>1, <1>2 DEF Inv, Work, HandlerWork, ClientWork, OwnedOnce, Request
<1>7. Tracked'
    BY <1>1, <1>2 DEF Inv, InPlace, Placed, Work, Tracked, Request
<1>8. Content'
    BY <1>1, <1>2 DEF Inv, Content, Filled, Unspoilt, StoredIsRight, NoFailureWithoutRetry, Request, Whole
<1> QED BY <1>3, <1>4, <1>5, <1>6, <1>7, <1>8 DEF Inv, Work

LEMMA HandlerKeeps == Inv /\ Handler => Inv'
    BY MovesKeep, ReplaceKeeps, DrainKeeps, SendKeeps, ScanKeeps, RequeueKeeps
    DEF Handler, Moves

----------------------------------------------------------------------------
(* Main.                                                                   *)

LEMMA SnapshotKeeps ==
    ASSUME Inv, Snapshot
    PROVE  Inv'
<1>1. /\ UNCHANGED <<fresh, checkerDied, pending, processing, processingHttp, requeue>>
      /\ UNCHANGED <<completed, crashed, attempts, got, right, retried, httpQueue, httpRun>>
      /\ UNCHANGED <<state, downloading, current, left, ioQueue, writing, stored, failed>>
      /\ UNCHANGED <<hpc, slot, opening, todo, batch, dropped, closed, doneHttp, losses>>
    BY DEF Snapshot, asking, handed, fields, buffers, clients, http, io, handler
<1>2. snap' \in [js5 : BOOLEAN, http : BOOLEAN, io : BOOLEAN] /\ mpc' = "act"
    BY DEF Snapshot
<1>3. Types'
    BY <1>1, <1>2 DEF Inv, Types, Sets, Scalars, ClientTypes, BufferTypes
<1>4. InPlace'
    BY <1>1 DEF Inv, InPlace, Placed
<1>5. Work'
    BY <1>1 DEF Inv, Work, Marks, HttpTasks, HandlerWork, ClientWork, OwnedOnce, Tracked
<1>6. Content'
    BY <1>1 DEF Inv, Content, Filled, Unspoilt, StoredIsRight, NoFailureWithoutRetry, Whole
<1> QED BY <1>3, <1>4, <1>5, <1>6 DEF Inv

\* Closing the pool takes every client's requests away and marks none of them.
LEMMA ActKeeps ==
    ASSUME Inv, Act
    PROVE  Inv'
<1>1. /\ UNCHANGED <<fresh, checkerDied, pending, processing, processingHttp, requeue>>
      /\ UNCHANGED <<completed, crashed, attempts, got, right, retried, httpRun>>
      /\ UNCHANGED <<ioQueue, writing, stored, failed>>
      /\ UNCHANGED <<hpc, slot, opening, todo, batch, dropped, losses>>
    BY DEF Act, asking, handed, fields, buffers, io, handler
<1>2. Scalars'
  <2>1. snap' \in [js5 : BOOLEAN, http : BOOLEAN, io : BOOLEAN]
      BY DEF Act, NoSnapshot
  <2>2. mpc' \in {"watch", "act", "exit"}
      BY DEF Act
  <2>3. closed' \in BOOLEAN
      BY DEF Act
  <2>4. doneHttp' \in BOOLEAN
      BY DEF Act
  <2> QED BY <1>1, <2>1, <2>2, <2>3, <2>4 DEF Inv, Types, Scalars
<1>3. Sets' /\ BufferTypes'
  <2>1. httpQueue' \subseteq httpQueue
      BY DEF Act, http
  <2> QED BY <1>1, <2>1 DEF Inv, Types, Sets, BufferTypes
<1>4. CASE UNCHANGED <<clients, httpQueue>> /\ closed' = closed
  <2>1. UNCHANGED <<state, downloading, current, left, httpQueue, closed>>
      BY <1>4 DEF clients
  <2>2. ClientTypes'
      BY <2>1 DEF Inv, Types, ClientTypes
  <2>3. Work'
      BY <1>1, <2>1 DEF Inv, Work, Marks, HttpTasks, HandlerWork, ClientWork, OwnedOnce, Tracked
  <2>4. Content'
      BY <1>1, <2>1 DEF Inv, Content, Filled, Unspoilt, StoredIsRight, NoFailureWithoutRetry, Whole
  <2> QED BY <1>1, <1>2, <1>3, <2>2, <2>3, <2>4 DEF Inv, Types, InPlace, Placed
<1>5. CASE closed' /\ ~closed
  <2>1. /\ state' = [c \in Clients |-> "none"] /\ downloading' = [c \in Clients |-> {}]
        /\ current' = [c \in Clients |-> NoRequest] /\ left' = [c \in Clients |-> NothingLeft]
        /\ httpQueue' = {}
      BY <1>5 DEF Act
  <2>2. NothingLeft \in [Requests -> Nat] /\ \A r \in Requests : NothingLeft[r] <= Blocks[r]
      BY BlocksAssumption DEF NothingLeft
  <2>3. ClientTypes'
      BY <2>1, <2>2 DEF ClientTypes
  <2>4. Work'
      BY <1>1, <1>5, <2>1 DEF Inv, Work, Marks, HttpTasks, HandlerWork, ClientWork, OwnedOnce, Tracked
  <2>5. Content'
      BY <1>1, <2>1 DEF Inv, Content, Filled, Unspoilt, StoredIsRight, NoFailureWithoutRetry, Whole
  <2> QED BY <1>1, <1>2, <1>3, <2>3, <2>4, <2>5 DEF Inv, Types, InPlace, Placed
<1>6. (closed' /\ ~closed) \/ (UNCHANGED <<clients, httpQueue>> /\ closed' = closed)
    BY DEF Act, Inv, Types, Scalars
<1> QED BY <1>4, <1>5, <1>6

LEMMA MainKeeps == Inv /\ Main => Inv'
    BY SnapshotKeeps, ActKeeps DEF Main

----------------------------------------------------------------------------
(* The theorems.                                                           *)

LEMMA InitInv == Init => Inv
<1> SUFFICES ASSUME Init PROVE Inv
    OBVIOUS
<1>1. /\ 1 \in 1..(NumClients + 1) /\ 0 \in 0..MaxLosses /\ 0 \in 0..MaxHttpAttempts
      /\ Blocks \in [Requests -> Nat] /\ \A r \in Requests : Blocks[r] > 0
      /\ NothingLeft \in [Requests -> Nat] /\ \A r \in Requests : NothingLeft[r] <= Blocks[r]
    BY BlocksAssumption, PoolAssumption DEF NothingLeft
<1>2. Sets /\ Scalars
    BY <1>1 DEF Init, Sets, Scalars, NoSnapshot
<1>3. ClientTypes
    BY <1>1 DEF Init, ClientTypes
<1>4. BufferTypes
    BY <1>1 DEF Init, BufferTypes
<1>5. InPlace
    BY DEF Init, InPlace, Placed
<1>6. Work
    BY DEF Init, Work, Marks, HttpTasks, HandlerWork, ClientWork, OwnedOnce, Tracked
<1>7. Content
    BY <1>1 DEF Init, Content, Filled, Unspoilt, StoredIsRight, NoFailureWithoutRetry
<1> QED BY <1>2, <1>3, <1>4, <1>5, <1>6, <1>7 DEF Inv, Types

LEMMA NextInv == Inv /\ [Next]_vars => Inv'
<1> SUFFICES ASSUME Inv, [Next]_vars PROVE Inv'
    OBVIOUS
<1>1. CASE Checkers
    BY <1>1, AskKeeps, AskClosedKeeps DEF Checkers
<1>2. CASE Handler
    BY <1>2, HandlerKeeps
<1>3. CASE \E c \in Clients : ClientStep(c)
    BY <1>3, ClientKeeps
<1>4. CASE Http
    BY <1>4, HttpStartKeeps, HttpDoneKeeps, HttpFailsKeeps DEF Http
<1>5. CASE Io
    BY <1>5, IoKeeps DEF Io
<1>6. CASE Main
    BY <1>6, MainKeeps
<1>7. CASE UNCHANGED vars
  <2>1. /\ UNCHANGED <<fresh, checkerDied, pending, processing, processingHttp, requeue>>
        /\ UNCHANGED <<completed, crashed, attempts, got, right, retried, httpQueue, httpRun>>
        /\ UNCHANGED <<state, downloading, current, left, ioQueue, writing, stored, failed>>
        /\ UNCHANGED <<hpc, slot, opening, todo, batch, dropped>>
        /\ UNCHANGED <<mpc, snap, closed, doneHttp, losses>>
      BY <1>7 DEF vars, asking, handed, fields, buffers, clients, http, io, handler, main
  <2>2. Types' /\ InPlace'
      BY <2>1 DEF Inv, Types, Sets, Scalars, ClientTypes, BufferTypes, InPlace, Placed
  <2>3. Work' /\ Content'
      BY <2>1 DEF Inv, Work, Marks, HttpTasks, HandlerWork, ClientWork, OwnedOnce, Tracked,
                  Content, Filled, Unspoilt, StoredIsRight, NoFailureWithoutRetry, Whole
  <2> QED BY <2>2, <2>3 DEF Inv
<1> QED BY <1>1, <1>2, <1>3, <1>4, <1>5, <1>6, <1>7 DEF Next

\* The threads of the downloader keep the invariant in any interleaving, with any loss of
\* connections, any failure of HTTP downloads and any moment at which main closes the pool.
THEOREM Invariant == Spec => []IInv
<1>1. Spec => []Inv
    BY InitInv, NextInv, PTL DEF Spec
<1> QED BY <1>1, InvIsIInv, PTL

\* run(), the pool and the I/O workers: every archive asked for is in one place, waited for
\* by one client at most, never completed and crashed, and none is forgotten.
THEOREM BooksBalance == Spec => []Accounted
<1>1. IInv => Accounted
    BY DEF IInv
<1> QED BY Invariant, <1>1, PTL

\* writeCompletedRequest: nothing but the archive gets into the cache.
THEOREM OnlyRightIsStored == Spec => []StoredIsRight
<1>1. IInv => StoredIsRight
    BY DEF IInv
<1> QED BY Invariant, <1>1, PTL

\* Js5ClientPipeline: the checksum refuses only archives whose request was retried with
\* the blocks of an earlier connection in its buffer.
THEOREM FailuresAreRetries == Spec => []NoFailureWithoutRetry
<1>1. IInv => NoFailureWithoutRetry
    BY DEF IInv
<1> QED BY Invariant, <1>1, PTL
=============================================================================
