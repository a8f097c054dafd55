---------------------------- MODULE CacheDownloader ----------------------------
(***************************************************************************)
(* The bulk phase of the cache downloader.  Its threads:                   *)
(*   - the checkers ask the request handler for the archives of an index;  *)
(*   - the request handler (Js5RequestHandler.run) replaces dead JS5       *)
(*     clients, hands pending requests to clients, collects the completed  *)
(*     and the crashed ones, and requests the crashed ones again;          *)
(*   - each client's event loop reads blocks into the requests' buffers;   *)
(*   - the HTTP executor downloads archives of index 40;                   *)
(*   - the I/O workers write completed requests to the cache;              *)
(*   - main watches a snapshot of the handler and closes the pool.         *)
(* The handler's lock is held in the steps "assign", "send" and "scan".    *)
(*                                                                         *)
(* A response is a number of blocks.  Not modelled: the content of blocks, *)
(* prefetch tables, bytes left in a connection that happen to name a       *)
(* requested archive.  The server answers each request of a client once,   *)
(* blocks of different answers in any order; HTTP data is right.           *)
(***************************************************************************)
EXTENDS Naturals, FiniteSets

CONSTANTS
    Requests,         \* the ArchiveRequests
    NoRequest,
    Index,            \* the index of each; index 40 is fetched over HTTP
    Blocks,           \* the blocks of each one's response
    NumClients,       \* slots of the pool
    Room,             \* requests a client may have, 500 in the code
    MaxHttpAttempts,
    MaxLosses         \* bound on connections lost or timed out

ASSUME RequestsAssumption == IsFiniteSet(Requests) /\ NoRequest \notin Requests
ASSUME IndexAssumption == Index \in [Requests -> Nat]
ASSUME BlocksAssumption == Blocks \in [Requests -> Nat \ {0}]
ASSUME PoolAssumption ==
    /\ NumClients \in Nat \ {0} /\ Room \in Nat \ {0}
    /\ MaxHttpAttempts \in Nat /\ MaxLosses \in Nat

VARIABLES
    fresh,           \* archives the checkers have not asked for yet
    checkerDied,     \* the checker of index 40 has thrown
    pending, processing, processingHttp,
    requeue,         \* run()'s local set of crashed requests
    completed, crashed, attempts,   \* fields of the requests
    got, right,      \* blocks in the buffer; they are the archive's, in order
    retried,         \* requests that have crashed
    state,           \* slot: "none", "handshake", "active" or "closed"
    downloading,     \* slot: the requests its client waits for
    current,         \* slot: the request whose block is being read
    left,            \* slot: blocks the server has yet to send
    httpQueue, httpRun,             \* the HTTP executor
    ioQueue, writing, stored, failed,   \* the I/O workers
    hpc, slot, opening, todo, batch,    \* the request handler
    dropped,         \* requests that addAllUnchecked dropped
    mpc, snap, closed, doneHttp,    \* main
    losses           \* connections lost or timed out so far

asking   == <<fresh, checkerDied>>
handed   == <<pending, processing, processingHttp, requeue>>
fields   == <<completed, crashed, attempts>>
buffers  == <<got, right>>
clients  == <<state, downloading, current, left>>
http     == <<httpQueue, httpRun>>
io       == <<ioQueue, writing, stored, failed>>
handler  == <<hpc, slot, opening, todo, batch, dropped>>
main     == <<mpc, snap, closed, doneHttp>>
vars == <<asking, handed, fields, buffers, retried, clients, http, io, handler,
          main, losses>>
-----------------------------------------------------------------------------
Clients == 1..NumClients

Music == {r \in Requests : Index[r] = 40}

NothingLeft == [r \in Requests |-> 0]

NoSnapshot == [js5 |-> FALSE, http |-> FALSE, io |-> FALSE]

Init ==
    /\ fresh = Requests /\ checkerDied = FALSE
    /\ pending = {} /\ processing = {} /\ processingHttp = {} /\ requeue = {}
    /\ completed = {} /\ crashed = {} /\ attempts = [r \in Requests |-> 0]
    /\ got = [r \in Requests |-> 0] /\ right = [r \in Requests |-> TRUE]
    /\ retried = {}
    /\ state = [c \in Clients |-> IF c = 1 THEN "active" ELSE "none"]
    /\ downloading = [c \in Clients |-> {}]
    /\ current = [c \in Clients |-> NoRequest]
    /\ left = [c \in Clients |-> NothingLeft]
    /\ httpQueue = {} /\ httpRun = {}
    /\ ioQueue = {} /\ writing = {} /\ stored = {} /\ failed = {}
    /\ hpc = "start" /\ slot = 1 /\ opening = FALSE /\ todo = {} /\ batch = {} /\ dropped = {}
    /\ mpc = "watch" /\ snap = NoSnapshot
    /\ closed = FALSE /\ doneHttp = FALSE
    /\ losses = 0

\* exitProcess has been called.
Exited == hpc = "exit" \/ mpc = "exit"

At(place) == hpc = place /\ ~Exited

LockFree == hpc \notin {"assign", "send", "scan"}

\* The lock of a client is held from counting its room to sending the batch.
ClientLocked(c) == hpc = "send" /\ slot = c

-----------------------------------------------------------------------------
(* Asking for archives.                                                    *)

\* shouldUseHttp
ByHttp(S) == {r \in S \cap Music : attempts[r] < MaxHttpAttempts}

\* Js5RequestHandler.request, with an open pool or nothing to fetch by HTTP.
Request(S) ==
    /\ crashed' = crashed \ S
    /\ pending' = pending \cup (S \ ByHttp(S))
    /\ processingHttp' = processingHttp \cup ByHttp(S)
    /\ httpQueue' = httpQueue \cup ByHttp(S)
    /\ attempts' = [r \in Requests |->
                      IF r \in ByHttp(S) THEN attempts[r] + 1 ELSE attempts[r]]

\* A checker asks for a batch of archives of its index.
Ask(S) ==
    /\ ~Exited /\ S # {} /\ \E n \in {Index[r] : r \in S} : \A r \in S : Index[r] = n
    /\ LockFree /\ (ByHttp(S) = {} \/ ~closed) /\ ~(checkerDied /\ S \subseteq Music)
    /\ fresh' = fresh \ S
    /\ Request(S)
    /\ UNCHANGED <<checkerDied, processing, requeue, completed, buffers, retried, clients,
                   httpRun, io, handler, main, losses>>

\* The first request for HTTP that meets a closed pool is already counted as
\* processing when addHttpRequest throws; the exception ends its checker.
AskClosed(r) ==
    /\ ~Exited /\ r \in ByHttp(fresh) /\ closed /\ ~checkerDied /\ LockFree
    /\ fresh' = fresh \ {r} /\ checkerDied' = TRUE
    /\ processingHttp' = processingHttp \cup {r}
    /\ UNCHANGED <<pending, processing, requeue, fields, buffers, retried, clients, http,
                   io, handler, main, losses>>

-----------------------------------------------------------------------------
(* The clients' event loops.                                               *)

Connect(c) ==
    /\ state[c] = "handshake"
    /\ state' = [state EXCEPT ![c] = "active"]
    /\ UNCHANGED <<downloading, current, left, completed, buffers, losses>>

Lose(c) ==
    /\ state[c] \in {"handshake", "active"} /\ losses < MaxLosses
    /\ state' = [state EXCEPT ![c] = "closed"] /\ losses' = losses + 1
    /\ UNCHANGED <<downloading, current, left, completed, buffers>>

\* A block's header names a request.  One the client does not wait for (its
\* buffer was filled by blocks of an earlier connection) crashes the client.
ReadHeader(c, r) ==
    /\ state[c] = "active" /\ current[c] = NoRequest /\ left[c][r] > 0 /\ ~ClientLocked(c)
    /\ IF r \in downloading[c]
         THEN current' = [current EXCEPT ![c] = r] /\ UNCHANGED state
         ELSE state' = [state EXCEPT ![c] = "closed"] /\ UNCHANGED current
    /\ UNCHANGED <<downloading, left, completed, buffers, losses>>

\* Mutant: a response counts as complete one block early.
ReadBlockEarly(c) ==
    /\ state[c] = "active" /\ current[c] # NoRequest /\ ~ClientLocked(c)
    /\ LET r == current[c]
           complete == got[r] + 2 >= Blocks[r]
       IN  /\ left' = [left EXCEPT ![c][r] = @ - 1]
           /\ got' = [got EXCEPT ![r] = @ + 1]
           /\ right' = [right EXCEPT ![r] = @ /\ got[r] = Blocks[r] - left[c][r]]
           /\ completed' = IF complete THEN completed \cup {r} ELSE completed
           /\ downloading' = IF complete THEN [downloading EXCEPT ![c] = @ \ {r}]
                                         ELSE downloading
    /\ current' = [current EXCEPT ![c] = NoRequest]
    /\ UNCHANGED <<state, losses>>

\* The block is added to whatever the request's buffer holds; a full buffer
\* completes the request.
ReadBlock(c) ==
    /\ state[c] = "active" /\ current[c] # NoRequest /\ ~ClientLocked(c)
    /\ LET r == current[c]
           complete == got[r] + 1 = Blocks[r]
       IN  /\ left' = [left EXCEPT ![c][r] = @ - 1]
           /\ got' = [got EXCEPT ![r] = @ + 1]
           /\ right' = [right EXCEPT ![r] = @ /\ got[r] = Blocks[r] - left[c][r]]
           /\ completed' = IF complete THEN completed \cup {r} ELSE completed
           /\ downloading' = IF complete THEN [downloading EXCEPT ![c] = @ \ {r}]
                                         ELSE downloading
    /\ current' = [current EXCEPT ![c] = NoRequest]
    /\ UNCHANGED <<state, losses>>

ClientStep(c) ==
    /\ ~Exited
    /\ Connect(c) \/ Lose(c) \/ (\E r \in Requests : ReadHeader(c, r)) \/ ReadBlock(c)
    /\ UNCHANGED <<asking, handed, crashed, attempts, retried, http, io, handler, main>>

-----------------------------------------------------------------------------
(* The HTTP executor and the I/O workers.                                  *)

HttpStart(r) ==
    /\ ~Exited /\ r \in httpQueue
    /\ httpQueue' = httpQueue \ {r} /\ httpRun' = httpRun \cup {r}
    /\ UNCHANGED <<asking, handed, fields, buffers, retried, clients, io, handler, main, losses>>

HttpDone(r) ==
    /\ ~Exited /\ r \in httpRun
    /\ httpRun' = httpRun \ {r}
    /\ got' = [got EXCEPT ![r] = Blocks[r]] /\ right' = [right EXCEPT ![r] = TRUE]
    /\ completed' = completed \cup {r}
    /\ UNCHANGED <<asking, handed, crashed, attempts, retried, clients, httpQueue,
                   io, handler, main, losses>>

HttpFails(r) ==
    /\ ~Exited /\ r \in httpRun
    /\ httpRun' = httpRun \ {r}
    /\ crashed' = crashed \cup {r}
    /\ UNCHANGED <<asking, handed, completed, attempts, buffers, retried, clients,
                   httpQueue, io, handler, main, losses>>

StartWrite(r) ==
    /\ ~Exited /\ r \in ioQueue
    /\ ioQueue' = ioQueue \ {r} /\ writing' = writing \cup {r}
    /\ UNCHANGED <<asking, handed, fields, buffers, retried, clients, http, stored,
                   failed, handler, main, losses>>

\* Mutant: the checksum is not compared.
WriteUnchecked(r) ==
    /\ ~Exited /\ r \in writing
    /\ writing' = writing \ {r}
    /\ stored' = stored \cup {r}
    /\ UNCHANGED <<asking, handed, fields, buffers, retried, clients, http, ioQueue,
                   failed, handler, main, losses>>

\* The buffer holds the archive.
Whole(r) == got[r] = Blocks[r] /\ right[r]

\* writeCompletedRequest: an archive with another checksum is not written, and
\* the exception goes to a future nobody looks at.
Write(r) ==
    /\ ~Exited /\ r \in writing
    /\ writing' = writing \ {r}
    /\ IF Whole(r) THEN stored' = stored \cup {r} /\ UNCHANGED failed
                   ELSE failed' = failed \cup {r} /\ UNCHANGED stored
    /\ UNCHANGED <<asking, handed, fields, buffers, retried, clients, http, ioQueue,
                   handler, main, losses>>

-----------------------------------------------------------------------------
(* The request handler: healthCheck.                                       *)

TakeDown(c) ==
    /\ state' = [state EXCEPT ![c] = "none"]
    /\ downloading' = [downloading EXCEPT ![c] = {}]
    /\ current' = [current EXCEPT ![c] = NoRequest]
    /\ left' = [left EXCEPT ![c] = NothingLeft]

\* A closed pool is only noticed here: later on its slots are just empty.
StartHealth ==
    /\ At("start")
    /\ hpc' = IF closed THEN "lock" ELSE "health"
    /\ slot' = 1 /\ opening' = FALSE
    /\ UNCHANGED <<asking, handed, fields, buffers, retried, clients, http, io, todo,
                   batch, dropped, main, losses>>

Healthy ==
    /\ At("health") /\ slot <= NumClients /\ state[slot] # "closed"
    /\ slot' = slot + 1 /\ opening' = (opening \/ state[slot] = "none")
    /\ UNCHANGED <<asking, handed, fields, buffers, retried, clients, http, io, hpc,
                   todo, batch, dropped, main, losses>>

\* Mutant: the requests are marked before the channel is closed.
ReplaceMarkingFirst ==
    /\ At("health") /\ slot <= NumClients
    /\ state[slot] = "active" /\ losses < MaxLosses
    /\ losses' = losses + 1
    /\ crashed' = crashed \cup downloading[slot]
    /\ retried' = retried \cup downloading[slot]
    /\ slot' = slot + 1 /\ opening' = TRUE
    /\ UNCHANGED <<asking, handed, completed, attempts, buffers, clients, http, io,
                   hpc, todo, batch, dropped, main>>

\* Mutant: markAsCrashed is forgotten.
ReplaceSilently ==
    /\ At("health") /\ slot <= NumClients
    /\ \/ state[slot] = "closed" /\ UNCHANGED losses
       \/ state[slot] \in {"handshake", "active"} /\ losses < MaxLosses /\ losses' = losses + 1
    /\ TakeDown(slot)
    /\ slot' = slot + 1 /\ opening' = TRUE
    /\ UNCHANGED <<asking, handed, fields, buffers, retried, http, io, hpc, todo,
                   batch, dropped, main>>

\* A client that is closed or has not read for 30 seconds: its channel is
\* closed, then its requests are marked and the slot is emptied.
Replace ==
    /\ At("health") /\ slot <= NumClients
    /\ \/ state[slot] = "closed" /\ UNCHANGED losses
       \/ state[slot] \in {"handshake", "active"} /\ losses < MaxLosses /\ losses' = losses + 1
    /\ crashed' = crashed \cup downloading[slot]
    /\ retried' = retried \cup downloading[slot]
    /\ TakeDown(slot)
    /\ slot' = slot + 1 /\ opening' = TRUE
    /\ UNCHANGED <<asking, handed, completed, attempts, buffers, http, io, hpc, todo,
                   batch, dropped, main>>

EndHealth ==
    /\ At("health") /\ slot > NumClients
    /\ hpc' = IF opening THEN "open" ELSE "lock"
    /\ slot' = 1 /\ opening' = FALSE
    /\ UNCHANGED <<asking, handed, fields, buffers, retried, clients, http, io, todo,
                   batch, dropped, main, losses>>

\* openConnections fills the first empty slot; ...
Open ==
    /\ At("open") /\ ~closed
    /\ \E c \in Clients :
          /\ state[c] = "none" /\ \A d \in 1..(c - 1) : state[d] # "none"
          /\ state' = [state EXCEPT ![c] = "handshake"]
          /\ hpc' = IF \A d \in Clients \ {c} : state[d] # "none" THEN "lock" ELSE "open"
    /\ UNCHANGED <<asking, handed, fields, buffers, retried, downloading, current, left,
                   http, io, slot, opening, todo, batch, dropped, main, losses>>

\* ... an exception in run() ends the program: a refused connection, or
\* "Pool is closed!".
Quit ==
    /\ hpc' = "exit"
    /\ UNCHANGED <<asking, handed, fields, buffers, retried, clients, http, io, slot, opening,
                   todo, batch, dropped, main, losses>>

OpenFails == At("open") /\ (closed \/ losses < MaxLosses) /\ Quit

-----------------------------------------------------------------------------
(* The request handler: addRequestsFromIterator.                           *)

TakeLock ==
    /\ At("lock") /\ (pending = {} \/ ~closed)
    /\ hpc' = "assign" /\ todo' = pending
    /\ UNCHANGED <<asking, handed, fields, buffers, retried, clients, http, io, slot, opening,
                   batch, dropped, main, losses>>

AssignClosed == At("lock") /\ pending # {} /\ closed /\ Quit

\* countAllowedRequests; a client never has more than Room requests.
Able(c) == IF state[c] = "active" THEN Room - Cardinality(downloading[c]) ELSE 0

\* drainBatchFromIterator: as many requests of one index as the first client
\* with room takes, in no particular order; they are processing from here on.
Drain(c, B) ==
    /\ At("assign") /\ B # {}
    /\ Able(c) > 0 /\ \A d \in 1..(c - 1) : Able(d) = 0
    /\ \E r \in B : LET same == {q \in todo : Index[q] = Index[r]}
                    IN  /\ B \subseteq same
                        /\ Cardinality(B) = IF Able(c) <= Cardinality(same)
                                              THEN Able(c) ELSE Cardinality(same)
    /\ pending' = pending \ B /\ processing' = processing \cup B
    /\ todo' = todo \ B /\ batch' = B /\ slot' = c /\ hpc' = "send"
    /\ UNCHANGED <<asking, processingHttp, requeue, fields, buffers, retried, clients,
                   http, io, opening, dropped, main, losses>>

\* No client has room for this one: it stays pending.
PassOver(r) ==
    /\ At("assign") /\ r \in todo /\ \A c \in Clients : Able(c) = 0
    /\ todo' = todo \ {r}
    /\ UNCHANGED <<asking, handed, fields, buffers, retried, clients, http, io, hpc,
                   slot, opening, batch, dropped, main, losses>>

\* addAllUnchecked: returns at once if the channel has closed since.
Send ==
    /\ At("send")
    /\ IF state[slot] = "active"
         THEN /\ downloading' = [downloading EXCEPT ![slot] = @ \cup batch]
              /\ left' = [left EXCEPT ![slot] =
                            [r \in Requests |-> IF r \in batch THEN Blocks[r] ELSE @[r]]]
              /\ UNCHANGED dropped
         ELSE dropped' = dropped \cup batch /\ UNCHANGED <<downloading, left>>
    /\ hpc' = "assign" /\ batch' = {} /\ slot' = 1
    /\ UNCHANGED <<asking, handed, fields, buffers, retried, state, current, http, io,
                   opening, todo, main, losses>>

EndAssign ==
    /\ At("assign") /\ todo = {}
    /\ hpc' = "scan" /\ todo' = processing \cup processingHttp
    /\ UNCHANGED <<asking, handed, fields, buffers, retried, clients, http, io, slot, opening,
                   batch, dropped, main, losses>>

-----------------------------------------------------------------------------
(* The request handler: collecting.                                        *)

\* A completed request goes to an I/O worker, a crashed one to the local set;
\* one that is both is removed twice, and the second removal throws.
Scan(r) ==
    /\ At("scan") /\ r \in todo
    /\ todo' = todo \ {r}
    /\ hpc' = IF r \in completed \cap crashed THEN "exit" ELSE "scan"
    /\ ioQueue' = IF r \in completed THEN ioQueue \cup {r} ELSE ioQueue
    /\ requeue' = IF r \in crashed THEN requeue \cup {r} ELSE requeue
    /\ IF r \in completed \cup crashed
         THEN processing' = processing \ {r} /\ processingHttp' = processingHttp \ {r}
         ELSE UNCHANGED <<processing, processingHttp>>
    /\ UNCHANGED <<asking, pending, fields, buffers, retried, clients, http, writing,
                   stored, failed, slot, opening, batch, dropped, main, losses>>

EndScan ==
    /\ At("scan") /\ todo = {}
    /\ hpc' = IF requeue = {} THEN "start" ELSE "requeue"
    /\ UNCHANGED <<asking, handed, fields, buffers, retried, clients, http, io, slot, opening,
                   todo, batch, dropped, main, losses>>

\* The crashed requests are requested again; their buffers stay as they are.
Requeue ==
    /\ At("requeue") /\ (ByHttp(requeue) = {} \/ ~closed)
    /\ Request(requeue)
    /\ requeue' = {} /\ hpc' = "start"
    /\ UNCHANGED <<asking, processing, completed, buffers, retried, clients, httpRun,
                   io, slot, opening, todo, batch, dropped, main, losses>>

RequeueClosed == At("requeue") /\ ByHttp(requeue) # {} /\ closed /\ Quit

-----------------------------------------------------------------------------
(* Main.                                                                   *)

\* createSnapshot
Snapshot ==
    /\ ~Exited /\ mpc = "watch" /\ LockFree
    /\ snap' = [js5 |-> pending = {} /\ processing = {},
                http |-> processingHttp = {},
                io |-> ioQueue = {}]
    /\ mpc' = "act"
    /\ UNCHANGED <<asking, handed, fields, buffers, retried, clients, http, io, handler,
                   closed, doneHttp, losses>>

\* What main does with it: once the checkers are done and the snapshot shows
\* no JS5 request it closes the pool (connections and HTTP executor), and it
\* exits when HTTP and I/O are done as well.
Act ==
    /\ ~Exited /\ mpc = "act"
    /\ closed' = (closed \/ (fresh \subseteq Music /\ snap.js5))
    /\ doneHttp' = (doneHttp \/ (closed' /\ fresh \cap Music = {} /\ ~checkerDied /\ snap.http))
    /\ mpc' = IF closed' /\ doneHttp' /\ snap.io THEN "exit" ELSE "watch"
    /\ IF closed' /\ ~closed
         THEN /\ state' = [c \in Clients |-> "none"]
              /\ downloading' = [c \in Clients |-> {}]
              /\ current' = [c \in Clients |-> NoRequest]
              /\ left' = [c \in Clients |-> NothingLeft]
              /\ httpQueue' = {}
         ELSE UNCHANGED <<clients, httpQueue>>
    /\ snap' = NoSnapshot
    /\ UNCHANGED <<asking, handed, fields, buffers, retried, httpRun, io, handler, losses>>

-----------------------------------------------------------------------------
Handler ==
    \/ StartHealth \/ Healthy \/ Replace \/ EndHealth \/ Open \/ OpenFails
    \/ TakeLock \/ AssignClosed \/ Send \/ EndAssign \/ EndScan
    \/ Requeue \/ RequeueClosed
    \/ \E c \in Clients, B \in SUBSET todo : Drain(c, B)
    \/ \E r \in Requests : PassOver(r) \/ Scan(r)

Http == \E r \in Requests : HttpStart(r) \/ HttpDone(r) \/ HttpFails(r)

Io == \E r \in Requests : StartWrite(r) \/ Write(r)

Checkers == (\E S \in SUBSET fresh : Ask(S)) \/ (\E r \in Requests : AskClosed(r))

Main == Snapshot \/ Act

Next == Checkers \/ Handler \/ (\E c \in Clients : ClientStep(c)) \/ Http \/ Io \/ Main

\* Every thread goes on, and a server that is connected goes on sending what
\* was asked of it.
Fairness ==
    /\ WF_vars(Handler) /\ WF_vars(Main)
    /\ WF_vars(Http) /\ WF_vars(Io)
    /\ \A c \in Clients : WF_vars(ClientStep(c))

Spec == Init /\ [][Next]_vars /\ Fairness
-----------------------------------------------------------------------------
(* Properties.                                                             *)

\* Every variable has its type; a buffer never takes more blocks than the
\* archive has (decode, Js5ClientPipeline.kt:122-134).
TypeOK ==
    /\ \A S \in {fresh, pending, processing, processingHttp, requeue, completed, crashed,
                 retried, httpQueue, httpRun, ioQueue, writing, stored, failed, todo,
                 batch, dropped} : S \subseteq Requests
    /\ checkerDied \in BOOLEAN /\ closed \in BOOLEAN /\ doneHttp \in BOOLEAN
    /\ opening \in BOOLEAN /\ snap \in [js5 : BOOLEAN, http : BOOLEAN, io : BOOLEAN]
    /\ attempts \in [Requests -> 0..MaxHttpAttempts]
    /\ \A r \in Requests : got[r] \in 0..Blocks[r]
    /\ right \in [Requests -> BOOLEAN]
    /\ state \in [Clients -> {"none", "handshake", "active", "closed"}]
    /\ downloading \in [Clients -> SUBSET Requests]
    /\ current \in [Clients -> Requests \cup {NoRequest}]
    /\ \A c \in Clients, r \in Requests : left[c][r] \in 0..Blocks[r]
    /\ hpc \in {"start", "health", "open", "lock", "assign", "send", "scan", "requeue", "exit"}
    /\ slot \in 1..(NumClients + 1) /\ mpc \in {"watch", "act", "exit"}
    /\ losses \in 0..MaxLosses

\* A request that was asked for is in exactly one of the program's sets: the
\* moves between pending, processing, the local set and the I/O queues neither
\* lose nor double one (Js5RequestHandler.kt:122-191).
Places == <<fresh, pending, processing, processingHttp, requeue, ioQueue, writing, stored, failed>>

OnePlace ==
    \A r \in Requests : \E i \in DOMAIN Places : \A j \in DOMAIN Places : r \in Places[j] <=> j = i

\* No request is completed and crashed when the handler collects, although
\* marking and completing happen on different threads: run() never removes an
\* element twice, which would end the program (Js5RequestHandler.kt:157-165).
NeverBoth == (processing \cup processingHttp) \cap completed \cap crashed = {}

\* At most one client waits for a request, and then the request is processing
\* and not completed: an answer goes to one place, also when its client was
\* replaced meanwhile (Js5ClientPool.kt:102-110, 210-228).
OwnedOnce ==
    /\ \A c \in Clients : downloading[c] \subseteq processing \ completed
    /\ \A c, d \in Clients : c # d => downloading[c] \cap downloading[d] = {}

\* While the pool is open, a processing request is completed, crashed, waited
\* for by a client, being sent, or one that addAllUnchecked dropped: none is
\* forgotten when a client is replaced (markAsCrashed, Js5Client.kt:28-33).
Tracked ==
    ~closed => processing \subseteq completed \cup crashed \cup batch \cup dropped
                                    \cup UNION {downloading[c] : c \in Clients}

\* The books of the pool and the request handler: every archive asked for is in one
\* place, waited for by one client at most and forgotten by none, and never both
\* completed and crashed (Js5RequestHandler.kt:122-191, Js5ClientPool.kt:102-228).
Accounted == TypeOK /\ OnePlace /\ NeverBoth /\ OwnedOnce /\ Tracked

\* Only the archive itself is written to the cache, whatever old blocks the
\* retries left in the buffer (writeCompletedRequest, AsyncFilesystemAccessor.kt:30-46).
StoredIsRight == \A r \in stored : Whole(r)

\* A download whose client never crashed is not refused by the checksum:
\* failures come only from buffers kept by retries (Js5ClientPipeline.kt:95-147).
NoFailureWithoutRetry == failed \subseteq retried

\* Each archive asked for is stored or refused by the checksum, unless the
\* request was dropped on a closed channel, the pool is closed or the program
\* ends (Js5RequestHandler.run).
Settles ==
    \A r \in Requests :
        r \notin fresh ~> (r \in stored \cup failed \cup dropped \/ closed \/ Exited)

(* What a log message says, and the code does not keep.                    *)

\* "All http operations are done, preparing to shutdown" (CacheDownloader.kt:347)
\* is awaited after the pool is closed: an HTTP request still has a task then.
HttpOutlivesPool == processingHttp \subseteq completed \cup crashed \cup httpQueue \cup httpRun

-----------------------------------------------------------------------------
(* What the properties rest on: an inductive invariant.                    *)

BuffersType == got \in [Requests -> Nat] /\ left \in [Clients -> [Requests -> Nat]]

\* A request is completed when its buffer is full, and only then.
Filled == \A r \in Requests : r \in completed <=> got[r] = Blocks[r]

\* Which marks a request has in which place.
Marks ==
    /\ completed \cap crashed = {}
    /\ (fresh \cup pending) \cap (completed \cup crashed) = {}
    /\ requeue \subseteq crashed
    /\ ioQueue \cup writing \cup stored \cup failed \subseteq completed

\* A task of the HTTP executor is for a request that still waits for it.
HttpTasks ==
    /\ httpQueue \cap httpRun = {}
    /\ httpQueue \cup httpRun \subseteq processingHttp \ (completed \cup crashed)

\* What the handler goes through, and the batch it is about to send.
HandlerWork ==
    /\ hpc \in {"assign", "send"} => todo \subseteq pending
    /\ hpc = "scan" => todo \subseteq processing \cup processingHttp
    /\ hpc = "send" => slot \in Clients
    /\ hpc # "send" => batch = {}
    /\ batch \subseteq processing \ (completed \cup crashed)
    /\ \A c \in Clients : batch \cap downloading[c] = {}

\* A client waits for no crashed request, and reads a block of one it waits for.
ClientWork ==
    \A c \in Clients :
        /\ downloading[c] \cap crashed = {}
        /\ current[c] # NoRequest => current[c] \in downloading[c] /\ left[c][current[c]] > 0

\* The buffer of a request that was never retried holds the first blocks of its answer:
\* the rest is what the server has yet to send.
Unspoilt ==
    \A r \in Requests \ retried :
        /\ r \in fresh \cup pending \cup requeue \cup batch \cup (processingHttp \ completed)
              => got[r] = 0 /\ right[r]
        /\ r \in completed => right[r]
        /\ r \in processing => r \notin crashed
        /\ \A c \in Clients : r \in downloading[c] => right[r] /\ got[r] + left[c][r] = Blocks[r]

\* The conjunction CacheDownloaderProofs shows to be inductive.
IInv ==
    /\ Accounted /\ StoredIsRight /\ NoFailureWithoutRetry
    /\ BuffersType /\ Filled /\ Marks /\ HttpTasks /\ HandlerWork /\ ClientWork /\ Unspoilt
=============================================================================
