------------------------------ MODULE Js5Session ------------------------------
(***************************************************************************)
(* One JS5 (cache update) session of the server and the thread that serves *)
(* it.  Two threads share the session's queues:                            *)
(*   - the netty event loop of the connection decodes the client's frames  *)
(*     and calls enqueueRequest, initialize, close (Js5Decoder.decode);    *)
(*   - the js5-thread calls process(limit), which polls new requests,      *)
(*     loads their archive and writes responses block by block.            *)
(* Each step below is one access to the shared queues or to the in-flight  *)
(* sets, so that every interleaving of the two threads is a behaviour.     *)
(*                                                                         *)
(* An archive is a key (index, archive) with a length in payload bytes.    *)
(* Each priority has its queues and its in-flight set.  A block is a       *)
(* Header (index, archive, priority bit) and up to MaxPayload bytes.       *)
(* Header, MaxPayload and Limit are 5, 102395 and 10 000 000 in the code.  *)
(* Not modelled: tracing, the XOR key, the retail proxy (the session is    *)
(* one that keeps its local decoder), the content of archives.             *)
(***************************************************************************)
EXTENDS Naturals, Sequences, FiniteSets

CONSTANTS
    Keys,         \* archive keys the client may ask for
    Master,       \* the master reference table, index 255 / archive 255
    RefTables,    \* the reference tables: index 255, archive other than 255
    Local,        \* the keys the local filesystem can read
    Malformed,    \* reference tables whose stored bytes are no container
    Length,       \* js5ResponseLength of each key's response
    Header,       \* bytes of a block header
    MaxPayload,   \* MAX_RESPONSE_BLOCK_PAYLOAD_BYTES
    Limit,        \* the byte budget js5-thread gives to one process() call
    LoggedOutPrefetch,  \* shouldSendLoggedOutPrefetchTable
    MaxRequests   \* bound on the requests accepted in a behaviour

ASSUME KeysAssumption ==
    /\ Master \in Keys
    /\ RefTables \subseteq Keys \ {Master}
    /\ Malformed \subseteq RefTables
    /\ Local \subseteq Keys
ASSUME SizeAssumption ==
    /\ Length \in [Keys -> Nat \ {0}]
    /\ Header \in Nat \ {0}
    /\ MaxPayload \in Nat \ {0}
    /\ Limit \in Nat \ {0}
ASSUME FlagAssumption == LoggedOutPrefetch \in BOOLEAN
ASSUME BoundAssumption == MaxRequests \in Nat

VARIABLES
    queue,      \* high/lowPriorityRequests: keys waiting to be loaded
    pend,       \* high/lowPriorityResponses: responses partly written
    inFlight,   \* high/lowPriorityInFlight
    loggedIn,   \* channel attribute LOGGED_IN
    prefetchSent,
    initialized,
    registered, \* the session is in Js5Thread.sessions
    open,       \* the channel is open
    inactive,   \* channelInactive has been delivered to the handler
    seq,        \* requestSequence
    npc, nkey, nprio,          \* event loop: step inside a handler, its request
    tpc, tprio, tkey, tsent,   \* js5-thread: step inside process(), response in hand
    sent,       \* js5-thread: bytesSent of the current process() call
    got,        \* bytes of the response the client has assembled so far
    out         \* the last block written to the channel

netty  == <<npc, nkey, nprio>>
thread == <<tpc, tprio, tkey, tsent, sent>>
life   == <<initialized, registered, open, inactive>>
vars   == <<queue, pend, inFlight, loggedIn, prefetchSent, seq, got, out,
            initialized, registered, open, inactive,
            npc, nkey, nprio, tpc, tprio, tkey, tsent, sent>>

-----------------------------------------------------------------------------
Least(a, b) == IF a <= b THEN a ELSE b

Priority == {"high", "low"}

\* The keys for which enqueueRequest promises to suppress duplicates and that
\* never take the inline path.
Plain == Keys \ (RefTables \cup {Master})

Responses == [key : Keys, sent : Nat]

\* What the client holds of k after a block that came out of order: no number
\* of assembled bytes, which is always below Length[k].
Garbled(k) == Length[k]

NoBlock == [key |-> Master, prio |-> "high", size |-> 0, last |-> TRUE]

\* The client appends a block of n payload bytes at offset off of a response.
Receive(p, k, off, n) ==
    got' = [got EXCEPT ![p][k] =
              IF got[p][k] # off THEN Garbled(k)
              ELSE IF off + n = Length[k] THEN 0 ELSE off + n]

\* loadFileData: local data always suffices; without it a logged-in session
\* has nothing and a logged-out one may or may not get the bytes from retail.
CanLoad(k) == k \in Local \/ ~loggedIn
CanMiss(k) == k \notin Local

Init ==
    /\ queue = [p \in Priority |-> <<>>]
    /\ pend = [p \in Priority |-> <<>>]
    /\ inFlight = [p \in Priority |-> {}]
    /\ loggedIn = FALSE /\ prefetchSent = FALSE
    /\ initialized = FALSE /\ registered = FALSE
    /\ open = TRUE /\ inactive = FALSE
    /\ seq = 0
    /\ npc = "idle" /\ nkey = Master /\ nprio = "high"
    /\ tpc = "idle" /\ tprio = "high" /\ tkey = Master /\ tsent = 0 /\ sent = 0
    /\ got = [p \in Priority |-> [k \in Keys |-> 0]]
    /\ out = NoBlock

-----------------------------------------------------------------------------
(* Event loop.                                                             *)

\* The decoder has a complete frame and no handler is in progress.
Decoding == npc = "idle" /\ ~inactive

\* Mutant: duplicates of every key, not only of reference tables.
AllowAnyDuplicate(k) == ~loggedIn

\* shouldAllowDuplicateWhileLoggedOut
AllowDuplicate(k) == ~loggedIn /\ k \in RefTables

\* Mutant: without the test of the in-flight set.
EnqueueUnchecked(p, k) ==
    /\ Decoding
    /\ seq < MaxRequests
    /\ inFlight' = [inFlight EXCEPT ![p] = @ \cup {k}]
    /\ seq' = seq + 1
    /\ npc' = IF p = "high" /\ k = Master THEN "inline" ELSE "queue"
    /\ nkey' = k /\ nprio' = p
    /\ UNCHANGED <<queue, pend, loggedIn, prefetchSent, got, out, life, thread>>

\* enqueueRequest up to the point where the request is queued or answered
\* inline; a duplicate that is not allowed is dropped.
EnqueueRequest(p, k) ==
    /\ Decoding
    /\ seq < MaxRequests
    /\ k \notin inFlight[p] \/ AllowDuplicate(k)
    /\ inFlight' = [inFlight EXCEPT ![p] = @ \cup {k}]
    /\ seq' = seq + 1
    /\ npc' = IF p = "high" /\ k = Master THEN "inline" ELSE "queue"
    /\ nkey' = k /\ nprio' = p
    /\ UNCHANGED <<queue, pend, loggedIn, prefetchSent, got, out, life, thread>>

\* isInlineCriticalRequest: the master table is written whole by the event
\* loop and flushed.
InlineServe ==
    /\ npc = "inline"
    /\ CanLoad(nkey)
    /\ IF open THEN Receive(nprio, nkey, 0, Length[nkey]) ELSE UNCHANGED got
    /\ inFlight' = [inFlight EXCEPT ![nprio] = @ \ {nkey}]
    /\ npc' = "idle" /\ nkey' = Master /\ nprio' = "high"
    /\ UNCHANGED <<queue, pend, loggedIn, prefetchSent, seq, out, life, thread>>

\* Without data the key leaves the in-flight set, yet the request is queued.
InlineMiss ==
    /\ npc = "inline"
    /\ CanMiss(nkey)
    /\ inFlight' = [inFlight EXCEPT ![nprio] = @ \ {nkey}]
    /\ npc' = "queue"
    /\ UNCHANGED <<queue, pend, loggedIn, prefetchSent, seq, got, out, life,
                   nkey, nprio, thread>>

QueueRequest ==
    /\ npc = "queue"
    /\ queue' = [queue EXCEPT ![nprio] = Append(@, nkey)]
    /\ npc' = "idle" /\ nkey' = Master /\ nprio' = "high"
    /\ UNCHANGED <<pend, inFlight, loggedIn, prefetchSent, seq, got, out, life, thread>>

\* The LoggedIn and LoggedOut frames.
LoggedIn ==
    /\ Decoding
    /\ loggedIn' = TRUE /\ prefetchSent' = TRUE
    /\ UNCHANGED <<queue, pend, inFlight, seq, got, out, life, netty, thread>>

LoggedOut ==
    /\ Decoding
    /\ loggedIn' = FALSE
    /\ prefetchSent' = (prefetchSent \/ LoggedOutPrefetch)
    /\ UNCHANGED <<queue, pend, inFlight, seq, got, out, life, netty, thread>>

\* The ConnectionInitialized frame, the first time.
Initialize ==
    /\ Decoding /\ ~initialized
    /\ initialized' = TRUE /\ registered' = TRUE
    /\ UNCHANGED <<queue, pend, inFlight, loggedIn, prefetchSent, seq, got, out,
                   open, inactive, netty, thread>>

\* close(), called for RequestTermination or a second ConnectionInitialized:
\* the session is taken off the thread's list and the channel closed, ...
CloseSession ==
    /\ Decoding
    /\ initialized' = FALSE /\ registered' = FALSE /\ open' = FALSE
    /\ npc' = "clear"
    /\ UNCHANGED <<queue, pend, inFlight, loggedIn, prefetchSent, seq, got, out,
                   inactive, nkey, nprio, thread>>

\* ... then the request queues are cleared, ...
ClearQueues ==
    /\ npc = "clear"
    /\ queue' = [p \in Priority |-> <<>>]
    /\ npc' = "release"
    /\ UNCHANGED <<pend, inFlight, loggedIn, prefetchSent, seq, got, out, life,
                   nkey, nprio, thread>>

\* ... the pending responses released and cleared, ...
ReleaseResponses ==
    /\ npc = "release"
    /\ pend' = [p \in Priority |-> <<>>]
    /\ npc' = "forget"
    /\ UNCHANGED <<queue, inFlight, loggedIn, prefetchSent, seq, got, out, life,
                   nkey, nprio, thread>>

\* (unless js5-thread changes the deque during forEach, which then throws a
\* ConcurrentModificationException and leaves the rest of close() undone)
ReleaseFails ==
    /\ npc = "release" /\ tpc \notin {"idle", "dead"}
    /\ npc' = "idle"
    /\ UNCHANGED <<queue, pend, inFlight, loggedIn, prefetchSent, seq, got, out, life,
                   nkey, nprio, thread>>

\* ... and last the in-flight sets.
ClearInFlight ==
    /\ npc = "forget"
    /\ inFlight' = [p \in Priority |-> {}]
    /\ npc' = "idle"
    /\ UNCHANGED <<queue, pend, loggedIn, prefetchSent, seq, got, out, life,
                   nkey, nprio, thread>>

\* The peer drops the connection; frames already received are still decoded.
ClientDrops ==
    /\ open
    /\ open' = FALSE
    /\ UNCHANGED <<queue, pend, inFlight, loggedIn, prefetchSent, seq, got, out,
                   initialized, registered, inactive, netty, thread>>

\* Mutant: the session stays on the thread's list.
ChannelInactiveKeeping ==
    /\ Decoding /\ ~open
    /\ inactive' = TRUE
    /\ UNCHANGED <<queue, pend, inFlight, loggedIn, prefetchSent, seq, got, out,
                   initialized, registered, open, netty, thread>>

\* Js5Handler.channelInactive only takes the session off the thread's list.
ChannelInactive ==
    /\ Decoding /\ ~open
    /\ inactive' = TRUE /\ registered' = FALSE
    /\ UNCHANGED <<queue, pend, inFlight, loggedIn, prefetchSent, seq, got, out,
                   initialized, open, netty, thread>>

-----------------------------------------------------------------------------
(* js5-thread.                                                             *)

Shared == <<loggedIn, prefetchSent, seq, life, netty>>

NoneInHand == tkey' = Master /\ tsent' = 0

\* process() returns bytesSent to run().
Return == tpc' = "idle" /\ tprio' = "high" /\ sent' = 0

\* run() takes a snapshot of the sessions and later calls process on this one.
Schedule ==
    /\ tpc = "idle" /\ registered
    /\ tpc' = "start"
    /\ UNCHANGED <<queue, pend, inFlight, got, out, tprio, tkey, tsent, sent, Shared>>

StartProcess ==
    /\ tpc = "start"
    /\ tpc' = "poll"
    /\ UNCHANGED <<queue, pend, inFlight, got, out, tprio, tkey, tsent, sent, Shared>>

\* nextPendingResponse: new requests first.
Poll ==
    /\ tpc = "poll"
    /\ IF queue[tprio] # <<>>
         THEN /\ tkey' = Head(queue[tprio]) /\ tsent' = 0
              /\ queue' = [queue EXCEPT ![tprio] = Tail(@)]
              /\ tpc' = "load"
         ELSE tpc' = "check" /\ UNCHANGED <<queue, tkey, tsent>>
    /\ UNCHANGED <<pend, inFlight, got, out, tprio, sent, Shared>>

\* loadPendingResponse
Load ==
    /\ tpc = "load" /\ CanLoad(tkey) /\ tkey \notin Malformed
    /\ tpc' = "write"
    /\ UNCHANGED <<queue, pend, inFlight, got, out, tprio, tkey, tsent, sent, Shared>>

\* Mutant: the key of a missing archive stays in flight.
LoadMissingKeeping ==
    /\ tpc = "load" /\ CanMiss(tkey)
    /\ tpc' = "poll" /\ NoneInHand
    /\ UNCHANGED <<queue, pend, inFlight, got, out, tprio, sent, Shared>>

LoadMissing ==
    /\ tpc = "load" /\ CanMiss(tkey)
    /\ inFlight' = [inFlight EXCEPT ![tprio] = @ \ {tkey}]
    /\ tpc' = "poll" /\ NoneInHand
    /\ UNCHANGED <<queue, pend, got, out, tprio, sent, Shared>>

\* js5ResponseLength reads past the end of the bytes: nothing catches the
\* exception and the thread ends.
LoadMalformed ==
    /\ tpc = "load" /\ CanLoad(tkey) /\ tkey \in Malformed
    /\ tpc' = "dead"
    /\ UNCHANGED <<queue, pend, inFlight, got, out, tprio, tkey, tsent, sent, Shared>>

\* Mutant: asks whether any response is pending, not one of this priority.
CheckPendingOfBoth ==
    /\ tpc = "check"
    /\ IF \E p \in Priority : pend[p] # <<>> THEN tpc' = "take" /\ UNCHANGED <<tprio, sent>>
       ELSE IF tprio = "high" THEN tpc' = "poll" /\ tprio' = "low" /\ UNCHANGED sent
       ELSE Return
    /\ UNCHANGED <<queue, pend, inFlight, got, out, tkey, tsent, Shared>>

\* Mutant: process() forgets its second loop.
CheckPendingHighOnly ==
    /\ tpc = "check"
    /\ IF pend[tprio] # <<>> THEN tpc' = "take" /\ UNCHANGED <<tprio, sent>> ELSE Return
    /\ UNCHANGED <<queue, pend, inFlight, got, out, tkey, tsent, Shared>>

\* nextPendingResponse found no new request: pendingQueue.isNotEmpty(), ...
CheckPending ==
    /\ tpc = "check"
    /\ IF pend[tprio] # <<>> THEN tpc' = "take" /\ UNCHANGED <<tprio, sent>>
       ELSE IF tprio = "high" THEN tpc' = "poll" /\ tprio' = "low" /\ UNCHANGED sent
       ELSE Return
    /\ UNCHANGED <<queue, pend, inFlight, got, out, tkey, tsent, Shared>>

\* ... then pendingQueue.removeFirst(), which throws on an empty queue.
TakePending ==
    /\ tpc = "take"
    /\ IF pend[tprio] # <<>>
         THEN /\ tkey' = Head(pend[tprio]).key /\ tsent' = Head(pend[tprio]).sent
              /\ pend' = [pend EXCEPT ![tprio] = Tail(@)]
              /\ tpc' = "write"
         ELSE tpc' = "dead" /\ UNCHANGED <<pend, tkey, tsent>>
    /\ UNCHANGED <<queue, inFlight, got, out, tprio, sent, Shared>>

\* A response taken while close() releases the responses: its bytes are gone
\* and reading them throws.
TakeReleased ==
    /\ tpc = "take" /\ pend[tprio] # <<>> /\ npc = "release"
    /\ pend' = [pend EXCEPT ![tprio] = Tail(@)]
    /\ tpc' = "dead"
    /\ UNCHANGED <<queue, inFlight, got, out, tprio, tkey, tsent, sent, Shared>>

\* writeResponseBlock: the payload of the next block, never negative here.
Payload == LET budget == Limit - sent
           IN  IF budget <= Header THEN 0
               ELSE Least(Least(MaxPayload, Length[tkey] - tsent), budget - Header)

WriteBlock ==
    /\ tpc = "write"
    /\ IF Payload > 0
         THEN /\ tsent' = tsent + Payload
              /\ sent' = sent + Payload + Header
              /\ IF open
                   THEN /\ Receive(tprio, tkey, tsent, Payload)
                        /\ out' = [key |-> tkey, prio |-> tprio,
                                   size |-> Payload + Header,
                                   last |-> tsent + Payload = Length[tkey]]
                   ELSE UNCHANGED <<got, out>>
         ELSE UNCHANGED <<tsent, sent, got, out>>
    /\ tpc' = "recycle"
    /\ UNCHANGED <<queue, pend, inFlight, tprio, tkey, Shared>>

\* Mutant: the response goes back with its offset reset.
RecycleFromStart ==
    /\ tpc = "recycle"
    /\ IF tsent < Length[tkey]
         THEN /\ pend' = [pend EXCEPT ![tprio] = Append(@, [key |-> tkey, sent |-> 0])]
              /\ UNCHANGED inFlight
         ELSE /\ inFlight' = [inFlight EXCEPT ![tprio] = @ \ {tkey}]
              /\ UNCHANGED pend
    /\ NoneInHand
    /\ IF sent < Limit THEN tpc' = "poll" /\ UNCHANGED <<tprio, sent>> ELSE Return
    /\ UNCHANGED <<queue, got, out, Shared>>

\* recyclePendingResponse, and the test of the loop that called it.
Recycle ==
    /\ tpc = "recycle"
    /\ IF tsent < Length[tkey]
         THEN /\ pend' = [pend EXCEPT ![tprio] = Append(@, [key |-> tkey, sent |-> tsent])]
              /\ UNCHANGED inFlight
         ELSE /\ inFlight' = [inFlight EXCEPT ![tprio] = @ \ {tkey}]
              /\ UNCHANGED pend
    /\ NoneInHand
    /\ IF sent < Limit THEN tpc' = "poll" /\ UNCHANGED <<tprio, sent>> ELSE Return
    /\ UNCHANGED <<queue, got, out, Shared>>

-----------------------------------------------------------------------------
NettyStep ==
    \/ InlineServe \/ InlineMiss \/ QueueRequest
    \/ ClearQueues \/ ReleaseResponses \/ ReleaseFails \/ ClearInFlight

ClientStep ==
    \/ \E p \in Priority, k \in Keys : EnqueueRequest(p, k)
    \/ LoggedIn \/ LoggedOut \/ Initialize \/ CloseSession \/ ClientDrops
    \/ ChannelInactive

ThreadStep ==
    \/ Schedule \/ StartProcess \/ Poll \/ Load \/ LoadMissing \/ LoadMalformed
    \/ CheckPending \/ TakePending \/ TakeReleased \/ WriteBlock \/ Recycle

Next == NettyStep \/ ClientStep \/ ThreadStep

\* The event loop finishes the handler it is in and js5-thread keeps running;
\* nothing obliges the client to send or to close anything.
Fairness == WF_vars(NettyStep) /\ WF_vars(ThreadStep)

Spec == Init /\ [][Next]_vars /\ Fairness
-----------------------------------------------------------------------------
(* Properties.                                                             *)

FlagsType ==
    /\ loggedIn \in BOOLEAN /\ prefetchSent \in BOOLEAN
    /\ initialized \in BOOLEAN /\ registered \in BOOLEAN
    /\ open \in BOOLEAN /\ inactive \in BOOLEAN

CountType == seq \in 0..MaxRequests

EventLoopType ==
    /\ npc \in {"idle", "inline", "queue", "clear", "release", "forget"}
    /\ nkey \in Keys /\ nprio \in Priority

ThreadType ==
    /\ tpc \in {"idle", "start", "poll", "load", "check", "take", "write",
               "recycle", "dead"}
    /\ tprio \in Priority /\ tkey \in Keys /\ tsent \in Nat /\ sent \in Nat

QueuesType ==
    /\ queue \in [Priority -> Seq(Keys)]
    /\ pend \in [Priority -> Seq(Responses)]
    /\ inFlight \in [Priority -> SUBSET Keys]

ClientType ==
    /\ got \in [Priority -> [Keys -> Nat]]
    /\ out \in [key : Keys, prio : Priority, size : Nat, last : BOOLEAN]

\* The types of the session's fields and of the steps of the two threads.
TypeOK ==
    FlagsType /\ CountType /\ EventLoopType /\ ThreadType /\ QueuesType /\ ClientType

\* Where an accepted request can be.
Entering(p, k) == npc \in {"inline", "queue"} /\ nprio = p /\ nkey = k
Queued(p, k)   == \E i \in DOMAIN queue[p] : queue[p][i] = k
InHand(p, k)   == tpc \in {"load", "write", "recycle"} /\ tprio = p /\ tkey = k
Pending(p, k)  == \E i \in DOMAIN pend[p] : pend[p][i].key = k
Active(p, k)   == Entering(p, k) \/ Queued(p, k) \/ InHand(p, k) \/ Pending(p, k)

\* enqueueRequest drops a request whose key is in flight, so a key that stays
\* in flight with nothing to answer it would be refused for ever: while the
\* connection is open, every in-flight key has a request on its way.
NoStuckKey ==
    open /\ tpc # "dead" => \A p \in Priority : \A k \in inFlight[p] : Active(p, k)

\* The in-flight sets keep at most one response per plain key and priority on
\* its way, whatever the event loop and js5-thread do between the two halves
\* of enqueueRequest and of recyclePendingResponse.
OneResponse(p, k) ==
    /\ Active(p, k) => k \in inFlight[p]
    /\ Entering(p, k) => ~Queued(p, k) /\ ~InHand(p, k) /\ ~Pending(p, k)
    /\ Queued(p, k) => ~InHand(p, k) /\ ~Pending(p, k)
    /\ InHand(p, k) => ~Pending(p, k)
    /\ \A i, j \in DOMAIN queue[p] : queue[p][i] = k /\ queue[p][j] = k => i = j
    /\ \A i, j \in DOMAIN pend[p] : pend[p][i].key = k /\ pend[p][j].key = k => i = j

OneResponsePerKey ==
    open => \A p \in Priority : \A k \in Plain : OneResponse(p, k)

\* A client that assembles the blocks of a plain key in the order they arrive
\* gets the archive: no block of another copy, none twice, none skipped.
NoGarbledArchive == \A p \in Priority : \A k \in Plain : got[p][k] # Garbled(k)

\* process(limit) never writes more than limit bytes, block headers included.
BudgetRespected == sent <= Limit

\* Nothing but a close() that empties the queue between isNotEmpty() and
\* removeFirst(), or the load of a malformed reference table, ends js5-thread.
ThreadDiesOnlyOnClose == tpc = "dead" => ~open \/ tkey \in Malformed

\* A session that a late ConnectionInitialized put back on the thread's list
\* after close() is off it for good once the channel is inactive.
NoZombieSession == inactive => ~registered

\* The remaining budget of a process() call does not even pay for a header.
NoRoom == tpc # "idle" /\ sent < Limit /\ Limit - sent <= Header

\* Every accepted request is answered (or its archive is missing), unless the
\* connection closes, the thread has ended, the session was never initialized,
\* or process() is caught with a budget too small for a block, in which case
\* its loop never ends.
Gone(p, k) == ~Active(p, k) \/ ~open \/ tpc = "dead" \/ ~registered
AnsweredOrSpinning ==
    (\A p \in Priority : \A k \in Keys : Active(p, k) ~> Gone(p, k)) \/ <>[]NoRoom

-----------------------------------------------------------------------------
(* What the properties rest on: an inductive invariant.                    *)

\* close() works on the queues of a closed channel.
CloseOrder == npc \in {"clear", "release", "forget"} => ~open

\* Only the high-priority request of the master table is answered inline.
InlineMaster == npc = "inline" => nkey = Master /\ nprio = "high"

\* js5-thread alone takes responses off the pending queues of an open session.
TakeFindsOne == tpc = "take" /\ open => pend[tprio] # <<>>

\* A response in hand has its whole rest to send, a pending one something.
Offsets ==
    /\ tpc = "load" => tsent = 0
    /\ tpc = "write" => tsent < Length[tkey]
    /\ tpc = "recycle" => tsent <= Length[tkey]
    /\ \A p \in Priority : \A i \in DOMAIN pend[p] :
          pend[p][i].sent < Length[pend[p][i].key]

\* The client holds of a key exactly what its one response has sent.
InOrder(p, k) ==
    /\ InHand(p, k) => got[p][k] = IF tsent = Length[k] THEN 0 ELSE tsent
    /\ \A i \in DOMAIN pend[p] : pend[p][i].key = k => got[p][k] = pend[p][i].sent
    /\ ~InHand(p, k) /\ ~Pending(p, k) => got[p][k] = 0

ClientInOrder == open => \A p \in Priority : \A k \in Plain : InOrder(p, k)

\* The conjunction Js5SessionProofs shows to be inductive.
IInv ==
    /\ TypeOK
    /\ CloseOrder /\ InlineMaster /\ TakeFindsOne /\ Offsets
    /\ BudgetRespected /\ ThreadDiesOnlyOnClose /\ NoZombieSession
    /\ OneResponsePerKey /\ NoStuckKey
    /\ ClientInOrder /\ NoGarbledArchive
=============================================================================
