----------------------------- MODULE RetailProxy -----------------------------
(***************************************************************************)
(* RetailLoggedOutJs5Proxy: once a client has logged out of JS5, the bytes *)
(* of its connection are passed to the retail server and back.  Two event  *)
(* loops share the proxy: that of the client's channel, which decodes what *)
(* the client sends (Js5Decoder.decode, forwardClientBytes), and the       *)
(* proxy's own, which connects and runs RemoteBridgeHandler.  They share   *)
(* the queue of waiting chunks under a lock, and three volatile fields     *)
(* that are also read without it.  A write to a channel from the other     *)
(* loop's thread is a task of the channel's loop (Netty), as is            *)
(* closeLocalChannel.                                                      *)
(*                                                                         *)
(* A chunk of either direction is its number.  The behaviour begins when   *)
(* Js5Session has created the proxy and called connect().                  *)
(***************************************************************************)
EXTENDS Integers, Sequences, SequencesExt

CONSTANTS MaxChunks,   \* bound: chunks the client sends
          MaxPayloads  \* bound: chunks the retail server sends

ASSUME BoundsAssumption == MaxChunks \in Nat /\ MaxPayloads \in Nat

VARIABLES
    clientUp,   \* localChannel.isActive
    sent,       \* chunks the client has sent
    forward,    \* forwardClientBytes: "idle", or "checked", past its test of closed
    localTasks, \* what the client's event loop has been given: CloseTask, or a payload
    delivered,  \* payloads written to the client
    link,       \* the remote channel: "connecting", "failed", "active", "down"
    answer,     \* the retail server's handshake answer: "none", "ok", "bad"
    payloads,   \* chunks it has sent after it
    forwarded,  \* those decode has taken
    remoteEof,  \* it has closed the connection
    inactive,   \* channelInactive is due
    remote,     \* where the proxy's event loop is in a handler
    tasks,      \* writes its loop has been given
    greeted,    \* 1: the handshake is written, 2: also the initial packets
    written,    \* client chunks written to the retail server
    remoteSet,  \* remoteChannel != null
    ready,      \* remoteReady
    closed,     \* closed
    queue       \* pendingClientWrites

localVars == <<clientUp, sent, forward, localTasks, delivered>>
serverVars == <<answer, payloads, remoteEof>>
bridgeVars == <<link, forwarded, inactive, remote, tasks, greeted, written>>
sharedVars == <<remoteSet, ready, closed, queue>>
vars == <<localVars, serverVars, bridgeVars, sharedVars>>

CloseTask == 0

Init ==
    /\ clientUp = TRUE /\ sent = 0 /\ forward = "idle"
    /\ localTasks = <<>> /\ delivered = <<>>
    /\ answer = "none" /\ payloads = 0 /\ remoteEof = FALSE
    /\ link = "connecting" /\ forwarded = 0 /\ inactive = FALSE
    /\ remote = "idle" /\ tasks = <<>> /\ greeted = 0 /\ written = <<>>
    /\ remoteSet = FALSE /\ ready = FALSE /\ closed = FALSE /\ queue = <<>>

----------------------------------------------------------------------------
(* The client's event loop.                                                *)

\* Mutant: closed is not looked at.
ClientSendsUnchecked ==
    /\ clientUp /\ forward = "idle" /\ sent < MaxChunks
    /\ sent' = sent + 1
    /\ forward' = "checked"
    /\ UNCHANGED <<clientUp, localTasks, delivered, serverVars, bridgeVars, sharedVars>>

ClientSends ==
    /\ clientUp /\ forward = "idle" /\ sent < MaxChunks
    /\ sent' = sent + 1
    /\ forward' = IF closed THEN "idle" ELSE "checked"
    /\ UNCHANGED <<clientUp, localTasks, delivered, serverVars, bridgeVars, sharedVars>>

CanWrite == ready /\ remoteSet /\ link = "active"

\* The rest of forwardClientBytes, under the lock.  The write is a task of the other loop.
Forwards ==
    /\ forward = "checked"
    /\ forward' = "idle"
    /\ \/ CanWrite /\ tasks' = Append(tasks, sent) /\ UNCHANGED queue
       \/ ~CanWrite /\ queue' = Append(queue, sent) /\ UNCHANGED tasks
    /\ UNCHANGED <<clientUp, sent, localTasks, delivered, serverVars, link, forwarded,
                   inactive, remote, greeted, written, remoteSet, ready, closed>>

RunsLocalTask ==
    /\ forward = "idle" /\ localTasks # <<>>
    /\ localTasks' = Tail(localTasks)
    /\ clientUp' = (clientUp /\ Head(localTasks) # CloseTask)
    /\ delivered' = IF clientUp /\ Head(localTasks) # CloseTask
                    THEN Append(delivered, Head(localTasks)) ELSE delivered
    /\ UNCHANGED <<sent, forward, serverVars, bridgeVars, sharedVars>>

\* The client goes: Js5Handler.channelInactive takes the session off js5-thread's list,
\* and does nothing to its proxy.
ClientLeaves ==
    /\ clientUp /\ forward = "idle"
    /\ clientUp' = FALSE
    /\ UNCHANGED <<sent, forward, localTasks, delivered, serverVars, bridgeVars, sharedVars>>

----------------------------------------------------------------------------
(* The retail server.                                                      *)

ServerAnswers ==
    /\ link = "active" /\ greeted > 0 /\ answer = "none" /\ ~remoteEof
    /\ answer' \in {"ok", "bad"}
    /\ UNCHANGED <<payloads, remoteEof, localVars, bridgeVars, sharedVars>>

ServerSends ==
    /\ answer = "ok" /\ ~remoteEof /\ payloads < MaxPayloads
    /\ payloads' = payloads + 1
    /\ UNCHANGED <<answer, remoteEof, localVars, bridgeVars, sharedVars>>

ServerCloses ==
    /\ link = "active" /\ ~remoteEof
    /\ remoteEof' = TRUE
    /\ UNCHANGED <<answer, payloads, localVars, bridgeVars, sharedVars>>

----------------------------------------------------------------------------
(* The proxy's event loop.                                                 *)

ClosesLocal == localTasks' = Append(localTasks, CloseTask)

\* The listener of connect(), when it failed: closeLocalChannel, close.
ConnectFails ==
    /\ link = "connecting" /\ remote = "idle"
    /\ link' = "failed" /\ ClosesLocal /\ remote' = "close"
    /\ UNCHANGED <<clientUp, sent, forward, delivered, serverVars, forwarded, inactive, tasks,
                   greeted, written, sharedVars>>

\* Mutant: the connection counts as ready before the server has answered.
ChannelActiveReady ==
    /\ link = "connecting" /\ remote = "idle"
    /\ link' = "active" /\ remoteSet' = TRUE /\ greeted' = 1 /\ ready' = TRUE
    /\ UNCHANGED <<localVars, serverVars, forwarded, inactive, remote, tasks, written, closed,
                   queue>>

ChannelActive ==
    /\ link = "connecting" /\ remote = "idle"
    /\ link' = "active" /\ remoteSet' = TRUE /\ greeted' = 1
    /\ UNCHANGED <<localVars, serverVars, forwarded, inactive, remote, tasks, written, ready,
                   closed, queue>>

\* decode: the handshake is accepted ...
Accepts ==
    /\ link = "active" /\ remote = "idle" /\ answer = "ok" /\ ~ready
    /\ ready' = TRUE /\ remote' = "flush"
    /\ UNCHANGED <<localVars, serverVars, link, forwarded, inactive, tasks, greeted, written,
                   remoteSet, closed, queue>>

\* Mutant: one chunk is flushed, not all.
FlushesOne ==
    /\ remote = "flush"
    /\ remote' = "idle" /\ greeted' = 2
    /\ IF CanWrite /\ queue # <<>>
       THEN written' = Append(written, Head(queue)) /\ queue' = Tail(queue)
       ELSE UNCHANGED <<written, queue>>
    /\ UNCHANGED <<localVars, serverVars, link, forwarded, inactive, tasks, remoteSet, ready,
                   closed>>

\* ... the initial packets are written, and flushPendingClientWrites takes the lock.
Flushes ==
    /\ remote = "flush"
    /\ remote' = "idle" /\ greeted' = 2
    /\ IF CanWrite THEN written' = written \o queue /\ queue' = <<>>
                   ELSE UNCHANGED <<written, queue>>
    /\ UNCHANGED <<localVars, serverVars, link, forwarded, inactive, tasks, remoteSet, ready,
                   closed>>

\* decode: the rest of a read, or a later one, goes to the client.
ForwardsPayload ==
    /\ link = "active" /\ remote = "idle" /\ ready /\ forwarded < payloads
    /\ forwarded' = forwarded + 1
    /\ localTasks' = IF clientUp THEN Append(localTasks, forwarded + 1) ELSE localTasks
    /\ UNCHANGED <<clientUp, sent, forward, delivered, serverVars, link, inactive, remote, tasks,
                   greeted, written, sharedVars>>

\* decode: the handshake is rejected.
Rejects ==
    /\ link = "active" /\ remote = "idle" /\ answer = "bad"
    /\ ClosesLocal /\ link' = "down" /\ inactive' = TRUE
    /\ UNCHANGED <<clientUp, sent, forward, delivered, serverVars, forwarded, remote, tasks,
                   greeted, written, sharedVars>>

\* All is read: Netty closes the channel and schedules channelInactive.
ReadsEof ==
    /\ link = "active" /\ remote = "idle" /\ remoteEof
    /\ answer # "bad" /\ forwarded = payloads /\ (answer = "ok" => ready)
    /\ link' = "down" /\ inactive' = TRUE
    /\ UNCHANGED <<localVars, serverVars, forwarded, remote, tasks, greeted, written, sharedVars>>

\* Mutant: the client is left to find out.
ChannelInactiveSilent ==
    /\ inactive /\ remote = "idle"
    /\ inactive' = FALSE /\ remote' = "close"
    /\ UNCHANGED <<localVars, serverVars, link, forwarded, tasks, greeted, written, sharedVars>>

ChannelInactive ==
    /\ inactive /\ remote = "idle"
    /\ inactive' = FALSE /\ ClosesLocal /\ remote' = "close"
    /\ UNCHANGED <<clientUp, sent, forward, delivered, serverVars, link, forwarded, tasks, greeted,
                   written, sharedVars>>

\* exceptionCaught: the connection is reset.
ExceptionCaught ==
    /\ link = "active" /\ remote = "idle"
    /\ ClosesLocal /\ link' = "down" /\ inactive' = TRUE /\ remote' = "close"
    /\ UNCHANGED <<clientUp, sent, forward, delivered, serverVars, forwarded, tasks, greeted,
                   written, sharedVars>>

\* close(): the flag, then the queue under the lock, then the remote channel.
Closes ==
    /\ remote = "close"
    /\ closed' = TRUE
    /\ remote' = IF closed THEN "idle" ELSE "drain"
    /\ UNCHANGED <<localVars, serverVars, link, forwarded, inactive, tasks, greeted, written,
                   remoteSet, ready, queue>>

Drains ==
    /\ remote = "drain"
    /\ remote' = "idle" /\ queue' = <<>>
    /\ link' = IF remoteSet THEN "down" ELSE link
    /\ inactive' = (inactive \/ (remoteSet /\ link = "active"))
    /\ UNCHANGED <<localVars, serverVars, forwarded, tasks, greeted, written, remoteSet, ready,
                   closed>>

\* A write the other thread asked for: it fails on a closed channel, which releases the chunk.
RunsTask ==
    /\ remote = "idle" /\ tasks # <<>>
    /\ tasks' = Tail(tasks)
    /\ written' = IF link = "active" THEN Append(written, Head(tasks)) ELSE written
    /\ UNCHANGED <<localVars, serverVars, link, forwarded, inactive, remote, greeted, sharedVars>>

Local == Forwards \/ RunsLocalTask
Bridge ==
    \/ Accepts \/ Flushes \/ ForwardsPayload \/ Rejects
    \/ ReadsEof \/ ChannelInactive \/ Closes \/ Drains \/ RunsTask
Connects == ConnectFails \/ ChannelActive

Next ==
    \/ ClientSends \/ ClientLeaves \/ Local
    \/ ServerAnswers \/ ServerSends \/ ServerCloses
    \/ Connects \/ Bridge \/ ExceptionCaught

\* Both event loops go on, and a connection attempt ends (CONNECT_TIMEOUT_MILLIS).
Spec == Init /\ [][Next]_vars /\ WF_vars(Local) /\ WF_vars(Bridge) /\ WF_vars(Connects)

----------------------------------------------------------------------------
(* Properties.                                                             *)

\* RetailLoggedOutJs5Proxy: the type of its state and of the two loops' work.
TypeOK ==
    /\ clientUp \in BOOLEAN /\ sent \in 0..MaxChunks /\ forward \in {"idle", "checked"}
    /\ localTasks \in Seq(0..MaxPayloads) /\ delivered \in Seq(1..MaxPayloads)
    /\ answer \in {"none", "ok", "bad"} /\ payloads \in 0..MaxPayloads /\ remoteEof \in BOOLEAN
    /\ link \in {"connecting", "failed", "active", "down"}
    /\ forwarded \in 0..payloads /\ inactive \in BOOLEAN
    /\ remote \in {"idle", "flush", "close", "drain"}
    /\ tasks \in Seq(1..MaxChunks) /\ written \in Seq(1..MaxChunks)
    /\ greeted \in 0..2
    /\ remoteSet \in BOOLEAN /\ ready \in BOOLEAN /\ closed \in BOOLEAN
    /\ queue \in Seq(1..MaxChunks)

\* forwardClientBytes, flushPendingClientWrites: the retail server sees the initial
\* packets and then the client's chunks, in order and none left out, although a chunk may
\* find the connection ready while older ones are still queued.
WireOrder ==
    /\ written # <<>> => greeted = 2
    /\ IsPrefix(written, [i \in 1..sent |-> i])
    /\ IsPrefix(delivered, [i \in 1..forwarded |-> i])

\* forwardClientBytes against decode and close(): no chunk stays in the queue of a
\* connection that is up and ready; of a closed proxy the one chunk may be left that was
\* past the test of closed.
NoneForgotten ==
    remote = "idle" =>
        /\ CanWrite => queue = <<>>
        /\ closed => Len(queue) <= 1

\* closeLocalChannel: when the retail connection fails or ends, so does the client's.
LocalFollows == (link \in {"failed", "down"}) ~> ~clientUp

\* Js5Handler line 75, "remove session if the client connection drops": with the
\* session goes its connection to the retail server.
RemoteFollows == ~clientUp ~> link \in {"failed", "down"}
=============================================================================
