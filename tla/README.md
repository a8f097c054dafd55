# OpenNXT in TLA+

OpenNXT is a server for the RuneScape 3 NXT client: it serves the game cache over
JS5, answers logins, runs a lobby and a world, and ships a cache downloader, a
Discord bot that operates the server, and Python tools of which some are programs that
run beside it: a TLS proxy in front of the server and a pipeline that derives packet
definitions. This directory holds TLA+ specifications of
its concurrent core, of the bot's control of the server and of these two tools, the TLC
configurations that check them, and TLAPS proofs.

Paths below are relative to `src/src/main/kotlin/com/opennxt/` unless they start
with `discord-bot` or `src/`; `.py` files are in `src/tools/`.

1. [The system](#1-the-system)
2. [Plan](#2-plan)
3. [The modules and the code](#3-the-modules-and-the-code)
4. [What the runs check](#4-what-the-runs-check)
5. [Bounds](#5-bounds)
6. [Fairness](#6-fairness)
7. [What is proved](#7-what-is-proved)
8. [Findings](#8-findings)
9. [What is not modelled](#9-what-is-not-modelled)

## 1. The system

| component | state | operations | interacts with |
|---|---|---|---|
| JS5 session (`net/js5/Js5Session.kt`, `Js5Decoder`, `Js5Handler`) | request queues, pending responses and in-flight sets per priority; `initialized`, `prefetchTableSent`; channel attributes | `enqueueRequest`, `process`, `initialize`, `close`, logged in/out frames | netty event loop, js5-thread, cache filesystem |
| js5-thread (`Js5Thread.kt`) | list of sessions | `run`, `addSession`, `removeSession`, `wake` | every session |
| Retail logged-out proxy (`net/js5/RetailLoggedOutJs5Proxy.kt`) | remote channel, `remoteReady`, `closed`, queued client chunks | `connect`, `forwardClientBytes`, `close`, remote handler | two event loops, the session |
| World (`model/world/World.kt`, `model/entity/EntityList.kt`) | `players`, entity slots, `toAdd` | `addPlayer`, `addPlayerNow`, `tick` | tick engine, login handlers, channels |
| Tick engine (`model/tick/TickEngine.kt`) | one executor thread and its queue | `submitTickable`, `executeAsync` | world, lobby, login |
| Lobby (`model/lobby/`) | `players`, `toAdd` | `addPlayer`, `tick` | tick engine, login |
| Login (`login/`, `net/login/`) | login queue, channel attributes, hand-off per host | login requests, callbacks, `GAMELOGIN_CONTINUE` | event loops, login thread, world, lobby |
| Connected client (`net/ConnectedClient.kt`) | receive queue, deferred varps, skip ids | `write`, `flush`, `receive` | world and lobby players |
| Game framing, registry, proxy (`net/game/`, `net/proxy/`) | framing state, ISAAC state, channel pairs | decode, encode, dispatch | event loops |
| Viewport, player info (`model/entity/player/Viewport.kt`, `model/entity/updating/`) | what a client believes of each slot | move, encode | world slots |
| Cache downloader (`tools/impl/cachedownloader/`) | pending/processing requests, clients, file workers | request, health check, block decoding, retries | remote JS5 server, disk |
| Cache filesystem (`filesystem/`) | SQLite indices | read, write, encode/decode | JS5 session, downloader |
| Discord bot (`discord-bot/src/`) | jobs, server pid, tickets, deliveries in SQLite | jobs, start/stop, tickets, webhook | Discord, GitHub, the server process |
| TLS proxy (`tls_terminate_proxy.py`) | per session: buffers, route, two pump threads, sockets | `handle_client`, classifiers, pumps | the client, the server's ports, content and retail servers |
| 946 pipeline (`run_946_pipeline.py` and its phases) | artifacts on disk, `cache-manifest.json` | five cached phases, shared files, advisory tools | the user's files, Ghidra, tools that write the same manifest |
| Launchers and watchers (`launch_*.py`, `watch_*.py`, `trace_*.py`, `run_runtek_login_loop.py`) | process handles, a debugger session | start, patch and poll a client | the client, the operating system |
| Analysis scripts (the rest of `src/tools/`) | one report each | sequential passes over captures and logs | files, the manifest |

What is hard in each, and what makes it correct:

- **JS5 session.** The event loop and js5-thread share queues, deques and in-flight
  sets without a lock, and every session shares one thread that nothing restarts.
  *Correct*: an accepted request is answered once, whole and in order; no key stays
  in flight after its response is gone (it would be refused for ever); one call of
  `process` stays in its byte budget and returns; closing one session takes no other
  down.
- **Retail logged-out proxy.** Two event loops, with `remoteReady` and `closed` read
  inside and outside the lock. *Correct*: the bytes of the client reach the remote
  in order, each chunk is written or released, and closing one side closes the other.
- **World.** Logins reach it by two queues with different delays; a bootstrap, a
  packet or a tick may throw half way; channels drop at any time. *Correct*: the set
  of players and the entity slots agree on every path, one player per name, within
  the capacity, and nobody stays connected to nothing.
- **Lobby.** No per-player exception handling. *Correct*: one player's failure does
  not keep the others from being ticked.
- **Login.** Three kinds of threads work on one channel: its event loop, login-thread and
  the tick engine, which swaps the handlers of a pipeline that is in use; a hand-off kept
  per host joins the lobby login to the game login on another channel. *Correct*: a login
  is answered and ends in the game or closed, packets and answers meet the pipeline they
  are meant for, and a game login continues the lobby login of the same user.
- **Connected client.** Varps deferred during a bootstrap. *Correct*: the client
  ends with the last value written.
- **Cache downloader.** Requests cross five kinds of threads; clients crash, time out
  and reconnect while answers are still coming, retries reuse the buffer of the first
  attempt, and main closes the pool from a snapshot. *Correct*: only whole archives are
  written; a request is in exactly one of the program's sets and has at most one client;
  the download ends.
- **TLS proxy.** The first bytes of a session, cut anywhere by TCP, decide what it is; the
  same stream is read by a peek, a classifier, the main thread and a pump; a pump is only
  freed by a timeout, which game sessions do without, or by the other pump's shutdown.
  *Correct*: nothing is lost, doubled or reordered on the way, requests arrive whole, a
  session goes to the backend its client belongs to, it ends and closes its sockets.
- **946 pipeline.** Phases are skipped by fingerprints of their inputs, one of which,
  the cross-build index, is made from their own output; runs fail and are killed between
  writing artifacts and saving the manifest. *Correct*: what is skipped would change
  nothing; repeated runs over unchanged files come to rest.
- **Discord bot.** Every check is separated from its effect by an `await`; a call of
  Discord may be rejected, the bot may end between two awaits, and the server it started
  outlives it. *Correct*: one job at a time, released on every way out; the job rows agree
  with the lock; no server runs that the stored pid does not name; a stopped server is
  stopped. For tickets and webhooks: one open ticket per user, each delivery published.

The hazards are listed one by one, with their lines and the properties that cover
them, in `PROJECT.json`.

## 2. Plan

In order of importance to the running server. Those marked *done* are in this
directory.

| # | modules | abstract specification | runs | theorems |
|---|---|---|---|---|
| 1 | `Js5Session`, `Js5SessionRefinement` — *done* | `Js5Service` | safety with refinement, liveness | type, inductive invariant and its six safety parts, refinement (*done*) |
| 2 | `World`, `WorldRefinement` — *done* | `WorldRoster` | safety, refinement and liveness | type, inductive invariant and its parts, refinement (*done*) |
| 3 | `CacheDownloader` — *done*, but for its abstract specification | `Download`: each request done at most once, with its own bytes | pool with two clients, crash and retry; completion under fairness; HTTP after closing (*done*) | inductive invariant, books, what is stored and what fails (*done*) |
| 4 | `RetailProxy` — *done* | an ordered byte channel (in `WireOrder`) | interleavings of the two event loops and `close`, chunk order, chunks left behind; the client that leaves (*done*) | type, inductive invariant, order, nothing left (*done*) |
| 5 | `TlsProxy` — *done*, but for the sticky world host | — | every kind of session with both peers failing (*done*) | sockets, inductive invariant, order of bytes, ends, whole requests, routing (*done*) |
| 6 | `Pipeline` — *done*, but for the advisory tools | — | edits, failures, kills, tools and partial runs (*done*) | type, inductive invariant, a skipped phase is current, runs come to rest, outputs of the sources (*done*) |
| 7 | `BotOps` — *done* | one job at a time (in `OneAtATime`) | overlapping jobs, rejected calls and ends of the bot; a job that is never released (*done*) | type, lock, rows, server (*done*) |
| 8 | `Login` — *done*, but for its composition with `World` | one answer per request | lobby and game logins of two users and two hosts (*done*) | type, hand-off, encoders, packets (*done*) |
| 9 | `Js5Threads` (several sessions), `ProxyPair`, `BotTickets`, `BotWebhook`, `Lobby` | — | one each | the main invariant of each |

The last row is what is left. Of it, several sessions on one js5-thread would add most: a
session that dies there takes the others with it.

Modules with theorems use no `RECURSIVE` operator and keep their proofs in modules of
their own.

## 3. The modules and the code

### `Js5Session`: one session, the event loop and js5-thread

State: `queue`, `pend` and `inFlight` are the request queues, the deques of partly
written responses and the in-flight sets, one of each per priority; `loggedIn`,
`prefetchSent`, `initialized` are the session's flags; `registered` says that the
session is in `Js5Thread.sessions`; `open` and `inactive` describe the channel;
`seq` is `requestSequence`. `npc`, `nkey`, `nprio` say where the event loop is in a
handler, `tpc`, `tprio`, `tkey`, `tsent`, `sent` where js5-thread is in `process`.
`got` and `out` are on the other side of the wire: what a client has assembled, and
the last block it saw.

The queues are concurrent or unsynchronised collections, so one step of the model is
one access to a shared collection:

| code | actions |
|---|---|
| `enqueueRequest` | `EnqueueRequest`, then `InlineServe` or `InlineMiss`/`QueueRequest` |
| frames of `Js5Decoder.decode` | `LoggedIn`, `LoggedOut`, `Initialize`, `CloseSession` |
| `close` | `CloseSession`, `ClearQueues`, `ReleaseResponses` or `ReleaseFails`, `ClearInFlight` |
| `channelInactive` | `ChannelInactive` (after `CloseSession` or `ClientDrops`) |
| `Js5Thread.run` | `Schedule`, `StartProcess` |
| `nextPendingResponse` | `Poll`, `CheckPending`, `TakePending`, `TakeReleased` |
| `loadPendingResponse` | `Load`, `LoadMissing`, `LoadMalformed` |
| `writeResponseBlock` | `WriteBlock`, with `Payload` its size |
| `recyclePendingResponse` | `Recycle` |

`tpc = "dead"` is the end of js5-thread by an exception: `process` is called without
a try/catch. `ReleaseFails` is the `ConcurrentModificationException` that `forEach`
throws when js5-thread changes the deque. Data is abstracted to keys with a length:
what the local filesystem can read (`Local`), which reference tables are too short to
have a length (`Malformed`).

### `Js5Service`, `Js5SessionRefinement`

The promise to the client about an ordinary archive: accepted once, sent in order,
finished when nothing or everything has been sent. The refinement maps *asked* to the
in-flight set of an open session and *answer* to what the client has assembled.
Reference tables and the master table are left out of it: the code allows duplicates
of the former while logged out and drops the key of the latter early
(`InlineMiss`), so they are not answered once each.

### `World`: players, entity slots, tick engine

State: `players` and `toAdd` are the fields of `World`; `slots`, `index`, `size` are
`EntityList.values`, each entity's `index` and `EntityList.size`; `tasks` is the
executor's queue of `addPlayerNow` tasks; `tpc` and `todo` say where the tick is and
what is left of its copy of the set. `up`, `closing`, `switched` describe channels;
`rank`, `clock` remember in which order the logins were handed over, and `lost` which
channels were down when the tick began.

| code | actions |
|---|---|
| `GAMELOGIN_CONTINUE` in `LoginServerDecoder.decode` | `ContinueLogin` |
| listener of the lobby login response in `LoginServerHandler` | `LobbyLogin` |
| `addPlayerNow` on the tick engine | `RunTask` |
| `registerPlayer` | `Register`: `Admit`, `Refuse` (no slot) or `FailBootstrap` (`added()` throws) |
| `removePlayer`, `EntityList.remove` | `RemovePlayers`, over `SlotsWithout`, `IndexWithout`, `SizeWithout` |
| `tick` | `StartTick`, `Drain`…`EndDrain`, `Sweep`…`EndSweep`, `RunPlayer` or `RunPlayerThrows`…`EndRun` |
| netty | `Inactive` |

The executor has one thread (`min(1, processors - 2)` core threads), so `registerPlayer`
and the body of a tick are never interleaved with each other, but a channel may drop
and a login may be handed over between any two players of a tick; one step handles
one player. `EntityList.remove` is followed to the letter, the slot of the entity's
index being emptied whoever is in it; its "should never happen" exception is what
`SlotsMatchPlayers` excludes.

A FULL_LOGIN player's channel keeps its login decoder until `added()` switches the
pipeline, so one channel may hand over several logins; `switched` ends that.

### `WorldRoster`, `WorldRefinement`

The promise about logins: `Enter` in the place of the namesake and within the
capacity, `TurnAway`, `Leave`; none comes back. `Settled`, the logins that were handed
over and are neither waiting nor in the world, is mapped to those that are over.

### `CacheDownloader`: the bulk phase of the downloader

State: `pending`, `processing` and `processingHttp` are the sets of
`Js5RequestHandler`, `requeue` its local set of crashed requests, `ioQueue` and `writing`
what the I/O workers have, `stored` and `failed` what became of it; `completed`,
`crashed`, `attempts`, `got` are fields of the requests (`got` is the position of the
buffer, in blocks, and `right` whether they are the archive's, in order); `state`,
`downloading`, `current` belong to the clients, by slot of the pool, and `left` to the
server behind each; `httpQueue` and `httpRun` are the executor's tasks; `hpc`, `mpc` say
where the request handler and main are. `dropped` and `retried` only record what happened.

| code | actions |
|---|---|
| `IndexCompletionChecker.run` calling `request` | `Ask`, or `AskClosed` when the pool throws |
| event loop of a client | `Connect`, `Lose`, `ReadHeader`, `ReadBlock` |
| `Js5HttpRequest.run` | `HttpStart`, `HttpDone` or `HttpFails` |
| `AsyncFilesystemAccessor.run`, `writeCompletedRequest` | `StartWrite`, `Write` |
| `healthCheck` | `StartHealth`, `Healthy` or `Replace` per slot, `EndHealth` |
| `openConnections` | `Open` per slot, or `OpenFails` |
| `addRequestsFromIterator` | `TakeLock` or `AssignClosed`; `Drain`, `Send` per batch, `PassOver`; `EndAssign` |
| the collecting loops of `run` | `Scan` per request, `EndScan`; `Requeue` or `RequeueClosed` |
| `createSnapshot`, main's loop | `Snapshot`, `Act` |

The handler's lock covers `assign`, `send` and `scan`, in which no checker asks and main
takes no snapshot; a client's lock covers `send`, in which its event loop waits.
`drainBatchFromIterator` and `addAllUnchecked` are two steps, since the channel may close
between them. A response is a number of blocks; the connection breaks between
blocks. A request's buffer survives its crash, so the blocks of a second attempt come on
top of it: the client completes the request early, and the server's next block has a
header nobody waits for, which crashes the client (`ReadHeader`). Simplifications:
`clientPool.close` is one step; the pool's `closed` is looked at once per pass over
`pending` and not once per index; the HTTP executor has a thread for each task; the
server answers each request of a connection once, and HTTP data is right.

### `RetailProxy`: the logged-out proxy between two event loops

State: `remoteSet` (`remoteChannel != null`), `ready`, `closed` and `queue`
(`pendingClientWrites`) are the fields the two loops share; `clientUp` and `link` are the
two channels; `localTasks` and `tasks` are what each loop has been given to run by the
other one's thread, since Netty makes a task of a `writeAndFlush` from a foreign thread;
`forward` and `remote` say where a loop is between two accesses to shared state;
`sent`, `written`, `payloads`, `forwarded`, `delivered` follow the chunks, which are
numbered, in both directions.

| code | actions |
|---|---|
| `forwardClientBytes` | `ClientSends` (the test of `closed`), `Forwards` (under the lock) |
| `closeLocalChannel`, payload writes, on the client's loop | `RunsLocalTask` |
| `connect` and its listener | `ConnectFails`, `ChannelActive` |
| `decode` | `Accepts`, `Flushes` (initial packets and `flushPendingClientWrites`), `ForwardsPayload`, `Rejects` |
| `channelInactive`, `exceptionCaught` of the remote channel | `ChannelInactive`, `ExceptionCaught` |
| `close` | `Closes` (the flag), `Drains` (the queue and the remote channel) |
| `Js5Handler.channelInactive` | `ClientLeaves` |
| Netty | `RunsTask`, `ReadsEof` |

A retail server that rejects the handshake sends nothing after the code. JS5 responses
that were pending when the proxy was activated are left out. The payload behind the
handshake in one read is forwarded by a `ForwardsPayload` of its own.

### `TlsProxy`: one session of the TLS proxy

State: `up` and `down` are bytes that have been sent and not read; `hand1` and `hand2` those
the proxy has read and not passed on (`buffered_client_data`, `data`, `pending`); `atRemote` and
`atClient` those that arrived; `pc`, `t1`, `t2` are the main thread and the two pumps; `how`,
`route`, `source`, `target` the route; `socks` the open sockets; `tlsC` and `tlsR` the TLS of
the two streams. A token stands for some bytes, chosen so that every place where the code
looks at a boundary has one: the five bytes of the peek, in two parts, and the rest of
the ClientHello; the two parts of an HTTP method; the end of a header with and without a
body; the body.

| code | actions |
|---|---|
| `handle_client` up to the route | `Begins`, `Peeks` or `PeekFails`, `Classifies`, `Wraps` or `WrapFails` |
| the inspection of localhost sessions, `classify_tls_first_appdata` | `Provisions`, `InspectsClient`, `InspectsOther`, `InspectFails` |
| `sniff_terminated_tls_route` | `Sniffs`, `SniffEnds` |
| `create_remote_stream` | `Connects` |
| `forward_initial_raw_bytes`, `send_buffered_data` | `ForwardsPeeked`, `ForwardsBuffered`, `ForwardFails` |
| `pump`, `pump_with_byte_cap`, `pump_http_requests` | `UpReads`, `UpStops`, `UpSends`, `UpSendFails`, `UpFinishes` |
| `pump`, `pump_http_response` | `DownReads`, `DownStops`, `DownSends`, `DownSendFails`, `DownFinishes` |
| the except and finally clauses | `Raises`, `Ends` |
| the peers' TCP | `ClientSends`, `ClientCloses`, `ClientResets`, and the same of the backend |

`Begins` may end in `"died"`: `getpeername` is called before the `try`. `AfterShutdown` is
what `SSLSocket.shutdown` does to a TLS stream the other pump still reads: it lets go of the
TLS object, and that pump passes on records as they are; `UpstreamIntact` and
`DownstreamIntact` speak of streams whose TLS is up.

### `Pipeline`: phases, cache and manifest

State: `src` are the versions of the sources; `file` the artifacts, each a record of the
versions it was made from; `disk` is `cache-manifest.json` and `mem` the run's copy; `pc`, `phase`,
`print` say where the run is; `tool` is the copy of the manifest that a tool has read.
`quiet`, `edited` and `disturbed` record what happened. The behaviour begins after a first
complete run, in which the index was not there when phases 3 and 4 began.

| code | actions |
|---|---|
| `main` up to the first phase | `Starts` |
| `maybe_run_phase` | `Skips`, or `RunsScript` (the fingerprint) and `ScriptEnds` or `ScriptFails` |
| the shared files after phase 4, before phase 5 and at the end | `Rewrites` |
| `write_json` of the manifest | `Saves` |
| `EXIT_PHASE_FAILURE`, a kill | `ScriptFails`, `Dies` |
| a tool over the same manifest (`run_946_sender_aid.py` and others) | `ToolReads`, `ToolWrites` |
| the user | `Edits` |

What `Fingerprint` hashes and what a script reads differ: phases 1 and 2 read the Ghidra
project, which no fingerprint has; phases 3 and 4 read the output of earlier phases and
hash only the index made from it. So an entry may be valid although the artifact is not what the
script would make, and `disturbed` marks the histories that can lead there:

- a failed or killed run, which does not save the manifest although its phases have written; an edit
  during a run; a manifest that a tool overwrote;
- a run of phase 3 or 4 without an earlier phase that is due (`SkipsStale`);
- a run of phase 1 or 2 without 3 and 4 (`LeavesBehind`): what they make is no input of 3 and 4
  but through the index, and an index may come back. A Ghidra import that is taken back after such a run
  leaves the index as an old entry has it, and the candidates as they were in between.

A complete run with `--force` over sources that stand still takes the mark away. `CacheIsCurrent` and
`OutputsAreRight` are claimed without it; `QuietMeansCached` with it as well, after one more
run: an index that does not name its candidates' packets moves in the first run, is
answered by phase 3 in the second, and what that writes is found in place by the third. That the runs
come to rest does not make what they rest on right: nothing but `--force` heals a valid entry
of a wrong artifact.

### `BotOps`: jobs and the server of the Discord bot

State: `currentJobId` is the coordinator's field; `row` and `pid` are in the database, the
status of each job and the setting `server.pid`; `alive` are the server processes that run
and `used` the pids given so far; `pc` says what each command awaits, `running` and `target`
what it took along across the await; `up` and `crashes` belong to the bot's process. `astray`
is a history variable: the servers that run without a pid anyone will find, in the three ways the
code leaves open (see Findings).

Node runs one callback at a time, and a command goes on once what it awaits has settled, either
way. The bot may end at any moment, though, so an action does at most one thing that outlasts it, a
write to the database or to the processes: where a callback does two, the rest of it is an action of
its own (`Midway`), before which no command is resumed (`AtRest`) and the bot may end. That is so
between the spawn of a server and the store of its pid, and between whatever throws and the row
the catch clause writes. A callback that does one such thing and awaits again needs no more: an
end of the bot before it, or after it, is one at the await.

| code | actions |
|---|---|
| `runExclusive` | `RunExclusive` (with `Acquires`), `ReportResolves` or `ReportRejects`, the work, `FinishResolves` or `FinishRejects`, `Catches`, `FailureReported` |
| the commands in `index.ts`, `OpenNxtOpsService` | `FirstStageShown`, `Built`, `Looked`, `RestartStageShown`, `StartStageShown`, `Checked`, `LastStageShown`, `WorkFails` |
| `start` | `Starts`, then `StartRefuses`, `SpawnFails` or `Spawns`, then `Stores` or `StoreThrows`, then `PortsOpen` or `PortsStayShut` |
| `stop`, `restart` | `Stops`, then `KillCloses`, `UndoCloses` (called by a `start` that fails) or `KillErrors`; `AfterStop` |
| `/server status` | `LookBegins`, `LookEnds` |
| the error reply of `index.ts` | `Replies` |
| the bot's process, the server's | `Crash`, `Restarts`, `ServerExits` |

`SpawnFails` ends the bot: nothing listens to the error of the child process, whose pid,
`undefined`, has been stored. `OPENNXT_ALLOWED_COMMAND_SET` is one of the causes of
`WorkFails`; others are a `status()` or `stop()` that throws since `server.toml` is missing or the
pid cannot be cleared, which may also happen after something else was done (`AfterStop`,
`KillErrors`, `PortsOpen`, `Stores`). taskkill may end the process or leave it alone (`Kills`): nobody
reads its exit code. Of the writes to the database those of settings may throw; left out are
those of a job's row, and a pid that the system gives to another process.

### `Login`: from the request to the first game packets

State: `sent` and `toServer` are what a client has sent and what is left to read of it;
`tasks` is the queue of a channel's event loop; `toClient` is what went out, and by which
encoder; `decoder`, `encoder`, `handler` are the three places of the pipeline, with the
login's handler, the game's, or one that is linked and has not joined; `received` is what
`ConnectedClient` was given; `snapshot` is `LoginHandoffStore.latestByHost`, `user` the
attribute `LOGIN_USERNAME`; `logins`, `login`, `step` belong to login-thread, `continues`,
`toAdd`, `adding`, `stage` to the tick engine; `response` and `listening` are the future of
the lobby response.

| code | actions |
|---|---|
| `LoginServerDecoder.decode`, `LoginServerHandler.channelRead0` | `Read`: `DecodeLogin` (`Submit` or `Refuse`), `DecodeContinue`, `DecodePacket` |
| netty's event loop | `RunTask`: `RunWrite`, `RunAdd`, `RunNotify` |
| the listener of the lobby response | `Listener`, `EnterGame` |
| `LoginThread.run` and the callback | `Take`, `AnswerCode`, `Remember`, `RespondGame` or `RespondLobby`, `AddListener` |
| `addPlayerNow`, `World.tick`, `WorldPlayer.added` | `AddPlayerNow`, `AddPostLobby`, `LoginResponse`, `Replace` per handler, `Rebuild` |
| clients | `ClientLogsIn`, `ClientContinues`, `ClientSpeaks`, `ClientLeaves` |

Netty is modelled from what the code relies on: a `replace` from another thread links the
new handler at once and adds it by a task, until when events pass it by; a `write` from
another thread goes by the encoder that is linked when it is called, and is a task; a
listener added to a future that is done is a task. What registering a player does to its
namesakes is `World`'s: here a channel may close at any step (`ClientLeaves`).

A client waits for the server's first packet before it sends any, unless it is in `Eager`.
Only the default `AuthoritativeLoginProcessor` is modelled, and game logins are those that
take up a lobby login (a reconnecting header).

## 4. What the runs check

| run | module / cfg | properties | shows |
|---|---|---|---|
| `js5_session` | `MCJs5Session` / `Js5Session.cfg` | `NoStuckKey`, `OneResponsePerKey`, `NoGarbledArchive`, `ThreadDiesOnlyOnClose`, `NoZombieSession`, `ServiceSpec`, `AnsweredOrSpinning` | under every interleaving of the two threads, with a missing archive, no master table, a malformed reference table, the logged-out prefetch, closing and dropping: in-flight sets, queues and the client's view agree, the session implements the service, and each accepted request is answered, unless the session ends or `process` spins in its loop with a budget too small for a block (132 thousand states) |
| `world` | `MCWorld` / `World.cfg` | `SlotsMatchPlayers`, `OneEntryPerName`, `NobodyLeftHanging`, `RosterSpec`, `LoginSettled`, `GhostsSwept` | with failing bootstraps, full slots, throwing players and dropping channels: players and slots agree, a name is in the world once, nobody is left hanging, the world implements the roster, each login is registered or loses its channel, and a player without a channel leaves (304 thousand states) |
| `cache_downloader` | `MCCacheDownloader` / `CacheDownloader.cfg` | `Accounted`, `StoredIsRight`, `NoFailureWithoutRetry` | with a lost, stalled or refused connection, failing HTTP and main closing the pool whenever it may: no request is lost or doubled among the sets, none has two clients, only whole archives are stored (3.4 million states) |
| `cache_downloader_live` | `CacheDownloaderLive.cfg` | `Settles` | each archive asked for is stored or refused by its checksum, unless it was dropped, the pool is closed or the program ends (272 thousand states) |
| `cache_downloader_http` | `CacheDownloaderHttp.cfg` | `HttpOutlivesPool` (violated) | see Findings |
| `tls_proxy` | `MCTlsProxy` / `TlsProxy.cfg` | `StreamsIntact`, `NothingCutShort`, `WholeRequests`, `RoutedRight`, `NoSocketLeft`, `ProxySettles`, `GameEnds` | for every kind of client, with its bytes cut anywhere and both peers ending, resetting or stalling at any step: bytes arrive once and in order, requests whole, sessions at the right backend; sockets are closed and sessions end (451 thousand states) |
| `retail_proxy` | `RetailProxy` / `RetailProxy.cfg` | `WireOrder`, `NoneForgotten`, `LocalFollows` | with the connection failing, refused, rejected, reset or closed at any step: both directions keep their order, no chunk stays on a ready connection, at most one on a closed proxy, and the client's connection follows the retail server's (44 thousand states) |
| `retail_left` | `RetailProxyLeft.cfg` | `RemoteFollows` (violated) | see Findings |
| `pipeline` | `MCPipeline` / `Pipeline.cfg` | `TypeOK`, `CacheIsCurrent`, `QuietMeansCached`, `OutputsAreRight` | with an edit, failing scripts, kills, partial runs and a tool: a skipped phase would change nothing, runs over unchanged sources come to skip everything whatever went before, and a complete run, after a bad one with `--force`, leaves what the sources make (2.3 million states) |
| `bot_ops` | `MCBotOps` / `BotOps.cfg` | `OneAtATime`, `NoOrphan`, `LockAndRows`, `StopStops`, `JobsEnd` | with overlapping commands, rejected calls of Discord, spawns, probes, tools and writes of the pid that fail, a taskkill that does or does not do its work, and a bot that ends at any step, between spawn and store too: jobs exclude each other, lock and rows agree, every job is over some time, and but for the servers gone astray the stored pid is the only server and none runs when `stop()` returns (512 thousand states) |
| `bot_busy` | `BotOpsBusy.cfg` | `BusyMeansRunning` (violated) | see Findings |
| `login` | `MCLogin` / `Login.cfg` | `PacketsArrive`, `EncodedRight`, `HandedOver`, `LoginsSettle` | with three threads on each channel, which may close at any step: a packet of a client that waits reaches `ConnectedClient`, each message goes out by the encoder it is meant for, a game login takes up the lobby login of its user, and each login is over some time (147 thousand states) |

`Accounted` and `StreamsIntact` are conjunctions of named parts (`OnePlace`, `NeverBoth`,
`OwnedOnce`, `Tracked`; `UpstreamIntact`, `DownstreamIntact`) and of the module's type invariant.
The type invariants of the modules with a `TypeCorrect` theorem are proved and not run again.

For every property of a passing run there is a mutant of the code, named in
`PROJECT.json`, that violates it: a forgotten removal from the in-flight set, a swapped
order in `close`, a recycled response starting over, a refused login left connected, a
chunk flushed and its successors not, an index left out of a fingerprint, and so on. Each is defined
before the operator it changes, with a comment "Mutant".

The `Js5Session` runs do not check deadlock: a session whose channel is inactive, or
whose thread has died, stops. Nor do those of `CacheDownloader` (the program exits),
`TlsProxy` and `RetailProxy` (a session ends), `Pipeline` (the runs of the instance are used up),
`BotOps` (so are its commands) and `Login` (so are its clients).
The `World` run does: ticks go on for ever.

## 5. Bounds

- **Js5Session.** Four keys: the master table, which the cache lacks, a malformed reference
  table (duplicates allowed while logged out), an archive of two blocks and an archive the
  cache lacks. Header 1, payload 2 and budget 9 stand for 5, 102395 and 10 000 000: a response
  takes several blocks, a budget several responses, and 9 is a budget the blocks do
  not divide, so that a remainder too small for a header occurs. `MaxRequests` is 2: a
  request and its duplicate, or another one, in one or both priorities, and the prefetch on
  top. All interleavings the hazards speak of need two requests, and the safety
  properties are proved for any number. The bound on requests is also
  why starvation of low-priority requests by an endless stream of high-priority ones
  is outside the run.
- **World.** Four logins of three names over three channels and two slots: a name that
  logs in by both queues, a channel that hands over two logins, and a third name for
  which there is no slot. A login is handed over once (it is a new `WorldPlayer` object), so four logins
  bound the behaviours; names, channels and capacity are what the properties tell
  apart, and four logins suffice to replace, refuse and readmit.
- **CacheDownloader.** Two archives of a JS5 index, of two blocks and of one, and one
  archive of index 40; two clients with room for one request each, so that a request
  finds no client, or another one after its client is replaced; two HTTP attempts, so
  that a failed one is retried over HTTP and then falls back to JS5; `MaxLosses` 1: one
  connection that is lost, stalls or is refused. One loss suffices for a retry upon an
  old buffer (which crashes a second client) and for a batch that finds its channel
  closed. The liveness run has one archive of each index.

- **RetailProxy.** Four chunks: one queued before the connection is ready, one that finds it
  ready while the flush is due, one written after it, and one past the test of `closed`; two
  payloads, so that order shows.
- **TlsProxy.** `MCCases` has one client for each route and option: localhost and world names
  with HTTP, JS5 and game traffic, a content name with a POST followed by a GET, other
  names, passthrough, and clients without TLS with and without a byte cap of one and of three
  tokens (below and above what is peeked at). No property relates two sessions, which share
  nothing that is modelled. A backend sends two tokens.
- **Pipeline.** Five runs after a first complete one, one edit, one tool, and the selections
  all, 1-2, 4, 4-5 and 3-5. Five runs are what `QuietMeansCached` takes: one that goes wrong, three that
  come to rest, and one that skips everything; with two of the three instead, the run finds the counterexample
  (the index of the second still moves). A source has two versions, so that an edit can be
  taken back, which is where fingerprints mislead; what that takes, three edits and four runs,
  is beyond the run's bounds, and `CacheIsCurrent` does fail there without `LeavesBehind`. The
  theorems have no bounds.
- **BotOps.** Two jobs, each of any kind, and a status command; two pids, so that a server that is
  started again has another one; the bot ends twice, once before and once after a restart.
  `BusyMeansRunning` is refuted in the same instance.
- **Login.** A lobby login and a game login of one user from one host, whose hand-off and order
  matter, and a lobby login of another user, from another host, that is eager: it runs the paths of a
  packet that comes too early. One packet: that several stay in order is proved (`PacketsNotLost`).

The proofs need none of these bounds.

## 6. Fairness

- **Js5Session**: `WF_vars(NettyStep)`, the event loop finishes the handler it is in,
  and `WF_vars(ThreadStep)`, js5-thread is scheduled while it lives (`run` is an
  endless loop over the sessions). Nothing is assumed of the client, which may never
  send, and of `LoggedIn`, `close` or a drop of the connection.
- **World**: `WF_vars(Tick)`, the executor runs the periodic task for ever since
  `submitTickable` catches its exceptions; `SF_vars(RunTask)`, since the executor's
  queue is ordered by due time: a task is due when it is submitted, and the due time of the
  ticks, however late they are, moves on by 600 ms with each of them, so that it comes to lie
  behind the task's;
  and weak fairness of a requested close. A peer need never disconnect.
- **CacheDownloader**: weak fairness of each thread (the handler's and main's endless
  loops, the two executors, each client's event loop with the server behind it: a
  server that stays connected goes on sending; one that does not is a loss, by the 30 s
  timeout). Nothing is assumed of the checkers.
- **TlsProxy**: weak fairness of the main thread and of each pump. Of a peer it is assumed only
  in sessions without timeouts, and only that it closes once it has been sent the end of the
  other's stream; a peer that does not is one a game session waits for as long as it likes.
- **RetailProxy**: weak fairness of the two event loops, and of the attempt to connect, which
  `CONNECT_TIMEOUT_MILLIS` ends. Nothing is assumed of the client or the retail server.
- **BotOps**: weak fairness of each job (`Handles`): a reply of Discord, a probe, taskkill and a tool
  with a timeout all settle, and Node then resumes the command; and of the bot being started
  again. Nothing is assumed of the server process.
- **Login**: weak fairness of login-thread, the tick engine and the event loops, each an endless
  loop over a queue; none of the clients.
- **Pipeline**: none; its properties are invariants.

## 7. What is proved

All theorems are about `Spec` and hold for any values of the constants that satisfy
the named assumptions: `KeysAssumption`, `SizeAssumption`, `FlagAssumption` and
`BoundAssumption` of `Js5Session` (kinds of keys, positive lengths and sizes),
`PlayersAssumption` (finitely many logins), `CapacityAssumption` (at least one slot)
and `FullAssumption` of `World`, `BoundsAssumption` of `RetailProxy`, `RequestsAssumption` (finitely
many archives), `IndexAssumption`, `BlocksAssumption` (each has a block) and `PoolAssumption` of
`CacheDownloader`, `CasesAssumption` and
`MaxRepliesAssumption` of `TlsProxy`, `SelectionsAssumption` (sets of phases, not empty) and
`BoundsAssumption` of `Pipeline`, `JobsAssumption` and `BoundsAssumption` of `BotOps`, and
`ChannelsAssumption` and `PacketsAssumption` of `Login`.

**`Js5SessionProofs`**: `TypeCorrect` (`Spec => []TypeOK`), with one lemma per group of
variables, and lemmas on the parts of the invariant that concern the event loop's and
the thread's steps; `Invariant` (`Spec => []IInv`), and from it
`NoStuckKeyTheorem`, `OneResponseTheorem`, `NoGarbledTheorem`, `BudgetTheorem`,
`ThreadDiesTheorem`, `NoZombieTheorem`; and the refinement `SessionImplementsService`
(`Spec => ServiceSpec`). What the inductive invariant adds to the properties:

- `CloseOrder`: the queues are only cleared after the channel is closed. Without it,
  clearing would break `NoStuckKey` on an open connection.
- `InlineMaster`: only the master table goes inline, so that the early removal of its
  key (`InlineMiss`) does not touch a plain key.
- `TakeFindsOne`: between `isNotEmpty` and `removeFirst` an open session's deque is not
  emptied; `ThreadDiesOnlyOnClose` rests on it.
- `Offsets`: a response in hand or pending has bytes left, so a key is dropped exactly
  when the last byte is written.
- `ClientInOrder`: what a client has of a key is what its one response has sent;
  `NoGarbledArchive` follows from it together with `OneResponsePerKey`.

The refinement rests on the same invariant: `OneResponsePerKey` says that the response in hand is of
a request that is *asked*, `ClientInOrder` that the client holds of it what was sent so far. So
`EnqueueRequest` of a plain key is `Accept`, a block that is written is `Send`, `Recycle` after the
last block and `LoadMissing` are `Finish`, the step that closes the channel is `HangUp`, and every other
step, on any key, is a stutter (`ServiceStep`, with one step per action).

**`WorldProofs`**: `WorldInvariant` (`Spec => []IInv`) and from it `TypeCorrect`,
`SlotsAlwaysMatch`, `OneEntry`, `NobodyHangs`, `SweepComesFirst`; and the refinement
`WorldImplementsRoster` (`Spec => RosterSpec`). Its lemmas `Insertion` and `Removal` say what
`EntityList.add` and `remove` do to a one-to-one correspondence of players and slots,
`PlayersFitSlots` that there are never more players than slots. What the invariant adds:

- `QueuesOnce`: a login is in one queue once and not in the world. Registering a player
  that is already there would give it a second slot.
- `CopyCurrent`: the copy a tick goes through holds only players that are still there;
  removing one twice would count `size` down twice.
- `SweptSoFar`: the part of the sweep that is done, from which `SweptBeforeRun` follows.
- `ClockCounts`: bounds `clock`, for the type invariant.

`BudgetTheorem` and `SweepComesFirst` state properties (`BudgetRespected`, `SweptBeforeRun`) that no
run repeats.

**`RetailProxyProofs`**: `Invariant` (`Spec => []IInv`) and from it `TypeCorrect`, `InOrder`
(`WireOrder`) and `NoneLeft` (`NoneForgotten`), for any number of chunks and payloads. What the
invariant adds:

- `Flags`: what may be set before what; that `close` is reached only from a connection that is
  gone, so that nothing is written after it.
- `Waiting`: while the connection lives, the chunks written, then those queued, then those given
  to the remote loop as tasks, are the chunks sent, in order, but for one that is past the test of
  `closed`. It is why a chunk that finds the connection ready does not overtake those
  queued: its write is a task, and the flush comes first.
- `Payloads`: the same of the other direction, with orders to close behind the payloads only.
- `Flushed`, `Released`: when the queue is empty.

**`TlsProxyProofs`**: `SocketsClosed` (`NoSocketLeft`), from the invariant `Sockets`: the connection on
trial is open only while the session is inspected. `TlsInvariant` (`Spec => []TlsInv`), and from it
`BytesIntact` (`StreamsIntact`), `EndsAfterEverything` (`NothingCutShort`), `RequestsWhole`
(`WholeRequests`) and `Routed` (`RoutedRight`), for any clients that send well-formed requests
(`WellFormed`, in `CasesAssumption`: what the tokens stand for), any options and caps, and any number
of replies. What the invariant adds:

- `UpFlow`: what arrived, with the rewriting undone, followed by what is in hand is the beginning
  of what the client sent, whatever fails; and with what is still unread it is all of it as long as no
  thread has given up (`Flowing`; at the cap a pump drops the rest, so `Flowing` ends there). `DownFlow`
  is the same of the backend's replies.
- `Scripted`: a TLS client sends its own data after the handshake only. It is why all that can be
  peeked at is a part of the ClientHello (`PeekedAt`), and nothing of the client's data is lost
  when the proxy takes the hello.
- `Unread`, `Known`, `Pumping`: who holds bytes where, and what is decided by then. A raw session never
  parses requests, a pump of an HTTP session sends only when it has a whole one.
- `Ended`: a pump that ended in a session without timeouts has seen its source end or its
  target gone; with `UpFlow` it follows that it passed on everything.
- `Decided`: what `source` says of the client's first bytes, from the peek and the sniffing of
  `SniffedRight` to the first byte the retail server gets.

`WholeRequest` shows that a request cut off by its length ends where the next one begins, and has the one
`get2` that is rewritten. `RequestLength` takes a least element with `Min`; that there is
one is `LeastOf`, from the well-foundedness of `<` on the naturals.

**`BotOpsProofs`**: `TypeCorrect`; `JobsExclude` (`OneAtATime`) and `LockMatchesRows`
(`LockAndRows`) from `LockInv`; `ServerIsKnown` (`NoOrphan`) and `StopLeavesNoServer` (`StopStops`)
from `ServerInv`, for any number of commands, pids and ends of the bot. `ServerInv` adds what a job
remembers across an await and may rely on: before it spawns, that no server runs if its
`status()` found none; until it has stored the pid, that the process it spawned is the only one;
while taskkill is at work, that the process it was told is; each time but for those gone astray. It
holds since no other job is at work meanwhile (`OthersRememberNothing`), and a status command
only forgets pids of processes that are gone. Nothing is assumed of taskkill, of setSetting or of
the moment the bot ends: the steps in which they may lose a server (`Ends`, `StoreThrows`,
`Kills`) are the only ones that add to `astray`, and the theorems say that no other step does
what they do.

**`LoginProofs`**: `TypeCorrect`, and `HandOffIsRight` (`HandedOver`) for hosts of one user each
(`OwnHosts`). The invariant `HandOff` follows the order of things back from the game login: its
client has seen the whole answer of a lobby login, which was written, which was a task before, which
login-thread gave after it remembered the snapshot; and a snapshot is only ever replaced by one of
the same host. Without `OwnHosts`, two users behind one address overwrite each other's snapshot.
`MessagesEncodedRight` (`EncodedRight`) and `PacketsNotLost` (`PacketsArrive`) need no such
hypothesis. They rest on three invariants, each the ground of the next, one predicate per channel:

- `Answers` (`OneAnswer`): a login is in one place at most (unread, queued, in hand), and once
  it is answered it is in none. So the answer of a login is given once, and a client that
  continues is one of a game login that was answered.
- `Switches` (`OneSwitch`): `GAMELOGIN_CONTINUE` is taken up once, so the handlers are replaced
  once, one after the other; a lobby's listener replaces them all in one task. A handler is
  linked exactly as long as the event loop has its `handlerAdded` to run (`Joins`), and no
  such task comes after the first packet of the game (`FirstPacket`): the packet goes out, and the client
  speaks, when nothing is left half in place.
- `Hearing` (`Heard`): a client that waits has sent no packet before that, and the received
  packets followed by the unread ones hold the packets sent, in the order of sending.

`PacketsArrive` compares what is sent and what arrives by which packets there are and which comes before which,
rather than by filtering both: a client sends no packet twice, so this says the same, and it can be
proved step by step, where a fact about the recursive `SelectSeq` cannot.

**`CacheDownloaderProofs`**: `Invariant` (`Spec => []IInv`), and from it `BooksBalance` (`Accounted`),
`OnlyRightIsStored` (`StoredIsRight`) and `FailuresAreRetries` (`NoFailureWithoutRetry`), for any
archives, clients and connections, any pool and any number of crashes. What the invariant adds:

- `Filled`: a request is completed exactly when its buffer is full.
- `Marks`: which requests are completed or crashed, by the place they are in: only crashed ones are
  queued again, only completed ones are written.
- `HttpTasks`: a task of the HTTP executor is for a request that waits for it and has no mark yet.
- `HandlerWork`: what the handler holds between two of its steps is still where it found it; the
  batch it is about to send is nobody's yet. `OwnedOnce` would fail at the send without it.
- `ClientWork`: a client waits for no crashed request, so that one that comes back does not
  complete a request that has been given to another.
- `Unspoilt`: the buffer of a request that was never retried holds the first blocks of its answer, and the rest
  is what its client still expects. It is why a download that was never repeated is whole when it is complete.

**`PipelineProofs`**: `Types` (`TypeOK`), `PipelineInvariant` (`Spec => []IInv`), and from it
`SkippedPhasesAreCurrent` (`CacheIsCurrent`), `QuietRunsAreCached` (`QuietMeansCached`) and
`OutputsOfSources` (`OutputsAreRight`), for any selections and any number of runs, edits and tools. What
the invariant adds:

- `InPlace`: between two runs that went well the entries of phases 1 to 4 are of the same names, an
  entry says what its artifact was made from, and the candidates and drafts are of what is before them.
- `OnTheWay`: in such a run, where an artifact is behind what it is made from, its phase is still to
  come and is `Due`, because of `--force` or of the names, and so will not be skipped. It is
  here that a partial run breaks the invariant: it leaves a phase behind that nothing in the
  manifest tells from one that is in place.
- `Heals`: a complete run with `--force` puts in place whatever it passes.
- `Passed`, `Again`, `Rested`, `Still`: how the index moves. A complete run leaves the entries of
  phases 3 and 4 at the index it began with and the new index as its artifacts are; so the next one
  runs phase 3 only if the index moved, which happens once if the candidates are right and
  twice if they are not.

**Only model-checked**: the liveness properties (the prover has no fairness) and the
counterexamples below. Every invariant and both refinements that a passing run checks are proved.

## 8. Findings

- `cache_downloader_http`: closing the pool when JS5 is done calls `shutdownNow` on the HTTP
  executor (`Js5ClientPool.kt:251`), which discards queued downloads, while main waits for
  them to say "All http operations are done, preparing to shutdown"
  (`CacheDownloader.kt:347`).

- `retail_left`: when the client's connection drops, `Js5Handler.channelInactive`
  (`net/js5/Js5Handler.kt:76`) takes the session off js5-thread's list and does not call
  `Js5Session.close`, the one place that closes the retail proxy; its connection and event loop
  group stay until the retail server closes, against "remove session if the client connection drops
  and doesn't send the termination packet" (line 75).

- `bot_busy`: `await reporter.start(job)` stands before the `try` whose `finally` resets
  `currentJobId` (`discord-bot/src/ops/JobCoordinator.ts:41`). When Discord rejects that reply, every later
  command is refused with "Another job is already running" (line 26) until the bot is restarted.

Some properties are stated around what the code does, and say so:

- `AnsweredOrSpinning` (`NoRoom`): `process` may loop for ever once its remaining budget is positive
  and at most a block header.
- `Accounted` and `Settles` leave out the requests in `dropped`: `addAllUnchecked` returns silently when the
  channel has closed since the client's room was counted (`tools/impl/cachedownloader/Js5Client.kt:56`).
  The batch is then in `processing` and in no client's table, and never among those queued again.
- `RoutedRight` speaks of sniffed sessions: `classify_tls_first_appdata`, on the route for inspected ones,
  decides on whatever the first read returns (`tls_terminate_proxy.py:1302`), so that an HTTP method in two
  parts goes to the game backend; `sniff_terminated_tls_route` waits for more.
- `PacketsArrive` leaves out eager clients: the login response is written before the pipeline is switched
  (`model/world/WorldPlayer.kt:2834`), and a packet sent upon it meets the login's decoder, or no
  handler.
- `NoOrphan` and `StopStops` leave out the servers in `astray`, which the code loses in three ways.
  `start` spawns the server, detached, at `discord-bot/src/ops/ServerController.ts:105` and stores its
  pid at line 123: if the bot ends in between, or `setSetting` throws there, nothing ends the server
  and no later `stop` finds it. And `stop` takes the close of taskkill for its success (line 158):
  a server that taskkill left alone is reported with "OpenNXT stopped." (`index.ts:346`), and its
  pid is forgotten. The two properties say that no server is lost otherwise, so a job that fails, a
  status command or an end of the bot anywhere else loses none.
- `CacheIsCurrent` and `OutputsAreRight` leave out what `disturbed` marks. After a failed run, or one of
  some of the phases, a skipped phase may stand for a file that no longer is what its script would make
  (`run_946_pipeline.py:182`: the output of earlier phases is not hashed), and later runs do not find
  out; a complete run with `--force` does.

## 9. What is not modelled

Every component is in `PROJECT.json`, those that are not modelled with the reason. Left for later: the
lobby (a queue and a tick like the world's; one player that throws there stops the tick of all that
follow), the game proxy's pair of channels, tickets and webhooks of the bot (a check or a record
separated from its effect by an await), and the deferred varps of `ConnectedClient`. For good:
the framing of game packets and the bits of player info, which are sequential codecs,
the content of archives and packets, tracing and logging, the codecs of `filesystem/`
(pure functions over bytes), the fixed list of packets a world player's bootstrap sends,
HTTP endpoints without state, start-up and configuration, the scripts that analyse captures
one after the other, and the launchers and watchers: what can go wrong in those depends on
what a patched client and the operating system do, which nothing in the repository says. Of the modelled components: several sessions on one js5-thread, the XOR key, the
handshake before a session exists, and a client that takes every block but the last to be 102400 bytes
long, as the cache downloader's does: `writeResponseBlock` cuts a block at the rest of the byte budget
(`net/js5/Js5Session.kt:370`), and the client of `Js5Session` is told where a block ends; what a player does in its tick (it returns, or
throws), and more than one core thread in the executor, which the code rules out; of the
downloader, its set-up, targeted downloads and prefetch tables, and what SQLite makes of a
write that main's exit breaks off (main's test counts queued operations only).
On a machine with one processor `TickEngine` asks for a pool of -1 threads and does
not start at all; the model begins after start-up.
Of logging in: `ProxyLoginProcessor` and the proxy's passthrough channel, malformed requests (answered and
closed), fresh game logins, several login requests on one channel, and a callback that throws. Of the bot:
see `BotOps` above, and the steps of the set-up between its first and last tool, each of which may fail.
Of the TLS proxy: the tracker of HTTP responses, which only logs, the accept loop, and the sticky
world host; of the pipeline: the tools at the end of a run beyond their failing, the runtime
verifier, a manifest broken off half way by a kill, and what the scripts compute.
