-------------------------------- MODULE BotOps --------------------------------
(***************************************************************************)
(* The host operations of the Discord bot (src/discord-bot): commands that *)
(* start, stop, restart or set up the game server, run as exclusive jobs   *)
(* by JobCoordinator, and ServerController, which knows the server by the  *)
(* pid it keeps in the database.                                           *)
(*                                                                         *)
(* Node runs one callback at a time: the other commands run while one      *)
(* awaits a call of Discord, which may be rejected, probes of ports,       *)
(* taskkill or the tools of the set-up.  A failed error reply or spawn     *)
(* ends the bot, as any other cause may, at any moment: so an action does  *)
(* at most one thing that lasts, a write to the database or a process.     *)
(* The bot forgets its commands, and the database and the server, a        *)
(* detached process, stay.                                                 *)
(***************************************************************************)
EXTENDS Naturals

CONSTANTS Jobs,      \* commands that run as a job
          Looks,     \* "/server status" commands, which are not jobs
          Pids,      \* process ids the system gives
          None,      \* no pid, no job
          MaxCrashes \* bound: how often the bot ends

Kinds == {"start", "stop", "restart", "bootstrap"}

ASSUME JobsAssumption == Jobs \cap Looks = {} /\ None \notin Jobs \cup Pids
ASSUME BoundsAssumption == MaxCrashes \in Nat

VARIABLES
    up,           \* the bot runs
    crashes,      \* how often it ended
    currentJobId, \* JobCoordinator.currentJobId
    kind,         \* what each job is to do
    row,          \* status of each job in the database
    pid,          \* setting server.pid, None when empty
    alive,        \* server processes that run
    used,         \* pids given so far
    astray,       \* history: servers whose pid was lost before it was stored, or
                  \* forgotten over a taskkill that left them alone
    pc,           \* what each command awaits, or is about to do
    running,      \* what the status() in progress will return to it
    target        \* the pid it has spawned, or has taskkill end

bot == <<up, crashes>>
processes == <<alive, used, astray>>
server == <<pid, processes>>
locals == <<running, target>>
vars == <<bot, currentJobId, kind, row, server, pc, locals>>

\* Inside runExclusive: a call of the reporter, of the tools, of ServerController.
Reporting == {"report", "stage", "say", "ready", "tell", "good", "bad"}
\* Amid a callback: the pid of a new server is to be stored, an exception to be caught.
Midway == {"store", "thrown"}
Working == Reporting \cup Midway \cup {"build", "look", "kill", "probe", "wait", "undo", "check"}

TypeOK ==
    /\ up \in BOOLEAN /\ crashes \in 0..MaxCrashes
    /\ currentJobId \in Jobs \cup {None}
    /\ kind \in [Jobs -> Kinds \cup {"none"}]
    /\ row \in [Jobs -> {"none", "running", "succeeded", "failed"}]
    /\ pid \in Pids \cup {None} /\ used \subseteq Pids
    /\ alive \subseteq used /\ astray \subseteq used
    /\ pc \in [Jobs \cup Looks -> Working \cup {"idle", "looking", "reply", "ended", "lost"}]
    /\ running \in [Jobs -> BOOLEAN] /\ target \in [Jobs -> Pids \cup {None}]

Init ==
    /\ up = TRUE /\ crashes = 0 /\ currentJobId = None
    /\ kind = [j \in Jobs |-> "none"] /\ row = [j \in Jobs |-> "none"]
    /\ pid = None /\ alive = {} /\ used = {} /\ astray = {}
    /\ pc = [h \in Jobs \cup Looks |-> "idle"]
    /\ running = [j \in Jobs |-> FALSE] /\ target = [j \in Jobs |-> None]

\* Nothing that is awaited resumes a command amid a callback of another.
AtRest == \A j \in Jobs : pc[j] \notin Midway
Awaits(h, where) == up /\ AtRest /\ pc[h] \in where
Continues(j, where) == up /\ pc[j] = where
Goto(h, where) == pc' = [pc EXCEPT ![h] = where]

-----------------------------------------------------------------------------
(* ServerController.  Its actions leave bot and currentJobId alone.  Of the    *)
(* writes to the database those of settings may fail; so may loadServerConfig. *)

\* processExists of the stored pid
Running == pid \in alive

\* The servers P are never stopped by a later command, as no pid is left of them.
Lost(P) == astray' = astray \cup (P \cap alive)

\* The part of status() before its probes: a pid whose process is gone is forgotten.
ForgetsStale == pid' = IF Running THEN pid ELSE None

\* status() called by job j
ReadsStatus(j) ==
    /\ ForgetsStale
    /\ running' = [running EXCEPT ![j] = Running]
    /\ UNCHANGED target

\* An exception, from here to the catch clause of runExclusive
Throws(j) == Goto(j, "thrown")

\* start() up to the probes of its status()
Starts(j) == ReadsStatus(j) /\ Goto(j, "probe") /\ UNCHANGED <<row, processes>>

\* What follows stop(): restart() goes on to the status() of start(), which finds no pid
\* or throws.
AfterStop(j) ==
    /\ pid' = None
    /\ running' = [running EXCEPT ![j] = FALSE]
    /\ \/ Goto(j, CASE kind[j] = "restart" -> "probe"
                    [] kind[j] = "bootstrap" -> "ready"
                    [] OTHER -> "tell")
       \/ kind[j] = "restart" /\ Throws(j)

\* stop() up to taskkill; without a process there is nothing to kill
Stops(j) ==
    /\ \/ /\ Running
          /\ target' = [target EXCEPT ![j] = pid]
          /\ Goto(j, "kill") /\ UNCHANGED <<pid, running>>
       \/ ~Running /\ AfterStop(j) /\ UNCHANGED target
    /\ UNCHANGED <<row, processes>>

\* Mutant: stop() does not wait for taskkill.
KillsUnwaited(j) == UNCHANGED <<alive, astray>>

\* taskkill has closed; stop(), which forgets the pid, does not ask for its exit code.
Kills(j) ==
    \/ alive' = alive \ {target[j]} /\ UNCHANGED astray
    \/ Lost({target[j]}) /\ UNCHANGED alive

KillCloses(j) ==
    /\ Awaits(j, {"kill"}) /\ Kills(j) /\ AfterStop(j)
    /\ target' = [target EXCEPT ![j] = None]
    /\ UNCHANGED <<row, used>>

\* The same in the stop() of a start() that fails
UndoCloses(j) ==
    /\ Awaits(j, {"undo"}) /\ Kills(j) /\ pid' = None /\ Throws(j)
    /\ target' = [target EXCEPT ![j] = None]
    /\ UNCHANGED <<row, used, running>>

\* taskkill cannot be started, or the pid not be cleared after it: stop() throws
KillErrors(j) ==
    /\ Awaits(j, {"kill", "undo"}) /\ Throws(j)
    /\ alive' \in {alive, alive \ {target[j]}}
    /\ target' = [target EXCEPT ![j] = None]
    /\ UNCHANGED <<row, pid, used, astray, running>>

\* start() finds a server, no installed distribution, or no log to write to
StartRefuses(j) ==
    /\ Awaits(j, {"probe"}) /\ Throws(j)
    /\ running' = [running EXCEPT ![j] = FALSE]
    /\ UNCHANGED <<row, server, target>>

\* Mutant: a server that runs is no obstacle.
SpawnsAnyway(j) ==
    /\ Awaits(j, {"probe"})
    /\ \E p \in Pids \ used :
          /\ alive' = alive \cup {p} /\ used' = used \cup {p}
          /\ target' = [target EXCEPT ![j] = p]
    /\ Goto(j, "store") /\ UNCHANGED <<row, pid, astray, running>>

\* start() spawns the server, detached: it runs from here on
Spawns(j) ==
    /\ Awaits(j, {"probe"}) /\ ~running[j]
    /\ \E p \in Pids \ used :
          /\ alive' = alive \cup {p} /\ used' = used \cup {p}
          /\ target' = [target EXCEPT ![j] = p]
    /\ Goto(j, "store") /\ UNCHANGED <<row, pid, astray, running>>

\* and stores its pid.  The other settings or loadServerConfig may throw after that.
Stores(j) ==
    /\ Continues(j, "store") /\ pid' = target[j]
    /\ target' = [target EXCEPT ![j] = None]
    /\ Goto(j, "wait") \/ Throws(j)
    /\ UNCHANGED <<row, processes, running>>

\* The pid cannot be stored: nothing undoes the spawn.
StoreThrows(j) ==
    /\ Continues(j, "store") /\ Lost({target[j]}) /\ Throws(j)
    /\ target' = [target EXCEPT ![j] = None]
    /\ UNCHANGED <<row, pid, alive, used, running>>

\* waitForPort finds both ports open; bootstrap asks for the status once more
PortsOpen(j) ==
    /\ Awaits(j, {"wait"}) /\ alive # {}
    /\ \/ kind[j] = "bootstrap" /\ ReadsStatus(j) /\ Goto(j, "check")
       \/ kind[j] = "bootstrap" /\ Throws(j) /\ UNCHANGED <<pid, locals>>
       \/ kind[j] # "bootstrap" /\ Goto(j, "tell") /\ UNCHANGED <<pid, locals>>
    /\ UNCHANGED <<row, processes>>

\* Mutant: waitForPort waits for ever.
PortsStayShutUnseen(j) == FALSE

\* It gives up after thirty seconds: start() calls stop() and throws.
PortsStayShut(j) ==
    /\ Awaits(j, {"wait"})
    /\ \/ /\ Running
          /\ target' = [target EXCEPT ![j] = pid]
          /\ Goto(j, "undo") /\ UNCHANGED pid
       \/ ~Running /\ pid' \in {pid, None} /\ Throws(j) /\ UNCHANGED target
    /\ UNCHANGED <<row, processes, running>>

Controls(j) ==
    /\ \/ KillCloses(j) \/ UndoCloses(j) \/ KillErrors(j) \/ StartRefuses(j) \/ Spawns(j)
       \/ Stores(j) \/ StoreThrows(j) \/ PortsOpen(j) \/ PortsStayShut(j)
    /\ UNCHANGED <<bot, currentJobId, kind>>

-----------------------------------------------------------------------------
(* The work of a job: index.ts and OpenNxtOpsService                         *)

\* Its first stage is shown.
FirstStageShown(j) ==
    /\ Awaits(j, {"stage"})
    /\ \/ kind[j] = "start" /\ Starts(j)
       \/ kind[j] \in {"stop", "restart"} /\ Stops(j)
       \/ kind[j] = "bootstrap" /\ Goto(j, "build") /\ UNCHANGED <<row, server, locals>>

\* Gradle and the tools, each ended or stopped by its timeout, are done.
Built(j) ==
    /\ Awaits(j, {"build"}) /\ ReadsStatus(j) /\ Goto(j, "look")
    /\ UNCHANGED <<row, processes>>

Looked(j) ==
    /\ Awaits(j, {"look"}) /\ Goto(j, IF running[j] THEN "say" ELSE "ready")
    /\ running' = [running EXCEPT ![j] = FALSE]
    /\ UNCHANGED <<row, server, target>>

RestartStageShown(j) == Awaits(j, {"say"}) /\ Stops(j)

StartStageShown(j) == Awaits(j, {"ready"}) /\ Starts(j)

Checked(j) ==
    /\ Awaits(j, {"check"}) /\ Goto(j, "tell")
    /\ running' = [running EXCEPT ![j] = FALSE]
    /\ UNCHANGED <<row, server, target>>

\* The last stage is shown, and the work is done.
LastStageShown(j) ==
    /\ Awaits(j, {"tell"}) /\ Goto(j, "good")
    /\ row' = [row EXCEPT ![j] = "succeeded"]
    /\ UNCHANGED <<server, locals>>

\* A stage is rejected, the audit or a tool fails, assertAllowed finds that
\* OPENNXT_ALLOWED_COMMAND_SET leaves out what comes next, or the status() or stop()
\* that comes next throws before it has changed anything.
WorkFails(j) ==
    /\ Awaits(j, {"stage", "build", "say", "ready", "tell"}) /\ Throws(j)
    /\ UNCHANGED <<row, server, locals>>

Work(j) ==
    /\ \/ FirstStageShown(j) \/ Built(j) \/ Looked(j) \/ RestartStageShown(j)
       \/ StartStageShown(j) \/ Checked(j) \/ LastStageShown(j) \/ WorkFails(j)
    /\ UNCHANGED <<bot, currentJobId, kind>>

-----------------------------------------------------------------------------
(* JobCoordinator.runExclusive and the handler of interactions               *)

\* The command is deferred, and refused while a job is recorded as current.
Acquires(j) == currentJobId' = j

RunExclusive(j) ==
    /\ Awaits(j, {"idle"})
    /\ \E k \in Kinds : kind' = [kind EXCEPT ![j] = k]
    /\ \/ currentJobId # None /\ Goto(j, "reply") /\ UNCHANGED <<currentJobId, row>>
       \/ /\ currentJobId = None
          /\ Acquires(j) /\ row' = [row EXCEPT ![j] = "running"] /\ Goto(j, "report")
    /\ UNCHANGED <<bot, server, locals>>

\* reporter.start, outside the try block
ReportResolves(j) ==
    /\ Awaits(j, {"report"}) /\ Goto(j, "stage")
    /\ UNCHANGED <<bot, currentJobId, kind, row, server, locals>>

ReportRejects(j) ==
    /\ Awaits(j, {"report"}) /\ Goto(j, "reply")
    /\ UNCHANGED <<bot, currentJobId, kind, row, server, locals>>

\* reporter.finish after the work: within the try block, so the catch clause takes over
FinishResolves(j) ==
    /\ Awaits(j, {"good"}) /\ currentJobId' = None /\ Goto(j, "ended")
    /\ UNCHANGED <<bot, kind, row, server, locals>>

\* Mutant: the job is released when its report is rejected, before the catch clause.
FinishRejectsReleased(j) ==
    /\ Awaits(j, {"good"}) /\ Throws(j) /\ currentJobId' = None
    /\ UNCHANGED <<bot, kind, row, server, locals>>

FinishRejects(j) ==
    /\ Awaits(j, {"good"}) /\ Throws(j)
    /\ UNCHANGED <<bot, currentJobId, kind, row, server, locals>>

\* The catch clause, up to its report
Catches(j) ==
    /\ Continues(j, "thrown") /\ Goto(j, "bad")
    /\ row' = [row EXCEPT ![j] = "failed"]
    /\ UNCHANGED <<bot, currentJobId, kind, server, locals>>

\* Mutant: only a job that succeeds is released.
FailureReportedHolding(j) ==
    /\ Awaits(j, {"bad"}) /\ Goto(j, "reply")
    /\ UNCHANGED <<bot, currentJobId, kind, row, server, locals>>

\* reporter.finish in the catch clause: rejected or not, the error goes on to the handler
FailureReported(j) ==
    /\ Awaits(j, {"bad"}) /\ currentJobId' = None /\ Goto(j, "reply")
    /\ UNCHANGED <<bot, kind, row, server, locals>>

\* "/server status"; its status() may throw
LookBegins(l) ==
    /\ Awaits(l, {"idle"})
    /\ \/ ForgetsStale /\ Goto(l, "looking")
       \/ UNCHANGED pid /\ Goto(l, "reply")
    /\ UNCHANGED <<bot, currentJobId, kind, row, processes, locals>>

LookEnds(l) ==
    /\ Awaits(l, {"looking"}) /\ \E where \in {"ended", "reply"} : Goto(l, where)
    /\ UNCHANGED <<bot, currentJobId, kind, row, server, locals>>

\* The error reply
Replies(h) ==
    /\ Awaits(h, {"reply"}) /\ Goto(h, "ended")
    /\ UNCHANGED <<bot, currentJobId, kind, row, server, locals>>

\* The server that start() has spawned and not yet stored the pid of
Unstored == {target[j] : j \in {i \in Jobs : pc[i] = "store"}}

\* The bot ends; its commands are never heard of again.
Ends ==
    /\ up /\ crashes < MaxCrashes
    /\ up' = FALSE /\ crashes' = crashes + 1 /\ currentJobId' = None
    /\ pc' = [h \in Jobs \cup Looks |-> IF pc[h] \in {"idle", "ended"} THEN pc[h] ELSE "lost"]
    /\ running' = [j \in Jobs |-> FALSE] /\ target' = [j \in Jobs |-> None]
    /\ Lost(Unstored) /\ UNCHANGED <<kind, row, alive, used>>

\* It is stopped, or the rejection of an error reply is handled by nobody.
Crash == Ends /\ UNCHANGED pid

\* So is the error of a server that cannot be spawned, after "undefined", which
\* names no process, has been stored as its pid.
SpawnFails(j) ==
    /\ Awaits(j, {"probe"}) /\ ~running[j]
    /\ Ends /\ pid' = None

Restarts == ~up /\ up' = TRUE /\ UNCHANGED <<crashes, currentJobId, kind, row, server, pc, locals>>

\* A server ends by itself, or by a taskkill whose bot is gone.
ServerExits ==
    /\ \E p \in alive : alive' = alive \ {p} /\ astray' = astray \ {p}
    /\ UNCHANGED <<bot, currentJobId, kind, row, pid, used, pc, locals>>

Coordinates(j) ==
    \/ ReportResolves(j) \/ ReportRejects(j) \/ FinishResolves(j) \/ FinishRejects(j)
    \/ Catches(j) \/ FailureReported(j)

Handles(j) == Work(j) \/ Controls(j) \/ Coordinates(j) \/ Replies(j)

Next ==
    \/ \E j \in Jobs : RunExclusive(j) \/ Handles(j) \/ SpawnFails(j)
    \/ \E l \in Looks : LookBegins(l) \/ LookEnds(l) \/ Replies(l)
    \/ Crash \/ Restarts \/ ServerExits

\* Node resumes a command once what it awaits has settled, which a reply of Discord, a
\* probe, taskkill and a tool with a timeout all do; the bot is started again.
Fairness == WF_vars(Restarts) /\ \A j \in Jobs : WF_vars(Handles(j))

Spec == Init /\ [][Next]_vars /\ Fairness

-----------------------------------------------------------------------------
(* Properties *)

\* runExclusive: no two jobs are at work at the same time, and the one at work is the
\* current one.
OneAtATime == \A j \in Jobs : pc[j] \in Working => currentJobId = j

\* ServerController: a server that runs is the one whose pid is stored, whatever commands
\* overlap, fail or end with the bot, but for the one whose pid start() is about to store
\* and those that went astray: the bot ended, or setSetting threw, between spawn and the
\* store, or a taskkill whose exit code nobody reads left them alone.
NoOrphan == alive \subseteq {pid} \cup Unstored \cup astray

\* JobCoordinator and the database agree: the current job is at work, unless its start
\* could not be reported, and a job whose row says running is current, unless the bot has
\* ended since.
LockAndRows ==
    /\ currentJobId # None => \/ pc[currentJobId] \in Working
                              \/ row[currentJobId] = "running"
    /\ \A j \in Jobs : row[j] = "running" => currentJobId = j \/ crashes > 0

\* stop: when stop() returns, whether it found a server or not, none runs but those that
\* went astray: the "OpenNXT stopped." or "No bot-managed server was running." that is
\* shown next, or the restart, is right about any other.
StopStops ==
    [][\A j \in Jobs :
          /\ kind[j] # "start" /\ pc[j] \in {"stage", "say", "kill"}
          /\ pc'[j] \in {"tell", "probe", "ready"}
          => alive' \subseteq astray']_vars

\* runExclusive, waitForPort: a job that began is over some time, or lost with the bot.
JobsEnd == \A j \in Jobs : pc[j] = "report" ~> pc[j] \in {"ended", "lost"}

\* runExclusive refuses a job with "Another job is already running": while it has a current
\* job, that job runs.
BusyMeansRunning == currentJobId # None => pc[currentJobId] \in Working
=============================================================================
