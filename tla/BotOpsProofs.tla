----------------------------- MODULE BotOpsProofs -----------------------------
(***************************************************************************)
(* Theorems about BotOps, for any number of commands, pids and crashes.    *)
(***************************************************************************)
EXTENDS BotOps, TLAPS

----------------------------------------------------------------------------
(* Types                                                                    *)

LEMMA InitTypes == Init => TypeOK
    BY BoundsAssumption DEF Init, TypeOK, Working, Reporting, Midway

LEMMA StatusTypes ==
    ASSUME TypeOK, NEW j \in Jobs, ReadsStatus(j)
    PROVE  /\ running' \in [Jobs -> BOOLEAN] /\ pid' \in Pids \cup {None}
           /\ UNCHANGED target
<1>1. running' = [running EXCEPT ![j] = Running] /\ running \in [Jobs -> BOOLEAN]
    BY DEF ReadsStatus, TypeOK
<1>2. Running \in BOOLEAN
    BY DEF Running
<1>3. running' \in [Jobs -> BOOLEAN]
    BY <1>1, <1>2, Zenon
<1> QED BY <1>3 DEF ReadsStatus, ForgetsStale, TypeOK

LEMMA ControlsTypes ==
    ASSUME TypeOK, NEW j \in Jobs, Controls(j)
    PROVE  TypeOK'
<1> USE DEF Awaits, Goto, Working, Reporting, Midway
<1>1. CASE KillCloses(j) \/ UndoCloses(j)
  <2>1. /\ alive' \subseteq used /\ astray' \subseteq used /\ used' = used
        /\ pid' = None /\ target' = [target EXCEPT ![j] = None]
        /\ row' = row
      BY <1>1 DEF TypeOK, KillCloses, UndoCloses, Kills, Lost, AfterStop
  <2>2. CASE KillCloses(j)
      BY <2>1, <2>2 DEF Controls, TypeOK, KillCloses, AfterStop, Throws, bot
  <2>3. CASE UndoCloses(j)
      BY <2>1, <2>3 DEF Controls, TypeOK, UndoCloses, Throws, bot
  <2> QED BY <1>1, <2>2, <2>3
<1>2. CASE KillErrors(j)
    BY <1>2 DEF Controls, TypeOK, KillErrors, Throws, bot
<1>3. CASE StartRefuses(j)
    BY <1>3 DEF Controls, TypeOK, StartRefuses, Throws, bot, server, processes
<1>4. CASE Spawns(j)
    BY <1>4 DEF Controls, TypeOK, Spawns, bot
<1>5. CASE Stores(j)
    BY <1>5 DEF Controls, TypeOK, Stores, Continues, Throws, bot, processes
<1>6. CASE StoreThrows(j)
    BY <1>6 DEF Controls, TypeOK, StoreThrows, Continues, Lost, Throws, bot
<1>7. CASE PortsOpen(j)
    BY <1>7, StatusTypes DEF Controls, TypeOK, PortsOpen, Throws, bot, processes, locals
<1>8. CASE PortsStayShut(j)
    BY <1>8 DEF Controls, TypeOK, PortsStayShut, Throws, Running, bot, processes
<1> QED BY <1>1, <1>2, <1>3, <1>4, <1>5, <1>6, <1>7, <1>8 DEF Controls

LEMMA StartsStopsTypes ==
    ASSUME TypeOK, NEW j \in Jobs, Starts(j) \/ Stops(j), UNCHANGED <<bot, currentJobId, kind>>
    PROVE  TypeOK'
<1> USE DEF Goto, Working, Reporting, Midway
<1>1. CASE Starts(j)
    BY <1>1, StatusTypes DEF TypeOK, Starts, bot, processes
<1>2. CASE Stops(j)
  <2>1. CASE Running
      BY <1>2, <2>1 DEF TypeOK, Stops, bot, processes
  <2>2. CASE ~Running
      BY <1>2, <2>2 DEF TypeOK, Stops, AfterStop, Throws, bot, processes
  <2> QED BY <2>1, <2>2
<1> QED BY <1>1, <1>2

LEMMA WorkTypes ==
    ASSUME TypeOK, NEW j \in Jobs, Work(j)
    PROVE  TypeOK'
<1> USE DEF Awaits, Goto, Working, Reporting, Midway
<1>1. CASE FirstStageShown(j)
  <2>1. CASE Starts(j) \/ Stops(j)
      BY <2>1, StartsStopsTypes DEF Work
  <2>2. CASE Goto(j, "build") /\ UNCHANGED <<row, server, locals>>
      BY <2>2 DEF Work, TypeOK, bot, server, processes, locals
  <2>3. Starts(j) \/ Stops(j) \/ (Goto(j, "build") /\ UNCHANGED <<row, server, locals>>)
      BY <1>1 DEF FirstStageShown
  <2> QED BY <2>1, <2>2, <2>3
<1>2. CASE Built(j)
    BY <1>2, StatusTypes DEF Work, TypeOK, Built, bot, processes
<1>3. CASE Looked(j) \/ Checked(j)
    BY <1>3 DEF Work, TypeOK, Looked, Checked, bot, server, processes
<1>4. CASE RestartStageShown(j) \/ StartStageShown(j)
    BY <1>4, StartsStopsTypes DEF Work, RestartStageShown, StartStageShown
<1>5. CASE LastStageShown(j) \/ WorkFails(j)
    BY <1>5 DEF Work, TypeOK, LastStageShown, WorkFails, Throws, bot, server, processes, locals
<1> QED BY <1>1, <1>2, <1>3, <1>4, <1>5 DEF Work

LEMMA EndsTypes ==
    ASSUME TypeOK, Ends, pid' \in Pids \cup {None}
    PROVE  TypeOK'
<1>1. crashes' \in 0..MaxCrashes
    BY BoundsAssumption DEF TypeOK, Ends
<1>2. running' \in [Jobs -> BOOLEAN]
    BY DEF Ends
<1>3. pc' \in [Jobs \cup Looks -> Working \cup {"idle", "looking", "reply", "ended", "lost"}]
    BY DEF TypeOK, Ends
<1>4. astray' \subseteq used
    BY DEF TypeOK, Ends, Lost
<1> QED BY <1>1, <1>2, <1>3, <1>4 DEF Ends, TypeOK

LEMMA CoordinatesTypes ==
    ASSUME TypeOK, NEW j \in Jobs, Coordinates(j) \/ RunExclusive(j) \/ SpawnFails(j)
    PROVE  TypeOK'
<1> USE DEF Awaits, Goto, Working, Reporting, Midway
<1>1. CASE RunExclusive(j)
    BY <1>1 DEF TypeOK, RunExclusive, Acquires, bot, server, processes, locals
<1>2. CASE SpawnFails(j)
    BY <1>2, EndsTypes DEF SpawnFails
<1>3. CASE Coordinates(j)
    BY <1>3 DEF TypeOK, Coordinates, ReportResolves, ReportRejects, FinishResolves, FinishRejects,
                Catches, Continues, FailureReported, Throws, bot, server, processes, locals
<1> QED BY <1>1, <1>2, <1>3

LEMMA OthersTypes ==
    ASSUME TypeOK,
           \/ \E h \in Jobs \cup Looks : Replies(h)
           \/ \E l \in Looks : LookBegins(l) \/ LookEnds(l)
           \/ Crash \/ Restarts \/ ServerExits
    PROVE  TypeOK'
<1> USE DEF Awaits, Goto, Working, Reporting, Midway
<1>1. ASSUME NEW h \in Jobs \cup Looks, Replies(h)
      PROVE  TypeOK'
    BY <1>1 DEF TypeOK, Replies, bot, server, processes, locals
<1>2. ASSUME NEW l \in Looks, LookBegins(l) \/ LookEnds(l)
      PROVE  TypeOK'
    BY <1>2 DEF TypeOK, LookBegins, LookEnds, ForgetsStale, Running, bot, server, processes, locals
<1>3. CASE Crash
    BY <1>3, EndsTypes DEF TypeOK, Crash
<1>4. CASE Restarts \/ ServerExits
    BY <1>4 DEF TypeOK, Restarts, ServerExits, bot, server, processes, locals
<1> QED BY <1>1, <1>2, <1>3, <1>4

LEMMA NextTypes ==
    ASSUME TypeOK, [Next]_vars
    PROVE  TypeOK'
<1>1. CASE Next
    BY <1>1, ControlsTypes, WorkTypes, CoordinatesTypes, OthersTypes DEF Next, Handles
<1>2. CASE UNCHANGED vars
    BY <1>2 DEF TypeOK, vars, bot, server, processes, locals
<1> QED BY <1>1, <1>2

\* Every field of the bot, of its database and of its commands keeps its type.
THEOREM TypeCorrect == Spec => []TypeOK
    BY InitTypes, NextTypes, PTL DEF Spec

----------------------------------------------------------------------------
(* The lock: a job at work is the current one, and the rows go with it.      *)

\* What the row of a job at work says
RowOfWork ==
    \A j \in Jobs : /\ pc[j] \in Working \ {"good", "bad", "thrown"} => row[j] = "running"
                    /\ pc[j] = "good" => row[j] = "succeeded"
                    /\ pc[j] = "thrown" => row[j] \in {"running", "succeeded"}
                    /\ pc[j] = "bad" => row[j] = "failed"

LockInv == OneAtATime /\ LockAndRows /\ RowOfWork

\* A step of the work of a job stays within the work and moves no other command.
LEMMA WorkMoves ==
    ASSUME TypeOK, NEW j \in Jobs, Work(j) \/ Controls(j)
    PROVE  /\ pc[j] \in Working \ {"good", "bad", "thrown"}
           /\ pc'[j] \in Working \ {"bad"}
           /\ \A h \in Jobs \cup Looks : h # j => pc'[h] = pc[h]
           /\ UNCHANGED <<up, crashes, currentJobId>>
           /\ \A i \in Jobs : i # j => row'[i] = row[i]
           /\ IF pc'[j] = "good" THEN row'[j] = "succeeded" ELSE row' = row
<1> USE DEF Awaits, Goto, Working, Reporting, Midway
<1>1. CASE Controls(j)
    BY <1>1 DEF Controls, TypeOK, KillCloses, UndoCloses, KillErrors, StartRefuses, Spawns,
                Stores, StoreThrows, Continues, PortsOpen, PortsStayShut, AfterStop, Throws,
                ReadsStatus, bot
<1>2. CASE Work(j)
    BY <1>2 DEF Work, TypeOK, FirstStageShown, Built, Looked, RestartStageShown, StartStageShown,
                Checked, LastStageShown, WorkFails, Starts, Stops, AfterStop, Throws, ReadsStatus,
                bot
<1> QED BY <1>1, <1>2

LEMMA LockKeptByWork ==
    ASSUME TypeOK, LockInv, NEW j \in Jobs, Work(j) \/ Controls(j)
    PROVE  LockInv'
<1>1. currentJobId' = j /\ currentJobId = j /\ crashes' = crashes
    BY WorkMoves DEF LockInv, OneAtATime
<1>2. \A i \in Jobs : i # j => pc'[i] = pc[i] /\ row'[i] = row[i]
    BY WorkMoves
<1>3. OneAtATime'
    BY <1>1, <1>2 DEF LockInv, OneAtATime
<1>4. LockAndRows'
    BY <1>1, <1>2, WorkMoves DEF LockInv, LockAndRows
<1>5. RowOfWork'
    BY <1>2, WorkMoves DEF LockInv, RowOfWork
<1> QED BY <1>3, <1>4, <1>5 DEF LockInv

\* The other steps of a job, by where they lead.
LEMMA JobMoves ==
    ASSUME TypeOK, NEW j \in Jobs, Coordinates(j) \/ RunExclusive(j) \/ Replies(j)
    PROVE  /\ crashes' = crashes
           /\ \A i \in Jobs : i # j => pc'[i] = pc[i] /\ row'[i] = row[i]
           /\ \/ /\ pc[j] = "idle" /\ pc'[j] = "report" /\ row'[j] = "running"
                 /\ currentJobId = None /\ currentJobId' = j
              \/ /\ pc[j] \in {"good", "bad"} /\ pc'[j] \in {"ended", "reply"}
                 /\ currentJobId' = None /\ row' = row
              \/ /\ pc[j] \in {"idle", "reply"} /\ pc'[j] \in {"reply", "ended"}
                 /\ currentJobId' = currentJobId /\ row' = row
              \/ /\ pc[j] = "report" /\ pc'[j] \in {"stage", "reply"}
                 /\ currentJobId' = currentJobId /\ row' = row
              \/ /\ pc[j] = "good" /\ pc'[j] = "thrown"
                 /\ currentJobId' = currentJobId /\ row' = row
              \/ /\ pc[j] = "thrown" /\ pc'[j] = "bad"
                 /\ currentJobId' = currentJobId /\ row'[j] = "failed"
<1> USE DEF Awaits, Goto, TypeOK
<1>1. CASE RunExclusive(j)
    BY <1>1 DEF RunExclusive, Acquires, bot
<1>2. CASE ReportResolves(j) \/ ReportRejects(j) \/ Replies(j)
    BY <1>2 DEF ReportResolves, ReportRejects, Replies, bot
<1>3. CASE FinishResolves(j) \/ FailureReported(j)
    BY <1>3 DEF FinishResolves, FailureReported, bot
<1>4. CASE FinishRejects(j)
    BY <1>4 DEF FinishRejects, Throws, bot
<1>5. CASE Catches(j)
    BY <1>5 DEF Catches, Continues, bot
<1> QED BY <1>1, <1>2, <1>3, <1>4, <1>5 DEF Coordinates

LEMMA LockKeptByJob ==
    ASSUME TypeOK, LockInv, NEW j \in Jobs, Coordinates(j) \/ RunExclusive(j) \/ Replies(j)
    PROVE  LockInv'
<1>1. OneAtATime'
    BY JobMoves, JobsAssumption DEF LockInv, OneAtATime, Working, Reporting, Midway
<1>2. LockAndRows'
  <2> DEFINE Active(i) == pc[i] \in Working \/ row[i] = "running"
             Rest(i) == row[i] = "running" => currentJobId = i \/ crashes > 0
  <2>1. currentJobId' = currentJobId => /\ Active(j) => Active(j)'
                                        /\ Rest(j) => Rest(j)'
    <3>1. pc[j] = "report" => row[j] = "running"
        BY DEF LockInv, RowOfWork, Working, Reporting
    <3>2. pc[j] \in {"good", "bad"} => currentJobId = j
        BY DEF LockInv, OneAtATime, Working, Reporting
    <3> QED BY <3>1, <3>2, JobMoves, JobsAssumption DEF Working, Reporting, Midway
  <2>2. currentJobId' # currentJobId => /\ currentJobId' = None \/ Active(j)'
                                        /\ currentJobId' \in {None, j} /\ Rest(j)'
    <3>1. pc[j] = "good" => row[j] = "succeeded"
        BY DEF LockInv, RowOfWork
    <3>2. pc[j] = "bad" => row[j] = "failed"
        BY DEF LockInv, RowOfWork
    <3> QED BY <3>1, <3>2, JobMoves
  <2>3. \A i \in Jobs : i # j => /\ Active(i) => Active(i)'
                                 /\ Rest(i) /\ currentJobId' = currentJobId => Rest(i)'
      BY JobMoves
  <2>4. ASSUME currentJobId' # currentJobId, NEW i \in Jobs, i # j
        PROVE  Rest(i)'
    <3>1. currentJobId \in {None, j}
        BY <2>4, JobMoves DEF LockInv, OneAtATime, Working, Reporting
    <3> QED BY <2>4, <3>1, JobMoves, JobsAssumption DEF LockInv, LockAndRows
  <2>5. currentJobId \in Jobs \cup {None}
      BY DEF TypeOK
  <2>6. currentJobId' # None => Active(currentJobId)'
      BY <2>1, <2>2, <2>3, <2>5 DEF LockInv, LockAndRows
  <2>7. \A i \in Jobs : Rest(i)'
      BY <2>1, <2>2, <2>3, <2>4 DEF LockInv, LockAndRows
  <2> QED BY <2>6, <2>7 DEF LockAndRows
<1>3. RowOfWork'
    BY JobMoves DEF LockInv, OneAtATime, RowOfWork, Working, Reporting, Midway
<1> QED BY <1>1, <1>2, <1>3 DEF LockInv

\* When the bot ends, no command is left at work.
LEMMA EndsMoves ==
    ASSUME TypeOK, Ends
    PROVE  /\ \A h \in Jobs \cup Looks : pc'[h] \in {"idle", "ended", "lost"}
           /\ crashes' > 0 /\ currentJobId' = None
<1>1. \A h \in Jobs \cup Looks : pc'[h] \in {"idle", "ended", "lost"}
    BY DEF Ends
<1>2. crashes' > 0
    BY BoundsAssumption DEF Ends, TypeOK
<1> QED BY <1>1, <1>2 DEF Ends

LEMMA LockKeptByOthers ==
    ASSUME TypeOK, LockInv,
           \/ \E l \in Looks : LookBegins(l) \/ LookEnds(l) \/ Replies(l)
           \/ \E j \in Jobs : SpawnFails(j)
           \/ Crash \/ Restarts \/ ServerExits
    PROVE  LockInv'
<1>1. ASSUME NEW l \in Looks, LookBegins(l) \/ LookEnds(l) \/ Replies(l)
      PROVE  LockInv'
  <2>1. UNCHANGED <<crashes, currentJobId, row>>
      BY <1>1 DEF LookBegins, LookEnds, Replies, bot
  <2>2. \A j \in Jobs : pc'[j] = pc[j]
      BY <1>1, JobsAssumption DEF LookBegins, LookEnds, Replies, Goto, TypeOK
  <2> QED BY <2>1, <2>2 DEF TypeOK, LockInv, OneAtATime, LockAndRows, RowOfWork
<1>2. CASE Crash \/ \E j \in Jobs : SpawnFails(j)
  <2>1. Ends
      BY <1>2 DEF Crash, SpawnFails
  <2> QED BY <2>1, EndsMoves DEF LockInv, OneAtATime, LockAndRows, RowOfWork, Working, Reporting,
                                 Midway
<1>3. CASE Restarts \/ ServerExits
    BY <1>3 DEF Restarts, ServerExits, bot, locals, server, LockInv, OneAtATime, LockAndRows,
                RowOfWork
<1> QED BY <1>1, <1>2, <1>3

LEMMA LockNext ==
    ASSUME TypeOK, LockInv, [Next]_vars
    PROVE  LockInv'
<1>1. CASE Next
    BY <1>1, LockKeptByWork, LockKeptByJob, LockKeptByOthers DEF Next, Handles
<1>2. CASE UNCHANGED vars
    BY <1>2 DEF vars, bot, server, locals, LockInv, OneAtATime, LockAndRows, RowOfWork
<1> QED BY <1>1, <1>2

LEMMA LockInit == Init => LockInv
    BY JobsAssumption DEF Init, LockInv, OneAtATime, LockAndRows, RowOfWork, Working, Reporting,
                          Midway

LEMMA LockHolds == Spec => []LockInv
    BY LockInit, LockNext, TypeCorrect, PTL DEF Spec

\* No two jobs are between reporter.start and the release of currentJobId.
THEOREM JobsExclude == Spec => []OneAtATime
    BY LockHolds, PTL DEF LockInv

\* The current job is at work or its row still says so, and the other way round, in
\* every order of rejected reports, error replies and ends of the bot.
THEOREM LockMatchesRows == Spec => []LockAndRows
    BY LockHolds, PTL DEF LockInv

----------------------------------------------------------------------------
(* The server: but for those gone astray, the stored pid is all there is.    *)

Known == alive \subseteq {pid} \cup astray

\* What job j remembers of the server across an await is still right.
Remembers(j) ==
    /\ pc[j] = "probe" /\ ~running[j] => alive \subseteq astray
    /\ pc[j] \in {"kill", "undo", "store"} => alive \subseteq {target[j]} \cup astray

ServerInv ==
    /\ Known \/ \E j \in Jobs : pc[j] = "store"
    /\ \A j \in Jobs : Remembers(j)

LEMMA InvKnowsServers == ASSUME ServerInv PROVE NoOrphan
    BY DEF ServerInv, Known, Remembers, NoOrphan, Unstored

\* A step of the work of a job leaves the server as ServerInv has it, if it does so for
\* this job: only the job at work remembers anything.
LEMMA OthersRememberNothing ==
    ASSUME TypeOK, LockInv, NEW j \in Jobs, Work(j) \/ Controls(j),
           Known' \/ pc'[j] = "store", Remembers(j)'
    PROVE  ServerInv'
<1>1. ASSUME NEW i \in Jobs, i # j
      PROVE  pc'[i] \notin Working
    BY <1>1, WorkMoves DEF LockInv, OneAtATime
<1>2. \A i \in Jobs : i # j => Remembers(i)'
    BY <1>1 DEF Remembers, Working, Reporting, Midway
<1> QED BY <1>2 DEF ServerInv

\* Before it spawns a server and after it has stored the pid, the job at work can rely
\* on the stored pid.
LEMMA KnownAtWork ==
    ASSUME LockInv, ServerInv, NEW j \in Jobs, pc[j] \in Working \ {"store"}
    PROVE  Known
<1>1. \A i \in Jobs : pc[i] # "store"
    BY DEF LockInv, OneAtATime, Working, Midway
<1> QED BY <1>1 DEF ServerInv

LEMMA StatusKeepsKnown ==
    ASSUME TypeOK, Known, NEW j \in Jobs, ReadsStatus(j), UNCHANGED processes
    PROVE  Known' /\ (running'[j] \/ alive' \subseteq astray')
<1>1. running'[j] = Running
    BY DEF ReadsStatus, TypeOK
<1> QED BY <1>1 DEF ReadsStatus, ForgetsStale, Running, Known, processes

\* Whatever taskkill did, the servers left when it has closed went astray.
LEMMA KillsLeavesAstray ==
    ASSUME NEW j \in Jobs, alive \subseteq {target[j]} \cup astray, Kills(j)
    PROVE  alive' \subseteq astray'
    BY DEF Kills, Lost

LEMMA ServerKeptByControls ==
    ASSUME TypeOK, LockInv, ServerInv, NEW j \in Jobs, Controls(j)
    PROVE  ServerInv'
<1> USE DEF Awaits, Goto
<1>1. Remembers(j)
    BY DEF ServerInv
<1>2. pc[j] # "store" => Known
    BY KnownAtWork, WorkMoves
<1>3. (Known' \/ pc'[j] = "store") /\ Remembers(j)'
  <2>1. CASE KillCloses(j) \/ UndoCloses(j)
    <3>1. alive' \subseteq astray'
        BY <1>1, <2>1, KillsLeavesAstray DEF KillCloses, UndoCloses, Remembers
    <3> QED BY <3>1 DEF Known, Remembers
  <2>2. CASE KillErrors(j)
      BY <1>2, <2>2 DEF KillErrors, Throws, TypeOK, Known, Remembers
  <2>3. CASE StartRefuses(j)
      BY <1>2, <2>3 DEF StartRefuses, Throws, TypeOK, Known, Remembers, server, processes
  <2>4. CASE Spawns(j)
      BY <1>1, <2>4 DEF Spawns, TypeOK, Remembers
  <2>5. CASE Stores(j)
      BY <1>1, <2>5 DEF Stores, Continues, Throws, TypeOK, Known, Remembers, processes
  <2>6. CASE StoreThrows(j)
      BY <1>1, <2>6 DEF StoreThrows, Continues, Lost, Throws, TypeOK, Known, Remembers
  <2>7. CASE PortsOpen(j)
    <3>1. Known'
        BY <1>2, <2>7, StatusKeepsKnown DEF PortsOpen, Known, processes
    <3>2. pc'[j] \notin {"probe", "kill", "undo", "store"}
        BY <2>7 DEF PortsOpen, Throws, TypeOK
    <3> QED BY <3>1, <3>2 DEF Remembers
  <2>8. CASE PortsStayShut(j)
      BY <1>2, <2>8 DEF PortsStayShut, Throws, Running, TypeOK, Known, Remembers, processes
  <2> QED BY <2>1, <2>2, <2>3, <2>4, <2>5, <2>6, <2>7, <2>8 DEF Controls
<1> QED BY <1>3, OthersRememberNothing

LEMMA ServerKeptByStartStop ==
    ASSUME TypeOK, Known, NEW j \in Jobs, Starts(j) \/ Stops(j)
    PROVE  Known' /\ Remembers(j)'
<1>1. CASE Starts(j)
    BY <1>1, StatusKeepsKnown DEF Starts, Goto, TypeOK, Remembers
<1>2. CASE Stops(j)
    BY <1>2 DEF Stops, AfterStop, Throws, Goto, Running, TypeOK, Known, Remembers, processes
<1> QED BY <1>1, <1>2

LEMMA ServerKeptByWork ==
    ASSUME TypeOK, LockInv, ServerInv, NEW j \in Jobs, Work(j)
    PROVE  ServerInv'
<1> USE DEF Awaits, Goto
<1>1. Known
  <2>1. pc[j] # "store"
      BY DEF Work, FirstStageShown, Built, Looked, RestartStageShown, StartStageShown, Checked,
             LastStageShown, WorkFails
  <2> QED BY <2>1, KnownAtWork, WorkMoves
<1>2. Known' /\ Remembers(j)'
  <2>1. CASE Starts(j) \/ Stops(j)
      BY <1>1, <2>1, ServerKeptByStartStop
  <2>2. CASE Built(j)
      BY <1>1, <2>2, StatusKeepsKnown DEF Built, TypeOK, Remembers
  <2>3. CASE UNCHANGED server /\ pc'[j] \notin {"probe", "kill", "undo", "store"}
      BY <1>1, <2>3 DEF Known, Remembers, server, processes
  <2>4. \/ Starts(j) \/ Stops(j) \/ Built(j)
        \/ UNCHANGED server /\ pc'[j] \notin {"probe", "kill", "undo", "store"}
      BY DEF Work, FirstStageShown, Looked, RestartStageShown, StartStageShown, Checked,
             LastStageShown, WorkFails, Throws, TypeOK
  <2> QED BY <2>1, <2>2, <2>3, <2>4
<1> QED BY <1>2, OthersRememberNothing

\* The steps that neither spawn, stop nor store
LEMMA ServerKeptAside ==
    ASSUME ServerInv, UNCHANGED <<alive, astray, running, target>>,
           pid' = pid \/ pid \notin alive,
           \A i \in Jobs : \/ pc'[i] = pc[i]
                           \/ {pc[i], pc'[i]} \cap {"probe", "kill", "undo", "store"} = {}
    PROVE  ServerInv'
<1>1. Known => Known'
    BY DEF Known
<1>2. \A i \in Jobs : Remembers(i) => Remembers(i)'
    BY DEF Remembers
<1> QED BY <1>1, <1>2 DEF ServerInv

LEMMA ServerKeptByOthers ==
    ASSUME TypeOK, LockInv, ServerInv,
           \/ \E j \in Jobs : Coordinates(j) \/ RunExclusive(j) \/ SpawnFails(j)
           \/ \E l \in Looks : LookBegins(l) \/ LookEnds(l)
           \/ \E h \in Jobs \cup Looks : Replies(h)
           \/ Crash \/ Restarts \/ ServerExits
    PROVE  ServerInv'
<1>1. ASSUME NEW j \in Jobs, Coordinates(j) \/ RunExclusive(j)
      PROVE  ServerInv'
  <2>1. UNCHANGED <<pid, alive, astray, running, target>>
      BY <1>1 DEF Coordinates, ReportResolves, ReportRejects, FinishResolves, FinishRejects,
                  Catches, FailureReported, RunExclusive, server, processes, locals
  <2>2. \A i \in Jobs : \/ pc'[i] = pc[i]
                        \/ {pc[i], pc'[i]} \cap {"probe", "kill", "undo", "store"} = {}
      BY <1>1, JobMoves
  <2> QED BY <2>1, <2>2, ServerKeptAside
<1>2. ASSUME NEW h \in Jobs \cup Looks, Replies(h) \/ (h \in Looks /\ (LookBegins(h) \/ LookEnds(h)))
      PROVE  ServerInv'
  <2>1. UNCHANGED <<alive, astray, running, target>> /\ (pid' = pid \/ pid \notin alive)
      BY <1>2 DEF Replies, LookBegins, LookEnds, ForgetsStale, Running, server, processes, locals
  <2>2. \A i \in Jobs : \/ pc'[i] = pc[i]
                        \/ {pc[i], pc'[i]} \cap {"probe", "kill", "undo", "store"} = {}
      BY <1>2 DEF Replies, LookBegins, LookEnds, Awaits, Goto, TypeOK
  <2> QED BY <2>1, <2>2, ServerKeptAside
<1>3. CASE Crash \/ \E j \in Jobs : SpawnFails(j)
  <2>1. Ends
      BY <1>3 DEF Crash, SpawnFails
  <2>2. alive \subseteq {pid} \cup astray'
      BY <2>1, InvKnowsServers DEF Ends, Lost, NoOrphan
  <2>3. pid' = pid \/ alive \subseteq astray
      BY <1>3 DEF Crash, SpawnFails, Awaits, ServerInv, Remembers
  <2>4. Known'
      BY <2>1, <2>2, <2>3 DEF Ends, Lost, Known
  <2> QED BY <2>1, <2>4, EndsMoves DEF ServerInv, Remembers
<1>4. CASE Restarts
    BY <1>4, ServerKeptAside DEF Restarts, server, processes, locals
<1>5. CASE ServerExits
    BY <1>5 DEF ServerExits, locals, ServerInv, Known, Remembers
<1> QED BY <1>1, <1>2, <1>3, <1>4, <1>5

LEMMA ServerNext ==
    ASSUME TypeOK, LockInv, ServerInv, [Next]_vars
    PROVE  ServerInv'
<1>1. CASE Next
    BY <1>1, ServerKeptByControls, ServerKeptByWork, ServerKeptByOthers DEF Next, Handles
<1>2. CASE UNCHANGED vars
    BY <1>2, ServerKeptAside DEF vars, server, processes, locals
<1> QED BY <1>1, <1>2

LEMMA ServerHolds == Spec => []ServerInv
<1>1. Init => ServerInv
    BY DEF Init, ServerInv, Known, Remembers
<1> QED BY <1>1, ServerNext, TypeCorrect, LockHolds, PTL DEF Spec

\* A server that runs is the one whose pid is stored, or about to be, whatever commands
\* overlap, fail or end with the bot, but for those that an end of the bot or an error
\* between spawn and store, or a taskkill, has left without one.
THEOREM ServerIsKnown == Spec => []NoOrphan
    BY InvKnowsServers, ServerHolds, PTL

\* When stop() returns, no server runs but those that went astray.
THEOREM StopLeavesNoServer == Spec => StopStops
<1>1. ASSUME TypeOK, LockInv, ServerInv, Next, NEW j \in Jobs,
             kind[j] # "start", pc[j] \in {"stage", "say", "kill"},
             pc'[j] \in {"tell", "probe", "ready"}
      PROVE  alive' \subseteq astray'
  <2> USE DEF Awaits, Goto
  <2>1. CASE KillCloses(j)
    <3>1. alive \subseteq {target[j]} \cup astray /\ Kills(j)
        BY <1>1, <2>1 DEF KillCloses, ServerInv, Remembers
    <3> QED BY <3>1, KillsLeavesAstray
  <2>2. CASE Stops(j)
    <3>1. ~Running /\ UNCHANGED processes
        BY <1>1, <2>2 DEF Stops, TypeOK
    <3>2. Known
        BY <1>1, KnownAtWork DEF Working, Reporting, Midway
    <3> QED BY <3>1, <3>2 DEF Known, Running, processes
  <2>3. CASE Work(j) \/ Controls(j)
    <3>1. KillCloses(j) \/ Stops(j)
      <4>1. CASE Controls(j)
          BY <1>1, <4>1 DEF Controls, UndoCloses, KillErrors, StartRefuses, Spawns, Stores,
                            StoreThrows, Continues, PortsOpen, PortsStayShut, Throws, TypeOK
      <4>2. CASE Work(j)
          BY <1>1, <4>2 DEF Work, FirstStageShown, Built, Looked, RestartStageShown,
                            StartStageShown, Checked, LastStageShown, WorkFails, Throws, TypeOK
      <4> QED BY <2>3, <4>1, <4>2
    <3> QED BY <2>1, <2>2, <3>1
  <2>4. ASSUME NEW i \in Jobs, i # j
        PROVE  ~Work(i) /\ ~Controls(i)
      BY <1>1, <2>4, WorkMoves
  <2>5. ASSUME NEW i \in Jobs
        PROVE  ~Coordinates(i) /\ ~RunExclusive(i)
      BY <1>1, JobMoves
  <2>6. ASSUME NEW h \in Jobs \cup Looks
        PROVE  ~Replies(h) /\ ~LookBegins(h) /\ ~LookEnds(h)
      BY <1>1 DEF Replies, LookBegins, LookEnds, TypeOK
  <2>7. ~Ends /\ ~Restarts /\ ~ServerExits
      BY <1>1, EndsMoves DEF Restarts, ServerExits
  <2> QED BY <1>1, <2>3, <2>4, <2>5, <2>6, <2>7 DEF Next, Handles, SpawnFails, Crash
<1>2. TypeOK /\ LockInv /\ ServerInv /\ [Next]_vars
        => [\A j \in Jobs : /\ kind[j] # "start" /\ pc[j] \in {"stage", "say", "kill"}
                            /\ pc'[j] \in {"tell", "probe", "ready"}
                            => alive' \subseteq astray']_vars
    BY <1>1
<1> QED BY <1>2, TypeCorrect, LockHolds, ServerHolds, PTL DEF Spec, StopStops
=============================================================================
