-------------------------------- MODULE World --------------------------------
(***************************************************************************)
(* The world's players, their entity slots and the tick engine.            *)
(*                                                                         *)
(* The tick engine has one thread: it runs World.tick every 600 ms and, in *)
(* between, the addPlayerNow tasks that GAMELOGIN_CONTINUE submits.  The   *)
(* event loops add logins to both queues and close channels meanwhile.  A  *)
(* tick registers the logins of toAdd, removes the players whose channel   *)
(* is inactive, and runs the players that are left, over copies of the set.*)
(* One step handles one player.                                            *)
(*                                                                         *)
(* Players are the WorldPlayer objects the login handlers create: each has *)
(* a name (compared ignoring case), a channel and an entry mode that never *)
(* change, and is handed to the world once.  EntityList.remove throws when *)
(* a slot and the index of its entity disagree; SlotsMatchPlayers says it  *)
(* never does.  Not modelled: what a player does in its tick, and the      *)
(* packets of its bootstrap; both may throw.                               *)
(***************************************************************************)
EXTENDS Integers, Sequences, FiniteSets

CONSTANTS
    Players,    \* the WorldPlayer objects
    NoPlayer,   \* an empty slot
    Name,       \* their names
    Channel,    \* their channels
    Full,       \* the players of GAMELOGIN_CONTINUE (EntryMode.FULL_LOGIN)
    Capacity    \* capacity of the entity list

ASSUME PlayersAssumption == IsFiniteSet(Players) /\ NoPlayer \notin Players
ASSUME CapacityAssumption == Capacity \in Nat \ {0}
ASSUME FullAssumption == Full \subseteq Players

VARIABLES
    rank,       \* when each login was handed over: 0 not yet, then 1, 2, ...
    clock,      \* logins handed over so far
    up,         \* the channels that are open
    closing,    \* open channels on which close() has been called
    switched,   \* channels whose login handlers were replaced by the game's
    toAdd,      \* World.toAdd
    tasks,      \* the tick engine's queue of addPlayerNow tasks
    players,    \* World.players
    slots,      \* EntityList.values, numbered as Entity.index
    index,      \* Entity.index of each player's entity
    size,       \* EntityList.size
    tpc, todo,  \* tick engine: where it is in tick(), the rest of its copy
    lost        \* the channels that were down when the tick began

vars == <<rank, clock, up, closing, switched, toAdd, tasks, players, slots,
          index, size, tpc, todo, lost>>
roster == <<players, slots, index, size>>
logins == <<rank, clock>>
-----------------------------------------------------------------------------
Channels == {Channel[p] : p \in Players}

Slots == 1..Capacity

NoIndex == -1   \* the index of an entity that is in no list

Init ==
    /\ rank = [p \in Players |-> 0] /\ clock = 0
    /\ up = Channels /\ closing = {} /\ switched = {}
    /\ toAdd = <<>> /\ tasks = <<>>
    /\ players = {} /\ slots = [i \in Slots |-> NoPlayer]
    /\ index = [p \in Players |-> NoIndex] /\ size = 0
    /\ tpc = "idle" /\ todo = {} /\ lost = {}

-----------------------------------------------------------------------------
(* Event loops.                                                            *)

HandOver(p) ==
    /\ rank[p] = 0 /\ Channel[p] \in up
    /\ rank' = [rank EXCEPT ![p] = clock + 1] /\ clock' = clock + 1

\* GAMELOGIN_CONTINUE: the login decoder is still in the pipeline, so one
\* channel may send it several times.
ContinueLogin(p) ==
    /\ p \in Full /\ Channel[p] \notin switched
    /\ HandOver(p)
    /\ tasks' = Append(tasks, p)
    /\ UNCHANGED <<up, closing, switched, toAdd, roster, tpc, todo, lost>>

\* The lobby login response has been written: the channel gets the game's
\* handlers and the player waits for the next tick.
LobbyLogin(p) ==
    /\ p \notin Full /\ Channel[p] \notin switched
    /\ HandOver(p)
    /\ switched' = switched \cup {Channel[p]}
    /\ toAdd' = Append(toAdd, p)
    /\ UNCHANGED <<up, closing, tasks, roster, tpc, todo, lost>>

\* A channel becomes inactive: the peer left, or a close() takes effect.
Inactive(c) ==
    /\ c \in up
    /\ up' = up \ {c} /\ closing' = closing \ {c}
    /\ UNCHANGED <<logins, switched, toAdd, tasks, roster, tpc, todo, lost>>

-----------------------------------------------------------------------------
(* EntityList.remove for the entities of the players in S.                 *)
SlotsOf(S) == {index[q] : q \in S} \cap Slots

SlotsWithout(S) == [i \in Slots |-> IF i \in SlotsOf(S) THEN NoPlayer ELSE slots[i]]
IndexWithout(S) ==
    [q \in Players |-> IF \E i \in SlotsOf(S) : slots[i] = q THEN NoIndex ELSE index[q]]
SizeWithout(S) == size - Cardinality({i \in SlotsOf(S) : slots[i] # NoPlayer})

\* players -= ... and playerEntities.remove(...), for each player in S.
RemovePlayers(S) ==
    /\ players' = players \ S
    /\ slots' = SlotsWithout(S)
    /\ index' = IndexWithout(S)
    /\ size' = SizeWithout(S)

CloseChannels(S) == closing' = closing \cup (up \cap {Channel[q] : q \in S})

\* Mutant: no player is replaced.
NamesakesIgnored(p) == {}

Namesakes(p) == {q \in players : Name[q] = Name[p]}

FreeSlots(p) == {i \in Slots : SlotsWithout(Namesakes(p))[i] = NoPlayer}

\* registerPlayer: the namesakes are removed and the first free slot taken.
Admit(p) ==
    /\ SizeWithout(Namesakes(p)) # Capacity
    /\ \E i \in FreeSlots(p) :
          /\ \A j \in FreeSlots(p) : i <= j
          /\ slots' = [SlotsWithout(Namesakes(p)) EXCEPT ![i] = p]
          /\ index' = [IndexWithout(Namesakes(p)) EXCEPT ![p] = i]
    /\ size' = SizeWithout(Namesakes(p)) + 1
    /\ players' = (players \ Namesakes(p)) \cup {p}
    /\ CloseChannels(Namesakes(p))
    /\ switched' = IF p \in Full THEN switched \cup {Channel[p]} ELSE switched

\* Mutant: the channel of a refused login stays open.
RefuseSilently(p) ==
    /\ SizeWithout(Namesakes(p)) = Capacity
    /\ RemovePlayers(Namesakes(p))
    /\ CloseChannels(Namesakes(p))
    /\ UNCHANGED switched

\* registerPlayer without a free slot: the channel is closed.
Refuse(p) ==
    /\ SizeWithout(Namesakes(p)) = Capacity
    /\ RemovePlayers(Namesakes(p))
    /\ CloseChannels(Namesakes(p) \cup {p})
    /\ UNCHANGED switched

\* registerPlayer with added() throwing, before or after it has switched the
\* pipeline: the slot is given back and the channel closed.
FailBootstrap(p) ==
    /\ SizeWithout(Namesakes(p)) # Capacity
    /\ RemovePlayers(Namesakes(p))
    /\ CloseChannels(Namesakes(p) \cup {p})
    /\ \/ UNCHANGED switched
       \/ p \in Full /\ switched' = switched \cup {Channel[p]}

Register(p) == Admit(p) \/ Refuse(p) \/ FailBootstrap(p)

-----------------------------------------------------------------------------
(* The tick engine.                                                        *)

\* An addPlayerNow task.
RunTask ==
    /\ tpc = "idle" /\ tasks # <<>>
    /\ tasks' = Tail(tasks)
    /\ Register(Head(tasks))
    /\ UNCHANGED <<logins, up, toAdd, tpc, todo, lost>>

StartTick ==
    /\ tpc = "idle"
    /\ tpc' = "drain" /\ lost' = Channels \ up
    /\ UNCHANGED <<logins, up, closing, switched, toAdd, tasks, roster, todo>>

\* Mutant: a login may be registered without being taken off the queue.
DrainPeeking ==
    /\ tpc = "drain" /\ toAdd # <<>>
    /\ toAdd' \in {toAdd, Tail(toAdd)}
    /\ Register(Head(toAdd))
    /\ UNCHANGED <<logins, up, tasks, tpc, todo, lost>>

Drain ==
    /\ tpc = "drain" /\ toAdd # <<>>
    /\ toAdd' = Tail(toAdd)
    /\ Register(Head(toAdd))
    /\ UNCHANGED <<logins, up, tasks, tpc, todo, lost>>

\* Mutant: the loop over toAdd may end before the queue is empty.
EndDrainEarly ==
    /\ tpc = "drain"
    /\ tpc' = "sweep" /\ todo' = players
    /\ UNCHANGED <<logins, up, closing, switched, toAdd, tasks, roster, lost>>

EndDrain ==
    /\ tpc = "drain" /\ toAdd = <<>>
    /\ tpc' = "sweep" /\ todo' = players
    /\ UNCHANGED <<logins, up, closing, switched, toAdd, tasks, roster, lost>>

\* Mutant: only the entity of a player without a channel is removed.
SweepEntity(p) ==
    /\ tpc = "sweep" /\ p \in todo
    /\ todo' = todo \ {p}
    /\ IF Channel[p] \in up THEN UNCHANGED roster
       ELSE /\ slots' = SlotsWithout({p}) /\ index' = IndexWithout({p})
            /\ size' = SizeWithout({p}) /\ UNCHANGED players
    /\ UNCHANGED <<logins, up, closing, switched, toAdd, tasks, tpc, lost>>

\* A player is removed when its channel is no longer active.
Sweep(p) ==
    /\ tpc = "sweep" /\ p \in todo
    /\ todo' = todo \ {p}
    /\ IF Channel[p] \in up THEN UNCHANGED roster ELSE RemovePlayers({p})
    /\ UNCHANGED <<logins, up, closing, switched, toAdd, tasks, tpc, lost>>

EndSweep ==
    /\ tpc = "sweep" /\ todo = {}
    /\ tpc' = "run" /\ todo' = players
    /\ UNCHANGED <<logins, up, closing, switched, toAdd, tasks, roster, lost>>

\* A player's packets and tick are run; ...
RunPlayer(p) ==
    /\ tpc = "run" /\ p \in todo
    /\ todo' = todo \ {p}
    /\ UNCHANGED <<logins, up, closing, switched, toAdd, tasks, roster, tpc, lost>>

\* Mutant: the entity of a player that throws keeps its slot.
RunPlayerThrowsKeeping(p) ==
    /\ tpc = "run" /\ p \in todo
    /\ todo' = todo \ {p}
    /\ players' = players \ {p}
    /\ UNCHANGED <<slots, index, size>>
    /\ CloseChannels({p})
    /\ UNCHANGED <<logins, up, switched, toAdd, tasks, tpc, lost>>

\* ... when they throw the player is removed and its channel closed.
RunPlayerThrows(p) ==
    /\ tpc = "run" /\ p \in todo
    /\ todo' = todo \ {p}
    /\ RemovePlayers({p})
    /\ CloseChannels({p})
    /\ UNCHANGED <<logins, up, switched, toAdd, tasks, tpc, lost>>

EndRun ==
    /\ tpc = "run" /\ todo = {}
    /\ tpc' = "idle"
    /\ UNCHANGED <<logins, up, closing, switched, toAdd, tasks, roster, todo, lost>>

-----------------------------------------------------------------------------
Tick ==
    \/ StartTick \/ Drain \/ EndDrain \/ EndSweep \/ EndRun
    \/ \E p \in Players : Sweep(p) \/ RunPlayer(p) \/ RunPlayerThrows(p)

EventLoop ==
    \/ \E p \in Players : ContinueLogin(p) \/ LobbyLogin(p)
    \/ \E c \in Channels : Inactive(c)

Next == EventLoop \/ Tick \/ RunTask

\* The executor keeps running ticks; a task, queued by its time of submission,
\* comes before a later tick as long as ticks keep up with their period; and a
\* channel that is told to close does.
Fairness ==
    /\ WF_vars(Tick)
    /\ SF_vars(RunTask)
    /\ \A c \in Channels : WF_vars(c \in closing /\ Inactive(c))

Spec == Init /\ [][Next]_vars /\ Fairness
-----------------------------------------------------------------------------
(* Properties.                                                             *)

InQueue(q, p) == \E i \in DOMAIN q : q[i] = p

\* Handed over and not registered yet.
Waiting(p) == InQueue(toAdd, p) \/ InQueue(tasks, p)

LoginsType ==
    /\ rank \in [Players -> Nat] /\ clock \in 0..Cardinality(Players)
    /\ toAdd \in Seq(Players) /\ tasks \in Seq(Players)

ChannelsType ==
    /\ up \subseteq Channels /\ closing \subseteq up
    /\ switched \subseteq Channels /\ lost \subseteq Channels \ up

RosterType ==
    /\ players \subseteq Players
    /\ slots \in [Slots -> Players \cup {NoPlayer}]
    /\ index \in [Players -> Slots \cup {NoIndex}]
    /\ size \in 0..Capacity

TickType == tpc \in {"idle", "drain", "sweep", "run"} /\ todo \subseteq Players

\* The types of the world's fields; a channel that went down stays down.
TypeOK == LoginsType /\ ChannelsType /\ RosterType /\ TickType

\* The players and the entity slots agree on every way in and out of the
\* world: each player has one slot and the index of it, no slot is left to a
\* player that is gone, and size counts them.  EntityList.remove's "Entity is
\* in the wrong spot in EntityList. This should never happen." never does.
SlotsMatchPlayers ==
    /\ \A p \in players : index[p] \in Slots /\ slots[index[p]] = p
    /\ \A i \in Slots : slots[i] # NoPlayer => slots[i] \in players /\ index[slots[i]] = i
    /\ \A p \in Players \ players : index[p] = NoIndex
    /\ size = Cardinality(players)

\* However the two queues of logins interleave, registerPlayer leaves one
\* player of each name in the world.
OneEntryPerName == \A p, q \in players : Name[p] = Name[q] => p = q

\* A login that is no longer waiting is either in the world or its client is
\* told by the channel being closed: none is left connected to nothing.
NobodyLeftHanging ==
    \A p \in Players :
        rank[p] # 0 /\ ~Waiting(p) /\ p \notin players => Channel[p] \notin up \ closing

\* A player whose channel was down when the tick began is not run by it.
SweptBeforeRun == tpc = "run" => \A p \in players : Channel[p] \notin lost

\* A login is registered or told off: it is not left in a queue.
LoginSettled ==
    \A p \in Players : Waiting(p) ~> p \in players \/ Channel[p] \notin up

\* A player whose channel is gone leaves the world.
GhostsSwept ==
    \A p \in Players : p \in players /\ Channel[p] \notin up ~> p \notin players

-----------------------------------------------------------------------------
(* What the properties rest on: an inductive invariant.                    *)

\* The queues hold each login once, and none that is in the world.
QueuesOnce ==
    /\ \A i \in DOMAIN toAdd : rank[toAdd[i]] # 0 /\ toAdd[i] \notin players \cup Full
    /\ \A i \in DOMAIN tasks : rank[tasks[i]] # 0 /\ tasks[i] \in Full \ players
    /\ \A i, j \in DOMAIN toAdd : toAdd[i] = toAdd[j] => i = j
    /\ \A i, j \in DOMAIN tasks : tasks[i] = tasks[j] => i = j
    /\ \A p \in players : rank[p] # 0

\* The copy a tick goes through holds no player that has left the world.
CopyCurrent == tpc \in {"sweep", "run"} => todo \subseteq players

\* The part of the sweep that is done.
SweptSoFar == tpc = "sweep" => \A p \in players \ todo : Channel[p] \notin lost

\* The logins handed over are as many as clock says.
ClockCounts == clock = Cardinality({p \in Players : rank[p] # 0})

\* The conjunction WorldProofs shows to be inductive.
IInv ==
    /\ TypeOK /\ ClockCounts
    /\ SlotsMatchPlayers /\ OneEntryPerName
    /\ QueuesOnce /\ CopyCurrent
    /\ SweptSoFar /\ SweptBeforeRun
    /\ NobodyLeftHanging
=============================================================================
