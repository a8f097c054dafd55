----------------------------- MODULE WorldProofs -----------------------------
(***************************************************************************)
(* Theorems about World, for every set of logins with their names and      *)
(* channels and every number of entity slots.                              *)
(***************************************************************************)
EXTENDS WorldRefinement, FiniteSetTheorems, TLAPS

----------------------------------------------------------------------------
(* What adding to the end and taking from the front of a queue do to its   *)
(* elements.                                                               *)

\* add() and addLast() keep the elements and put the new one at the end.
LEMMA AppendElements ==
    ASSUME NEW S, NEW s \in Seq(S), NEW e \in S
    PROVE  /\ Append(s, e) \in Seq(S)
           /\ DOMAIN s = 1..Len(s)
           /\ DOMAIN Append(s, e) = 1..(Len(s) + 1)
           /\ \A i \in 1..Len(s) : Append(s, e)[i] = s[i]
           /\ Append(s, e)[Len(s) + 1] = e
           /\ Len(s) \in Nat
    OBVIOUS

\* poll() and removeFirst() take the first element and keep the others.
LEMMA TailElements ==
    ASSUME NEW S, NEW s \in Seq(S), s # <<>>
    PROVE  /\ Tail(s) \in Seq(S)
           /\ Head(s) \in S
           /\ Head(s) = s[1]
           /\ Len(s) \in Nat /\ Len(s) >= 1
           /\ DOMAIN s = 1..Len(s)
           /\ DOMAIN Tail(s) = 1..(Len(s) - 1)
           /\ \A i \in 1..(Len(s) - 1) : Tail(s)[i] = s[i + 1]
    OBVIOUS

-----------------------------------------------------------------------------
(* The entity list.                                                        *)

SlotMap == [Slots -> Players \cup {NoPlayer}]
IndexMap == [Players -> Slots \cup {NoIndex}]

\* The entities of the players P are in the slots s at the indices x.
Match(P, s, x) ==
    /\ \A p \in P : x[p] \in Slots /\ s[x[p]] = p
    /\ \A i \in Slots : s[i] # NoPlayer => s[i] \in P /\ x[s[i]] = i
    /\ \A p \in Players \ P : x[p] = NoIndex

LEMMA NoIndexIsNoSlot == NoIndex \notin Slots
    BY CapacityAssumption DEF NoIndex, Slots

LEMMA PlayersFinite ==
    ASSUME NEW P \in SUBSET Players
    PROVE  IsFiniteSet(P) /\ Cardinality(P) \in Nat /\ Cardinality(P) <= Cardinality(Players)
    BY PlayersAssumption, FS_Subset, FS_CardinalityType

\* There are never more players than slots.
LEMMA PlayersFitSlots ==
    ASSUME NEW P \in SUBSET Players, NEW s \in SlotMap, NEW x \in IndexMap, Match(P, s, x)
    PROVE  Cardinality(P) <= Capacity
<1> DEFINE f == [p \in P |-> x[p]]
<1>1. f \in Injection(P, Slots)
  <2>1. f \in [P -> Slots]  BY DEF Match
  <2>2. \A p, q \in P : f[p] = f[q] => p = q  BY DEF Match
  <2> QED BY <2>1, <2>2 DEF Injection, IsInjective
<1>2. IsFiniteSet(Slots) /\ Cardinality(Slots) = Capacity
    BY FS_Interval, CapacityAssumption DEF Slots
<1> QED BY <1>1, <1>2, FS_Injection

\* EntityList.add: a player put into an empty slot.
LEMMA Insertion ==
    ASSUME NEW P \in SUBSET Players, NEW s \in SlotMap, NEW x \in IndexMap, Match(P, s, x),
           NEW p \in Players \ P, NEW i \in Slots, s[i] = NoPlayer
    PROVE  /\ [s EXCEPT ![i] = p] \in SlotMap
           /\ [x EXCEPT ![p] = i] \in IndexMap
           /\ Match(P \cup {p}, [s EXCEPT ![i] = p], [x EXCEPT ![p] = i])
           /\ Cardinality(P \cup {p}) = Cardinality(P) + 1
<1> DEFINE t == [s EXCEPT ![i] = p]
           y == [x EXCEPT ![p] = i]
<1>1. t \in SlotMap /\ y \in IndexMap  BY DEF SlotMap, IndexMap
<1>2. \A q \in P \cup {p} : y[q] \in Slots /\ t[y[q]] = q
  <2>1. \A q \in P : y[q] = x[q] /\ x[q] # i  BY PlayersAssumption DEF Match, IndexMap
  <2>2. \A q \in P : t[x[q]] = q  BY <2>1 DEF Match, SlotMap
  <2>3. y[p] = i /\ t[i] = p  BY DEF SlotMap, IndexMap
  <2> QED BY <2>1, <2>2, <2>3 DEF Match
<1>3. \A j \in Slots : t[j] # NoPlayer => t[j] \in P \cup {p} /\ y[t[j]] = j
  <2> TAKE j \in Slots
  <2>1. CASE j = i  BY <2>1 DEF SlotMap, IndexMap
  <2>2. CASE j # i
    <3>1. t[j] = s[j]  BY <2>2 DEF SlotMap
    <3>2. s[j] # NoPlayer => s[j] \in P /\ x[s[j]] = j  BY DEF Match
    <3> QED BY <3>1, <3>2 DEF IndexMap
  <2> QED BY <2>1, <2>2
<1>4. \A q \in Players \ (P \cup {p}) : y[q] = NoIndex  BY DEF Match, IndexMap
<1>5. Cardinality(P \cup {p}) = Cardinality(P) + 1  BY PlayersFinite, FS_AddElement
<1> QED BY <1>1, <1>2, <1>3, <1>4, <1>5 DEF Match

\* EntityList.remove, for some of the players.
LEMMA Removal ==
    ASSUME RosterType, SlotsMatchPlayers, NEW S \in SUBSET players
    PROVE  /\ SlotsWithout(S) \in SlotMap
           /\ IndexWithout(S) \in IndexMap
           /\ Match(players \ S, SlotsWithout(S), IndexWithout(S))
           /\ SizeWithout(S) = Cardinality(players \ S)
<1> DEFINE t == SlotsWithout(S)
           y == IndexWithout(S)
<1>0. /\ players \in SUBSET Players /\ slots \in SlotMap /\ index \in IndexMap
      /\ Match(players, slots, index)
    BY DEF RosterType, SlotMap, IndexMap, SlotsMatchPlayers, Match
<1>1. SlotsOf(S) = {index[q] : q \in S}  BY <1>0 DEF SlotsOf, Match
<1>2. /\ t \in SlotMap /\ y \in IndexMap
    BY <1>0 DEF SlotsWithout, IndexWithout, SlotMap, IndexMap
<1>3. \A i \in Slots : t[i] = IF i \in SlotsOf(S) THEN NoPlayer ELSE slots[i]
    BY DEF SlotsWithout
<1>4. \A q \in S : index[q] \in SlotsOf(S) /\ slots[index[q]] = q  BY <1>0, <1>1 DEF Match
<1>5. \A i \in SlotsOf(S) : slots[i] \in S /\ i \in Slots  BY <1>4, <1>1 DEF SlotsOf
<1>6. \A q \in Players : y[q] = IF q \in S THEN NoIndex ELSE index[q]
    BY <1>4, <1>5 DEF IndexWithout
<1>7. \A q \in players \ S : index[q] \in Slots /\ index[q] \notin SlotsOf(S)
    BY <1>0, <1>5 DEF Match
<1>8. \A q \in players \ S : y[q] \in Slots /\ t[y[q]] = q
    BY <1>0, <1>3, <1>6, <1>7 DEF Match
<1>9. \A i \in Slots : t[i] # NoPlayer => t[i] \in players \ S /\ y[t[i]] = i
  <2> TAKE i \in Slots
  <2> HAVE t[i] # NoPlayer
  <2>1. i \notin SlotsOf(S) /\ t[i] = slots[i]  BY <1>3
  <2>2. slots[i] \in players /\ index[slots[i]] = i  BY <1>0, <2>1 DEF Match
  <2>3. slots[i] \notin S  BY <2>1, <2>2, <1>4
  <2> QED BY <2>1, <2>2, <2>3, <1>6, <1>0
<1>10. \A q \in Players \ (players \ S) : y[q] = NoIndex  BY <1>0, <1>6 DEF Match
<1>11. SizeWithout(S) = Cardinality(players \ S)
  <2>1. {i \in SlotsOf(S) : slots[i] # NoPlayer} = SlotsOf(S)
      BY <1>0, <1>5, PlayersAssumption
  <2>2. Cardinality(SlotsOf(S)) = Cardinality(S)
    <3> DEFINE f == [q \in S |-> index[q]]
    <3>1. f \in Injection(S, SlotsOf(S))
      <4>1. f \in [S -> SlotsOf(S)]  BY <1>4
      <4>2. \A p, q \in S : f[p] = f[q] => p = q  BY <1>4
      <4> QED BY <4>1, <4>2 DEF Injection, IsInjective
    <3>2. f \in Surjection(S, SlotsOf(S))  BY <1>1 DEF Surjection
    <3>3. ExistsBijection(S, SlotsOf(S))
        BY <3>1, <3>2 DEF ExistsBijection, Bijection
    <3> QED BY <3>3, FS_Bijection, PlayersFinite, <1>0
  <2>3. Cardinality(players \ S) = Cardinality(players) - Cardinality(S)
    <3>1. IsFiniteSet(players)  BY <1>0, PlayersFinite
    <3>2. players \cap S = S  OBVIOUS
    <3> QED BY <3>1, <3>2, FS_Difference
  <2>4. size = Cardinality(players)  BY DEF SlotsMatchPlayers
  <2> QED BY <2>1, <2>2, <2>3, <2>4 DEF SizeWithout
<1> QED BY <1>2, <1>8, <1>9, <1>10, <1>11 DEF Match
-----------------------------------------------------------------------------
(* Players entering and leaving.                                           *)

Roster3 == RosterType /\ SlotsMatchPlayers /\ OneEntryPerName

\* removePlayer keeps the players and the slots in step.
LEMMA RemoveKeepsRoster ==
    ASSUME Roster3, NEW S \in SUBSET players, RemovePlayers(S)
    PROVE  Roster3'
<1>1. /\ slots' \in SlotMap /\ index' \in IndexMap /\ Match(players', slots', index')
      /\ size' = Cardinality(players')
    BY Removal DEF Roster3, RemovePlayers
<1>2. players' \in SUBSET Players  BY DEF Roster3, RosterType, RemovePlayers
<1>3. size' \in 0..Capacity
    BY <1>1, <1>2, PlayersFitSlots, PlayersFinite, CapacityAssumption
<1>4. RosterType'  BY <1>1, <1>2, <1>3 DEF RosterType, SlotMap, IndexMap
<1>5. SlotsMatchPlayers'  BY <1>1 DEF SlotsMatchPlayers, Match
<1>6. OneEntryPerName'  BY DEF Roster3, OneEntryPerName, RemovePlayers
<1> QED BY <1>4, <1>5, <1>6 DEF Roster3

\* registerPlayer, whatever comes of it, keeps them in step and the names
\* apart.
LEMMA RegisterKeepsRoster ==
    ASSUME Roster3, NEW p \in Players \ players, Register(p)
    PROVE  Roster3'
<1>0. Namesakes(p) \in SUBSET players  BY DEF Namesakes
<1>1. CASE Refuse(p) \/ FailBootstrap(p)
    BY <1>0, <1>1, RemoveKeepsRoster DEF Refuse, FailBootstrap
<1>2. CASE Admit(p)
  <2> DEFINE P == players \ Namesakes(p)
             s == SlotsWithout(Namesakes(p))
             x == IndexWithout(Namesakes(p))
  <2>1. /\ s \in SlotMap /\ x \in IndexMap /\ Match(P, s, x)
        /\ SizeWithout(Namesakes(p)) = Cardinality(P)
      BY <1>0, Removal DEF Roster3
  <2>2. PICK i \in FreeSlots(p) :
            slots' = [s EXCEPT ![i] = p] /\ index' = [x EXCEPT ![p] = i]
      BY <1>2 DEF Admit
  <2>3. i \in Slots /\ s[i] = NoPlayer  BY DEF FreeSlots
  <2>4. P \in SUBSET Players /\ p \in Players \ P  BY DEF Roster3, RosterType
  <2>5. players' = P \cup {p} /\ size' = SizeWithout(Namesakes(p)) + 1  BY <1>2 DEF Admit
  <2> HIDE DEF P, s, x
  <2>6. /\ slots' \in SlotMap /\ index' \in IndexMap /\ Match(players', slots', index')
        /\ Cardinality(players') = Cardinality(P) + 1
      BY <2>1, <2>2, <2>3, <2>4, <2>5, Insertion
  <2>7. players' \in SUBSET Players  BY <2>4, <2>5
  <2>8. size' = Cardinality(players')  BY <2>1, <2>5, <2>6
  <2>9. size' \in 0..Capacity
      BY <2>6, <2>7, <2>8, PlayersFitSlots, PlayersFinite, CapacityAssumption
  <2>10. RosterType'  BY <2>6, <2>7, <2>9 DEF RosterType, SlotMap, IndexMap
  <2>11. SlotsMatchPlayers'  BY <2>6, <2>8 DEF SlotsMatchPlayers, Match
  <2>12. OneEntryPerName'
    <3>1. \A q \in P : q \in players /\ Name[q] # Name[p]  BY DEF P, Namesakes
    <3> QED BY <2>5, <3>1 DEF Roster3, OneEntryPerName
  <2> QED BY <2>10, <2>11, <2>12 DEF Roster3
<1> QED BY <1>1, <1>2 DEF Register

\* What registerPlayer does to the set of players and to the channels.
LEMMA RegisterEffects ==
    ASSUME NEW p \in Players, Register(p)
    PROVE  /\ players \ Namesakes(p) \subseteq players'
           /\ players' \subseteq (players \ Namesakes(p)) \cup {p}
           /\ closing \subseteq closing'
           /\ closing' \subseteq closing \cup up
           /\ \A q \in Namesakes(p) : Channel[q] \in up => Channel[q] \in closing'
           /\ p \in players' \/ Channel[p] \notin up \/ Channel[p] \in closing'
           /\ switched' \in {switched, switched \cup {Channel[p]}}
<1>1. CASE Admit(p)  BY <1>1 DEF Admit, CloseChannels
<1>2. CASE Refuse(p)  BY <1>2 DEF Refuse, RemovePlayers, CloseChannels
<1>3. CASE FailBootstrap(p)  BY <1>3 DEF FailBootstrap, RemovePlayers, CloseChannels
<1> QED BY <1>1, <1>2, <1>3 DEF Register

-----------------------------------------------------------------------------
(* The steps, one part of the invariant at a time.                         *)

\* The head of each queue is a login that is not in the world.
LEMMA HeadsOutside ==
    ASSUME LoginsType, RosterType, QueuesOnce
    PROVE  /\ toAdd # <<>> => Head(toAdd) \in Players \ players
           /\ tasks # <<>> => Head(tasks) \in Players \ players
<1>1. toAdd \in Seq(Players) /\ tasks \in Seq(Players)  BY DEF LoginsType
<1>2. ASSUME toAdd # <<>> PROVE Head(toAdd) \in Players \ players
    BY <1>1, <1>2, TailElements DEF QueuesOnce
<1>3. ASSUME tasks # <<>> PROVE Head(tasks) \in Players \ players
    BY <1>1, <1>3, TailElements DEF QueuesOnce
<1> QED BY <1>2, <1>3

LEMMA RosterStep ==
    ASSUME LoginsType, TickType, Roster3, QueuesOnce, CopyCurrent, [Next]_vars
    PROVE  Roster3'
<1> DEFINE Goal == Roster3'
<1>1. ASSUME UNCHANGED roster PROVE Goal
    BY <1>1 DEF Roster3, roster, RosterType, SlotsMatchPlayers, OneEntryPerName
<1>2. ASSUME EventLoop PROVE UNCHANGED roster
    BY <1>2 DEF EventLoop, ContinueLogin, LobbyLogin, Inactive, roster
<1>3. CASE StartTick \/ EndDrain \/ EndSweep \/ EndRun
    BY <1>1, <1>3 DEF StartTick, EndDrain, EndSweep, EndRun
<1>4. CASE Drain
    BY <1>4, HeadsOutside, RegisterKeepsRoster DEF Drain, Roster3
<1>5. CASE RunTask
    BY <1>5, HeadsOutside, RegisterKeepsRoster DEF RunTask, Roster3
<1>6. ASSUME NEW p \in Players, Sweep(p) PROVE Goal
  <2>1. {p} \in SUBSET players  BY <1>6 DEF Sweep, CopyCurrent
  <2> QED BY <2>1, <1>1, <1>6, RemoveKeepsRoster DEF Sweep
<1>7. ASSUME NEW p \in Players, RunPlayer(p) PROVE Goal
    BY <1>1, <1>7 DEF RunPlayer
<1>8. ASSUME NEW p \in Players, RunPlayerThrows(p) PROVE Goal
  <2>1. {p} \in SUBSET players  BY <1>8 DEF RunPlayerThrows, CopyCurrent
  <2> QED BY <2>1, <1>8, RemoveKeepsRoster DEF RunPlayerThrows
<1>9. CASE UNCHANGED vars  BY <1>1, <1>9 DEF vars, roster
<1> QED BY <1>1, <1>2, <1>3, <1>4, <1>5, <1>6, <1>7, <1>8, <1>9 DEF Next, Tick

LEMMA ChannelsStep ==
    ASSUME LoginsType, RosterType, QueuesOnce, ChannelsType, [Next]_vars
    PROVE  ChannelsType'
<1> DEFINE Goal == ChannelsType'
<1>0. \A p \in Players : Channel[p] \in Channels  BY DEF Channels
<1>1. ASSUME NEW p \in Players, Register(p), UNCHANGED <<up, lost>> PROVE Goal
    BY <1>0, <1>1, RegisterEffects DEF ChannelsType
<1>2. ASSUME NEW p \in Players, ContinueLogin(p) \/ LobbyLogin(p) PROVE Goal
    BY <1>0, <1>2 DEF ContinueLogin, LobbyLogin, ChannelsType
<1>3. ASSUME NEW c \in Channels, Inactive(c) PROVE Goal
    BY <1>3 DEF Inactive, ChannelsType
<1>4. CASE StartTick \/ EndDrain \/ EndSweep \/ EndRun
    BY <1>4 DEF StartTick, EndDrain, EndSweep, EndRun, ChannelsType
<1>5. CASE Drain  BY <1>1, <1>5, HeadsOutside DEF Drain
<1>6. CASE RunTask  BY <1>1, <1>6, HeadsOutside DEF RunTask
<1>7. ASSUME NEW p \in Players, Sweep(p) \/ RunPlayer(p) PROVE Goal
    BY <1>7 DEF Sweep, RunPlayer, ChannelsType
<1>8. ASSUME NEW p \in Players, RunPlayerThrows(p) PROVE Goal
    BY <1>8 DEF RunPlayerThrows, CloseChannels, ChannelsType
<1>9. CASE UNCHANGED vars  BY <1>9 DEF vars, ChannelsType
<1> QED BY <1>2, <1>3, <1>4, <1>5, <1>6, <1>7, <1>8, <1>9 DEF Next, Tick, EventLoop
-----------------------------------------------------------------------------
(* The queues of logins.                                                   *)

LEMMA InAppended ==
    ASSUME NEW s \in Seq(Players), NEW p \in Players
    PROVE  \A q : InQueue(Append(s, p), q) <=> InQueue(s, q) \/ q = p
<1>1. /\ DOMAIN s = 1..Len(s) /\ Len(s) \in Nat
      /\ DOMAIN Append(s, p) = 1..(Len(s) + 1)
      /\ \A i \in 1..Len(s) : Append(s, p)[i] = s[i]
      /\ Append(s, p)[Len(s) + 1] = p
    BY AppendElements
<1> HIDE DEF InQueue
<1>2. ASSUME NEW q, InQueue(s, q) PROVE InQueue(Append(s, p), q)
    BY <1>1, <1>2 DEF InQueue
<1>3. InQueue(Append(s, p), p)  BY <1>1 DEF InQueue
<1>4. ASSUME NEW q, InQueue(Append(s, p), q), q # p PROVE InQueue(s, q)
  <2>1. PICK i \in 1..(Len(s) + 1) : Append(s, p)[i] = q  BY <1>1, <1>4 DEF InQueue
  <2>2. i \in 1..Len(s)  BY <1>1, <1>4, <2>1
  <2> QED BY <1>1, <2>1, <2>2 DEF InQueue
<1> QED BY <1>2, <1>3, <1>4

\* A queue without repetitions loses exactly its head.
LEMMA InTail ==
    ASSUME NEW s \in Seq(Players), s # <<>>,
           \A i, j \in DOMAIN s : s[i] = s[j] => i = j
    PROVE  \A q : InQueue(Tail(s), q) <=> InQueue(s, q) /\ q # Head(s)
<1>1. /\ Head(s) = s[1] /\ Len(s) \in Nat /\ Len(s) >= 1
      /\ DOMAIN s = 1..Len(s) /\ DOMAIN Tail(s) = 1..(Len(s) - 1)
      /\ \A i \in 1..(Len(s) - 1) : Tail(s)[i] = s[i + 1]
    BY TailElements
<1>2. ASSUME NEW q, InQueue(Tail(s), q) PROVE InQueue(s, q) /\ q # Head(s)
  <2>1. PICK i \in 1..(Len(s) - 1) : Tail(s)[i] = q  BY <1>1, <1>2 DEF InQueue
  <2>2. i + 1 \in 1..Len(s) /\ s[i + 1] = q /\ i + 1 # 1 /\ 1 \in 1..Len(s)
      BY <1>1, <2>1
  <2> QED BY <1>1, <2>2 DEF InQueue
<1>3. ASSUME NEW q, InQueue(s, q), q # Head(s) PROVE InQueue(Tail(s), q)
  <2>1. PICK i \in 1..Len(s) : s[i] = q  BY <1>1, <1>3 DEF InQueue
  <2>2. i # 1  BY <1>1, <1>3, <2>1
  <2>3. i - 1 \in 1..(Len(s) - 1) /\ (i - 1) + 1 = i  BY <1>1, <2>1, <2>2
  <2>4. Tail(s)[i - 1] = s[i]  BY <1>1, <2>3
  <2> QED BY <1>1, <2>1, <2>3, <2>4 DEF InQueue
<1> QED BY <1>2, <1>3

\* Who waits has been handed over and is not in the world.
LEMMA WaitingOutside ==
    ASSUME QueuesOnce, NEW q, Waiting(q)
    PROVE  rank[q] # 0 /\ q \notin players
    BY DEF QueuesOnce, Waiting, InQueue

\* The login that Drain or RunTask takes off its queue waits no longer, and
\* no other login is affected.
LEMMA DrainDequeues ==
    ASSUME LoginsType, QueuesOnce, toAdd # <<>>, toAdd' = Tail(toAdd), UNCHANGED tasks
    PROVE  /\ Waiting(Head(toAdd))
           /\ \A q : Waiting(q)' <=> Waiting(q) /\ q # Head(toAdd)
<1>1. toAdd \in Seq(Players)  BY DEF LoginsType
<1>2. \A q : InQueue(Tail(toAdd), q) <=> InQueue(toAdd, q) /\ q # Head(toAdd)
    BY <1>1, InTail DEF QueuesOnce
<1>3. InQueue(toAdd, Head(toAdd))  BY <1>1, TailElements DEF InQueue
<1>4. ~InQueue(tasks, Head(toAdd))
  <2>1. Head(toAdd) \notin Full  BY <1>3 DEF QueuesOnce, InQueue
  <2> QED BY <2>1 DEF QueuesOnce, InQueue
<1>5. \A q : Waiting(q)' <=> InQueue(Tail(toAdd), q) \/ InQueue(tasks, q)
    BY DEF Waiting, InQueue
<1> QED BY <1>2, <1>3, <1>4, <1>5 DEF Waiting

LEMMA RunTaskDequeues ==
    ASSUME LoginsType, QueuesOnce, tasks # <<>>, tasks' = Tail(tasks), UNCHANGED toAdd
    PROVE  /\ Waiting(Head(tasks))
           /\ \A q : Waiting(q)' <=> Waiting(q) /\ q # Head(tasks)
<1>1. tasks \in Seq(Players)  BY DEF LoginsType
<1>2. \A q : InQueue(Tail(tasks), q) <=> InQueue(tasks, q) /\ q # Head(tasks)
    BY <1>1, InTail DEF QueuesOnce
<1>3. InQueue(tasks, Head(tasks))  BY <1>1, TailElements DEF InQueue
<1>4. ~InQueue(toAdd, Head(tasks))
  <2>1. Head(tasks) \in Full  BY <1>3 DEF QueuesOnce, InQueue
  <2> QED BY <2>1 DEF QueuesOnce, InQueue
<1>5. \A q : Waiting(q)' <=> InQueue(toAdd, q) \/ InQueue(Tail(tasks), q)
    BY DEF Waiting, InQueue
<1> QED BY <1>2, <1>3, <1>4, <1>5 DEF Waiting

LEMMA HandOverWaits ==
    ASSUME LoginsType, NEW p \in Players, ContinueLogin(p) \/ LobbyLogin(p)
    PROVE  /\ \A q : Waiting(q)' <=> Waiting(q) \/ q = p
           /\ rank[p] = 0
           /\ rank' = [rank EXCEPT ![p] = clock + 1] /\ rank'[p] # 0
           /\ clock \in Nat /\ clock' = clock + 1
<1>1. toAdd \in Seq(Players) /\ tasks \in Seq(Players)  BY DEF LoginsType
<1>2. clock \in Nat  BY PlayersAssumption, FS_CardinalityType DEF LoginsType
<1>3. /\ rank[p] = 0 /\ rank' = [rank EXCEPT ![p] = clock + 1] /\ rank'[p] # 0
      /\ clock' = clock + 1
    BY <1>2 DEF ContinueLogin, LobbyLogin, HandOver, LoginsType
<1>4. CASE ContinueLogin(p)
  <2>1. tasks' = Append(tasks, p) /\ toAdd' = toAdd  BY <1>4 DEF ContinueLogin
  <2>2. \A q : InQueue(tasks', q) <=> InQueue(tasks, q) \/ q = p  BY <1>1, <2>1, InAppended
  <2>3. \A q : Waiting(q)' <=> InQueue(toAdd', q) \/ InQueue(tasks', q)
      BY DEF Waiting, InQueue
  <2> QED BY <1>2, <1>3, <2>1, <2>2, <2>3 DEF Waiting
<1>5. CASE LobbyLogin(p)
  <2>1. toAdd' = Append(toAdd, p) /\ tasks' = tasks  BY <1>5 DEF LobbyLogin
  <2>2. \A q : InQueue(toAdd', q) <=> InQueue(toAdd, q) \/ q = p  BY <1>1, <2>1, InAppended
  <2>3. \A q : Waiting(q)' <=> InQueue(toAdd', q) \/ InQueue(tasks', q)
      BY DEF Waiting, InQueue
  <2> QED BY <1>2, <1>3, <2>1, <2>2, <2>3 DEF Waiting
<1> QED BY <1>4, <1>5

LEMMA LoginsStep ==
    ASSUME LoginsType, ClockCounts, [Next]_vars
    PROVE  LoginsType' /\ ClockCounts'
<1> DEFINE Goal == LoginsType' /\ ClockCounts'
<1>0. toAdd \in Seq(Players) /\ tasks \in Seq(Players)  BY DEF LoginsType
<1>1. ASSUME NEW p \in Players, ContinueLogin(p) \/ LobbyLogin(p) PROVE Goal
  <2> DEFINE Given == {q \in Players : rank[q] # 0}
  <2>1. /\ rank[p] = 0 /\ rank' = [rank EXCEPT ![p] = clock + 1] /\ rank'[p] # 0
        /\ clock \in Nat /\ clock' = clock + 1
      BY <1>1, HandOverWaits
  <2>2. Given' = Given \cup {p}
    <3>1. \A q \in Players : q # p => rank'[q] = rank[q]  BY <2>1 DEF LoginsType
    <3>2. \A q \in Players : q \in Given' <=> q \in Given \/ q = p  BY <2>1, <3>1
    <3>3. Given' \subseteq Players /\ Given \cup {p} \subseteq Players  BY <1>1
    <3> HIDE DEF Given
    <3> QED BY <3>2, <3>3, Zenon
  <2>3. clock' = Cardinality(Given')
    <3>1. p \notin Given /\ clock = Cardinality(Given)  BY <2>1 DEF ClockCounts
    <3>2. IsFiniteSet(Given)  BY PlayersFinite
    <3> HIDE DEF Given
    <3>3. Cardinality(Given \cup {p}) = Cardinality(Given) + 1  BY <3>1, <3>2, FS_AddElement
    <3> QED BY <2>1, <2>2, <3>1, <3>3
  <2>4. clock' \in 0..Cardinality(Players)
      BY <2>3, PlayersFinite, PlayersAssumption, FS_CardinalityType
  <2>5. rank' \in [Players -> Nat]  BY <2>1 DEF LoginsType
  <2>6. CASE ContinueLogin(p)
    <3>1. tasks' = Append(tasks, p) /\ toAdd' = toAdd  BY <2>6 DEF ContinueLogin
    <3>2. tasks' \in Seq(Players)  BY <1>0, <3>1, AppendElements
    <3> QED BY <1>0, <3>1, <3>2, <2>3, <2>4, <2>5 DEF LoginsType, ClockCounts
  <2>7. CASE LobbyLogin(p)
    <3>1. toAdd' = Append(toAdd, p) /\ tasks' = tasks  BY <2>7 DEF LobbyLogin
    <3>2. toAdd' \in Seq(Players)  BY <1>0, <3>1, AppendElements
    <3> QED BY <1>0, <3>1, <3>2, <2>3, <2>4, <2>5 DEF LoginsType, ClockCounts
  <2> QED BY <1>1, <2>6, <2>7
<1>2. ASSUME UNCHANGED logins, toAdd' \in Seq(Players), tasks' \in Seq(Players) PROVE Goal
    BY <1>2 DEF LoginsType, ClockCounts, logins
<1>3. CASE Drain  BY <1>0, <1>2, <1>3, TailElements DEF Drain
<1>4. CASE RunTask  BY <1>0, <1>2, <1>4, TailElements DEF RunTask
<1>5. CASE StartTick \/ EndDrain \/ EndSweep \/ EndRun
    BY <1>0, <1>2, <1>5 DEF StartTick, EndDrain, EndSweep, EndRun
<1>6. ASSUME NEW p \in Players, Sweep(p) \/ RunPlayer(p) \/ RunPlayerThrows(p) PROVE Goal
    BY <1>0, <1>2, <1>6 DEF Sweep, RunPlayer, RunPlayerThrows
<1>7. ASSUME NEW c \in Channels, Inactive(c) PROVE Goal
    BY <1>0, <1>2, <1>7 DEF Inactive
<1>8. CASE UNCHANGED vars  BY <1>0, <1>2, <1>8 DEF vars, logins
<1> QED BY <1>1, <1>3, <1>4, <1>5, <1>6, <1>7, <1>8 DEF Next, Tick, EventLoop

\* The players of the next state, for the actions that do not register one.
LEMMA OnlyLeaving ==
    ASSUME [Next]_vars, ~Drain, ~RunTask
    PROVE  players' \subseteq players
<1>1. ASSUME NEW p \in Players, ContinueLogin(p) \/ LobbyLogin(p) PROVE players' = players
    BY <1>1 DEF ContinueLogin, LobbyLogin, roster
<1>2. ASSUME NEW c \in Channels, Inactive(c) PROVE players' = players
    BY <1>2 DEF Inactive, roster
<1>3. CASE StartTick \/ EndDrain \/ EndSweep \/ EndRun
    BY <1>3 DEF StartTick, EndDrain, EndSweep, EndRun, roster
<1>4. ASSUME NEW p \in Players, Sweep(p) \/ RunPlayer(p) \/ RunPlayerThrows(p)
      PROVE  players' \subseteq players
    BY <1>4 DEF Sweep, RunPlayer, RunPlayerThrows, RemovePlayers, roster
<1>5. CASE UNCHANGED vars  BY <1>5 DEF vars, roster
<1> QED BY <1>1, <1>2, <1>3, <1>4, <1>5 DEF Next, Tick, EventLoop

LEMMA QueuesStep ==
    ASSUME LoginsType, RosterType, QueuesOnce, [Next]_vars
    PROVE  QueuesOnce'
<1> DEFINE Goal == QueuesOnce'
<1>0. toAdd \in Seq(Players) /\ tasks \in Seq(Players)  BY DEF LoginsType
<1>m. /\ \A i \in DOMAIN toAdd : toAdd[i] \in Players
      /\ \A i \in DOMAIN tasks : tasks[i] \in Players
      /\ \A q \in players : q \in Players
    BY <1>0 DEF RosterType
<1>1. ASSUME players' \subseteq players, UNCHANGED <<rank, toAdd, tasks>> PROVE Goal
    BY <1>1 DEF QueuesOnce
<1>2. ASSUME NEW p \in Players, ContinueLogin(p) \/ LobbyLogin(p) PROVE Goal
  <2>1. rank[p] = 0 /\ rank'[p] # 0 /\ players' = players
      BY <1>2, HandOverWaits DEF ContinueLogin, LobbyLogin, roster
  <2>2. \A q \in Players : rank[q] # 0 => rank'[q] # 0
    <3>1. rank' = [rank EXCEPT ![p] = clock + 1]  BY <1>2, HandOverWaits
    <3> QED BY <3>1, <2>1 DEF LoginsType
  <2>3. p \notin players  BY <2>1 DEF QueuesOnce
  <2>4. CASE ContinueLogin(p)
    <3>1. tasks' = Append(tasks, p) /\ toAdd' = toAdd /\ p \in Full
        BY <2>4 DEF ContinueLogin
    <3>2. /\ DOMAIN tasks = 1..Len(tasks) /\ Len(tasks) \in Nat
          /\ DOMAIN tasks' = 1..(Len(tasks) + 1)
          /\ \A i \in 1..Len(tasks) : tasks'[i] = tasks[i]
          /\ tasks'[Len(tasks) + 1] = p
        BY <1>0, <3>1, AppendElements
    <3>3. \A i \in DOMAIN tasks : tasks[i] # p  BY <2>1 DEF QueuesOnce
    <3>4. \A i \in DOMAIN toAdd : toAdd[i] # p  BY <2>1 DEF QueuesOnce
    <3>5. \A i \in DOMAIN tasks' : rank'[tasks'[i]] # 0 /\ tasks'[i] \in Full \ players
        BY <1>m, <2>1, <2>2, <2>3, <3>1, <3>2, <3>3 DEF QueuesOnce
    <3>6. \A i, j \in DOMAIN tasks' : tasks'[i] = tasks'[j] => i = j
        BY <3>2, <3>3 DEF QueuesOnce
    <3>7. \A i \in DOMAIN toAdd : rank'[toAdd[i]] # 0  BY <1>m, <2>2 DEF QueuesOnce
    <3>8. \A q \in players : rank'[q] # 0  BY <1>m, <2>2 DEF QueuesOnce
    <3> QED BY <2>1, <3>1, <3>5, <3>6, <3>7, <3>8 DEF QueuesOnce
  <2>5. CASE LobbyLogin(p)
    <3>1. toAdd' = Append(toAdd, p) /\ tasks' = tasks /\ p \notin Full
        BY <2>5 DEF LobbyLogin
    <3>2. /\ DOMAIN toAdd = 1..Len(toAdd) /\ Len(toAdd) \in Nat
          /\ DOMAIN toAdd' = 1..(Len(toAdd) + 1)
          /\ \A i \in 1..Len(toAdd) : toAdd'[i] = toAdd[i]
          /\ toAdd'[Len(toAdd) + 1] = p
        BY <1>0, <3>1, AppendElements
    <3>3. \A i \in DOMAIN tasks : tasks[i] # p  BY <2>1 DEF QueuesOnce
    <3>4. \A i \in DOMAIN toAdd : toAdd[i] # p  BY <2>1 DEF QueuesOnce
    <3>5. \A i \in DOMAIN toAdd' : rank'[toAdd'[i]] # 0 /\ toAdd'[i] \notin players \cup Full
        BY <1>m, <2>1, <2>2, <2>3, <3>1, <3>2, <3>4 DEF QueuesOnce
    <3>6. \A i, j \in DOMAIN toAdd' : toAdd'[i] = toAdd'[j] => i = j
        BY <3>2, <3>4 DEF QueuesOnce
    <3>7. \A i \in DOMAIN tasks : rank'[tasks[i]] # 0  BY <1>m, <2>2 DEF QueuesOnce
    <3>8. \A q \in players : rank'[q] # 0  BY <1>m, <2>2 DEF QueuesOnce
    <3> QED BY <2>1, <3>1, <3>5, <3>6, <3>7, <3>8 DEF QueuesOnce
  <2> QED BY <1>2, <2>4, <2>5
<1>3. CASE Drain
  <2>1. toAdd # <<>> /\ toAdd' = Tail(toAdd) /\ UNCHANGED <<rank, tasks>>
      BY <1>3 DEF Drain, logins
  <2>2. /\ Head(toAdd) = toAdd[1] /\ Len(toAdd) \in Nat /\ Len(toAdd) >= 1
        /\ DOMAIN toAdd = 1..Len(toAdd) /\ DOMAIN toAdd' = 1..(Len(toAdd) - 1)
        /\ \A i \in 1..(Len(toAdd) - 1) : toAdd'[i] = toAdd[i + 1]
        /\ Head(toAdd) \in Players
      BY <1>0, <2>1, TailElements
  <2>3. players' \subseteq players \cup {Head(toAdd)}
      BY <1>3, <2>2, RegisterEffects DEF Drain
  <2>4. rank[Head(toAdd)] # 0 /\ Head(toAdd) \notin Full  BY <2>2 DEF QueuesOnce
  <2>5. \A i \in 1..(Len(toAdd) - 1) : i + 1 \in DOMAIN toAdd /\ i + 1 # 1 /\ 1 \in DOMAIN toAdd
      BY <2>2
  <2>6. \A i \in DOMAIN toAdd' : toAdd'[i] # Head(toAdd)  BY <2>2, <2>5 DEF QueuesOnce
  <2>7. \A i \in DOMAIN toAdd' : rank[toAdd'[i]] # 0 /\ toAdd'[i] \notin players' \cup Full
      BY <2>2, <2>3, <2>5, <2>6 DEF QueuesOnce
  <2>8. \A i, j \in DOMAIN toAdd' : toAdd'[i] = toAdd'[j] => i = j
      BY <2>2, <2>5 DEF QueuesOnce
  <2>9. \A i \in DOMAIN tasks : rank[tasks[i]] # 0 /\ tasks[i] \in Full \ players'
      BY <2>3, <2>4 DEF QueuesOnce
  <2>10. \A q \in players' : rank[q] # 0  BY <2>3, <2>4 DEF QueuesOnce
  <2> QED BY <2>1, <2>7, <2>8, <2>9, <2>10 DEF QueuesOnce
<1>4. CASE RunTask
  <2>1. tasks # <<>> /\ tasks' = Tail(tasks) /\ UNCHANGED <<rank, toAdd>>
      BY <1>4 DEF RunTask, logins
  <2>2. /\ Head(tasks) = tasks[1] /\ Len(tasks) \in Nat /\ Len(tasks) >= 1
        /\ DOMAIN tasks = 1..Len(tasks) /\ DOMAIN tasks' = 1..(Len(tasks) - 1)
        /\ \A i \in 1..(Len(tasks) - 1) : tasks'[i] = tasks[i + 1]
        /\ Head(tasks) \in Players
      BY <1>0, <2>1, TailElements
  <2>3. players' \subseteq players \cup {Head(tasks)}
      BY <1>4, <2>2, RegisterEffects DEF RunTask
  <2>4. rank[Head(tasks)] # 0 /\ Head(tasks) \in Full  BY <2>2 DEF QueuesOnce
  <2>5. \A i \in 1..(Len(tasks) - 1) : i + 1 \in DOMAIN tasks /\ i + 1 # 1 /\ 1 \in DOMAIN tasks
      BY <2>2
  <2>6. \A i \in DOMAIN tasks' : tasks'[i] # Head(tasks)  BY <2>2, <2>5 DEF QueuesOnce
  <2>7. \A i \in DOMAIN tasks' : rank[tasks'[i]] # 0 /\ tasks'[i] \in Full \ players'
      BY <2>2, <2>3, <2>5, <2>6 DEF QueuesOnce
  <2>8. \A i, j \in DOMAIN tasks' : tasks'[i] = tasks'[j] => i = j
      BY <2>2, <2>5 DEF QueuesOnce
  <2>9. \A i \in DOMAIN toAdd : rank[toAdd[i]] # 0 /\ toAdd[i] \notin players' \cup Full
      BY <2>3, <2>4 DEF QueuesOnce
  <2>10. \A q \in players' : rank[q] # 0  BY <2>3, <2>4 DEF QueuesOnce
  <2> QED BY <2>1, <2>7, <2>8, <2>9, <2>10 DEF QueuesOnce
<1>5. ASSUME ~Drain, ~RunTask,
             ~\E p \in Players : ContinueLogin(p) \/ LobbyLogin(p)
      PROVE  Goal
  <2>1. players' \subseteq players  BY <1>5, OnlyLeaving
  <2>2. UNCHANGED <<rank, toAdd, tasks>>
    <3>1. ASSUME NEW c \in Channels, Inactive(c) PROVE UNCHANGED <<rank, toAdd, tasks>>
        BY <3>1 DEF Inactive, logins
    <3>2. CASE StartTick \/ EndDrain \/ EndSweep \/ EndRun
        BY <3>2 DEF StartTick, EndDrain, EndSweep, EndRun, logins
    <3>3. ASSUME NEW p \in Players, Sweep(p) \/ RunPlayer(p) \/ RunPlayerThrows(p)
          PROVE  UNCHANGED <<rank, toAdd, tasks>>
        BY <3>3 DEF Sweep, RunPlayer, RunPlayerThrows, logins
    <3>4. CASE UNCHANGED vars  BY <3>4 DEF vars
    <3> QED BY <1>5, <3>1, <3>2, <3>3, <3>4 DEF Next, Tick, EventLoop
  <2> QED BY <1>1, <2>1, <2>2
<1> QED BY <1>2, <1>3, <1>4, <1>5
-----------------------------------------------------------------------------
(* The phases of a tick.                                                   *)

LEMMA TickStep ==
    ASSUME ChannelsType, RosterType, TickType, CopyCurrent, SweptSoFar, SweptBeforeRun,
           [Next]_vars
    PROVE  TickType' /\ CopyCurrent' /\ SweptSoFar' /\ SweptBeforeRun'
<1> DEFINE Goal == TickType' /\ CopyCurrent' /\ SweptSoFar' /\ SweptBeforeRun'
<1> USE DEF TickType, CopyCurrent, SweptSoFar, SweptBeforeRun
<1>1. ASSUME UNCHANGED <<tpc, todo, lost, players>> PROVE Goal  BY <1>1
<1>2. CASE EventLoop
    BY <1>1, <1>2 DEF EventLoop, ContinueLogin, LobbyLogin, Inactive, roster
<1>3. CASE RunTask  BY <1>3 DEF RunTask
<1>4. CASE StartTick  BY <1>4 DEF StartTick
<1>5. CASE Drain  BY <1>5 DEF Drain
<1>6. CASE EndDrain  BY <1>6 DEF EndDrain, RosterType, roster
<1>7. ASSUME NEW p \in Players, Sweep(p) PROVE Goal
  <2>1. todo' = todo \ {p} /\ tpc = "sweep" /\ tpc' = "sweep" /\ lost' = lost
      BY <1>7 DEF Sweep
  <2>2. CASE Channel[p] \in up
    <3>1. players' = players  BY <1>7, <2>2 DEF Sweep, roster
    <3>2. Channel[p] \notin lost  BY <2>2 DEF ChannelsType
    <3> QED BY <2>1, <3>1, <3>2
  <2>3. CASE Channel[p] \notin up
    <3>1. players' = players \ {p}  BY <1>7, <2>3 DEF Sweep, RemovePlayers
    <3> QED BY <2>1, <3>1
  <2> QED BY <2>2, <2>3
<1>8. CASE EndSweep  BY <1>8 DEF EndSweep, RosterType, roster
<1>9. ASSUME NEW p \in Players, RunPlayer(p) PROVE Goal
    BY <1>9 DEF RunPlayer, roster
<1>10. ASSUME NEW p \in Players, RunPlayerThrows(p) PROVE Goal
    BY <1>10 DEF RunPlayerThrows, RemovePlayers
<1>11. CASE EndRun  BY <1>11 DEF EndRun
<1>12. CASE UNCHANGED vars  BY <1>1, <1>12 DEF vars
<1> QED BY <1>2, <1>3, <1>4, <1>5, <1>6, <1>7, <1>8, <1>9, <1>10, <1>11, <1>12
        DEF Next, Tick
-----------------------------------------------------------------------------
(* Nobody is left hanging.                                                 *)

\* registerPlayer of the login h that has just been taken off its queue.
LEMMA RegisterLeavesNobody ==
    ASSUME NobodyLeftHanging, NEW h \in Players, Register(h), UNCHANGED <<rank, up>>,
           \A q : Waiting(q)' <=> Waiting(q) /\ q # h
    PROVE  NobodyLeftHanging'
<1> HIDE DEF Waiting
<1> SUFFICES ASSUME NEW q \in Players, rank'[q] # 0, ~Waiting(q)', q \notin players'
             PROVE  Channel[q] \notin up' \ closing'
    BY DEF NobodyLeftHanging
<1>1. CASE q = h  BY <1>1, RegisterEffects
<1>2. CASE q # h /\ q \in players
  <2>1. q \in Namesakes(h)  BY <1>2, RegisterEffects
  <2> QED BY <2>1, RegisterEffects
<1>3. CASE q # h /\ q \notin players
  <2>1. Channel[q] \notin up \ closing  BY <1>3 DEF NobodyLeftHanging
  <2> QED BY <2>1, RegisterEffects
<1> QED BY <1>1, <1>2, <1>3

LEMMA HangingStep ==
    ASSUME LoginsType, RosterType, QueuesOnce, NobodyLeftHanging, [Next]_vars
    PROVE  NobodyLeftHanging'
<1> DEFINE Goal == NobodyLeftHanging'
<1>1. ASSUME UNCHANGED <<rank, toAdd, tasks>>, up' \ closing' \subseteq up \ closing,
             \A q \in players \ players' : Channel[q] \notin up' \ closing'
      PROVE  Goal
  <2>1. \A q : Waiting(q)' <=> Waiting(q)  BY <1>1 DEF Waiting, InQueue
  <2> QED BY <1>1, <2>1 DEF NobodyLeftHanging
<1>2. ASSUME NEW p \in Players, ContinueLogin(p) \/ LobbyLogin(p) PROVE Goal
  <2>1. UNCHANGED <<up, closing, players>>
      BY <1>2 DEF ContinueLogin, LobbyLogin, roster
  <2>2. \A q : Waiting(q)' <=> Waiting(q) \/ q = p  BY <1>2, HandOverWaits
  <2>3. rank' = [rank EXCEPT ![p] = clock + 1]  BY <1>2, HandOverWaits
  <2>4. \A q \in Players : q # p => rank'[q] = rank[q]  BY <2>3 DEF LoginsType
  <2> QED BY <2>1, <2>2, <2>4 DEF NobodyLeftHanging
<1>3. ASSUME NEW c \in Channels, Inactive(c) PROVE Goal
    BY <1>1, <1>3 DEF Inactive, logins, roster
<1>4. CASE StartTick \/ EndDrain \/ EndSweep \/ EndRun
    BY <1>1, <1>4 DEF StartTick, EndDrain, EndSweep, EndRun, logins, roster
<1>5. CASE Drain
  <2>1. Head(toAdd) \in Players  BY <1>5, HeadsOutside DEF Drain
  <2>2. toAdd # <<>> /\ toAdd' = Tail(toAdd) /\ UNCHANGED <<tasks, rank, up>>
      BY <1>5 DEF Drain, logins
  <2> QED BY <1>5, <2>1, <2>2, DrainDequeues, RegisterLeavesNobody DEF Drain
<1>6. CASE RunTask
  <2>1. Head(tasks) \in Players  BY <1>6, HeadsOutside DEF RunTask
  <2>2. tasks # <<>> /\ tasks' = Tail(tasks) /\ UNCHANGED <<toAdd, rank, up>>
      BY <1>6 DEF RunTask, logins
  <2> QED BY <1>6, <2>1, <2>2, RunTaskDequeues, RegisterLeavesNobody DEF RunTask
<1>7. ASSUME NEW p \in Players, Sweep(p) PROVE Goal
    BY <1>1, <1>7 DEF Sweep, RemovePlayers, logins, roster
<1>8. ASSUME NEW p \in Players, RunPlayer(p) PROVE Goal
    BY <1>1, <1>8 DEF RunPlayer, logins, roster
<1>9. ASSUME NEW p \in Players, RunPlayerThrows(p) PROVE Goal
    BY <1>1, <1>9 DEF RunPlayerThrows, RemovePlayers, CloseChannels, logins
<1>10. CASE UNCHANGED vars  BY <1>1, <1>10 DEF vars
<1> QED BY <1>2, <1>3, <1>4, <1>5, <1>6, <1>7, <1>8, <1>9, <1>10
        DEF Next, Tick, EventLoop
-----------------------------------------------------------------------------
(* The theorems.                                                           *)

LEMMA InitIInv == Init => IInv
<1> SUFFICES ASSUME Init PROVE IInv  OBVIOUS
<1>1. rank = [p \in Players |-> 0] /\ clock = 0 /\ toAdd = <<>> /\ tasks = <<>>  BY DEF Init
<1>2. {p \in Players : rank[p] # 0} = {}  BY <1>1
<1>3. Cardinality({p \in Players : rank[p] # 0}) = 0 /\ Cardinality({}) = 0
    BY <1>2, FS_EmptySet
<1>4. LoginsType
  <2>1. Cardinality(Players) \in Nat  BY PlayersAssumption, FS_CardinalityType
  <2> QED BY <1>1, <2>1 DEF LoginsType
<1>5. ChannelsType  BY DEF Init, ChannelsType
<1>6. RosterType  BY CapacityAssumption DEF Init, RosterType
<1>7. TickType  BY DEF Init, TickType
<1>8. SlotsMatchPlayers
    BY <1>3, CapacityAssumption DEF Init, SlotsMatchPlayers
<1>9. OneEntryPerName  BY DEF Init, OneEntryPerName
<1>10. QueuesOnce  BY DEF Init, QueuesOnce
<1>11. CopyCurrent /\ SweptSoFar /\ SweptBeforeRun
    BY DEF Init, CopyCurrent, SweptSoFar, SweptBeforeRun
<1>12. NobodyLeftHanging  BY <1>1 DEF NobodyLeftHanging
<1> QED BY <1>1, <1>3, <1>4, <1>5, <1>6, <1>7, <1>8, <1>9, <1>10, <1>11, <1>12
        DEF IInv, TypeOK, ClockCounts

LEMMA NextIInv == IInv /\ [Next]_vars => IInv'
<1> SUFFICES ASSUME IInv, [Next]_vars PROVE IInv'  OBVIOUS
<1>1. /\ LoginsType /\ ChannelsType /\ RosterType /\ TickType /\ ClockCounts
      /\ Roster3 /\ QueuesOnce /\ CopyCurrent /\ SweptSoFar /\ SweptBeforeRun
      /\ NobodyLeftHanging
    BY DEF IInv, TypeOK, Roster3
<1>2. LoginsType' /\ ClockCounts'  BY <1>1, LoginsStep
<1>3. ChannelsType'  BY <1>1, ChannelsStep
<1>4. Roster3'  BY <1>1, RosterStep
<1>5. QueuesOnce'  BY <1>1, QueuesStep
<1>6. TickType' /\ CopyCurrent' /\ SweptSoFar' /\ SweptBeforeRun'  BY <1>1, TickStep
<1>7. NobodyLeftHanging'  BY <1>1, HangingStep
<1> QED BY <1>2, <1>3, <1>4, <1>5, <1>6, <1>7 DEF IInv, TypeOK, Roster3

\* The inductive invariant, for registerPlayer, removePlayer and tick().
THEOREM WorldInvariant == Spec => []IInv
    BY InitIInv, NextIInv, PTL DEF Spec

\* The fields of World, EntityList and TickEngine keep their types, and size
\* never leaves 0..capacity.
THEOREM TypeCorrect == Spec => []TypeOK
<1>1. IInv => TypeOK  BY DEF IInv
<1> QED BY <1>1, WorldInvariant, PTL

\* World.players and the slots of EntityList agree on every path, the failing
\* ones of registerPlayer and tick() included: the IllegalStateException of
\* EntityList.remove is never thrown.
THEOREM SlotsAlwaysMatch == Spec => []SlotsMatchPlayers
<1>1. IInv => SlotsMatchPlayers  BY DEF IInv
<1> QED BY <1>1, WorldInvariant, PTL

\* registerPlayer leaves one player of each name, whichever queue it comes from.
THEOREM OneEntry == Spec => []OneEntryPerName
<1>1. IInv => OneEntryPerName  BY DEF IInv
<1> QED BY <1>1, WorldInvariant, PTL

\* Whoever registerPlayer, the sweep or the run phase does not keep has its
\* channel closed.
THEOREM NobodyHangs == Spec => []NobodyLeftHanging
<1>1. IInv => NobodyLeftHanging  BY DEF IInv
<1> QED BY <1>1, WorldInvariant, PTL

\* tick() runs no player whose channel was down when the tick began.
THEOREM SweepComesFirst == Spec => []SweptBeforeRun
<1>1. IInv => SweptBeforeRun  BY DEF IInv
<1> QED BY <1>1, WorldInvariant, PTL
-----------------------------------------------------------------------------
(* The world implements the roster.                                        *)

\* Who is in the world has been handed over and waits no longer.
LEMMA PlayersSettledIn ==
    ASSUME QueuesOnce, RosterType
    PROVE  \A q \in players : q \in Players /\ rank[q] # 0 /\ ~Waiting(q)
    BY DEF QueuesOnce, RosterType, Waiting, InQueue

\* registerPlayer of the head h of a queue is an entry or a refusal.
LEMMA RegisterEnters ==
    ASSUME IInv, IInv', NEW h \in Players, h \notin players, Register(h), rank[h] # 0,
           UNCHANGED rank, Waiting(h), \A q : Waiting(q)' <=> Waiting(q) /\ q # h
    PROVE  Roster!Enter(h) \/ Roster!TurnAway(h)
<1> HIDE DEF Waiting
<1>1. \A q \in players : q \in Players /\ rank[q] # 0 /\ ~Waiting(q)
    BY PlayersSettledIn DEF IInv, TypeOK
<1>2. h \notin players \cup Settled  BY DEF Settled
<1>3. Roster!Others(h) = players \ Namesakes(h)  BY DEF Roster!Others, Namesakes
<1>4. CASE Admit(h)
  <2>1. players' = (players \ Namesakes(h)) \cup {h}  BY <1>4 DEF Admit
  <2>2. Cardinality(players') <= Capacity
      BY CapacityAssumption DEF IInv, TypeOK, RosterType, SlotsMatchPlayers
  <2>3. Settled' = Settled \cup Namesakes(h)
    <3>1. Namesakes(h) \subseteq players  BY DEF Namesakes
    <3>2. Settled' = {q \in Players : rank[q] # 0 /\ ~Waiting(q)' /\ q \notin players'}
        BY DEF Settled
    <3> QED BY <1>1, <2>1, <3>1, <3>2 DEF Settled
  <2>4. Namesakes(h) = players \ Roster!Others(h)  BY <1>3 DEF Namesakes
  <2>5. Roster!Cardinality(players') = Cardinality(players')
      BY Zenon DEF Roster!Cardinality, Cardinality
  <2> QED BY <1>2, <1>3, <2>1, <2>2, <2>3, <2>4, <2>5 DEF Roster!Enter
<1>5. CASE Refuse(h) \/ FailBootstrap(h)
  <2>1. players' = players \ Namesakes(h)
      BY <1>5 DEF Refuse, FailBootstrap, RemovePlayers
  <2>2. Settled' = Settled \cup Namesakes(h) \cup {h}
    <3>1. Namesakes(h) \subseteq players  BY DEF Namesakes
    <3>2. Settled' = {q \in Players : rank[q] # 0 /\ ~Waiting(q)' /\ q \notin players'}
        BY DEF Settled
    <3> QED BY <1>1, <2>1, <3>1, <3>2 DEF Settled
  <2>3. Namesakes(h) = players \ Roster!Others(h)  BY <1>3 DEF Namesakes
  <2> QED BY <1>2, <1>3, <2>1, <2>2, <2>3 DEF Roster!TurnAway
<1> QED BY <1>4, <1>5 DEF Register

LEMMA RosterSimulation ==
    ASSUME IInv, IInv', [Next]_vars
    PROVE  Roster!Next \/ UNCHANGED Roster!rvars
<1> DEFINE Goal == Roster!Next \/ UNCHANGED Roster!rvars
<1>0. LoginsType /\ RosterType /\ QueuesOnce  BY DEF IInv, TypeOK
<1>1. \A q \in players : q \in Players /\ rank[q] # 0 /\ ~Waiting(q)
    BY <1>0, PlayersSettledIn
<1>2. ASSUME UNCHANGED <<rank, toAdd, tasks>> PROVE \A q : Waiting(q)' <=> Waiting(q)
    BY <1>2 DEF Waiting, InQueue
<1>3. ASSUME UNCHANGED <<rank, toAdd, tasks, players>> PROVE Goal
    BY <1>2, <1>3 DEF Settled, Roster!rvars
<1>4. ASSUME NEW p \in Players, p \in players, players' = players \ {p},
             UNCHANGED <<rank, toAdd, tasks>>
      PROVE  Goal
  <2>1. Settled' = {q \in Players : rank[q] # 0 /\ ~Waiting(q)' /\ q \notin players'}
      BY <1>4 DEF Settled
  <2>2. Settled' = Settled \cup {p}
    <3> HIDE DEF Waiting
    <3> QED BY <1>1, <1>2, <1>4, <2>1 DEF Settled
  <2>3. Roster!Leave(p)  BY <1>4, <2>2 DEF Roster!Leave
  <2> QED BY <2>3 DEF Roster!Next
<1>5. ASSUME NEW p \in Players, ContinueLogin(p) \/ LobbyLogin(p) PROVE Goal
  <2>1. players' = players  BY <1>5 DEF ContinueLogin, LobbyLogin, roster
  <2>2. \A q : Waiting(q)' <=> Waiting(q) \/ q = p  BY <1>0, <1>5, HandOverWaits
  <2>3. rank[p] = 0 /\ rank' = [rank EXCEPT ![p] = clock + 1]
      BY <1>0, <1>5, HandOverWaits
  <2>4. \A q \in Players : q # p => rank'[q] = rank[q]  BY <1>0, <2>3 DEF LoginsType
  <2>5. Settled' = {q \in Players : rank'[q] # 0 /\ ~Waiting(q)' /\ q \notin players'}
      BY DEF Settled
  <2>6. Settled' = Settled
    <3> HIDE DEF Waiting
    <3> QED BY <2>1, <2>2, <2>3, <2>4, <2>5 DEF Settled
  <2> QED BY <2>1, <2>6 DEF Roster!rvars
<1>6. ASSUME NEW c \in Channels, Inactive(c) PROVE Goal
    BY <1>3, <1>6 DEF Inactive, logins, roster
<1>7. CASE StartTick \/ EndDrain \/ EndSweep \/ EndRun
    BY <1>3, <1>7 DEF StartTick, EndDrain, EndSweep, EndRun, logins, roster
<1>8. CASE Drain
  <2>1. Head(toAdd) \in Players \ players  BY <1>0, <1>8, HeadsOutside DEF Drain
  <2>2. toAdd # <<>> /\ toAdd' = Tail(toAdd) /\ UNCHANGED <<tasks, rank>>
      BY <1>8 DEF Drain, logins
  <2>3. rank[Head(toAdd)] # 0
    <3>1. toAdd \in Seq(Players)  BY <1>0 DEF LoginsType
    <3> QED BY <1>0, <2>2, <3>1, TailElements DEF QueuesOnce
  <2>4. Roster!Enter(Head(toAdd)) \/ Roster!TurnAway(Head(toAdd))
      BY <1>0, <1>8, <2>1, <2>2, <2>3, DrainDequeues, RegisterEnters DEF Drain
  <2> QED BY <2>1, <2>4 DEF Roster!Next
<1>9. CASE RunTask
  <2>1. Head(tasks) \in Players \ players  BY <1>0, <1>9, HeadsOutside DEF RunTask
  <2>2. tasks # <<>> /\ tasks' = Tail(tasks) /\ UNCHANGED <<toAdd, rank>>
      BY <1>9 DEF RunTask, logins
  <2>3. rank[Head(tasks)] # 0
    <3>1. tasks \in Seq(Players)  BY <1>0 DEF LoginsType
    <3> QED BY <1>0, <2>2, <3>1, TailElements DEF QueuesOnce
  <2>4. Roster!Enter(Head(tasks)) \/ Roster!TurnAway(Head(tasks))
      BY <1>0, <1>9, <2>1, <2>2, <2>3, RunTaskDequeues, RegisterEnters DEF RunTask
  <2> QED BY <2>1, <2>4 DEF Roster!Next
<1>10. ASSUME NEW p \in Players, Sweep(p) PROVE Goal
  <2>1. p \in players  BY <1>10 DEF Sweep, IInv, CopyCurrent
  <2> QED BY <1>3, <1>4, <1>10, <2>1 DEF Sweep, RemovePlayers, logins, roster
<1>11. ASSUME NEW p \in Players, RunPlayer(p) PROVE Goal
    BY <1>3, <1>11 DEF RunPlayer, logins, roster
<1>12. ASSUME NEW p \in Players, RunPlayerThrows(p) PROVE Goal
  <2>1. p \in players  BY <1>12 DEF RunPlayerThrows, IInv, CopyCurrent
  <2> QED BY <1>4, <1>12, <2>1 DEF RunPlayerThrows, RemovePlayers, logins
<1>13. CASE UNCHANGED vars  BY <1>3, <1>13 DEF vars
<1> QED BY <1>5, <1>6, <1>7, <1>8, <1>9, <1>10, <1>11, <1>12, <1>13
        DEF Next, Tick, EventLoop

\* Every way registerPlayer, the sweep and the run phase change the world is a
\* step of the roster: at most Capacity players, one of each name, a newcomer
\* in the place of its namesake, and nobody in the world a second time.
THEOREM WorldImplementsRoster == Spec => RosterSpec
<1>1. Init => Roster!Init
    BY DEF Init, Roster!Init, Settled
<1>2. IInv /\ IInv' /\ [Next]_vars => [Roster!Next]_Roster!rvars
    BY RosterSimulation
<1> QED BY <1>1, <1>2, WorldInvariant, PTL DEF Spec, RosterSpec, Roster!Spec
=============================================================================
