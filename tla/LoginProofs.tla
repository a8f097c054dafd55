----------------------------- MODULE LoginProofs -----------------------------
(***************************************************************************)
(* Theorems about Login, for any number of channels, users and packets.    *)
(***************************************************************************)
EXTENDS Login, SequenceTheorems, TLAPS

----------------------------------------------------------------------------
(* Types                                                                    *)

\* login-thread holds a login exactly while its callback runs, and a lobby login
\* where only a lobby login gets.
Callback ==
    /\ login = None <=> step = "take"
    /\ step \in {"remember", "listen"} => login \in Lobbies

TypeInv == TypeOK /\ Callback

LEMMA InitTypes == Init => TypeInv
<1> SUFFICES ASSUME Init PROVE TypeInv
    OBVIOUS
<1>1. \A S : <<>> \in Seq(S)
    OBVIOUS
<1> QED BY <1>1, ChannelsAssumption DEF Init, TypeInv, TypeOK, Callback, Links

LEMMA GiveTypes ==
    ASSUME TypeOK, NEW c \in Channels, NEW list \in Seq(Tasks), Give(c, list)
    PROVE  tasks' \in [Channels -> Seq(Tasks)]
<1>1. tasks \in [Channels -> Seq(Tasks)]
    BY DEF TypeOK
<1>2. tasks[c] \o list \in Seq(Tasks)
    BY <1>1, ConcatProperties, Zenon
<1> QED BY <1>1, <1>2 DEF Give

LEMMA WriteTypes ==
    ASSUME NEW c, NEW msg \in Messages \ {"refused"}
    PROVE  WriteOf(c, msg) \in Tasks
    BY DEF WriteOf, Tasks, Write, Encoders

LEMMA ClientTypes ==
    ASSUME TypeInv, NEW c \in Channels, Client(c)
    PROVE  TypeInv'
<1> USE DEF TypeInv
<1>1. ASSUME NEW msg \in Inputs, Sends(c, msg)
      PROVE  TypeInv'
  <2>1. Append(sent[c], msg) \in Seq(Inputs) /\ Append(toServer[c], msg) \in Seq(Inputs)
      BY DEF TypeOK
  <2>2. sent' \in [Channels -> Seq(Inputs)] /\ toServer' \in [Channels -> Seq(Inputs)]
      BY <1>1, <2>1 DEF Sends, TypeOK
  <2> QED BY <1>1, <2>2 DEF Sends, TypeOK, Callback, pipeline, loginThread, future, tickEngine
<1>2. CASE ClientLeaves(c)
    BY <1>2 DEF ClientLeaves, TypeOK, Callback, client, pipeline, loginThread, future, tickEngine
<1>3. CASE ClientLogsIn(c)
    BY <1>1, <1>3 DEF ClientLogsIn, Inputs
<1>4. CASE ClientContinues(c)
    BY <1>1, <1>4 DEF ClientContinues, Inputs
<1>5. CASE ClientSpeaks(c)
    BY <1>1, <1>5 DEF ClientSpeaks, Inputs
<1> QED BY <1>2, <1>3, <1>4, <1>5 DEF Client

LEMMA ReadTypes ==
    ASSUME TypeInv, NEW c \in Channels, Read(c)
    PROVE  TypeInv'
<1> DEFINE msg == Head(toServer[c])
<1>1. /\ Tail(toServer[c]) \in Seq(Inputs) /\ msg \in Inputs
    BY HeadTailProperties DEF TypeInv, TypeOK, Read, Inputs
<1>2. toServer' \in [Channels -> Seq(Inputs)]
    BY <1>1 DEF Read, TypeInv, TypeOK
<1>3. /\ UNCHANGED <<sent, tasks, snapshot, login, step, response, listening, toAdd, adding, stage>>
      /\ UNCHANGED <<decoder, encoder, handler>>
    BY DEF Read, pipeline, future
<1> DEFINE Rest == /\ open' \subseteq Channels /\ toClient' \in [Channels -> Seq(Outputs)]
                   /\ received' \in [Channels -> Seq(Packets)]
                   /\ user' \in [Channels -> Users \cup {None}]
                   /\ logins' \in Seq(Channels) /\ continues' \in Seq(Channels)
<1>0. /\ open \subseteq Channels /\ toClient \in [Channels -> Seq(Outputs)]
      /\ received \in [Channels -> Seq(Packets)]
      /\ user \in [Channels -> Users \cup {None}]
      /\ logins \in Seq(Channels) /\ continues \in Seq(Channels)
    BY DEF TypeInv, TypeOK
<1>4. ASSUME msg = "login" PROVE Rest
  <2>1. DecodeLogin(c)
      BY <1>4, PacketsAssumption DEF Read
  <2>2. ASSUME NEW name \in Users, Submit(c, name)
        PROVE  Rest
    <3>1. user \in [Channels -> Users \cup {None}] /\ logins \in Seq(Channels)
        BY DEF TypeInv, TypeOK
    <3>2. user' \in [Channels -> Users \cup {None}]
        BY <2>2, <3>1 DEF Submit
    <3>3. logins' \in Seq(Channels)
        BY <2>2, <3>1 DEF Submit
    <3>4. UNCHANGED <<open, toClient, received, continues>>
        BY <2>2 DEF Submit
    <3> QED BY <3>2, <3>3, <3>4, <1>0
  <2>3. CASE Refuse(c)
    <3>1. [msg |-> "refused", by |-> "login"] \in Outputs
        BY DEF Outputs, Messages, Encoders
    <3>2. Append(toClient[c], [msg |-> "refused", by |-> "login"]) \in Seq(Outputs)
        BY <3>1 DEF TypeInv, TypeOK
    <3>3. toClient' \in [Channels -> Seq(Outputs)]
        BY <2>3, <3>2 DEF Refuse, TypeInv, TypeOK
    <3> QED BY <2>3, <3>3 DEF Refuse, TypeInv, TypeOK
  <2>4. UserOf[c] \in Users /\ (Recall(c) # None => Recall(c) \in Users)
      BY DEF Users, Recall, Hosts, TypeInv, TypeOK
  <2> QED BY <2>1, <2>2, <2>3, <2>4 DEF DecodeLogin
<1>5. ASSUME msg = "continue" PROVE Rest
  <2>1. DecodeContinue(c)
      BY <1>5, PacketsAssumption DEF Read
  <2>2. continues' \in Seq(Channels)
      BY <2>1, <1>0 DEF DecodeContinue
  <2>3. UNCHANGED <<open, toClient, received, user, logins>>
      BY <2>1 DEF DecodeContinue
  <2> QED BY <2>2, <2>3, <1>0
<1>6. ASSUME msg \notin {"login", "continue"} PROVE Rest
  <2>1. DecodePacket(c, msg) /\ msg \in Packets
      BY <1>1, <1>6 DEF Read, Inputs
  <2>2. Append(received[c], msg) \in Seq(Packets)
      BY <2>1 DEF TypeInv, TypeOK
  <2>3. received' \in [Channels -> Seq(Packets)] /\ open' \subseteq Channels
      BY <2>1, <2>2 DEF DecodePacket, TypeInv, TypeOK
  <2> QED BY <2>1, <2>3 DEF DecodePacket, TypeInv, TypeOK
<1>7. Rest
    BY <1>4, <1>5, <1>6
<1> QED BY <1>2, <1>3, <1>7 DEF TypeInv, TypeOK, Callback

LEMMA ListenerTypes ==
    ASSUME TypeInv, NEW c \in Channels, NEW result, Listener(c, result)
    PROVE  /\ open' \subseteq Channels /\ toAdd' \in Seq(Channels)
           /\ decoder' \in [Channels -> Links] /\ encoder' \in [Channels -> Links]
           /\ handler' \in [Channels -> Links]
<1>1. CASE EnterGame(c)
  <2>1. toAdd' \in Seq(Channels)
      BY <1>1 DEF EnterGame, TypeInv, TypeOK
  <2>2. "game" \in Links
      BY DEF Links
  <2> QED BY <1>1, <2>1, <2>2 DEF EnterGame, TypeInv, TypeOK
<1>2. CASE open' \subseteq open /\ UNCHANGED <<pipeline, toAdd>>
    BY <1>2 DEF TypeInv, TypeOK, pipeline
<1> QED BY <1>1, <1>2 DEF Listener

LEMMA RunTaskTypes ==
    ASSUME TypeInv, NEW c \in Channels, RunTask(c)
    PROVE  TypeInv'
<1> DEFINE task == Head(tasks[c])
<1>1. /\ Tail(tasks[c]) \in Seq(Tasks) /\ task \in Tasks
    BY HeadTailProperties DEF TypeInv, TypeOK, RunTask
<1>2. tasks' \in [Channels -> Seq(Tasks)]
    BY <1>1 DEF RunTask, TypeInv, TypeOK
<1>3. /\ UNCHANGED <<sent, toServer, received, snapshot, user, listening, continues, adding, stage>>
      /\ UNCHANGED <<logins, login, step>>
    BY DEF RunTask, client, loginThread
<1> DEFINE Rest == /\ open' \subseteq Channels /\ toAdd' \in Seq(Channels)
                   /\ decoder' \in [Channels -> Links] /\ encoder' \in [Channels -> Links]
                   /\ handler' \in [Channels -> Links]
                   /\ toClient' \in [Channels -> Seq(Outputs)]
                   /\ response' \in [Lobbies -> {"pending", "written", "failed"}]
<1>4. ASSUME task \in Write PROVE Rest
  <2>1. RunWrite(c, task.msg, task.by)
      BY <1>4 DEF RunTask, Write
  <2> DEFINE through == IF task.by = "game" /\ encoder[c] = "linked" THEN "none" ELSE task.by
  <2>2. [msg |-> task.msg, by |-> through] \in Outputs
      BY <1>4 DEF Write, Outputs, Encoders
  <2>3. Append(toClient[c], [msg |-> task.msg, by |-> through]) \in Seq(Outputs)
      BY <2>2 DEF TypeInv, TypeOK
  <2>4. toClient' \in [Channels -> Seq(Outputs)]
      BY <2>1, <2>3 DEF RunWrite, TypeInv, TypeOK
  <2>5. response' \in [Lobbies -> {"pending", "written", "failed"}]
      BY <2>1 DEF RunWrite, TypeInv, TypeOK
  <2>6. \/ \E result : Listener(c, result)
        \/ UNCHANGED <<open, pipeline, toAdd>>
      BY <2>1 DEF RunWrite
  <2> QED BY <2>4, <2>5, <2>6, ListenerTypes DEF TypeInv, TypeOK, pipeline
<1>5. ASSUME task \in Add PROVE Rest
  <2>1. RunAdd(c, task.slot)
      BY <1>5 DEF RunTask, Add
  <2> QED BY <2>1 DEF RunAdd, TypeInv, TypeOK, Links
<1>6. ASSUME task \in Notify PROVE Rest
  <2>1. RunNotify(c)
      BY <1>6 DEF RunTask, Notify
  <2> QED BY <2>1, ListenerTypes DEF RunNotify, TypeInv, TypeOK
<1>7. Rest
    BY <1>1, <1>4, <1>5, <1>6 DEF Tasks
<1> QED BY <1>2, <1>3, <1>7 DEF TypeInv, TypeOK, Callback

LEMMA LoginThreadTypes ==
    ASSUME TypeInv, LoginThread
    PROVE  TypeInv'
<1>1. /\ UNCHANGED <<sent, toServer, open, toClient, received, user, response>>
      /\ UNCHANGED <<decoder, encoder, handler, continues, toAdd, adding, stage>>
    BY DEF LoginThread, client, pipeline, tickEngine
<1> DEFINE Rest == /\ tasks' \in [Channels -> Seq(Tasks)]
                   /\ snapshot' \in [Hosts -> Users \cup {None}]
                   /\ logins' \in Seq(Channels) /\ login' \in Channels \cup {None}
                   /\ step' \in {"take", "code", "remember", "respond", "listen"}
                   /\ listening' \subseteq Lobbies
                   /\ Callback'
<1>2. ASSUME Take PROVE Rest
  <2>1. Head(logins) \in Channels /\ Tail(logins) \in Seq(Channels)
      BY <1>2, HeadTailProperties DEF Take, TypeInv, TypeOK
  <2> QED BY <1>2, <2>1, ChannelsAssumption DEF Take, TypeInv, TypeOK, Callback
<1>3. ASSUME login # None PROVE login \in Channels
    BY <1>3 DEF TypeInv, TypeOK
<1>4. ASSUME AnswerCode PROVE Rest
  <2>1. login # None
      BY <1>4 DEF AnswerCode, TypeInv, Callback
  <2>2. <<WriteOf(login, "code")>> \in Seq(Tasks)
      BY WriteTypes DEF Messages
  <2>3. tasks' \in [Channels -> Seq(Tasks)]
      BY <1>3, <1>4, <2>1, <2>2, GiveTypes DEF AnswerCode, TypeInv
  <2> QED BY <1>4, <2>1, <2>3 DEF AnswerCode, TypeInv, TypeOK, Callback
<1>5. ASSUME Remember PROVE Rest
  <2>1. login \in Channels
      BY <1>5, <1>3 DEF Remember, TypeInv, Callback
  <2>2. UserOf[login] \in Users
      BY <2>1 DEF Users
  <2> QED BY <1>5, <2>1, <2>2 DEF Remember, TypeInv, TypeOK, Callback
<1>6. ASSUME RespondGame PROVE Rest
  <2>1. <<WriteOf(login, "varcs")>> \in Seq(Tasks)
      BY WriteTypes DEF Messages
  <2>2. tasks' \in [Channels -> Seq(Tasks)]
      BY <1>6, <2>1, GiveTypes DEF RespondGame, TypeInv, Channels
  <2> QED BY <1>6, <2>2 DEF RespondGame, TypeInv, TypeOK, Callback
<1>7. ASSUME RespondLobby PROVE Rest
  <2>1. <<WriteOf(login, "lobbyResponse")>> \in Seq(Tasks)
      BY WriteTypes DEF Messages
  <2>2. tasks' \in [Channels -> Seq(Tasks)]
      BY <1>7, <2>1, GiveTypes DEF RespondLobby, TypeInv, Channels
  <2> QED BY <1>7, <2>2 DEF RespondLobby, TypeInv, TypeOK, Callback
<1>8. ASSUME AddListener PROVE Rest
  <2>1. login \in Lobbies
      BY <1>8 DEF AddListener, TypeInv, Callback
  <2>2. [do |-> "notify"] \in Tasks
      BY DEF Tasks, Notify
  <2>3. (IF response[login] = "pending" THEN <<>> ELSE <<[do |-> "notify"]>>) \in Seq(Tasks)
      BY <2>2
  <2>4. tasks' \in [Channels -> Seq(Tasks)]
      BY <1>8, <2>1, <2>3, GiveTypes DEF AddListener, TypeInv, Channels
  <2> QED BY <1>8, <2>1, <2>4 DEF AddListener, TypeInv, TypeOK, Callback
<1>9. Rest
    BY <1>2, <1>4, <1>5, <1>6, <1>7, <1>8 DEF LoginThread
<1> QED BY <1>1, <1>9 DEF TypeInv, TypeOK

LEMMA TickEngineTypes ==
    ASSUME TypeInv, TickEngine
    PROVE  TypeInv'
<1>1. /\ UNCHANGED <<sent, toServer, open, toClient, received, snapshot, user>>
      /\ UNCHANGED <<logins, login, step, response, listening>>
    BY DEF TickEngine, client, loginThread, future
<1> DEFINE Rest == /\ tasks' \in [Channels -> Seq(Tasks)]
                   /\ decoder' \in [Channels -> Links] /\ encoder' \in [Channels -> Links]
                   /\ handler' \in [Channels -> Links]
                   /\ continues' \in Seq(Channels) /\ toAdd' \in Seq(Channels)
                   /\ adding' \in Channels \cup {None}
                   /\ stage' \in {"login-response", "decoder", "encoder", "handler", "rebuild"}
<1>2. ASSUME adding # None PROVE adding \in Channels
    BY <1>2 DEF TypeInv, TypeOK
<1>3. ASSUME AddPlayerNow \/ AddPostLobby PROVE Rest
  <2>1. /\ continues # <<>> => Head(continues) \in Channels /\ Tail(continues) \in Seq(Channels)
        /\ toAdd # <<>> => Head(toAdd) \in Channels /\ Tail(toAdd) \in Seq(Channels)
      BY HeadTailProperties DEF TypeInv, TypeOK
  <2> QED BY <1>3, <2>1 DEF AddPlayerNow, AddPostLobby, TypeInv, TypeOK, pipeline
<1>4. ASSUME LoginResponse PROVE Rest
  <2>1. <<WriteOf(adding, "code"), WriteOf(adding, "gameResponse")>> \in Seq(Tasks)
      BY WriteTypes DEF Messages
  <2>2. tasks' \in [Channels -> Seq(Tasks)]
      BY <1>2, <1>4, <2>1, GiveTypes DEF LoginResponse, TypeInv
  <2> QED BY <1>4, <2>2 DEF LoginResponse, TypeInv, TypeOK, pipeline
<1>5. ASSUME Replace PROVE Rest
  <2>1. [do |-> "add", slot |-> stage] \in Tasks
      BY <1>5 DEF Replace, Tasks, Add
  <2>2. tasks' \in [Channels -> Seq(Tasks)]
    <3>1. <<[do |-> "add", slot |-> stage]>> \in Seq(Tasks)
        BY <2>1
    <3> QED BY <1>2, <1>5, <3>1, GiveTypes DEF Replace, TypeInv
  <2>3. /\ decoder' \in [Channels -> Links] /\ encoder' \in [Channels -> Links]
        /\ handler' \in [Channels -> Links]
      BY <1>5 DEF Replace, Link, TypeInv, TypeOK, Links
  <2> QED BY <1>5, <2>2, <2>3 DEF Replace, TypeInv, TypeOK, Slots
<1>6. ASSUME Rebuild PROVE Rest
  <2>1. <<WriteOf(adding, Packet)>> \in Seq(Tasks)
      BY WriteTypes DEF Messages, Packet
  <2>2. tasks' \in [Channels -> Seq(Tasks)]
      BY <1>2, <1>6, <2>1, GiveTypes DEF Rebuild, TypeInv
  <2> QED BY <1>6, <2>2 DEF Rebuild, TypeInv, TypeOK, pipeline
<1>7. Rest
    BY <1>3, <1>4, <1>5, <1>6 DEF TickEngine
<1> QED BY <1>1, <1>7 DEF TypeInv, TypeOK, Callback

LEMMA NextTypes == TypeInv /\ [Next]_vars => TypeInv'
<1> SUFFICES ASSUME TypeInv, [Next]_vars PROVE TypeInv'
    OBVIOUS
<1>1. CASE Next
    BY <1>1, ClientTypes, ReadTypes, RunTaskTypes, LoginThreadTypes, TickEngineTypes
    DEF Next, EventLoop
<1>2. CASE UNCHANGED vars
    BY <1>2 DEF vars, client, pipeline, loginThread, future, tickEngine, TypeInv, TypeOK, Callback
<1> QED BY <1>1, <1>2

LEMMA TypesHold == Spec => []TypeInv
    BY InitTypes, NextTypes, PTL DEF Spec

\* Variables keep their types: each thread leaves the pipeline, the queues and the
\* callback it works on in a state the others can take up.
THEOREM TypeCorrect == Spec => []TypeOK
    BY TypesHold, PTL DEF TypeInv

----------------------------------------------------------------------------
(* The hand-off from the lobby to the game                                  *)

IsResponse(t) == t.do = "write" /\ t.msg = "lobbyResponse"

\* Nothing of a lobby login's answer is written, or about to be.
Unanswered(l) ==
    /\ ~Reached(l, "lobbyResponse")
    /\ \A i \in DOMAIN tasks[l] : ~IsResponse(tasks[l][i])
    /\ login = l => step \notin {"respond", "listen"}

\* What a host's snapshot says is its user, and while there is none, no lobby login from
\* the host is answered and no game login from it is under way.
Snapshots == \A c \in Channels : snapshot[HostOf[c]] \in {None, UserOf[c]}
AnswersAfter == \A l \in Lobbies : snapshot[HostOf[l]] = None => Unanswered(l)
GamesAfter ==
    \A g \in Games : snapshot[HostOf[g]] = None =>
        \A i \in DOMAIN toServer[g] : toServer[g][i] # "login"

HandOff == Snapshots /\ AnswersAfter /\ GamesAfter /\ HandedOver

LEMMA InitHandOff == Init => HandOff
<1> SUFFICES ASSUME Init PROVE HandOff
    OBVIOUS
<1>1. \A c \in Channels : /\ HostOf[c] \in Hosts /\ snapshot[HostOf[c]] = None
                          /\ tasks[c] = <<>> /\ toClient[c] = <<>> /\ toServer[c] = <<>>
                          /\ user[c] = None
    BY DEF Init, Hosts
<1>2. DOMAIN <<>> = {}
    OBVIOUS
<1>3. login = None /\ step = "take"
    BY DEF Init
<1> QED BY <1>1, <1>2, <1>3 DEF HandOff, Snapshots, AnswersAfter, GamesAfter, HandedOver,
                                Unanswered, Reached, Channels

\* What Append and concatenation leave of a sequence, and what they add.
LEMMA AppendOnly ==
    ASSUME NEW S, NEW s \in Seq(S), NEW e \in S, NEW i \in DOMAIN Append(s, e)
    PROVE  Append(s, e)[i] = e \/ (i \in DOMAIN s /\ Append(s, e)[i] = s[i])
    OBVIOUS

LEMMA ConcatOnly ==
    ASSUME NEW S, NEW s \in Seq(S), NEW t \in Seq(S), NEW i \in DOMAIN (s \o t)
    PROVE  \/ \E j \in DOMAIN t : (s \o t)[i] = t[j]
           \/ i \in DOMAIN s /\ (s \o t)[i] = s[i]
<1>1. /\ s \o t \in Seq(S) /\ Len(s) \in Nat /\ Len(t) \in Nat
      /\ Len(s \o t) = Len(s) + Len(t) /\ i \in 1..(Len(s) + Len(t))
      /\ DOMAIN s = 1..Len(s) /\ DOMAIN t = 1..Len(t)
      /\ (s \o t)[i] = IF i <= Len(s) THEN s[i] ELSE t[i - Len(s)]
    BY ConcatProperties
<1>2. CASE i <= Len(s)
    BY <1>1, <1>2
<1>3. CASE i > Len(s)
    BY <1>1, <1>3
<1> QED BY <1>1, <1>2, <1>3

LEMMA TailOnly ==
    ASSUME NEW S, NEW s \in Seq(S), s # <<>>, NEW i \in DOMAIN Tail(s)
    PROVE  i + 1 \in DOMAIN s /\ Tail(s)[i] = s[i + 1]
    OBVIOUS

LEMMA HeadIn ==
    ASSUME NEW S, NEW s \in Seq(S), s # <<>>
    PROVE  1 \in DOMAIN s /\ Head(s) = s[1]
    OBVIOUS

\* Tasks given that are no response leave a lobby login unanswered.
LEMMA GiveOthers ==
    ASSUME TypeInv, NEW c \in Channels, NEW list \in Seq(Tasks), Give(c, list),
           \A j \in DOMAIN list : ~IsResponse(list[j]),
           NEW l \in Lobbies, \A i \in DOMAIN tasks[l] : ~IsResponse(tasks[l][i])
    PROVE  \A i \in DOMAIN tasks'[l] : ~IsResponse(tasks'[l][i])
<1>1. tasks \in [Channels -> Seq(Tasks)] /\ l \in Channels
    BY DEF TypeInv, TypeOK, Channels
<1>2. CASE c = l
  <2>1. tasks'[l] = tasks[l] \o list
      BY <1>1, <1>2 DEF Give
  <2> QED BY <1>1, <2>1, ConcatOnly DEF IsResponse
<1>3. CASE c # l
    BY <1>1, <1>3 DEF Give
<1> QED BY <1>2, <1>3

LEMMA ClientHandOff ==
    ASSUME TypeInv, HandOff, OwnHosts, NEW c \in Channels, Client(c)
    PROVE  HandOff'
<1>1. UNCHANGED <<snapshot, tasks, toClient, login, step, user>>
    BY DEF Client, ClientLogsIn, ClientContinues, ClientSpeaks, ClientLeaves, Sends, loginThread
<1>2. Snapshots' /\ AnswersAfter' /\ HandedOver'
    BY <1>1 DEF HandOff, Snapshots, AnswersAfter, HandedOver, Unanswered, Reached
<1>3. ASSUME NEW g \in Games, snapshot[HostOf[g]] = None, NEW i \in DOMAIN toServer'[g]
      PROVE  toServer'[g][i] # "login"
  <2>1. /\ toServer \in [Channels -> Seq(Inputs)] /\ g \in Channels
        /\ \A j \in DOMAIN toServer[g] : toServer[g][j] # "login"
      BY <1>3 DEF TypeInv, TypeOK, HandOff, GamesAfter, Channels
  <2>2. ASSUME NEW msg \in Inputs \ {"login"}, Sends(c, msg)
        PROVE  toServer'[g][i] # "login"
    <3>1. CASE c = g
      <4>1. toServer'[g] = Append(toServer[g], msg)
          BY <2>1, <2>2, <3>1 DEF Sends
      <4> QED BY <1>3, <2>1, <4>1, AppendOnly
    <3>2. CASE c # g
        BY <1>3, <2>1, <2>2, <3>2 DEF Sends
    <3> QED BY <3>1, <3>2
  <2>3. CASE ClientLogsIn(c)
    <3>1. CASE c = g
      <4>1. PICK l \in Lobbies : UserOf[l] = UserOf[g] /\ Reached(l, "lobbyResponse")
          BY <2>3, <3>1 DEF ClientLogsIn
      <4>2. HostOf[l] = HostOf[g]
          BY <2>1, <4>1 DEF OwnHosts, Channels
      <4> QED BY <1>3, <4>1, <4>2 DEF HandOff, AnswersAfter, Unanswered
    <3>2. CASE c # g
        BY <1>3, <2>1, <2>3, <3>2 DEF ClientLogsIn, Sends
    <3> QED BY <3>1, <3>2
  <2>4. CASE ClientContinues(c)
      BY <2>2, <2>4 DEF ClientContinues, Inputs
  <2>5. CASE ClientSpeaks(c)
      BY <2>2, <2>5, PacketsAssumption DEF ClientSpeaks, Inputs
  <2>6. CASE ClientLeaves(c)
      BY <1>3, <2>1, <2>6 DEF ClientLeaves, client
  <2> QED BY <2>3, <2>4, <2>5, <2>6 DEF Client
<1> QED BY <1>1, <1>2, <1>3 DEF HandOff, GamesAfter

LEMMA ReadHandOff ==
    ASSUME TypeInv, HandOff, NEW c \in Channels, Read(c)
    PROVE  HandOff'
<1> DEFINE msg == Head(toServer[c])
<1>1. UNCHANGED <<snapshot, tasks, login, step>>
    BY DEF Read
<1>2. Snapshots'
    BY <1>1 DEF HandOff, Snapshots
<1>3. /\ toServer \in [Channels -> Seq(Inputs)] /\ toServer[c] # <<>>
      /\ toServer' = [toServer EXCEPT ![c] = Tail(@)]
    BY DEF TypeInv, TypeOK, Read
<1>4. GamesAfter'
  <2>1. ASSUME NEW g \in Games, snapshot[HostOf[g]] = None, NEW i \in DOMAIN toServer'[g]
        PROVE  toServer'[g][i] # "login"
    <3>1. g \in Channels /\ \A j \in DOMAIN toServer[g] : toServer[g][j] # "login"
        BY <2>1 DEF HandOff, GamesAfter, Channels
    <3>2. CASE c = g
      <4>1. toServer'[g] = Tail(toServer[g])
          BY <1>3, <3>1, <3>2
      <4> QED BY <1>3, <2>1, <3>1, <3>2, <4>1, TailOnly
    <3>3. CASE c # g
        BY <1>3, <2>1, <3>1, <3>3
    <3> QED BY <3>2, <3>3
  <2> QED BY <1>1, <2>1 DEF GamesAfter
<1>5. CASE toClient' = toClient /\ user' = user
    BY <1>1, <1>2, <1>4, <1>5 DEF HandOff, AnswersAfter, HandedOver, Unanswered, Reached
<1>6. CASE msg = "login"
  <2>1. DecodeLogin(c)
      BY <1>6, PacketsAssumption DEF Read
  <2>2. c \in Games => snapshot[HostOf[c]] = UserOf[c]
    <3>1. c \in Games => snapshot[HostOf[c]] # None
        BY <1>3, <1>6, HeadIn DEF HandOff, GamesAfter
    <3> QED BY <3>1 DEF HandOff, Snapshots
  <2>3. Submit(c, UserOf[c])
      BY <2>1, <2>2, ChannelsAssumption DEF DecodeLogin, Recall, Users, Channels
  <2>4. toClient' = toClient /\ \A g \in Games : user'[g] \in {None, UserOf[g]}
      BY <2>3 DEF Submit, HandOff, HandedOver, TypeInv, TypeOK, Channels
  <2> QED BY <1>1, <1>2, <1>4, <2>4 DEF HandOff, AnswersAfter, HandedOver, Unanswered, Reached
<1>7. CASE DecodeContinue(c) \/ DecodePacket(c, msg)
    BY <1>5, <1>7 DEF DecodeContinue, DecodePacket
<1> QED BY <1>6, <1>7 DEF Read

LEMMA RunTaskHandOff ==
    ASSUME TypeInv, HandOff, NEW c \in Channels, RunTask(c)
    PROVE  HandOff'
<1> DEFINE task == Head(tasks[c])
<1>1. UNCHANGED <<snapshot, toServer, login, step, user>>
    BY DEF RunTask, client, loginThread
<1>2. /\ tasks \in [Channels -> Seq(Tasks)] /\ tasks[c] # <<>>
      /\ tasks' = [tasks EXCEPT ![c] = Tail(@)]
    BY DEF TypeInv, TypeOK, RunTask
<1>3. ASSUME NEW l \in Lobbies, \A i \in DOMAIN tasks[l] : ~IsResponse(tasks[l][i])
      PROVE  /\ \A i \in DOMAIN tasks'[l] : ~IsResponse(tasks'[l][i])
             /\ c = l => ~IsResponse(task)
  <2>1. CASE c = l
    <3>1. tasks'[l] = Tail(tasks[l])
        BY <1>2, <2>1
    <3>2. ~IsResponse(task)
        BY <1>2, <1>3, <2>1, HeadIn
    <3> QED BY <1>2, <1>3, <2>1, <3>1, <3>2, TailOnly
  <2>2. CASE c # l
      BY <1>2, <1>3, <2>2 DEF Channels
  <2> QED BY <2>1, <2>2
<1>4. ASSUME NEW d \in Channels, NEW m \in {"refused", "lobbyResponse"}, ~Reached(d, m),
             Reached(d, m)'
      PROVE  d = c /\ m = "lobbyResponse" /\ IsResponse(task)
  <2>1. toClient \in [Channels -> Seq(Outputs)] /\ task \in Tasks
      BY <1>2, HeadTailProperties DEF TypeInv, TypeOK
  <2>2. toClient' # toClient
      BY <1>4 DEF Reached
  <2>3. task.do = "write" /\ RunWrite(c, task.msg, task.by)
      BY <2>2 DEF RunTask, RunAdd, RunNotify
  <2>4. task \in Write
      BY <2>1, <2>3 DEF Tasks, Add, Notify
  <2> DEFINE through == IF task.by = "game" /\ encoder[c] = "linked" THEN "none" ELSE task.by
             entry == [msg |-> task.msg, by |-> through]
  <2>5. toClient' = [toClient EXCEPT ![c] = Append(@, entry)]
      BY <2>2, <2>3 DEF RunWrite
  <2>6. entry \in Outputs /\ task.msg # "refused"
      BY <2>4 DEF Write, Outputs, Encoders
  <2>7. PICK i \in DOMAIN toClient'[d] : toClient'[d][i].msg = m
      BY <1>4 DEF Reached
  <2>8. d = c
      BY <1>4, <2>1, <2>5, <2>7 DEF Reached
  <2>9. toClient'[d] = Append(toClient[d], entry)
      BY <2>1, <2>5, <2>8
  <2>10. toClient'[d][i] = entry
      BY <1>4, <2>1, <2>6, <2>7, <2>9, AppendOnly DEF Reached
  <2>11. task.msg = m
      BY <2>7, <2>10
  <2> QED BY <2>3, <2>6, <2>8, <2>11 DEF IsResponse
<1>5. Snapshots' /\ GamesAfter'
    BY <1>1 DEF HandOff, Snapshots, GamesAfter
<1>6. HandedOver'
    BY <1>1, <1>4 DEF HandOff, HandedOver, Channels
<1>7. AnswersAfter'
    BY <1>1, <1>3, <1>4 DEF HandOff, AnswersAfter, Unanswered, Channels
<1> QED BY <1>5, <1>6, <1>7 DEF HandOff

LEMMA LoginThreadHandOff ==
    ASSUME TypeInv, HandOff, OwnHosts, LoginThread
    PROVE  HandOff'
<1>1. UNCHANGED <<toServer, toClient, user>>
    BY DEF LoginThread, client
<1>2. HandedOver'
    BY <1>1 DEF HandOff, HandedOver, Reached
<1>3. ASSUME login # None PROVE login \in Channels
    BY <1>3 DEF TypeInv, TypeOK
<1>4. ASSUME UNCHANGED snapshot, \A l \in Lobbies : snapshot[HostOf[l]] = None => Unanswered(l)'
      PROVE  HandOff'
    BY <1>1, <1>2, <1>4 DEF HandOff, Snapshots, AnswersAfter, GamesAfter
<1>5. CASE Take
    BY <1>1, <1>4, <1>5 DEF Take, HandOff, AnswersAfter, Unanswered, Reached
<1>6. CASE AnswerCode
  <2>1. login \in Channels /\ UNCHANGED <<snapshot, login>> /\ step' \in {"remember", "respond"}
      BY <1>3, <1>6 DEF AnswerCode, TypeInv, Callback
  <2>2. <<WriteOf(login, "code")>> \in Seq(Tasks) /\ ~IsResponse(WriteOf(login, "code"))
      BY WriteTypes DEF Messages, IsResponse, WriteOf
  <2>3. Give(login, <<WriteOf(login, "code")>>)
        /\ \A j \in DOMAIN <<WriteOf(login, "code")>> : ~IsResponse(<<WriteOf(login, "code")>>[j])
      BY <1>6, <2>2 DEF AnswerCode
  <2>4. ASSUME NEW l \in Lobbies, snapshot[HostOf[l]] = None PROVE Unanswered(l)'
    <3>1. Unanswered(l)
        BY <2>4 DEF HandOff, AnswersAfter
    <3>2. \A i \in DOMAIN tasks'[l] : ~IsResponse(tasks'[l][i])
        BY <2>1, <2>2, <2>3, <3>1, GiveOthers DEF Unanswered
    <3>3. login = l => step' = "remember"
        BY <1>6, <2>4 DEF AnswerCode
    <3> QED BY <1>1, <2>1, <3>1, <3>2, <3>3 DEF Unanswered, Reached
  <2> QED BY <1>4, <2>1, <2>4
<1>7. CASE Remember
  <2>1. login \in Channels /\ HostOf[login] \in Hosts /\ UserOf[login] # None
      BY <1>3, <1>7, ChannelsAssumption DEF Remember, TypeInv, Callback, Hosts, Users
  <2>2. snapshot' = [snapshot EXCEPT ![HostOf[login]] = UserOf[login]] /\ UNCHANGED <<tasks, login>>
      BY <1>7 DEF Remember
  <2>3. \A c \in Channels : /\ HostOf[c] \in Hosts
                            /\ HostOf[c] = HostOf[login] => snapshot'[HostOf[c]] = UserOf[c]
                            /\ HostOf[c] # HostOf[login] => snapshot'[HostOf[c]] = snapshot[HostOf[c]]
      BY <2>1, <2>2 DEF OwnHosts, Hosts, TypeInv, TypeOK
  <2>4. ASSUME NEW c \in Channels
        PROVE  /\ snapshot'[HostOf[c]] \in {None, UserOf[c]}
               /\ snapshot'[HostOf[c]] = None =>
                      HostOf[c] # HostOf[login] /\ snapshot[HostOf[c]] = None
    <3>1. UserOf[c] # None
        BY ChannelsAssumption DEF Users
    <3>2. CASE HostOf[c] = HostOf[login]
        BY <2>3, <3>1, <3>2
    <3>3. CASE HostOf[c] # HostOf[login]
      <4>1. snapshot'[HostOf[c]] = snapshot[HostOf[c]]
          BY <2>3, <3>3
      <4> QED BY <3>3, <4>1 DEF HandOff, Snapshots
    <3> QED BY <3>2, <3>3
  <2>5. Snapshots'
      BY <2>4 DEF Snapshots
  <2>6. GamesAfter'
      BY <1>1, <2>4 DEF HandOff, GamesAfter, Channels
  <2>7. AnswersAfter'
      BY <1>1, <2>2, <2>4 DEF HandOff, AnswersAfter, Unanswered, Reached, Channels
  <2> QED BY <1>2, <2>5, <2>6, <2>7 DEF HandOff
<1>8. CASE RespondGame
  <2>1. login \in Games /\ login \in Channels /\ UNCHANGED snapshot /\ login' = None /\ step' = "take"
      BY <1>8 DEF RespondGame, Channels
  <2>2. <<WriteOf(login, "varcs")>> \in Seq(Tasks) /\ ~IsResponse(WriteOf(login, "varcs"))
      BY WriteTypes DEF Messages, IsResponse, WriteOf
  <2>3. Give(login, <<WriteOf(login, "varcs")>>)
        /\ \A j \in DOMAIN <<WriteOf(login, "varcs")>> : ~IsResponse(<<WriteOf(login, "varcs")>>[j])
      BY <1>8, <2>2 DEF RespondGame
  <2>4. ASSUME NEW l \in Lobbies, snapshot[HostOf[l]] = None PROVE Unanswered(l)'
    <3>1. Unanswered(l)
        BY <2>4 DEF HandOff, AnswersAfter
    <3>2. \A i \in DOMAIN tasks'[l] : ~IsResponse(tasks'[l][i])
        BY <2>1, <2>2, <2>3, <3>1, GiveOthers DEF Unanswered
    <3> QED BY <1>1, <2>1, <3>1, <3>2 DEF Unanswered, Reached
  <2> QED BY <1>4, <2>1, <2>4
<1>9. CASE RespondLobby
  <2>1. /\ login \in Lobbies /\ login \in Channels /\ UNCHANGED <<snapshot, login>>
        /\ step = "respond" /\ Give(login, <<WriteOf(login, "lobbyResponse")>>)
      BY <1>9 DEF RespondLobby, Channels
  <2>2. ASSUME NEW l \in Lobbies, snapshot[HostOf[l]] = None PROVE Unanswered(l)'
    <3>1. Unanswered(l) /\ l # login /\ l \in Channels
        BY <2>1, <2>2 DEF HandOff, AnswersAfter, Unanswered, Channels
    <3>2. tasks'[l] = tasks[l]
        BY <2>1, <3>1 DEF Give, TypeInv, TypeOK
    <3> QED BY <1>1, <2>1, <3>1, <3>2 DEF Unanswered, Reached
  <2> QED BY <1>4, <2>1, <2>2
<1>10. CASE AddListener
  <2> DEFINE list == IF response[login] = "pending" THEN <<>> ELSE <<[do |-> "notify"]>>
  <2>1. /\ login \in Channels /\ UNCHANGED snapshot /\ login' = None /\ step' = "take"
        /\ Give(login, list)
      BY <1>10, <1>3 DEF AddListener, TypeInv, Callback
  <2>2. [do |-> "notify"] \in Tasks /\ ~IsResponse([do |-> "notify"])
      BY DEF Tasks, Notify, IsResponse
  <2>3. list \in Seq(Tasks) /\ \A j \in DOMAIN list : ~IsResponse(list[j])
    <3>1. CASE list = <<>>
        BY <3>1
    <3>2. CASE list = <<[do |-> "notify"]>>
        BY <2>2, <3>2
    <3> QED BY <3>1, <3>2
  <2> HIDE DEF list
  <2>4. ASSUME NEW l \in Lobbies, snapshot[HostOf[l]] = None PROVE Unanswered(l)'
    <3>1. Unanswered(l)
        BY <2>4 DEF HandOff, AnswersAfter
    <3>2. \A i \in DOMAIN tasks'[l] : ~IsResponse(tasks'[l][i])
        BY <2>1, <2>3, <3>1, GiveOthers DEF Unanswered
    <3> QED BY <1>1, <2>1, <3>1, <3>2 DEF Unanswered, Reached
  <2> QED BY <1>4, <2>1, <2>4
<1> QED BY <1>5, <1>6, <1>7, <1>8, <1>9, <1>10 DEF LoginThread

LEMMA TickEngineHandOff ==
    ASSUME TypeInv, HandOff, TickEngine
    PROVE  HandOff'
<1>1. UNCHANGED <<snapshot, toServer, toClient, user, login, step>>
    BY DEF TickEngine, client, loginThread
<1>2. ASSUME NEW l \in Lobbies, \A i \in DOMAIN tasks[l] : ~IsResponse(tasks[l][i])
      PROVE  \A i \in DOMAIN tasks'[l] : ~IsResponse(tasks'[l][i])
  <2>1. adding # None => adding \in Channels
      BY DEF TypeInv, TypeOK
  <2>2. ASSUME NEW x \in Tasks, NEW y \in Tasks, ~IsResponse(x), ~IsResponse(y), adding # None,
               Give(adding, <<x>>) \/ Give(adding, <<x, y>>)
        PROVE  \A i \in DOMAIN tasks'[l] : ~IsResponse(tasks'[l][i])
    <3>1. CASE Give(adding, <<x>>)
      <4>1. <<x>> \in Seq(Tasks) /\ \A j \in DOMAIN <<x>> : ~IsResponse(<<x>>[j])
          BY <2>2
      <4> QED BY <1>2, <2>1, <2>2, <3>1, <4>1, GiveOthers
    <3>2. CASE Give(adding, <<x, y>>)
      <4>1. <<x, y>> \in Seq(Tasks) /\ \A j \in DOMAIN <<x, y>> : ~IsResponse(<<x, y>>[j])
          BY <2>2
      <4> QED BY <1>2, <2>1, <2>2, <3>2, <4>1, GiveOthers
    <3> QED BY <2>2, <3>1, <3>2
  <2>3. CASE AddPlayerNow \/ AddPostLobby
      BY <1>2, <2>3 DEF AddPlayerNow, AddPostLobby
  <2>4. \A m \in {"code", "gameResponse", Packet} :
            WriteOf(adding, m) \in Tasks /\ ~IsResponse(WriteOf(adding, m))
      BY WriteTypes DEF Messages, Packet, IsResponse, WriteOf
  <2>5. CASE LoginResponse
      BY <2>2, <2>4, <2>5 DEF LoginResponse
  <2>6. CASE Replace
    <3>1. [do |-> "add", slot |-> stage] \in Tasks /\ ~IsResponse([do |-> "add", slot |-> stage])
        BY <2>6 DEF Replace, Tasks, Add, IsResponse
    <3> QED BY <2>2, <2>6, <3>1 DEF Replace
  <2>7. CASE Rebuild
      BY <2>2, <2>4, <2>7 DEF Rebuild
  <2> QED BY <2>3, <2>5, <2>6, <2>7 DEF TickEngine
<1> QED BY <1>1, <1>2 DEF HandOff, Snapshots, AnswersAfter, GamesAfter, HandedOver,
                          Unanswered, Reached

LEMMA NextHandOff == TypeInv /\ OwnHosts /\ HandOff /\ [Next]_vars => HandOff'
<1> SUFFICES ASSUME TypeInv, OwnHosts, HandOff, [Next]_vars PROVE HandOff'
    OBVIOUS
<1>1. CASE Next
    BY <1>1, ClientHandOff, ReadHandOff, RunTaskHandOff, LoginThreadHandOff, TickEngineHandOff
    DEF Next, EventLoop
<1>2. CASE UNCHANGED vars
    BY <1>2 DEF vars, client, loginThread, HandOff, Snapshots, AnswersAfter, GamesAfter,
                HandedOver, Unanswered, Reached
<1> QED BY <1>1, <1>2

\* LoginHandoffStore and the callback of a lobby login: remember() comes before the answer
\* a client waits for, so with a host of its own each user gets into the game as itself,
\* and is never refused for want of a snapshot.
THEOREM HandOffIsRight ==
    ASSUME OwnHosts
    PROVE  Spec => []HandedOver
<1>1. Init => HandOff
    BY InitHandOff
<1>2. TypeInv /\ HandOff /\ [Next]_vars => HandOff'
    BY NextHandOff
<1>3. HandOff => HandedOver
    BY DEF HandOff
<1> QED BY <1>1, <1>2, <1>3, TypesHold, PTL DEF Spec

----------------------------------------------------------------------------
(* Sequences: what they hold, and how often                                 *)

Once(s, e) == \A i, j \in DOMAIN s : s[i] = e /\ s[j] = e => i = j

LEMMA AppendHolds ==
    ASSUME NEW S, NEW s \in Seq(S), NEW e \in S
    PROVE  /\ Append(s, e) \in Seq(S) /\ Append(s, e) # <<>>
           /\ Range(Append(s, e)) = Range(s) \cup {e}
           /\ \A x : Contains(Append(s, e), x) <=> Contains(s, x) \/ x = e
           /\ \A x : Once(s, x) /\ (x = e => ~Contains(s, x)) => Once(Append(s, e), x)
<1>1. /\ Append(s, e) \in Seq(S) /\ Len(s) \in Nat /\ DOMAIN s = 1..Len(s)
      /\ Len(Append(s, e)) = Len(s) + 1 /\ DOMAIN Append(s, e) = 1..(Len(s) + 1)
      /\ \A i \in 1..Len(s) : Append(s, e)[i] = s[i]
      /\ Append(s, e)[Len(s) + 1] = e /\ Append(s, e) # <<>>
    OBVIOUS
<1>2. 1..(Len(s) + 1) = (1..Len(s)) \cup {Len(s) + 1}
    BY <1>1
<1>3. Range(Append(s, e)) = Range(s) \cup {e}
    BY <1>1, <1>2 DEF Range
<1>4. \A x : Contains(Append(s, e), x) <=> Contains(s, x) \/ x = e
    BY <1>1, <1>2 DEF Contains
<1>5. \A x : Once(s, x) /\ (x = e => ~Contains(s, x)) => Once(Append(s, e), x)
    BY <1>1, <1>2 DEF Contains, Once
<1> QED BY <1>1, <1>3, <1>4, <1>5

LEMMA TailHolds ==
    ASSUME NEW S, NEW s \in Seq(S), s # <<>>
    PROVE  /\ Tail(s) \in Seq(S) /\ Head(s) \in S /\ Range(s) = {Head(s)} \cup Range(Tail(s))
           /\ \A x : Contains(s, x) <=> Contains(Tail(s), x) \/ x = Head(s)
           /\ \A x : Once(s, x) => Once(Tail(s), x) /\ ~(x = Head(s) /\ Contains(Tail(s), x))
<1>1. /\ Tail(s) \in Seq(S) /\ Head(s) \in S /\ Head(s) = s[1]
      /\ Len(s) \in Nat /\ Len(s) >= 1 /\ DOMAIN s = 1..Len(s)
      /\ Len(Tail(s)) = Len(s) - 1 /\ DOMAIN Tail(s) = 1..(Len(s) - 1)
      /\ \A i \in 1..(Len(s) - 1) : Tail(s)[i] = s[i + 1]
    OBVIOUS
<1>2. /\ \A i \in 1..Len(s) : i = 1 \/ i - 1 \in 1..(Len(s) - 1)
      /\ \A i \in 1..(Len(s) - 1) : i + 1 \in 1..Len(s) /\ i + 1 # 1
      /\ 1 \in 1..Len(s)
    BY <1>1
<1>3. \A i \in 1..Len(s) : s[i] = Head(s) \/ (i - 1 \in 1..(Len(s) - 1) /\ s[i] = Tail(s)[i - 1])
  <2> SUFFICES ASSUME NEW i \in 1..Len(s), i # 1 
               PROVE  i - 1 \in 1..(Len(s) - 1) /\ s[i] = Tail(s)[i - 1]
      BY <1>1
  <2>1. i - 1 \in 1..(Len(s) - 1) /\ (i - 1) + 1 = i
      BY <1>1
  <2> QED BY <1>1, <2>1
<1>4. Range(s) = {Head(s)} \cup Range(Tail(s))
  <2>1. ASSUME NEW x \in Range(s) PROVE x \in {Head(s)} \cup Range(Tail(s))
      BY <1>1, <1>3, <2>1 DEF Range
  <2>2. ASSUME NEW x \in {Head(s)} \cup Range(Tail(s)) PROVE x \in Range(s)
      BY <1>1, <1>2, <2>2 DEF Range
  <2> QED BY <2>1, <2>2
<1>5. \A x : Contains(s, x) <=> Contains(Tail(s), x) \/ x = Head(s)
  <2> TAKE x
  <2>1. Contains(s, x) => Contains(Tail(s), x) \/ x = Head(s)
      BY <1>1, <1>3 DEF Contains
  <2>2. Contains(Tail(s), x) \/ x = Head(s) => Contains(s, x)
      BY <1>1, <1>2 DEF Contains
  <2> QED BY <2>1, <2>2
<1>6. \A x : Once(s, x) => Once(Tail(s), x) /\ ~(x = Head(s) /\ Contains(Tail(s), x))
  <2> SUFFICES ASSUME NEW x, Once(s, x)
               PROVE  Once(Tail(s), x) /\ ~(x = Head(s) /\ Contains(Tail(s), x))
      OBVIOUS
  <2>1. ASSUME NEW i \in 1..(Len(s) - 1), NEW j \in 1..(Len(s) - 1), Tail(s)[i] = x, Tail(s)[j] = x
        PROVE  i = j
    <3>1. i + 1 \in 1..Len(s) /\ j + 1 \in 1..Len(s) /\ s[i + 1] = x /\ s[j + 1] = x
        BY <1>1, <1>2, <2>1
    <3>2. i + 1 = j + 1
        BY <1>1, <3>1 DEF Once
    <3> QED BY <3>2
  <2>2. ASSUME x = Head(s), NEW i \in 1..(Len(s) - 1), Tail(s)[i] = x
        PROVE  FALSE
    <3>1. i + 1 \in 1..Len(s) /\ s[i + 1] = x /\ 1 \in 1..Len(s) /\ s[1] = x
        BY <1>1, <1>2, <2>2
    <3>2. i + 1 = 1
        BY <1>1, <3>1 DEF Once
    <3> QED BY <3>2
  <2> QED BY <1>1, <2>1, <2>2 DEF Once, Contains
<1> QED BY <1>1, <1>4, <1>5, <1>6

----------------------------------------------------------------------------
(* One login, one answer                                                    *)

Given(c) == Range(tasks[c])
Written(c) == Range(toClient[c])
IsWrite(task, msg) == task.do = "write" /\ task.msg = msg
Writing(c, msg) == \E task \in Given(c) : IsWrite(task, msg)

\* A login that login-thread is not done with is on its way, queued, or in hand.
Pending(c) == Contains(toServer[c], "login") \/ Contains(logins, c) \/ login = c
OnePending(c) ==
    /\ Once(toServer[c], "login") /\ Once(logins, c)
    /\ Contains(toServer[c], "login") => ~Contains(logins, c) /\ login # c
    /\ Contains(logins, c) => login # c

\* login-thread is done with it: a lobby response has its listener, a game login's is written.
Answered(c) == c \in listening \/ Writing(c, "varcs") \/ Reached(c, "varcs")

OneAnswer(c) ==
    /\ OnePending(c)
    /\ Pending(c) => sent[c] # <<>>
    /\ Answered(c) => sent[c] # <<>> /\ ~Pending(c)
    /\ [do |-> "notify"] \in Given(c) => c \in listening
    /\ Writing(c, "lobbyResponse") => c \in Lobbies
    /\ Writing(c, "varcs") \/ Reached(c, "varcs") => c \in Games
    /\ Contains(sent[c], "continue") => Reached(c, "varcs")

LEMMA ReachedIs == \A c, m : Reached(c, m) <=> \E out \in Written(c) : out.msg = m
    BY DEF Reached, Written, Range

\* What the parts of a channel are made of, and the new ones of the next state.
LEMMA Elements ==
    ASSUME TypeInv, NEW c \in Channels
    PROVE  /\ toServer[c] \in Seq(Inputs) /\ sent[c] \in Seq(Inputs) /\ tasks[c] \in Seq(Tasks)
           /\ toClient[c] \in Seq(Outputs) /\ received[c] \in Seq(Packets)
           /\ Given(c) \subseteq Tasks /\ Written(c) \subseteq Outputs
           /\ logins \in Seq(Channels) /\ continues \in Seq(Channels) /\ toAdd \in Seq(Channels)
<1>1. /\ toServer[c] \in Seq(Inputs) /\ sent[c] \in Seq(Inputs) /\ tasks[c] \in Seq(Tasks)
      /\ toClient[c] \in Seq(Outputs) /\ received[c] \in Seq(Packets)
      /\ logins \in Seq(Channels) /\ continues \in Seq(Channels) /\ toAdd \in Seq(Channels)
    BY DEF TypeInv, TypeOK
<1> QED BY <1>1 DEF Given, Written, Range

\* Give puts the tasks at the end of the channel's, and leaves the other channels'.
LEMMA GiveOne ==
    ASSUME TypeInv, NEW c \in Channels, NEW x \in Tasks, Give(c, <<x>>)
    PROVE  /\ tasks'[c] = Append(tasks[c], x) /\ Given(c)' = Given(c) \cup {x}
           /\ \A d \in Channels \ {c} : tasks'[d] = tasks[d] /\ Given(d)' = Given(d)
<1>1. tasks \in [Channels -> Seq(Tasks)] /\ tasks[c] \in Seq(Tasks)
    BY DEF TypeInv, TypeOK
<1>2. tasks[c] \o <<x>> = Append(tasks[c], x)
    BY <1>1
<1>3. tasks'[c] = Append(tasks[c], x) /\ \A d \in Channels \ {c} : tasks'[d] = tasks[d]
    BY <1>1, <1>2 DEF Give
<1> QED BY <1>1, <1>3, AppendHolds DEF Given

LEMMA GiveTwo ==
    ASSUME TypeInv, NEW c \in Channels, NEW x \in Tasks, NEW y \in Tasks, Give(c, <<x, y>>)
    PROVE  /\ tasks'[c] = Append(Append(tasks[c], x), y) /\ Given(c)' = Given(c) \cup {x, y}
           /\ \A d \in Channels \ {c} : tasks'[d] = tasks[d] /\ Given(d)' = Given(d)
<1>1. tasks \in [Channels -> Seq(Tasks)] /\ tasks[c] \in Seq(Tasks)
    BY DEF TypeInv, TypeOK
<1>2. tasks[c] \o <<x, y>> = Append(Append(tasks[c], x), y)
    BY <1>1
<1>3. /\ tasks'[c] = Append(Append(tasks[c], x), y)
      /\ \A d \in Channels \ {c} : tasks'[d] = tasks[d]
    BY <1>1, <1>2 DEF Give
<1>4. /\ Append(tasks[c], x) \in Seq(Tasks)
      /\ Range(Append(tasks[c], x)) = Range(tasks[c]) \cup {x}
    BY <1>1, AppendHolds
<1>5. ASSUME NEW s \in Seq(Tasks) PROVE Range(Append(s, y)) = Range(s) \cup {y}
    BY AppendHolds
<1> QED BY <1>1, <1>3, <1>4, <1>5 DEF Given

\* A channel of which a step changes none of what OneAnswer speaks of.
Untold(c) ==
    /\ sent'[c] = sent[c] /\ toServer'[c] = toServer[c]
    /\ tasks'[c] = tasks[c] /\ toClient'[c] = toClient[c]
    /\ Once(logins, c) => Once(logins', c)
    /\ Contains(logins', c) <=> Contains(logins, c)
    /\ login' = c <=> login = c
    /\ c \in listening' <=> c \in listening

LEMMA UntoldAnswer ==
    ASSUME NEW c \in Channels, OneAnswer(c), Untold(c)
    PROVE  OneAnswer(c)'
<1>1. Given(c)' = Given(c) /\ Written(c)' = Written(c)
    BY DEF Untold, Given, Written
<1>2. (Reached(c, "varcs"))' <=> Reached(c, "varcs")
    BY DEF Untold, Reached
<1>3. /\ Writing(c, "varcs")' <=> Writing(c, "varcs")
      /\ Writing(c, "lobbyResponse")' <=> Writing(c, "lobbyResponse")
    BY <1>1 DEF Writing
<1> QED BY <1>1, <1>2, <1>3 DEF Untold, OneAnswer, OnePending, Pending, Answered

LEMMA ClientAnswer ==
    ASSUME TypeInv, NEW c \in Channels, Client(c), NEW d \in Channels, OneAnswer(d)
    PROVE  OneAnswer(d)'
<1>1. UNCHANGED <<tasks, toClient, logins, login, listening>>
    BY DEF Client, ClientLogsIn, ClientContinues, ClientSpeaks, ClientLeaves, Sends,
           loginThread, future
<1>2. CASE ClientLeaves(c)
    BY <1>1, <1>2, UntoldAnswer DEF ClientLeaves, client, Untold
<1>3. ASSUME NEW msg \in Inputs, Sends(c, msg),
             msg = "login" => sent[c] = <<>>,
             msg = "continue" => Reached(c, "varcs")
      PROVE  OneAnswer(d)'
  <2>1. CASE d # c
    <3>1. sent'[d] = sent[d] /\ toServer'[d] = toServer[d]
        BY <1>3, <2>1 DEF Sends, TypeInv, TypeOK
    <3> QED BY <1>1, <3>1, UntoldAnswer DEF Untold
  <2>2. CASE d = c
    <3>1. sent'[c] = Append(sent[c], msg) /\ toServer'[c] = Append(toServer[c], msg)
        BY <1>3 DEF Sends, TypeInv, TypeOK
    <3>2. /\ sent'[c] # <<>>
          /\ Contains(sent'[c], "continue") <=> Contains(sent[c], "continue") \/ msg = "continue"
      <4>1. sent[c] \in Seq(Inputs)
          BY Elements
      <4>2. /\ Append(sent[c], msg) # <<>>
            /\ \A x : Contains(Append(sent[c], msg), x) <=> Contains(sent[c], x) \/ x = msg
          BY <4>1, AppendHolds
      <4> QED BY <3>1, <4>2
    <3>3. /\ Contains(toServer'[c], "login") <=> Contains(toServer[c], "login") \/ msg = "login"
          /\ Once(toServer[c], "login") /\ (msg = "login" => ~Contains(toServer[c], "login"))
                => Once(toServer'[c], "login")
        BY <3>1, Elements, AppendHolds
    <3>4. Given(c)' = Given(c) /\ (Reached(c, "varcs")' <=> Reached(c, "varcs"))
        BY <1>1 DEF Given, Reached
    <3>5. /\ Writing(c, "varcs")' <=> Writing(c, "varcs")
          /\ Writing(c, "lobbyResponse")' <=> Writing(c, "lobbyResponse")
        BY <3>4 DEF Writing
    <3> QED BY <1>1, <1>3, <2>2, <3>2, <3>3, <3>4, <3>5
            DEF OneAnswer, OnePending, Pending, Answered
  <2> QED BY <2>1, <2>2
<1>4. CASE ClientLogsIn(c)
    BY <1>3, <1>4 DEF ClientLogsIn, Inputs
<1>5. CASE ClientContinues(c)
    BY <1>3, <1>5 DEF ClientContinues, Inputs
<1>6. CASE ClientSpeaks(c)
    BY <1>3, <1>6, PacketsAssumption DEF ClientSpeaks, Inputs
<1> QED BY <1>2, <1>4, <1>5, <1>6 DEF Client

LEMMA ReadAnswer ==
    ASSUME TypeInv, NEW c \in Channels, Read(c), NEW d \in Channels, OneAnswer(d)
    PROVE  OneAnswer(d)'
<1> DEFINE msg == Head(toServer[c])
<1>1. UNCHANGED <<sent, tasks, login, listening>>
    BY DEF Read, future
<1>2. toServer[c] # <<>> /\ toServer'[c] = Tail(toServer[c])
    BY DEF Read, TypeInv, TypeOK
<1>3. CASE d # c
  <2>1. toServer'[d] = toServer[d]
      BY <1>3 DEF Read, TypeInv, TypeOK
  <2>2. toClient'[d] = toClient[d]
      BY <1>3 DEF Read, DecodeLogin, DecodeContinue, DecodePacket, Submit, Refuse, TypeInv, TypeOK
  <2>3. logins' = logins \/ logins' = Append(logins, c)
      BY DEF Read, DecodeLogin, DecodeContinue, DecodePacket, Submit, Refuse
  <2>4. (Once(logins, d) => Once(logins', d)) /\ (Contains(logins', d) <=> Contains(logins, d))
    <3>1. logins \in Seq(Channels)
        BY Elements
    <3>2. /\ Contains(Append(logins, c), d) <=> Contains(logins, d) \/ d = c
          /\ Once(logins, d) /\ (d = c => ~Contains(logins, d)) => Once(Append(logins, c), d)
        BY <3>1, AppendHolds
    <3> QED BY <1>3, <2>3, <3>2
  <2> QED BY <1>1, <2>1, <2>2, <2>4, UntoldAnswer DEF Untold
<1>4. CASE d = c
  <2>1. Given(c)' = Given(c)
      BY <1>1 DEF Given
  <2>2. /\ Writing(c, "varcs")' <=> Writing(c, "varcs")
        /\ Writing(c, "lobbyResponse")' <=> Writing(c, "lobbyResponse")
      BY <2>1 DEF Writing
  <2>3. /\ Contains(toServer[c], "login") <=> Contains(toServer'[c], "login") \/ msg = "login"
        /\ Once(toServer[c], "login") =>
               Once(toServer'[c], "login") /\ ~(msg = "login" /\ Contains(toServer'[c], "login"))
      BY <1>2, Elements, TailHolds
  <2>4. ASSUME logins' = logins \/ (msg = "login" /\ logins' = Append(logins, c)),
               Reached(c, "varcs")' <=> Reached(c, "varcs")
        PROVE  OneAnswer(c)'
    <3>1. CASE logins' = logins
        BY <1>1, <1>4, <2>1, <2>2, <2>3, <2>4, <3>1 DEF OneAnswer, OnePending, Pending, Answered
    <3>2. CASE msg = "login" /\ logins' = Append(logins, c)
      <4>1. Contains(logins', c) /\ (~Contains(logins, c) => Once(logins', c))
          BY <1>4, <3>2, Elements, AppendHolds DEF OneAnswer, OnePending
      <4> QED BY <1>1, <1>4, <2>1, <2>2, <2>3, <2>4, <3>2, <4>1
              DEF OneAnswer, OnePending, Pending, Answered
    <3> QED BY <2>4, <3>1, <3>2
  <2>5. CASE toClient' = toClient
    <3>1. Reached(c, "varcs")' <=> Reached(c, "varcs")
        BY <2>5 DEF Reached
    <3>2. logins' = logins \/ (msg = "login" /\ logins' = Append(logins, c))
        BY DEF Read, DecodeLogin, DecodeContinue, DecodePacket, Submit, Refuse
    <3> QED BY <1>4, <2>4, <3>1, <3>2
  <2>6. CASE toClient' # toClient
    <3> DEFINE entry == [msg |-> "refused", by |-> "login"]
    <3>1. Refuse(c)
        BY <2>6 DEF Read, DecodeLogin, DecodeContinue, DecodePacket, Submit
    <3>2. toClient'[c] = Append(toClient[c], entry) /\ logins' = logins
        BY <3>1 DEF Refuse, TypeInv, TypeOK
    <3>3. entry \in Outputs
        BY DEF Outputs, Messages, Encoders
    <3>4. Written(c)' = Written(c) \cup {entry}
        BY <3>2, <3>3, Elements, AppendHolds DEF Written
    <3>5. Reached(c, "varcs")' <=> Reached(c, "varcs")
      <4>1. entry.msg # "varcs"
          OBVIOUS
      <4>2. Reached(c, "varcs")' <=> \E out \in Written(c)' : out.msg = "varcs"
          BY DEF Reached, Written, Range
      <4> QED BY <3>4, <4>1, <4>2, ReachedIs
    <3> QED BY <1>4, <2>4, <3>2, <3>5
  <2> QED BY <2>5, <2>6
<1> QED BY <1>3, <1>4

\* The event loop takes the first of its tasks; a write it runs adds what went out.
Through(c, task) == IF task.by = "game" /\ encoder[c] = "linked" THEN "none" ELSE task.by

LEMMA RunTaskTakes ==
    ASSUME TypeInv, NEW c \in Channels, RunTask(c)
    PROVE  LET task == Head(tasks[c])
               entry == [msg |-> task.msg, by |-> Through(c, task)] IN
           /\ tasks[c] # <<>> /\ task \in Tasks /\ tasks'[c] = Tail(tasks[c])
           /\ Given(c) = {task} \cup Given(c)'
           /\ \/ toClient' = toClient
              \/ /\ task \in Write /\ entry \in Outputs
                 /\ toClient'[c] = Append(toClient[c], entry)
                 /\ Written(c)' = Written(c) \cup {entry}
           /\ \A d \in Channels \ {c} : tasks'[d] = tasks[d] /\ toClient'[d] = toClient[d]
<1> DEFINE task == Head(tasks[c])
           entry == [msg |-> task.msg, by |-> Through(c, task)]
<1>1. tasks[c] # <<>> /\ tasks' = [tasks EXCEPT ![c] = Tail(@)] /\ tasks \in [Channels -> Seq(Tasks)]
    BY DEF RunTask, TypeInv, TypeOK
<1>2. /\ tasks'[c] = Tail(tasks[c])
      /\ \A d \in Channels \ {c} : tasks'[d] = tasks[d]
    BY <1>1
<1>3. task \in Tasks /\ Given(c) = {task} \cup Given(c)'
    BY <1>1, <1>2, TailHolds DEF Given
<1>4. ASSUME toClient' # toClient
      PROVE  task \in Write /\ toClient' = [toClient EXCEPT ![c] = Append(@, entry)]
  <2>1. task.do = "write" /\ RunWrite(c, task.msg, task.by)
      BY <1>4 DEF RunTask, RunAdd, RunNotify
  <2> QED BY <1>3, <1>4, <2>1 DEF RunWrite, Through, Tasks, Add, Notify
<1>5. toClient \in [Channels -> Seq(Outputs)]
    BY DEF TypeInv, TypeOK
<1>6. ASSUME toClient' # toClient
      PROVE  /\ entry \in Outputs /\ toClient'[c] = Append(toClient[c], entry)
             /\ Written(c)' = Written(c) \cup {entry}
  <2>1. entry \in Outputs
      BY <1>4, <1>6 DEF Through, Write, Outputs, Encoders
  <2>2. toClient'[c] = Append(toClient[c], entry) /\ toClient[c] \in Seq(Outputs)
      BY <1>4, <1>5, <1>6
  <2> QED BY <2>1, <2>2, AppendHolds DEF Written
<1>7. \A d \in Channels \ {c} : toClient'[d] = toClient[d]
    BY <1>4, <1>5
<1> QED BY <1>1, <1>2, <1>3, <1>4, <1>6, <1>7

LEMMA RunTaskAnswer ==
    ASSUME TypeInv, NEW c \in Channels, RunTask(c), NEW d \in Channels, OneAnswer(d)
    PROVE  OneAnswer(d)'
<1> DEFINE task == Head(tasks[c])
           entry == [msg |-> task.msg, by |-> Through(c, task)]
<1>1. UNCHANGED <<sent, toServer, logins, login, listening>>
    BY DEF RunTask, client, loginThread
<1>2. CASE d # c
    BY <1>1, <1>2, RunTaskTakes, UntoldAnswer DEF Untold
<1>3. CASE d = c
  <2>1. Given(c) = {task} \cup Given(c)'
      BY RunTaskTakes
  <2>2. \A m : Writing(c, m) <=> Writing(c, m)' \/ IsWrite(task, m)
      BY <2>1 DEF Writing
  <2>3. Reached(c, "varcs")' => Reached(c, "varcs") \/ IsWrite(task, "varcs")
    <3>1. CASE toClient' = toClient
        BY <3>1 DEF Reached
    <3>2. CASE task \in Write /\ Written(c)' = Written(c) \cup {entry}
      <4>1. Reached(c, "varcs")' <=> \E out \in Written(c)' : out.msg = "varcs"
          BY DEF Reached, Written, Range
      <4> QED BY <3>2, <4>1, ReachedIs DEF IsWrite, Write
    <3> QED BY <3>1, <3>2, RunTaskTakes
  <2>4. Reached(c, "varcs") => Reached(c, "varcs")'
    <3>1. CASE toClient' = toClient
        BY <3>1 DEF Reached
    <3>2. CASE Written(c)' = Written(c) \cup {entry}
      <4>1. Reached(c, "varcs")' <=> \E out \in Written(c)' : out.msg = "varcs"
          BY DEF Reached, Written, Range
      <4> QED BY <3>2, <4>1, ReachedIs
    <3> QED BY <3>1, <3>2, RunTaskTakes
  <2>5. [do |-> "notify"] \in Given(c)' => [do |-> "notify"] \in Given(c)
      BY <2>1
  <2> QED BY <1>1, <1>3, <2>2, <2>3, <2>4, <2>5 DEF OneAnswer, OnePending, Pending, Answered
<1> QED BY <1>2, <1>3

LEMMA LoginThreadAnswer ==
    ASSUME TypeInv, LoginThread, NEW d \in Channels, OneAnswer(d)
    PROVE  OneAnswer(d)'
<1>1. UNCHANGED <<sent, toServer, toClient>> /\ logins \in Seq(Channels)
    BY Elements DEF LoginThread, client
<1>2. Reached(d, "varcs")' <=> Reached(d, "varcs")
    BY <1>1 DEF Reached
<1>3. \A m : Writing(d, m)' <=> \E task \in Given(d)' : IsWrite(task, m)
    BY DEF Writing
<1>4. login # None => login \in Channels
    BY DEF TypeInv, TypeOK
<1>5. CASE Take
  <2>1. /\ UNCHANGED <<tasks, listening>> /\ login = None /\ logins # <<>>
        /\ login' = Head(logins) /\ logins' = Tail(logins)
      BY <1>5 DEF Take
  <2>2. /\ Contains(logins, d) <=> Contains(logins', d) \/ login' = d
        /\ Once(logins, d) => Once(logins', d) /\ ~(login' = d /\ Contains(logins', d))
      BY <1>1, <2>1, TailHolds
  <2>3. Given(d)' = Given(d) /\ login # d
      BY <2>1, ChannelsAssumption DEF Given
  <2> QED BY <1>1, <1>2, <1>3, <2>1, <2>2, <2>3
          DEF OneAnswer, OnePending, Pending, Answered, Writing
<1>6. ASSUME NEW x \in Tasks, Give(login, <<x>>), login \in Channels, UNCHANGED logins
      PROVE  Given(d)' = IF d = login THEN Given(d) \cup {x} ELSE Given(d)
    BY <1>6, GiveOne
<1>7. CASE AnswerCode
  <2> DEFINE x == WriteOf(login, "code")
  <2>1. /\ UNCHANGED <<logins, login, listening>> /\ Give(login, <<x>>) /\ login \in Channels
      BY <1>4, <1>7 DEF AnswerCode, TypeInv, Callback
  <2>2. x \in Tasks /\ x.do = "write" /\ x.msg = "code"
      BY WriteTypes DEF WriteOf, Messages
  <2>3. Given(d)' = Given(d) \/ Given(d)' = Given(d) \cup {x}
      BY <1>6, <2>1, <2>2
  <2>4. /\ Writing(d, "varcs")' <=> Writing(d, "varcs")
        /\ Writing(d, "lobbyResponse")' <=> Writing(d, "lobbyResponse")
        /\ [do |-> "notify"] \in Given(d)' => [do |-> "notify"] \in Given(d)
      BY <1>3, <2>2, <2>3 DEF Writing, IsWrite
  <2> QED BY <1>1, <1>2, <2>1, <2>4 DEF OneAnswer, OnePending, Pending, Answered
<1>8. CASE Remember
  <2>1. UNCHANGED <<tasks, logins, login, listening>>
      BY <1>8 DEF Remember
  <2> QED BY <1>1, <2>1, UntoldAnswer DEF Untold
<1>9. CASE RespondGame
  <2> DEFINE x == WriteOf(login, "varcs")
  <2>1. /\ UNCHANGED <<logins, listening>> /\ Give(login, <<x>>) /\ login \in Channels
        /\ login \in Games /\ login' = None
      BY <1>9 DEF RespondGame, Channels
  <2>2. x \in Tasks /\ x.do = "write" /\ x.msg = "varcs"
      BY WriteTypes DEF WriteOf, Messages
  <2>3. CASE d # login
    <3>1. tasks'[d] = tasks[d]
        BY <2>1, <2>2, <2>3, GiveOne
    <3> QED BY <1>1, <2>1, <2>3, <3>1, ChannelsAssumption, UntoldAnswer DEF Untold
  <2>4. CASE d = login
    <3>1. Given(d)' = Given(d) \cup {x}
        BY <1>6, <2>1, <2>2, <2>4
    <3>2. /\ Writing(d, "lobbyResponse")' <=> Writing(d, "lobbyResponse")
          /\ [do |-> "notify"] \in Given(d)' => [do |-> "notify"] \in Given(d)
        BY <1>3, <2>2, <3>1 DEF Writing, IsWrite
    <3>3. sent[d] # <<>> /\ ~Contains(toServer[d], "login") /\ ~Contains(logins, d)
        BY <2>4 DEF OneAnswer, OnePending, Pending
    <3>4. ~Pending(d)'
        BY <1>1, <2>1, <3>3, ChannelsAssumption DEF Pending
    <3> QED BY <1>1, <1>2, <2>1, <2>4, <3>2, <3>3, <3>4, ChannelsAssumption
            DEF OneAnswer, OnePending, Answered
  <2> QED BY <2>3, <2>4
<1>10. CASE RespondLobby
  <2> DEFINE x == WriteOf(login, "lobbyResponse")
  <2>1. /\ UNCHANGED <<logins, login, listening>> /\ Give(login, <<x>>) /\ login \in Channels
        /\ login \in Lobbies
      BY <1>10 DEF RespondLobby, Channels
  <2>2. x \in Tasks /\ x.do = "write" /\ x.msg = "lobbyResponse"
      BY WriteTypes DEF WriteOf, Messages
  <2>3. Given(d)' = Given(d) \/ (d \in Lobbies /\ Given(d)' = Given(d) \cup {x})
      BY <1>6, <2>1, <2>2
  <2>4. /\ Writing(d, "varcs")' <=> Writing(d, "varcs")
        /\ Writing(d, "lobbyResponse")' => Writing(d, "lobbyResponse") \/ d \in Lobbies
        /\ [do |-> "notify"] \in Given(d)' => [do |-> "notify"] \in Given(d)
      BY <1>3, <2>2, <2>3 DEF Writing, IsWrite
  <2> QED BY <1>1, <1>2, <2>1, <2>4 DEF OneAnswer, OnePending, Pending, Answered
<1>11. CASE AddListener
  <2> DEFINE x == [do |-> "notify"]
  <2>1. /\ UNCHANGED logins /\ login \in Channels /\ login' = None
        /\ listening' = listening \cup {login}
        /\ UNCHANGED tasks \/ Give(login, <<x>>)
    <3>1. Give(login, <<>>) => UNCHANGED tasks
      <4>1. tasks \in [Channels -> Seq(Tasks)] /\ tasks[login] \in Seq(Tasks)
          BY <1>4, <1>11 DEF AddListener, TypeInv, TypeOK, Callback
      <4>2. tasks[login] \o <<>> = tasks[login]
          BY <4>1
      <4> QED BY <4>1, <4>2 DEF Give
    <3>2. Give(login, <<>>) \/ Give(login, <<x>>)
        BY <1>11 DEF AddListener
    <3> QED BY <1>4, <1>11, <3>1, <3>2 DEF AddListener, TypeInv, Callback
  <2>2. x \in Tasks /\ x.do = "notify"
      BY DEF Tasks, Notify
  <2>3. CASE d # login
    <3>1. tasks'[d] = tasks[d]
        BY <2>1, <2>2, <2>3, GiveOne
    <3> QED BY <1>1, <2>1, <2>3, <3>1, ChannelsAssumption, UntoldAnswer DEF Untold
  <2>4. CASE d = login
    <3>1. Given(d)' = Given(d) \/ Given(d)' = Given(d) \cup {x}
        BY <1>6, <2>1, <2>2, <2>4 DEF Given
    <3>2. /\ Writing(d, "lobbyResponse")' <=> Writing(d, "lobbyResponse")
          /\ Writing(d, "varcs")' <=> Writing(d, "varcs")
        BY <1>3, <2>2, <3>1 DEF Writing, IsWrite
    <3>3. sent[d] # <<>> /\ ~Contains(toServer[d], "login") /\ ~Contains(logins, d)
        BY <2>4 DEF OneAnswer, OnePending, Pending
    <3>4. ~Pending(d)' /\ d \in listening'
        BY <1>1, <2>1, <2>4, <3>3, ChannelsAssumption DEF Pending
    <3> QED BY <1>1, <1>2, <2>1, <2>4, <3>2, <3>3, <3>4, ChannelsAssumption
            DEF OneAnswer, OnePending, Answered
  <2> QED BY <2>3, <2>4
<1> QED BY <1>5, <1>7, <1>8, <1>9, <1>10, <1>11 DEF LoginThread

\* What each step of the tick engine gives to the event loop of a channel.
LEMMA TickEngineGives ==
    ASSUME TypeInv, TickEngine, NEW d \in Channels
    PROVE  \/ Given(d)' = Given(d)
           \/ \E x, y \in Tasks :
                /\ Given(d)' = Given(d) \cup {x, y} /\ adding = d
                /\ \A z \in {x, y} : \/ z.do = "add"
                                     \/ z.do = "write" /\ z.msg \in {"code", "gameResponse", Packet}
<1>1. adding # None => adding \in Channels
    BY DEF TypeInv, TypeOK
<1>2. CASE AddPlayerNow \/ AddPostLobby
    BY <1>2 DEF AddPlayerNow, AddPostLobby, Given
<1>3. ASSUME NEW x \in Tasks, Give(adding, <<x>>), adding # None
      PROVE  Given(d)' = Given(d) \/ (Given(d)' = Given(d) \cup {x, x} /\ adding = d)
    BY <1>1, <1>3, GiveOne
<1>4. \A m \in {"code", "gameResponse", Packet} :
          WriteOf(adding, m) \in Tasks /\ WriteOf(adding, m).do = "write" /\ WriteOf(adding, m).msg = m
    BY WriteTypes DEF Messages, Packet, WriteOf
<1>5. CASE LoginResponse
  <2>1. Give(adding, <<WriteOf(adding, "code"), WriteOf(adding, "gameResponse")>>) /\ adding # None
      BY <1>5 DEF LoginResponse
  <2> DEFINE x == WriteOf(adding, "code")
             y == WriteOf(adding, "gameResponse")
  <2>2. Given(d)' = Given(d) \/ (Given(d)' = Given(d) \cup {x, y} /\ adding = d)
      BY <1>1, <1>4, <2>1, GiveTwo
  <2> QED BY <1>4, <2>2
<1>6. CASE Replace
  <2> DEFINE x == [do |-> "add", slot |-> stage]
  <2>1. x \in Tasks /\ x.do = "add" /\ Give(adding, <<x>>) /\ adding # None
      BY <1>6 DEF Replace, Tasks, Add
  <2>2. Given(d)' = Given(d) \/ (Given(d)' = Given(d) \cup {x, x} /\ adding = d)
      BY <1>3, <2>1
  <2> QED BY <2>1, <2>2
<1>7. CASE Rebuild
  <2>1. Give(adding, <<WriteOf(adding, Packet)>>) /\ adding # None
      BY <1>7 DEF Rebuild
  <2> DEFINE x == WriteOf(adding, Packet)
  <2>2. Given(d)' = Given(d) \/ (Given(d)' = Given(d) \cup {x, x} /\ adding = d)
      BY <1>3, <1>4, <2>1
  <2> QED BY <1>4, <2>2
<1> QED BY <1>2, <1>5, <1>6, <1>7 DEF TickEngine

LEMMA TickEngineAnswer ==
    ASSUME TypeInv, TickEngine, NEW d \in Channels, OneAnswer(d)
    PROVE  OneAnswer(d)'
<1>1. UNCHANGED <<sent, toServer, toClient, logins, login, listening>>
    BY DEF TickEngine, client, loginThread, future
<1>2. Reached(d, "varcs")' <=> Reached(d, "varcs")
    BY <1>1 DEF Reached
<1>3. \A m : Writing(d, m)' <=> \E task \in Given(d)' : IsWrite(task, m)
    BY DEF Writing
<1> DEFINE Same == /\ Writing(d, "varcs")' <=> Writing(d, "varcs")
                   /\ Writing(d, "lobbyResponse")' <=> Writing(d, "lobbyResponse")
                   /\ [do |-> "notify"] \in Given(d)' => [do |-> "notify"] \in Given(d)
<1>4. Same
  <2>1. CASE Given(d)' = Given(d)
      BY <1>3, <2>1 DEF Writing
  <2>2. ASSUME NEW x \in Tasks, NEW y \in Tasks, Given(d)' = Given(d) \cup {x, y},
               \A z \in {x, y} : \/ z.do = "add"
                                 \/ z.do = "write" /\ z.msg \in {"code", "gameResponse", Packet}
        PROVE  Same
    <3>1. \A z \in {x, y} : z.do # "notify" /\ ~IsWrite(z, "varcs") /\ ~IsWrite(z, "lobbyResponse")
        BY <2>2 DEF IsWrite, Packet
    <3> QED BY <1>3, <2>2, <3>1 DEF Writing
  <2> QED BY <2>1, <2>2, TickEngineGives
<1> QED BY <1>1, <1>2, <1>4 DEF OneAnswer, OnePending, Pending, Answered

Answers == \A c \in Channels : OneAnswer(c)

LEMMA InitAnswers == Init => Answers
<1> SUFFICES ASSUME Init, NEW c \in Channels PROVE OneAnswer(c)
    BY DEF Answers
<1>1. /\ sent[c] = <<>> /\ toServer[c] = <<>> /\ tasks[c] = <<>> /\ toClient[c] = <<>>
      /\ logins = <<>> /\ login # c /\ listening = {}
    BY ChannelsAssumption DEF Init
<1>2. DOMAIN <<>> = {} /\ Len(<<>>) = 0
    OBVIOUS
<1> QED BY <1>1, <1>2 DEF OneAnswer, OnePending, Pending, Answered, Once, Contains, Given, Range,
                          Writing, Reached

LEMMA NextAnswers == TypeInv /\ Answers /\ [Next]_vars => Answers'
<1> SUFFICES ASSUME TypeInv, Answers, [Next]_vars, NEW d \in Channels PROVE OneAnswer(d)'
    BY DEF Answers
<1>1. OneAnswer(d)
    BY DEF Answers
<1>2. CASE Next
    BY <1>1, <1>2, ClientAnswer, ReadAnswer, RunTaskAnswer, LoginThreadAnswer, TickEngineAnswer
    DEF Next, EventLoop
<1>3. CASE UNCHANGED vars
    BY <1>1, <1>3, UntoldAnswer DEF vars, client, loginThread, future, Untold
<1> QED BY <1>2, <1>3

LEMMA AnswersHold == Spec => []Answers
    BY InitAnswers, NextAnswers, TypesHold, PTL DEF Spec

----------------------------------------------------------------------------
(* One switch of the pipeline                                               *)

Untouched(c) == decoder[c] = "login" /\ encoder[c] = "login" /\ handler[c] = "login"
Replaced(c) == decoder[c] # "login" /\ encoder[c] # "login" /\ handler[c] # "login"
Switched(c) == decoder[c] = "game" /\ encoder[c] = "game" /\ handler[c] = "game"

\* GAMELOGIN_CONTINUE is sent once, and is in one place until added() takes it up.
Continuing(c) == Contains(toServer[c], "continue") \/ Contains(continues, c)
OneContinue(c) ==
    /\ Once(toServer[c], "continue") /\ Once(continues, c)
    /\ Contains(toServer[c], "continue") => ~Contains(continues, c)
    /\ Continuing(c) => Contains(sent[c], "continue") /\ Untouched(c) /\ adding # c

\* The listener of a lobby response switches all of the pipeline, then hands over.
LobbySwitch(c) ==
    /\ Untouched(c) \/ (Switched(c) /\ c \in listening)
    /\ Contains(toAdd, c) => Switched(c)
    /\ adding = c => stage = "rebuild" /\ Switched(c)

\* added() replaces one handler after the other.
GameSwitch(c) ==
    /\ ~Contains(toAdd, c)
    /\ ~Untouched(c) \/ adding = c => Contains(sent[c], "continue")
    /\ adding = c =>
           /\ stage \in {"login-response", "decoder"} => Untouched(c)
           /\ stage = "encoder" =>
                  decoder[c] # "login" /\ encoder[c] = "login" /\ handler[c] = "login"
           /\ stage = "handler" =>
                  decoder[c] # "login" /\ encoder[c] # "login" /\ handler[c] = "login"
           /\ stage = "rebuild" => Replaced(c)

\* A handler is linked exactly as long as the event loop has yet to add it.
AddOf(slot) == [do |-> "add", slot |-> slot]
Joins(c, slot, link) ==
    /\ link = "linked" <=> AddOf(slot) \in Given(c)
    /\ Once(tasks[c], AddOf(slot))
Linked(c) ==
    Joins(c, "decoder", decoder[c]) /\ Joins(c, "encoder", encoder[c]) /\ Joins(c, "handler", handler[c])

\* The first packet of the game comes after every replacement, and the event loop
\* writes it when all of them are in place.
NoAddAfter(s) == \A i, j \in DOMAIN s : i < j /\ IsWrite(s[i], Packet) => s[j].do # "add"
FirstPacket(c) ==
    /\ NoAddAfter(tasks[c])
    /\ Writing(c, Packet) => Replaced(c)
    /\ Reached(c, Packet) => Switched(c)

Encoded(c) ==
    /\ \A task \in Given(c) : task.do = "write" => Knows(task.by, task.msg)
    /\ \A out \in Written(c) : Knows(out.by, out.msg)

OneSwitch(c) ==
    /\ OneContinue(c) /\ (c \in Lobbies => LobbySwitch(c)) /\ (c \in Games => GameSwitch(c))
    /\ Linked(c) /\ FirstPacket(c) /\ Encoded(c)

Switches == \A c \in Channels : OneSwitch(c)

\* Tasks that come after, and tasks that are gone.
LEMMA LaterTask ==
    ASSUME NEW s \in Seq(Tasks), NEW e \in Tasks, NoAddAfter(s),
           e.do # "add" \/ \A x \in Range(s) : ~IsWrite(x, Packet)
    PROVE  NoAddAfter(Append(s, e))
<1>1. /\ Len(s) \in Nat /\ DOMAIN s = 1..Len(s) /\ DOMAIN Append(s, e) = 1..(Len(s) + 1)
      /\ \A i \in 1..Len(s) : Append(s, e)[i] = s[i] /\ s[i] \in Range(s)
      /\ Append(s, e)[Len(s) + 1] = e
    BY DEF Range
<1> SUFFICES ASSUME NEW i \in 1..(Len(s) + 1), NEW j \in 1..(Len(s) + 1), i < j,
                    IsWrite(Append(s, e)[i], Packet)
             PROVE  Append(s, e)[j].do # "add"
    BY <1>1 DEF NoAddAfter
<1>2. i \in 1..Len(s) /\ IsWrite(s[i], Packet) /\ s[i] \in Range(s)
    BY <1>1
<1>3. CASE j \in 1..Len(s)
    BY <1>1, <1>2, <1>3 DEF NoAddAfter
<1>4. CASE j = Len(s) + 1
    BY <1>1, <1>2, <1>4
<1> QED BY <1>1, <1>3, <1>4

LEMMA TaskDone ==
    ASSUME NEW s \in Seq(Tasks), s # <<>>, NoAddAfter(s)
    PROVE  /\ NoAddAfter(Tail(s))
           /\ IsWrite(Head(s), Packet) => \A x \in Range(Tail(s)) : x.do # "add"
<1>1. /\ Len(s) \in Nat /\ Len(s) >= 1 /\ DOMAIN s = 1..Len(s) /\ Head(s) = s[1]
      /\ DOMAIN Tail(s) = 1..(Len(s) - 1)
      /\ \A i \in 1..(Len(s) - 1) : Tail(s)[i] = s[i + 1]
    OBVIOUS
<1>2. \A i \in 1..(Len(s) - 1) : i + 1 \in 1..Len(s) /\ 1 < i + 1 /\ 1 \in 1..Len(s)
    BY <1>1
<1>3. NoAddAfter(Tail(s))
  <2> SUFFICES ASSUME NEW i \in 1..(Len(s) - 1), NEW j \in 1..(Len(s) - 1), i < j,
                      IsWrite(Tail(s)[i], Packet)
               PROVE  Tail(s)[j].do # "add"
      BY <1>1 DEF NoAddAfter
  <2>1. i + 1 < j + 1
      BY <1>1
  <2> QED BY <1>1, <1>2, <2>1 DEF NoAddAfter
<1>4. ASSUME IsWrite(Head(s), Packet), NEW x \in Range(Tail(s)) PROVE x.do # "add"
  <2>1. PICK i \in 1..(Len(s) - 1) : x = Tail(s)[i]
      BY <1>1 DEF Range
  <2> QED BY <1>1, <1>2, <1>4, <2>1 DEF NoAddAfter
<1> QED BY <1>3, <1>4

\* A channel of which a step changes none of what OneSwitch speaks of.
Unmoved(c) ==
    /\ (Contains(toServer[c], "continue"))' <=> Contains(toServer[c], "continue")
    /\ Once(toServer[c], "continue") => (Once(toServer[c], "continue"))'
    /\ Contains(sent[c], "continue") => (Contains(sent[c], "continue"))'
    /\ tasks'[c] = tasks[c]
    /\ Written(c)' = Written(c)
    /\ decoder'[c] = decoder[c] /\ encoder'[c] = encoder[c] /\ handler'[c] = handler[c]
    /\ Once(continues, c) => Once(continues', c)
    /\ Contains(continues', c) <=> Contains(continues, c)
    /\ Contains(toAdd', c) <=> Contains(toAdd, c)
    /\ adding' = c => adding = c /\ stage' = stage
    /\ c \in listening => c \in listening'

LEMMA UnmovedSwitch ==
    ASSUME NEW c \in Channels, OneSwitch(c), Unmoved(c)
    PROVE  OneSwitch(c)'
<1>1. Given(c)' = Given(c)
    BY DEF Unmoved, Given
<1>2. Writing(c, Packet)' <=> Writing(c, Packet)
    BY <1>1 DEF Writing
<1>3. Reached(c, Packet)' <=> Reached(c, Packet)
  <2>1. Reached(c, Packet)' <=> \E out \in Written(c)' : out.msg = Packet
      BY DEF Reached, Written, Range
  <2> QED BY <2>1, ReachedIs DEF Unmoved
<1>4. (Untouched(c)' <=> Untouched(c)) /\ (Replaced(c)' <=> Replaced(c)) /\ (Switched(c)' <=> Switched(c))
    BY DEF Unmoved, Untouched, Replaced, Switched
<1>5. OneContinue(c)'
    BY <1>4 DEF OneSwitch, OneContinue, Continuing, Unmoved
<1>6. c \in Lobbies => LobbySwitch(c)'
    BY <1>4 DEF OneSwitch, LobbySwitch, Unmoved
<1>7. c \in Games => GameSwitch(c)'
    BY <1>4 DEF OneSwitch, GameSwitch, Unmoved
<1>8. Linked(c)'
    BY <1>1 DEF OneSwitch, Linked, Joins, Unmoved
<1>9. FirstPacket(c)'
    BY <1>2, <1>3, <1>4 DEF OneSwitch, FirstPacket, Unmoved
<1>10. Encoded(c)'
    BY <1>1 DEF OneSwitch, Encoded, Unmoved
<1> QED BY <1>5, <1>6, <1>7, <1>8, <1>9, <1>10 DEF OneSwitch

LEMMA InitSwitches == Init => Switches
<1> SUFFICES ASSUME Init, NEW c \in Channels PROVE OneSwitch(c)
    BY DEF Switches
<1>1. /\ sent[c] = <<>> /\ toServer[c] = <<>> /\ tasks[c] = <<>> /\ toClient[c] = <<>>
      /\ continues = <<>> /\ toAdd = <<>> /\ adding # c
      /\ decoder[c] = "login" /\ encoder[c] = "login" /\ handler[c] = "login"
    BY ChannelsAssumption DEF Init
<1>2. DOMAIN <<>> = {} /\ Len(<<>>) = 0
    OBVIOUS
<1>3. Given(c) = {} /\ Written(c) = {} /\ ~Writing(c, Packet) /\ ~Reached(c, Packet)
    BY <1>1, <1>2 DEF Given, Written, Range, Writing, Reached
<1>4. \A e : ~Contains(<<>>, e) /\ Once(<<>>, e)
    BY <1>2 DEF Contains, Once
<1>5. OneContinue(c) /\ LobbySwitch(c) /\ GameSwitch(c)
    BY <1>1, <1>4 DEF OneContinue, Continuing, LobbySwitch, GameSwitch, Untouched
<1>6. Linked(c)
    BY <1>1, <1>3, <1>4 DEF Linked, Joins
<1>7. FirstPacket(c)
    BY <1>1, <1>2, <1>3 DEF FirstPacket, NoAddAfter
<1>8. Encoded(c)
    BY <1>3 DEF Encoded
<1> QED BY <1>5, <1>6, <1>7, <1>8 DEF OneSwitch

LEMMA ClientSwitch ==
    ASSUME TypeInv, NEW c \in Channels, Client(c), NEW d \in Channels, OneAnswer(d), OneSwitch(d)
    PROVE  OneSwitch(d)'
<1>1. /\ UNCHANGED <<tasks, toClient, decoder, encoder, handler, continues, toAdd, adding, stage>>
      /\ UNCHANGED listening
    BY DEF Client, ClientLogsIn, ClientContinues, ClientSpeaks, ClientLeaves, Sends,
           pipeline, future, tickEngine
<1>2. Given(d)' = Given(d) /\ Written(d)' = Written(d)
    BY <1>1 DEF Given, Written
<1>3. CASE ClientLeaves(c)
    BY <1>1, <1>2, <1>3, UnmovedSwitch DEF ClientLeaves, client, Unmoved
<1>4. ASSUME NEW msg \in Inputs, Sends(c, msg),
             msg = "continue" => Reached(c, "varcs") /\ ~Contains(sent[c], "continue")
      PROVE  OneSwitch(d)'
  <2>1. CASE d # c
    <3>1. sent'[d] = sent[d] /\ toServer'[d] = toServer[d]
        BY <1>4, <2>1 DEF Sends, TypeInv, TypeOK
    <3> QED BY <1>1, <1>2, <3>1, UnmovedSwitch DEF Unmoved
  <2>2. CASE d = c
    <3>1. sent'[c] = Append(sent[c], msg) /\ toServer'[c] = Append(toServer[c], msg)
        BY <1>4 DEF Sends, TypeInv, TypeOK
    <3>2. sent[c] \in Seq(Inputs) /\ toServer[c] \in Seq(Inputs)
        BY Elements
    <3>3. Contains(sent'[c], "continue") <=> Contains(sent[c], "continue") \/ msg = "continue"
        BY <3>1, <3>2, AppendHolds
    <3>4. /\ Contains(toServer'[c], "continue") <=> Contains(toServer[c], "continue") \/ msg = "continue"
          /\ Once(toServer[c], "continue") /\ (msg = "continue" => ~Contains(toServer[c], "continue"))
                => Once(toServer'[c], "continue")
        BY <3>1, <3>2, AppendHolds
    <3>5. CASE msg # "continue"
        BY <1>1, <1>2, <2>2, <3>3, <3>4, <3>5, UnmovedSwitch DEF Unmoved
    <3>6. CASE msg = "continue"
      <4>1. c \in Games /\ c \notin Lobbies
          BY <1>4, <2>2, <3>6, ChannelsAssumption DEF OneAnswer
      <4>2. ~Continuing(c) /\ Untouched(c) /\ adding # c
          BY <1>4, <2>2, <3>6, <4>1 DEF OneSwitch, OneContinue, GameSwitch
      <4>3. OneContinue(c)'
          BY <1>1, <2>2, <3>3, <3>4, <3>6, <4>2 DEF OneSwitch, OneContinue, Continuing, Untouched
      <4>4. GameSwitch(c)'
          BY <1>1, <2>2, <3>3, <4>1 DEF OneSwitch, GameSwitch, Untouched, Replaced
      <4>5. Linked(c)'
          BY <1>1, <1>2, <2>2 DEF OneSwitch, Linked, Joins
      <4>6. FirstPacket(c)' /\ Encoded(c)'
        <5>1. /\ Writing(c, Packet)' <=> Writing(c, Packet)
              /\ Reached(c, Packet)' <=> Reached(c, Packet)
            BY <1>1, <1>2, <2>2 DEF Writing, Reached
        <5> QED BY <1>1, <1>2, <2>2, <5>1 DEF OneSwitch, FirstPacket, Encoded, Replaced, Switched
      <4> QED BY <2>2, <4>1, <4>3, <4>4, <4>5, <4>6 DEF OneSwitch
    <3> QED BY <3>5, <3>6
  <2> QED BY <2>1, <2>2
<1>5. CASE ClientLogsIn(c)
    BY <1>4, <1>5 DEF ClientLogsIn, Inputs
<1>6. CASE ClientContinues(c)
    BY <1>4, <1>6 DEF ClientContinues, Inputs
<1>7. CASE ClientSpeaks(c)
    BY <1>4, <1>7, PacketsAssumption DEF ClientSpeaks, Inputs
<1> QED BY <1>3, <1>5, <1>6, <1>7 DEF Client

LEMMA ReadSwitch ==
    ASSUME TypeInv, NEW c \in Channels, Read(c), NEW d \in Channels, OneAnswer(d), OneSwitch(d)
    PROVE  OneSwitch(d)'
<1> DEFINE msg == Head(toServer[c])
           refused == [msg |-> "refused", by |-> "login"]
<1>1. /\ UNCHANGED <<sent, tasks, decoder, encoder, handler, toAdd, adding, stage>>
      /\ UNCHANGED listening
    BY DEF Read, pipeline, future
<1>2. toServer[c] # <<>> /\ toServer'[c] = Tail(toServer[c]) /\ toServer[c] \in Seq(Inputs)
      /\ \A e \in Channels \ {c} : toServer'[e] = toServer[e]
    BY DEF Read, TypeInv, TypeOK
<1>3. /\ Contains(toServer[c], "continue") <=> Contains(toServer'[c], "continue") \/ msg = "continue"
      /\ Once(toServer[c], "continue") =>
             Once(toServer'[c], "continue") /\ ~(msg = "continue" /\ Contains(toServer'[c], "continue"))
    BY <1>2, TailHolds
<1>4. Given(d)' = Given(d)
    BY <1>1 DEF Given
<1>5. \/ UNCHANGED <<toClient, continues>> /\ msg # "continue"
      \/ Refuse(c) /\ msg # "continue"
      \/ msg = "continue" /\ DecodeContinue(c)
    BY PacketsAssumption DEF Read, DecodeLogin, DecodePacket, Submit
<1>6. CASE UNCHANGED <<toClient, continues>> /\ msg # "continue"
  <2>1. Written(d)' = Written(d)
      BY <1>6 DEF Written
  <2> QED BY <1>1, <1>2, <1>3, <1>6, <2>1, UnmovedSwitch DEF Unmoved, OneSwitch, OneContinue
<1>7. CASE Refuse(c) /\ msg # "continue"
  <2>1. /\ continues' = continues /\ toClient'[c] = Append(toClient[c], refused)
        /\ \A e \in Channels \ {c} : toClient'[e] = toClient[e]
      BY <1>7 DEF Refuse, TypeInv, TypeOK
  <2>2. CASE d # c
    <3>1. Written(d)' = Written(d)
        BY <2>1, <2>2 DEF Written
    <3> QED BY <1>1, <1>2, <2>1, <2>2, <3>1, UnmovedSwitch DEF Unmoved
  <2>3. CASE d = c
    <3>1. refused \in Outputs /\ refused.msg = "refused" /\ refused.by = "login"
        BY DEF Outputs, Messages, Encoders
    <3>2. Written(c)' = Written(c) \cup {refused}
        BY <2>1, <3>1, Elements, AppendHolds DEF Written
    <3>3. Reached(c, Packet)' <=> Reached(c, Packet)
      <4>1. Reached(c, Packet)' <=> \E out \in Written(c)' : out.msg = Packet
          BY DEF Reached, Written, Range
      <4> QED BY <3>1, <3>2, <4>1, ReachedIs DEF Packet
    <3>4. Writing(c, Packet)' <=> Writing(c, Packet)
        BY <1>4, <2>3 DEF Writing
    <3>5. OneContinue(c)'
        BY <1>1, <1>3, <1>7, <2>1, <2>3 DEF OneSwitch, OneContinue, Continuing, Untouched
    <3>6. (c \in Lobbies => LobbySwitch(c)') /\ (c \in Games => GameSwitch(c)')
        BY <1>1, <2>3 DEF OneSwitch, LobbySwitch, GameSwitch, Untouched, Replaced, Switched
    <3>7. Linked(c)'
        BY <1>1, <1>4, <2>3 DEF OneSwitch, Linked, Joins
    <3>8. FirstPacket(c)'
        BY <1>1, <2>3, <3>3, <3>4 DEF OneSwitch, FirstPacket, Replaced, Switched
    <3>9. Encoded(c)'
      <4>1. Knows("login", "refused")
          BY DEF Knows, Packet
      <4> QED BY <1>4, <2>3, <3>1, <3>2, <4>1 DEF OneSwitch, Encoded
    <3> QED BY <2>3, <3>5, <3>6, <3>7, <3>8, <3>9 DEF OneSwitch
  <2> QED BY <2>2, <2>3
<1>8. CASE msg = "continue" /\ DecodeContinue(c)
  <2>1. toClient' = toClient /\ continues' = Append(continues, c) /\ continues \in Seq(Channels)
      BY <1>8, Elements DEF DecodeContinue
  <2>2. /\ Contains(continues', d) <=> Contains(continues, d) \/ d = c
        /\ Once(continues, d) /\ (d = c => ~Contains(continues, c)) => Once(continues', d)
      BY <2>1, AppendHolds
  <2>3. Written(d)' = Written(d)
      BY <2>1 DEF Written
  <2>4. CASE d # c
      BY <1>1, <1>2, <2>2, <2>3, <2>4, UnmovedSwitch DEF Unmoved
  <2>5. CASE d = c
    <3>1. OneContinue(c)'
        BY <1>1, <1>3, <1>8, <2>2, <2>5 DEF OneSwitch, OneContinue, Continuing, Untouched
    <3>2. (c \in Lobbies => LobbySwitch(c)') /\ (c \in Games => GameSwitch(c)')
        BY <1>1, <2>5 DEF OneSwitch, LobbySwitch, GameSwitch, Untouched, Replaced, Switched
    <3>3. Linked(c)'
        BY <1>1, <1>4, <2>5 DEF OneSwitch, Linked, Joins
    <3>4. FirstPacket(c)'
      <4>1. /\ Writing(c, Packet)' <=> Writing(c, Packet)
            /\ Reached(c, Packet)' <=> Reached(c, Packet)
          BY <1>4, <2>1, <2>5 DEF Writing, Reached
      <4> QED BY <1>1, <2>5, <4>1 DEF OneSwitch, FirstPacket, Replaced, Switched
    <3>5. Encoded(c)'
        BY <1>4, <2>3, <2>5 DEF OneSwitch, Encoded
    <3> QED BY <2>5, <3>1, <3>2, <3>3, <3>4, <3>5 DEF OneSwitch
  <2> QED BY <2>4, <2>5
<1> QED BY <1>5, <1>6, <1>7, <1>8

LEMMA LoginThreadSwitch ==
    ASSUME TypeInv, LoginThread, NEW d \in Channels, OneAnswer(d), OneSwitch(d)
    PROVE  OneSwitch(d)'
<1>1. /\ UNCHANGED <<sent, toServer, toClient, decoder, encoder, handler>>
      /\ UNCHANGED <<continues, toAdd, adding, stage>>
    BY DEF LoginThread, client, pipeline, tickEngine
<1>2. Written(d)' = Written(d) /\ (d \in listening => d \in listening')
    BY <1>1 DEF Written, LoginThread, Take, AnswerCode, Remember, RespondGame, RespondLobby, AddListener
<1>3. login # None => login \in Channels
    BY DEF TypeInv, TypeOK
<1>4. CASE tasks'[d] = tasks[d]
    BY <1>1, <1>2, <1>4, UnmovedSwitch DEF Unmoved
<1>5. ASSUME NEW x \in Tasks, tasks'[d] = Append(tasks[d], x), x.do # "add", ~IsWrite(x, Packet),
             x.do = "write" => Knows(x.by, x.msg)
      PROVE  OneSwitch(d)'
  <2>1. /\ Given(d)' = Given(d) \cup {x} /\ tasks[d] \in Seq(Tasks)
        /\ \A e : Once(tasks[d], e) /\ e # x => Once(tasks'[d], e)
      BY <1>5, Elements, AppendHolds DEF Given
  <2>2. (Writing(d, Packet)' <=> Writing(d, Packet)) /\ (Reached(d, Packet)' <=> Reached(d, Packet))
      BY <1>1, <1>5, <2>1 DEF Writing, Reached
  <2>3. OneContinue(d)'
      BY <1>1 DEF OneSwitch, OneContinue, Continuing, Untouched
  <2>4. (d \in Lobbies => LobbySwitch(d)') /\ (d \in Games => GameSwitch(d)')
      BY <1>1, <1>2 DEF OneSwitch, LobbySwitch, GameSwitch, Untouched, Replaced, Switched
  <2>5. Linked(d)'
    <3>1. \A slot : AddOf(slot) # x
        BY <1>5 DEF AddOf
    <3> QED BY <1>1, <2>1, <3>1 DEF OneSwitch, Linked, Joins
  <2>6. FirstPacket(d)'
    <3>1. NoAddAfter(tasks'[d])
        BY <1>5, <2>1, LaterTask DEF OneSwitch, FirstPacket
    <3> QED BY <1>1, <2>2, <3>1 DEF OneSwitch, FirstPacket, Replaced, Switched
  <2>7. Encoded(d)'
      BY <1>2, <1>5, <2>1 DEF OneSwitch, Encoded
  <2> QED BY <2>3, <2>4, <2>5, <2>6, <2>7 DEF OneSwitch
<1>6. ASSUME NEW x \in Tasks, Give(login, <<x>>), login \in Channels, x.do # "add",
             ~IsWrite(x, Packet), x.do = "write" /\ login = d => Knows(x.by, x.msg)
      PROVE  OneSwitch(d)'
    BY <1>4, <1>5, <1>6, GiveOne
<1>7. CASE Take \/ Remember
    BY <1>4, <1>7 DEF Take, Remember
<1>8. CASE AnswerCode
  <2> DEFINE x == WriteOf(login, "code")
  <2>1. x \in Tasks /\ x.do = "write" /\ x.msg = "code"
      BY WriteTypes DEF WriteOf, Messages
  <2>2. ~IsWrite(x, Packet) /\ Knows(x.by, x.msg)
      BY <2>1 DEF IsWrite, Packet, Knows
  <2> QED BY <1>3, <1>6, <1>8, <2>1, <2>2 DEF AnswerCode, TypeInv, Callback
\* Until it is answered, the pipeline of a login is the login's.
<1>9. login = d => Untouched(d)
  <2>1. login = d => ~Answered(d)
      BY DEF OneAnswer, Pending
  <2> QED BY <2>1 DEF OneAnswer, Answered, OneSwitch, LobbySwitch, GameSwitch, Channels
<1>10. ASSUME NEW m \in {"varcs", "lobbyResponse"}, Give(login, <<WriteOf(login, m)>>), login \in Channels
       PROVE  OneSwitch(d)'
  <2> DEFINE x == WriteOf(login, m)
  <2>1. x \in Tasks /\ x.do = "write" /\ x.msg = m /\ (login = d => x.by = "login")
      BY <1>9, WriteTypes DEF WriteOf, Messages, Untouched
  <2>2. ~IsWrite(x, Packet) /\ (login = d => Knows(x.by, x.msg))
      BY <2>1 DEF IsWrite, Packet, Knows
  <2> QED BY <1>6, <1>10, <2>1, <2>2
<1>11. CASE RespondGame \/ RespondLobby
    BY <1>10, <1>11 DEF RespondGame, RespondLobby, Channels
<1>12. CASE AddListener
  <2> DEFINE x == [do |-> "notify"]
  <2>1. x \in Tasks /\ x.do = "notify" /\ ~IsWrite(x, Packet)
      BY DEF Tasks, Notify, IsWrite
  <2>2. login \in Channels
      BY <1>3, <1>12 DEF AddListener, TypeInv, Callback
  <2>3. CASE Give(login, <<x>>)
      BY <1>6, <2>1, <2>2, <2>3
  <2>4. CASE Give(login, <<>>)
    <3>1. tasks \in [Channels -> Seq(Tasks)] /\ tasks[login] \in Seq(Tasks)
        BY <2>2 DEF TypeInv, TypeOK
    <3>2. tasks[login] \o <<>> = tasks[login]
        BY <3>1
    <3> QED BY <1>4, <2>4, <3>1, <3>2 DEF Give
  <2> QED BY <1>12, <2>3, <2>4 DEF AddListener
<1> QED BY <1>7, <1>8, <1>11, <1>12 DEF LoginThread

LEMMA ContainsIs ==
    ASSUME NEW S, NEW s \in Seq(S)
    PROVE  \A e : Contains(s, e) <=> e \in Range(s)
<1>1. DOMAIN s = 1..Len(s)
    OBVIOUS
<1> QED BY <1>1 DEF Contains, Range

\* A write given to the event loop leaves the adds as they are.
LEMMA WriteKeeps ==
    ASSUME NEW s \in Seq(Tasks), NEW x \in Tasks, x.do = "write"
    PROVE  /\ NoAddAfter(s) => NoAddAfter(Append(s, x))
           /\ \A slot : Once(s, AddOf(slot)) => Once(Append(s, x), AddOf(slot))
<1>1. \A slot : AddOf(slot) # x
    BY DEF AddOf
<1> QED BY <1>1, LaterTask, AppendHolds

LEMMA TickEngineSwitch ==
    ASSUME TypeInv, TickEngine, NEW d \in Channels, OneAnswer(d), OneSwitch(d)
    PROVE  OneSwitch(d)'
<1>1. UNCHANGED <<sent, toServer, toClient, listening>>
    BY DEF TickEngine, client, future
<1>2. Written(d)' = Written(d) /\ (Reached(d, Packet)' <=> Reached(d, Packet))
    BY <1>1 DEF Written, Reached
<1>3. adding # None => adding \in Channels
    BY DEF TypeInv, TypeOK
<1>4. \A e : Contains(sent[d], "continue")' <=> Contains(sent[d], "continue")
    BY <1>1
\* A lobby login is never continued.
<1>5. d \in Lobbies => ~Contains(sent[d], "continue")
    BY ChannelsAssumption DEF OneAnswer
<1>6. CASE AddPlayerNow
  <2>1. /\ UNCHANGED <<tasks, decoder, encoder, handler, toAdd>> /\ adding = None
        /\ continues # <<>> /\ continues \in Seq(Channels)
        /\ adding' = Head(continues) /\ continues' = Tail(continues) /\ stage' = "login-response"
      BY <1>6, Elements DEF AddPlayerNow, pipeline
  <2>2. /\ Contains(continues, d) <=> Contains(continues', d) \/ adding' = d
        /\ Once(continues, d) => Once(continues', d) /\ ~(adding' = d /\ Contains(continues', d))
      BY <2>1, TailHolds
  <2>3. CASE adding' # d
      BY <1>1, <1>2, <2>1, <2>2, <2>3, UnmovedSwitch DEF Unmoved
  <2>4. CASE adding' = d
    <3>1. Contains(sent[d], "continue") /\ Untouched(d) /\ d \in Games
        BY <1>5, <2>2, <2>4 DEF OneSwitch, OneContinue, Continuing, Channels
    <3>2. OneContinue(d)'
        BY <1>1, <2>1, <2>2, <2>4 DEF OneSwitch, OneContinue, Continuing, Untouched
    <3>3. GameSwitch(d)' /\ d \notin Lobbies
        BY <1>1, <2>1, <2>4, <3>1, ChannelsAssumption DEF OneSwitch, GameSwitch, Untouched
    <3>4. Linked(d)' /\ FirstPacket(d)' /\ Encoded(d)'
        BY <1>1, <1>2, <2>1 DEF OneSwitch, Linked, Joins, FirstPacket, Encoded, Given, Writing,
                                Replaced, Switched
    <3> QED BY <3>1, <3>2, <3>3, <3>4 DEF OneSwitch
  <2> QED BY <2>3, <2>4
<1>7. CASE AddPostLobby
  <2>1. /\ UNCHANGED <<tasks, decoder, encoder, handler, continues>> /\ adding = None
        /\ toAdd # <<>> /\ toAdd \in Seq(Channels)
        /\ adding' = Head(toAdd) /\ toAdd' = Tail(toAdd) /\ stage' = "rebuild"
      BY <1>7, Elements DEF AddPostLobby, pipeline
  <2>2. Contains(toAdd, d) <=> Contains(toAdd', d) \/ adding' = d
      BY <2>1, TailHolds
  <2>3. OneContinue(d)'
    <3>1. adding' = d => ~Continuing(d)
        BY <1>5, <2>2 DEF OneSwitch, OneContinue, GameSwitch, Channels
    <3> QED BY <1>1, <2>1, <3>1 DEF OneSwitch, OneContinue, Continuing, Untouched
  <2>4. d \in Lobbies => LobbySwitch(d)'
      BY <1>1, <2>1, <2>2 DEF OneSwitch, LobbySwitch, Untouched, Switched
  <2>5. d \in Games => GameSwitch(d)'
      BY <1>1, <2>1, <2>2 DEF OneSwitch, GameSwitch, Untouched, Replaced
  <2>6. Linked(d)' /\ FirstPacket(d)' /\ Encoded(d)'
      BY <1>1, <1>2, <2>1 DEF OneSwitch, Linked, Joins, FirstPacket, Encoded, Given, Writing,
                              Replaced, Switched
  <2> QED BY <2>3, <2>4, <2>5, <2>6 DEF OneSwitch
\* What the player in added() does to no other channel.
<1>8. ASSUME adding # d, adding' # d, tasks'[d] = tasks[d], UNCHANGED <<continues, toAdd>>,
             decoder'[d] = decoder[d] /\ encoder'[d] = encoder[d] /\ handler'[d] = handler[d]
      PROVE  OneSwitch(d)'
    BY <1>1, <1>2, <1>8, UnmovedSwitch DEF Unmoved
\* The writes of the player in added(): none is an add, and each goes by its encoder.
<1>9. ASSUME NEW m \in {"code", "gameResponse", Packet}, adding = d,
             m = "gameResponse" => encoder[d] = "login", m = Packet => encoder[d] # "login"
      PROVE  LET x == WriteOf(adding, m) IN
             x \in Tasks /\ x.do = "write" /\ x.msg = m /\ Knows(x.by, x.msg)
  <2>1. /\ WriteOf(adding, m) \in Tasks /\ WriteOf(adding, m).do = "write" /\ WriteOf(adding, m).msg = m
        /\ WriteOf(adding, m).by = IF encoder[d] = "login" THEN "login" ELSE "game"
      BY <1>9, WriteTypes DEF WriteOf, Messages, Packet
  <2> QED BY <1>9, <2>1 DEF Knows, Packet
<1>10. adding = d => d \in Channels /\ adding # None
    BY ChannelsAssumption
<1>11. CASE LoginResponse
  <2>1. /\ UNCHANGED <<decoder, encoder, handler, continues, toAdd, adding>>
        /\ adding # None /\ adding \in Channels /\ stage = "login-response" /\ stage' = "decoder"
        /\ Give(adding, <<WriteOf(adding, "code"), WriteOf(adding, "gameResponse")>>)
      BY <1>3, <1>11 DEF LoginResponse, pipeline
  <2> DEFINE x == WriteOf(adding, "code")
             y == WriteOf(adding, "gameResponse")
  <2>2. x \in Tasks /\ y \in Tasks
      BY WriteTypes DEF Messages
  <2>3. CASE adding # d
    <3>1. tasks'[d] = tasks[d]
        BY <2>1, <2>2, <2>3, GiveTwo
    <3> QED BY <1>8, <2>1, <2>3, <3>1
  <2>4. CASE adding = d
    <3>1. d \in Games /\ d \notin Lobbies /\ Untouched(d)
        BY <2>1, <2>4, ChannelsAssumption DEF OneSwitch, LobbySwitch, GameSwitch, Channels
    <3>2. /\ x.do = "write" /\ x.msg = "code" /\ Knows(x.by, x.msg)
          /\ y.do = "write" /\ y.msg = "gameResponse" /\ Knows(y.by, y.msg)
        BY <1>9, <2>4, <3>1 DEF Untouched, Packet
    <3>3. tasks'[d] = Append(Append(tasks[d], x), y) /\ Given(d)' = Given(d) \cup {x, y}
        BY <2>1, <2>2, <2>4, GiveTwo
    <3> HIDE DEF x, y
    <3>4. /\ NoAddAfter(tasks[d]) => NoAddAfter(tasks'[d])
          /\ \A slot : /\ Once(tasks[d], AddOf(slot)) => Once(tasks'[d], AddOf(slot))
                       /\ AddOf(slot) \in Given(d)' <=> AddOf(slot) \in Given(d)
      <4>1. tasks[d] \in Seq(Tasks) /\ Append(tasks[d], x) \in Seq(Tasks)
          BY <2>2, Elements
      <4>2. /\ NoAddAfter(tasks[d]) => NoAddAfter(Append(tasks[d], x))
            /\ \A slot : Once(tasks[d], AddOf(slot)) => Once(Append(tasks[d], x), AddOf(slot))
          BY <2>2, <3>2, <4>1, WriteKeeps
      <4>3. ASSUME NEW s \in Seq(Tasks)
            PROVE  /\ NoAddAfter(s) => NoAddAfter(Append(s, y))
                   /\ \A slot : Once(s, AddOf(slot)) => Once(Append(s, y), AddOf(slot))
          BY <2>2, <3>2, WriteKeeps
      <4>4. \A slot : AddOf(slot) # x /\ AddOf(slot) # y
          BY <3>2 DEF AddOf
      <4> QED BY <3>3, <4>1, <4>2, <4>3, <4>4
    <3>5. Writing(d, Packet)' <=> Writing(d, Packet)
      <4>1. Writing(d, Packet)' <=> \E task \in Given(d)' : IsWrite(task, Packet)
          BY DEF Writing
      <4> QED BY <3>2, <3>3, <4>1 DEF Writing, IsWrite, Packet
    <3>6. OneContinue(d)' /\ GameSwitch(d)'
        BY <1>1, <2>1, <2>4, <3>1 DEF OneSwitch, OneContinue, Continuing, GameSwitch, Untouched, Replaced
    <3>7. Linked(d)'
        BY <2>1, <3>4 DEF OneSwitch, Linked, Joins
    <3>8. FirstPacket(d)'
        BY <1>2, <2>1, <3>4, <3>5 DEF OneSwitch, FirstPacket, Replaced, Switched
    <3>9. Encoded(d)'
        BY <1>2, <3>2, <3>3 DEF OneSwitch, Encoded
    <3> QED BY <3>1, <3>6, <3>7, <3>8, <3>9 DEF OneSwitch
  <2> QED BY <2>3, <2>4
<1>12. CASE Rebuild
  <2> DEFINE x == WriteOf(adding, Packet)
  <2>1. /\ UNCHANGED <<decoder, encoder, handler, continues, toAdd>>
        /\ adding # None /\ adding \in Channels /\ stage = "rebuild" /\ adding' = None
        /\ Give(adding, <<x>>)
      BY <1>3, <1>12 DEF Rebuild, pipeline
  <2>2. x \in Tasks
      BY WriteTypes DEF Messages, Packet
  <2>3. CASE adding # d
    <3>1. tasks'[d] = tasks[d]
        BY <2>1, <2>2, <2>3, GiveOne
    <3> QED BY <1>8, <2>1, <2>3, <3>1, ChannelsAssumption
  <2>4. CASE adding = d
    <3>1. Replaced(d)
        BY <2>1, <2>4 DEF OneSwitch, LobbySwitch, GameSwitch, Channels, Switched, Replaced
    <3>2. x.do = "write" /\ x.msg = Packet /\ Knows(x.by, x.msg)
        BY <1>9, <2>4, <3>1 DEF Replaced, Packet
    <3>3. tasks'[d] = Append(tasks[d], x) /\ Given(d)' = Given(d) \cup {x} /\ tasks[d] \in Seq(Tasks)
        BY <2>1, <2>2, <2>4, GiveOne, Elements
    <3> HIDE DEF x
    <3>4. /\ NoAddAfter(tasks[d]) => NoAddAfter(tasks'[d])
          /\ \A slot : /\ Once(tasks[d], AddOf(slot)) => Once(tasks'[d], AddOf(slot))
                       /\ AddOf(slot) \in Given(d)' <=> AddOf(slot) \in Given(d)
      <4>1. \A slot : AddOf(slot) # x
          BY <3>2 DEF AddOf
      <4> QED BY <2>2, <3>2, <3>3, <4>1, WriteKeeps
    <3>5. OneContinue(d)'
        BY <1>1, <2>1, <2>4, <1>10 DEF OneSwitch, OneContinue, Continuing, Untouched
    <3>6. (d \in Lobbies => LobbySwitch(d)') /\ (d \in Games => GameSwitch(d)')
        BY <1>1, <1>10, <2>1, <2>4 DEF OneSwitch, LobbySwitch, GameSwitch, Untouched, Switched
    <3>7. Linked(d)'
        BY <2>1, <3>4 DEF OneSwitch, Linked, Joins
    <3>8. FirstPacket(d)'
        BY <1>2, <2>1, <3>1, <3>4 DEF OneSwitch, FirstPacket, Replaced, Switched
    <3>9. Encoded(d)'
        BY <1>2, <3>2, <3>3 DEF OneSwitch, Encoded
    <3> QED BY <3>5, <3>6, <3>7, <3>8, <3>9 DEF OneSwitch
  <2> QED BY <2>3, <2>4
<1>13. CASE Replace
  <2> DEFINE x == AddOf(stage)
  <2>1. /\ UNCHANGED <<continues, toAdd, adding>> /\ adding # None /\ adding \in Channels
        /\ stage \in Slots /\ Give(adding, <<x>>)
        /\ decoder' = Link("decoder", decoder) /\ encoder' = Link("encoder", encoder)
        /\ handler' = Link("handler", handler)
        /\ stage = "decoder" => stage' = "encoder"
        /\ stage = "encoder" => stage' = "handler"
        /\ stage = "handler" => stage' = "rebuild"
      BY <1>3, <1>13 DEF Replace, AddOf
  <2>2. x \in Tasks
      BY <2>1 DEF AddOf, Tasks, Add
  <2>3. /\ decoder \in [Channels -> Links] /\ encoder \in [Channels -> Links]
        /\ handler \in [Channels -> Links]
      BY DEF TypeInv, TypeOK
  <2>4. CASE adding # d
    <3>1. tasks'[d] = tasks[d]
        BY <2>1, <2>2, <2>4, GiveOne
    <3>2. decoder'[d] = decoder[d] /\ encoder'[d] = encoder[d] /\ handler'[d] = handler[d]
        BY <2>1, <2>3, <2>4 DEF Link
    <3> QED BY <1>8, <2>1, <2>4, <3>1, <3>2
  <2>5. CASE adding = d
    <3>1. d \in Games /\ d \notin Lobbies
        BY <2>1, <2>5, ChannelsAssumption DEF OneSwitch, LobbySwitch, Channels, Slots
    <3>2. /\ decoder'[d] = IF stage = "decoder" THEN "linked" ELSE decoder[d]
          /\ encoder'[d] = IF stage = "encoder" THEN "linked" ELSE encoder[d]
          /\ handler'[d] = IF stage = "handler" THEN "linked" ELSE handler[d]
        BY <2>1, <2>3, <2>5 DEF Link
    <3>3. /\ ~Replaced(d) /\ ~Switched(d) /\ Contains(sent[d], "continue")
          /\ stage = "decoder" => decoder[d] = "login" /\ Untouched(d)
          /\ stage = "encoder" => decoder[d] # "login" /\ encoder[d] = "login" /\ handler[d] = "login"
          /\ stage = "handler" => decoder[d] # "login" /\ encoder[d] # "login" /\ handler[d] = "login"
        BY <2>1, <2>5, <3>1 DEF OneSwitch, GameSwitch, Untouched, Replaced, Switched, Slots
    <3>4. tasks'[d] = Append(tasks[d], x) /\ Given(d)' = Given(d) \cup {x} /\ tasks[d] \in Seq(Tasks)
        BY <2>1, <2>2, <2>5, GiveOne, Elements
    <3>5. OneContinue(d)'
        BY <1>1, <2>1, <2>5 DEF OneSwitch, OneContinue, Continuing
    <3>6. GameSwitch(d)'
        BY <1>1, <2>1, <2>5, <3>1, <3>2, <3>3 DEF OneSwitch, GameSwitch, Untouched, Replaced, Slots
    <3>7. Linked(d)'
      <4>1. \A slot \in Slots : slot # stage => AddOf(slot) # x
          BY DEF AddOf
      <4>2. \A e : /\ Once(tasks[d], e) /\ (e = x => e \notin Given(d)) => Once(tasks'[d], e)
          BY <2>2, <3>4, AppendHolds, ContainsIs DEF Given
      <4>3. ASSUME NEW slot \in Slots, NEW link, NEW next, Joins(d, slot, link),
                   slot = stage => link = "login" /\ next = "linked", slot # stage => next = link
            PROVE  /\ next = "linked" <=> AddOf(slot) \in Given(d)'
                   /\ Once(tasks'[d], AddOf(slot))
          BY <3>4, <4>1, <4>2, <4>3 DEF Joins
      <4> QED BY <3>2, <3>3, <4>3 DEF OneSwitch, Linked, Joins, Slots
    <3>8. FirstPacket(d)'
      <4>1. ~Writing(d, Packet) /\ ~Reached(d, Packet)
          BY <3>3 DEF OneSwitch, FirstPacket
      <4>2. ~Writing(d, Packet)'
        <5>1. ~IsWrite(x, Packet)
            BY DEF AddOf, IsWrite
        <5>2. Writing(d, Packet)' <=> \E task \in Given(d)' : IsWrite(task, Packet)
            BY DEF Writing
        <5> QED BY <3>4, <4>1, <5>1, <5>2 DEF Writing
      <4>3. NoAddAfter(tasks'[d])
          BY <2>2, <3>4, <4>1, LaterTask DEF OneSwitch, FirstPacket, Writing, Given
      <4> QED BY <1>2, <4>1, <4>2, <4>3 DEF FirstPacket
    <3>9. Encoded(d)'
      <4>1. x.do # "write"
          BY DEF AddOf
      <4> QED BY <1>2, <3>4, <4>1 DEF OneSwitch, Encoded
    <3> QED BY <3>1, <3>5, <3>6, <3>7, <3>8, <3>9 DEF OneSwitch
  <2> QED BY <2>4, <2>5
<1> QED BY <1>6, <1>7, <1>11, <1>12, <1>13 DEF TickEngine

\* What a write puts out goes by the encoder that knows it, and the first packet of the
\* game goes when the pipeline has been switched.
LEMMA WriteSwitch ==
    ASSUME TypeInv, NEW c \in Channels, RunTask(c), OneSwitch(c)
    PROVE  /\ Encoded(c)'
           /\ Reached(c, Packet)' => Reached(c, Packet) \/ Switched(c)
<1> DEFINE task == Head(tasks[c])
           entry == [msg |-> task.msg, by |-> Through(c, task)]
<1>1. Given(c) = {task} \cup Given(c)' /\ task \in Tasks /\ tasks[c] # <<>> /\ tasks[c] \in Seq(Tasks)
      /\ tasks'[c] = Tail(tasks[c])
    BY RunTaskTakes, Elements
<1>2. Reached(c, Packet)' <=> \E out \in Written(c)' : out.msg = Packet
    BY DEF Reached, Written, Range
<1>3. CASE toClient' = toClient
  <2>1. Written(c)' = Written(c)
      BY <1>3 DEF Written
  <2> QED BY <1>1, <1>2, <2>1, ReachedIs DEF OneSwitch, Encoded
<1>4. CASE task \in Write /\ Written(c)' = Written(c) \cup {entry}
  <2>1. task.do = "write" /\ Knows(task.by, task.msg)
      BY <1>1, <1>4 DEF Write, OneSwitch, Encoded
  <2>2. ASSUME task.msg = Packet PROVE Switched(c)
    <3>1. IsWrite(task, Packet) /\ task \in Given(c)
        BY <1>1, <2>1, <2>2 DEF IsWrite
    <3>2. Replaced(c)
        BY <3>1 DEF OneSwitch, FirstPacket, Writing
    <3>3. \A x \in Given(c)' : x.do # "add"
        BY <1>1, <3>1, TaskDone DEF OneSwitch, FirstPacket, Given
    <3>4. \A slot : AddOf(slot) \notin Given(c)
        BY <1>1, <2>1, <3>3 DEF AddOf
    <3>5. decoder[c] \in Links /\ encoder[c] \in Links /\ handler[c] \in Links
        BY DEF TypeInv, TypeOK
    <3> QED BY <3>2, <3>4, <3>5 DEF OneSwitch, Linked, Joins, Replaced, Switched, Links
  <2>3. Knows(entry.by, entry.msg)
      BY <2>1, <2>2 DEF Knows, Through, Switched, Packet
  <2>4. Encoded(c)'
      BY <1>1, <1>4, <2>3 DEF OneSwitch, Encoded
  <2>5. Reached(c, Packet)' => Reached(c, Packet) \/ task.msg = Packet
      BY <1>2, <1>4, ReachedIs
  <2> QED BY <2>2, <2>4, <2>5
<1> QED BY <1>3, <1>4, RunTaskTakes

\* What becomes of the pipeline: a lobby login enters the game, or a handler joins.
LEMMA RunTaskPipeline ==
    ASSUME TypeInv, NEW c \in Channels, RunTask(c), OneAnswer(c)
    PROVE  LET task == Head(tasks[c]) IN
           \/ task.do # "add" /\ UNCHANGED <<decoder, encoder, handler, toAdd>>
           \/ task.do # "add" /\ EnterGame(c) /\ c \in listening
           \/ task \in Add /\ RunAdd(c, task.slot)
<1> DEFINE task == Head(tasks[c])
<1>1. task \in Tasks /\ task \in Given(c)
    BY RunTaskTakes
<1>2. CASE task.do = "write" /\ RunWrite(c, task.msg, task.by)
    BY <1>2 DEF RunWrite, Listener, pipeline
<1>3. CASE task.do = "add" /\ RunAdd(c, task.slot)
    BY <1>1, <1>3 DEF Tasks, Write, Notify
<1>4. CASE task.do = "notify" /\ RunNotify(c)
  <2>1. task = [do |-> "notify"]
      BY <1>1, <1>4 DEF Tasks, Write, Add, Notify
  <2>2. c \in listening
      BY <1>1, <2>1 DEF OneAnswer
  <2> QED BY <1>4, <2>2 DEF RunNotify, Listener, pipeline
<1> QED BY <1>2, <1>3, <1>4 DEF RunTask

LEMMA RunTaskSwitch ==
    ASSUME TypeInv, NEW c \in Channels, RunTask(c), OneAnswer(c), NEW d \in Channels,
           OneAnswer(d), OneSwitch(d)
    PROVE  OneSwitch(d)'
<1> DEFINE task == Head(tasks[c])
<1>1. UNCHANGED <<sent, toServer, continues, adding, stage, listening>>
    BY DEF RunTask, client
<1>2. /\ decoder \in [Channels -> Links] /\ encoder \in [Channels -> Links]
      /\ handler \in [Channels -> Links] /\ toAdd \in Seq(Channels)
    BY DEF TypeInv, TypeOK
<1>3. CASE d # c
  <2>1. tasks'[d] = tasks[d] /\ toClient'[d] = toClient[d]
      BY <1>3, RunTaskTakes
  <2>2. Written(d)' = Written(d)
      BY <2>1 DEF Written
  <2>3. decoder'[d] = decoder[d] /\ encoder'[d] = encoder[d] /\ handler'[d] = handler[d]
      BY <1>2, <1>3, RunTaskPipeline DEF EnterGame, RunAdd
  <2>4. toAdd' = toAdd \/ toAdd' = Append(toAdd, c)
      BY RunTaskPipeline DEF EnterGame, RunAdd
  <2>5. Contains(toAdd', d) <=> Contains(toAdd, d)
    <3>1. Contains(Append(toAdd, c), d) <=> Contains(toAdd, d) \/ d = c
        BY <1>2, AppendHolds
    <3> QED BY <1>3, <2>4, <3>1
  <2> QED BY <1>1, <2>1, <2>2, <2>3, <2>5, UnmovedSwitch DEF Unmoved
<1>4. CASE d = c
  <2>1. /\ Given(c) = {task} \cup Given(c)' /\ task \in Tasks /\ tasks[c] # <<>>
        /\ tasks[c] \in Seq(Tasks) /\ tasks'[c] = Tail(tasks[c])
      BY RunTaskTakes, Elements
  <2>2. /\ \A e : Once(tasks[c], e) => Once(tasks'[c], e) /\ ~(e = task /\ e \in Given(c)')
        /\ NoAddAfter(tasks[c]) => NoAddAfter(tasks'[c])
    <3>1. Tail(tasks[c]) \in Seq(Tasks)
        BY <2>1, TailHolds
    <3>2. \A e : Contains(tasks'[c], e) <=> e \in Given(c)'
        BY <2>1, <3>1, ContainsIs DEF Given
    <3>3. \A e : Once(tasks[c], e) => Once(tasks'[c], e) /\ ~(e = task /\ Contains(tasks'[c], e))
        BY <2>1, TailHolds
    <3> QED BY <2>1, <3>2, <3>3, TaskDone
  <2>3. Writing(c, Packet)' => Writing(c, Packet)
      BY <2>1 DEF Writing
  <2>4. Encoded(c)' /\ (Reached(c, Packet)' => Reached(c, Packet) \/ Switched(c))
      BY <1>4, WriteSwitch
  <2>5. CASE task.do # "add" /\ UNCHANGED <<decoder, encoder, handler, toAdd>>
    <3>1. OneContinue(c)'
        BY <1>1, <1>4, <2>5 DEF OneSwitch, OneContinue, Continuing, Untouched
    <3>2. (c \in Lobbies => LobbySwitch(c)') /\ (c \in Games => GameSwitch(c)')
        BY <1>1, <1>4, <2>5 DEF OneSwitch, LobbySwitch, GameSwitch, Untouched, Replaced, Switched
    <3>3. Linked(c)'
      <4>1. \A slot : AddOf(slot) # task
          BY <2>5 DEF AddOf
      <4> QED BY <1>4, <2>1, <2>2, <2>5, <4>1 DEF OneSwitch, Linked, Joins
    <3>4. FirstPacket(c)'
        BY <1>4, <2>2, <2>3, <2>4, <2>5 DEF OneSwitch, FirstPacket, Replaced, Switched
    <3> QED BY <1>4, <2>4, <3>1, <3>2, <3>3, <3>4 DEF OneSwitch
  <2>6. CASE task.do # "add" /\ EnterGame(c) /\ c \in listening
    <3>1. c \in Lobbies /\ c \notin Games /\ ~Contains(sent[c], "continue")
        BY <1>4, <2>6, ChannelsAssumption DEF OneAnswer, TypeInv, TypeOK
    <3>2. Switched(c)' /\ Replaced(c)'
        BY <1>2, <2>6 DEF EnterGame, Switched, Replaced
    <3>3. OneContinue(c)'
        BY <1>1, <1>4, <3>1 DEF OneSwitch, OneContinue, Continuing
    <3>4. LobbySwitch(c)'
        BY <1>1, <1>4, <2>6, <3>1, <3>2 DEF OneSwitch, LobbySwitch
    <3>5. Linked(c)'
      <4>1. Untouched(c) \/ Switched(c)
          BY <1>4, <3>1 DEF OneSwitch, LobbySwitch
      <4>2. AddOf("decoder") \notin Given(c) /\ AddOf("encoder") \notin Given(c)
            /\ AddOf("handler") \notin Given(c)
          BY <1>4, <4>1 DEF OneSwitch, Linked, Joins, Untouched, Switched
      <4> QED BY <1>4, <2>1, <2>2, <3>2, <4>2 DEF OneSwitch, Linked, Joins, Switched
    <3>6. FirstPacket(c)'
        BY <1>4, <2>2, <3>2 DEF OneSwitch, FirstPacket
    <3> QED BY <1>4, <2>4, <3>1, <3>3, <3>4, <3>5, <3>6 DEF OneSwitch
  <2>7. CASE task \in Add /\ RunAdd(c, task.slot)
    <3>1. task = AddOf(task.slot) /\ task.slot \in Slots /\ task \in Given(c)
        BY <2>1, <2>7 DEF Add, AddOf
    <3>2. /\ decoder'[c] = IF task.slot = "decoder" THEN "game" ELSE decoder[c]
          /\ encoder'[c] = IF task.slot = "encoder" THEN "game" ELSE encoder[c]
          /\ handler'[c] = IF task.slot = "handler" THEN "game" ELSE handler[c]
          /\ toAdd' = toAdd /\ toClient' = toClient
        BY <1>2, <2>7 DEF RunAdd
    <3>3. /\ task.slot = "decoder" => decoder[c] = "linked"
          /\ task.slot = "encoder" => encoder[c] = "linked"
          /\ task.slot = "handler" => handler[c] = "linked"
        BY <1>4, <3>1 DEF OneSwitch, Linked, Joins
    <3>4. /\ decoder'[c] = "login" <=> decoder[c] = "login"
          /\ encoder'[c] = "login" <=> encoder[c] = "login"
          /\ handler'[c] = "login" <=> handler[c] = "login"
        BY <3>2, <3>3
    <3>5. /\ Untouched(c)' <=> Untouched(c)
          /\ Replaced(c)' <=> Replaced(c)
          /\ ~Untouched(c) /\ ~Switched(c)
        BY <3>1, <3>3, <3>4 DEF Untouched, Replaced, Switched, Slots
    <3>6. c \notin Lobbies /\ c \in Games
        BY <1>4, <3>5 DEF OneSwitch, LobbySwitch, Channels
    <3>7. OneContinue(c)'
        BY <1>1, <1>4, <3>5 DEF OneSwitch, OneContinue, Continuing
    <3>8. GameSwitch(c)'
        BY <1>1, <1>4, <3>2, <3>4, <3>5, <3>6 DEF OneSwitch, GameSwitch
    <3>9. Linked(c)'
      <4>1. ASSUME NEW slot \in Slots, NEW link, NEW next, Joins(c, slot, link),
                   next = IF task.slot = slot THEN "game" ELSE link
            PROVE  /\ next = "linked" <=> AddOf(slot) \in Given(c)'
                   /\ Once(tasks'[c], AddOf(slot))
        <5>1. AddOf(slot) = task <=> slot = task.slot
            BY <3>1 DEF AddOf
        <5> QED BY <2>1, <2>2, <4>1, <5>1 DEF Joins
      <4> QED BY <1>4, <3>2, <4>1 DEF OneSwitch, Linked, Joins, Slots
    <3>10. FirstPacket(c)'
      <4>1. Reached(c, Packet)' <=> Reached(c, Packet)
          BY <3>2 DEF Reached
      <4> QED BY <1>4, <2>2, <2>3, <3>5, <4>1 DEF OneSwitch, FirstPacket
    <3> QED BY <1>4, <2>4, <3>6, <3>7, <3>8, <3>9, <3>10 DEF OneSwitch
  <2> QED BY <1>4, <2>5, <2>6, <2>7, RunTaskPipeline
<1> QED BY <1>3, <1>4

LEMMA NextSwitches == TypeInv /\ Answers /\ Switches /\ [Next]_vars => Switches'
<1> SUFFICES ASSUME TypeInv, Answers, Switches, [Next]_vars, NEW d \in Channels PROVE OneSwitch(d)'
    BY DEF Switches
<1>1. OneSwitch(d) /\ \A c \in Channels : OneAnswer(c)
    BY DEF Answers, Switches
<1>2. CASE Next
    BY <1>1, <1>2, ClientSwitch, ReadSwitch, RunTaskSwitch, LoginThreadSwitch, TickEngineSwitch
    DEF Next, EventLoop
<1>3. CASE UNCHANGED vars
  <2>1. Written(d)' = Written(d)
      BY <1>3 DEF vars, Written
  <2> QED BY <1>1, <1>3, <2>1, UnmovedSwitch
          DEF vars, client, pipeline, future, tickEngine, Unmoved
<1> QED BY <1>2, <1>3

LEMMA SwitchesHold == Spec => []Switches
    BY InitSwitches, NextSwitches, TypesHold, AnswersHold, PTL DEF Spec

\* Whatever login-thread, the tick engine and the event loop do in whichever order, a
\* login message goes by LoginEncoder and a packet by GamePacketEncoder: nothing of a
\* login is written once added() or the listener has begun to replace the handlers, and
\* the first packet of the game is behind the last replacement in the event loop's queue.
THEOREM MessagesEncodedRight == Spec => []EncodedRight
<1>1. Switches => EncodedRight
    BY DEF Switches, OneSwitch, Encoded, EncodedRight, Written, Range
<1> QED BY <1>1, SwitchesHold, PTL

----------------------------------------------------------------------------
(* Packets arrive                                                           *)

LEMMA AppendBefore ==
    ASSUME NEW S, NEW s \in Seq(S), NEW e \in S, NEW p, NEW q
    PROVE  Before(Append(s, e), p, q) <=> Before(s, p, q) \/ (q = e /\ Contains(s, p))
<1>1. /\ Len(s) \in Nat /\ DOMAIN s = 1..Len(s) /\ DOMAIN Append(s, e) = 1..(Len(s) + 1)
      /\ \A i \in 1..Len(s) : Append(s, e)[i] = s[i] /\ i \in 1..(Len(s) + 1) /\ i < Len(s) + 1
      /\ Append(s, e)[Len(s) + 1] = e /\ Len(s) + 1 \in 1..(Len(s) + 1)
    OBVIOUS
<1>2. ASSUME NEW i \in 1..(Len(s) + 1), NEW j \in 1..(Len(s) + 1), i < j,
             Append(s, e)[i] = p, Append(s, e)[j] = q
      PROVE  Before(s, p, q) \/ (q = e /\ Contains(s, p))
  <2>1. i \in 1..Len(s) /\ s[i] = p
      BY <1>1, <1>2
  <2>2. CASE j \in 1..Len(s)
      BY <1>1, <1>2, <2>1, <2>2 DEF Before
  <2>3. CASE j = Len(s) + 1
      BY <1>1, <1>2, <2>1, <2>3 DEF Contains
  <2> QED BY <1>1, <2>2, <2>3
<1>3. Before(s, p, q) => Before(Append(s, e), p, q)
    BY <1>1 DEF Before
<1>4. q = e /\ Contains(s, p) => Before(Append(s, e), p, q)
    BY <1>1 DEF Before, Contains
<1> QED BY <1>1, <1>2, <1>3, <1>4 DEF Before

\* The read of something that is no packet, and that comes before what is unread.
LEMMA DropBetween ==
    ASSUME NEW S, NEW r \in Seq(S), NEW t \in Seq(S), t # <<>>, NEW p, NEW q,
           Head(t) # p, Head(t) # q
    PROVE  /\ Contains(r \o t, p) <=> Contains(r \o Tail(t), p)
           /\ Before(r \o t, p, q) <=> Before(r \o Tail(t), p, q)
<1> DEFINE u == r \o t
           v == r \o Tail(t)
           n == Len(r)
           m == Len(u)
<1>1. /\ n \in Nat /\ m \in Nat /\ n < m /\ DOMAIN u = 1..m /\ DOMAIN v = 1..(m - 1)
      /\ Len(v) = m - 1 /\ u[n + 1] = Head(t)
      /\ \A i \in 1..n : v[i] = u[i]
      /\ \A i \in (n + 1)..(m - 1) : v[i] = u[i + 1]
  <2>1. Tail(t) \in Seq(S) /\ Len(t) \in Nat /\ Len(t) >= 1 /\ Len(Tail(t)) = Len(t) - 1
        /\ Head(t) = t[1] /\ \A i \in 1..(Len(t) - 1) : Tail(t)[i] = t[i + 1]
      OBVIOUS
  <2>2. /\ u \in Seq(S) /\ Len(u) = n + Len(t) /\ n \in Nat /\ DOMAIN u = 1..(n + Len(t))
        /\ \A i \in 1..(n + Len(t)) : u[i] = IF i <= n THEN r[i] ELSE t[i - n]
      BY ConcatProperties
  <2>3. /\ v \in Seq(S) /\ Len(v) = n + (Len(t) - 1) /\ DOMAIN v = 1..(n + (Len(t) - 1))
        /\ \A i \in 1..(n + (Len(t) - 1)) : v[i] = IF i <= n THEN r[i] ELSE Tail(t)[i - n]
      BY <2>1, ConcatProperties
  <2> HIDE DEF u, v
  <2>4. \A i \in 1..n : v[i] = u[i]
      BY <2>1, <2>2, <2>3
  <2>5. ASSUME NEW i \in (n + 1)..(n + Len(t) - 1) PROVE v[i] = u[i + 1]
    <3>1. v[i] = Tail(t)[i - n] /\ i - n \in 1..(Len(t) - 1)
        BY <2>1, <2>2, <2>3
    <3>2. Tail(t)[i - n] = t[(i - n) + 1]
        BY <2>1, <3>1
    <3>3. u[i + 1] = t[(i + 1) - n] /\ (i + 1) - n = (i - n) + 1
        BY <2>1, <2>2
    <3> QED BY <3>1, <3>2, <3>3
  <2>6. u[n + 1] = Head(t)
      BY <2>1, <2>2
  <2> QED BY <2>1, <2>2, <2>3, <2>4, <2>5, <2>6
<1> HIDE DEF u, v, n, m
\* Where an element of u other than the dropped one is in v, and the other way round.
<1>2. ASSUME NEW i \in 1..m, u[i] # Head(t)
      PROVE  /\ i <= n => i \in 1..(m - 1) /\ v[i] = u[i]
             /\ i > n => i - 1 \in 1..(m - 1) /\ i - 1 > n /\ v[i - 1] = u[i]
  <2>1. i # n + 1
      BY <1>1, <1>2
  <2>2. CASE i <= n
      BY <1>1, <2>2
  <2>3. CASE i > n + 1
    <3>1. i - 1 \in (n + 1)..(m - 1) /\ (i - 1) + 1 = i
        BY <1>1, <2>3
    <3> QED BY <1>1, <2>3, <3>1
  <2> QED BY <1>1, <2>1, <2>2, <2>3
<1>3. ASSUME NEW i \in 1..(m - 1)
      PROVE  /\ i <= n => i \in 1..m /\ v[i] = u[i]
             /\ i > n => i + 1 \in 1..m /\ v[i] = u[i + 1]
  <2>1. CASE i <= n
      BY <1>1, <2>1
  <2>2. CASE i > n
    <3>1. i \in (n + 1)..(m - 1)
        BY <1>1, <2>2
    <3> QED BY <1>1, <2>2, <3>1
  <2> QED BY <2>1, <2>2
<1>4. ASSUME Contains(u, p) PROVE Contains(v, p)
  <2>1. PICK i \in 1..m : u[i] = p
      BY <1>4 DEF Contains, m
  <2> QED BY <1>1, <1>2, <2>1 DEF Contains
<1>5. ASSUME Contains(v, p) PROVE Contains(u, p)
  <2>1. PICK i \in 1..(m - 1) : v[i] = p
      BY <1>1, <1>5 DEF Contains
  <2>2. i <= n \/ i > n
      BY <1>1
  <2> QED BY <1>1, <1>3, <2>1, <2>2 DEF Contains, m
<1>6. ASSUME Before(u, p, q) PROVE Before(v, p, q)
  <2>1. PICK i \in 1..m, j \in 1..m : i < j /\ u[i] = p /\ u[j] = q
      BY <1>1, <1>6 DEF Before
  <2> DEFINE a == IF i <= n THEN i ELSE i - 1
             b == IF j <= n THEN j ELSE j - 1
  <2>2. a \in 1..(m - 1) /\ b \in 1..(m - 1) /\ v[a] = p /\ v[b] = q
      BY <1>1, <1>2, <2>1
  <2>3. a < b
    <3>1. CASE i <= n
        BY <1>1, <1>2, <2>1, <3>1
    <3>2. CASE i > n
        BY <1>1, <2>1, <3>2
    <3> QED BY <1>1, <3>1, <3>2
  <2> QED BY <1>1, <2>2, <2>3 DEF Before
<1>7. ASSUME Before(v, p, q) PROVE Before(u, p, q)
  <2>1. PICK i \in 1..(m - 1), j \in 1..(m - 1) : i < j /\ v[i] = p /\ v[j] = q
      BY <1>1, <1>7 DEF Before
  <2> DEFINE a == IF i <= n THEN i ELSE i + 1
             b == IF j <= n THEN j ELSE j + 1
  <2>2. a \in 1..m /\ b \in 1..m /\ u[a] = p /\ u[b] = q
      BY <1>1, <1>3, <2>1
  <2>3. a < b
      BY <1>1, <2>1
  <2> QED BY <1>1, <2>2, <2>3 DEF Before
<1> QED BY <1>4, <1>5, <1>6, <1>7 DEF u, v

LEMMA MoveBetween ==
    ASSUME NEW S, NEW r \in Seq(S), NEW t \in Seq(S), t # <<>>
    PROVE  Append(r, Head(t)) \o Tail(t) = r \o t
<1>1. /\ Tail(t) \in Seq(S) /\ Len(t) \in Nat /\ Len(t) >= 1 /\ Len(Tail(t)) = Len(t) - 1
      /\ Head(t) = t[1] /\ Head(t) \in S /\ \A i \in 1..(Len(t) - 1) : Tail(t)[i] = t[i + 1]
    OBVIOUS
<1> DEFINE s == Append(r, Head(t))
           n == Len(r)
<1>2. /\ s \in Seq(S) /\ n \in Nat /\ Len(s) = n + 1 /\ s[n + 1] = Head(t)
      /\ \A i \in 1..n : s[i] = r[i]
    BY <1>1
<1>3. /\ r \o t \in Seq(S) /\ Len(r \o t) = n + Len(t)
      /\ \A i \in 1..(n + Len(t)) : (r \o t)[i] = IF i <= n THEN r[i] ELSE t[i - n]
    BY ConcatProperties
<1> HIDE DEF s, n
<1>4. /\ s \o Tail(t) \in Seq(S) /\ Len(s \o Tail(t)) = (n + 1) + (Len(t) - 1)
      /\ \A i \in 1..((n + 1) + (Len(t) - 1)) :
             (s \o Tail(t))[i] = IF i <= n + 1 THEN s[i] ELSE Tail(t)[i - (n + 1)]
  <2>1. /\ s \o Tail(t) \in Seq(S) /\ Len(s \o Tail(t)) = Len(s) + Len(Tail(t))
        /\ \A i \in 1..(Len(s) + Len(Tail(t))) :
               (s \o Tail(t))[i] = IF i <= Len(s) THEN s[i] ELSE Tail(t)[i - Len(s)]
      BY <1>1, <1>2, ConcatProperties
  <2> QED BY <1>1, <1>2, <2>1
<1>5. ASSUME NEW i \in 1..(n + Len(t)) PROVE (s \o Tail(t))[i] = (r \o t)[i]
  <2>0. i <= n + 1 \/ i > n + 1
      BY <1>1, <1>2
  <2>1. CASE i <= n + 1
      BY <1>1, <1>2, <1>3, <1>4, <2>1
  <2>2. CASE i > n + 1
    <3>1. (s \o Tail(t))[i] = Tail(t)[i - (n + 1)] /\ i - (n + 1) \in 1..(Len(t) - 1)
        BY <1>1, <1>2, <1>4, <2>2
    <3>2. Tail(t)[i - (n + 1)] = t[(i - (n + 1)) + 1]
        BY <1>1, <3>1
    <3>3. (i - (n + 1)) + 1 = i - n
        BY <1>2
    <3>4. (r \o t)[i] = t[i - n]
        BY <1>2, <1>3, <2>2
    <3> QED BY <3>1, <3>2, <3>3, <3>4
  <2> QED BY <2>0, <2>1, <2>2
<1>6. Len(s \o Tail(t)) = Len(r \o t)
    BY <1>1, <1>2, <1>3, <1>4
<1> QED BY <1>3, <1>4, <1>5, <1>6, SeqEqual DEF s

LEMMA HeadAfter ==
    ASSUME NEW S, NEW r \in Seq(S), NEW t \in Seq(S), t # <<>>
    PROVE  Contains(r \o t, Head(t))
<1>1. /\ Len(t) \in Nat /\ Len(t) >= 1 /\ Head(t) = t[1] /\ Len(r) \in Nat
    OBVIOUS
<1>2. /\ Len(r \o t) = Len(r) + Len(t)
      /\ \A i \in 1..(Len(r) + Len(t)) : (r \o t)[i] = IF i <= Len(r) THEN r[i] ELSE t[i - Len(r)]
    BY ConcatProperties
<1>3. Len(r) + 1 \in 1..(Len(r) + Len(t)) /\ (Len(r) + 1) - Len(r) = 1
    BY <1>1
<1>4. (r \o t)[Len(r) + 1] = t[1]
    BY <1>1, <1>2, <1>3
<1> QED BY <1>1, <1>2, <1>3, <1>4 DEF Contains

\* A client that waits for the first packet of the server speaks when the pipeline is switched.
Spoken(c) == c \notin Eager => \A p \in Packets : Contains(sent[c], p) => Reached(c, Packet)

InOrder(s, t) ==
    \A p, q \in Packets : /\ Contains(s, p) <=> Contains(t, p)
                          /\ Before(s, p, q) <=> Before(t, p, q)
Delivered(c) == c \in open \ Eager => InOrder(sent[c], Arriving(c))
Heard(c) == Spoken(c) /\ Delivered(c)

LEMMA ArrivingTypes ==
    ASSUME TypeInv, NEW c \in Channels
    PROVE  received[c] \in Seq(Inputs) /\ toServer[c] \in Seq(Inputs) /\ sent[c] \in Seq(Inputs)
           /\ Arriving(c) \in Seq(Inputs)
<1>1. received[c] \in Seq(Inputs) /\ toServer[c] \in Seq(Inputs) /\ sent[c] \in Seq(Inputs)
  <2>1. received[c] \in Seq(Packets) /\ toServer[c] \in Seq(Inputs) /\ sent[c] \in Seq(Inputs)
      BY Elements
  <2>2. \A s \in Seq(Packets) : s \in Seq(Inputs)
      BY DEF Inputs
  <2> QED BY <2>1, <2>2
<1>2. received[c] \o toServer[c] \in Seq(Inputs)
    BY <1>1, ConcatProperties
<1> QED BY <1>1, <1>2 DEF Arriving

\* Nothing that has reached a client is taken back.
LEMMA ReachedStays ==
    ASSUME TypeInv, [Next]_vars, NEW c \in Channels, Reached(c, Packet)
    PROVE  Reached(c, Packet)'
<1>1. Reached(c, Packet)' <=> \E out \in Written(c)' : out.msg = Packet
    BY DEF Reached, Written, Range
<1>2. CASE toClient'[c] = toClient[c]
    BY <1>2 DEF Reached
<1>3. ASSUME NEW entry \in Outputs, toClient'[c] = Append(toClient[c], entry)
      PROVE  Reached(c, Packet)'
  <2>1. Written(c)' = Written(c) \cup {entry}
      BY <1>3, Elements, AppendHolds DEF Written
  <2> QED BY <1>1, <2>1, ReachedIs
<1>4. \/ toClient' = toClient
      \/ \E d \in Channels : Read(d) \/ RunTask(d)
    BY DEF Next, vars, LoginThread, TickEngine, EventLoop, Client, ClientLogsIn, ClientContinues,
           ClientSpeaks, ClientLeaves, Sends
<1>5. ASSUME NEW d \in Channels, RunTask(d) PROVE Reached(c, Packet)'
    BY <1>2, <1>3, <1>5, RunTaskTakes
<1>6. ASSUME NEW d \in Channels, Read(d) PROVE Reached(c, Packet)'
  <2>1. CASE toClient' = toClient
      BY <1>2, <2>1
  <2>2. CASE toClient' # toClient
    <3>1. Refuse(d)
        BY <1>6, <2>2 DEF Read, DecodeLogin, DecodeContinue, DecodePacket, Submit
    <3>2. [msg |-> "refused", by |-> "login"] \in Outputs
        BY DEF Outputs, Messages, Encoders
    <3>3. \/ toClient'[c] = toClient[c]
          \/ toClient'[c] = Append(toClient[c], [msg |-> "refused", by |-> "login"])
        BY <3>1 DEF Refuse, TypeInv, TypeOK
    <3> QED BY <1>2, <1>3, <3>2, <3>3
  <2> QED BY <2>1, <2>2
<1> QED BY <1>2, <1>4, <1>5, <1>6

LEMMA ClientHeard ==
    ASSUME TypeInv, NEW c \in Channels, Client(c), NEW d \in Channels, Heard(d)
    PROVE  Heard(d)'
<1>1. UNCHANGED <<toClient, received>> /\ open' \subseteq open
    BY DEF Client, ClientLogsIn, ClientContinues, ClientSpeaks, ClientLeaves, Sends
<1>2. (Reached(d, Packet)' <=> Reached(d, Packet))
    BY <1>1 DEF Reached
<1>3. CASE sent'[d] = sent[d] /\ toServer'[d] = toServer[d]
    BY <1>1, <1>2, <1>3 DEF Heard, Spoken, Delivered, Arriving
<1>4. ASSUME NEW msg \in Inputs, Sends(c, msg),
             msg \in Packets => Reached(c, Packet) \/ c \in Eager
      PROVE  Heard(d)'
  <2>1. CASE d # c
      BY <1>3, <1>4, <2>1 DEF Sends, TypeInv, TypeOK
  <2>2. CASE d = c
    <3>1. sent'[c] = Append(sent[c], msg) /\ toServer'[c] = Append(toServer[c], msg)
        BY <1>4 DEF Sends, TypeInv, TypeOK
    <3>2. /\ received[c] \in Seq(Inputs) /\ toServer[c] \in Seq(Inputs)
          /\ sent[c] \in Seq(Inputs) /\ Arriving(c) \in Seq(Inputs)
        BY ArrivingTypes
    <3>3. Arriving(c)' = Append(Arriving(c), msg)
      <4>1. received[c] \o Append(toServer[c], msg) = Append(received[c] \o toServer[c], msg)
        <5>1. ASSUME NEW r \in Seq(Inputs), NEW t \in Seq(Inputs)
              PROVE  r \o Append(t, msg) = Append(r \o t, msg)
            OBVIOUS
        <5> QED BY <3>2, <5>1
      <4>2. Arriving(c)' = received[c] \o Append(toServer[c], msg)
          BY <1>1, <3>1 DEF Arriving
      <4> QED BY <4>1, <4>2 DEF Arriving
    <3>4. Spoken(c)'
      <4>1. \A p : Contains(sent'[c], p) <=> Contains(sent[c], p) \/ p = msg
          BY <3>1, <3>2, AppendHolds
      <4> QED BY <1>2, <1>4, <2>2, <4>1 DEF Heard, Spoken
    <3>5. ASSUME NEW s \in Seq(Inputs), NEW t \in Seq(Inputs), InOrder(s, t)
          PROVE  InOrder(Append(s, msg), Append(t, msg))
      <4> SUFFICES ASSUME NEW p \in Packets, NEW q \in Packets
                   PROVE  /\ Contains(Append(s, msg), p) <=> Contains(Append(t, msg), p)
                          /\ Before(Append(s, msg), p, q) <=> Before(Append(t, msg), p, q)
          BY DEF InOrder
      <4>1. /\ Contains(s, p) <=> Contains(t, p)
            /\ Before(s, p, q) <=> Before(t, p, q)
          BY <3>5 DEF InOrder
      <4>2. /\ Contains(Append(s, msg), p) <=> Contains(s, p) \/ p = msg
            /\ Contains(Append(t, msg), p) <=> Contains(t, p) \/ p = msg
          BY AppendHolds
      <4>3. /\ Before(Append(s, msg), p, q) <=> Before(s, p, q) \/ (q = msg /\ Contains(s, p))
            /\ Before(Append(t, msg), p, q) <=> Before(t, p, q) \/ (q = msg /\ Contains(t, p))
          BY AppendBefore
      <4> QED BY <4>1, <4>2, <4>3
    <3>6. Delivered(c)'
        BY <1>1, <2>2, <3>1, <3>2, <3>3, <3>5 DEF Heard, Delivered
    <3> QED BY <2>2, <3>4, <3>6 DEF Heard
  <2> QED BY <2>1, <2>2
<1>5. CASE ClientLogsIn(c)
    BY <1>4, <1>5, PacketsAssumption DEF ClientLogsIn, Inputs
<1>6. CASE ClientContinues(c)
    BY <1>4, <1>6, PacketsAssumption DEF ClientContinues, Inputs
<1>7. CASE ClientSpeaks(c)
    BY <1>4, <1>7 DEF ClientSpeaks, Inputs
<1>8. CASE ClientLeaves(c)
    BY <1>3, <1>8 DEF ClientLeaves, client
<1> QED BY <1>5, <1>6, <1>7, <1>8 DEF Client

LEMMA ReadHeard ==
    ASSUME TypeInv, NEW c \in Channels, Read(c), NEW d \in Channels, OneSwitch(d), Heard(d), Spoken(d)'
    PROVE  Heard(d)'
<1> DEFINE msg == Head(toServer[c])
<1>1. /\ UNCHANGED sent /\ open' \subseteq open
    BY DEF Read, DecodeLogin, DecodeContinue, DecodePacket, Submit, Refuse
<1>2. /\ toServer[c] # <<>> /\ toServer'[c] = Tail(toServer[c])
      /\ \A e \in Channels \ {c} : toServer'[e] = toServer[e]
    BY DEF Read, TypeInv, TypeOK
<1>3. msg \notin Packets => received' = received
    BY DEF Read, DecodeLogin, DecodeContinue, DecodePacket, Submit, Refuse
<1>4. \A e \in Channels \ {c} : received'[e] = received[e]
    BY <1>3 DEF Read, DecodeLogin, DecodeContinue, DecodePacket, Submit, Refuse, TypeInv, TypeOK
<1>5. CASE d # c
    BY <1>1, <1>2, <1>4, <1>5 DEF Heard, Delivered, Arriving
<1>6. ASSUME d = c, c \in open' \ Eager PROVE InOrder(sent'[c], Arriving(c)')
  <2>1. /\ received[c] \in Seq(Inputs) /\ toServer[c] \in Seq(Inputs)
      BY ArrivingTypes
  <2>2. InOrder(sent[c], Arriving(c))
      BY <1>1, <1>6 DEF Heard, Delivered
  <2>3. CASE msg \notin Packets
    <3>1. Arriving(c)' = received[c] \o Tail(toServer[c])
        BY <1>2, <1>3, <2>3 DEF Arriving
    <3> SUFFICES ASSUME NEW p \in Packets, NEW q \in Packets
                 PROVE  /\ Contains(sent[c], p) <=> Contains(received[c] \o Tail(toServer[c]), p)
                        /\ Before(sent[c], p, q) <=> Before(received[c] \o Tail(toServer[c]), p, q)
        BY <1>1, <3>1 DEF InOrder
    <3>2. /\ Contains(received[c] \o toServer[c], p) <=> Contains(received[c] \o Tail(toServer[c]), p)
          /\ Before(received[c] \o toServer[c], p, q) <=> Before(received[c] \o Tail(toServer[c]), p, q)
        BY <1>2, <2>1, <2>3, DropBetween
    <3> QED BY <2>2, <3>2 DEF InOrder, Arriving
  <2>4. CASE msg \in Packets
    <3>1. Contains(Arriving(c), msg)
        BY <1>2, <2>1, HeadAfter DEF Arriving
    <3>2. Switched(c)
      <4>1. Contains(sent[c], msg)
          BY <2>2, <2>4, <3>1 DEF InOrder
      <4>2. Reached(c, Packet)
          BY <1>6, <2>4, <4>1 DEF Heard, Spoken
      <4> QED BY <1>6, <4>2 DEF OneSwitch, FirstPacket
    <3>3. DecodePacket(c, msg)
        BY <2>4, PacketsAssumption DEF Read
    <3>4. received'[c] = Append(received[c], msg)
        BY <3>2, <3>3 DEF DecodePacket, Switched, TypeInv, TypeOK
    <3>5. Arriving(c)' = Arriving(c)
        BY <1>2, <2>1, <3>4, MoveBetween DEF Arriving
    <3> QED BY <1>1, <2>2, <3>5
  <2> QED BY <2>3, <2>4
<1> QED BY <1>5, <1>6 DEF Heard, Delivered

Hearing == \A c \in Channels : Heard(c)

LEMMA InitHearing == Init => Hearing
<1> SUFFICES ASSUME Init, NEW c \in Channels PROVE Heard(c)
    BY DEF Hearing
<1>1. sent[c] = <<>> /\ toServer[c] = <<>> /\ received[c] = <<>>
    BY DEF Init
<1>2. <<>> \o <<>> = <<>> /\ Len(<<>>) = 0 /\ DOMAIN <<>> = {}
    OBVIOUS
<1> QED BY <1>1, <1>2 DEF Heard, Spoken, Delivered, InOrder, Arriving, Contains, Before

LEMMA NextHearing == TypeInv /\ Switches /\ Hearing /\ [Next]_vars => Hearing'
<1> SUFFICES ASSUME TypeInv, Switches, Hearing, [Next]_vars, NEW d \in Channels PROVE Heard(d)'
    BY DEF Hearing
<1>1. OneSwitch(d) /\ Heard(d)
    BY DEF Switches, Hearing
<1>2. CASE sent' = sent /\ toServer' = toServer /\ received' = received /\ open' \subseteq open
    BY <1>1, <1>2, ReachedStays DEF Heard, Spoken, Delivered, Arriving
<1>3. CASE LoginThread \/ TickEngine \/ UNCHANGED vars
    BY <1>2, <1>3 DEF LoginThread, TickEngine, vars, client
<1>4. ASSUME NEW c \in Channels, RunTask(c) PROVE Heard(d)'
  <2>1. open' \subseteq open
      BY <1>4 DEF RunTask, RunWrite, RunAdd, RunNotify, Listener, EnterGame
  <2> QED BY <1>2, <1>4, <2>1 DEF RunTask, client
<1>5. ASSUME NEW c \in Channels, Client(c) PROVE Heard(d)'
    BY <1>1, <1>5, ClientHeard
<1>6. ASSUME NEW c \in Channels, Read(c) PROVE Heard(d)'
  <2>1. Spoken(d)'
      BY <1>1, <1>6, ReachedStays DEF Heard, Spoken, Read
  <2> QED BY <1>1, <1>6, <2>1, ReadHeard
<1> QED BY <1>3, <1>4, <1>5, <1>6 DEF Next, EventLoop

\* Of a client that speaks once the server has, every packet is handed to ConnectedClient
\* or still to be read, in the order of sending: no read meets a pipeline half switched,
\* however the replacements, the writes and the reads come about.
THEOREM PacketsNotLost == Spec => []PacketsArrive
<1>1. Init => Hearing
    BY InitHearing
<1>2. TypeInv /\ Switches /\ Hearing /\ [Next]_vars => Hearing'
    BY NextHearing
<1>3. TypeInv /\ Hearing => PacketsArrive
    BY DEF Hearing, Heard, Delivered, InOrder, PacketsArrive, TypeInv, TypeOK
<1> QED BY <1>1, <1>2, <1>3, TypesHold, SwitchesHold, PTL DEF Spec
=============================================================================
