-------------------------------- MODULE Login --------------------------------
(***************************************************************************)
(* Logging in: from a login request to the first game packets.             *)
(*                                                                         *)
(* Three kinds of threads work on one channel.  Its event loop reads what  *)
(* the client sends and runs, in order, what the others give it: writes,   *)
(* handlers that join the pipeline, and listeners.  login-thread takes one *)
(* login at a time and writes the answer (LoginServerHandler's callback).  *)
(* The tick engine runs WorldPlayer.added.  A lobby login goes on to the   *)
(* world on its own channel, once a listener has put the game's handlers   *)
(* into the pipeline; a game login (GAME with a reconnecting header, or    *)
(* GAME_ALT) takes its user from what LoginHandoffStore remembers of the   *)
(* lobby login from the same host, and added() swaps the handlers.         *)
(*                                                                         *)
(* From another thread netty's replace links the new handler at once, but  *)
(* the event loop adds it later, and passes it by until then; a write goes *)
(* by the encoder that was linked when it was called.                      *)
(***************************************************************************)
EXTENDS Naturals, Sequences, SequencesExt

CONSTANTS Lobbies,     \* channels of lobby logins
          Games,       \* channels of game logins
          UserOf,      \* the user of each channel
          HostOf,      \* the host it connects from
          None,        \* no user, no channel
          Eager,       \* clients that send packets as soon as they are logged in
          Packets      \* bound: the packets a client may send

Channels == Lobbies \cup Games
Users == {UserOf[c] : c \in Channels}
Hosts == {HostOf[c] : c \in Channels}

ASSUME ChannelsAssumption == Lobbies \cap Games = {} /\ None \notin Channels \cup Users
ASSUME PacketsAssumption == Packets \cap {"login", "continue"} = {}

VARIABLES
    sent,        \* what each client has sent so far
    toServer,    \* what the event loop has not read of it
    open,        \* open channels
    tasks,       \* what each event loop has been given to do
    toClient,    \* what has been written to each channel, and the encoder it went by
    decoder, encoder, handler,  \* the pipeline: the login's, the game's, or linked only
    received,    \* the packets that ConnectedClient was given
    snapshot,    \* LoginHandoffStore.latestByHost
    user,        \* LOGIN_USERNAME of each channel
    logins,      \* LoginThread.queue
    login, step, \* the login in hand, and where its callback is
    response,    \* the future of the lobby response: not done, done or failed
    listening,   \* lobby responses whose future has its listener
    continues,   \* the tick engine's addPlayerNow tasks
    toAdd,       \* World.toAdd
    adding, stage \* the player in WorldPlayer.added, and its bootstrap stage

client == <<sent, toServer>>
pipeline == <<decoder, encoder, handler>>
future == <<response, listening>>
loginThread == <<logins, login, step>>
tickEngine == <<continues, toAdd, adding, stage>>
vars == <<client, open, tasks, toClient, pipeline, received, snapshot, user, loginThread,
          future, tickEngine>>

Links == {"login", "linked", "game"}
Slots == {"decoder", "encoder", "handler"}
Packet == "packet"
Messages == {"code", "lobbyResponse", "varcs", "refused", "gameResponse", Packet}
Encoders == {"login", "game", "none"}

Write == [do : {"write"}, msg : Messages \ {"refused"}, by : Encoders]
Add == [do : {"add"}, slot : Slots]
Notify == [do : {"notify"}]
Tasks == Write \cup Add \cup Notify
Inputs == {"login", "continue"} \cup Packets
Outputs == [msg : Messages, by : Encoders]

TypeOK ==
    /\ sent \in [Channels -> Seq(Inputs)]
    /\ toServer \in [Channels -> Seq(Inputs)]
    /\ open \subseteq Channels
    /\ tasks \in [Channels -> Seq(Tasks)]
    /\ toClient \in [Channels -> Seq(Outputs)]
    /\ decoder \in [Channels -> Links]
    /\ encoder \in [Channels -> Links]
    /\ handler \in [Channels -> Links]
    /\ received \in [Channels -> Seq(Packets)]
    /\ snapshot \in [Hosts -> Users \cup {None}]
    /\ user \in [Channels -> Users \cup {None}]
    /\ logins \in Seq(Channels)
    /\ login \in Channels \cup {None}
    /\ step \in {"take", "code", "remember", "respond", "listen"}
    /\ response \in [Lobbies -> {"pending", "written", "failed"}]
    /\ listening \subseteq Lobbies
    /\ continues \in Seq(Channels) /\ toAdd \in Seq(Channels)
    /\ adding \in Channels \cup {None}
    /\ stage \in {"login-response", "decoder", "encoder", "handler", "rebuild"}

Init ==
    /\ sent = [c \in Channels |-> <<>>] /\ toServer = sent
    /\ open = Channels /\ tasks = sent /\ toClient = sent /\ received = sent
    /\ decoder = [c \in Channels |-> "login"] /\ encoder = decoder /\ handler = decoder
    /\ snapshot = [h \in Hosts |-> None] /\ user = [c \in Channels |-> None]
    /\ logins = <<>> /\ login = None /\ step = "take"
    /\ response = [l \in Lobbies |-> "pending"] /\ listening = {}
    /\ continues = <<>> /\ toAdd = <<>> /\ adding = None /\ stage = "login-response"
-----------------------------------------------------------------------------
(* Clients                                                                   *)

Reached(c, msg) == \E i \in DOMAIN toClient[c] : toClient[c][i].msg = msg

Sends(c, msg) ==
    /\ c \in open
    /\ sent' = [sent EXCEPT ![c] = Append(@, msg)]
    /\ toServer' = [toServer EXCEPT ![c] = Append(@, msg)]
    /\ UNCHANGED <<open, tasks, toClient, pipeline, received, snapshot, user, loginThread,
                   future, tickEngine>>

\* A game login follows the whole answer to a lobby login.
ClientLogsIn(c) ==
    /\ sent[c] = <<>>
    /\ c \in Games => \E l \in Lobbies : UserOf[l] = UserOf[c] /\ Reached(l, "lobbyResponse")
    /\ Sends(c, "login")

ClientContinues(c) ==
    /\ Reached(c, "varcs") /\ ~Contains(sent[c], "continue")
    /\ Sends(c, "continue")

LoggedIn(c) == Reached(c, IF c \in Games THEN "gameResponse" ELSE "lobbyResponse")

\* A client waits for the first packet of the server, unless it is eager.
ClientSpeaks(c) ==
    /\ Reached(c, Packet) \/ (c \in Eager /\ LoggedIn(c))
    /\ \E p \in Packets : ~Contains(sent[c], p) /\ Sends(c, p)

ClientLeaves(c) ==
    /\ c \in open /\ open' = open \ {c}
    /\ UNCHANGED <<client, tasks, toClient, pipeline, received, snapshot, user, loginThread,
                   future, tickEngine>>

Client(c) == ClientLogsIn(c) \/ ClientContinues(c) \/ ClientSpeaks(c) \/ ClientLeaves(c)
-----------------------------------------------------------------------------
(* The event loop of a channel reads what the client sends.                  *)

\* LoginServerDecoder and LoginServerHandler: the callback goes to login-thread.
Submit(c, name) ==
    /\ user' = [user EXCEPT ![c] = name]
    /\ logins' = Append(logins, c)
    /\ UNCHANGED <<open, toClient, received, continues>>

\* A game login without a snapshot is answered and its channel closed.
Refuse(c) ==
    /\ toClient' = [toClient EXCEPT ![c] = Append(@, [msg |-> "refused", by |-> "login"])]
    /\ open' = open \ {c}
    /\ UNCHANGED <<received, user, logins, continues>>

Recall(c) == snapshot[HostOf[c]]

DecodeLogin(c) ==
    IF c \in Lobbies THEN Submit(c, UserOf[c])
    ELSE IF Recall(c) = None THEN Refuse(c)
    ELSE Submit(c, Recall(c))

DecodeContinue(c) ==
    /\ continues' = Append(continues, c)
    /\ UNCHANGED <<open, toClient, received, user, logins>>

\* The bytes of a packet mean nothing to the login decoder: it closes the channel,
\* or waits for more and hands them on when it is removed, to no handler.
DecodePacket(c, p) ==
    /\ IF decoder[c] = "game" /\ handler[c] = "game"
         THEN received' = [received EXCEPT ![c] = Append(@, p)] /\ open' = open
         ELSE received' = received /\ open' \in {open} \cup (IF decoder[c] = "login"
                                                              THEN {open \ {c}} ELSE {})
    /\ UNCHANGED <<toClient, user, logins, continues>>

Read(c) ==
    /\ c \in open /\ toServer[c] # <<>>
    /\ toServer' = [toServer EXCEPT ![c] = Tail(@)]
    /\ LET msg == Head(toServer[c]) IN
         \/ msg = "login" /\ DecodeLogin(c)
         \/ msg = "continue" /\ DecodeContinue(c)
         \/ msg \in Packets /\ DecodePacket(c, msg)
    /\ UNCHANGED <<sent, tasks, pipeline, snapshot, login, step, future, toAdd, adding, stage>>
-----------------------------------------------------------------------------
(* The event loop runs what it has been given.                               *)

Give(c, list) == tasks' = [tasks EXCEPT ![c] = @ \o list]

\* The encoder of a write is the one linked when the write is called.
WriteOf(c, msg) ==
    [do |-> "write", msg |-> msg, by |-> IF encoder[c] = "login" THEN "login" ELSE "game"]

\* Mutant of EnterGame: the login's handler stays.
EnterGameHalf(c) ==
    /\ decoder' = [decoder EXCEPT ![c] = "game"]
    /\ encoder' = [encoder EXCEPT ![c] = "game"]
    /\ toAdd' = Append(toAdd, c)
    /\ UNCHANGED <<handler, open>>

\* The listener of a lobby response: the event loop replaces the handlers itself.
EnterGame(c) ==
    /\ decoder' = [decoder EXCEPT ![c] = "game"]
    /\ encoder' = [encoder EXCEPT ![c] = "game"]
    /\ handler' = [handler EXCEPT ![c] = "game"]
    /\ toAdd' = Append(toAdd, c)
    /\ UNCHANGED open

\* Of a closed channel the handlers may be gone, and replacing them throws.
Listener(c, result) ==
    \/ result = "written" /\ EnterGame(c)
    \/ result = "failed" /\ open' = open \ {c} /\ UNCHANGED <<pipeline, toAdd>>
    \/ result = "written" /\ c \notin open /\ UNCHANGED <<open, pipeline, toAdd>>

\* What goes out, and whether the write fails, is told to the listener there and then.
RunWrite(c, msg, by) ==
    LET through == IF by = "game" /\ encoder[c] = "linked" THEN "none" ELSE by
        result == IF c \in open THEN "written" ELSE "failed" IN
    /\ toClient' = IF c \in open
                     THEN [toClient EXCEPT ![c] = Append(@, [msg |-> msg, by |-> through])]
                     ELSE toClient
    /\ response' = IF msg = "lobbyResponse" THEN [response EXCEPT ![c] = result] ELSE response
    /\ IF msg = "lobbyResponse" /\ c \in listening
         THEN Listener(c, result) ELSE UNCHANGED <<open, pipeline, toAdd>>

\* handlerAdded of the new handler and handlerRemoved of the one it replaces.
RunAdd(c, slot) ==
    /\ decoder' = IF slot = "decoder" THEN [decoder EXCEPT ![c] = "game"] ELSE decoder
    /\ encoder' = IF slot = "encoder" THEN [encoder EXCEPT ![c] = "game"] ELSE encoder
    /\ handler' = IF slot = "handler" THEN [handler EXCEPT ![c] = "game"] ELSE handler
    /\ UNCHANGED <<toClient, open, response, toAdd>>

RunNotify(c) == Listener(c, response[c]) /\ UNCHANGED <<toClient, response>>

RunTask(c) ==
    /\ tasks[c] # <<>>
    /\ tasks' = [tasks EXCEPT ![c] = Tail(@)]
    /\ LET task == Head(tasks[c]) IN
         \/ task.do = "write" /\ RunWrite(c, task.msg, task.by)
         \/ task.do = "add" /\ RunAdd(c, task.slot)
         \/ task.do = "notify" /\ RunNotify(c)
    /\ UNCHANGED <<client, received, snapshot, user, loginThread, listening, continues,
                   adding, stage>>

EventLoop(c) == Read(c) \/ RunTask(c)
-----------------------------------------------------------------------------
(* login-thread: AuthoritativeLoginProcessor accepts, and runs the callback. *)

Take ==
    /\ login = None /\ logins # <<>>
    /\ login' = Head(logins) /\ logins' = Tail(logins) /\ step' = "code"
    /\ UNCHANGED <<tasks, snapshot, listening>>

\* Mutant of AnswerCode: the hand-off is not remembered.
AnswerCodeForgetting ==
    /\ step = "code"
    /\ Give(login, <<WriteOf(login, "code")>>)
    /\ step' = "respond"
    /\ UNCHANGED <<snapshot, logins, login, listening>>

AnswerCode ==
    /\ step = "code"
    /\ Give(login, <<WriteOf(login, "code")>>)
    /\ step' = IF login \in Lobbies THEN "remember" ELSE "respond"
    /\ UNCHANGED <<snapshot, logins, login, listening>>

Remember ==
    /\ step = "remember"
    /\ snapshot' = [snapshot EXCEPT ![HostOf[login]] = UserOf[login]]
    /\ step' = "respond"
    /\ UNCHANGED <<tasks, logins, login, listening>>

RespondGame ==
    /\ step = "respond" /\ login \in Games
    /\ Give(login, <<WriteOf(login, "varcs")>>)
    /\ login' = None /\ step' = "take"
    /\ UNCHANGED <<snapshot, logins, listening>>

RespondLobby ==
    /\ step = "respond" /\ login \in Lobbies
    /\ Give(login, <<WriteOf(login, "lobbyResponse")>>)
    /\ step' = "listen"
    /\ UNCHANGED <<snapshot, logins, login, listening>>

\* Mutant of AddListener: the future is taken to be pending.
AddListenerLate ==
    /\ step = "listen"
    /\ listening' = listening \cup {login}
    /\ login' = None /\ step' = "take"
    /\ UNCHANGED <<tasks, snapshot, logins>>

\* A listener added to a future that is done is given to the event loop.
AddListener ==
    /\ step = "listen"
    /\ listening' = listening \cup {login}
    /\ Give(login, IF response[login] = "pending" THEN <<>> ELSE <<[do |-> "notify"]>>)
    /\ login' = None /\ step' = "take"
    /\ UNCHANGED <<snapshot, logins>>

LoginThread ==
    /\ Take \/ AnswerCode \/ Remember \/ RespondGame \/ RespondLobby \/ AddListener
    /\ UNCHANGED <<client, open, toClient, pipeline, received, user, response, tickEngine>>
-----------------------------------------------------------------------------
(* The tick engine: addPlayerNow, World.tick and WorldPlayer.added.          *)

\* Mutant of AddPlayerNow: the pipeline is switched before the login response.
AddPlayerNowSwitching ==
    /\ adding = None /\ continues # <<>>
    /\ adding' = Head(continues) /\ continues' = Tail(continues) /\ stage' = "login-response"
    /\ encoder' = [encoder EXCEPT ![Head(continues)] = "linked"]
    /\ UNCHANGED <<tasks, decoder, handler, toAdd>>

AddPlayerNow ==
    /\ adding = None /\ continues # <<>>
    /\ adding' = Head(continues) /\ continues' = Tail(continues) /\ stage' = "login-response"
    /\ UNCHANGED <<tasks, pipeline, toAdd>>

AddPostLobby ==
    /\ adding = None /\ toAdd # <<>>
    /\ adding' = Head(toAdd) /\ toAdd' = Tail(toAdd) /\ stage' = "rebuild"
    /\ UNCHANGED <<tasks, pipeline, continues>>

LoginResponse ==
    /\ adding # None /\ stage = "login-response"
    /\ Give(adding, <<WriteOf(adding, "code"), WriteOf(adding, "gameResponse")>>)
    /\ stage' = "decoder"
    /\ UNCHANGED <<pipeline, continues, toAdd, adding>>

Link(slot, links) == IF stage = slot THEN [links EXCEPT ![adding] = "linked"] ELSE links

\* One replace of the pipeline switch.
Replace ==
    /\ adding # None /\ stage \in Slots
    /\ decoder' = Link("decoder", decoder)
    /\ encoder' = Link("encoder", encoder)
    /\ handler' = Link("handler", handler)
    /\ Give(adding, <<[do |-> "add", slot |-> stage]>>)
    /\ stage' = CASE stage = "decoder" -> "encoder" [] stage = "encoder" -> "handler"
                  [] stage = "handler" -> "rebuild"
    /\ UNCHANGED <<continues, toAdd, adding>>

Rebuild ==
    /\ adding # None /\ stage = "rebuild"
    /\ Give(adding, <<WriteOf(adding, Packet)>>)
    /\ adding' = None /\ stage' = "login-response"
    /\ UNCHANGED <<pipeline, continues, toAdd>>

TickEngine ==
    /\ AddPlayerNow \/ AddPostLobby \/ LoginResponse \/ Replace \/ Rebuild
    /\ UNCHANGED <<client, open, toClient, received, snapshot, user, loginThread, future>>
-----------------------------------------------------------------------------
Next == LoginThread \/ TickEngine \/ \E c \in Channels : Client(c) \/ EventLoop(c)

Fairness ==
    /\ WF_vars(LoginThread) /\ WF_vars(TickEngine)
    /\ \A c \in Channels : WF_vars(EventLoop(c))

Spec == Init /\ [][Next]_vars /\ Fairness
-----------------------------------------------------------------------------
(* Properties                                                                *)

\* What ConnectedClient is given of an open channel is what the client sent, in order
\* and without a gap: after the first packet of the server, written once added() or the
\* listener has switched the pipeline, no read meets a handler that is not in place.
\* Received packets and unread ones are those sent, in the order they were sent.
Before(s, p, q) == \E i, j \in DOMAIN s : i < j /\ s[i] = p /\ s[j] = q
Arriving(c) == received[c] \o toServer[c]
PacketsArrive ==
    \A c \in open \ Eager : \A p, q \in Packets :
        /\ Contains(sent[c], p) <=> Contains(Arriving(c), p)
        /\ Before(sent[c], p, q) <=> Before(Arriving(c), p, q)

\* Each message goes by the encoder that knows it: login messages by LoginEncoder,
\* packets by GamePacketEncoder.  Plain bytes, as the code, go by either.
Knows(by, msg) == msg = "code" \/ by = (IF msg = Packet THEN "game" ELSE "login")
EncodedRight ==
    \A c \in Channels : \A i \in DOMAIN toClient[c] : Knows(toClient[c][i].by, toClient[c][i].msg)

\* No two users share a host, and a user stays on its host.
OwnHosts == \A c, d \in Channels : HostOf[c] = HostOf[d] <=> UserOf[c] = UserOf[d]

\* LoginHandoffStore: with hosts of their own, a user whose lobby login has been answered
\* gets into the game under its own name; the hand-off is there by then.
HandedOver ==
    \A g \in Games : user[g] \in {None, UserOf[g]} /\ ~Reached(g, "refused")

\* A login ends with the first packet of the game, unless the channel closes or the
\* server waits for the client to send GAMELOGIN_CONTINUE.
LoginsSettle ==
    \A c \in Channels :
        (sent[c] # <<>>) ~> \/ Reached(c, Packet) \/ c \notin open
                            \/ c \in Games /\ Reached(c, "varcs") /\ ~Contains(sent[c], "continue")
=============================================================================
