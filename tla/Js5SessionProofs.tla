--------------------------- MODULE Js5SessionProofs ---------------------------
(***************************************************************************)
(* Theorems about Js5Session, for every set of keys, every length and      *)
(* every byte budget.                                                      *)
(***************************************************************************)
EXTENDS Js5SessionRefinement, TLAPS

----------------------------------------------------------------------------
(* What adding to the end and taking from the front of a queue do to its   *)
(* elements.                                                               *)

\* add() and addLast() keep the elements and put the new one at the end.
LEMMA AppendElements ==
    ASSUME NEW S, NEW s \in Seq(S), NEW e \in S
    PROVE  /\ Append(s, e) \in Seq(S)
           /\ DOMAIN s = 1..Len(s)
           /\ DOMAIN Append(s, e) = 1..(Len(s) + 1)
           /\ \A i \in 1..Len(s) : Append(s, e)[i] = s[i]
           /\ Append(s, e)[Len(s) + 1] = e
           /\ Len(s) \in Nat
    OBVIOUS

\* poll() and removeFirst() take the first element and keep the others.
LEMMA TailElements ==
    ASSUME NEW S, NEW s \in Seq(S), s # <<>>
    PROVE  /\ Tail(s) \in Seq(S)
           /\ Head(s) \in S
           /\ Head(s) = s[1]
           /\ Len(s) \in Nat /\ Len(s) >= 1
           /\ DOMAIN s = 1..Len(s)
           /\ DOMAIN Tail(s) = 1..(Len(s) - 1)
           /\ \A i \in 1..(Len(s) - 1) : Tail(s)[i] = s[i + 1]
    OBVIOUS

-----------------------------------------------------------------------------
(* The two threads' steps.                                                 *)

\* The event loop leaves process()'s position and response in hand alone.
LEMMA ThreadFrame == NettyStep \/ ClientStep => UNCHANGED thread
    BY DEF NettyStep, ClientStep, InlineServe, InlineMiss, QueueRequest, ClearQueues,
           ReleaseResponses, ReleaseFails, ClearInFlight, EnqueueRequest, LoggedIn,
           LoggedOut, Initialize, CloseSession, ClientDrops, ChannelInactive

\* js5-thread leaves the session's flags and the handler in progress alone.
LEMMA EventLoopFrame == ThreadStep => UNCHANGED Shared
    BY DEF ThreadStep, Schedule, StartProcess, Poll, Load, LoadMissing, LoadMalformed,
           CheckPending, TakePending, TakeReleased, WriteBlock, Recycle

\* writeResponseBlock never writes more than one block, than what the response
\* has left, or than the budget pays for.
LEMMA PayloadBounds ==
    ASSUME ThreadType, Payload > 0
    PROVE  /\ Payload \in Nat
           /\ Payload <= MaxPayload
           /\ Payload <= Length[tkey] - tsent
           /\ sent + Payload + Header <= Limit
<1>1. Length[tkey] \in Nat /\ tsent \in Nat /\ sent \in Nat
    BY SizeAssumption DEF ThreadType
<1> QED BY <1>1, SizeAssumption DEF Payload, Least

LEMMA ReceiveType ==
    ASSUME got \in [Priority -> [Keys -> Nat]],
           NEW p \in Priority, NEW k \in Keys, NEW off \in Nat, NEW n \in Nat,
           Receive(p, k, off, n)
    PROVE  got' \in [Priority -> [Keys -> Nat]]
<1>1. Length[k] \in Nat
    BY SizeAssumption
<1> QED BY <1>1 DEF Receive, Garbled

-----------------------------------------------------------------------------
(* Type correctness.                                                       *)

LEMMA TypeInit == Init => TypeOK
<1> SUFFICES ASSUME Init PROVE TypeOK
    OBVIOUS
<1>1. FlagsType /\ CountType
  <2>1. FlagsType
      BY DEF Init, FlagsType
  <2>2. CountType
      BY BoundAssumption DEF Init, CountType
  <2> QED BY <2>1, <2>2
<1>2. EventLoopType /\ ThreadType
    BY KeysAssumption DEF Init, EventLoopType, ThreadType, Priority
<1>3. QueuesType
  <2>1. queue \in [Priority -> Seq(Keys)]
      BY DEF Init
  <2>2. pend \in [Priority -> Seq(Responses)]
      BY DEF Init
  <2> QED BY <2>1, <2>2 DEF Init, QueuesType
<1>4. ClientType
  <2>1. got \in [Priority -> [Keys -> Nat]]
      BY DEF Init
  <2> QED BY <2>1, KeysAssumption DEF Init, ClientType, NoBlock, Priority
<1> QED BY <1>1, <1>2, <1>3, <1>4 DEF TypeOK

LEMMA FlagsStep == TypeOK /\ Next => FlagsType'
<1>1. CASE ThreadStep
    BY <1>1, EventLoopFrame DEF TypeOK, FlagsType, Shared, life
<1>2. CASE NettyStep \/ ClientStep
    BY <1>2, FlagAssumption
       DEF TypeOK, FlagsType, NettyStep, ClientStep, InlineServe, InlineMiss,
           QueueRequest, ClearQueues, ReleaseResponses, ReleaseFails, ClearInFlight,
           EnqueueRequest, LoggedIn, LoggedOut, Initialize, CloseSession, ClientDrops,
           ChannelInactive, life
<1> QED BY <1>1, <1>2 DEF Next

LEMMA CountStep == TypeOK /\ Next => CountType'
<1>1. CASE \E p \in Priority, k \in Keys : EnqueueRequest(p, k)
    BY <1>1, BoundAssumption DEF TypeOK, CountType, EnqueueRequest
<1>2. CASE UNCHANGED seq
    BY <1>2 DEF TypeOK, CountType
<1>3. ThreadStep => UNCHANGED seq
    BY EventLoopFrame DEF Shared
<1> QED BY <1>1, <1>2, <1>3
        DEF Next, NettyStep, ClientStep, InlineServe, InlineMiss, QueueRequest,
            ClearQueues, ReleaseResponses, ReleaseFails, ClearInFlight, LoggedIn,
            LoggedOut, Initialize, CloseSession, ClientDrops, ChannelInactive

LEMMA EventLoopStep == TypeOK /\ Next => EventLoopType'
<1>1. CASE ThreadStep
    BY <1>1, EventLoopFrame DEF TypeOK, EventLoopType, Shared, netty
<1>2. CASE NettyStep \/ ClientStep
    BY <1>2, KeysAssumption
       DEF TypeOK, EventLoopType, NettyStep, ClientStep, InlineServe, InlineMiss,
           QueueRequest, ClearQueues, ReleaseResponses, ReleaseFails, ClearInFlight,
           EnqueueRequest, LoggedIn, LoggedOut, Initialize, CloseSession, ClientDrops,
           ChannelInactive, netty, Priority
<1> QED BY <1>1, <1>2 DEF Next

LEMMA ThreadTypeStep == TypeOK /\ Next => ThreadType'
<1> SUFFICES ASSUME TypeOK, Next PROVE ThreadType'
    OBVIOUS
<1>1. CASE NettyStep \/ ClientStep
    BY <1>1, ThreadFrame DEF TypeOK, ThreadType, thread
<1>2. CASE Poll
  <2>1. queue[tprio] # <<>> => Head(queue[tprio]) \in Keys
    <3>1. queue[tprio] \in Seq(Keys)
        BY DEF TypeOK, QueuesType, ThreadType
    <3> QED BY <3>1, TailElements
  <2> QED BY <1>2, <2>1 DEF TypeOK, ThreadType, Poll
<1>3. CASE TakePending
  <2>1. pend[tprio] # <<>> => Head(pend[tprio]) \in Responses
    <3>1. pend[tprio] \in Seq(Responses)
        BY DEF TypeOK, QueuesType, ThreadType
    <3> QED BY <3>1, TailElements
  <2> QED BY <1>3, <2>1 DEF TypeOK, ThreadType, TakePending, Responses
<1>4. CASE WriteBlock
    BY <1>4, PayloadBounds, SizeAssumption DEF TypeOK, ThreadType, WriteBlock
<1>5. CASE Schedule \/ StartProcess \/ Load \/ LoadMissing \/ LoadMalformed
           \/ CheckPending \/ TakeReleased \/ Recycle
    BY <1>5, KeysAssumption
       DEF TypeOK, ThreadType, Schedule, StartProcess, Load, LoadMissing,
           LoadMalformed, CheckPending, TakeReleased, Recycle, NoneInHand, Return,
           Priority
<1> QED BY <1>1, <1>2, <1>3, <1>4, <1>5 DEF Next, ThreadStep

LEMMA QueuesStep == TypeOK /\ Next => QueuesType'
<1> SUFFICES ASSUME TypeOK, Next PROVE QueuesType'
    OBVIOUS
<1> USE DEF TypeOK
<1>1. inFlight' \in [Priority -> SUBSET Keys]
  <2>0. inFlight \in [Priority -> SUBSET Keys]
      BY DEF QueuesType
  <2>1. CASE \/ Schedule \/ StartProcess \/ Poll \/ Load \/ LoadMalformed
             \/ CheckPending \/ TakePending
      BY <2>0, <2>1 DEF Schedule, StartProcess, Poll, Load, LoadMalformed, CheckPending, TakePending
  <2>2. CASE LoadMissing
      BY <2>0, <2>2 DEF LoadMissing
  <2>3. CASE TakeReleased \/ WriteBlock \/ Recycle
      BY <2>0, <2>3 DEF TakeReleased, WriteBlock, Recycle
  <2>4. CASE InlineServe \/ InlineMiss \/ QueueRequest
      BY <2>0, <2>4 DEF InlineServe, InlineMiss, QueueRequest
  <2>5. CASE ClearQueues \/ ReleaseResponses \/ ReleaseFails \/ ClearInFlight
      BY <2>0, <2>5 DEF ClearQueues, ReleaseResponses, ReleaseFails, ClearInFlight
  <2>6. CASE \E p \in Priority, k \in Keys : EnqueueRequest(p, k)
      BY <2>0, <2>6 DEF EnqueueRequest
  <2>7. CASE LoggedIn \/ LoggedOut \/ Initialize \/ CloseSession \/ ClientDrops \/ ChannelInactive
      BY <2>0, <2>7 DEF LoggedIn, LoggedOut, Initialize, CloseSession, ClientDrops, ChannelInactive
  <2> QED
      BY <2>1, <2>2, <2>3, <2>4, <2>5, <2>6, <2>7 DEF Next, ThreadStep, NettyStep, ClientStep
<1>2. queue' \in [Priority -> Seq(Keys)]
  <2>1. CASE QueueRequest
    <3>1. queue[nprio] \in Seq(Keys) /\ nkey \in Keys
        BY DEF QueuesType, EventLoopType
    <3>2. Append(queue[nprio], nkey) \in Seq(Keys)
        BY <3>1, AppendElements
    <3> QED BY <2>1, <3>2 DEF QueuesType, QueueRequest
  <2>2. CASE Poll
    <3>1. queue[tprio] \in Seq(Keys)
        BY DEF QueuesType, ThreadType
    <3>2. queue[tprio] # <<>> => Tail(queue[tprio]) \in Seq(Keys)
        BY <3>1, TailElements
    <3> QED BY <2>2, <3>2 DEF QueuesType, Poll
  <2>3. CASE ClearQueues
      BY <2>3 DEF ClearQueues
  <2>4. CASE UNCHANGED queue
      BY <2>4 DEF QueuesType
  <2> QED BY <2>1, <2>2, <2>3, <2>4
          DEF Next, NettyStep, ClientStep, ThreadStep, InlineServe, InlineMiss,
              ReleaseResponses, ReleaseFails, ClearInFlight, EnqueueRequest, LoggedIn,
              LoggedOut, Initialize, CloseSession, ClientDrops, ChannelInactive,
              Schedule, StartProcess, Load, LoadMissing, LoadMalformed, CheckPending,
              TakePending, TakeReleased, WriteBlock, Recycle
<1>3. pend' \in [Priority -> Seq(Responses)]
  <2>1. CASE Recycle
    <3>1. pend[tprio] \in Seq(Responses) /\ [key |-> tkey, sent |-> tsent] \in Responses
        BY DEF QueuesType, ThreadType, Responses
    <3>2. Append(pend[tprio], [key |-> tkey, sent |-> tsent]) \in Seq(Responses)
        BY <3>1, AppendElements
    <3> QED BY <2>1, <3>2 DEF QueuesType, Recycle
  <2>2. CASE TakePending \/ TakeReleased
    <3>1. pend[tprio] \in Seq(Responses)
        BY DEF QueuesType, ThreadType
    <3>2. pend[tprio] # <<>> => Tail(pend[tprio]) \in Seq(Responses)
        BY <3>1, TailElements
    <3> QED BY <2>2, <3>2 DEF QueuesType, TakePending, TakeReleased
  <2>3. CASE ReleaseResponses
      BY <2>3 DEF ReleaseResponses
  <2>4. CASE UNCHANGED pend
      BY <2>4 DEF QueuesType
  <2> QED BY <2>1, <2>2, <2>3, <2>4
          DEF Next, NettyStep, ClientStep, ThreadStep, InlineServe, InlineMiss,
              QueueRequest, ClearQueues, ReleaseFails, ClearInFlight, EnqueueRequest,
              LoggedIn, LoggedOut, Initialize, CloseSession, ClientDrops,
              ChannelInactive, Schedule, StartProcess, Poll, Load, LoadMissing,
              LoadMalformed, CheckPending, WriteBlock
<1> QED BY <1>1, <1>2, <1>3 DEF QueuesType

LEMMA ClientStepType == TypeOK /\ Next => ClientType'
<1> SUFFICES ASSUME TypeOK, Next PROVE ClientType'
    OBVIOUS
<1> USE DEF TypeOK
<1>1. CASE InlineServe
  <2>1. nprio \in Priority /\ nkey \in Keys /\ 0 \in Nat /\ Length[nkey] \in Nat
      BY SizeAssumption DEF EventLoopType
  <2>2. got' \in [Priority -> [Keys -> Nat]]
      BY <1>1, <2>1, ReceiveType DEF InlineServe, ClientType
  <2> QED BY <1>1, <2>2 DEF ClientType, InlineServe
<1>2. CASE WriteBlock
  <2>1. CASE Payload > 0 /\ open
    <3>1. tprio \in Priority /\ tkey \in Keys /\ tsent \in Nat /\ Payload \in Nat
        BY <2>1, PayloadBounds DEF ThreadType
    <3>2. got' \in [Priority -> [Keys -> Nat]]
        BY <1>2, <2>1, <3>1, ReceiveType DEF WriteBlock, ClientType
    <3>3. out' = [key |-> tkey, prio |-> tprio, size |-> Payload + Header,
                  last |-> tsent + Payload = Length[tkey]]
        BY <1>2, <2>1 DEF WriteBlock
    <3>4. /\ Payload + Header \in Nat
          /\ (tsent + Payload = Length[tkey]) \in BOOLEAN
        BY <3>1, SizeAssumption
    <3> QED BY <3>1, <3>2, <3>3, <3>4 DEF ClientType
  <2>2. CASE ~(Payload > 0 /\ open)
      BY <1>2, <2>2 DEF ClientType, WriteBlock
  <2> QED BY <2>1, <2>2
<1>3. CASE UNCHANGED <<got, out>>
    BY <1>3 DEF ClientType
<1> QED BY <1>1, <1>2, <1>3
        DEF Next, NettyStep, ClientStep, ThreadStep, InlineMiss, QueueRequest,
            ClearQueues, ReleaseResponses, ReleaseFails, ClearInFlight, EnqueueRequest,
            LoggedIn, LoggedOut, Initialize, CloseSession, ClientDrops,
            ChannelInactive, Schedule, StartProcess, Poll, Load, LoadMissing,
            LoadMalformed, CheckPending, TakePending, TakeReleased, Recycle

LEMMA TypeStutter == TypeOK /\ UNCHANGED vars => TypeOK'
<1>1. FlagsType /\ CountType /\ UNCHANGED vars => FlagsType' /\ CountType'
    BY DEF FlagsType, CountType, vars
<1>2. EventLoopType /\ ThreadType /\ UNCHANGED vars => EventLoopType' /\ ThreadType'
    BY DEF EventLoopType, ThreadType, vars
<1>3. QueuesType /\ UNCHANGED vars => QueuesType'
    BY DEF QueuesType, vars
<1>4. ClientType /\ UNCHANGED vars => ClientType'
    BY DEF ClientType, vars
<1> QED BY <1>1, <1>2, <1>3, <1>4 DEF TypeOK

\* The session's state keeps its types: queues of keys, responses with an
\* offset, in-flight sets of keys, thread positions inside process().
THEOREM TypeCorrect == Spec => []TypeOK
<1>1. TypeOK /\ [Next]_vars => TypeOK'
    BY FlagsStep, CountStep, EventLoopStep, ThreadTypeStep, QueuesStep, ClientStepType, TypeStutter
       DEF TypeOK
<1> QED BY TypeInit, <1>1, PTL DEF Spec

-----------------------------------------------------------------------------
(* close() and the event loop.                                             *)

\* close() closes the channel before it touches the queues, and a closed
\* channel never opens again.
LEMMA CloseOrderStep == CloseOrder /\ [Next]_vars => CloseOrder'
<1>1. CloseOrder /\ ThreadStep => CloseOrder'
    BY EventLoopFrame DEF CloseOrder, Shared, life, netty
<1>2. CloseOrder /\ (NettyStep \/ ClientStep) => CloseOrder'
    BY DEF CloseOrder, Decoding, life, netty,
            NettyStep, ClientStep, InlineServe, InlineMiss, QueueRequest,
            ClearQueues, ReleaseResponses, ReleaseFails, ClearInFlight, EnqueueRequest,
            LoggedIn, LoggedOut, Initialize, CloseSession, ClientDrops, ChannelInactive
<1>3. CloseOrder /\ UNCHANGED vars => CloseOrder'
    BY DEF CloseOrder, vars
<1> QED BY <1>1, <1>2, <1>3 DEF Next

\* enqueueRequest takes the inline path for the master table only.
LEMMA InlineMasterStep == InlineMaster /\ [Next]_vars => InlineMaster'
<1>1. InlineMaster /\ ThreadStep => InlineMaster'
    BY EventLoopFrame DEF InlineMaster, Shared, netty
<1>2. InlineMaster /\ (NettyStep \/ ClientStep) => InlineMaster'
    BY DEF InlineMaster, netty,
            NettyStep, ClientStep, InlineServe, InlineMiss, QueueRequest,
            ClearQueues, ReleaseResponses, ReleaseFails, ClearInFlight, EnqueueRequest,
            LoggedIn, LoggedOut, Initialize, CloseSession, ClientDrops, ChannelInactive
<1>3. InlineMaster /\ UNCHANGED vars => InlineMaster'
    BY DEF InlineMaster, vars
<1> QED BY <1>1, <1>2, <1>3 DEF Next

\* No handler runs after channelInactive, so none registers the session again.
LEMMA NoZombieStep == NoZombieSession /\ [Next]_vars => NoZombieSession'
<1>1. NoZombieSession /\ ThreadStep => NoZombieSession'
    BY EventLoopFrame DEF NoZombieSession, Shared, life
<1>2. NoZombieSession /\ (NettyStep \/ ClientStep) => NoZombieSession'
    BY DEF NoZombieSession, Decoding, life,
            NettyStep, ClientStep, InlineServe, InlineMiss, QueueRequest,
            ClearQueues, ReleaseResponses, ReleaseFails, ClearInFlight, EnqueueRequest,
            LoggedIn, LoggedOut, Initialize, CloseSession, ClientDrops, ChannelInactive
<1>3. NoZombieSession /\ UNCHANGED vars => NoZombieSession'
    BY DEF NoZombieSession, vars
<1> QED BY <1>1, <1>2, <1>3 DEF Next

-----------------------------------------------------------------------------
(* js5-thread: the byte budget, the offsets, the ways it ends.             *)

\* process() stops at its budget: a block is cut to what the rest pays for.
LEMMA BudgetStep == TypeOK /\ BudgetRespected /\ [Next]_vars => BudgetRespected'
<1> SUFFICES ASSUME TypeOK, BudgetRespected, [Next]_vars PROVE BudgetRespected'
    OBVIOUS
<1>1. CASE NettyStep \/ ClientStep
    BY <1>1, ThreadFrame DEF BudgetRespected, thread
<1>2. CASE WriteBlock
    BY <1>2, PayloadBounds, SizeAssumption
       DEF BudgetRespected, WriteBlock, TypeOK, ThreadType
<1>3. CASE UNCHANGED sent \/ sent' = 0
    BY <1>3, SizeAssumption DEF BudgetRespected
<1> QED BY <1>1, <1>2, <1>3
        DEF Next, ThreadStep, Schedule, StartProcess, Poll, Load, LoadMissing,
            LoadMalformed, CheckPending, TakePending, TakeReleased, Recycle, Return, vars

\* Every response in hand is behind its end, and recyclePendingResponse puts
\* back only those that have something left.
LEMMA OffsetsStep == TypeOK /\ Offsets /\ [Next]_vars => Offsets'
<1> SUFFICES ASSUME TypeOK, Offsets, [Next]_vars PROVE Offsets'
    OBVIOUS
<1> USE DEF TypeOK
<1>1. /\ tpc' = "load" => tsent' = 0
      /\ tpc' = "write" => tsent' < Length[tkey']
      /\ tpc' = "recycle" => tsent' <= Length[tkey']
  <2>1. CASE NettyStep \/ ClientStep
      BY <2>1, ThreadFrame DEF Offsets, thread
  <2>2. CASE TakePending
    <3>1. pend[tprio] \in Seq(Responses)
        BY DEF QueuesType, ThreadType
    <3>2. pend[tprio] # <<>> => /\ tprio \in Priority
                                /\ 1 \in DOMAIN pend[tprio]
                                /\ Head(pend[tprio]) = pend[tprio][1]
        BY <3>1, TailElements DEF ThreadType
    <3> QED BY <2>2, <3>2 DEF Offsets, TakePending
  <2>3. CASE WriteBlock
    <3>1. Length[tkey] \in Nat /\ tsent \in Nat
        BY SizeAssumption DEF ThreadType
    <3> QED BY <2>3, <3>1, PayloadBounds DEF Offsets, WriteBlock
  <2>4. CASE Load
    <3>1. Length[tkey] \in Nat \ {0}
        BY SizeAssumption DEF ThreadType
    <3> QED BY <2>4, <3>1 DEF Offsets, Load
  <2>5. CASE Schedule \/ StartProcess \/ Poll \/ LoadMissing \/ LoadMalformed
             \/ CheckPending \/ TakeReleased \/ Recycle
      BY <2>5 DEF Schedule, StartProcess, Poll, LoadMissing, LoadMalformed,
                  CheckPending, TakeReleased, Recycle, Return
  <2>6. CASE UNCHANGED vars
      BY <2>6 DEF Offsets, vars
  <2> QED BY <2>1, <2>2, <2>3, <2>4, <2>5, <2>6 DEF Next, ThreadStep
<1>2. ASSUME NEW p \in Priority, NEW i \in DOMAIN pend'[p]
      PROVE  pend'[p][i].sent < Length[pend'[p][i].key]
  <2>1. CASE Recycle /\ tsent < Length[tkey] /\ p = tprio
    <3> DEFINE r == [key |-> tkey, sent |-> tsent]
    <3>1. pend[p] \in Seq(Responses) /\ r \in Responses
        BY <2>1 DEF QueuesType, ThreadType, Responses
    <3>2. pend'[p] = Append(pend[p], r)
        BY <2>1 DEF Recycle, QueuesType, ThreadType
    <3>3. i = Len(pend[p]) + 1 \/ i \in DOMAIN pend[p]
        BY <3>1, <3>2, AppendElements
    <3>4. CASE i = Len(pend[p]) + 1
        BY <3>1, <3>2, <3>4, <2>1, AppendElements
    <3>5. CASE i \in DOMAIN pend[p]
        BY <3>1, <3>2, <3>5, AppendElements DEF Offsets
    <3> QED BY <3>3, <3>4, <3>5
  <2>2. CASE (TakePending \/ TakeReleased) /\ pend[tprio] # <<>> /\ p = tprio
    <3>1. pend[p] \in Seq(Responses)
        BY DEF QueuesType
    <3>2. pend'[p] = Tail(pend[p])
        BY <2>2 DEF TakePending, TakeReleased, QueuesType
    <3>3. i + 1 \in DOMAIN pend[p] /\ pend'[p][i] = pend[p][i + 1]
        BY <3>1, <3>2, <2>2, TailElements
    <3> QED BY <3>3 DEF Offsets
  <2>3. CASE pend'[p] = pend[p]
      BY <2>3 DEF Offsets
  <2>4. CASE pend'[p] = <<>>
      BY <2>4
  <2>5. (TakePending \/ TakeReleased \/ Recycle)
          => pend'[p] = pend[p] \/ (p = tprio /\ UNCHANGED tprio)
             \/ p = tprio
      BY DEF TakePending, TakeReleased, Recycle, QueuesType
  <2>6. ~(TakePending \/ TakeReleased \/ Recycle) => pend'[p] = pend[p] \/ pend'[p] = <<>>
      BY DEF Next, NettyStep, ClientStep, ThreadStep, InlineServe, InlineMiss,
             QueueRequest, ClearQueues, ReleaseResponses, ReleaseFails, ClearInFlight,
             EnqueueRequest, LoggedIn, LoggedOut, Initialize, CloseSession, ClientDrops,
             ChannelInactive, Schedule, StartProcess, Poll, Load, LoadMissing,
             LoadMalformed, CheckPending, WriteBlock, vars
  <2>7. /\ (TakePending /\ pend[tprio] = <<>>) => pend' = pend
        /\ TakeReleased => pend[tprio] # <<>>
        /\ (Recycle /\ ~(tsent < Length[tkey])) => pend' = pend
      BY DEF TakePending, TakeReleased, Recycle
  <2> QED BY <2>1, <2>2, <2>3, <2>4, <2>5, <2>6, <2>7
<1> QED BY <1>1, <1>2 DEF Offsets

\* Between isNotEmpty() and removeFirst() only close() can empty the queue.
LEMMA TakeFindsOneStep ==
    TypeOK /\ CloseOrder /\ TakeFindsOne /\ [Next]_vars => TakeFindsOne'
<1> SUFFICES ASSUME TypeOK, CloseOrder, TakeFindsOne, [Next]_vars PROVE TakeFindsOne'
    OBVIOUS
<1>1. CASE NettyStep \/ ClientStep
    BY <1>1, ThreadFrame
       DEF TakeFindsOne, CloseOrder, thread, life, netty,
            NettyStep, ClientStep, InlineServe, InlineMiss, QueueRequest,
            ClearQueues, ReleaseResponses, ReleaseFails, ClearInFlight, EnqueueRequest,
            LoggedIn, LoggedOut, Initialize, CloseSession, ClientDrops, ChannelInactive
<1>2. CASE ThreadStep
    BY <1>2
       DEF TakeFindsOne, Return, Shared, life,
            ThreadStep, Schedule, StartProcess, Poll, Load, LoadMissing, LoadMalformed,
            CheckPending, TakePending, TakeReleased, WriteBlock, Recycle
<1>3. CASE UNCHANGED vars
    BY <1>3 DEF TakeFindsOne, vars
<1> QED BY <1>1, <1>2, <1>3 DEF Next

LEMMA ThreadDiesStep ==
    CloseOrder /\ TakeFindsOne /\ ThreadDiesOnlyOnClose /\ [Next]_vars
        => ThreadDiesOnlyOnClose'
<1> SUFFICES ASSUME CloseOrder, TakeFindsOne, ThreadDiesOnlyOnClose, [Next]_vars
             PROVE  ThreadDiesOnlyOnClose'
    OBVIOUS
<1>1. CASE NettyStep \/ ClientStep
    BY <1>1, ThreadFrame
       DEF ThreadDiesOnlyOnClose, thread, life,
            NettyStep, ClientStep, InlineServe, InlineMiss, QueueRequest,
            ClearQueues, ReleaseResponses, ReleaseFails, ClearInFlight, EnqueueRequest,
            LoggedIn, LoggedOut, Initialize, CloseSession, ClientDrops, ChannelInactive
<1>2. CASE ThreadStep
    BY <1>2
       DEF ThreadDiesOnlyOnClose, TakeFindsOne, CloseOrder, Return, Shared, life,
            ThreadStep, Schedule, StartProcess, Poll, Load, LoadMissing, LoadMalformed,
            CheckPending, TakePending, TakeReleased, WriteBlock, Recycle
<1>3. CASE UNCHANGED vars
    BY <1>3 DEF ThreadDiesOnlyOnClose, vars
<1> QED BY <1>1, <1>2, <1>3 DEF Next

-----------------------------------------------------------------------------
(***************************************************************************)
(* The bookkeeping of requests: which keys are in flight, where their      *)
(* requests are, and what the client has assembled.                        *)
(***************************************************************************)
(* Membership and uniqueness in the queues.                                *)

Has(s, k)     == \E i \in DOMAIN s : s[i] = k
Once(s, k)    == \A i, j \in DOMAIN s : s[i] = k /\ s[j] = k => i = j
Answers(s, k) == \E i \in DOMAIN s : s[i].key = k
OneAnswer(s, k) == \A i, j \in DOMAIN s : s[i].key = k /\ s[j].key = k => i = j

LEMMA QueuedIsHas ==
    ASSUME NEW p, NEW k
    PROVE  /\ Queued(p, k) <=> Has(queue[p], k)
           /\ Pending(p, k) <=> Answers(pend[p], k)
    BY DEF Queued, Pending, Has, Answers

LEMMA AppendHas ==
    ASSUME NEW S, NEW s \in Seq(S), NEW e \in S, NEW k
    PROVE  /\ Has(Append(s, e), k) <=> Has(s, k) \/ k = e
           /\ Once(s, k) /\ (k = e => ~Has(s, k)) => Once(Append(s, e), k)
    BY AppendElements DEF Has, Once

LEMMA TailHas ==
    ASSUME NEW S, NEW s \in Seq(S), s # <<>>, NEW k
    PROVE  /\ Has(s, k) <=> Has(Tail(s), k) \/ k = Head(s)
           /\ Once(s, k) => Once(Tail(s), k)
           /\ Once(s, k) /\ k = Head(s) => ~Has(Tail(s), k)
<1>1. /\ Head(s) = s[1]
      /\ Len(s) \in Nat /\ Len(s) >= 1
      /\ DOMAIN s = 1..Len(s) /\ DOMAIN Tail(s) = 1..(Len(s) - 1)
      /\ \A i \in 1..(Len(s) - 1) : Tail(s)[i] = s[i + 1]
    BY TailElements
<1>2. \A i \in DOMAIN s : i = 1 \/ (i - 1 \in DOMAIN Tail(s) /\ Tail(s)[i - 1] = s[i])
    BY <1>1
<1>3. \A i \in DOMAIN Tail(s) : i + 1 \in DOMAIN s /\ i + 1 # 1 /\ Tail(s)[i] = s[i + 1]
    BY <1>1
<1>4. Has(s, k) <=> Has(Tail(s), k) \/ k = Head(s)
  <2>1. ASSUME Has(s, k) PROVE Has(Tail(s), k) \/ k = Head(s)
      BY <1>1, <1>2, <2>1 DEF Has
  <2>2. ASSUME Has(Tail(s), k) PROVE Has(s, k)
      BY <1>3, <2>2 DEF Has
  <2>3. Has(s, Head(s))
      BY <1>1 DEF Has
  <2> QED
      BY <2>1, <2>2, <2>3
<1>5. Once(s, k) => Once(Tail(s), k)
  <2> SUFFICES ASSUME Once(s, k), NEW i \in DOMAIN Tail(s), NEW j \in DOMAIN Tail(s),
                      Tail(s)[i] = k, Tail(s)[j] = k
               PROVE  i = j
      BY DEF Once
  <2>1. i + 1 = j + 1
      BY <1>3 DEF Once
  <2> QED BY <2>1, <1>1
<1>6. Once(s, k) /\ k = Head(s) => ~Has(Tail(s), k)
    BY <1>1, <1>3 DEF Once, Has
<1> QED BY <1>4, <1>5, <1>6

LEMMA AppendAnswers ==
    ASSUME NEW s \in Seq(Responses), NEW e \in Responses, NEW k
    PROVE  /\ Answers(Append(s, e), k) <=> Answers(s, k) \/ k = e.key
           /\ OneAnswer(s, k) /\ (k = e.key => ~Answers(s, k))
                => OneAnswer(Append(s, e), k)
    BY AppendElements DEF Answers, OneAnswer

LEMMA TailAnswers ==
    ASSUME NEW s \in Seq(Responses), s # <<>>, NEW k
    PROVE  /\ Answers(s, k) <=> Answers(Tail(s), k) \/ k = Head(s).key
           /\ OneAnswer(s, k) => OneAnswer(Tail(s), k)
           /\ OneAnswer(s, k) /\ k = Head(s).key => ~Answers(Tail(s), k)
<1>1. /\ Head(s) = s[1]
      /\ Len(s) \in Nat /\ Len(s) >= 1
      /\ DOMAIN s = 1..Len(s) /\ DOMAIN Tail(s) = 1..(Len(s) - 1)
      /\ \A i \in 1..(Len(s) - 1) : Tail(s)[i] = s[i + 1]
    BY TailElements
<1>2. \A i \in DOMAIN s : i = 1 \/ (i - 1 \in DOMAIN Tail(s) /\ Tail(s)[i - 1] = s[i])
    BY <1>1
<1>3. \A i \in DOMAIN Tail(s) : i + 1 \in DOMAIN s /\ i + 1 # 1 /\ Tail(s)[i] = s[i + 1]
    BY <1>1
<1>4. Answers(s, k) <=> Answers(Tail(s), k) \/ k = Head(s).key
  <2>1. ASSUME Answers(s, k), k # Head(s).key PROVE Answers(Tail(s), k)
    <3>1. PICK i \in DOMAIN s : s[i].key = k
        BY <2>1 DEF Answers
    <3>2. i - 1 \in DOMAIN Tail(s) /\ Tail(s)[i - 1] = s[i]
        BY <1>1, <1>2, <2>1, <3>1
    <3> QED BY <3>1, <3>2 DEF Answers
  <2>2. Answers(Tail(s), k) => Answers(s, k)
      BY <1>3 DEF Answers
  <2>3. 1 \in DOMAIN s
      BY <1>1
  <2>4. k = Head(s).key => Answers(s, k)
      BY <1>1, <2>3 DEF Answers
  <2> QED BY <2>1, <2>2, <2>4
<1>5. OneAnswer(s, k) => OneAnswer(Tail(s), k)
  <2> SUFFICES ASSUME OneAnswer(s, k), NEW i \in DOMAIN Tail(s), NEW j \in DOMAIN Tail(s),
                      Tail(s)[i].key = k, Tail(s)[j].key = k
               PROVE  i = j
      BY DEF OneAnswer
  <2>1. i + 1 = j + 1
      BY <1>3 DEF OneAnswer
  <2> QED BY <2>1, <1>1
<1>6. OneAnswer(s, k) /\ k = Head(s).key => ~Answers(Tail(s), k)
    BY <1>1, <1>3 DEF OneAnswer, Answers
<1> QED BY <1>4, <1>5, <1>6

-----------------------------------------------------------------------------
(* At most one response of a plain key.                                    *)

\* A closed channel never opens again.
LEMMA OpenBefore == [Next]_vars /\ open' => open
    BY EventLoopFrame
       DEF Next, Shared, life, vars, NettyStep, ClientStep, InlineServe, InlineMiss,
           QueueRequest, ClearQueues, ReleaseResponses, ReleaseFails, ClearInFlight,
           EnqueueRequest, LoggedIn, LoggedOut, Initialize, CloseSession, ClientDrops,
           ChannelInactive

\* OneResponse in terms of the two sequences of a priority.
LEMMA OneResponseForm ==
    ASSUME NEW p, NEW k
    PROVE  OneResponse(p, k) <=>
             /\ Active(p, k) => k \in inFlight[p]
             /\ Entering(p, k) => ~Queued(p, k) /\ ~InHand(p, k) /\ ~Pending(p, k)
             /\ Queued(p, k) => ~InHand(p, k) /\ ~Pending(p, k)
             /\ InHand(p, k) => ~Pending(p, k)
             /\ Once(queue[p], k) /\ OneAnswer(pend[p], k)
    BY DEF OneResponse, Once, OneAnswer

\* What one step changes for priority p and plain key k, while the channel
\* stays open.
LEMMA OneResponseStep ==
    ASSUME TypeOK, CloseOrder, InlineMaster, OneResponsePerKey, [Next]_vars, open'
    PROVE  OneResponsePerKey'
<1> SUFFICES ASSUME NEW p \in Priority, NEW k \in Plain
             PROVE  OneResponse(p, k)'
    BY DEF OneResponsePerKey
<1> USE DEF TypeOK, QueuesType
<1>open. open
    BY OpenBefore
<1>one. /\ Active(p, k) => k \in inFlight[p]
        /\ Entering(p, k) => ~Queued(p, k) /\ ~InHand(p, k) /\ ~Pending(p, k)
        /\ Queued(p, k) => ~InHand(p, k) /\ ~Pending(p, k)
        /\ InHand(p, k) => ~Pending(p, k)
        /\ Once(queue[p], k) /\ OneAnswer(pend[p], k)
    BY <1>open, OneResponseForm DEF OneResponsePerKey
<1>key. k \in Keys /\ k # Master /\ k \notin RefTables
    BY DEF Plain
<1> DEFINE Goal ==
        /\ Active(p, k)' => k \in inFlight'[p]
        /\ Entering(p, k)' => ~Queued(p, k)' /\ ~InHand(p, k)' /\ ~Pending(p, k)'
        /\ Queued(p, k)' => ~InHand(p, k)' /\ ~Pending(p, k)'
        /\ InHand(p, k)' => ~Pending(p, k)'
        /\ Once(queue'[p], k) /\ OneAnswer(pend'[p], k)
<1>goal. Goal => OneResponse(p, k)'
    BY DEF OneResponse, Once, OneAnswer
<1>1. ASSUME NEW q \in Priority, NEW x \in Keys, EnqueueRequest(q, x) PROVE Goal
  <2>1. /\ (Queued(p, k)' <=> Queued(p, k)) /\ (Pending(p, k)' <=> Pending(p, k))
        /\ InHand(p, k)' <=> InHand(p, k)
        /\ queue' = queue /\ pend' = pend
      BY <1>1 DEF EnqueueRequest, Queued, Pending, InHand, thread
  <2>2. Entering(p, k)' => p = q /\ k = x
      BY <1>1 DEF EnqueueRequest, Entering
  <2>3. p = q /\ k = x => k \notin inFlight[p]
      BY <1>1, <1>key DEF EnqueueRequest, AllowDuplicate
  <2>4. /\ k \in inFlight[p] => k \in inFlight'[p]
        /\ p = q /\ k = x => k \in inFlight'[p]
      BY <1>1 DEF EnqueueRequest
  <2> QED BY <1>one, <2>1, <2>2, <2>3, <2>4 DEF Active
<1>2. ASSUME InlineServe \/ InlineMiss PROVE Goal
  <2>1. nkey = Master /\ nprio \in Priority
      BY <1>2 DEF InlineServe, InlineMiss, InlineMaster, EventLoopType
  <2>2. /\ (Queued(p, k)' <=> Queued(p, k)) /\ (Pending(p, k)' <=> Pending(p, k))
        /\ InHand(p, k)' <=> InHand(p, k)
        /\ queue' = queue /\ pend' = pend
      BY <1>2 DEF InlineServe, InlineMiss, Queued, Pending, InHand, thread
  <2>3. ~Entering(p, k)'
      BY <1>2, <2>1, <1>key DEF InlineServe, InlineMiss, Entering
  <2>4. k \in inFlight'[p] <=> k \in inFlight[p]
      BY <1>2, <2>1, <1>key DEF InlineServe, InlineMiss
  <2> QED BY <1>one, <2>2, <2>3, <2>4 DEF Active
<1>3. ASSUME QueueRequest PROVE Goal
  <2>1. /\ (Pending(p, k)' <=> Pending(p, k)) /\ (InHand(p, k)' <=> InHand(p, k))
        /\ pend' = pend /\ inFlight' = inFlight
      BY <1>3 DEF QueueRequest, Pending, InHand, thread
  <2>2. ~Entering(p, k)'
      BY <1>3 DEF QueueRequest, Entering
  <2>3. CASE p = nprio
    <3>1. queue[p] \in Seq(Keys) /\ nkey \in Keys
        BY DEF EventLoopType
    <3>2. queue'[p] = Append(queue[p], nkey)
        BY <1>3, <2>3 DEF QueueRequest
    <3>3. Entering(p, k) <=> k = nkey
        BY <1>3, <2>3 DEF QueueRequest, Entering
    <3>4. /\ Has(queue'[p], k) <=> Has(queue[p], k) \/ k = nkey
          /\ Once(queue[p], k) /\ (k = nkey => ~Has(queue[p], k)) => Once(queue'[p], k)
        BY <3>1, <3>2, AppendHas
    <3>5. Queued(p, k)' <=> Has(queue'[p], k)
        BY DEF Queued, Has
    <3> QED BY <1>one, <2>1, <2>2, <3>3, <3>4, <3>5, QueuedIsHas DEF Active
  <2>4. CASE p # nprio
    <3>1. queue'[p] = queue[p]
        BY <1>3, <2>4 DEF QueueRequest
    <3>2. Queued(p, k)' <=> Queued(p, k)
        BY <3>1 DEF Queued
    <3> QED BY <1>one, <2>1, <2>2, <3>1, <3>2 DEF Active
  <2> QED BY <2>3, <2>4
<1>4. ASSUME Poll PROVE Goal
  <2>1. /\ (Pending(p, k)' <=> Pending(p, k)) /\ pend' = pend /\ inFlight' = inFlight
        /\ Entering(p, k)' <=> Entering(p, k)
      BY <1>4 DEF Poll, Pending, Entering, Shared, netty
  <2>2. ~InHand(p, k)
      BY <1>4 DEF Poll, InHand
  <2>3. CASE p = tprio /\ queue[tprio] # <<>>
    <3>1. queue[p] \in Seq(Keys) /\ queue[p] # <<>>
        BY <2>3
    <3>2. queue'[p] = Tail(queue[p]) /\ (InHand(p, k)' <=> k = Head(queue[p]))
        BY <1>4, <2>3 DEF Poll, InHand
    <3>3. /\ Has(queue[p], k) <=> Has(queue'[p], k) \/ k = Head(queue[p])
          /\ Once(queue[p], k) => Once(queue'[p], k)
          /\ Once(queue[p], k) /\ k = Head(queue[p]) => ~Has(queue'[p], k)
        BY <3>1, <3>2, TailHas
    <3>4. Queued(p, k)' <=> Has(queue'[p], k)
        BY DEF Queued, Has
    <3> QED BY <1>one, <2>1, <2>2, <3>2, <3>3, <3>4, QueuedIsHas DEF Active
  <2>4. CASE ~(p = tprio /\ queue[tprio] # <<>>)
    <3>1. queue'[p] = queue[p] /\ ~InHand(p, k)'
        BY <1>4, <2>4 DEF Poll, InHand
    <3>2. Queued(p, k)' <=> Queued(p, k)
        BY <3>1 DEF Queued
    <3> QED BY <1>one, <2>1, <3>1, <3>2 DEF Active
  <2> QED BY <2>3, <2>4
<1>5. ASSUME LoadMissing PROVE Goal
  <2>1. /\ (Queued(p, k)' <=> Queued(p, k)) /\ (Pending(p, k)' <=> Pending(p, k))
        /\ Entering(p, k)' <=> Entering(p, k)
        /\ queue' = queue /\ pend' = pend
      BY <1>5 DEF LoadMissing, Queued, Pending, Entering, Shared, netty
  <2>2. ~InHand(p, k)'
      BY <1>5 DEF LoadMissing, InHand
  <2>3. CASE p = tprio /\ k = tkey
    <3>1. InHand(p, k)
        BY <1>5, <2>3 DEF LoadMissing, InHand
    <3> QED BY <1>one, <2>1, <2>2, <3>1 DEF Active
  <2>4. CASE ~(p = tprio /\ k = tkey)
    <3>1. k \in inFlight[p] => k \in inFlight'[p]
        BY <1>5, <2>4 DEF LoadMissing
    <3> QED BY <1>one, <2>1, <2>2, <3>1 DEF Active
  <2> QED BY <2>3, <2>4
<1>6. ASSUME TakePending \/ TakeReleased PROVE Goal
  <2>1. /\ (Queued(p, k)' <=> Queued(p, k)) /\ (Entering(p, k)' <=> Entering(p, k))
        /\ queue' = queue /\ inFlight' = inFlight
      BY <1>6 DEF TakePending, TakeReleased, Queued, Entering, Shared, netty
  <2>2. ~InHand(p, k)
      BY <1>6 DEF TakePending, TakeReleased, InHand
  <2>3. CASE p = tprio /\ pend[tprio] # <<>>
    <3>1. pend[p] \in Seq(Responses) /\ pend[p] # <<>>
        BY <2>3
    <3>2. pend'[p] = Tail(pend[p]) /\ (InHand(p, k)' => k = Head(pend[p]).key)
        BY <1>6, <2>3 DEF TakePending, TakeReleased, InHand
    <3>3. /\ Answers(pend[p], k) <=> Answers(pend'[p], k) \/ k = Head(pend[p]).key
          /\ OneAnswer(pend[p], k) => OneAnswer(pend'[p], k)
          /\ OneAnswer(pend[p], k) /\ k = Head(pend[p]).key => ~Answers(pend'[p], k)
        BY ONLY <3>1, <3>2, TailAnswers
    <3>4. Pending(p, k)' <=> Answers(pend'[p], k)
        BY DEF Pending, Answers
    <3> QED BY <1>one, <2>1, <2>2, <3>2, <3>3, <3>4, QueuedIsHas DEF Active
  <2>4. CASE ~(p = tprio /\ pend[tprio] # <<>>)
    <3>1. pend'[p] = pend[p] /\ ~InHand(p, k)'
        BY <1>6, <2>4 DEF TakePending, TakeReleased, InHand
    <3>2. Pending(p, k)' <=> Pending(p, k)
        BY <3>1 DEF Pending
    <3> QED BY <1>one, <2>1, <3>1, <3>2 DEF Active
  <2> QED BY <2>3, <2>4
<1>7. ASSUME Recycle PROVE Goal
  <2>1. /\ (Queued(p, k)' <=> Queued(p, k)) /\ (Entering(p, k)' <=> Entering(p, k))
        /\ queue' = queue
      BY <1>7 DEF Recycle, Queued, Entering, Shared, netty
  <2>2. ~InHand(p, k)' /\ (InHand(p, k) <=> p = tprio /\ k = tkey)
      BY <1>7 DEF Recycle, Return, InHand
  <2>3. CASE p = tprio /\ tsent < Length[tkey]
    <3> DEFINE r == [key |-> tkey, sent |-> tsent]
    <3>1. pend[p] \in Seq(Responses) /\ r \in Responses /\ r.key = tkey
        BY DEF ThreadType, Responses
    <3>2. pend'[p] = Append(pend[p], r) /\ inFlight' = inFlight
        BY <1>7, <2>3 DEF Recycle
    <3> HIDE DEF r
    <3>3. /\ Answers(pend'[p], k) <=> Answers(pend[p], k) \/ k = tkey
          /\ OneAnswer(pend[p], k) /\ (k = tkey => ~Answers(pend[p], k))
               => OneAnswer(pend'[p], k)
        BY <3>1, <3>2, AppendAnswers
    <3>4. Pending(p, k)' <=> Answers(pend'[p], k)
        BY DEF Pending, Answers
    <3> QED BY <1>one, <2>1, <2>2, <2>3, <3>2, <3>3, <3>4, QueuedIsHas DEF Active
  <2>4. CASE p # tprio \/ ~(tsent < Length[tkey])
    <3>1. /\ pend'[p] = pend[p]
          /\ ~(p = tprio /\ k = tkey) /\ k \in inFlight[p] => k \in inFlight'[p]
        BY <1>7, <2>4 DEF Recycle
    <3>2. Pending(p, k)' <=> Pending(p, k)
        BY <3>1 DEF Pending
    <3> QED BY <1>one, <2>1, <2>2, <3>1, <3>2 DEF Active
  <2> QED BY <2>3, <2>4
<1>8. ASSUME Load \/ LoadMalformed \/ WriteBlock \/ Schedule \/ StartProcess
           \/ CheckPending
      PROVE  Goal
  <2>1. /\ (Queued(p, k)' <=> Queued(p, k)) /\ (Pending(p, k)' <=> Pending(p, k))
        /\ Entering(p, k)' <=> Entering(p, k)
        /\ queue' = queue /\ pend' = pend /\ inFlight' = inFlight
      BY <1>8 DEF Load, LoadMalformed, WriteBlock, Schedule, StartProcess,
                  CheckPending, Queued, Pending, Entering, Shared, netty
  <2>2. InHand(p, k)' => InHand(p, k)
      BY <1>8 DEF Load, LoadMalformed, WriteBlock, Schedule, StartProcess,
                  CheckPending, Return, InHand
  <2> QED BY <1>one, <2>1, <2>2 DEF Active
<1>9. ASSUME LoggedIn \/ LoggedOut \/ Initialize \/ ChannelInactive \/ UNCHANGED vars
      PROVE  Goal
  <2>1. /\ (Queued(p, k)' <=> Queued(p, k)) /\ (Pending(p, k)' <=> Pending(p, k))
        /\ (Entering(p, k)' <=> Entering(p, k)) /\ (InHand(p, k)' <=> InHand(p, k))
        /\ queue' = queue /\ pend' = pend /\ inFlight' = inFlight
      BY <1>9 DEF LoggedIn, LoggedOut, Initialize, ChannelInactive, Queued, Pending,
                  Entering, InHand, netty, thread, vars
  <2> QED BY <1>one, <2>1 DEF Active
<1>10. ~(CloseSession \/ ClientDrops \/ ClearQueues \/ ReleaseResponses
         \/ ReleaseFails \/ ClearInFlight)
    BY <1>open DEF CloseOrder, CloseSession, ClientDrops, ClearQueues,
                   ReleaseResponses, ReleaseFails, ClearInFlight
<1> HIDE DEF Goal
<1> QED BY <1>goal, <1>1, <1>2, <1>3, <1>4, <1>5, <1>6, <1>7, <1>8, <1>9, <1>10
        DEF Next, NettyStep, ClientStep, ThreadStep

-----------------------------------------------------------------------------
(* No key stays in flight without a request.                               *)

\* js5-thread never comes back once an exception has ended it.
LEMMA DeadStays == tpc = "dead" /\ [Next]_vars => tpc' = "dead"
<1>1. CASE NettyStep \/ ClientStep
    BY <1>1, ThreadFrame DEF thread
<1>2. CASE ThreadStep
    BY <1>2 DEF ThreadStep, Schedule, StartProcess, Poll, Load, LoadMissing,
                LoadMalformed, CheckPending, TakePending, TakeReleased, WriteBlock, Recycle
<1> QED BY <1>1, <1>2 DEF Next, vars

LEMMA NoStuckStep ==
    ASSUME TypeOK, CloseOrder, InlineMaster, NoStuckKey, [Next]_vars,
           open', tpc' # "dead"
    PROVE  NoStuckKey'
<1> SUFFICES ASSUME NEW p \in Priority, NEW k \in inFlight'[p]
             PROVE  Active(p, k)'
    BY DEF NoStuckKey
<1> USE DEF TypeOK, QueuesType
<1>open. open /\ tpc # "dead"
    BY OpenBefore, DeadStays
<1>was. k \in inFlight[p] =>
          Entering(p, k) \/ Queued(p, k) \/ InHand(p, k) \/ Pending(p, k)
    BY <1>open DEF NoStuckKey, Active
<1> DEFINE Goal == Entering(p, k)' \/ Queued(p, k)' \/ InHand(p, k)' \/ Pending(p, k)'
<1>goal. Goal => Active(p, k)'
    BY DEF Active
<1>1. ASSUME NEW q \in Priority, NEW x \in Keys, EnqueueRequest(q, x) PROVE Goal
  <2>1. /\ (Queued(p, k)' <=> Queued(p, k)) /\ (Pending(p, k)' <=> Pending(p, k))
        /\ (InHand(p, k)' <=> InHand(p, k)) /\ ~Entering(p, k)
      BY <1>1 DEF EnqueueRequest, Decoding, Queued, Pending, InHand, Entering, thread
  <2>2. p = q /\ k = x => Entering(p, k)'
      BY <1>1 DEF EnqueueRequest, Entering
  <2>3. ~(p = q /\ k = x) => k \in inFlight[p]
      BY <1>1 DEF EnqueueRequest
  <2> QED BY <1>was, <2>1, <2>2, <2>3
<1>2. ASSUME InlineServe \/ InlineMiss PROVE Goal
  <2>1. /\ (Queued(p, k)' <=> Queued(p, k)) /\ (Pending(p, k)' <=> Pending(p, k))
        /\ (InHand(p, k)' <=> InHand(p, k))
      BY <1>2 DEF InlineServe, InlineMiss, Queued, Pending, InHand, thread
  <2>2. ~(p = nprio /\ k = nkey) /\ k \in inFlight[p]
      BY <1>2 DEF InlineServe, InlineMiss, EventLoopType
  <2>3. ~Entering(p, k)
      BY <2>2 DEF Entering
  <2> QED BY <1>was, <2>1, <2>2, <2>3
<1>3. ASSUME QueueRequest PROVE Goal
  <2>1. /\ (Pending(p, k)' <=> Pending(p, k)) /\ (InHand(p, k)' <=> InHand(p, k))
        /\ inFlight' = inFlight
      BY <1>3 DEF QueueRequest, Pending, InHand, thread
  <2>2. Entering(p, k) \/ Queued(p, k) => Queued(p, k)'
    <3>1. CASE p = nprio
      <4>1. queue[p] \in Seq(Keys) /\ nkey \in Keys
          BY DEF EventLoopType
      <4>2. queue'[p] = Append(queue[p], nkey)
          BY <1>3, <3>1 DEF QueueRequest
      <4>3. Has(queue'[p], k) <=> Has(queue[p], k) \/ k = nkey
          BY <4>1, <4>2, AppendHas
      <4>4. (Queued(p, k)' <=> Has(queue'[p], k)) /\ (Entering(p, k) => k = nkey)
          BY DEF Queued, Has, Entering
      <4> QED BY <4>3, <4>4, QueuedIsHas
    <3>2. CASE p # nprio
      <4>1. queue'[p] = queue[p] /\ ~Entering(p, k)
          BY <1>3, <3>2 DEF QueueRequest, Entering
      <4> QED BY <4>1 DEF Queued
    <3> QED BY <3>1, <3>2
  <2> QED BY <1>was, <2>1, <2>2
<1>4. ASSUME Poll PROVE Goal
  <2>1. /\ (Pending(p, k)' <=> Pending(p, k)) /\ (Entering(p, k)' <=> Entering(p, k))
        /\ inFlight' = inFlight /\ ~InHand(p, k)
      BY <1>4 DEF Poll, Pending, Entering, InHand, Shared, netty
  <2>2. Queued(p, k) => Queued(p, k)' \/ InHand(p, k)'
    <3>1. CASE p = tprio /\ queue[tprio] # <<>>
      <4>1. queue[p] \in Seq(Keys) /\ queue[p] # <<>>
          BY <3>1
      <4>2. queue'[p] = Tail(queue[p]) /\ (InHand(p, k)' <=> k = Head(queue[p]))
          BY <1>4, <3>1 DEF Poll, InHand
      <4>3. Has(queue[p], k) <=> Has(queue'[p], k) \/ k = Head(queue[p])
          BY <4>1, <4>2, TailHas
      <4>4. Queued(p, k)' <=> Has(queue'[p], k)
          BY DEF Queued, Has
      <4> QED BY <4>2, <4>3, <4>4, QueuedIsHas
    <3>2. CASE ~(p = tprio /\ queue[tprio] # <<>>)
      <4>1. queue'[p] = queue[p]
          BY <1>4, <3>2 DEF Poll
      <4> QED BY <4>1 DEF Queued
    <3> QED BY <3>1, <3>2
  <2> QED BY <1>was, <2>1, <2>2
<1>5. ASSUME LoadMissing PROVE Goal
  <2>1. /\ (Queued(p, k)' <=> Queued(p, k)) /\ (Pending(p, k)' <=> Pending(p, k))
        /\ (Entering(p, k)' <=> Entering(p, k))
      BY <1>5 DEF LoadMissing, Queued, Pending, Entering, Shared, netty
  <2>2. ~(p = tprio /\ k = tkey) /\ k \in inFlight[p]
      BY <1>5 DEF LoadMissing, ThreadType
  <2>3. ~InHand(p, k)
      BY <2>2 DEF InHand
  <2> QED BY <1>was, <2>1, <2>2, <2>3
<1>6. ASSUME TakePending PROVE Goal
  <2>1. /\ (Queued(p, k)' <=> Queued(p, k)) /\ (Entering(p, k)' <=> Entering(p, k))
        /\ inFlight' = inFlight /\ ~InHand(p, k) /\ pend[tprio] # <<>>
      BY <1>6 DEF TakePending, Queued, Entering, InHand, Shared, netty
  <2>2. Pending(p, k) => Pending(p, k)' \/ InHand(p, k)'
    <3>1. CASE p = tprio
      <4>1. pend[p] \in Seq(Responses) /\ pend[p] # <<>>
          BY <2>1, <3>1
      <4>2. pend'[p] = Tail(pend[p]) /\ (k = Head(pend[p]).key => InHand(p, k)')
          BY <1>6, <2>1, <3>1 DEF TakePending, InHand
      <4>3. Answers(pend[p], k) <=> Answers(pend'[p], k) \/ k = Head(pend[p]).key
          BY <4>1, <4>2, TailAnswers
      <4>4. Pending(p, k)' <=> Answers(pend'[p], k)
          BY DEF Pending, Answers
      <4> QED BY <4>2, <4>3, <4>4, QueuedIsHas
    <3>2. CASE p # tprio
      <4>1. pend'[p] = pend[p]
          BY <1>6, <3>2 DEF TakePending
      <4> QED BY <4>1 DEF Pending
    <3> QED BY <3>1, <3>2
  <2> QED BY <1>was, <2>1, <2>2
<1>7. ASSUME Recycle PROVE Goal
  <2>1. /\ (Queued(p, k)' <=> Queued(p, k)) /\ (Entering(p, k)' <=> Entering(p, k))
        /\ k \in inFlight[p]
      BY <1>7 DEF Recycle, Queued, Entering, Shared, netty
  <2>2. InHand(p, k) => p = tprio /\ k = tkey
      BY DEF InHand
  <2>3. CASE p = tprio /\ tsent < Length[tkey]
    <3> DEFINE r == [key |-> tkey, sent |-> tsent]
    <3>1. pend[p] \in Seq(Responses) /\ r \in Responses /\ r.key = tkey
        BY DEF ThreadType, Responses
    <3>2. pend'[p] = Append(pend[p], r)
        BY <1>7, <2>3 DEF Recycle
    <3> HIDE DEF r
    <3>3. Answers(pend'[p], k) <=> Answers(pend[p], k) \/ k = tkey
        BY <3>1, <3>2, AppendAnswers
    <3>4. Pending(p, k)' <=> Answers(pend'[p], k)
        BY DEF Pending, Answers
    <3> QED BY <1>was, <2>1, <2>2, <3>3, <3>4, QueuedIsHas
  <2>4. CASE p # tprio \/ ~(tsent < Length[tkey])
    <3>1. pend'[p] = pend[p] /\ ~(p = tprio /\ k = tkey)
        BY <1>7, <2>4 DEF Recycle, ThreadType
    <3>2. Pending(p, k)' <=> Pending(p, k)
        BY <3>1 DEF Pending
    <3> QED BY <1>was, <2>1, <2>2, <3>1, <3>2
  <2> QED BY <2>3, <2>4
<1>8. ASSUME Load \/ WriteBlock \/ Schedule \/ StartProcess \/ CheckPending
             \/ LoggedIn \/ LoggedOut \/ Initialize \/ ChannelInactive \/ UNCHANGED vars
      PROVE  Goal
  <2>1. /\ (Queued(p, k)' <=> Queued(p, k)) /\ (Pending(p, k)' <=> Pending(p, k))
        /\ (Entering(p, k)' <=> Entering(p, k)) /\ inFlight' = inFlight
      BY <1>8 DEF Load, WriteBlock, Schedule, StartProcess, CheckPending, LoggedIn,
                  LoggedOut, Initialize, ChannelInactive, Queued, Pending, Entering,
                  Shared, netty, vars
  <2>2. InHand(p, k) => InHand(p, k)'
      BY <1>8 DEF Load, WriteBlock, Schedule, StartProcess, CheckPending, LoggedIn,
                  LoggedOut, Initialize, ChannelInactive, InHand, thread, vars
  <2> QED BY <1>was, <2>1, <2>2
<1>9. ~(CloseSession \/ ClientDrops \/ ClearQueues \/ ReleaseResponses
        \/ ReleaseFails \/ ClearInFlight \/ LoadMalformed \/ TakeReleased)
    BY <1>open DEF CloseOrder, CloseSession, ClientDrops, ClearQueues,
                   ReleaseResponses, ReleaseFails, ClearInFlight, LoadMalformed,
                   TakeReleased
<1> HIDE DEF Goal
<1> QED BY <1>goal, <1>1, <1>2, <1>3, <1>4, <1>5, <1>6, <1>7, <1>8, <1>9
        DEF Next, NettyStep, ClientStep, ThreadStep

-----------------------------------------------------------------------------
(* The client assembles each plain key in order.                           *)

\* Every pending response of k has sent exactly v bytes.
AllSent(s, k, v) == \A i \in DOMAIN s : s[i].key = k => v = s[i].sent

LEMMA AppendSent ==
    ASSUME NEW s \in Seq(Responses), NEW e \in Responses, NEW k, NEW v,
           AllSent(s, k, v), k = e.key => v = e.sent
    PROVE  AllSent(Append(s, e), k, v)
    BY AppendElements DEF AllSent

LEMMA TailSent ==
    ASSUME NEW s \in Seq(Responses), s # <<>>, NEW k, NEW v, AllSent(s, k, v)
    PROVE  /\ AllSent(Tail(s), k, v)
           /\ k = Head(s).key => v = Head(s).sent
<1>1. /\ Head(s) = s[1] /\ 1 \in DOMAIN s
      /\ \A i \in DOMAIN Tail(s) : i + 1 \in DOMAIN s /\ Tail(s)[i] = s[i + 1]
    BY TailElements
<1> QED BY <1>1 DEF AllSent

\* What a block does to what the client holds of a plain key.
LEMMA ReceiveOne ==
    ASSUME ClientType, NEW q \in Priority, NEW x \in Keys, NEW off, NEW n,
           Receive(q, x, off, n), NEW p \in Priority, NEW k \in Keys
    PROVE  got'[p][k] = IF p = q /\ k = x
                          THEN IF got[p][k] # off THEN Length[k]
                               ELSE IF off + n = Length[k] THEN 0 ELSE off + n
                          ELSE got[p][k]
    BY DEF ClientType, Receive, Garbled

LEMMA InOrderStep ==
    ASSUME TypeOK, CloseOrder, InlineMaster, Offsets, OneResponsePerKey,
           ClientInOrder, [Next]_vars, open'
    PROVE  ClientInOrder'
<1> SUFFICES ASSUME NEW p \in Priority, NEW k \in Plain
             PROVE  InOrder(p, k)'
    BY DEF ClientInOrder
<1> USE DEF TypeOK, QueuesType
<1>open. open
    BY OpenBefore
<1>one. /\ Queued(p, k) => ~InHand(p, k) /\ ~Pending(p, k)
        /\ InHand(p, k) => ~Pending(p, k)
        /\ OneAnswer(pend[p], k)
    BY <1>open, OneResponseForm DEF OneResponsePerKey
<1>was. /\ InHand(p, k) => got[p][k] = IF tsent = Length[k] THEN 0 ELSE tsent
        /\ AllSent(pend[p], k, got[p][k])
        /\ ~InHand(p, k) /\ ~Pending(p, k) => got[p][k] = 0
    BY <1>open DEF ClientInOrder, InOrder, AllSent
<1>key. k \in Keys /\ k # Master /\ k \notin Malformed /\ Length[k] \in Nat \ {0}
    BY KeysAssumption, SizeAssumption DEF Plain
<1> DEFINE Goal ==
        /\ InHand(p, k)' => got'[p][k] = IF tsent' = Length[k] THEN 0 ELSE tsent'
        /\ AllSent(pend'[p], k, got'[p][k])
        /\ ~InHand(p, k)' /\ ~Pending(p, k)' => got'[p][k] = 0
<1>goal. Goal => InOrder(p, k)'
    BY DEF InOrder, AllSent
<1>1. ASSUME InlineServe PROVE Goal
  <2>1. /\ (Pending(p, k)' <=> Pending(p, k)) /\ (InHand(p, k)' <=> InHand(p, k))
        /\ pend' = pend /\ tsent' = tsent
      BY <1>1 DEF InlineServe, Pending, InHand, thread
  <2>2. got'[p][k] = got[p][k]
    <3>1. nkey = Master /\ nprio \in Priority /\ nkey \in Keys
        BY <1>1 DEF InlineServe, InlineMaster, EventLoopType
    <3>2. Receive(nprio, nkey, 0, Length[nkey])
        BY <1>1, <1>open DEF InlineServe
    <3> QED BY <3>1, <3>2, <1>key, ReceiveOne
  <2> QED BY <1>was, <2>1, <2>2
<1>2. ASSUME Poll PROVE Goal
  <2>1. /\ (Pending(p, k)' <=> Pending(p, k)) /\ pend' = pend /\ got' = got
        /\ ~InHand(p, k)
      BY <1>2 DEF Poll, Pending, InHand
  <2>2. InHand(p, k)' => Queued(p, k) /\ tsent' = 0
    <3> SUFFICES ASSUME InHand(p, k)' PROVE Queued(p, k) /\ tsent' = 0
        OBVIOUS
    <3>1. p = tprio /\ queue[p] # <<>> /\ k = Head(queue[p]) /\ tsent' = 0
        BY <1>2 DEF Poll, InHand
    <3>2. queue[p] \in Seq(Keys)
        OBVIOUS
    <3>3. Has(queue[p], k)
        BY <3>1, <3>2, TailHas
    <3> QED BY <3>1, <3>3, QueuedIsHas
  <2> QED BY <1>was, <1>one, <2>1, <2>2
<1>3. ASSUME LoadMissing PROVE Goal
  <2>1. /\ (Pending(p, k)' <=> Pending(p, k)) /\ pend' = pend /\ got' = got
        /\ ~InHand(p, k)' /\ tsent = 0
      BY <1>3 DEF LoadMissing, Pending, InHand, Offsets
  <2> QED BY <1>was, <2>1
<1>4. ASSUME TakePending PROVE Goal
  <2>1. got' = got /\ ~InHand(p, k)
      BY <1>4 DEF TakePending, InHand
  <2>2. CASE p = tprio /\ pend[tprio] # <<>>
    <3>1. /\ pend[p] \in Seq(Responses) /\ pend[p] # <<>> /\ Head(pend[p]) = pend[p][1]
          /\ 1 \in DOMAIN pend[p] /\ Head(pend[p]) \in Responses
        BY <2>2, TailElements
    <3>2. /\ pend'[p] = Tail(pend[p])
          /\ InHand(p, k)' <=> k = Head(pend[p]).key
          /\ tsent' = Head(pend[p]).sent
        BY <1>4, <2>2 DEF TakePending, InHand
    <3>3. /\ Answers(pend[p], k) <=> Answers(pend'[p], k) \/ k = Head(pend[p]).key
          /\ AllSent(pend'[p], k, got[p][k])
          /\ k = Head(pend[p]).key => got[p][k] = Head(pend[p]).sent
        BY <3>1, <3>2, <1>was, TailAnswers, TailSent
    <3>4. k = Head(pend[p]).key => Head(pend[p]).sent < Length[k]
        BY <3>1 DEF Offsets
    <3>5. Head(pend[p]).sent \in Nat
        BY <3>1 DEF Responses
    <3>6. Pending(p, k)' <=> Answers(pend'[p], k)
        BY DEF Pending, Answers
    <3>7. k = Head(pend[p]).key => Head(pend[p]).sent # Length[k]
        BY <3>4, <3>5, <1>key
    <3> QED BY <1>was, <2>1, <3>2, <3>3, <3>6, <3>7, QueuedIsHas
  <2>3. CASE ~(p = tprio /\ pend[tprio] # <<>>)
    <3>1. pend'[p] = pend[p] /\ ~InHand(p, k)'
        BY <1>4, <2>3 DEF TakePending, InHand
    <3>2. Pending(p, k)' <=> Pending(p, k)
        BY <3>1 DEF Pending
    <3> QED BY <1>was, <2>1, <3>1, <3>2
  <2> QED BY <2>2, <2>3
<1>5. ASSUME WriteBlock PROVE Goal
  <2>1. /\ (Pending(p, k)' <=> Pending(p, k)) /\ (InHand(p, k)' <=> InHand(p, k))
        /\ pend' = pend /\ (InHand(p, k) <=> p = tprio /\ k = tkey)
      BY <1>5 DEF WriteBlock, Pending, InHand
  <2>2. CASE Payload > 0
    <3>1. Receive(tprio, tkey, tsent, Payload) /\ tsent' = tsent + Payload
        BY <1>5, <1>open, <2>2 DEF WriteBlock
    <3>2. got'[p][k] = IF p = tprio /\ k = tkey
                         THEN IF got[p][k] # tsent THEN Length[k]
                              ELSE IF tsent + Payload = Length[k] THEN 0
                                   ELSE tsent + Payload
                         ELSE got[p][k]
        BY <3>1, <1>key, ReceiveOne DEF ThreadType
    <3>3. tsent \in Nat /\ tsent < Length[tkey]
        BY <1>5 DEF WriteBlock, Offsets, ThreadType
    <3>4. InHand(p, k) => got[p][k] = tsent
        BY <1>was, <2>1, <3>3, <1>key
    <3>5. InHand(p, k) => got'[p][k] = IF tsent' = Length[k] THEN 0 ELSE tsent'
        BY <2>1, <3>1, <3>2, <3>4
    <3>6. ~InHand(p, k) => got'[p][k] = got[p][k]
        BY <2>1, <3>2
    <3>7. InHand(p, k) => AllSent(pend'[p], k, got'[p][k])
        BY <1>one, <2>1, QueuedIsHas DEF Answers, AllSent
    <3> QED BY <1>was, <2>1, <3>5, <3>6, <3>7
  <2>3. CASE ~(Payload > 0)
      BY <1>5, <1>was, <2>1, <2>3 DEF WriteBlock
  <2> QED BY <2>2, <2>3
<1>6. ASSUME Recycle PROVE Goal
  <2>1. /\ ~InHand(p, k)' /\ got' = got
        /\ InHand(p, k) <=> p = tprio /\ k = tkey
      BY <1>6 DEF Recycle, Return, InHand
  <2>2. CASE p = tprio /\ tsent < Length[tkey]
    <3> DEFINE r == [key |-> tkey, sent |-> tsent]
    <3>1. pend[p] \in Seq(Responses) /\ r \in Responses /\ r.key = tkey /\ r.sent = tsent
        BY DEF ThreadType, Responses
    <3>2. pend'[p] = Append(pend[p], r)
        BY <1>6, <2>2 DEF Recycle
    <3>3. k = r.key => got[p][k] = r.sent
        BY <1>was, <2>1, <2>2, <3>1, <1>key DEF ThreadType
    <3> HIDE DEF r
    <3>4. /\ Answers(pend'[p], k) <=> Answers(pend[p], k) \/ k = tkey
          /\ AllSent(pend'[p], k, got[p][k])
        BY <3>1, <3>2, <3>3, <1>was, AppendAnswers, AppendSent
    <3>5. Pending(p, k)' <=> Answers(pend'[p], k)
        BY DEF Pending, Answers
    <3> QED BY <1>was, <2>1, <2>2, <3>4, <3>5, QueuedIsHas
  <2>3. CASE ~(p = tprio /\ tsent < Length[tkey])
    <3>1. pend'[p] = pend[p]
        BY <1>6, <2>3 DEF Recycle
    <3>2. Pending(p, k)' <=> Pending(p, k)
        BY <3>1 DEF Pending
    <3>3. InHand(p, k) => tsent = Length[k]
        BY <1>6, <2>1, <2>3, <1>key DEF Recycle, Offsets, ThreadType
    <3> QED BY <1>was, <2>1, <3>1, <3>2, <3>3
  <2> QED BY <2>2, <2>3
<1>7. ASSUME Load \/ Schedule \/ StartProcess \/ CheckPending \/ LoggedIn \/ LoggedOut
             \/ Initialize \/ ChannelInactive \/ InlineMiss \/ QueueRequest
             \/ (\E q \in Priority, x \in Keys : EnqueueRequest(q, x)) \/ UNCHANGED vars
      PROVE  Goal
  <2>1. /\ (Pending(p, k)' <=> Pending(p, k)) /\ pend' = pend /\ got' = got
        /\ tsent' = tsent
      BY <1>7 DEF Load, Schedule, StartProcess, CheckPending, LoggedIn, LoggedOut,
                  Initialize, ChannelInactive, InlineMiss, QueueRequest, EnqueueRequest,
                  Pending, thread, vars
  <2>2. InHand(p, k) <=> InHand(p, k)'
      BY <1>7 DEF Load, Schedule, StartProcess, CheckPending, Return, LoggedIn, LoggedOut,
                  Initialize, ChannelInactive, InlineMiss, QueueRequest, EnqueueRequest,
                  InHand, thread, vars
  <2> QED BY <1>was, <2>1, <2>2
<1>8. ASSUME LoadMalformed PROVE Goal
  <2>1. /\ (Pending(p, k)' <=> Pending(p, k)) /\ pend' = pend /\ got' = got
        /\ ~InHand(p, k)' /\ tkey \in Malformed
      BY <1>8 DEF LoadMalformed, Pending, InHand
  <2>2. ~InHand(p, k)
      BY <2>1, <1>key DEF InHand
  <2> QED BY <1>was, <2>1, <2>2
<1>9. ~(CloseSession \/ ClientDrops \/ ClearQueues \/ ReleaseResponses
        \/ ReleaseFails \/ ClearInFlight \/ TakeReleased)
    BY <1>open DEF CloseOrder, CloseSession, ClientDrops, ClearQueues,
                   ReleaseResponses, ReleaseFails, ClearInFlight, TakeReleased
<1> HIDE DEF Goal
<1> QED BY <1>goal, <1>1, <1>2, <1>3, <1>4, <1>5, <1>6, <1>7, <1>8, <1>9
        DEF Next, NettyStep, ClientStep, ThreadStep

LEMMA NoGarbledStep ==
    ASSUME TypeOK, InlineMaster, Offsets, ClientInOrder, NoGarbledArchive, [Next]_vars
    PROVE  NoGarbledArchive'
<1> SUFFICES ASSUME NEW p \in Priority, NEW k \in Plain
             PROVE  got'[p][k] # Length[k]
    BY DEF NoGarbledArchive, Garbled
<1> USE DEF TypeOK
<1>was. got[p][k] # Length[k]
    BY DEF NoGarbledArchive, Garbled
<1>key. k \in Keys /\ k # Master /\ Length[k] \in Nat \ {0}
    BY KeysAssumption, SizeAssumption DEF Plain
<1>1. CASE InlineServe /\ open
  <2>1. nkey = Master /\ nprio \in Priority /\ nkey \in Keys
      BY <1>1 DEF InlineServe, InlineMaster, EventLoopType
  <2>2. Receive(nprio, nkey, 0, Length[nkey])
      BY <1>1 DEF InlineServe
  <2> QED BY <1>was, <1>key, <2>1, <2>2, ReceiveOne
<1>2. CASE WriteBlock /\ open /\ Payload > 0
  <2>1. Receive(tprio, tkey, tsent, Payload) /\ tprio \in Priority /\ tkey \in Keys
      BY <1>2 DEF WriteBlock, ThreadType
  <2>2. got'[p][k] = IF p = tprio /\ k = tkey
                       THEN IF got[p][k] # tsent THEN Length[k]
                            ELSE IF tsent + Payload = Length[k] THEN 0
                                 ELSE tsent + Payload
                       ELSE got[p][k]
      BY <2>1, <1>key, ReceiveOne
  <2>3. tsent \in Nat /\ tsent < Length[tkey]
      BY <1>2 DEF WriteBlock, Offsets, ThreadType
  <2>4. p = tprio /\ k = tkey => InOrder(p, k) /\ InHand(p, k)
      BY <1>2 DEF ClientInOrder, InHand, WriteBlock
  <2>5. p = tprio /\ k = tkey => got[p][k] = tsent
      BY <2>3, <2>4, <1>key DEF InOrder
  <2> QED BY <1>was, <1>key, <2>2, <2>5
<1>3. CASE UNCHANGED got
    BY <1>3, <1>was
<1> QED BY <1>1, <1>2, <1>3
        DEF Next, vars, NettyStep, ClientStep, ThreadStep, InlineServe, InlineMiss,
            QueueRequest, ClearQueues, ReleaseResponses, ReleaseFails, ClearInFlight,
            EnqueueRequest, LoggedIn, LoggedOut, Initialize, CloseSession, ClientDrops,
            ChannelInactive, Schedule, StartProcess, Poll, Load, LoadMissing,
            LoadMalformed, CheckPending, TakePending, TakeReleased, WriteBlock, Recycle

-----------------------------------------------------------------------------
(* Theorems.                                                               *)

LEMMA InvInit == Init => IInv
<1> SUFFICES ASSUME Init PROVE IInv
    OBVIOUS
<1>1. CloseOrder /\ InlineMaster /\ TakeFindsOne /\ NoZombieSession
      /\ ThreadDiesOnlyOnClose
    BY DEF Init, CloseOrder, InlineMaster, TakeFindsOne, NoZombieSession,
           ThreadDiesOnlyOnClose
<1>2. BudgetRespected
    BY SizeAssumption DEF Init, BudgetRespected
<1>3. /\ \A p \in Priority : DOMAIN queue[p] = {} /\ DOMAIN pend[p] = {}
      /\ \A p \in Priority : inFlight[p] = {}
      /\ \A p \in Priority, k \in Keys : got[p][k] = 0
      /\ tpc = "idle" /\ npc = "idle"
    BY DEF Init
<1>4. \A p \in Priority, k \in Keys : ~Active(p, k) /\ ~InHand(p, k) /\ ~Pending(p, k)
    BY <1>3 DEF Active, Entering, Queued, InHand, Pending
<1>5. Offsets
    BY <1>3 DEF Offsets
<1>6. NoStuckKey
    BY <1>3 DEF NoStuckKey
<1>7. OneResponsePerKey
    BY <1>3, <1>4 DEF OneResponsePerKey, OneResponse, Active, Plain
<1>8. ClientInOrder
    BY <1>3, <1>4 DEF ClientInOrder, InOrder, Plain
<1>9. NoGarbledArchive
    BY <1>3, SizeAssumption DEF NoGarbledArchive, Garbled, Plain
<1> QED BY TypeInit, <1>1, <1>2, <1>5, <1>6, <1>7, <1>8, <1>9 DEF IInv

\* The three properties of keys are about open channels: a step that closes
\* the channel or ends js5-thread keeps them at once.
LEMMA InvStep == IInv /\ [Next]_vars => IInv'
<1> SUFFICES ASSUME IInv, [Next]_vars PROVE IInv'
    OBVIOUS
<1> USE DEF IInv
<1>1. TypeOK'
    BY FlagsStep, CountStep, EventLoopStep, ThreadTypeStep, QueuesStep,
       ClientStepType, TypeStutter DEF TypeOK
<1>2. CloseOrder' /\ InlineMaster' /\ NoZombieSession'
    BY CloseOrderStep, InlineMasterStep, NoZombieStep
<1>3. TakeFindsOne' /\ Offsets' /\ BudgetRespected' /\ ThreadDiesOnlyOnClose'
    BY TakeFindsOneStep, OffsetsStep, BudgetStep, ThreadDiesStep
<1>4. OneResponsePerKey'
  <2>1. CASE open'
      BY <2>1, OneResponseStep
  <2>2. CASE ~open'
      BY <2>2 DEF OneResponsePerKey
  <2> QED BY <2>1, <2>2
<1>5. NoStuckKey'
  <2>1. CASE open' /\ tpc' # "dead"
      BY <2>1, NoStuckStep
  <2>2. CASE ~(open' /\ tpc' # "dead")
      BY <2>2 DEF NoStuckKey
  <2> QED BY <2>1, <2>2
<1>6. ClientInOrder'
  <2>1. CASE open'
      BY <2>1, InOrderStep
  <2>2. CASE ~open'
      BY <2>2 DEF ClientInOrder
  <2> QED BY <2>1, <2>2
<1>7. NoGarbledArchive'
    BY NoGarbledStep
<1> QED BY <1>1, <1>2, <1>3, <1>4, <1>5, <1>6, <1>7

\* The strengthened invariant holds throughout: every step of the event loop
\* and of js5-thread, in any interleaving, keeps it.
THEOREM Invariant == Spec => []IInv
    BY InvInit, InvStep, PTL DEF Spec

\* process(limit) stays within its byte budget, whatever the block size, the
\* header and the lengths of the archives.
THEOREM BudgetTheorem == Spec => []BudgetRespected
<1>1. IInv => BudgetRespected
    BY DEF IInv
<1> QED BY Invariant, <1>1, PTL

\* With well-formed reference tables only a close() in progress can end
\* js5-thread: no interleaving of requests, frames and drops can.
THEOREM ThreadDiesTheorem == Spec => []ThreadDiesOnlyOnClose
<1>1. IInv => ThreadDiesOnlyOnClose
    BY DEF IInv
<1> QED BY Invariant, <1>1, PTL

\* A session whose channel went inactive is not served again, not even one
\* that registered itself once more after close().
THEOREM NoZombieTheorem == Spec => []NoZombieSession
<1>1. IInv => NoZombieSession
    BY DEF IInv
<1> QED BY Invariant, <1>1, PTL

\* While the connection is open no plain key has two responses on their way.
THEOREM OneResponseTheorem == Spec => []OneResponsePerKey
<1>1. IInv => OneResponsePerKey
    BY DEF IInv
<1> QED BY Invariant, <1>1, PTL

\* While the connection is open and js5-thread lives, every in-flight key has
\* a request on its way, so none is refused for ever.
THEOREM NoStuckKeyTheorem == Spec => []NoStuckKey
<1>1. IInv => NoStuckKey
    BY DEF IInv
<1> QED BY Invariant, <1>1, PTL

\* The client receives the blocks of each plain key in order, once each.
THEOREM NoGarbledTheorem == Spec => []NoGarbledArchive
<1>1. IInv => NoGarbledArchive
    BY DEF IInv
<1> QED BY Invariant, <1>1, PTL

-----------------------------------------------------------------------------
(* Js5Session implements Js5Service.                                       *)

LEMMA ServiceInit == Init => Service!Init
<1> SUFFICES ASSUME Init PROVE Service!Init
    OBVIOUS
<1>1. AskedRequests = {}
    BY DEF Init, AskedRequests, PlainRequests
<1>2. AnswerSent = Service!NothingSent
    BY DEF Init, AnswerSent, Service!NothingSent, Complete, PlainRequests, Plain
<1> QED BY <1>1, <1>2 DEF Init, Service!Init

\* A closed session has dropped all it had accepted, whatever js5-thread still does.
LEMMA ClosedService ==
    /\ ~open => AskedRequests = {} /\ AnswerSent = Service!NothingSent
    /\ ~open' => AskedRequests' = {} /\ AnswerSent' = Service!NothingSent
    BY DEF AskedRequests, AnswerSent, Service!NothingSent

\* A plain request of an open session, and what it has been sent.
LEMMA OpenService ==
    ASSUME open, open', NEW p \in Priority, NEW k \in Plain
    PROVE  /\ <<p, k>> \in AskedRequests <=> k \in inFlight[p]
           /\ <<p, k>> \in AskedRequests' <=> k \in inFlight'[p]
           /\ AnswerSent[<<p, k>>] =
                IF tpc = "recycle" /\ tprio = p /\ tkey = k /\ tsent = Length[k]
                  THEN Length[k] ELSE got[p][k]
           /\ AnswerSent'[<<p, k>>] =
                IF tpc' = "recycle" /\ tprio' = p /\ tkey' = k /\ tsent' = Length[k]
                  THEN Length[k] ELSE got'[p][k]
    BY DEF AskedRequests, AnswerSent, PlainRequests, Complete

\* What is asked are pairs of a priority and a plain key, each with an answer.
LEMMA ServicePairs ==
    /\ PlainRequests = Priority \X Plain
    /\ AskedRequests \subseteq PlainRequests /\ AskedRequests' \subseteq PlainRequests
    /\ AnswerSent = [r \in PlainRequests |-> AnswerSent[r]]
    /\ AnswerSent' = [r \in PlainRequests |-> AnswerSent'[r]]
    BY DEF PlainRequests, AskedRequests, AnswerSent

LEMMA ServiceStep ==
    ASSUME IInv, IInv', [Next]_vars
    PROVE  [Service!Next]_Service!svars
<1> DEFINE Goal == [Service!Next]_Service!svars
<1> SUFFICES Goal
    OBVIOUS
<1>type. TypeOK /\ SizeAssumption
    BY SizeAssumption DEF IInv
<1>plain. \A k \in Plain : k \in Keys /\ k \notin RefTables /\ k # Master
    BY DEF Plain
<1>1. CASE ~open
  <2>1. ~open'
      BY <1>1, OpenBefore
  <2>2. UNCHANGED Service!svars
      BY <1>1, <1>type, <2>1, ClosedService DEF Service!svars, IInv, TypeOK, FlagsType
  <2> QED BY <2>2
<1>2. CASE open /\ ~open'
  <2>1. Service!HangUp
      BY <1>2, ClosedService DEF Service!HangUp
  <2> QED BY <2>1 DEF Service!Next
<1>3. CASE open /\ open'
  <2>asked. \A p \in Priority, k \in Plain :
             /\ <<p, k>> \in AskedRequests <=> k \in inFlight[p]
             /\ <<p, k>> \in AskedRequests' <=> k \in inFlight'[p]
      BY <1>3, OpenService
  <2>sent. \A p \in Priority, k \in Plain :
             /\ AnswerSent[<<p, k>>] =
                  IF tpc = "recycle" /\ tprio = p /\ tkey = k /\ tsent = Length[k]
                    THEN Length[k] ELSE got[p][k]
             /\ AnswerSent'[<<p, k>>] =
                  IF tpc' = "recycle" /\ tprio' = p /\ tkey' = k /\ tsent' = Length[k]
                    THEN Length[k] ELSE got'[p][k]
      BY <1>3, OpenService
  <2> HIDE DEF Goal
  \* What changes no plain key is a stutter, ...
  <2>same. ASSUME \A p \in Priority, k \in Plain :
                     /\ k \in inFlight'[p] <=> k \in inFlight[p]
                     /\ AnswerSent'[<<p, k>>] = AnswerSent[<<p, k>>]
           PROVE  Goal
    <3>0. ASSUME NEW r \in PlainRequests
          PROVE  /\ r \in AskedRequests' <=> r \in AskedRequests
                 /\ AnswerSent'[r] = AnswerSent[r]
      <4>1. PICK p \in Priority, k \in Plain : r = <<p, k>>
          BY ServicePairs
      <4> QED BY <2>same, <2>asked, <4>1
    <3>1. AskedRequests' = AskedRequests
        BY <3>0, ServicePairs
    <3>2. \A r \in PlainRequests : AnswerSent'[r] = AnswerSent[r]
        BY <3>0
    <3>3. AnswerSent' = AnswerSent
        BY <3>2, ServicePairs
    <3> QED BY <1>3, <3>1, <3>3 DEF Goal, Service!svars
  \* ... and what takes one out of flight, with all or nothing sent, finishes it.
  <2>finish. ASSUME NEW p \in Priority, NEW k \in Plain,
                    k \in inFlight[p], k \notin inFlight'[p],
                    AnswerSent[<<p, k>>] \in {0, Length[k]}, AnswerSent'[<<p, k>>] = 0,
                    \A q \in Priority, x \in Plain : q # p \/ x # k =>
                       /\ x \in inFlight'[q] <=> x \in inFlight[q]
                       /\ AnswerSent'[<<q, x>>] = AnswerSent[<<q, x>>]
             PROVE  Goal
    <3> DEFINE r == <<p, k>>
    <3>1. r \in PlainRequests /\ SizeOf[r] = Length[k]
        BY ServicePairs DEF SizeOf
    <3>0. ASSUME NEW s \in PlainRequests
          PROVE  /\ s \in AskedRequests' <=> s \in AskedRequests /\ s # r
                 /\ AnswerSent'[s] = IF s = r THEN 0 ELSE AnswerSent[s]
      <4>1. PICK q \in Priority, x \in Plain : s = <<q, x>>
          BY ServicePairs
      <4> QED BY <2>finish, <2>asked, <4>1
    <3>2. AskedRequests' = AskedRequests \ {r}
        BY <3>0, ServicePairs
    <3>3. \A s \in PlainRequests : AnswerSent'[s] = IF s = r THEN 0 ELSE AnswerSent[s]
        BY <3>0
    <3>4. AnswerSent' = [AnswerSent EXCEPT ![r] = 0]
        BY <3>3, ServicePairs
    <3>5. Service!Finish(r)
        BY <1>3, <2>finish, <2>asked, <3>1, <3>2, <3>4 DEF Service!Finish
    <3> QED BY <3>1, <3>5 DEF Goal, Service!Next
  <2>4. ASSUME UNCHANGED <<inFlight, got>>, tpc # "recycle" /\ tpc' # "recycle"
        PROVE  Goal
      BY <2>4, <2>same, <2>sent
  <2>5. ASSUME UNCHANGED <<inFlight, got, thread>> PROVE Goal
      BY <2>5, <2>same, <2>sent DEF thread
  <2>6. ASSUME NEW p \in Priority, NEW k \in Keys, EnqueueRequest(p, k) PROVE Goal
    <3>1. /\ inFlight' = [inFlight EXCEPT ![p] = @ \cup {k}]
          /\ UNCHANGED <<got, thread>>
        BY <2>6 DEF EnqueueRequest
    <3>2. ASSUME NEW q \in Priority, NEW x \in Plain
          PROVE  /\ AnswerSent'[<<q, x>>] = AnswerSent[<<q, x>>]
                 /\ x \in inFlight'[q] <=> x \in inFlight[q] \/ (q = p /\ x = k)
        BY <1>type, <2>sent, <3>1 DEF TypeOK, QueuesType, thread
    <3>3. CASE k \in Plain
      <4> DEFINE r == <<p, k>>
      <4>1. r \in PlainRequests
          BY ServicePairs, <3>3
      <4>2. k \notin inFlight[p]
          BY <1>plain, <2>6, <3>3 DEF EnqueueRequest, AllowDuplicate
      <4>0. ASSUME NEW s \in PlainRequests
            PROVE  /\ s \in AskedRequests' <=> s \in AskedRequests \/ s = r
                   /\ AnswerSent'[s] = AnswerSent[s]
        <5>1. PICK q \in Priority, x \in Plain : s = <<q, x>>
            BY ServicePairs
        <5> QED BY <2>asked, <3>2, <5>1
      <4>3. AskedRequests' = AskedRequests \cup {r}
          BY <4>0, <4>1, ServicePairs
      <4>4. \A s \in PlainRequests : AnswerSent'[s] = AnswerSent[s]
          BY <4>0
      <4>5. AnswerSent' = AnswerSent
          BY <4>4, ServicePairs
      <4>6. Service!Accept(r)
          BY <1>3, <2>asked, <3>3, <4>2, <4>3, <4>5 DEF Service!Accept
      <4> QED BY <4>1, <4>6 DEF Goal, Service!Next
    <3>4. CASE k \notin Plain
        BY <2>same, <3>2, <3>4
    <3> QED BY <3>3, <3>4
  <2>7. CASE InlineServe \/ InlineMiss
    <3>1. /\ nkey = Master /\ nprio \in Priority /\ UNCHANGED thread
          /\ inFlight' = [inFlight EXCEPT ![nprio] = @ \ {nkey}]
        BY <1>type, <2>7 DEF IInv, InlineMaster, InlineServe, InlineMiss, TypeOK,
                             EventLoopType
    <3>2. \A q \in Priority, x \in Plain : got'[q][x] = got[q][x]
      <4>1. CASE UNCHANGED got
          BY <4>1
      <4>2. CASE Receive(nprio, nkey, 0, Length[nkey])
          BY <1>type, <1>plain, <3>1, <4>2 DEF TypeOK, ClientType, Receive
      <4> QED BY <2>7, <4>1, <4>2 DEF InlineServe, InlineMiss
    <3>3. \A q \in Priority, x \in Plain : x \in inFlight'[q] <=> x \in inFlight[q]
        BY <1>type, <1>plain, <3>1 DEF TypeOK, QueuesType
    <3>4. ASSUME NEW q \in Priority, NEW x \in Plain
          PROVE  AnswerSent'[<<q, x>>] = AnswerSent[<<q, x>>]
        BY <2>sent, <3>1, <3>2 DEF thread
    <3> QED BY <2>same, <3>3, <3>4
  <2>hand. InHand(tprio, tkey) /\ tkey \in Plain =>
             /\ tkey \in inFlight[tprio]
             /\ got[tprio][tkey] = IF tsent = Length[tkey] THEN 0 ELSE tsent
      BY <1>3, <1>type DEF IInv, OneResponsePerKey, OneResponse, Active, ClientInOrder,
                           InOrder, TypeOK, ThreadType
  <2>8. CASE LoadMissing
    <3>1. /\ tpc = "load" /\ tpc' = "poll" /\ tsent = 0 /\ tprio \in Priority
          /\ tkey \in Keys /\ UNCHANGED got
          /\ inFlight' = [inFlight EXCEPT ![tprio] = @ \ {tkey}]
        BY <1>type, <2>8 DEF LoadMissing, IInv, Offsets, TypeOK, ThreadType
    <3>2. \A q \in Priority, x \in Plain :
             /\ AnswerSent[<<q, x>>] = got[q][x] /\ AnswerSent'[<<q, x>>] = got[q][x]
             /\ x \in inFlight'[q] <=> x \in inFlight[q] /\ ~(q = tprio /\ x = tkey)
        BY <1>type, <2>sent, <3>1 DEF TypeOK, QueuesType
    <3>3. CASE tkey \in Plain
      <4>1. tkey \in inFlight[tprio] /\ got[tprio][tkey] = 0
          BY <1>type, <2>hand, <3>1, <3>3 DEF InHand
      <4>2. tkey \notin inFlight'[tprio] /\ AnswerSent[<<tprio, tkey>>] = 0
          BY <3>1, <3>2, <3>3, <4>1
      <4>3. AnswerSent'[<<tprio, tkey>>] = 0
          BY <3>1, <3>2, <3>3, <4>1
      <4>4. \A q \in Priority, x \in Plain : q # tprio \/ x # tkey =>
               /\ x \in inFlight'[q] <=> x \in inFlight[q]
               /\ AnswerSent'[<<q, x>>] = AnswerSent[<<q, x>>]
          BY <3>2
      <4> QED BY <2>finish, <3>1, <3>3, <4>1, <4>2, <4>3, <4>4
    <3>4. CASE tkey \notin Plain
        BY <2>same, <3>2, <3>4
    <3> QED BY <3>3, <3>4
  <2>9. CASE WriteBlock
    <3>1. /\ tpc = "write" /\ tpc' = "recycle" /\ UNCHANGED <<tprio, tkey, inFlight>>
          /\ tprio \in Priority /\ tkey \in Keys /\ tsent \in Nat /\ tsent < Length[tkey]
          /\ Length[tkey] \in Nat
        BY <1>type, <2>9 DEF WriteBlock, IInv, Offsets, TypeOK, ThreadType,
                             SizeAssumption
    <3>2. \A q \in Priority, x \in Plain :
             /\ AnswerSent[<<q, x>>] = got[q][x]
             /\ x \in inFlight'[q] <=> x \in inFlight[q]
        BY <2>sent, <3>1
    <3>3. CASE ~(Payload > 0)
      <4>1. UNCHANGED <<got, tsent>>
          BY <2>9, <3>3 DEF WriteBlock
      <4>2. ASSUME NEW q \in Priority, NEW x \in Plain
            PROVE  AnswerSent'[<<q, x>>] = got[q][x]
          BY <2>sent, <3>1, <4>1
      <4> QED BY <2>same, <3>2, <4>2
    <3>4. CASE Payload > 0
      <4>1. /\ tsent' = tsent + Payload /\ Receive(tprio, tkey, tsent, Payload)
          BY <1>3, <2>9, <3>4 DEF WriteBlock
      <4>2. Payload \in Nat /\ tsent + Payload <= Length[tkey]
          BY <1>type, <3>1, <3>4, PayloadBounds DEF TypeOK
      <4>3. \A q \in Priority, x \in Plain : q # tprio \/ x # tkey =>
               AnswerSent'[<<q, x>>] = got[q][x]
          BY <1>type, <1>plain, <2>sent, <3>1, <4>1, ReceiveOne DEF TypeOK
      <4>4. CASE tkey \notin Plain
          BY <2>same, <3>2, <4>3, <4>4
      <4>5. CASE tkey \in Plain
        <5> DEFINE r == <<tprio, tkey>>
        <5>1. tkey \in inFlight[tprio] /\ got[tprio][tkey] = tsent
            BY <2>hand, <3>1, <4>5 DEF InHand
        <5>2. AnswerSent'[<<tprio, tkey>>] = tsent + Payload
            BY <1>type, <1>plain, <2>sent, <3>1, <4>1, <4>2, <4>5, <5>1, ReceiveOne DEF TypeOK
        <5>3. r \in PlainRequests /\ SizeOf[r] = Length[tkey]
            BY ServicePairs, <3>1, <4>5 DEF SizeOf
        <5>0. ASSUME NEW s \in PlainRequests
              PROVE  /\ s \in AskedRequests' <=> s \in AskedRequests
                     /\ s # r => AnswerSent'[s] = AnswerSent[s]
          <6>1. PICK q \in Priority, x \in Plain : s = <<q, x>>
              BY ServicePairs
          <6> QED BY <2>asked, <3>2, <4>3, <6>1
        <5>4. AskedRequests' = AskedRequests
            BY <5>0, ServicePairs
        <5>5. AnswerSent[r] = tsent /\ AnswerSent'[r] = tsent + Payload
            BY <2>asked, <3>1, <3>2, <4>5, <5>1, <5>2
        <5>6. \A s \in PlainRequests : s # r => AnswerSent'[s] = AnswerSent[s]
            BY <5>0
        <5>7. AnswerSent' = [AnswerSent EXCEPT ![r] = @ + Payload]
            BY ServicePairs, <5>3, <5>5, <5>6
        <5>8. Payload \in 1..SizeOf[r] /\ AnswerSent[r] + Payload <= SizeOf[r]
            BY <3>1, <3>4, <4>2, <5>3, <5>5
        <5>9. r \in AskedRequests
            BY <2>asked, <3>1, <4>5, <5>1
        <5>10. Service!Send(r, Payload)
            BY <1>3, <5>4, <5>7, <5>8, <5>9 DEF Service!Send
        <5> QED BY <5>3, <5>8, <5>10 DEF Goal, Service!Next
      <4> QED BY <4>4, <4>5
    <3> QED BY <3>3, <3>4
  <2>10. CASE Recycle
    <3>1. /\ tpc = "recycle" /\ tpc' # "recycle" /\ UNCHANGED got
          /\ tprio \in Priority /\ tkey \in Keys /\ tsent \in Nat /\ tsent <= Length[tkey]
          /\ Length[tkey] \in Nat
        BY <1>type, <2>10 DEF Recycle, Return, IInv, Offsets, TypeOK, ThreadType,
                              SizeAssumption
    <3>2. ASSUME NEW q \in Priority, NEW x \in Plain
          PROVE  /\ AnswerSent'[<<q, x>>] = got[q][x]
                 /\ q # tprio \/ x # tkey \/ tsent # Length[tkey] =>
                      AnswerSent[<<q, x>>] = got[q][x]
        BY <2>sent, <3>1
    <3>3. CASE tsent < Length[tkey]
      <4>1. UNCHANGED inFlight
          BY <2>10, <3>3 DEF Recycle
      <4> QED BY <2>same, <3>1, <3>2, <3>3, <4>1
    <3>4. CASE tsent = Length[tkey]
      <4>1. inFlight' = [inFlight EXCEPT ![tprio] = @ \ {tkey}]
          BY <2>10, <3>1, <3>4 DEF Recycle
      <4>2. \A q \in Priority, x \in Plain :
               x \in inFlight'[q] <=> x \in inFlight[q] /\ ~(q = tprio /\ x = tkey)
          BY <1>type, <3>1, <4>1 DEF TypeOK, QueuesType
      <4>3. CASE tkey \in Plain
        <5>1. tkey \in inFlight[tprio] /\ got[tprio][tkey] = 0
            BY <2>hand, <3>1, <3>4, <4>3 DEF InHand
        <5>2. AnswerSent[<<tprio, tkey>>] = Length[tkey]
            BY <2>sent, <3>1, <3>4, <4>3
        <5>3. AnswerSent'[<<tprio, tkey>>] = 0
            BY <3>1, <3>2, <4>3, <5>1
        <5>4. \A q \in Priority, x \in Plain : q # tprio \/ x # tkey =>
                 /\ x \in inFlight'[q] <=> x \in inFlight[q]
                 /\ AnswerSent'[<<q, x>>] = AnswerSent[<<q, x>>]
            BY <3>2, <4>2
        <5> QED BY <2>finish, <3>1, <4>2, <4>3, <5>1, <5>2, <5>3, <5>4
      <4>4. CASE tkey \notin Plain
          BY <2>same, <3>2, <4>2, <4>4
      <4> QED BY <4>3, <4>4
    <3> QED BY <3>1, <3>3, <3>4
  <2>11. CASE QueueRequest \/ LoggedIn \/ LoggedOut \/ Initialize \/ ChannelInactive
              \/ ClearQueues \/ ReleaseResponses \/ ReleaseFails
      BY <2>5, <2>11 DEF QueueRequest, LoggedIn, LoggedOut, Initialize, ChannelInactive,
                         ClearQueues, ReleaseResponses, ReleaseFails
  <2>12. CASE Schedule \/ StartProcess \/ Poll \/ Load \/ LoadMalformed \/ CheckPending
              \/ TakePending \/ TakeReleased
      BY <2>4, <2>12 DEF Schedule, StartProcess, Poll, Load, LoadMalformed, CheckPending,
                         TakePending, TakeReleased, Return
  <2>13. ~(ClearInFlight \/ CloseSession \/ ClientDrops)
      BY <1>3 DEF IInv, CloseOrder, ClearInFlight, CloseSession, ClientDrops
  <2>14. CASE UNCHANGED vars
      BY <2>5, <2>14 DEF vars, thread
  <2>15. Goal
      BY <2>6, <2>7, <2>8, <2>9, <2>10, <2>11, <2>12, <2>13, <2>14
      DEF Next, NettyStep, ClientStep, ThreadStep
  <2> QED BY <2>15 DEF Goal
<1> QED BY <1>1, <1>2, <1>3

\* For a plain archive no byte is lost, repeated, reordered or sent unasked between
\* enqueueRequest accepting a request and recyclePendingResponse dropping its key.
THEOREM SessionImplementsService == Spec => ServiceSpec
<1>1. IInv /\ IInv' /\ [Next]_vars => [Service!Next]_Service!svars
    BY ServiceStep
<1> QED BY <1>1, ServiceInit, Invariant, PTL DEF Spec, ServiceSpec, Service!Spec
=============================================================================
