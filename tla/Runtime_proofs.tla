--------------------------- MODULE Runtime_proofs ---------------------------
(***************************************************************************)
(* The safety properties of MessageBus and of Runtime, for every list of   *)
(* subscriptions, every set of messages and of reply calls, every          *)
(* capacity, concurrency limit and timeout, and every set of connections.  *)
(* The channels of the bus are channels of LocalChannel, and the bus of    *)
(* the runtime is that of MessageBus, so that what is proved of the        *)
(* channels holds of the bus, and what is proved of the bus holds of the   *)
(* runtime.  The first part is about the bus alone and uses nothing of     *)
(* Runtime; the second relates the phases of the runtime to those of the   *)
(* bus and of the server.                                                  *)
(***************************************************************************)
EXTENDS Runtime, LocalChannel_proofs, FiniteSetTheorems

\* What the subscriptions are, in the form the proofs use.
LEMMA SubsFacts ==
  /\ Len(Subs) \in Nat
  /\ Consumers = 1..Len(Subs)
  /\ \A d \in Consumers : Subs[d] \in Endpoint /\ Subs[d][1] \in Channels /\ d \in Nat
BY BusAssumption DEF Endpoint

\* A reply is a message, and only a handler whose message asks for one has it.
LEMMA ReplyFacts ==
  ASSUME NEW d \in Consumers, NEW m \in Messages, ReplyTo[m] # None
  PROVE  Reply[d][m] \in Messages /\ ReplyTo[m] \in Channels /\ Reply[d][m] \in Replies
BY BusAssumption DEF Replies

-----------------------------------------------------------------------------
(***************************************************************************)
(* The inductive invariant of the bus.                                     *)
(***************************************************************************)
BusTypes ==
  /\ registry \subseteq Channels
  /\ boot \in {"new", "init", "sender", "activate", "started", "failed"}
  /\ sub \in 1..(Len(Subs) + 1)
  /\ found \in [Messages -> Channels \cup {None}]
  /\ refused \subseteq Messages
  /\ disp \in [Consumers -> {"off", "top", "select", "drain", "done"}]
  /\ running \in [Consumers -> SUBSET Messages]
  /\ ended \in [Consumers -> Nat]
  /\ acked \subseteq Consumers \X Messages
  /\ nacked \subseteq Consumers \X Messages
  /\ panicked \subseteq Consumers \X Messages
  /\ shut \in {"no", "closing", "draining", "done"}
  /\ toClose \subseteq Channels
  /\ cancelled \in BOOLEAN

Making == IF boot = "sender" THEN {Subs[sub]} ELSE {}

\* start() has made the groups of the subscriptions it is past; nobody else
\* makes a group, and only shutdown() takes a sender away.
BootInv ==
  /\ boot \in {"init", "sender", "activate"} => sub <= Len(Subs)
  /\ boot = "started" => sub = Len(Subs) + 1
  /\ shut # "no" => boot \in {"started", "failed"}
  /\ shut = "no" => receivers \subseteq senders \cup Making
  /\ \A i \in 1..(sub - 1) : Subs[i] \in receivers \ Making
  /\ boot = "activate" => Subs[sub] \in receivers
  /\ shut = "done" => AllReturned

\* A dispatcher is inside consume(), on the group of its subscription, exactly
\* while it is in its select!; it leaves the loop on Closed or when cancelled.
LoopInv(d) ==
  /\ disp[d] # "off" => d < sub
  /\ disp[d] = "select" <=> pc[d] # "idle"
  /\ pc[d] # "idle" => at[d] = Subs[d] /\ pc[d] \in {"lock", "recv"}
  /\ Stopped(d) /\ ~cancelled => Subs[d] \in sealed

Limit == IF Concurrency = 0 THEN 1 ELSE Concurrency

\* There is room for a task whenever the dispatcher waits for a message.
TaskInv(d) ==
  /\ IsFiniteSet(running[d])
  /\ Tasks(d) <= Limit
  /\ disp[d] = "select" => Tasks(d) < Limit
  /\ disp[d] \in {"off", "done"} => Tasks(d) = 0

BusInv ==
  /\ BusTypes
  /\ BootInv
  /\ \A d \in Consumers : LoopInv(d) /\ TaskInv(d)

-----------------------------------------------------------------------------
(***************************************************************************)
(* The bus uses its channels as LocalChannel lets them be used.            *)
(***************************************************************************)
\* Every step of the bus is a step of its channels, or leaves them alone.
LEMMA BusStepIsChannelStep ==
  ASSUME BusTypes, BootInv, [BusNext]_busVars
  PROVE  [ChanNext]_chanVars
<1>1. CASE Start
  <2>1. boot \in {"init", "sender"} => Subs[sub] \in Endpoint
    BY SubsFacts DEF BusTypes, BootInv
  <2> QED
    BY <1>1, <2>1 DEF Start, StartSubscription, StartGroup, StartSender, StartDispatcher,
          StartFails, StartReturns, ChanNext
<1>2. ASSUME NEW m \in Messages, ClientPublish(m) \/ ClientDrops(m) \/ PublishToChannel(m)
      PROVE  [ChanNext]_chanVars
  <2>1. found[m] # None => found[m] \in Channels
    BY DEF BusTypes
  <2> QED
    BY <1>2, <2>1 DEF ClientPublish, ClientDrops, PublishToChannel, Lookup, ChanNext, PublishStep
<1>3. ASSUME NEW d \in Consumers, Dispatch(d) PROVE [ChanNext]_chanVars
  BY <1>3, SubsFacts DEF Dispatch, AwaitMessage, AcquireInSelect, DispatchMessage, LoopOnTimeout,
        BreakOnClosed, BreakOnCancel, DrainTask, DispatcherReturns, ChanNext, ConsumeStep
<1>4. ASSUME NEW d \in Consumers, NEW m \in Messages, Handle(d, m)
      PROVE  [ChanNext]_chanVars
  BY <1>4 DEF Handle, HandlerReply, HandlerOk, HandlerErr, HandlerPanics, Lookup, TaskEnds
<1>5. CASE Shutdown
  BY <1>5 DEF Shutdown, ShutdownBegin, ShutdownClose, ShutdownTimeout, ShutdownReturns, ChanNext
<1>6. CASE UNCHANGED busVars
  BY <1>6 DEF busVars
<1> QED
  BY <1>1, <1>2, <1>3, <1>4, <1>5, <1>6 DEF BusNext

\* In the initial state nothing was started.
LEMMA BusInvInit == BusInit => BusInv
<1> SUFFICES ASSUME BusInit PROVE BusInv
  OBVIOUS
<1>1. BusTypes
  <2>1. 1 \in 1..(Len(Subs) + 1)
    BY SubsFacts
  <2> QED
    BY <2>1 DEF BusInit, BusTypes
<1>2. BootInv
  BY SubsFacts DEF BusInit, ChanInit, BootInv, Making
<1>3. ASSUME NEW d \in Consumers PROVE LoopInv(d) /\ TaskInv(d)
  <2>1. LoopInv(d)
    BY <1>3 DEF BusInit, ChanInit, LoopInv, Stopped
  <2>2. running[d] = {} /\ ended[d] = 0 /\ Tasks(d) = 0
    BY <1>3, FS_EmptySet DEF BusInit, Tasks
  <2>3. 0 <= Limit
    BY BusAssumption DEF Limit
  <2> QED
    BY <2>1, <2>2, <2>3, FS_EmptySet DEF TaskInv, BusInit
<1> QED
  BY <1>1, <1>2, <1>3 DEF BusInv

\* Every step keeps the types of the variables of the bus.
LEMMA BusTypesStep ==
  ASSUME Shape, BusInv, [BusNext]_busVars
  PROVE  BusTypes'
<1> USE DEF BusInv, BusTypes
<1>1. CASE Start
  <2>1. sub <= Len(Subs) => sub \in Consumers /\ Subs[sub][1] \in Channels
                              /\ sub + 1 \in 1..(Len(Subs) + 1)
    BY SubsFacts
  <2>2. CASE StartSubscription \/ StartDispatcher
    BY <2>1, <2>2 DEF BootInv, StartSubscription, StartDispatcher, sendVars, dispVars, shutVars
  <2>3. CASE StartGroup \/ StartSender \/ StartFails \/ StartReturns
    BY <2>3 DEF StartGroup, StartSender, StartFails, StartReturns, sendVars, dispVars, shutVars
  <2> QED
    BY <1>1, <2>2, <2>3 DEF Start
<1>2. ASSUME NEW m \in Messages, ClientPublish(m) \/ ClientDrops(m) \/ PublishToChannel(m)
      PROVE  BusTypes'
  BY <1>2 DEF ClientPublish, ClientDrops, PublishToChannel, Lookup, startVars, sendVars,
        dispVars, shutVars
<1>3. ASSUME NEW d \in Consumers, Dispatch(d), ~DispatchMessage(d) PROVE BusTypes'
  BY <1>3 DEF Dispatch, AwaitMessage, AcquireInSelect, LoopOnTimeout, BreakOnClosed,
        BreakOnCancel, DrainTask, DispatcherReturns, startVars, sendVars, dispVars, shutVars
<1>4. ASSUME NEW d \in Consumers, DispatchMessage(d) PROVE BusTypes'
  <2>1. NextMsg(at[d]) \in Messages
    <3>1. at[d] \in Endpoint /\ head[at[d]] + 1 \in 1..Len(log[at[d]])
      BY <1>4 DEF DispatchMessage, Receive, Shape, ChanTypeOK, IsEmpty, Queued
    <3> QED
      BY <3>1 DEF Shape, ChanTypeOK, NextMsg
  <2> QED
    BY <1>4, <2>1 DEF DispatchMessage, startVars, sendVars, shutVars
<1>5. ASSUME NEW d \in Consumers, NEW m \in Messages, Handle(d, m) PROVE BusTypes'
  <2>1. CASE HandlerReply(d, m)
    BY <2>1, ReplyFacts DEF HandlerReply, Lookup, startVars, dispVars, shutVars
  <2>2. CASE HandlerOk(d, m) \/ HandlerErr(d, m) \/ HandlerPanics(d, m)
    <3>1. TaskEnds(d, m) /\ <<d, m>> \in Consumers \X Messages
      BY <2>2 DEF HandlerOk, HandlerErr, HandlerPanics
    <3>2. running' \in [Consumers -> SUBSET Messages] /\ ended' \in [Consumers -> Nat]
      BY <3>1 DEF TaskEnds
    <3>3. /\ acked' \subseteq Consumers \X Messages
          /\ nacked' \subseteq Consumers \X Messages
          /\ panicked' \subseteq Consumers \X Messages
      BY <2>2, <3>1 DEF HandlerOk, HandlerErr, HandlerPanics
    <3> QED
      BY <3>1, <3>2, <3>3 DEF TaskEnds, startVars, sendVars, shutVars
  <2> QED
    BY <1>5, <2>1, <2>2 DEF Handle
<1>6. CASE Shutdown
  BY <1>6 DEF Shutdown, ShutdownBegin, ShutdownClose, ShutdownTimeout, ShutdownReturns,
        DrainOrClose, startVars, sendVars, dispVars
<1>7. CASE UNCHANGED busVars
  BY <1>7 DEF busVars, startVars, sendVars, dispVars, shutVars
<1> QED
  BY <1>1, <1>2, <1>3, <1>4, <1>5, <1>6, <1>7 DEF BusNext

\* A dispatcher finds the group that start() made for it: it never makes one.
LEMMA AwaitFindsGroup ==
  ASSUME BusInv, NEW d \in Consumers, AwaitMessage(d)
  PROVE  /\ pc' = [pc EXCEPT ![d] = "lock"]
         /\ at' = [at EXCEPT ![d] = Subs[d]]
         /\ UNCHANGED <<groupVars, queueVars, callVars>>
<1>1. d \in 1..(sub - 1)
  BY SubsFacts DEF BusInv, LoopInv, BusTypes, AwaitMessage
<1>2. Subs[d] \in receivers
  BY <1>1 DEF BusInv, BootInv
<1> QED
  BY <1>2 DEF AwaitMessage, ConsumeBegin, NewGroup

\* No step of a dispatcher makes a group or takes a sender away.
LEMMA DispatchKeepsGroups ==
  ASSUME BusInv, NEW d \in Consumers, Dispatch(d)
  PROVE  UNCHANGED groupVars
BY AwaitFindsGroup DEF Dispatch, AcquireInSelect, AcquireReceiver, DispatchMessage, Receive,
   LoopOnTimeout, ReceiveTimeout, BreakOnClosed, ReceiveClosed, BreakOnCancel, ConsumeDrop,
   ConsumeReturn, DrainTask, DispatcherReturns, chanVars

\* A step that leaves start() and shutdown() where they are, and the groups.
LEMMA BootUnchanged ==
  ASSUME BootInv, UNCHANGED <<boot, sub, shut, receivers, senders>>,
         shut = "done" => UNCHANGED disp
  PROVE  BootInv'
BY DEF BootInv, Making, AllReturned

\* Every step keeps the groups in line with the progress of start().
LEMMA BootStep ==
  ASSUME Shape, BusInv, [BusNext]_busVars
  PROVE  BootInv'
<1>0. BootInv /\ BusTypes
  BY DEF BusInv
<1>1. CASE Start
  <2>0. sub \in Nat /\ Len(Subs) \in Nat /\ shut = "no"
    BY <1>0, <1>1, SubsFacts DEF BusTypes, BootInv, Start, StartSubscription, StartGroup,
          StartSender, StartDispatcher, StartFails, StartReturns
  <2>1. CASE StartSubscription
    BY <1>0, <2>0, <2>1 DEF BootInv, Making, AllReturned, StartSubscription, chanVars, groupVars,
          shutVars
  <2>2. CASE StartGroup
    <3>1. CASE InitGroup(Subs[sub]) /\ boot' = "sender"
      BY <1>0, <2>0, <2>2, <3>1 DEF BootInv, Making, StartGroup, InitGroup, NewGroup, shutVars
    <3>2. CASE Subs[sub] \in receivers /\ boot' = "activate" /\ UNCHANGED chanVars
      BY <1>0, <2>0, <2>2, <3>2 DEF BootInv, Making, StartGroup, chanVars, groupVars, shutVars
    <3> QED
      BY <2>2, <3>1, <3>2 DEF StartGroup
  <2>3. CASE StartSender
    BY <1>0, <2>0, <2>3 DEF BootInv, Making, StartSender, InitGroupSender, InsertSender, shutVars,
          Shape
  <2>4. CASE StartDispatcher
    BY <1>0, <2>0, <2>4 DEF BootInv, Making, StartDispatcher, chanVars, groupVars, shutVars
  <2>5. CASE StartFails \/ StartReturns
    BY <1>0, <2>0, <2>5 DEF BusTypes, BootInv, Making, StartFails, StartReturns, chanVars, groupVars,
          shutVars
  <2> QED
    BY <1>1, <2>1, <2>2, <2>3, <2>4, <2>5 DEF Start
<1>2. ASSUME NEW m \in Messages, ClientPublish(m) \/ ClientDrops(m) \/ PublishToChannel(m)
      PROVE  BootInv'
  <2>1. UNCHANGED <<groupVars, startVars, shutVars, dispVars>>
    BY <1>2 DEF ClientPublish, ClientDrops, PublishToChannel, Lookup, PublishBegin, Send,
          SendFull, SendTimeout, PublishDrop, GiveUp, chanVars
  <2> QED
    BY <1>0, <2>1, BootUnchanged DEF groupVars, startVars, shutVars, dispVars
<1>3. ASSUME NEW d \in Consumers, Dispatch(d) PROVE BootInv'
  <2>1. UNCHANGED <<groupVars, startVars, shutVars>>
    BY <1>3, DispatchKeepsGroups DEF BusInv, Dispatch, AwaitMessage, AcquireInSelect,
          DispatchMessage, LoopOnTimeout, BreakOnClosed, BreakOnCancel, DrainTask,
          DispatcherReturns
  <2>2. disp[d] \in {"top", "select", "drain"}
    BY <1>3 DEF Dispatch, AwaitMessage, AcquireInSelect, DispatchMessage, LoopOnTimeout,
          BreakOnClosed, BreakOnCancel, DrainTask, DispatcherReturns
  <2>3. shut # "done"
    BY <1>0, <2>2 DEF BootInv, AllReturned
  <2> QED
    BY <1>0, <2>1, <2>3, BootUnchanged DEF groupVars, startVars, shutVars
<1>4. ASSUME NEW d \in Consumers, NEW m \in Messages, Handle(d, m) PROVE BootInv'
  BY <1>0, <1>4, BootUnchanged DEF Handle, HandlerReply, HandlerOk, HandlerErr, HandlerPanics,
        Lookup, TaskEnds, chanVars, groupVars, startVars, dispVars, shutVars
<1>5. CASE Shutdown
  BY <1>0, <1>5 DEF BusTypes, BootInv, Making, AllReturned, Shutdown, ShutdownBegin, ShutdownClose, Close,
        ShutdownTimeout, ShutdownReturns, DrainOrClose, chanVars, groupVars, startVars, dispVars
<1>6. CASE UNCHANGED busVars
  BY <1>0, <1>6, BootUnchanged DEF busVars, chanVars, groupVars, startVars, dispVars, shutVars
<1> QED
  BY <1>1, <1>2, <1>3, <1>4, <1>5, <1>6 DEF BusNext

\* A step that leaves a dispatcher alone leaves its loop as it is.
LEMMA LoopUnchanged ==
  ASSUME NEW q \in Consumers, LoopInv(q), BusTypes,
         disp'[q] = disp[q], pc'[q] = pc[q], at'[q] = at[q],
         sub' \in {sub, sub + 1}, sealed \subseteq sealed', cancelled => cancelled'
  PROVE  LoopInv(q)'
<1>1. q \in Nat /\ sub \in Nat
  BY SubsFacts DEF BusTypes
<1> QED
  BY <1>1 DEF LoopInv, Stopped

\* Every step keeps every dispatcher in its loop.
LEMMA LoopStep ==
  ASSUME Shape, BusInv, [BusNext]_busVars, NEW q \in Consumers
  PROVE  LoopInv(q)'
<1>0. LoopInv(q) /\ BusTypes /\ BootInv /\ q \in Nat
  BY SubsFacts DEF BusInv
<1>1. CASE Start
  <2>1. UNCHANGED <<consVars, sealed, cancelled>>
    BY <1>1 DEF Start, StartSubscription, StartGroup, StartSender, StartDispatcher, StartFails,
          StartReturns, InitGroup, InitGroupSender, chanVars, queueVars, shutVars
  <2>2. CASE StartDispatcher /\ q = sub
    BY <1>0, <2>1, <2>2 DEF StartDispatcher, LoopInv, BusTypes, Stopped, consVars
  <2>3. CASE ~(StartDispatcher /\ q = sub)
    <3>1. disp'[q] = disp[q] /\ sub' \in {sub, sub + 1}
      BY <1>0, <1>1, <2>3 DEF BusTypes, Start, StartSubscription, StartGroup, StartSender,
            StartDispatcher, StartFails, StartReturns, dispVars
    <3> QED
      BY <1>0, <2>1, <3>1, LoopUnchanged DEF consVars
  <2> QED
    BY <2>2, <2>3
<1>2. ASSUME NEW m \in Messages, ClientPublish(m) \/ ClientDrops(m) \/ PublishToChannel(m)
      PROVE  LoopInv(q)'
  <2>1. UNCHANGED <<consVars, sealed, startVars, shutVars, dispVars>>
    BY <1>2 DEF ClientPublish, ClientDrops, PublishToChannel, Lookup, PublishBegin, Send,
          SendFull, SendTimeout, PublishDrop, GiveUp, chanVars, queueVars
  <2> QED
    BY <1>0, <2>1, LoopUnchanged DEF consVars, startVars, shutVars, dispVars
<1>3. ASSUME NEW d \in Consumers, Dispatch(d), d # q PROVE LoopInv(q)'
  <2>1. /\ disp'[q] = disp[q] /\ UNCHANGED <<sub, cancelled>>
    BY <1>0, <1>3 DEF BusTypes, Dispatch, AwaitMessage, AcquireInSelect, DispatchMessage,
          LoopOnTimeout, BreakOnClosed, BreakOnCancel, DrainTask, DispatcherReturns,
          startVars, shutVars, dispVars
  <2>2. pc'[q] = pc[q] /\ at'[q] = at[q] /\ sealed \subseteq sealed'
    BY <1>3, AwaitFindsGroup DEF Shape, ChanTypeOK, Dispatch, AcquireInSelect, AcquireReceiver,
          DispatchMessage, Receive, LoopOnTimeout, ReceiveTimeout, BreakOnClosed, ReceiveClosed,
          BreakOnCancel, ConsumeDrop, ConsumeReturn, DrainTask, DispatcherReturns, chanVars,
          queueVars, consVars
  <2> QED
    BY <1>0, <2>1, <2>2, LoopUnchanged
<1>4. ASSUME Dispatch(q) PROVE LoopInv(q)'
  <2> USE <1>0 DEF LoopInv, BusTypes, Stopped, Shape, ChanTypeOK, startVars, shutVars
  <2>1. CASE AwaitMessage(q)
    <3>1. pc' = [pc EXCEPT ![q] = "lock"] /\ at' = [at EXCEPT ![q] = Subs[q]]
      BY <2>1, AwaitFindsGroup
    <3>2. disp' = [disp EXCEPT ![q] = "select"] /\ disp[q] = "top" /\ sub' = sub
      BY <2>1 DEF AwaitMessage
    <3>3. pc'[q] = "lock" /\ at'[q] = Subs[q] /\ disp'[q] = "select" /\ q < sub
      BY <3>1, <3>2
    <3> QED
      BY <3>2, <3>3
  <2>2. CASE AcquireInSelect(q)
    BY <2>2 DEF AcquireInSelect, AcquireReceiver, dispVars, queueVars
  <2>3. CASE DispatchMessage(q) \/ LoopOnTimeout(q) \/ BreakOnCancel(q)
    BY <2>3 DEF DispatchMessage, Receive, LoopOnTimeout, ReceiveTimeout, BreakOnCancel,
          ConsumeDrop, ConsumeReturn
  <2>4. CASE BreakOnClosed(q)
    BY <2>4 DEF BreakOnClosed, ReceiveClosed, ConsumeReturn
  <2>5. CASE DrainTask(q) \/ DispatcherReturns(q)
    BY <2>5 DEF DrainTask, DispatcherReturns, chanVars, consVars, queueVars
  <2> QED
    BY <1>4, <2>1, <2>2, <2>3, <2>4, <2>5 DEF Dispatch
<1>5. ASSUME NEW d \in Consumers, NEW m \in Messages, Handle(d, m) PROVE LoopInv(q)'
  BY <1>0, <1>5, LoopUnchanged DEF Handle, HandlerReply, HandlerOk, HandlerErr, HandlerPanics,
        Lookup, TaskEnds, chanVars, consVars, queueVars, startVars, dispVars, shutVars
<1>6. CASE Shutdown
  <2>1. UNCHANGED <<consVars, sealed, sub, disp>>
    BY <1>6 DEF Shutdown, ShutdownBegin, ShutdownClose, Close, ShutdownTimeout,
          ShutdownReturns, chanVars, queueVars, startVars, dispVars
  <2>2. cancelled' = cancelled \/ cancelled' = TRUE
    BY <1>6 DEF Shutdown, ShutdownBegin, ShutdownClose, ShutdownTimeout, ShutdownReturns
  <2>3. cancelled => cancelled'
    BY <2>2
  <2> QED
    BY <1>0, <2>1, <2>3, LoopUnchanged DEF consVars
<1>7. CASE UNCHANGED busVars
  BY <1>0, <1>7, LoopUnchanged DEF busVars, chanVars, consVars, queueVars, startVars, dispVars,
        shutVars
<1> QED
  BY <1>1, <1>2, <1>3, <1>4, <1>5, <1>6, <1>7 DEF BusNext

\* A step that leaves the tasks and the loop of a dispatcher alone.
LEMMA TaskUnchanged ==
  ASSUME NEW q \in Consumers, TaskInv(q), running'[q] = running[q], ended'[q] = ended[q],
         \/ disp'[q] = disp[q]
         \/ disp'[q] \in {"top", "drain"}
  PROVE  TaskInv(q)'
BY DEF TaskInv, Tasks, Limit

\* Every step keeps the tasks of every dispatcher within the limit.
LEMMA TaskStep ==
  ASSUME BusInv, [BusNext]_busVars, NEW q \in Consumers
  PROVE  TaskInv(q)'
<1>01. TaskInv(q) /\ BusTypes /\ ended[q] \in Nat
  BY DEF BusInv, BusTypes
<1>02. Limit \in Nat /\ 0 < Limit
  BY BusAssumption DEF Limit
<1>0. TaskInv(q) /\ BusTypes /\ ended[q] \in Nat /\ Limit \in Nat /\ 0 < Limit
  BY <1>01, <1>02
<1>1. Cardinality(running[q]) \in Nat
  BY <1>0, FS_CardinalityType DEF TaskInv
<1>2. CASE Start
  <2>1. UNCHANGED <<running, ended>> /\ (disp'[q] = disp[q] \/ disp'[q] = "top")
    BY <1>0, <1>2 DEF BusTypes, Start, StartSubscription, StartGroup, StartSender, StartDispatcher,
          StartFails, StartReturns, dispVars
  <2> QED
    BY <1>0, <2>1, TaskUnchanged
<1>3. ASSUME NEW m \in Messages, ClientPublish(m) \/ ClientDrops(m) \/ PublishToChannel(m)
      PROVE  TaskInv(q)'
  BY <1>0, <1>3, TaskUnchanged DEF ClientPublish, ClientDrops, PublishToChannel, Lookup, dispVars
<1>4. ASSUME NEW d \in Consumers, Dispatch(d), d # q PROVE TaskInv(q)'
  <2>1. disp'[q] = disp[q] /\ running'[q] = running[q] /\ ended'[q] = ended[q]
    BY <1>0, <1>4 DEF BusTypes, Dispatch, AwaitMessage, AcquireInSelect, DispatchMessage,
          LoopOnTimeout, BreakOnClosed, BreakOnCancel, DrainTask, DispatcherReturns, dispVars
  <2> QED
    BY <1>0, <2>1, TaskUnchanged
<1>5. ASSUME Dispatch(q) PROVE TaskInv(q)'
  <2>1. CASE AwaitMessage(q)
    BY <1>0, <1>1, <2>1, BusAssumption DEF AwaitMessage, BusTypes, TaskInv, Tasks, Limit
  <2>2. CASE DispatchMessage(q)
    <3> DEFINE m == NextMsg(at[q])
    <3>1. /\ running'[q] = running[q] \cup {m} /\ ended'[q] = ended[q] /\ disp'[q] = "top"
          /\ Tasks(q) < Limit
      BY <1>0, <2>2 DEF DispatchMessage, BusTypes, TaskInv
    <3>2. /\ IsFiniteSet(running[q] \cup {m})
          /\ Cardinality(running[q] \cup {m}) \in {Cardinality(running[q]), Cardinality(running[q]) + 1}
      BY <1>0, FS_AddElement DEF TaskInv
    <3> HIDE DEF m
    <3> QED
      BY <1>0, <1>1, <3>1, <3>2 DEF TaskInv, Tasks, Limit
  <2>3. CASE AcquireInSelect(q) \/ LoopOnTimeout(q) \/ BreakOnClosed(q) \/ BreakOnCancel(q)
    BY <1>0, <2>3, TaskUnchanged DEF AcquireInSelect, LoopOnTimeout, BreakOnClosed, BreakOnCancel,
          BusTypes, dispVars
  <2>4. CASE DrainTask(q)
    BY <1>0, <1>1, <2>4 DEF DrainTask, BusTypes, TaskInv, Tasks, Limit
  <2>5. CASE DispatcherReturns(q)
    BY <1>0, <1>1, <2>5 DEF DispatcherReturns, BusTypes, TaskInv, Tasks, Limit
  <2> QED
    BY <1>5, <2>1, <2>2, <2>3, <2>4, <2>5 DEF Dispatch
<1>6. ASSUME NEW d \in Consumers, NEW m \in Messages, Handle(d, m) PROVE TaskInv(q)'
  <2>1. CASE TaskEnds(d, m) /\ d = q
    <3>1. /\ running'[q] = running[q] \ {m} /\ ended'[q] = ended[q] + 1 /\ disp'[q] = disp[q]
          /\ m \in running[q]
      BY <1>0, <2>1 DEF TaskEnds, BusTypes
    <3>2. /\ IsFiniteSet(running[q] \ {m})
          /\ Cardinality(running[q] \ {m}) = Cardinality(running[q]) - 1
      BY <1>0, <3>1, FS_RemoveElement DEF TaskInv
    <3> QED
      BY <1>0, <1>1, <3>1, <3>2 DEF TaskInv, Tasks, Limit
  <2>2. CASE TaskEnds(d, m) /\ d # q
    BY <1>0, <2>2, TaskUnchanged DEF TaskEnds, BusTypes
  <2>3. CASE HandlerReply(d, m)
    BY <1>0, <2>3, TaskUnchanged DEF HandlerReply, Lookup, dispVars
  <2> QED
    BY <1>6, <2>1, <2>2, <2>3 DEF Handle, HandlerOk, HandlerErr, HandlerPanics
<1>7. CASE Shutdown
  BY <1>0, <1>7, TaskUnchanged DEF Shutdown, ShutdownBegin, ShutdownClose, ShutdownTimeout,
        ShutdownReturns, dispVars
<1>8. CASE UNCHANGED busVars
  BY <1>0, <1>8, TaskUnchanged DEF busVars, dispVars
<1> QED
  BY <1>2, <1>3, <1>4, <1>5, <1>6, <1>7, <1>8 DEF BusNext

\* Shape and BusInv are inductive together: the channels give the types of
\* what is received, the bus gives the endpoints its channels are used with.
THEOREM BusInvariant == BusSpec => [](Shape /\ BusInv)
<1>1. BusInit => Shape /\ BusInv
  BY BusInvInit, ShapeInit DEF BusInit
<1>2. Shape /\ BusInv /\ [BusNext]_busVars => (Shape /\ BusInv)'
  <2> SUFFICES ASSUME Shape, BusInv, [BusNext]_busVars PROVE (Shape /\ BusInv)'
    OBVIOUS
  <2>1. Shape'
    BY BusStepIsChannelStep, ShapeStep DEF BusInv
  <2>2. BusInv'
    <3>1. BusTypes' /\ BootInv'
      BY BusTypesStep, BootStep
    <3>2. ASSUME NEW d \in Consumers PROVE LoopInv(d)' /\ TaskInv(d)'
      BY LoopStep, TaskStep
    <3> QED
      BY <3>1, <3>2 DEF BusInv
  <2> QED
    BY <2>1, <2>2
<1> QED
  BY <1>1, <1>2, PTL DEF BusSpec

\* The channels of the bus behave as channels: what holds of ChanSpec holds.
THEOREM BusUsesChannels == BusSpec => ChanSpec
<1>1. BusInit => ChanInit
  BY DEF BusInit
<1>2. BusInv /\ [BusNext]_busVars => [ChanNext]_chanVars
  BY BusStepIsChannelStep DEF BusInv
<1> QED
  BY <1>1, <1>2, BusInvariant, PTL DEF BusSpec, ChanSpec

-----------------------------------------------------------------------------
(***************************************************************************)
(* Replies: a call begins only after its channel was found, the call of a  *)
(* reply finds the channel of its header, and an acked handler saw it Ok.  *)
(***************************************************************************)
ReplyCall(d, m) ==
  ReplyTo[m] # None =>
    /\ found[Reply[d][m]] \in {None, ReplyTo[m]}
    /\ <<d, m>> \in acked => status[Reply[d][m]] = "ok"

ReplyInv ==
  /\ \A m \in Messages : status[m] # "new" => found[m] # None
  /\ \A d \in Consumers, m \in Messages : ReplyCall(d, m)

\* Only the clients and the handlers touch a call or settle a message.
LEMMA OthersLeaveCalls ==
  ASSUME [BusNext]_busVars,
         ~\E m \in Messages : ClientPublish(m) \/ ClientDrops(m) \/ PublishToChannel(m),
         ~\E d \in Consumers, m \in Messages : Handle(d, m)
  PROVE  UNCHANGED <<status, found, acked>>
<1>1. CASE Start
  BY <1>1 DEF Start, StartSubscription, StartGroup, StartSender, StartDispatcher, StartFails,
        StartReturns, InitGroup, InitGroupSender, chanVars, callVars, sendVars, dispVars
<1>2. ASSUME NEW d \in Consumers, Dispatch(d) PROVE UNCHANGED <<status, found, acked>>
  BY <1>2 DEF Dispatch, AwaitMessage, ConsumeBegin, AcquireInSelect, AcquireReceiver,
        DispatchMessage, Receive, LoopOnTimeout, ReceiveTimeout, BreakOnClosed, ReceiveClosed,
        BreakOnCancel, ConsumeDrop, ConsumeReturn, DrainTask, DispatcherReturns, chanVars,
        callVars, sendVars, dispVars
<1>3. CASE Shutdown
  BY <1>3 DEF Shutdown, ShutdownBegin, ShutdownClose, Close, ShutdownTimeout, ShutdownReturns,
        chanVars, callVars, sendVars, dispVars
<1>4. CASE UNCHANGED busVars
  BY <1>4 DEF busVars, chanVars, callVars, sendVars, dispVars
<1> QED
  BY <1>1, <1>2, <1>3, <1>4 DEF BusNext

\* A lookup finds the channel it asks for; nobody asks for another reply.
LEMMA LookupStep ==
  ASSUME BusTypes, ReplyInv, NEW n \in Messages, NEW ch \in Channels, Lookup(n, ch),
         \A d \in Consumers, m \in Messages :
           ReplyTo[m] # None /\ Reply[d][m] = n => ReplyTo[m] = ch,
         UNCHANGED acked
  PROVE  ReplyInv'
<1>0. None \notin Channels /\ UNCHANGED status
  BY BusAssumption DEF Lookup, chanVars, callVars
<1>1. \/ UNCHANGED found
      \/ found' = [found EXCEPT ![n] = ch]
  BY DEF Lookup
<1>2. ASSUME NEW m \in Messages, status'[m] # "new" PROVE found'[m] # None
  BY <1>0, <1>1, <1>2 DEF ReplyInv, BusTypes
<1>3. ASSUME NEW d \in Consumers, NEW m \in Messages PROVE ReplyCall(d, m)'
  BY <1>0, <1>1, <1>3, ReplyFacts DEF ReplyInv, ReplyCall, BusTypes
<1> QED
  BY <1>2, <1>3 DEF ReplyInv

\* A step of a call that has found its channel.
LEMMA PublishKeepsReplies ==
  ASSUME Shape, BusTypes, ReplyInv, NEW n \in Messages, ClientDrops(n) \/ PublishToChannel(n)
  PROVE  ReplyInv'
<1>1. /\ UNCHANGED <<found, acked>>
      /\ found[n] # None
      /\ \A m \in Messages : m # n => status'[m] = status[m]
      /\ status[n] # "ok"
  BY DEF Shape, CallsInShape, ReplyInv, ClientDrops, PublishToChannel, PublishBegin, Send, Advance,
     SendFull, SendTimeout, PublishDrop, GiveUp, sendVars, dispVars
<1>2. ASSUME NEW m \in Messages, status'[m] # "new" PROVE found'[m] # None
  BY <1>1, <1>2 DEF ReplyInv
<1>3. ASSUME NEW d \in Consumers, NEW m \in Messages PROVE ReplyCall(d, m)'
  BY <1>1, <1>3, ReplyFacts DEF ReplyInv, ReplyCall
<1> QED
  BY <1>2, <1>3 DEF ReplyInv

\* Every step keeps the calls of the handlers in line with their outcome.
LEMMA ReplyStep ==
  ASSUME Shape, BusInv, ReplyInv, [BusNext]_busVars
  PROVE  ReplyInv'
<1>0. BusTypes
  BY DEF BusInv
<1>1. ASSUME NEW n \in Messages, ClientPublish(n) PROVE ReplyInv'
  <2>1. PICK ch \in Channels : Lookup(n, ch)
    BY <1>1 DEF ClientPublish
  <2>2. \A d \in Consumers, m \in Messages : ~(ReplyTo[m] # None /\ Reply[d][m] = n)
    BY <1>1, ReplyFacts DEF ClientPublish
  <2> QED
    BY <1>0, <2>1, <2>2, LookupStep DEF Lookup, dispVars
<1>2. ASSUME NEW n \in Messages, ClientDrops(n) \/ PublishToChannel(n) PROVE ReplyInv'
  BY <1>0, <1>2, PublishKeepsReplies
<1>3. ASSUME NEW d \in Consumers, NEW m \in Messages, HandlerReply(d, m) PROVE ReplyInv'
  <2>1. /\ Reply[d][m] \in Messages /\ ReplyTo[m] \in Channels /\ Lookup(Reply[d][m], ReplyTo[m])
        /\ Reply[d][m] # None
    BY <1>3, ReplyFacts, BusAssumption DEF HandlerReply
  <2>2. \A c \in Consumers, x \in Messages : Reply[c][x] = Reply[d][m] => x = m
    BY <2>1, BusAssumption
  <2> QED
    BY <1>0, <2>1, <2>2, LookupStep DEF Lookup, dispVars
<1>4. ASSUME NEW d \in Consumers, NEW m \in Messages,
             HandlerOk(d, m) \/ HandlerErr(d, m) \/ HandlerPanics(d, m)
      PROVE  ReplyInv'
  <2>1. UNCHANGED <<status, found>>
    BY <1>4 DEF HandlerOk, HandlerErr, HandlerPanics, TaskEnds, chanVars, callVars, sendVars
  <2>2. \/ UNCHANGED acked
        \/ /\ acked' = acked \cup {<<d, m>>}
           /\ ReplyTo[m] # None => status[Reply[d][m]] = "ok"
    BY <1>4 DEF HandlerOk, HandlerErr, HandlerPanics, ReplySent
  <2> QED
    BY <2>1, <2>2 DEF ReplyInv, ReplyCall
<1>5. CASE UNCHANGED <<status, found, acked>>
  BY <1>5 DEF ReplyInv, ReplyCall
<1> QED
  BY <1>1, <1>2, <1>3, <1>4, <1>5, OthersLeaveCalls DEF Handle

-----------------------------------------------------------------------------
(***************************************************************************)
(* What a group has received is shared out among its dispatchers.          *)
(***************************************************************************)
Received(e) == {log[e][i] : i \in 1..head[e]}
With(d)     == running[d] \cup Settled(d)

Shared(e) ==
  /\ Received(e) = UNION {With(d) : d \in On(e)}
  /\ \A d1, d2 \in On(e) : d1 # d2 => With(d1) \cap With(d2) = {}

SettledOnce ==
  /\ \A d \in Consumers : running[d] \cap Settled(d) = {}
  /\ acked \cap nacked = {}
  /\ (acked \cup nacked) \cap panicked = {}

HandledInv == SettledOnce /\ \A e \in Endpoint : Shared(e)

\* A group that receives gets a message it had not received before.
LEMMA ReceivedStep ==
  ASSUME Shape, NoDuplicates, NEW d \in Consumers, Receive(d),
         NEW f, f = at[d], NEW m, m = NextMsg(f)
  PROVE  /\ f \in Endpoint /\ m \in Messages /\ m \notin Received(f)
         /\ Received(f)' = Received(f) \cup {m}
         /\ \A e \in Endpoint \ {f} : Received(e)' = Received(e)
<1>1. f \in Endpoint /\ head[f] \in Nat /\ Len(log[f]) \in Nat /\ head[f] < Len(log[f])
  BY DEF Shape, ChanTypeOK, Receive, IsEmpty, Queued
<1>2. log[f] \in Seq(Messages) /\ m = log[f][head[f] + 1]
  BY <1>1 DEF Shape, ChanTypeOK, NextMsg
<1>3. m \in Messages
  BY <1>1, <1>2
<1>4. m \notin Received(f)
  BY <1>1, <1>2 DEF NoDuplicates, Received
<1>5. head' = [head EXCEPT ![f] = @ + 1] /\ UNCHANGED log
  BY DEF Receive
<1>6. head'[f] = head[f] + 1 /\ \A e \in Endpoint \ {f} : head'[e] = head[e]
  BY <1>1, <1>5 DEF Shape, ChanTypeOK
<1>7. 1..(head[f] + 1) = (1..head[f]) \cup {head[f] + 1}
  BY <1>1
<1>8. Received(f)' = Received(f) \cup {m}
  <2>1. Received(f)' = {log[f][i] : i \in 1..(head[f] + 1)}
    BY <1>5, <1>6 DEF Received
  <2> QED
    BY <1>2, <1>7, <2>1 DEF Received
<1>9. \A e \in Endpoint \ {f} : Received(e)' = Received(e)
  BY <1>5, <1>6 DEF Received
<1> QED
  BY <1>1, <1>3, <1>4, <1>8, <1>9

\* Every other step leaves what was received as it is.
LEMMA ReceivedUnchanged ==
  ASSUME Shape, ClosedIsFinal, DeliveryInv, [ChanNext]_chanVars, UNCHANGED head,
         NEW e \in Endpoint
  PROVE  Received(e)' = Received(e)
<1>1. head[e] \in Nat /\ Len(log[e]) \in Nat /\ head[e] <= Len(log[e]) /\ log[e] \in Seq(Messages)
  BY DEF Shape, ChanTypeOK
<1>2. \A i \in 1..Len(log[e]) : log'[e][i] = log[e][i]
  <2>1. [Delivery!Next]_(Delivery!streamVars)
    BY StepSimulation
  <2>2. log'[e] = log[e] \/ \E m \in Messages : log'[e] = Append(log[e], m)
    BY <2>1 DEF Delivery!Next, Delivery!Accept, Delivery!HandOut, Delivery!DeclareClosed,
       Delivery!streamVars, Shape, ChanTypeOK
  <2> QED
    BY <1>1, <2>2
<1> QED
  BY <1>1, <1>2 DEF Received

\* Only a dispatcher that dispatches receives; only it and the end of a task
\* change what a dispatcher has.
LEMMA OthersLeaveHandled ==
  ASSUME BusInv, [BusNext]_busVars, ~\E d \in Consumers : DispatchMessage(d),
         ~\E d \in Consumers, m \in Messages : HandlerOk(d, m) \/ HandlerErr(d, m) \/ HandlerPanics(d, m)
  PROVE  UNCHANGED <<head, running, acked, nacked, panicked>>
<1>1. CASE Start
  BY <1>1 DEF Start, StartSubscription, StartGroup, StartSender, StartDispatcher, StartFails,
        StartReturns, InitGroup, InitGroupSender, chanVars, queueVars, dispVars
<1>2. ASSUME NEW m \in Messages, ClientPublish(m) \/ ClientDrops(m) \/ PublishToChannel(m)
      PROVE  UNCHANGED <<head, running, acked, nacked, panicked>>
  BY <1>2 DEF ClientPublish, ClientDrops, PublishToChannel, Lookup, PublishBegin, Send,
        SendFull, SendTimeout, PublishDrop, GiveUp, chanVars, queueVars, dispVars
<1>3. ASSUME NEW d \in Consumers, Dispatch(d), ~DispatchMessage(d)
      PROVE  UNCHANGED <<head, running, acked, nacked, panicked>>
  BY <1>3 DEF Dispatch, AwaitMessage, ConsumeBegin, AcquireInSelect, AcquireReceiver,
        LoopOnTimeout, ReceiveTimeout, BreakOnClosed, ReceiveClosed, BreakOnCancel, ConsumeDrop,
        DrainTask, DispatcherReturns, chanVars, queueVars, dispVars
<1>4. ASSUME NEW d \in Consumers, NEW m \in Messages, HandlerReply(d, m)
      PROVE  UNCHANGED <<head, running, acked, nacked, panicked>>
  BY <1>4 DEF HandlerReply, Lookup, chanVars, queueVars, dispVars
<1>5. CASE Shutdown
  BY <1>5 DEF Shutdown, ShutdownBegin, ShutdownClose, Close, ShutdownTimeout, ShutdownReturns,
        chanVars, queueVars, dispVars
<1>6. CASE UNCHANGED busVars
  BY <1>6 DEF busVars, chanVars, queueVars, dispVars
<1> QED
  BY <1>1, <1>2, <1>3, <1>4, <1>5, <1>6 DEF BusNext, Handle

\* A dispatcher that takes a message is the only one of its group to have it.
LEMMA DispatchShares ==
  ASSUME Shape, NoDuplicates, BusInv, HandledInv, NEW d \in Consumers, DispatchMessage(d)
  PROVE  HandledInv'
<1> SUFFICES ASSUME NEW m, m = NextMsg(at[d]) PROVE HandledInv'
  OBVIOUS
<1>1. Receive(d) /\ running' = [running EXCEPT ![d] = @ \cup {m}]
      /\ UNCHANGED <<acked, nacked, panicked>>
  BY DEF DispatchMessage
<1>2. at[d] = Subs[d] /\ Subs[d] \in Endpoint /\ BusTypes
  BY SubsFacts DEF BusInv, LoopInv, DispatchMessage
<1>3. /\ m \in Messages /\ m \notin Received(Subs[d])
      /\ Received(Subs[d])' = Received(Subs[d]) \cup {m}
      /\ \A e \in Endpoint \ {Subs[d]} : Received(e)' = Received(e)
  BY <1>1, <1>2, ReceivedStep
<1>4. m \notin With(d) /\ \A c \in On(Subs[d]) : m \notin With(c)
  BY <1>2, <1>3 DEF HandledInv, Shared, On
<1>5. /\ \A c \in Consumers : Settled(c)' = Settled(c)
      /\ running'[d] = running[d] \cup {m}
      /\ \A c \in Consumers \ {d} : running'[c] = running[c]
  BY <1>1, <1>2 DEF BusTypes, Settled
<1>6. With(d)' = With(d) \cup {m} /\ \A c \in Consumers \ {d} : With(c)' = With(c)
  BY <1>5 DEF With
<1>7. SettledOnce'
  BY <1>1, <1>4, <1>5 DEF SettledOnce, HandledInv, With
<1>8. ASSUME NEW e \in Endpoint PROVE Shared(e)'
  <2>1. CASE e # Subs[d]
    <3>1. \A c \in On(e) : With(c)' = With(c)
      BY <1>6, <2>1 DEF On
    <3> QED
      BY <1>3, <2>1, <3>1 DEF Shared, HandledInv, On
  <2>2. CASE e = Subs[d]
    <3>1. Shared(e) /\ d \in On(e) /\ On(e) \subseteq Consumers
      BY <2>2 DEF HandledInv, On
    <3>2. \A x : x \in Received(e)' <=> \E c \in On(e) : x \in With(c)'
      BY <1>3, <1>6, <2>2, <3>1 DEF Shared
    <3>3. \A d1, d2 \in On(e) : d1 # d2 => With(d1)' \cap With(d2)' = {}
      BY <1>4, <1>6, <2>2, <3>1 DEF Shared
    <3> QED
      BY <3>2, <3>3 DEF Shared, On
  <2> QED
    BY <2>1, <2>2
<1> QED
  BY <1>7, <1>8 DEF HandledInv

\* A task that ends leaves its message with its dispatcher, settled once.
LEMMA SettlesOnce ==
  ASSUME BusInv, HandledInv, NEW d \in Consumers, NEW m \in Messages,
         HandlerOk(d, m) \/ HandlerErr(d, m) \/ HandlerPanics(d, m)
  PROVE  HandledInv'
<1>1. /\ m \in running[d] /\ running' = [running EXCEPT ![d] = @ \ {m}]
      /\ UNCHANGED <<log, head>>
  BY DEF HandlerOk, HandlerErr, HandlerPanics, TaskEnds, chanVars, queueVars
<1>2. <<d, m>> \notin acked \cup nacked \cup panicked
  BY <1>1 DEF HandledInv, SettledOnce, Settled
<1>3. /\ (acked \cup nacked \cup panicked)' = acked \cup nacked \cup panicked \cup {<<d, m>>}
      /\ (acked \cap nacked = {})' /\ ((acked \cup nacked) \cap panicked = {})'
  BY <1>2 DEF HandlerOk, HandlerErr, HandlerPanics, HandledInv, SettledOnce
<1>4. /\ Settled(d)' = Settled(d) \cup {m} /\ running'[d] = running[d] \ {m}
      /\ \A c \in Consumers \ {d} : Settled(c)' = Settled(c) /\ running'[c] = running[c]
  BY <1>1, <1>3 DEF Settled, BusInv, BusTypes
<1>5. \A c \in Consumers : With(c)' = With(c)
  BY <1>1, <1>4 DEF With
<1>6. SettledOnce'
  BY <1>3, <1>4 DEF SettledOnce, HandledInv
<1>7. ASSUME NEW e \in Endpoint PROVE Shared(e)'
  BY <1>1, <1>5 DEF Shared, HandledInv, Received, On
<1> QED
  BY <1>6, <1>7 DEF HandledInv

\* Every step keeps what was received shared out.
LEMMA HandledStep ==
  ASSUME Shape, ClosedIsFinal, DeliveryInv, NoDuplicates, BusInv, HandledInv, [BusNext]_busVars
  PROVE  HandledInv'
<1>1. CASE UNCHANGED <<head, running, acked, nacked, panicked>>
  <2>1. \A e \in Endpoint : Received(e)' = Received(e)
    BY <1>1, BusStepIsChannelStep, ReceivedUnchanged DEF BusInv
  <2>2. \A c \in Consumers : Settled(c)' = Settled(c) /\ With(c)' = With(c)
    BY <1>1 DEF Settled, With
  <2>3. ASSUME NEW e \in Endpoint PROVE Shared(e)'
    BY <2>1, <2>2 DEF Shared, HandledInv, On
  <2> QED
    BY <1>1, <2>2, <2>3 DEF HandledInv, SettledOnce
<1> QED
  BY <1>1, DispatchShares, SettlesOnce, OthersLeaveHandled

-----------------------------------------------------------------------------
(***************************************************************************)
(* The properties that follow.                                             *)
(***************************************************************************)
\* Every variable of the bus and its channels has its type.
THEOREM BusTypeCorrect == BusSpec => []BusTypeOK
<1>1. Shape /\ BusInv => BusTypeOK
  BY DEF Shape, BusInv, BusTypes, BusTypeOK
<1> QED
  BY <1>1, BusInvariant, PTL

\* A dispatcher that stops without being cancelled leaves nothing behind.
THEOREM OrderlyStop == BusSpec => []OrderlyStopLosesNothing
<1>1. BusInv /\ ClosedIsFinal => OrderlyStopLosesNothing
  BY DEF BusInv, LoopInv, ClosedIsFinal, OrderlyStopLosesNothing
<1> QED
  BY <1>1, BusInvariant, BusUsesChannels, ClosedIsFinalHolds, PTL

\* The handler tasks of a dispatcher stay within the concurrency limit.
THEOREM ConcurrencyIsBounded == BusSpec => []WithinConcurrency
<1>1. BusInv => WithinConcurrency
  BY DEF BusInv, TaskInv, Limit, WithinConcurrency
<1> QED
  BY <1>1, BusInvariant, PTL

\* From the end of start() to shutdown() every subscription is subscribed.
THEOREM StartSubscribes == BusSpec => []StartedMeansSubscribed
<1>1. BusInv => StartedMeansSubscribed
  <2> SUFFICES ASSUME BusInv, boot = "started", shut = "no", NEW d \in Consumers
               PROVE  Subs[d] \in senders
    BY DEF StartedMeansSubscribed
  <2>1. d \in 1..(sub - 1) /\ Making = {}
    BY SubsFacts DEF BusInv, BootInv, Making
  <2> QED
    BY <2>1 DEF BusInv, BootInv
<1> QED
  BY <1>1, BusInvariant, PTL

\* No handler task is left when shutdown() has returned.
THEOREM ShutdownLeavesNoTask == BusSpec => []NothingRunsAfterShutdown
<1>1. BusInv => NothingRunsAfterShutdown
  BY DEF BusInv, BootInv, AllReturned, TaskInv, NothingRunsAfterShutdown
<1> QED
  BY <1>1, BusInvariant, PTL

\* An acked handler whose message asks for a reply has sent it, to every group
\* of the channel the header names.
THEOREM AckedMeansRepliedHolds == BusSpec => []AckedMeansReplied
<1>1. BusInit => ReplyInv
  BY ReplyFacts DEF BusInit, ChanInit, ReplyInv, ReplyCall
<1>2. BusSpec => []ReplyInv
  BY <1>1, ReplyStep, BusInvariant, PTL DEF BusSpec
<1>3. ReplyInv /\ OutcomeMatchesDelivery => AckedMeansReplied
  <2> SUFFICES ASSUME ReplyInv, OutcomeMatchesDelivery, NEW d \in Consumers,
                      NEW m \in Messages, <<d, m>> \in acked, ReplyTo[m] # None,
                      NEW r, r = Reply[d][m]
               PROVE  /\ found[r] = ReplyTo[m]
                      /\ target[r] # {}
                      /\ \A e \in target[r] : r \in Logged(e)
    BY DEF AckedMeansReplied
  <2>1. r \in Messages /\ status[r] = "ok" /\ found[r] = ReplyTo[m]
    BY ReplyFacts DEF ReplyInv, ReplyCall
  <2>2. target[r] # {} /\ target[r] = {e \in Endpoint : r \in Logged(e)}
    BY <2>1 DEF OutcomeMatchesDelivery
  <2> QED
    BY <2>1, <2>2
<1> QED
  BY <1>2, <1>3, BusUsesChannels, OutcomeMatchesDeliveryHolds, PTL

\* Every message a group received is with exactly one of its dispatchers, where
\* its handler runs or has ended in exactly one way.
THEOREM HandledOnceHolds == BusSpec => []HandledOnce
<1>1. BusInit => HandledInv
  BY DEF BusInit, ChanInit, HandledInv, SettledOnce, Shared, Received, With, Settled, On
<1>2. BusSpec => []HandledInv
  BY <1>1, HandledStep, BusInvariant, BusUsesChannels, ClosedIsFinalHolds, DeliveryInvariant,
     NoDuplicatesHolds, PTL DEF BusSpec
<1>3. HandledInv => HandledOnce
  BY DEF HandledInv, SettledOnce, Shared, Received, With, HandledOnce, On
<1> QED
  BY <1>2, <1>3, PTL

\* When the last dispatcher of a group stops, cancelled or not, the queue of
\* the group is empty.
THEOREM LastStopLeavesNothingHolds == BusSpec => LastStopLeavesNothing
<1> DEFINE Last(e) == (\E d \in On(e) : ~Stopped(d)) /\ (\A d \in On(e) : Stopped(d)') => IsEmpty(e)'
<1>1. ASSUME Shape, BusInv, [BusNext]_busVars, NEW e \in Endpoint,
             NEW d \in On(e), ~Stopped(d), \A c \in On(e) : Stopped(c)'
      PROVE  IsEmpty(e)'
  <2>0. BusTypes /\ d \in Consumers /\ Subs[d] = e /\ Stopped(d)'
    BY <1>1 DEF BusInv, On
  <2>1. BreakOnClosed(d) \/ BreakOnCancel(d)
    <3>1. disp[d] \notin {"drain", "done"} /\ disp'[d] \in {"drain", "done"}
      BY <1>1, <2>0 DEF Stopped
    <3>2. ~Start
      BY <2>0, <3>1 DEF Start, StartSubscription, StartGroup, StartSender, StartDispatcher, StartFails,
         StartReturns, BusTypes, dispVars
    <3>3. \A m \in Messages : ~(ClientPublish(m) \/ ClientDrops(m) \/ PublishToChannel(m))
      BY <3>1 DEF ClientPublish, ClientDrops, PublishToChannel, Lookup, dispVars
    <3>4. \A c \in Consumers, m \in Messages : ~Handle(c, m)
      <4>1. \A c \in Consumers, m \in Messages : HandlerReply(c, m) => disp' = disp
        BY DEF HandlerReply, Lookup, dispVars
      <4>2. \A c \in Consumers, m \in Messages : TaskEnds(c, m) => disp' = disp
        BY DEF TaskEnds
      <4> QED
        BY <3>1, <4>1, <4>2 DEF Handle, HandlerOk, HandlerErr, HandlerPanics
    <3>5. ~Shutdown /\ ~UNCHANGED busVars
      BY <3>1 DEF Shutdown, ShutdownBegin, ShutdownClose, ShutdownTimeout, ShutdownReturns, busVars, dispVars
    <3>6. PICK c \in Consumers : Dispatch(c)
      BY <1>1, <3>2, <3>3, <3>4, <3>5 DEF BusNext
    <3>7. BreakOnClosed(c) \/ BreakOnCancel(c)
      BY <2>0, <3>1, <3>6 DEF Dispatch, AwaitMessage, AcquireInSelect, DispatchMessage, LoopOnTimeout,
         DrainTask, DispatcherReturns, BusTypes, dispVars
    <3>8. c = d
      BY <2>0, <3>1, <3>7 DEF BreakOnClosed, BreakOnCancel, BusTypes
    <3> QED
      BY <3>7, <3>8
  <2>2. at[d] = e /\ UNCHANGED <<log, head>>
    BY <1>1, <2>0, <2>1 DEF BusInv, LoopInv, BreakOnClosed, ReceiveClosed, BreakOnCancel,
       ConsumeDrop, queueVars
  <2>3. IsEmpty(e)
    <3>1. CASE BreakOnClosed(d) \/ RecvPending(e)
      BY <2>2, <3>1 DEF BreakOnClosed, ReceiveClosed, RecvPending
    <3>2. CASE BreakOnCancel(d) /\ pc[d] = "lock" /\ Locked(e)
      <4>1. PICK c \in Consumers : pc[c] = "recv" /\ at[c] = e
        BY <3>2 DEF Locked
      <4>2. c \in On(e) /\ disp[c] = "select" /\ c # d
        BY <1>1, <3>2, <4>1 DEF BusInv, LoopInv, On
      <4>3. disp'[c] = disp[c]
        BY <2>0, <3>2, <4>2 DEF BreakOnCancel, BusTypes
      <4> QED
        BY <1>1, <4>2, <4>3 DEF Stopped
    <3> QED
      BY <2>1, <2>2, <3>1, <3>2 DEF BreakOnCancel, ConsumeDrop
  <2> QED
    BY <2>2, <2>3 DEF IsEmpty, Queued
<1>2. Shape /\ BusInv /\ [BusNext]_busVars => [\A e \in Endpoint : Last(e)]_busVars
  BY <1>1
<1> QED
  BY <1>2, BusInvariant, PTL DEF BusSpec, LastStopLeavesNothing

-----------------------------------------------------------------------------
(***************************************************************************)
(* The inductive invariant of the runtime.                                 *)
(***************************************************************************)
RtTypes ==
  /\ rt \in {"new", "bus", "up", "failed", "stopping", "signalled", "down"}
  /\ server \in {"off", "bind", "accept", "drain", "done"}
  /\ conn \in [Conns -> {"new", "idle", "busy", "closed"}]
  /\ serving \in [Conns -> Messages \cup {None}]
  /\ \A c \in Conns : serving[c] # None <=> conn[c] = "busy"
  /\ response \in [Messages -> {"202", "other", None}]
  /\ forced \in BOOLEAN

\* start() has done nothing with the bus.
Fresh == boot = "new" /\ sub = 1

\* The phase of the runtime says where the bus is: in particular a shutdown that is
\* over has stopped the bus, or the bus was never started.
StopInv ==
  /\ rt = "new" => Fresh /\ server = "off"
  /\ rt = "up" => boot = "started"
  /\ rt \in {"failed", "stopping"} => boot \in {"started", "failed"} \/ Fresh
  /\ rt \in {"signalled", "down"} => shut = "done" \/ Fresh
  /\ rt = "down" => server \in {"off", "done"}

\* A server that is not listening has connections only if it left them behind.
ConnInv ==
  server \in {"off", "bind"} \/ (server = "done" /\ ~forced) => AllClosed

RtInv == RtTypes /\ StopInv /\ ConnInv

\* Before start() nothing runs.
LEMMA RtInvInit == RtInit => RtInv
BY DEF RtInit, BusInit, RtInv, RtTypes, StopInv, ConnInv, Fresh, AllClosed

-----------------------------------------------------------------------------
(***************************************************************************)
(* The runtime uses the bus as MessageBus lets it be used.                 *)
(***************************************************************************)
\* Every step of the runtime is a step of the bus, or leaves it alone.
LEMMA RtStepIsBusStep ==
  ASSUME RtTypes, [RtNext]_sysVars
  PROVE  [BusNext]_busVars
<1>1. CASE Lifecycle
  BY <1>1 DEF Lifecycle, StartHttp, StartHttpFails, StartBus, Stop, StopBus, StopUnstartedBus,
        StopReturns, BusNext
<1>2. CASE Server
  BY <1>2 DEF Server, Bind, Accept, AcceptFails, StopAccepting, Drained, DrainTimeout, ServerGoto
<1>3. ASSUME NEW c \in Conns, Connection(c)
      PROVE  [BusNext]_busVars
  <2>1. serving[c] # None => serving[c] \in Messages
    BY DEF RtTypes
  <2>2. CASE RequestLookup(c)
    BY <2>1, <2>2 DEF RequestLookup, BusNext
  <2>3. CASE ConnLost(c)
    BY <2>1, <2>3 DEF ConnLost, BusNext
  <2>4. CASE (\E m \in Messages : Serve(c, m)) \/ CloseIdle(c) \/ Responses(c)
    BY <2>4 DEF Serve, CloseIdle, Responses, AnswerRejected, AnswerInvoked, AnswerFailed,
          AnswerAccepted, AnswerReply, AnswerTimeout, Answer
  <2> QED
    BY <1>3, <2>2, <2>3, <2>4 DEF Connection
<1>4. CASE BusTasks
  BY <1>4 DEF BusTasks, BusNext
<1>5. CASE UNCHANGED sysVars
  BY <1>5 DEF sysVars
<1> QED
  BY <1>1, <1>2, <1>3, <1>4, <1>5 DEF RtNext

-----------------------------------------------------------------------------
(***************************************************************************)
(* The invariant is inductive.                                             *)
(***************************************************************************)
\* What a step of a connection does to it: a request begins, it closes while it
\* has none, or its request ends, with or without an answer.
Begins(c, m) ==
  /\ conn[c] = "idle" /\ ~ToldToClose
  /\ conn' = [conn EXCEPT ![c] = "busy"]
  /\ serving' = [serving EXCEPT ![c] = m]
  /\ response' = response

Closes(c) ==
  /\ conn[c] = "idle"
  /\ conn' = [conn EXCEPT ![c] = "closed"]
  /\ UNCHANGED <<serving, response>>

Ends(c, to) ==
  /\ serving[c] # None
  /\ conn' = [conn EXCEPT ![c] = to]
  /\ serving' = [serving EXCEPT ![c] = None]

Unanswered == response' = response
Answered(c, code) == response' = [response EXCEPT ![serving[c]] = code]

ConnectionDoes(c) ==
  /\ UNCHANGED <<rt, server, forced>>
  /\ \/ UNCHANGED <<conn, serving, response>>
     \/ \E m \in Messages : Begins(c, m)
     \/ Closes(c)
     \/ \E to \in {"idle", "closed"} :
          Ends(c, to) /\ (Unanswered \/ \E code \in {"202", "other"} : Answered(c, code))

\* Every step of a connection is one of these.
LEMMA ConnectionStep ==
  ASSUME RtTypes, NEW c \in Conns, Connection(c)
  PROVE  ConnectionDoes(c)
<1>1. ASSUME NEW m \in Messages, Serve(c, m)
      PROVE  ConnectionDoes(c)
  <2>1. Begins(c, m) /\ UNCHANGED <<rt, server, forced>>
    BY <1>1 DEF Serve, Begins
  <2> QED
    BY <2>1 DEF ConnectionDoes
<1>2. CASE CloseIdle(c)
  BY <1>2 DEF CloseIdle, Closes, ConnectionDoes
<1>3. CASE RequestLookup(c)
  BY <1>3 DEF RequestLookup, rtVars, httpVars, ConnectionDoes
<1>4. CASE Responses(c)
  <2>1. serving[c] # None
    BY <1>4, RuntimeAssumption, BusAssumption
    DEF Responses, AnswerRejected, AnswerInvoked, AnswerFailed, AnswerAccepted, AnswerReply, AnswerTimeout
  <2>2. PICK code \in {"202", "other"} : Answer(c, code)
    BY <1>4 DEF Responses, AnswerRejected, AnswerInvoked, AnswerFailed, AnswerAccepted, AnswerReply, AnswerTimeout
  <2>3. PICK to \in {"idle", "closed"} : to = IF ToldToClose THEN "closed" ELSE "idle"
    OBVIOUS
  <2>4. Ends(c, to) /\ Answered(c, code) /\ UNCHANGED <<rt, server, forced>>
    BY <2>1, <2>2, <2>3 DEF Answer, Ends, Answered
  <2> QED
    BY <2>4 DEF ConnectionDoes
<1>5. CASE ConnLost(c)
  <2>1. Ends(c, "closed") /\ Unanswered /\ UNCHANGED <<rt, server, forced>>
    BY <1>5 DEF ConnLost, Ends, Unanswered
  <2> QED
    BY <2>1 DEF ConnectionDoes
<1> QED
  BY <1>1, <1>2, <1>3, <1>4, <1>5 DEF Connection

\* Every step keeps the types of the variables of the runtime.
LEMMA RtTypesStep ==
  ASSUME RtTypes, [RtNext]_sysVars
  PROVE  RtTypes'
<1>1. CASE Lifecycle
  BY <1>1 DEF Lifecycle, StartHttp, StartHttpFails, StartBus, Stop, StopBus, StopUnstartedBus,
        StopReturns, RtTypes, httpVars
<1>2. CASE Server
  BY <1>2 DEF Server, Bind, Accept, AcceptFails, StopAccepting, Drained, DrainTimeout, ServerGoto, RtTypes
<1>3. ASSUME NEW c \in Conns, Connection(c)
      PROVE  RtTypes'
  <2>1. ConnectionDoes(c)
    BY <1>3, ConnectionStep
  <2> USE DEF RtTypes
  <2>2. UNCHANGED <<rt, server, forced>>
    BY <2>1 DEF ConnectionDoes
  <2>3. CASE UNCHANGED <<conn, serving, response>>
    BY <2>2, <2>3
  <2>4. ASSUME NEW m \in Messages, Begins(c, m) PROVE RtTypes'
    BY <2>2, <2>4, BusAssumption DEF Begins
  <2>5. CASE Closes(c)
    BY <2>2, <2>5 DEF Closes
  <2>6. ASSUME NEW to \in {"idle", "closed"}, Ends(c, to),
               Unanswered \/ \E code \in {"202", "other"} : Answered(c, code)
        PROVE  RtTypes'
    <3>1. response' \in [Messages -> {"202", "other", None}]
      BY <2>6 DEF Unanswered, Answered
    <3> QED
      BY <2>2, <2>6, <3>1 DEF Ends
  <2> QED
    BY <2>1, <2>3, <2>4, <2>5, <2>6 DEF ConnectionDoes
<1>4. CASE BusTasks \/ UNCHANGED sysVars
  BY <1>4 DEF BusTasks, sysVars, rtVars, httpVars, RtTypes
<1> QED
  BY <1>1, <1>2, <1>3, <1>4 DEF RtNext

\* Only start() moves the bus out of its first phase, and only Runtime::start calls it.
LEMMA BootSteps ==
  ASSUME [RtNext]_sysVars, RtTypes, ~StartBus
  PROVE  UNCHANGED <<boot, sub>>
<1>1. CASE Lifecycle
  BY <1>1 DEF Lifecycle, StartHttp, StartHttpFails, Stop, StopBus, Shutdown, ShutdownBegin, ShutdownClose,
        ShutdownTimeout, ShutdownReturns, StopUnstartedBus, StopReturns, busVars, startVars
<1>2. CASE Server
  BY <1>2 DEF Server, Bind, Accept, AcceptFails, StopAccepting, Drained, DrainTimeout, ServerGoto, busVars, startVars
<1>3. ASSUME NEW c \in Conns, Connection(c)
      PROVE  UNCHANGED <<boot, sub>>
  BY <1>3 DEF Connection, Serve, CloseIdle, RequestLookup, ClientPublish, Lookup, Responses, AnswerRejected,
        AnswerInvoked, AnswerFailed, AnswerAccepted, AnswerReply, AnswerTimeout, Answer, ConnLost, ClientDrops,
        busVars, startVars
<1>4. CASE BusTasks
  BY <1>4 DEF BusTasks, PublishToChannel, Dispatch, AwaitMessage, AcquireInSelect, DispatchMessage,
        LoopOnTimeout, BreakOnClosed, BreakOnCancel, DrainTask, DispatcherReturns, Handle, HandlerReply,
        Lookup, HandlerOk, HandlerErr, HandlerPanics, TaskEnds, startVars
<1>5. CASE UNCHANGED sysVars
  BY <1>5 DEF sysVars, busVars, startVars
<1> QED
  BY <1>1, <1>2, <1>3, <1>4, <1>5 DEF RtNext

\* Outside Runtime::start and Runtime::shutdown the phases of both stay as they are.
LEMMA PhaseSteps ==
  ASSUME [RtNext]_sysVars, RtTypes, ~Lifecycle
  PROVE  UNCHANGED <<rt, shut>>
<1>1. CASE Server
  BY <1>1 DEF Server, Bind, Accept, AcceptFails, StopAccepting, Drained, DrainTimeout, ServerGoto, busVars, shutVars
<1>2. ASSUME NEW c \in Conns, Connection(c)
      PROVE  UNCHANGED <<rt, shut>>
  BY <1>2 DEF Connection, Serve, CloseIdle, RequestLookup, ClientPublish, Lookup, Responses, AnswerRejected,
        AnswerInvoked, AnswerFailed, AnswerAccepted, AnswerReply, AnswerTimeout, Answer, ConnLost, ClientDrops,
        busVars, shutVars, rtVars
<1>3. CASE BusTasks
  BY <1>3 DEF BusTasks, PublishToChannel, Dispatch, AwaitMessage, AcquireInSelect, DispatchMessage,
        LoopOnTimeout, BreakOnClosed, BreakOnCancel, DrainTask, DispatcherReturns, Handle, HandlerReply,
        Lookup, HandlerOk, HandlerErr, HandlerPanics, TaskEnds, shutVars, rtVars
<1>4. CASE UNCHANGED sysVars
  BY <1>4 DEF sysVars, busVars, shutVars, rtVars
<1> QED
  BY <1>1, <1>2, <1>3, <1>4 DEF RtNext

\* Every step keeps the phases of runtime and bus together.
LEMMA StopInvStep ==
  ASSUME RtInv, [RtNext]_sysVars
  PROVE  StopInv'
<1> USE DEF RtInv, StopInv, RtTypes
<1>1. CASE StartHttp \/ StartHttpFails \/ Stop \/ StopUnstartedBus \/ StopReturns
  BY <1>1 DEF StartHttp, StartHttpFails, Stop, StopUnstartedBus, StopReturns, httpVars, busVars, startVars,
        shutVars, Fresh
<1>2. CASE StartBus
  BY <1>2 DEF StartBus, httpVars, Fresh
<1>3. CASE StopBus
  <2>1. rt = "stopping" /\ server' = server /\ UNCHANGED <<boot, sub>>
        /\ rt' = IF shut' = "done" THEN "signalled" ELSE rt
    BY <1>3 DEF StopBus, httpVars, Shutdown, ShutdownBegin, ShutdownClose, ShutdownTimeout, ShutdownReturns,
          startVars
  <2> QED
    BY <2>1 DEF Fresh
<1>4. CASE ~Lifecycle
  <2>1. UNCHANGED <<rt, shut, boot, sub>>
    BY <1>4, PhaseSteps, BootSteps DEF Lifecycle
  <2>2. server \in {"off", "done"} => server' \in {"off", "done"} /\ server' = server
    BY <1>4, ConnectionStep DEF ConnectionDoes, RtNext, Server, Bind, Accept, AcceptFails, StopAccepting, Drained, DrainTimeout,
          ServerGoto, BusTasks, sysVars, rtVars, httpVars
  <2> QED
    BY <2>1, <2>2 DEF Fresh
<1> QED
  BY <1>1, <1>2, <1>3, <1>4 DEF Lifecycle

\* Every step keeps the connections in line with the phase of the server.
LEMMA ConnInvStep ==
  ASSUME RtInv, [RtNext]_sysVars
  PROVE  ConnInv'
<1> USE DEF RtInv, ConnInv, RtTypes, AllClosed
<1>1. CASE Lifecycle
  BY <1>1 DEF Lifecycle, StartHttp, StartHttpFails, StartBus, Stop, StopBus, StopUnstartedBus,
        StopReturns, StopInv, httpVars
<1>2. CASE Server
  BY <1>2 DEF Server, Bind, Accept, AcceptFails, StopAccepting, Drained, DrainTimeout, ServerGoto
<1>3. ASSUME NEW c \in Conns, Connection(c)
      PROVE  ConnInv'
  <2>1. ConnectionDoes(c)
    BY <1>3, ConnectionStep
  <2>2. UNCHANGED <<server, forced>>
    BY <2>1 DEF ConnectionDoes
  <2>3. AllClosed => UNCHANGED conn
    BY <2>1 DEF ConnectionDoes, Begins, Closes, Ends
  <2> QED
    BY <2>2, <2>3
<1>4. CASE BusTasks \/ UNCHANGED sysVars
  BY <1>4 DEF BusTasks, sysVars, rtVars, httpVars
<1> QED
  BY <1>1, <1>2, <1>3, <1>4 DEF RtNext

\* The runtime keeps its invariant.
THEOREM RtInvariant == RtSpec => []RtInv
<1>1. RtInv /\ [RtNext]_sysVars => RtInv'
  BY RtTypesStep, StopInvStep, ConnInvStep DEF RtInv
<1> QED
  BY <1>1, RtInvInit, PTL DEF RtSpec

\* The bus of a runtime behaves as MessageBus: what holds of BusSpec holds here.
THEOREM RuntimeUsesBus == RtSpec => BusSpec
<1>1. RtInit => BusInit
  BY DEF RtInit
<1>2. RtInv /\ [RtNext]_sysVars => [BusNext]_busVars
  BY RtStepIsBusStep DEF RtInv
<1> QED
  BY <1>1, <1>2, RtInvariant, PTL DEF RtSpec, BusSpec

-----------------------------------------------------------------------------
(***************************************************************************)
(* Accepted requests.  A request is answered with 202 only after publish() *)
(* has returned Ok for it, and a call that is over stays over; the groups  *)
(* its message went to are those of subscriptions.                         *)
(***************************************************************************)
AcceptInv == \A m \in Messages : response[m] = "202" => status[m] = "ok"

\* Only start() makes groups, those of the subscriptions.
Subscribed == receivers \subseteq {Subs[d] : d \in Consumers}

\* No step of a channel touches a call that has returned Ok.
LEMMA OkStays ==
  ASSUME Shape, [ChanNext]_chanVars, NEW m \in Messages, status[m] = "ok"
  PROVE  status'[m] = "ok"
<1>0. status \in [Messages -> {"new", "sending"} \cup Outcomes]
  BY DEF Shape, CallsInShape
<1>1. ASSUME NEW n \in Messages, PublishStep(n)
      PROVE  status'[m] = "ok"
  BY <1>0, <1>1 DEF PublishStep, PublishBegin, Send, Advance, SendFull, SendTimeout, PublishDrop, GiveUp
<1>2. CASE UNCHANGED callVars
  BY <1>2 DEF callVars
<1> QED
  BY <1>1, <1>2 DEF ChanNext, ConsumeStep, InitGroup, InitGroupSender, Close, ConsumeBegin, ConsumeCreate,
     AcquireReceiver, Receive, ReceiveClosed, ReceiveTimeout, ConsumeDrop, ConsumeReturn, chanVars

\* Only AnswerAccepted answers with 202, and only when publish() returned Ok.
LEMMA AnsweredStep ==
  ASSUME RtTypes, [RtNext]_sysVars, NEW m \in Messages, response'[m] = "202"
  PROVE  response[m] = "202" \/ status[m] = "ok"
<1>1. CASE Lifecycle \/ Server \/ BusTasks \/ UNCHANGED sysVars
  BY <1>1 DEF Lifecycle, StartHttp, StartHttpFails, StartBus, Stop, StopBus, StopUnstartedBus,
        StopReturns, Server, Bind, Accept, AcceptFails, StopAccepting, Drained, DrainTimeout, ServerGoto,
        BusTasks, sysVars, rtVars, httpVars
<1>2. ASSUME NEW c \in Conns, Connection(c)
      PROVE  response[m] = "202" \/ status[m] = "ok"
  <2>1. CASE AnswerAccepted(c)
    <3>1. status[serving[c]] = "ok" /\ response' = [response EXCEPT ![serving[c]] = "202"]
      BY <2>1 DEF AnswerAccepted, Published, Answer
    <3> QED
      BY <3>1 DEF RtTypes
  <2>2. CASE Answer(c, "other")
    <3>1. response' = [response EXCEPT ![serving[c]] = "other"]
      BY <2>2 DEF Answer
    <3> QED
      BY <3>1 DEF RtTypes
  <2>3. CASE response' = response
    BY <2>3
  <2> QED
    BY <1>2, <2>1, <2>2, <2>3 DEF Connection, Serve, CloseIdle, RequestLookup, Responses, AnswerRejected,
       AnswerInvoked, AnswerFailed, AnswerReply, AnswerTimeout, ConnLost, rtVars, httpVars
<1> QED
  BY <1>1, <1>2 DEF RtNext

\* Every step leaves the call of an accepted request at Ok.
LEMMA AcceptStep ==
  Shape /\ BusInv /\ RtTypes /\ AcceptInv /\ [RtNext]_sysVars => AcceptInv'
<1> SUFFICES ASSUME Shape, BusInv, RtTypes, AcceptInv, [RtNext]_sysVars,
                    NEW m \in Messages, response'[m] = "202"
             PROVE  status'[m] = "ok"
  BY DEF AcceptInv
<1>1. status[m] = "ok"
  BY AnsweredStep DEF AcceptInv
<1>2. [ChanNext]_chanVars
  BY RtStepIsBusStep, BusStepIsChannelStep DEF BusInv
<1> QED
  BY <1>1, <1>2, OkStays

\* A step of the bus makes no group but that of the subscription start() is at.
LEMMA SubscribedStep ==
  ASSUME BusInv, Subscribed, [BusNext]_busVars
  PROVE  Subscribed'
<1>1. CASE StartGroup
  <2>1. sub \in Consumers
    BY <1>1, SubsFacts DEF StartGroup, BusInv, BusTypes, BootInv
  <2>2. receivers' \subseteq receivers \cup {Subs[sub]}
    BY <1>1 DEF StartGroup, InitGroup, NewGroup, chanVars, groupVars
  <2> QED
    BY <2>1, <2>2 DEF Subscribed
<1>2. ASSUME NEW d \in Consumers, Dispatch(d) PROVE Subscribed'
  BY <1>2, DispatchKeepsGroups DEF groupVars, Subscribed
<1>3. CASE UNCHANGED receivers
  BY <1>3 DEF Subscribed
<1> QED
  BY <1>1, <1>2, <1>3 DEF BusNext, Start, StartSubscription, StartSender, InitGroupSender, InsertSender,
     StartDispatcher, StartFails, StartReturns, ClientPublish, ClientDrops, PublishDrop, PublishToChannel,
     PublishBegin, Send, SendFull, SendTimeout, GiveUp, Lookup, Handle, HandlerReply, HandlerOk, HandlerErr,
     HandlerPanics, TaskEnds, Shutdown, ShutdownBegin, ShutdownClose, Close, ShutdownTimeout, ShutdownReturns,
     chanVars, groupVars, busVars

\* What follows of the bus from the fact that the runtime is down.
LEMMA DownBus ==
  ASSUME RtInv, BusInv, rt = "down", NEW d \in Consumers
  PROVE  disp[d] \in {"off", "done"} /\ Tasks(d) = 0
<1>1. CASE shut = "done"
  BY <1>1 DEF BusInv, BootInv, AllReturned, TaskInv
<1>2. CASE Fresh
  <2>1. disp[d] = "off"
    BY <1>2, SubsFacts DEF Fresh, BusInv, LoopInv
  <2> QED
    BY <2>1 DEF BusInv, TaskInv
<1> QED
  BY <1>1, <1>2 DEF RtInv, StopInv

-----------------------------------------------------------------------------
(***************************************************************************)
(* The theorems.                                                           *)
(***************************************************************************)
\* The invariant of the bus holds in a runtime.
THEOREM RtBusInvariant == RtSpec => [](Shape /\ BusInv)
BY RuntimeUsesBus, BusInvariant, PTL

\* Type correctness of the runtime.
THEOREM RtTypeCorrect == RtSpec => []RtTypeOK
<1>1. RtInv /\ BusTypeOK => RtTypeOK
  BY DEF RtInv, RtTypes, RtTypeOK
<1> QED
  BY <1>1, RtInvariant, RuntimeUsesBus, BusTypeCorrect, PTL

\* When shutdown() has returned no server listens, no dispatcher is left and no
\* handler runs.
THEOREM DownMeansStoppedHolds == RtSpec => []DownMeansStopped
<1>1. RtInv /\ BusInv => DownMeansStopped
  BY DownBus DEF DownMeansStopped, RtInv, StopInv
<1> QED
  BY <1>1, RtInvariant, RtBusInvariant, PTL

\* A shutdown that did not run into the five seconds has answered every request.
THEOREM RequestsAreAnsweredHolds == RtSpec => []RequestsAreAnswered
<1>1. RtInv => RequestsAreAnswered
  BY DEF RequestsAreAnswered, RtInv, StopInv, ConnInv
<1> QED
  BY <1>1, RtInvariant, PTL

\* A request that was answered with 202 is handled by every group that was
\* subscribed, when shutdown() returns without having cancelled a dispatcher.
THEOREM AcceptedRequestsAreServedHolds == RtSpec => []AcceptedRequestsAreServed
<1>1. RtSpec => []AcceptInv
  <2>1. RtInit => AcceptInv
    BY RuntimeAssumption DEF RtInit, AcceptInv
  <2> QED
    BY <2>1, AcceptStep, RtInvariant, RtBusInvariant, PTL DEF RtSpec, RtInv
<1>2. RtSpec => []Subscribed
  <2>1. RtInit => Subscribed
    BY DEF RtInit, BusInit, ChanInit, Subscribed
  <2>2. BusInv /\ RtTypes /\ Subscribed /\ [RtNext]_sysVars => Subscribed'
    BY RtStepIsBusStep, SubscribedStep
  <2> QED
    BY <2>1, <2>2, RtInvariant, RtBusInvariant, PTL DEF RtSpec, RtInv
<1>3. /\ RtInv /\ Shape /\ BusInv /\ AcceptInv /\ Subscribed
      /\ OutcomeMatchesDelivery /\ OrderlyStopLosesNothing /\ HandledOnce
      => AcceptedRequestsAreServed
  <2> SUFFICES ASSUME RtInv, Shape, BusInv, AcceptInv, Subscribed,
                      OutcomeMatchesDelivery, OrderlyStopLosesNothing, HandledOnce,
                      rt = "down", ~cancelled, NEW m \in Messages, response[m] = "202"
               PROVE  /\ target[m] # {}
                      /\ \A e \in target[m] :
                           (\A d \in On(e) : disp[d] # "off") => \E d \in On(e) : m \in Settled(d)
    BY DEF AcceptedRequestsAreServed
  <2>1. target[m] # {} /\ target[m] = {e \in Endpoint : m \in Logged(e)}
    BY DEF AcceptInv, OutcomeMatchesDelivery
  <2>2. ASSUME NEW e \in target[m], \A d \in On(e) : disp[d] # "off"
        PROVE  \E d \in On(e) : m \in Settled(d)
    <3>1. e \in Endpoint /\ m \in Logged(e) /\ e \in receivers
      BY <2>1, <2>2 DEF Shape, CallsInShape
    <3>2. PICK d0 \in Consumers : d0 \in On(e)
      BY <3>1 DEF Subscribed, On
    <3>3. IsEmpty(e)
      <4>1. disp[d0] = "done"
        BY <2>2, <3>2, DownBus
      <4> QED
        BY <3>2, <4>1 DEF OrderlyStopLosesNothing, Stopped, On
    <3>4. m \in {log[e][i] : i \in 1..head[e]}
      <4>1. head[e] = Len(log[e])
        BY <3>1, <3>3 DEF IsEmpty, Queued, Shape, ChanTypeOK
      <4> QED
        BY <3>1, <4>1 DEF Logged
    <3>5. PICK d \in On(e) : m \in running[d] \cup Settled(d)
      BY <3>1, <3>4 DEF HandledOnce
    <3>6. running[d] = {}
      <4>1. d \in Consumers /\ Tasks(d) = 0
        BY DownBus DEF On
      <4>2. IsFiniteSet(running[d]) /\ ended[d] \in Nat
        BY <4>1 DEF BusInv, TaskInv, BusTypes
      <4>3. Cardinality(running[d]) = 0
        BY <4>1, <4>2, FS_CardinalityType DEF Tasks
      <4> QED
        BY <4>2, <4>3, FS_EmptySet
    <3> QED
      BY <3>5, <3>6
  <2> QED
    BY <2>1, <2>2
<1> QED
  BY <1>1, <1>2, <1>3, RtInvariant, RtBusInvariant, RuntimeUsesBus, BusUsesChannels,
     OutcomeMatchesDeliveryHolds, OrderlyStop, HandledOnceHolds, PTL

\* A runtime takes nothing from what the bus promises: once per group, nothing
\* stranded by an orderly stop, no more handlers than the limit, acked after the
\* reply, and nothing left by the last dispatcher of a group.
THEOREM BusPromisesHold ==
  RtSpec => /\ [](HandledOnce /\ OrderlyStopLosesNothing /\ WithinConcurrency /\ AckedMeansReplied)
            /\ LastStopLeavesNothing
BY RuntimeUsesBus, HandledOnceHolds, OrderlyStop, ConcurrencyIsBounded, AckedMeansRepliedHolds,
   LastStopLeavesNothingHolds, PTL

=============================================================================
