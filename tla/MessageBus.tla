----------------------------- MODULE MessageBus -----------------------------
(***************************************************************************)
(* The bus (src/src/messaging/bus.rs) and its dispatchers                  *)
(* (src/src/messaging/dispatcher.rs) on top of the channels: start()       *)
(* creates channels and consumer groups and spawns one dispatcher per      *)
(* subscription; a dispatcher consumes from its group and runs a handler   *)
(* task per message (src/src/messaging/activator.rs), which may publish a  *)
(* reply to another channel of the bus; shutdown() closes the channels,    *)
(* waits for the dispatchers and cancels them when they take too long.     *)
(* Clients publish at any time, also before start() and after shutdown().  *)
(*                                                                         *)
(* The consumers of LocalChannel are the dispatchers, its calls are those  *)
(* of the clients and of the handlers.                                     *)
(***************************************************************************)
EXTENDS LocalChannel, FiniteSets

CONSTANTS
  Subs,         \* the subscriptions in order, each the endpoint it serves
  Concurrency,  \* how many handler tasks a dispatcher runs at a time
  ReplyTo,      \* per message, the channel its reply-to header names, or None
  Reply         \* per dispatcher and message, the call that sends the reply

Replies == {Reply[d][m] : d \in Consumers, m \in Messages} \ {None}

\* A reply is a call of its own: two handlers share the name of a call only if
\* they cannot both handle the message.  Replies ask for no reply.
ASSUME BusAssumption ==
  /\ Subs \in Seq(Endpoint)
  /\ Consumers = 1..Len(Subs)
  /\ Concurrency \in Nat
  /\ None \notin Channels \cup Messages
  /\ ReplyTo \in [Messages -> Channels \cup {None}]
  /\ Reply \in [Consumers -> [Messages -> Messages \cup {None}]]
  /\ \A d \in Consumers, m \in Messages : ReplyTo[m] # None <=> Reply[d][m] # None
  /\ \A r \in Replies : ReplyTo[r] = None
  /\ \A d1, d2 \in Consumers : \A x, y \in Messages :
       Reply[d1][x] = Reply[d2][y] /\ Reply[d1][x] # None
         => x = y /\ (Subs[d1] = Subs[d2] \/ Subs[d1][1] # Subs[d2][1])

VARIABLES
  registry,   \* the channels the bus has registered
  boot,       \* how far start() has come with the subscription sub
  sub,
  found,      \* per call, the channel that lookup() returned, or None
  refused,    \* the calls whose channel was not found
  disp,       \* per dispatcher, where its loop is
  running,    \* per dispatcher, the messages whose handler task runs
  ended,      \* per dispatcher, how many ended tasks are not yet joined
  acked,      \* <<d, m>>: the handler of m in dispatcher d returned Ok
  nacked,     \* ... returned an error
  panicked,   \* ... panicked, so that the receipt is neither acked nor nacked
  shut,       \* how far shutdown() has come
  toClose,    \* the channels it has still to close
  cancelled   \* the cancellation token of the dispatchers

startVars == <<registry, boot, sub>>
sendVars  == <<found, refused>>
dispVars  == <<disp, running, ended, acked, nacked, panicked>>
shutVars  == <<shut, toClose, cancelled>>
busVars   == <<chanVars, startVars, sendVars, dispVars, shutVars>>

On(e)       == {d \in Consumers : Subs[d] = e}
Tasks(d)    == Cardinality(running[d]) + ended[d]
Settled(d)  == {m \in Messages : <<d, m>> \in acked \cup nacked \cup panicked}
Stopped(d)  == disp[d] \in {"drain", "done"}

BusInit ==
  /\ ChanInit
  /\ registry = {}
  /\ boot = "new"
  /\ sub = 1
  /\ found = [m \in Messages |-> None]
  /\ refused = {}
  /\ disp = [d \in Consumers |-> "off"]
  /\ running = [d \in Consumers |-> {}]
  /\ ended = [d \in Consumers |-> 0]
  /\ acked = {}
  /\ nacked = {}
  /\ panicked = {}
  /\ shut = "no"
  /\ toClose = {}
  /\ cancelled = FALSE

-----------------------------------------------------------------------------
(***************************************************************************)
(* start(): for each subscription look up or register its channel, make    *)
(* the consumer group, build the activator (which may fail and end start() *)
(* with everything done so far in place) and spawn the dispatcher.         *)
(***************************************************************************)
StartSubscription ==
  /\ boot = "new"
  /\ sub <= Len(Subs)
  /\ registry' = registry \cup {Subs[sub][1]}
  /\ boot' = "init"
  /\ UNCHANGED <<chanVars, sub, sendVars, dispVars, shutVars>>

StartGroup ==
  /\ boot = "init"
  /\ \/ /\ InitGroup(Subs[sub])
        /\ boot' = "sender"
     \/ /\ Subs[sub] \in receivers
        /\ boot' = "activate"
        /\ UNCHANGED chanVars
  /\ UNCHANGED <<registry, sub, sendVars, dispVars, shutVars>>

StartSender ==
  /\ boot = "sender"
  /\ InitGroupSender(Subs[sub])
  /\ boot' = "activate"
  /\ UNCHANGED <<registry, sub, sendVars, dispVars, shutVars>>

StartDispatcher ==
  /\ boot = "activate"
  /\ boot' = "new"
  /\ sub' = sub + 1
  /\ disp' = [disp EXCEPT ![sub] = "top"]
  /\ UNCHANGED <<chanVars, registry, sendVars, running, ended, acked, nacked,
                 panicked, shutVars>>

StartFails ==
  /\ boot = "activate"
  /\ boot' = "failed"
  /\ UNCHANGED <<chanVars, registry, sub, sendVars, dispVars, shutVars>>

StartReturns ==
  /\ boot = "new"
  /\ sub > Len(Subs)
  /\ boot' = "started"
  /\ UNCHANGED <<chanVars, registry, sub, sendVars, dispVars, shutVars>>

-----------------------------------------------------------------------------
(***************************************************************************)
(* publish(): look the channel up, then publish to it.                     *)
(***************************************************************************)
Lookup(m, ch) ==
  /\ status[m] = "new"
  /\ found[m] = None
  /\ m \notin refused
  /\ \/ /\ ch \in registry
        /\ found' = [found EXCEPT ![m] = ch]
        /\ UNCHANGED refused
     \/ /\ ch \notin registry
        /\ refused' = refused \cup {m}
        /\ UNCHANGED found
  /\ UNCHANGED <<chanVars, startVars, dispVars, shutVars>>

ClientPublish(m) ==
  /\ m \notin Replies
  /\ \E ch \in Channels : Lookup(m, ch)

\* The activator publishes the result of the invocation to the reply-to
\* channel of the message, from inside the handler task.
HandlerReply(d, m) ==
  /\ m \in running[d]
  /\ ReplyTo[m] # None
  /\ Lookup(Reply[d][m], ReplyTo[m])

\* A client that goes away drops its call; handler tasks are never dropped.
ClientDrops(m) ==
  /\ m \notin Replies
  /\ PublishDrop(m)
  /\ UNCHANGED <<startVars, sendVars, dispVars, shutVars>>

PublishToChannel(m) ==
  /\ \/ /\ found[m] # None
        /\ PublishBegin(m, found[m])
     \/ Send(m)
     \/ SendFull(m)
     \/ SendTimeout(m)
  /\ UNCHANGED <<startVars, sendVars, dispVars, shutVars>>

-----------------------------------------------------------------------------
(***************************************************************************)
(* The dispatcher's loop.  When its tasks reach the concurrency limit it   *)
(* first joins one, without watching for cancellation.  The select! is     *)
(* biased: cancellation is seen only while consume() is pending.           *)
(***************************************************************************)
\* Mutant: at the limit it joins a task only if one has ended.
AwaitMessage_TryJoin(d) ==
  /\ disp[d] = "top"
  /\ ended' = [ended EXCEPT ![d] = IF @ > 0 THEN @ - 1 ELSE 0]
  /\ ConsumeBegin(d, Subs[d])
  /\ disp' = [disp EXCEPT ![d] = "select"]
  /\ UNCHANGED <<startVars, sendVars, running, acked, nacked, panicked, shutVars>>

AwaitMessage(d) ==
  /\ disp[d] = "top"
  /\ \/ /\ Tasks(d) < Concurrency \/ Tasks(d) = 0
        /\ UNCHANGED ended
     \/ /\ Tasks(d) >= Concurrency
        /\ ended[d] > 0
        /\ ended' = [ended EXCEPT ![d] = @ - 1]
  /\ ConsumeBegin(d, Subs[d])
  /\ disp' = [disp EXCEPT ![d] = "select"]
  /\ UNCHANGED <<startVars, sendVars, running, acked, nacked, panicked, shutVars>>

AcquireInSelect(d) ==
  /\ disp[d] = "select"
  /\ AcquireReceiver(d)
  /\ UNCHANGED <<startVars, sendVars, dispVars, shutVars>>

\* Mutant: once cancelled it receives without running the handler.
DispatchMessage_Dropped(d) ==
  /\ disp[d] = "select"
  /\ Receive(d)
  /\ running' = [running EXCEPT ![d] = IF cancelled THEN @ ELSE @ \cup {NextMsg(at[d])}]
  /\ disp' = [disp EXCEPT ![d] = "top"]
  /\ UNCHANGED <<startVars, sendVars, ended, acked, nacked, panicked, shutVars>>

DispatchMessage(d) ==
  /\ disp[d] = "select"
  /\ Receive(d)
  /\ running' = [running EXCEPT ![d] = @ \cup {NextMsg(at[d])}]
  /\ disp' = [disp EXCEPT ![d] = "top"]
  /\ UNCHANGED <<startVars, sendVars, ended, acked, nacked, panicked, shutVars>>

\* Mutant: every error of consume() ends the loop.
LoopOnTimeout_Breaks(d) ==
  /\ disp[d] = "select"
  /\ ReceiveTimeout(d)
  /\ disp' = [disp EXCEPT ![d] = "drain"]
  /\ UNCHANGED <<startVars, sendVars, running, ended, acked, nacked, panicked, shutVars>>

LoopOnTimeout(d) ==
  /\ disp[d] = "select"
  /\ ReceiveTimeout(d)
  /\ disp' = [disp EXCEPT ![d] = "top"]
  /\ UNCHANGED <<startVars, sendVars, running, ended, acked, nacked, panicked, shutVars>>

BreakOnClosed(d) ==
  /\ disp[d] = "select"
  /\ ReceiveClosed(d)
  /\ disp' = [disp EXCEPT ![d] = "drain"]
  /\ UNCHANGED <<startVars, sendVars, running, ended, acked, nacked, panicked, shutVars>>

\* Mutant: the select! is not biased, so cancellation may win over a message.
BreakOnCancel_Unbiased(d) ==
  /\ disp[d] = "select"
  /\ cancelled
  /\ pc[d] = "recv"
  /\ ConsumeReturn(d)
  /\ UNCHANGED queueVars
  /\ disp' = [disp EXCEPT ![d] = "drain"]
  /\ UNCHANGED <<startVars, sendVars, running, ended, acked, nacked, panicked, shutVars>>

BreakOnCancel(d) ==
  /\ disp[d] = "select"
  /\ cancelled
  /\ ConsumeDrop(d)
  /\ disp' = [disp EXCEPT ![d] = "drain"]
  /\ UNCHANGED <<startVars, sendVars, running, ended, acked, nacked, panicked, shutVars>>

DrainTask(d) ==
  /\ disp[d] = "drain"
  /\ ended[d] > 0
  /\ ended' = [ended EXCEPT ![d] = @ - 1]
  /\ UNCHANGED <<chanVars, startVars, sendVars, disp, running, acked, nacked,
                 panicked, shutVars>>

DispatcherReturns(d) ==
  /\ disp[d] = "drain"
  /\ Tasks(d) = 0
  /\ disp' = [disp EXCEPT ![d] = "done"]
  /\ UNCHANGED <<chanVars, startVars, sendVars, running, ended, acked, nacked,
                 panicked, shutVars>>

-----------------------------------------------------------------------------
(***************************************************************************)
(* A handler task: it invokes the component and, if the message has a      *)
(* reply-to header, publishes the reply and waits for that publish.  The   *)
(* receipts of a local channel do nothing, so nacked messages are gone.    *)
(***************************************************************************)
TaskEnds(d, m) ==
  /\ m \in running[d]
  /\ running' = [running EXCEPT ![d] = @ \ {m}]
  /\ ended' = [ended EXCEPT ![d] = @ + 1]
  /\ UNCHANGED <<chanVars, startVars, sendVars, disp, shutVars>>

\* Has the publish of the reply returned, and how?
ReplyReturned(r) == status[r] \in Outcomes \/ r \in refused
ReplySent(r)     == status[r] = "ok"
ReplyBegun(r)    == found[r] # None \/ r \in refused

\* Mutant: the result of publishing the reply is ignored.
HandlerOk_Unchecked(d, m) ==
  /\ ReplyTo[m] # None => ReplyReturned(Reply[d][m])
  /\ TaskEnds(d, m)
  /\ acked' = acked \cup {<<d, m>>}
  /\ UNCHANGED <<nacked, panicked>>

HandlerOk(d, m) ==
  /\ ReplyTo[m] # None => ReplySent(Reply[d][m])
  /\ TaskEnds(d, m)
  /\ acked' = acked \cup {<<d, m>>}
  /\ UNCHANGED <<nacked, panicked>>

\* The mapping or the invocation fails before there is a reply, or the reply
\* cannot be published.
HandlerErr(d, m) ==
  /\ ReplyTo[m] # None /\ ReplyBegun(Reply[d][m])
       => ReplyReturned(Reply[d][m]) /\ ~ReplySent(Reply[d][m])
  /\ TaskEnds(d, m)
  /\ nacked' = nacked \cup {<<d, m>>}
  /\ UNCHANGED <<acked, panicked>>

HandlerPanics(d, m) ==
  /\ ReplyTo[m] # None => ~ReplyBegun(Reply[d][m])
  /\ TaskEnds(d, m)
  /\ panicked' = panicked \cup {<<d, m>>}
  /\ UNCHANGED <<acked, nacked>>

-----------------------------------------------------------------------------
(***************************************************************************)
(* shutdown(): close every registered channel, wait for the dispatchers,   *)
(* after ten seconds cancel them and wait for them without a limit.        *)
(***************************************************************************)
DrainOrClose(left) == IF left = {} THEN "draining" ELSE "closing"

ShutdownBegin ==
  /\ boot \in {"started", "failed"}
  /\ shut = "no"
  /\ toClose' = registry
  /\ shut' = DrainOrClose(registry)
  /\ UNCHANGED <<chanVars, startVars, sendVars, dispVars, cancelled>>

ShutdownClose(ch) ==
  /\ shut = "closing"
  /\ ch \in toClose
  /\ Close(ch)
  /\ toClose' = toClose \ {ch}
  /\ shut' = DrainOrClose(toClose \ {ch})
  /\ UNCHANGED <<startVars, sendVars, dispVars, cancelled>>

AllReturned == \A d \in Consumers : disp[d] \in {"off", "done"}

ShutdownTimeout ==
  /\ shut = "draining"
  /\ ~AllReturned
  /\ ~cancelled
  /\ cancelled' = TRUE
  /\ UNCHANGED <<chanVars, startVars, sendVars, dispVars, shut, toClose>>

ShutdownReturns ==
  /\ shut = "draining"
  /\ AllReturned
  /\ shut' = "done"
  /\ UNCHANGED <<chanVars, startVars, sendVars, dispVars, toClose, cancelled>>

-----------------------------------------------------------------------------
Start == \/ StartSubscription
         \/ StartGroup
         \/ StartSender
         \/ StartDispatcher
         \/ StartFails
         \/ StartReturns

Dispatch(d) == \/ AwaitMessage(d)
               \/ AcquireInSelect(d)
               \/ DispatchMessage(d)
               \/ LoopOnTimeout(d)
               \/ BreakOnClosed(d)
               \/ BreakOnCancel(d)
               \/ DrainTask(d)
               \/ DispatcherReturns(d)

Handle(d, m) == \/ HandlerReply(d, m)
                \/ HandlerOk(d, m)
                \/ HandlerErr(d, m)
                \/ HandlerPanics(d, m)

Shutdown == \/ ShutdownBegin
            \/ \E ch \in Channels : ShutdownClose(ch)
            \/ ShutdownTimeout
            \/ ShutdownReturns

BusNext ==
  \/ Start
  \/ \E m \in Messages : ClientPublish(m) \/ ClientDrops(m) \/ PublishToChannel(m)
  \/ \E d \in Consumers : Dispatch(d)
  \/ \E d \in Consumers, m \in Messages : Handle(d, m)
  \/ Shutdown

BusSpec == BusInit /\ [][BusNext]_busVars

-----------------------------------------------------------------------------
(***************************************************************************)
(* Properties                                                              *)
(***************************************************************************)

BusTypeOK ==
  /\ ChanTypeOK
  /\ registry \subseteq Channels
  /\ boot \in {"new", "init", "sender", "activate", "started", "failed"}
  /\ sub \in 1..(Len(Subs) + 1)
  /\ found \in [Messages -> Channels \cup {None}]
  /\ refused \subseteq Messages
  /\ disp \in [Consumers -> {"off", "top", "select", "drain", "done"}]
  /\ running \in [Consumers -> SUBSET Messages]
  /\ ended \in [Consumers -> Nat]
  /\ acked \subseteq Consumers \X Messages
  /\ nacked \subseteq Consumers \X Messages
  /\ panicked \subseteq Consumers \X Messages
  /\ shut \in {"no", "closing", "draining", "done"}
  /\ toClose \subseteq Channels
  /\ cancelled \in BOOLEAN

\* Every message received from a group is with exactly one of the group's
\* dispatchers, where its handler runs or has ended in exactly one way.
HandledOnce ==
  \A e \in Endpoint :
    LET received == {log[e][i] : i \in 1..head[e]}
        with(d)  == running[d] \cup Settled(d)
    IN /\ received = UNION {with(d) : d \in On(e)}
       /\ \A d1, d2 \in On(e) : d1 # d2 => with(d1) \cap with(d2) = {}
       /\ \A d \in On(e) : running[d] \cap Settled(d) = {}
       /\ acked \cap nacked = {}
       /\ (acked \cup nacked) \cap panicked = {}

\* A dispatcher that stopped although nothing was cancelled left no message
\* behind, and none can come: an orderly shutdown loses nothing it accepted.
OrderlyStopLosesNothing ==
  \A d \in Consumers :
    Stopped(d) /\ ~cancelled => IsEmpty(Subs[d]) /\ ~HasSender(Subs[d])

\* Handler tasks stay within the concurrency limit (zero counts as one), the
\* ended ones the dispatcher has not joined included.
WithinConcurrency ==
  \A d \in Consumers : Tasks(d) <= IF Concurrency = 0 THEN 1 ELSE Concurrency

\* Between the end of start() and the call of shutdown() every subscription
\* receives every message published to its channel.
StartedMeansSubscribed ==
  boot = "started" /\ shut = "no" => \A d \in Consumers : Subs[d] \in senders

\* A handler whose message asks for a reply is acked only when every group
\* that was subscribed to the reply channel has the reply.
AckedMeansReplied ==
  \A d \in Consumers, m \in Messages :
    <<d, m>> \in acked /\ ReplyTo[m] # None =>
      LET r == Reply[d][m]
      IN /\ found[r] = ReplyTo[m]
         /\ target[r] # {}
         /\ \A e \in target[r] : r \in Logged(e)

\* When shutdown() has returned no handler runs and no task is left.
NothingRunsAfterShutdown ==
  shut = "done" => \A d \in Consumers : Tasks(d) = 0

\* Even a cancelled dispatcher first takes what its group holds: when the last
\* one of a group stops, no message is in the queue.
LastStopLeavesNothing ==
  [][\A e \in Endpoint :
       (\E d \in On(e) : ~Stopped(d)) /\ (\A d \in On(e) : Stopped(d)')
         => IsEmpty(e)']_busVars

=============================================================================
