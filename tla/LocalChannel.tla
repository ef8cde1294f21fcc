---------------------------- MODULE LocalChannel ----------------------------
(***************************************************************************)
(* The in-memory channel with Overflow::Block                              *)
(* (src/src/messaging/channel.rs).  A channel keeps one bounded mpsc queue *)
(* per consumer group.  publish() clones the senders under a lock and then *)
(* sends to one group after the other, outside the lock; consume() finds   *)
(* or creates the group, waits for the group's receiver mutex and then for *)
(* a message; close() drops the senders the map holds.  All of them run    *)
(* concurrently, so every critical section and every await is a step.      *)
(*                                                                         *)
(* The module models a set of channels: an endpoint is one consumer group  *)
(* of one channel.  A message stands for one call of publish().            *)
(***************************************************************************)
EXTENDS Integers, Sequences

CONSTANTS
  Channels,        \* the channels
  Groups,          \* the names a consumer group may have
  Messages,        \* the calls of publish(), named by the message they carry
  Consumers,       \* the tasks that call consume()
  Capacity,        \* capacity of the queue of every group, per channel
  PublishTimeout,  \* the ranges publish_timeout_ms may lie in: "never" (< 0), "zero", "timed" (> 0)
  ConsumeTimeout,  \* the range of consume_timeout_ms, one of these
  None             \* stands for "no endpoint"

Modes    == {"never", "zero", "timed"}
Endpoint == Channels \X Groups
Of(ch)   == {ch} \X Groups

ASSUME ChannelAssumption ==
  /\ Capacity \in [Channels -> Nat \ {0}]
  /\ PublishTimeout \subseteq Modes
  /\ ConsumeTimeout \in Modes
  /\ None \notin Endpoint

VARIABLES
  receivers,  \* endpoints in the receivers map
  creating,   \* endpoints whose sender is made but not yet in the senders map
  senders,    \* endpoints in the senders map
  log,        \* per endpoint, every message ever put into its queue
  head,       \* per endpoint, how many of them were received
  sealed,     \* endpoints on which some consume() has returned Closed
  status,     \* per publish() call, where it is or what it returned
  target,     \* the senders the call has cloned
  todo,       \* those of them it has not yet turned to
  cur,        \* the one it is sending to
  pc,         \* per consumer, where its consume() call is
  at          \* the endpoint the consumer is consuming from

groupVars == <<receivers, creating, senders>>
queueVars == <<log, head, sealed>>
callVars  == <<status, target, todo, cur>>
consVars  == <<pc, at>>
chanVars  == <<groupVars, queueVars, callVars, consVars>>

(***************************************************************************)
(* The queue of an endpoint is the part of its log that head has not       *)
(* reached.                                                                *)
(***************************************************************************)
Queued(e)  == Len(log[e]) - head[e]
IsEmpty(e) == Queued(e) = 0
Room(e)    == Queued(e) < Capacity[e[1]]
NextMsg(e) == log[e][head[e] + 1]
Logged(e)  == {log[e][i] : i \in 1..Len(log[e])}

\* Mutant: the clones of a call outlive it.
Cloned_Leaked(e) == \E m \in Messages : status[m] # "new" /\ e \in target[m]

\* A call keeps the senders it cloned until it returns.
Cloned(e) == \E m \in Messages : status[m] = "sending" /\ e \in target[m]

\* recv() and try_recv() report a closed queue when no sender is left.
HasSender(e) == e \in senders \/ e \in creating \/ Cloned(e)

ChanInit ==
  /\ receivers = {}
  /\ creating = {}
  /\ senders = {}
  /\ log = [e \in Endpoint |-> <<>>]
  /\ head = [e \in Endpoint |-> 0]
  /\ sealed = {}
  /\ status = [m \in Messages |-> "new"]
  /\ target = [m \in Messages |-> {}]
  /\ todo = [m \in Messages |-> {}]
  /\ cur = [m \in Messages |-> None]
  /\ pc = [c \in Consumers |-> "idle"]
  /\ at = [c \in Consumers |-> None]

-----------------------------------------------------------------------------
(***************************************************************************)
(* init_group: the receiver goes into its map in one critical section, the *)
(* sender into the other map in a second one.                              *)
(***************************************************************************)
NewGroup(e) ==
  /\ e \notin receivers
  /\ receivers' = receivers \cup {e}
  /\ creating' = creating \cup {e}
  /\ UNCHANGED senders

InsertSender(e) ==
  /\ e \in creating
  /\ creating' = creating \ {e}
  /\ senders' = senders \cup {e}
  /\ UNCHANGED receivers

InitGroup(e) ==
  /\ NewGroup(e)
  /\ UNCHANGED <<queueVars, callVars, consVars>>

InitGroupSender(e) ==
  /\ \A c \in Consumers : ~(pc[c] = "create" /\ at[c] = e)
  /\ InsertSender(e)
  /\ UNCHANGED <<queueVars, callVars, consVars>>

\* close(): the senders already cloned by a publish() call stay alive.
Close(ch) ==
  /\ senders' = senders \ Of(ch)
  /\ UNCHANGED <<receivers, creating, queueVars, callVars, consVars>>

-----------------------------------------------------------------------------
(***************************************************************************)
(* publish: clone the senders under the lock, then send to each in the     *)
(* order of the clone.  The order is the hash map's, so it is arbitrary.   *)
(***************************************************************************)
PublishBegin(m, ch) ==
  /\ status[m] = "new"
  /\ LET snapshot == senders \cap Of(ch)
     IN \/ /\ snapshot = {}
           /\ status' = [status EXCEPT ![m] = "closed"]
           /\ UNCHANGED <<target, todo, cur>>
        \/ \E e \in snapshot :
             /\ status' = [status EXCEPT ![m] = "sending"]
             /\ target' = [target EXCEPT ![m] = snapshot]
             /\ todo' = [todo EXCEPT ![m] = snapshot \ {e}]
             /\ cur' = [cur EXCEPT ![m] = e]
  /\ UNCHANGED <<groupVars, queueVars, consVars>>

\* Mutant: the call returns Ok after the first group that takes the message.
Advance_First(m) ==
  /\ status' = [status EXCEPT ![m] = "ok"]
  /\ cur' = [cur EXCEPT ![m] = None]
  /\ UNCHANGED todo

\* The call goes on to another group, or returns Ok after the last one.
Advance(m) ==
  \/ \E e \in todo[m] :
       /\ todo' = [todo EXCEPT ![m] = @ \ {e}]
       /\ cur' = [cur EXCEPT ![m] = e]
       /\ UNCHANGED status
  \/ /\ todo[m] = {}
     /\ status' = [status EXCEPT ![m] = "ok"]
     /\ cur' = [cur EXCEPT ![m] = None]
     /\ UNCHANGED todo

\* Mutant: the queue is unbounded.
Send_Unbounded(m) ==
  /\ status[m] = "sending"
  /\ log' = [log EXCEPT ![cur[m]] = Append(@, m)]
  /\ Advance(m)
  /\ UNCHANGED <<groupVars, head, sealed, target, consVars>>

Send(m) ==
  /\ status[m] = "sending"
  /\ Room(cur[m])
  /\ log' = [log EXCEPT ![cur[m]] = Append(@, m)]
  /\ Advance(m)
  /\ UNCHANGED <<groupVars, head, sealed, target, consVars>>

\* Mutant: a full group makes the call start over with every group.
GiveUp_Restarts(m, error) ==
  /\ status[m] = "sending"
  /\ ~Room(cur[m])
  /\ \E e \in target[m] : /\ todo' = [todo EXCEPT ![m] = target[m] \ {e}]
                          /\ cur' = [cur EXCEPT ![m] = e]
  /\ UNCHANGED <<groupVars, queueVars, status, target, consVars>>

\* The call returns an error at the first group that has no room: the groups
\* before it keep the message, those after it never see it.
GiveUp(m, error) ==
  /\ status[m] = "sending"
  /\ ~Room(cur[m])
  /\ status' = [status EXCEPT ![m] = error]
  /\ todo' = [todo EXCEPT ![m] = {}]
  /\ cur' = [cur EXCEPT ![m] = None]
  /\ UNCHANGED <<groupVars, queueVars, target, consVars>>

\* Mutant: a send without a deadline.
SendTimeout_Never(m) == FALSE /\ GiveUp(m, "timeout")

SendFull(m)    == "zero" \in PublishTimeout /\ GiveUp(m, "full")
SendTimeout(m) == "timed" \in PublishTimeout /\ GiveUp(m, "timeout")

\* The caller drops the publish() future while a send is pending (a client
\* that disconnects): the call ends as with an error, but returns nothing.
PublishDrop(m) == PublishTimeout # {"zero"} /\ GiveUp(m, "dropped")

-----------------------------------------------------------------------------
(***************************************************************************)
(* consume: find or create the group, wait for the receiver's mutex (the   *)
(* consumers of a group compete for it, outside the timeout), receive.     *)
(***************************************************************************)
ConsumeBegin(c, e) ==
  /\ pc[c] = "idle"
  /\ at' = [at EXCEPT ![c] = e]
  /\ \/ /\ e \in receivers
        /\ pc' = [pc EXCEPT ![c] = "lock"]
        /\ UNCHANGED groupVars
     \/ /\ NewGroup(e)
        /\ pc' = [pc EXCEPT ![c] = "create"]
  /\ UNCHANGED <<queueVars, callVars>>

ConsumeCreate(c) ==
  /\ pc[c] = "create"
  /\ InsertSender(at[c])
  /\ pc' = [pc EXCEPT ![c] = "lock"]
  /\ UNCHANGED <<at, queueVars, callVars>>

Locked(e) == \E c \in Consumers : pc[c] = "recv" /\ at[c] = e

AcquireReceiver(c) ==
  /\ pc[c] = "lock"
  /\ ~Locked(at[c])
  /\ pc' = [pc EXCEPT ![c] = "recv"]
  /\ UNCHANGED <<at, groupVars, queueVars, callVars>>

ConsumeReturn(c) ==
  /\ pc' = [pc EXCEPT ![c] = "idle"]
  /\ at' = [at EXCEPT ![c] = None]
  /\ UNCHANGED <<groupVars, callVars>>

\* Pending: recv() finds neither a message nor a closed queue.
RecvPending(e) == IsEmpty(e) /\ HasSender(e)

Receive(c) ==
  /\ pc[c] = "recv"
  /\ ~IsEmpty(at[c])
  /\ head' = [head EXCEPT ![at[c]] = @ + 1]
  /\ ConsumeReturn(c)
  /\ UNCHANGED <<log, sealed>>

\* Mutant: Closed is reported before the queue is drained.
ReceiveClosed_Undrained(c) ==
  /\ pc[c] = "recv"
  /\ ~HasSender(at[c])
  /\ sealed' = sealed \cup {at[c]}
  /\ ConsumeReturn(c)
  /\ UNCHANGED <<log, head>>

ReceiveClosed(c) ==
  /\ pc[c] = "recv"
  /\ IsEmpty(at[c])
  /\ ~HasSender(at[c])
  /\ sealed' = sealed \cup {at[c]}
  /\ ConsumeReturn(c)
  /\ UNCHANGED <<log, head>>

\* The deadline, like the single attempt of try_recv, looks at the queue first.
ReceiveTimeout(c) ==
  /\ ConsumeTimeout # "never"
  /\ pc[c] = "recv"
  /\ RecvPending(at[c])
  /\ ConsumeReturn(c)
  /\ UNCHANGED queueVars

\* The caller drops the consume() future at one of its awaits (a select! that
\* takes another branch, an outer timeout) while the future is pending.
ConsumeDrop(c) ==
  /\ \/ pc[c] = "lock" /\ Locked(at[c])
     \/ pc[c] = "recv" /\ RecvPending(at[c])
  /\ ConsumeReturn(c)
  /\ UNCHANGED queueVars

-----------------------------------------------------------------------------
PublishStep(m) ==
  \/ \E ch \in Channels : PublishBegin(m, ch)
  \/ Send(m)
  \/ SendFull(m)
  \/ SendTimeout(m)
  \/ PublishDrop(m)

ConsumeStep(c) ==
  \/ \E e \in Endpoint : ConsumeBegin(c, e)
  \/ ConsumeCreate(c)
  \/ AcquireReceiver(c)
  \/ Receive(c)
  \/ ReceiveClosed(c)
  \/ ReceiveTimeout(c)
  \/ ConsumeDrop(c)

ChanNext ==
  \/ \E e \in Endpoint : InitGroup(e) \/ InitGroupSender(e)
  \/ \E ch \in Channels : Close(ch)
  \/ \E m \in Messages : PublishStep(m)
  \/ \E c \in Consumers : ConsumeStep(c)

ChanSpec == ChanInit /\ [][ChanNext]_chanVars

(***************************************************************************)
(* A task that is inside publish() or consume() is scheduled again when    *)
(* what it awaits is there; the queue's permits and the receiver's mutex   *)
(* are handed out first come first served, hence strong fairness.  Nobody  *)
(* is obliged to call anything, nor to give up a wait without deadline.    *)
(***************************************************************************)
ChanFairness ==
  /\ \A e \in Endpoint : WF_chanVars(InitGroupSender(e))
  /\ \A m \in Messages : SF_chanVars(Send(m) \/ SendFull(m) \/ SendTimeout(m))
  /\ \A c \in Consumers : /\ WF_chanVars(ConsumeCreate(c))
                          /\ SF_chanVars(AcquireReceiver(c))
                          /\ WF_chanVars(Receive(c) \/ ReceiveClosed(c))

FairChanSpec == ChanSpec /\ ChanFairness

-----------------------------------------------------------------------------
(***************************************************************************)
(* Properties                                                              *)
(***************************************************************************)
Outcomes == {"ok", "closed", "full", "timeout", "dropped"}

\* Every variable has its type, no queue is over its capacity, and no
\* endpoint has received more than was put into its queue.
ChanTypeOK ==
  /\ receivers \subseteq Endpoint
  /\ creating \subseteq Endpoint
  /\ senders \subseteq Endpoint
  /\ log \in [Endpoint -> Seq(Messages)]
  /\ head \in [Endpoint -> Nat]
  /\ \A e \in Endpoint : head[e] <= Len(log[e]) /\ Queued(e) <= Capacity[e[1]]
  /\ sealed \subseteq Endpoint
  /\ status \in [Messages -> {"new", "sending"} \cup Outcomes]
  /\ target \in [Messages -> SUBSET Endpoint]
  /\ todo \in [Messages -> SUBSET Endpoint]
  /\ cur \in [Messages -> Endpoint \cup {None}]
  /\ pc \in [Consumers -> {"idle", "create", "lock", "recv"}]
  /\ at \in [Consumers -> Endpoint \cup {None}]

\* What publish() returned agrees with where the message went.  Ok: every group
\* whose sender was cloned has it, and there was one.  An error: some cloned
\* group lacks it (others may have it: the fan-out is not atomic), or, for
\* Closed, there was none; likewise when the caller dropped the call.  No group outside the clone ever gets it.
OutcomeMatchesDelivery ==
  \A m \in Messages :
    LET has == {e \in Endpoint : m \in Logged(e)}
    IN /\ has \subseteq target[m]
       /\ status[m] = "ok" => has = target[m] /\ has # {}
       /\ status[m] \in {"full", "timeout", "dropped"} => has # target[m]
       /\ status[m] \in {"new", "closed"} => has = {}

\* Once a consumer was told Closed, its group has nothing left to receive and
\* no sender that could put anything there, for ever: a dispatcher that stops
\* on Closed strands no message.
ClosedIsFinal ==
  \A e \in sealed : IsEmpty(e) /\ ~HasSender(e)

\* A queue has one receiver: two competing consumers of a group are never both
\* inside recv(), so each message goes to one of them.
OneReceiver ==
  \A c, d \in Consumers :
    c # d /\ pc[c] = "recv" /\ pc[d] = "recv" => at[c] # at[d]

\* A consumer inside recv() is not stuck when its channel is closed: with the
\* map's sender gone it gets a message, learns Closed or gives up.
ReceiverLearnsOfClose ==
  \A c \in Consumers :
    (pc[c] = "recv" /\ at[c] \notin senders \cup creating) ~> (pc[c] # "recv")

\* A channel keeps to each of its groups all that GroupDelivery promises.
Delivery == INSTANCE GroupDelivery WITH
  Streams <- Endpoint,
  Bound <- [e \in Endpoint |-> Capacity[e[1]]],
  accepted <- log, handed <- head, over <- sealed

ImplementsGroupDelivery == Delivery!Spec

=============================================================================
