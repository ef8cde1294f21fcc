-------------------------- MODULE BroadcastChannel --------------------------
(***************************************************************************)
(* A channel with Overflow::DropOldest (src/src/messaging/channel.rs): one *)
(* broadcast queue for all groups, of which every group's receiver keeps a *)
(* position.  publish() never waits: it overwrites the oldest message, and *)
(* a receiver whose next message is gone learns that it lags.  close()     *)
(* does nothing, and the channel itself keeps its sender: nobody ever      *)
(* learns Closed.                                                          *)
(*                                                                         *)
(* LocalChannel::new() makes a channel of one kind or the other.  While a  *)
(* consumer waits for a receiver's mutex or holds it, its pc is "wait" or  *)
(* "poll" here.                                                            *)
(***************************************************************************)
EXTENDS LocalChannel

CONSTANT
  Slots   \* how many messages tokio keeps, per channel: the next power of two

ASSUME SlotsAssumption ==
  /\ Slots \in [Channels -> Nat]
  /\ \A ch \in Channels :
       /\ Capacity[ch] <= Slots[ch]
       /\ \E k \in 0..Capacity[ch] : Slots[ch] = 2^k /\ \A j \in 0..(k - 1) : 2^j < Capacity[ch]
  /\ None \notin Nat

VARIABLES
  overflow,   \* "Block" or "DropOldest"
  patience,   \* consume_timeout_ms of a DropOldest channel: one of Modes
  result,     \* per publish() call to a DropOldest channel, what it returned, or "new"
  sent,       \* per DropOldest channel, the messages ever sent
  joined,     \* per endpoint, how many of them were sent before it had a receiver, or None
  position,   \* per endpoint, how many its receiver has received or skipped
  got         \* per endpoint, the numbers of those it has received, in order

castVars == <<overflow, patience, result, sent, joined, position, got>>
allVars  == <<chanVars, castVars>>

\* Mutant: the oldest message that is still there is taken for overwritten.
Overwritten_One(e) == LET n == Len(sent[e[1]]) - Slots[e[1]] + 1 IN IF n > 0 THEN n ELSE 0

\* How many of the messages sent were overwritten.
Overwritten(e) == LET n == Len(sent[e[1]]) - Slots[e[1]] IN IF n > 0 THEN n ELSE 0

HasReceiver(e) == joined[e] # None

\* LocalChannel::new
NewChannel ==
  /\ ChanInit
  /\ overflow \in {"Block", "DropOldest"}
  /\ patience \in IF overflow = "Block" THEN {ConsumeTimeout} ELSE Modes
  /\ result = [m \in Messages |-> "new"]
  /\ sent = [ch \in Channels |-> <<>>]
  /\ joined = [e \in Endpoint |-> None]
  /\ position = [e \in Endpoint |-> 0]
  /\ got = [e \in Endpoint |-> <<>>]

\* A receiver starts behind the last message sent.
Subscribe(e) ==
  /\ ~HasReceiver(e)
  /\ joined' = [joined EXCEPT ![e] = Len(sent[e[1]])]
  /\ position' = [position EXCEPT ![e] = Len(sent[e[1]])]
  /\ UNCHANGED <<overflow, patience, result, sent, got>>

CastInitGroup(e) == Subscribe(e) /\ UNCHANGED chanVars

\* send() fails when there is no receiver at all, and never waits.
CastPublish(m, ch) ==
  /\ result[m] = "new"
  /\ IF \E e \in Of(ch) : HasReceiver(e)
     THEN /\ sent' = [sent EXCEPT ![ch] = Append(@, m)]
          /\ result' = [result EXCEPT ![m] = "ok"]
     ELSE UNCHANGED sent /\ result' = [result EXCEPT ![m] = "closed"]
  /\ UNCHANGED <<chanVars, overflow, patience, joined, position, got>>

\* consume(): find or create the receiver, in one critical section, then its mutex.
CastConsume(c, e) ==
  /\ pc[c] = "idle"
  /\ pc' = [pc EXCEPT ![c] = "wait"]
  /\ at' = [at EXCEPT ![c] = e]
  /\ \/ HasReceiver(e) /\ UNCHANGED castVars
     \/ Subscribe(e)
  /\ UNCHANGED <<groupVars, queueVars, callVars>>

Polled(e) == \E c \in Consumers : pc[c] = "poll" /\ at[c] = e

CastAcquire(c) ==
  /\ pc[c] = "wait" /\ ~Polled(at[c])
  /\ pc' = [pc EXCEPT ![c] = "poll"]
  /\ UNCHANGED <<at, groupVars, queueVars, callVars, castVars>>

Lags(e)     == position[e] < Overwritten(e)
CaughtUp(e) == position[e] = Len(sent[e[1]])

CastReceive(c) ==
  LET e == at[c]
  IN /\ pc[c] = "poll" /\ ~Lags(e) /\ ~CaughtUp(e)
     /\ position' = [position EXCEPT ![e] = @ + 1]
     /\ got' = [got EXCEPT ![e] = Append(@, position[e] + 1)]
     /\ ConsumeReturn(c)
     /\ UNCHANGED <<queueVars, overflow, patience, result, sent, joined>>

\* A receiver that lags goes on with the oldest message there is; recv() is called
\* again, while the single attempt of try_recv() ends as if there were no message.
CastLag(c) ==
  LET e == at[c]
  IN /\ pc[c] = "poll" /\ Lags(e)
     /\ position' = [position EXCEPT ![e] = Overwritten(e)]
     /\ IF patience = "zero" THEN ConsumeReturn(c) ELSE UNCHANGED <<pc, at, groupVars, callVars>>
     /\ UNCHANGED <<queueVars, overflow, patience, result, sent, joined, got>>

\* The deadline and a caller that drops the future end a wait for a message.
CastGiveUp(c) ==
  /\ \/ pc[c] = "poll" /\ CaughtUp(at[c])
     \/ pc[c] = "wait" /\ Polled(at[c])
  /\ ConsumeReturn(c)
  /\ UNCHANGED <<queueVars, castVars>>

BlockNext == overflow = "Block" /\ ChanNext /\ UNCHANGED castVars
CastNext  ==
  /\ overflow = "DropOldest"
  /\ \/ \E e \in Endpoint : CastInitGroup(e)
     \/ \E m \in Messages, ch \in Channels : CastPublish(m, ch)
     \/ \E c \in Consumers, e \in Endpoint : CastConsume(c, e)
     \/ \E c \in Consumers : CastAcquire(c) \/ CastReceive(c) \/ CastLag(c) \/ CastGiveUp(c)

ChannelSpec == NewChannel /\ [][BlockNext \/ CastNext]_allVars /\ ChanFairness

-----------------------------------------------------------------------------
\* What a slow group loses (channel.rs:145): a group receives the messages published
\* since it exists in their order, each once, and misses one only after a whole
\* queue of newer ones was published; what publish() accepted is one of them, however
\* the consumers of the group and the publishers interleave.
LosesOnlyTheOldest ==
  /\ \A e \in Endpoint : \A i \in 1..Len(got[e]) :
       got[e][i] \in (joined[e] + 1)..position[e] /\ \A j \in 1..(i - 1) : got[e][j] < got[e][i]
  /\ \A e \in Endpoint : HasReceiver(e) =>
       \A n \in (joined[e] + 1)..position[e] :
         (\E i \in 1..Len(got[e]) : got[e][i] = n) \/ n <= Len(sent[e[1]]) - Capacity[e[1]]
  /\ \A m \in Messages : result[m] = "ok" =>
       \E ch \in Channels : \E n \in 1..Len(sent[ch]) : sent[ch][n] = m
=============================================================================
