------------------------ MODULE LocalChannel_proofs ------------------------
(***************************************************************************)
(* The safety properties of LocalChannel, then those of a channel of       *)
(* either kind (BroadcastChannel), for every set of channels, groups,      *)
(* messages and consumers, every capacity and every timeout.               *)
(***************************************************************************)
EXTENDS BroadcastChannel, TLAPS

Elements(s) == {s[i] : i \in 1..Len(s)}

\* Appending to a sequence adds one element to its elements.
LEMMA ElementsOfAppend ==
  ASSUME NEW S, NEW s \in Seq(S), NEW x \in S
  PROVE  Elements(Append(s, x)) = Elements(s) \cup {x}
<1> DEFINE t == Append(s, x)
<1>1. Len(t) = Len(s) + 1 /\ Len(s) \in Nat /\ t[Len(s) + 1] = x
        /\ \A i \in 1..Len(s) : t[i] = s[i]
  OBVIOUS
<1>2. 1..Len(t) = 1..Len(s) \cup {Len(s) + 1}
  BY <1>1
<1> HIDE DEF t
<1>3. Elements(t) = Elements(s) \cup {x}
  BY <1>1, <1>2 DEF Elements
<1> QED
  BY <1>3 DEF t

-----------------------------------------------------------------------------
(***************************************************************************)
(* The shape of the state: types, and which of the maps an endpoint that   *)
(* some task works with is in.                                             *)
(***************************************************************************)
CallsInShape ==
  /\ status \in [Messages -> {"new", "sending"} \cup Outcomes]
  /\ target \in [Messages -> SUBSET Endpoint]
  /\ todo \in [Messages -> SUBSET Endpoint]
  /\ cur \in [Messages -> Endpoint \cup {None}]
  /\ \A m \in Messages :
       /\ target[m] \subseteq receivers
       /\ todo[m] \subseteq target[m]
       /\ status[m] = "sending" => cur[m] \in target[m] \ todo[m]

Shape ==
  /\ ChanTypeOK
  /\ CallsInShape
  /\ senders \subseteq receivers
  /\ creating \subseteq receivers \ senders
  /\ sealed \subseteq receivers
  /\ \A c \in Consumers : pc[c] # "idle" => at[c] \in receivers

\* The initial state, in which nothing was created or called, has the shape.
LEMMA ShapeInit == ChanInit => Shape
BY ChannelAssumption DEF ChanInit, Shape, CallsInShape, ChanTypeOK, Queued, Endpoint, Modes, Outcomes

\* A new group's endpoint enters the receivers map, its sender is being made.
LEMMA ShapeInitGroup ==
  ASSUME Shape, NEW e \in Endpoint, InitGroup(e)
  PROVE  Shape'
BY DEF Shape, CallsInShape, ChanTypeOK, InitGroup, NewGroup, queueVars, callVars, consVars, Queued

\* Moving a made sender into the senders map keeps the shape.
LEMMA ShapeInitGroupSender ==
  ASSUME Shape, NEW e \in Endpoint, InitGroupSender(e)
  PROVE  Shape'
BY DEF Shape, CallsInShape, ChanTypeOK, InitGroupSender, InsertSender, queueVars, callVars, consVars, Queued

\* close() only shrinks the senders map.
LEMMA ShapeClose ==
  ASSUME Shape, NEW ch \in Channels, Close(ch)
  PROVE  Shape'
BY DEF Shape, CallsInShape, ChanTypeOK, Close, queueVars, callVars, consVars, Queued

\* Cloning the senders of a channel gives the call endpoints that exist.
LEMMA ShapePublishBegin ==
  ASSUME Shape, NEW m \in Messages, NEW ch \in Channels, PublishBegin(m, ch)
  PROVE  Shape'
<1> DEFINE snapshot == senders \cap Of(ch)
<1>1. /\ snapshot \subseteq Endpoint /\ snapshot \subseteq receivers
      /\ receivers' = receivers
  BY DEF Shape, CallsInShape, ChanTypeOK, PublishBegin, groupVars
<1>2. CallsInShape'
  <2>1. CASE /\ status' = [status EXCEPT ![m] = "closed"]
             /\ UNCHANGED <<target, todo, cur>>
    BY <1>1, <2>1 DEF Shape, CallsInShape, ChanTypeOK, Outcomes
  <2>2. CASE \E e \in snapshot :
               /\ status' = [status EXCEPT ![m] = "sending"]
               /\ target' = [target EXCEPT ![m] = snapshot]
               /\ todo' = [todo EXCEPT ![m] = snapshot \ {e}]
               /\ cur' = [cur EXCEPT ![m] = e]
    <3> PICK e \in snapshot :
               /\ status' = [status EXCEPT ![m] = "sending"]
               /\ target' = [target EXCEPT ![m] = snapshot]
               /\ todo' = [todo EXCEPT ![m] = snapshot \ {e}]
               /\ cur' = [cur EXCEPT ![m] = e]
      BY <2>2
    <3> HIDE DEF snapshot
    <3> QED
      BY <1>1 DEF Shape, CallsInShape, ChanTypeOK, Outcomes
  <2> QED
    BY <2>1, <2>2 DEF PublishBegin
<1> QED
  BY <1>2 DEF Shape, CallsInShape, ChanTypeOK, PublishBegin, groupVars, queueVars, consVars, Queued

\* A message sent where there is room keeps the queue within its capacity.
LEMMA ShapeSend ==
  ASSUME Shape, NEW m \in Messages, Send(m)
  PROVE  Shape'
<1> DEFINE e == cur[m]
<1>1. e \in Endpoint /\ e \in target[m] \ todo[m]
  BY DEF Shape, CallsInShape, ChanTypeOK, Send
<1>2. /\ log' \in [Endpoint -> Seq(Messages)]
      /\ Len(log'[e]) = Len(log[e]) + 1
      /\ \A f \in Endpoint \ {e} : log'[f] = log[f]
  BY <1>1 DEF Shape, CallsInShape, ChanTypeOK, Send
<1>3. \A f \in Endpoint : head'[f] <= Len(log'[f]) /\ Queued(f)' <= Capacity[f[1]]
  <2> TAKE f \in Endpoint
  <2>1. CASE f = e
    <3>1. Capacity[e[1]] \in Nat /\ Len(log[e]) \in Nat /\ head[e] \in Nat
      BY <1>1, ChannelAssumption DEF Shape, CallsInShape, ChanTypeOK, Endpoint
    <3>2. head[e] <= Len(log[e]) /\ Len(log[e]) - head[e] < Capacity[e[1]] /\ head' = head
      BY <1>1 DEF Shape, CallsInShape, ChanTypeOK, Send, Room, Queued
    <3> QED
      BY <1>2, <2>1, <3>1, <3>2 DEF Queued
  <2>2. CASE f # e
    BY <1>2, <2>2 DEF Shape, CallsInShape, ChanTypeOK, Send, Queued
  <2> QED
    BY <2>1, <2>2
<1>4. CallsInShape'
  <2>0. receivers' = receivers /\ target' = target
    BY DEF Send, groupVars
  <2>1. CASE /\ todo[m] = {}
             /\ status' = [status EXCEPT ![m] = "ok"]
             /\ cur' = [cur EXCEPT ![m] = None]
             /\ UNCHANGED todo
    BY <2>0, <2>1 DEF Shape, CallsInShape, ChanTypeOK, Outcomes
  <2>2. ASSUME NEW f \in todo[m],
               todo' = [todo EXCEPT ![m] = @ \ {f}],
               cur' = [cur EXCEPT ![m] = f],
               UNCHANGED status
        PROVE  CallsInShape'
    BY <1>1, <2>0, <2>2 DEF Shape, CallsInShape, ChanTypeOK
  <2> QED
    BY <2>1, <2>2 DEF Send, Advance
<1> QED
  BY <1>2, <1>3, <1>4 DEF Shape, CallsInShape, ChanTypeOK, Send, groupVars, consVars

\* A publish() that returns an error leaves the queues as they are.
LEMMA ShapeGiveUp ==
  ASSUME Shape, NEW m \in Messages, NEW error \in Outcomes, GiveUp(m, error)
  PROVE  Shape'
BY DEF Shape, CallsInShape, ChanTypeOK, GiveUp, groupVars, queueVars, consVars, Queued, Outcomes

\* A consumer turns to an endpoint that is in the map, or puts it there.
LEMMA ShapeConsumeBegin ==
  ASSUME Shape, NEW c \in Consumers, NEW e \in Endpoint, ConsumeBegin(c, e)
  PROVE  Shape'
BY DEF Shape, CallsInShape, ChanTypeOK, ConsumeBegin, NewGroup, groupVars, queueVars, callVars, Queued

\* A consumer that made the group inserts the sender it made.
LEMMA ShapeConsumeCreate ==
  ASSUME Shape, NEW c \in Consumers, ConsumeCreate(c)
  PROVE  Shape'
BY DEF Shape, CallsInShape, ChanTypeOK, ConsumeCreate, InsertSender, queueVars, callVars, Queued

\* Locking the receiver's mutex keeps the shape.
LEMMA ShapeAcquireReceiver ==
  ASSUME Shape, NEW c \in Consumers, AcquireReceiver(c)
  PROVE  Shape'
BY DEF Shape, CallsInShape, ChanTypeOK, AcquireReceiver, groupVars, queueVars, callVars, Queued

\* A message is received only when there is one.
LEMMA ShapeReceive ==
  ASSUME Shape, NEW c \in Consumers, Receive(c)
  PROVE  Shape'
<1> DEFINE e == at[c]
<1>1. e \in Endpoint
  BY DEF Shape, CallsInShape, ChanTypeOK, Receive
<1>2. /\ head[e] \in Nat /\ Len(log[e]) \in Nat /\ head[e] <= Len(log[e])
      /\ Capacity[e[1]] \in Nat /\ Len(log[e]) - head[e] <= Capacity[e[1]]
      /\ Len(log[e]) - head[e] # 0
  BY <1>1, ChannelAssumption DEF Shape, CallsInShape, ChanTypeOK, Endpoint, Receive, IsEmpty, Queued
<1>3. head' \in [Endpoint -> Nat] /\ head'[e] = head[e] + 1 /\ log' = log
        /\ \A f \in Endpoint \ {e} : head'[f] = head[f]
  BY <1>1, <1>2 DEF Shape, CallsInShape, ChanTypeOK, Receive
<1>4. \A f \in Endpoint : head'[f] <= Len(log'[f]) /\ Queued(f)' <= Capacity[f[1]]
  <2> TAKE f \in Endpoint
  <2>1. CASE f = e
    <3>1. head'[e] <= Len(log'[e]) /\ Len(log'[e]) - head'[e] <= Capacity[e[1]]
      BY <1>2, <1>3
    <3> QED
      BY <2>1, <3>1 DEF Queued
  <2>2. CASE f # e
    <3>1. head[f] <= Len(log[f]) /\ Len(log[f]) - head[f] <= Capacity[f[1]]
      BY DEF Shape, ChanTypeOK, Queued
    <3> QED
      BY <1>3, <2>2, <3>1 DEF Queued
  <2> QED
    BY <2>1, <2>2
<1> QED
  BY <1>3, <1>4 DEF Shape, CallsInShape, ChanTypeOK, Receive, ConsumeReturn, groupVars, callVars

\* Only an endpoint that exists is declared closed.
LEMMA ShapeReceiveClosed ==
  ASSUME Shape, NEW c \in Consumers, ReceiveClosed(c)
  PROVE  Shape'
BY DEF Shape, CallsInShape, ChanTypeOK, ReceiveClosed, ConsumeReturn, groupVars, callVars, Queued

\* A consume() that returns without a message keeps the shape.
LEMMA ShapeConsumeReturn ==
  ASSUME Shape, NEW c \in Consumers, ConsumeReturn(c), UNCHANGED queueVars
  PROVE  Shape'
BY DEF Shape, CallsInShape, ChanTypeOK, ConsumeReturn, groupVars, queueVars, callVars, Queued

\* Every step of publish(), consume(), close() and init_group keeps the shape.
LEMMA ShapeStep == Shape /\ [ChanNext]_chanVars => Shape'
<1> SUFFICES ASSUME Shape, [ChanNext]_chanVars PROVE Shape'
  OBVIOUS
<1>1. ASSUME NEW e \in Endpoint, InitGroup(e) \/ InitGroupSender(e) PROVE Shape'
  BY <1>1, ShapeInitGroup, ShapeInitGroupSender
<1>2. ASSUME NEW ch \in Channels, Close(ch) PROVE Shape'
  BY <1>2, ShapeClose
<1>3. ASSUME NEW m \in Messages, PublishStep(m) PROVE Shape'
  <2>1. CASE \E ch \in Channels : PublishBegin(m, ch)
    BY <2>1, ShapePublishBegin
  <2>2. CASE Send(m)
    BY <2>2, ShapeSend
  <2>3. CASE SendFull(m) \/ SendTimeout(m) \/ PublishDrop(m)
    BY <2>3, ShapeGiveUp DEF SendFull, SendTimeout, PublishDrop, Outcomes
  <2> QED
    BY <1>3, <2>1, <2>2, <2>3 DEF PublishStep
<1>4. ASSUME NEW c \in Consumers, ConsumeStep(c) PROVE Shape'
  <2>1. CASE \E e \in Endpoint : ConsumeBegin(c, e)
    BY <2>1, ShapeConsumeBegin
  <2>2. CASE ConsumeCreate(c) \/ AcquireReceiver(c)
    BY <2>2, ShapeConsumeCreate, ShapeAcquireReceiver
  <2>3. CASE Receive(c) \/ ReceiveClosed(c)
    BY <2>3, ShapeReceive, ShapeReceiveClosed
  <2>4. CASE ReceiveTimeout(c) \/ ConsumeDrop(c)
    BY <2>4, ShapeConsumeReturn DEF ReceiveTimeout, ConsumeDrop
  <2> QED
    BY <1>4, <2>1, <2>2, <2>3, <2>4 DEF ConsumeStep
<1>5. CASE UNCHANGED chanVars
  BY <1>5 DEF Shape, CallsInShape, ChanTypeOK, chanVars, groupVars, queueVars,
              callVars, consVars, Queued
<1> QED
  BY <1>1, <1>2, <1>3, <1>4, <1>5 DEF ChanNext

\* Every reachable state has the shape.
THEOREM ShapeInvariant == ChanSpec => []Shape
BY ShapeInit, ShapeStep, PTL DEF ChanSpec

\* Every reachable state is well typed, no queue exceeds its capacity and no
\* group has received more than was accepted for it.
THEOREM ChanTypeCorrect == ChanSpec => []ChanTypeOK
<1>1. Shape => ChanTypeOK
  BY DEF Shape
<1> QED
  BY <1>1, ShapeInvariant, PTL

-----------------------------------------------------------------------------
(***************************************************************************)
(* Closed is final.  Only a sender in the map can be cloned, only one that *)
(* was made with its group can enter the map, and a group is made once.    *)
(***************************************************************************)
\* No step adds a sender or a message to a group that was declared closed.
LEMMA ClosedStep ==
  Shape /\ ClosedIsFinal /\ [ChanNext]_chanVars => ClosedIsFinal'
<1> SUFFICES ASSUME Shape, ClosedIsFinal, [ChanNext]_chanVars,
                    NEW e \in sealed'
             PROVE  IsEmpty(e)' /\ ~HasSender(e)'
  BY DEF ClosedIsFinal
<1> USE DEF IsEmpty, Queued, HasSender, Cloned
<1>1. e \in sealed => e \in receivers /\ IsEmpty(e) /\ ~HasSender(e)
  BY DEF Shape, ClosedIsFinal
<1>2. ASSUME NEW f \in Endpoint, InitGroup(f) \/ InitGroupSender(f)
      PROVE  IsEmpty(e)' /\ ~HasSender(e)'
  BY <1>1, <1>2 DEF InitGroup, NewGroup, InitGroupSender, InsertSender,
                    queueVars, callVars
<1>3. ASSUME NEW ch \in Channels, Close(ch)
      PROVE  IsEmpty(e)' /\ ~HasSender(e)'
  BY <1>1, <1>3 DEF Close, queueVars, callVars
<1>4. ASSUME NEW m \in Messages, NEW ch \in Channels, PublishBegin(m, ch)
      PROVE  IsEmpty(e)' /\ ~HasSender(e)'
  <2>1. UNCHANGED <<groupVars, queueVars>> /\ e \in sealed
    BY <1>4 DEF PublishBegin, queueVars
  <2>2. \A n \in Messages : status'[n] = "sending" =>
          \/ status[n] = "sending" /\ target'[n] = target[n]
          \/ target'[n] \subseteq senders
    BY <1>4 DEF PublishBegin, Shape, ChanTypeOK
  <2> QED
    BY <1>1, <2>1, <2>2 DEF groupVars, queueVars
<1>5. ASSUME NEW m \in Messages, Send(m)
      PROVE  IsEmpty(e)' /\ ~HasSender(e)'
  <2>1. e \in sealed /\ e # cur[m] /\ UNCHANGED <<groupVars, head, target>>
    BY <1>1, <1>5 DEF Send, Shape, CallsInShape
  <2>2. \A n \in Messages : status'[n] = "sending" => status[n] = "sending"
    BY <1>5 DEF Send, Advance, Shape, ChanTypeOK
  <2>3. log'[e] = log[e]
    BY <1>5, <2>1 DEF Send, Shape, ChanTypeOK
  <2> QED
    BY <1>1, <2>1, <2>2, <2>3 DEF groupVars
<1>6. ASSUME NEW m \in Messages, NEW error \in Outcomes, GiveUp(m, error)
      PROVE  IsEmpty(e)' /\ ~HasSender(e)'
  BY <1>1, <1>6 DEF GiveUp, Shape, ChanTypeOK, Outcomes, groupVars, queueVars
<1>7. ASSUME NEW c \in Consumers, NEW f \in Endpoint, ConsumeBegin(c, f)
      PROVE  IsEmpty(e)' /\ ~HasSender(e)'
  BY <1>1, <1>7 DEF ConsumeBegin, NewGroup, groupVars, queueVars, callVars
<1>8. ASSUME NEW c \in Consumers, ConsumeCreate(c) \/ AcquireReceiver(c)
      PROVE  IsEmpty(e)' /\ ~HasSender(e)'
  BY <1>1, <1>8 DEF ConsumeCreate, InsertSender, AcquireReceiver, groupVars,
                    queueVars, callVars
<1>9. ASSUME NEW c \in Consumers, Receive(c)
      PROVE  IsEmpty(e)' /\ ~HasSender(e)'
  <2>1. e \in sealed /\ e # at[c] /\ UNCHANGED <<groupVars, callVars, log>>
    BY <1>1, <1>9 DEF Receive, ConsumeReturn
  <2>2. head'[e] = head[e]
    BY <1>9, <2>1 DEF Receive, Shape, ChanTypeOK
  <2> QED
    BY <1>1, <2>1, <2>2 DEF groupVars, callVars
<1>10. ASSUME NEW c \in Consumers, ReceiveClosed(c)
       PROVE  IsEmpty(e)' /\ ~HasSender(e)'
  BY <1>1, <1>10 DEF ReceiveClosed, ConsumeReturn, groupVars, callVars
<1>11. ASSUME NEW c \in Consumers, ReceiveTimeout(c) \/ ConsumeDrop(c)
       PROVE  IsEmpty(e)' /\ ~HasSender(e)'
  BY <1>1, <1>11 DEF ReceiveTimeout, ConsumeDrop, ConsumeReturn, groupVars,
                     queueVars, callVars
<1>12. CASE UNCHANGED chanVars
  BY <1>1, <1>12 DEF chanVars, groupVars, queueVars, callVars
<1> QED
  BY <1>2, <1>3, <1>4, <1>5, <1>6, <1>7, <1>8, <1>9, <1>10, <1>11, <1>12
  DEF ChanNext, PublishStep, SendFull, SendTimeout, PublishDrop, Outcomes, ConsumeStep

\* A consumer that is told Closed has seen the last message of its group: none
\* is left and none can come, whatever publishers and closers are doing.
THEOREM ClosedIsFinalHolds == ChanSpec => []ClosedIsFinal
<1>1. ChanInit => ClosedIsFinal
  BY DEF ChanInit, ClosedIsFinal
<1> QED
  BY <1>1, ClosedStep, ShapeInvariant, PTL DEF ChanSpec

\* Competing consumers never receive from one queue at the same time.
THEOREM OneReceiverHolds == ChanSpec => []OneReceiver
<1>1. ChanInit => OneReceiver
  BY DEF ChanInit, OneReceiver
<1>2. Shape /\ OneReceiver /\ [ChanNext]_chanVars => OneReceiver'
  <2> SUFFICES ASSUME Shape, OneReceiver, [ChanNext]_chanVars PROVE OneReceiver'
    OBVIOUS
  <2>1. ASSUME NEW c \in Consumers, AcquireReceiver(c) PROVE OneReceiver'
    BY <2>1 DEF AcquireReceiver, Locked, OneReceiver, Shape, ChanTypeOK
  <2>2. ASSUME NEW c \in Consumers, NEW e \in Endpoint, ConsumeBegin(c, e)
        PROVE  OneReceiver'
    BY <2>2 DEF ConsumeBegin, OneReceiver, Shape, ChanTypeOK
  <2>3. ASSUME NEW c \in Consumers, ConsumeCreate(c) PROVE OneReceiver'
    BY <2>3 DEF ConsumeCreate, OneReceiver, Shape, ChanTypeOK
  <2>4. ASSUME NEW c \in Consumers, ConsumeReturn(c) PROVE OneReceiver'
    BY <2>4 DEF ConsumeReturn, OneReceiver, Shape, ChanTypeOK
  <2>5. CASE UNCHANGED consVars
    BY <2>5 DEF consVars, OneReceiver
  <2> QED
    BY <2>1, <2>2, <2>3, <2>4, <2>5
    DEF ChanNext, PublishStep, ConsumeStep, InitGroup, InitGroupSender, Close,
        PublishBegin, Send, SendFull, SendTimeout, PublishDrop, GiveUp, Receive, ReceiveClosed,
        ReceiveTimeout, ConsumeDrop, chanVars
<1> QED
  BY <1>1, <1>2, ShapeInvariant, PTL DEF ChanSpec

-----------------------------------------------------------------------------
(***************************************************************************)
(* What publish() returns agrees with where the message went.  The groups  *)
(* that have the message are those of the clone that the call is past, so  *)
(* the invariant follows the call's progress through its clone.            *)
(***************************************************************************)
Has(m) == {e \in Endpoint : m \in Logged(e)}

Progress(m) ==
  /\ status[m] \in {"new", "closed"} => target[m] = {} /\ Has(m) = {}
  /\ status[m] = "sending" => Has(m) = target[m] \ (todo[m] \cup {cur[m]})
  /\ status[m] = "ok" => Has(m) = target[m] /\ Has(m) # {}
  /\ status[m] \in {"full", "timeout", "dropped"} => Has(m) \subseteq target[m] /\ Has(m) # target[m]

DeliveryInv == \A m \in Messages : Progress(m)

\* A step that leaves the logs alone leaves alone who has which message.
LEMMA HasUnchanged ==
  ASSUME UNCHANGED log, NEW m \in Messages
  PROVE  Has(m)' = Has(m)
BY DEF Has, Logged

\* A step that leaves a call and the logs alone leaves its progress alone.
LEMMA ProgressUnchanged ==
  ASSUME UNCHANGED log, NEW m \in Messages, Progress(m),
         status'[m] = status[m], target'[m] = target[m],
         todo'[m] = todo[m], cur'[m] = cur[m]
  PROVE  Progress(m)'
BY HasUnchanged DEF Progress

\* Send adds its message to the one group it was sending to.
LEMMA HasAfterSend ==
  ASSUME Shape, NEW m \in Messages, Send(m)
  PROVE  /\ Has(m)' = Has(m) \cup {cur[m]}
         /\ \A n \in Messages \ {m} : Has(n)' = Has(n)
<1>0. PICK e \in Endpoint : e = cur[m]
  BY DEF Shape, CallsInShape, Send
<1>1. /\ log' = [log EXCEPT ![e] = Append(@, m)]
      /\ log \in [Endpoint -> Seq(Messages)]
  BY <1>0 DEF Shape, CallsInShape, ChanTypeOK, Send
<1>2. Logged(e)' = Logged(e) \cup {m}
  <2>1. log'[e] = Append(log[e], m) /\ log[e] \in Seq(Messages)
    BY <1>1
  <2>2. Elements(log'[e]) = Elements(log[e]) \cup {m}
    BY <2>1, ElementsOfAppend
  <2> QED
    BY <2>2 DEF Logged, Elements
<1>3. \A f \in Endpoint \ {e} : Logged(f)' = Logged(f)
  BY <1>1 DEF Logged
<1> QED
  BY <1>0, <1>1, <1>2, <1>3 DEF Has

\* Every step keeps the progress of every call in line with the logs.
LEMMA DeliveryStep ==
  Shape /\ DeliveryInv /\ [ChanNext]_chanVars => DeliveryInv'
<1> SUFFICES ASSUME Shape, DeliveryInv, [ChanNext]_chanVars, NEW n \in Messages
             PROVE  Progress(n)'
  BY DEF DeliveryInv
<1>0. Progress(n)
  BY DEF DeliveryInv
<1>1. ASSUME UNCHANGED <<log, callVars>> PROVE Progress(n)'
  BY <1>0, <1>1, ProgressUnchanged DEF callVars
<1>2. ASSUME NEW m \in Messages, NEW ch \in Channels, PublishBegin(m, ch)
      PROVE  Progress(n)'
  <2> DEFINE snapshot == senders \cap Of(ch)
  <2>1. UNCHANGED log /\ status[m] = "new"
    BY <1>2 DEF PublishBegin, queueVars
  <2>2. CASE n # m
    <3>1. status'[n] = status[n] /\ target'[n] = target[n] /\ todo'[n] = todo[n]
            /\ cur'[n] = cur[n]
      BY <1>2, <2>2 DEF PublishBegin, Shape, CallsInShape
    <3> QED
      BY <1>0, <2>1, <3>1, ProgressUnchanged
  <2>3. CASE n = m
    <3>1. target[n] = {} /\ Has(n) = {} /\ Has(n)' = {}
      BY <1>0, <2>1, <2>3, HasUnchanged DEF Progress
    <3>2. \/ status'[n] = "closed" /\ target'[n] = target[n]
          \/ \E e \in snapshot : /\ status'[n] = "sending" /\ target'[n] = snapshot
                                 /\ todo'[n] = snapshot \ {e} /\ cur'[n] = e
      BY <1>2, <2>3 DEF PublishBegin, Shape, CallsInShape
    <3> HIDE DEF snapshot
    <3> QED
      BY <3>1, <3>2 DEF Progress
  <2> QED
    BY <2>2, <2>3
<1>3. ASSUME NEW m \in Messages, Send(m)
      PROVE  Progress(n)'
  <2>1. /\ status[m] = "sending" /\ target' = target
        /\ cur[m] \in target[m] \ todo[m] /\ todo[m] \subseteq target[m]
    BY <1>3 DEF Send, Shape, CallsInShape
  <2>2. CASE n # m
    <3>1. status'[n] = status[n] /\ todo'[n] = todo[n] /\ cur'[n] = cur[n]
            /\ Has(n)' = Has(n)
      BY <1>3, <2>2, HasAfterSend DEF Send, Advance, Shape, CallsInShape
    <3> QED
      BY <1>0, <2>1, <3>1 DEF Progress
  <2>3. CASE n = m
    <3>1. Has(n)' = target[n] \ todo[n]
      BY <1>0, <1>3, <2>1, <2>3, HasAfterSend DEF Progress
    <3>2. \/ \E f \in todo[n] : /\ todo'[n] = todo[n] \ {f} /\ cur'[n] = f
                                /\ status'[n] = "sending"
          \/ todo[n] = {} /\ status'[n] = "ok"
      BY <1>3, <2>1, <2>3 DEF Send, Advance, Shape, CallsInShape
    <3> QED
      BY <2>1, <2>3, <3>1, <3>2 DEF Progress
  <2> QED
    BY <2>2, <2>3
<1>4. ASSUME NEW m \in Messages, NEW error \in {"full", "timeout", "dropped"}, GiveUp(m, error)
      PROVE  Progress(n)'
  <2>1. UNCHANGED <<log, target>> /\ status[m] = "sending" /\ cur[m] \in target[m]
    BY <1>4 DEF GiveUp, queueVars, Shape, CallsInShape
  <2>2. CASE n # m
    <3>1. status'[n] = status[n] /\ todo'[n] = todo[n] /\ cur'[n] = cur[n]
      BY <1>4, <2>2 DEF GiveUp, Shape, CallsInShape
    <3> QED
      BY <1>0, <2>1, <3>1, ProgressUnchanged
  <2>3. CASE n = m
    <3>1. status'[n] = error /\ Has(n)' = Has(n)
      BY <1>4, <2>1, <2>3, HasUnchanged DEF GiveUp, Shape, CallsInShape
    <3> QED
      BY <1>0, <2>1, <2>3, <3>1 DEF Progress
  <2> QED
    BY <2>2, <2>3
<1> QED
  BY <1>1, <1>2, <1>3, <1>4
  DEF ChanNext, PublishStep, SendFull, SendTimeout, PublishDrop, ConsumeStep, InitGroup,
      InitGroupSender, Close, ConsumeBegin, ConsumeCreate, AcquireReceiver, Receive,
      ReceiveClosed, ReceiveTimeout, ConsumeDrop, ConsumeReturn, queueVars, chanVars

\* In the initial state no call has been made and no group has a message.
LEMMA DeliveryInit == ChanInit => DeliveryInv
BY DEF ChanInit, DeliveryInv, Progress, Has, Logged

\* The progress of every call agrees with the logs in every reachable state.
THEOREM DeliveryInvariant == ChanSpec => []DeliveryInv
BY DeliveryInit, DeliveryStep, ShapeInvariant, PTL DEF ChanSpec

\* Ok means that every group of the clone has the message, an error that some
\* group lacks it, and no group outside the clone ever has it.
THEOREM OutcomeMatchesDeliveryHolds == ChanSpec => []OutcomeMatchesDelivery
<1>1. Shape /\ DeliveryInv => OutcomeMatchesDelivery
  <2> SUFFICES ASSUME Shape, DeliveryInv, NEW m \in Messages
               PROVE  /\ Has(m) \subseteq target[m]
                      /\ status[m] = "ok" => Has(m) = target[m] /\ Has(m) # {}
                      /\ status[m] \in {"full", "timeout", "dropped"} => Has(m) # target[m]
                      /\ status[m] \in {"new", "closed"} => Has(m) = {}
    BY DEF OutcomeMatchesDelivery, Has
  <2>1. status[m] \in {"new", "sending"} \cup Outcomes
    BY DEF Shape, ChanTypeOK, Outcomes
  <2> QED
    BY <2>1 DEF DeliveryInv, Progress, Outcomes
<1> QED
  BY <1>1, ShapeInvariant, DeliveryInvariant, PTL

-----------------------------------------------------------------------------
(***************************************************************************)
(* The channel implements GroupDelivery: Send is Accept, Receive is        *)
(* HandOut, ReceiveClosed is DeclareClosed, every other step stutters.     *)
(***************************************************************************)
\* A message that is being sent is not yet in the queue it is sent to, and
\* that queue has not been declared closed.
LEMMA SendIsAccept ==
  ASSUME Shape, ClosedIsFinal, DeliveryInv, NEW m \in Messages, Send(m)
  PROVE  Delivery!Accept(cur[m], m)
<1> DEFINE e == cur[m]
<1>1. e \in Endpoint /\ e \in target[m] /\ status[m] = "sending"
  BY DEF Shape, CallsInShape, Send
<1>2. e \notin sealed
  BY <1>1 DEF ClosedIsFinal, HasSender, Cloned
<1>3. m \notin Logged(e)
  BY <1>1 DEF DeliveryInv, Progress, Has
<1>4. Len(log[e]) - head[e] < Capacity[e[1]]
  BY DEF Send, Room, Queued
<1>5. log' = [log EXCEPT ![e] = Append(@, m)] /\ UNCHANGED <<head, sealed>>
  BY DEF Send
<1> HIDE DEF e
<1> QED
  BY <1>1, <1>2, <1>3, <1>4, <1>5 DEF Delivery!Accept, Logged, e

\* Every step of the channel is a step of GroupDelivery or a stutter.
LEMMA StepSimulation ==
  Shape /\ ClosedIsFinal /\ DeliveryInv /\ [ChanNext]_chanVars
    => [Delivery!Next]_(Delivery!streamVars)
<1> SUFFICES ASSUME Shape, ClosedIsFinal, DeliveryInv, [ChanNext]_chanVars
             PROVE  Delivery!Next \/ UNCHANGED <<log, head, sealed>>
  BY DEF Delivery!streamVars
<1>1. ASSUME NEW m \in Messages, Send(m) PROVE Delivery!Next
  <2>1. cur[m] \in Endpoint
    BY <1>1 DEF Shape, CallsInShape, Send
  <2> QED
    BY <1>1, <2>1, SendIsAccept DEF Delivery!Next
<1>2. ASSUME NEW c \in Consumers, Receive(c) PROVE Delivery!HandOut(at[c])
  <2>1. at[c] \in Endpoint
    BY <1>2 DEF Shape, ChanTypeOK, Receive
  <2>2. head[at[c]] < Len(log[at[c]])
    BY <1>2, <2>1 DEF Shape, ChanTypeOK, Receive, IsEmpty, Queued
  <2> QED
    BY <1>2, <2>2 DEF Receive, Delivery!HandOut
<1>3. ASSUME NEW c \in Consumers, ReceiveClosed(c) PROVE Delivery!DeclareClosed(at[c])
  <2>1. at[c] \in Endpoint
    BY <1>3 DEF Shape, ChanTypeOK, ReceiveClosed
  <2>2. head[at[c]] = Len(log[at[c]])
    BY <1>3, <2>1 DEF Shape, ChanTypeOK, ReceiveClosed, IsEmpty, Queued
  <2> QED
    BY <1>3, <2>2 DEF ReceiveClosed, Delivery!DeclareClosed
<1>4. ASSUME NEW c \in Consumers, Receive(c) \/ ReceiveClosed(c) PROVE at[c] \in Endpoint
  BY <1>4 DEF Shape, ChanTypeOK, Receive, ReceiveClosed
<1> QED
  BY <1>1, <1>2, <1>3, <1>4
  DEF ChanNext, PublishStep, SendFull, SendTimeout, PublishDrop, GiveUp, ConsumeStep, InitGroup,
      InitGroupSender, Close, PublishBegin, ConsumeBegin, ConsumeCreate,
      AcquireReceiver, ReceiveTimeout, ConsumeDrop, queueVars, chanVars, Delivery!Next

\* The channel is a GroupDelivery for each of its groups: bounded, first in
\* first out, exactly once, nothing after Closed.
THEOREM ChannelImplementsGroupDelivery == ChanSpec => ImplementsGroupDelivery
<1>1. ChanInit => Delivery!Init
  BY DEF ChanInit, Delivery!Init
<1> QED
  BY <1>1, StepSimulation, ShapeInvariant, ClosedIsFinalHolds, DeliveryInvariant, PTL
  DEF ChanSpec, ImplementsGroupDelivery, Delivery!Spec

\* No group is given a message twice.
NoDuplicates ==
  \A e \in Endpoint : \A i, j \in 1..Len(log[e]) : log[e][i] = log[e][j] => i = j

\* Every step of GroupDelivery keeps the streams free of duplicates.
LEMMA NoDuplicatesStep ==
  Shape /\ NoDuplicates /\ [Delivery!Next]_(Delivery!streamVars) => NoDuplicates'
<1> SUFFICES ASSUME Shape, NoDuplicates, [Delivery!Next]_(Delivery!streamVars), NEW e \in Endpoint
             PROVE  \A i, j \in 1..Len(log'[e]) : log'[e][i] = log'[e][j] => i = j
  BY DEF NoDuplicates
<1>1. log \in [Endpoint -> Seq(Messages)] /\ Len(log[e]) \in Nat
  BY DEF Shape, ChanTypeOK
<1>2. CASE log'[e] = log[e]
  BY <1>2 DEF NoDuplicates
<1>3. ASSUME NEW m \in Messages, Delivery!Accept(e, m)
      PROVE  \A i, j \in 1..Len(log'[e]) : log'[e][i] = log'[e][j] => i = j
  <2>1. /\ Len(log'[e]) = Len(log[e]) + 1
        /\ \A i \in 1..Len(log[e]) : log'[e][i] = log[e][i] /\ log[e][i] # m
        /\ log'[e][Len(log[e]) + 1] = m
    BY <1>1, <1>3 DEF Delivery!Accept
  <2> QED
    BY <1>1, <2>1 DEF NoDuplicates
<1> QED
  BY <1>1, <1>2, <1>3
  DEF Delivery!Next, Delivery!Accept, Delivery!HandOut, Delivery!DeclareClosed, Delivery!streamVars

\* A group is never given a message twice.
THEOREM NoDuplicatesHolds == ChanSpec => []NoDuplicates
<1>1. ChanInit => NoDuplicates
  BY DEF ChanInit, NoDuplicates
<1> QED
  BY <1>1, StepSimulation, NoDuplicatesStep, ShapeInvariant, ClosedIsFinalHolds,
     DeliveryInvariant, PTL DEF ChanSpec

-----------------------------------------------------------------------------
(***************************************************************************)
(* Channels with Overflow::DropOldest.  A receiver's position is behind    *)
(* all that it got, in order, and what it skipped was overwritten when it  *)
(* did; more only becomes older.                                           *)
(***************************************************************************)
CastShape ==
  /\ result \in [Messages -> {"new", "ok", "closed"}]
  /\ sent \in [Channels -> Seq(Messages)]
  /\ joined \in [Endpoint -> Nat \cup {None}]
  /\ position \in [Endpoint -> Nat]
  /\ got \in [Endpoint -> Seq(Nat)]

InOrder(e) ==
  /\ ~HasReceiver(e) => got[e] = <<>>
  /\ HasReceiver(e) => joined[e] <= position[e] /\ position[e] <= Len(sent[e[1]])
  /\ \A i \in 1..Len(got[e]) :
       got[e][i] \in (joined[e] + 1)..position[e] /\ \A j \in 1..(i - 1) : got[e][j] < got[e][i]

SkipsOldOnly(e) ==
  HasReceiver(e) => \A n \in (joined[e] + 1)..position[e] :
    (\E i \in 1..Len(got[e]) : got[e][i] = n) \/ n <= Len(sent[e[1]]) - Slots[e[1]]

OkIsSent(m) == result[m] = "ok" => \E ch \in Channels : \E n \in 1..Len(sent[ch]) : sent[ch][n] = m

CastInv ==
  /\ CastShape
  /\ \A e \in Endpoint : InOrder(e) /\ SkipsOldOnly(e)
  /\ \A m \in Messages : OkIsSent(m)

\* While a consumer of such a channel waits or polls, its group has a receiver.
Waiting ==
  overflow = "DropOldest" =>
    /\ pc \in [Consumers -> {"idle", "wait", "poll"}] /\ at \in [Consumers -> Endpoint \cup {None}]
    /\ \A c \in Consumers : pc[c] # "idle" => at[c] \in Endpoint /\ HasReceiver(at[c])

\* A new channel has sent nothing and nobody has received from it.
LEMMA CastInit == NewChannel => CastInv /\ Waiting
<1> SUFFICES ASSUME NewChannel PROVE CastInv /\ Waiting
  OBVIOUS
<1>1. CastShape
  BY DEF NewChannel, CastShape
<1>2. ASSUME NEW e \in Endpoint PROVE joined[e] = None /\ got[e] = <<>>
  BY DEF NewChannel
<1>3. \A e \in Endpoint : InOrder(e) /\ SkipsOldOnly(e)
  BY <1>2 DEF InOrder, SkipsOldOnly, HasReceiver
<1>4. \A m \in Messages : OkIsSent(m)
  <2> SUFFICES ASSUME NEW m \in Messages PROVE result[m] # "ok"
    BY DEF OkIsSent
  <2> QED
    BY DEF NewChannel
<1>5. Waiting
  BY DEF NewChannel, ChanInit, Waiting
<1> QED
  BY <1>1, <1>3, <1>4, <1>5 DEF CastInv

\* A receiver that is new has missed nothing and got nothing.
LEMMA CastSubscribe ==
  ASSUME CastInv, NEW e \in Endpoint, Subscribe(e)
  PROVE  CastInv' /\ HasReceiver(e)' /\ \A f \in Endpoint : HasReceiver(f) => HasReceiver(f)'
<1>1. e[1] \in Channels /\ Len(sent[e[1]]) \in Nat /\ UNCHANGED <<result, sent, got>> /\ ~HasReceiver(e)
  BY DEF CastInv, CastShape, Endpoint, Subscribe
<1>2. /\ joined' \in [Endpoint -> Nat \cup {None}] /\ position' \in [Endpoint -> Nat]
      /\ joined'[e] = Len(sent[e[1]]) /\ position'[e] = Len(sent[e[1]])
      /\ \A f \in Endpoint \ {e} : joined'[f] = joined[f] /\ position'[f] = position[f]
  BY <1>1 DEF CastInv, CastShape, Subscribe
<1>3. HasReceiver(e)' /\ \A f \in Endpoint \ {e} : HasReceiver(f)' <=> HasReceiver(f)
  BY <1>1, <1>2, SlotsAssumption DEF HasReceiver
<1>4. CastShape'
  BY <1>1, <1>2 DEF CastInv, CastShape
<1>5. InOrder(e)' /\ SkipsOldOnly(e)'
  BY <1>1, <1>2, <1>3 DEF CastInv, InOrder, SkipsOldOnly
<1>6. ASSUME NEW f \in Endpoint \ {e} PROVE InOrder(f)' /\ SkipsOldOnly(f)'
  BY <1>1, <1>2, <1>3 DEF CastInv, InOrder, SkipsOldOnly
<1>7. \A m \in Messages : OkIsSent(m)'
  BY <1>1 DEF CastInv, OkIsSent
<1> QED
  BY <1>1, <1>3, <1>4, <1>5, <1>6, <1>7 DEF CastInv

\* A message that is published comes last; what was old is older now.
LEMMA CastPublishStep ==
  ASSUME CastInv, NEW m \in Messages, NEW ch \in Channels, CastPublish(m, ch)
  PROVE  CastInv' /\ \A f \in Endpoint : HasReceiver(f) => HasReceiver(f)'
<1>1. UNCHANGED <<joined, position, got>> /\ \A f : HasReceiver(f)' <=> HasReceiver(f)
  BY DEF CastPublish, HasReceiver
<1>2. CASE UNCHANGED sent /\ result' = [result EXCEPT ![m] = "closed"]
  <2>1. CastShape'
    BY <1>1, <1>2 DEF CastInv, CastShape
  <2>2. \A e \in Endpoint : InOrder(e)' /\ SkipsOldOnly(e)'
    BY <1>1, <1>2 DEF CastInv, InOrder, SkipsOldOnly
  <2>3. \A n \in Messages : OkIsSent(n)'
    BY <1>2 DEF CastInv, CastShape, OkIsSent
  <2> QED
    BY <1>1, <2>1, <2>2, <2>3 DEF CastInv
<1>3. CASE /\ sent' = [sent EXCEPT ![ch] = Append(@, m)]
           /\ result' = [result EXCEPT ![m] = "ok"]
  <2>1. /\ sent[ch] \in Seq(Messages) /\ sent'[ch] = Append(sent[ch], m)
        /\ \A d \in Channels \ {ch} : sent'[d] = sent[d]
    BY <1>3 DEF CastInv, CastShape
  <2>2. /\ Len(sent[ch]) \in Nat /\ Len(sent'[ch]) = Len(sent[ch]) + 1 /\ sent'[ch][Len(sent[ch]) + 1] = m
        /\ \A n \in 1..Len(sent[ch]) : sent'[ch][n] = sent[ch][n]
    BY <2>1
  <2>3. CastShape'
    BY <1>1, <1>3 DEF CastInv, CastShape
  <2>4. ASSUME NEW e \in Endpoint PROVE InOrder(e)' /\ SkipsOldOnly(e)'
    <3>0. e[1] \in Channels /\ Slots[e[1]] \in Nat
      BY SlotsAssumption DEF Endpoint
    <3>1. /\ Len(sent[e[1]]) \in Nat /\ Len(sent'[e[1]]) \in Nat /\ Len(sent[e[1]]) <= Len(sent'[e[1]])
          /\ Slots[e[1]] \in Nat /\ position[e] \in Nat /\ joined[e] \in Nat \cup {None}
      <4>1. position[e] \in Nat /\ joined[e] \in Nat \cup {None} /\ sent[e[1]] \in Seq(Messages)
        BY <3>0 DEF CastInv, CastShape
      <4>2. CASE e[1] = ch
        BY <2>2, <3>0, <4>1, <4>2
      <4>3. CASE e[1] # ch
        BY <2>1, <3>0, <4>1, <4>3
      <4> QED
        BY <4>2, <4>3
    <3>2. InOrder(e) /\ SkipsOldOnly(e) /\ (HasReceiver(e)' <=> HasReceiver(e))
      BY <1>1 DEF CastInv
    <3>3. HasReceiver(e) => position[e] <= Len(sent'[e[1]])
      BY <3>1, <3>2 DEF InOrder
    <3>4. InOrder(e)'
      BY <1>1, <3>2, <3>3 DEF InOrder
    <3>5. ASSUME HasReceiver(e), NEW n \in (joined[e] + 1)..position[e]
          PROVE  (\E i \in 1..Len(got[e]) : got[e][i] = n) \/ n <= Len(sent'[e[1]]) - Slots[e[1]]
      <4>1. joined[e] \in Nat
        BY <3>1, <3>5 DEF HasReceiver
      <4>2. (\E i \in 1..Len(got[e]) : got[e][i] = n) \/ n <= Len(sent[e[1]]) - Slots[e[1]]
        BY <3>2, <3>5 DEF SkipsOldOnly
      <4>3. n \in Int /\ Len(sent[e[1]]) - Slots[e[1]] <= Len(sent'[e[1]]) - Slots[e[1]]
        BY <3>1, <4>1
      <4>4. CASE n <= Len(sent[e[1]]) - Slots[e[1]]
        <5>1. Len(sent[e[1]]) - Slots[e[1]] \in Int /\ Len(sent'[e[1]]) - Slots[e[1]] \in Int
          BY <3>1
        <5>2. n <= Len(sent'[e[1]]) - Slots[e[1]]
          BY <4>3, <4>4, <5>1
        <5> QED
          BY <5>2
      <4> QED
        BY <4>2, <4>4
    <3>6. SkipsOldOnly(e)'
      BY <1>1, <3>2, <3>5 DEF SkipsOldOnly
    <3> QED
      BY <3>4, <3>6
  <2>5. ASSUME NEW n \in Messages PROVE OkIsSent(n)'
    <3>1. CASE n = m
      BY <2>2, <3>1 DEF OkIsSent
    <3>2. CASE n # m
      <4>1. SUFFICES ASSUME result[n] = "ok" PROVE OkIsSent(n)'
        BY <1>3, <3>2 DEF OkIsSent, CastInv, CastShape
      <4>2. PICK d \in Channels : \E k \in 1..Len(sent[d]) : sent[d][k] = n
        BY <4>1 DEF CastInv, OkIsSent
      <4>3. PICK k \in 1..Len(sent[d]) : sent[d][k] = n
        BY <4>2
      <4>4. k \in 1..Len(sent'[d]) /\ sent'[d][k] = n
        <5>1. CASE d = ch
          BY <2>2, <4>3, <5>1
        <5>2. CASE d # ch
          BY <2>1, <4>3, <5>2
        <5> QED
          BY <5>1, <5>2
      <4> QED
        BY <4>4 DEF OkIsSent
    <3> QED
      BY <3>1, <3>2
  <2> QED
    BY <1>1, <2>3, <2>4, <2>5 DEF CastInv
<1> QED
  BY <1>1, <1>2, <1>3 DEF CastPublish

\* What Append does, place by place.
LEMMA PlacesOfAppend ==
  ASSUME NEW S, NEW s \in Seq(S), NEW x \in S
  PROVE  /\ Len(s) \in Nat /\ Len(Append(s, x)) = Len(s) + 1 /\ Append(s, x)[Len(s) + 1] = x
         /\ \A i \in 1..Len(s) : Append(s, x)[i] = s[i] /\ s[i] \in S
OBVIOUS

\* The message that is received next is newer than all that were.
LEMMA CastReceiveStep ==
  ASSUME CastInv, Waiting, overflow = "DropOldest", NEW c \in Consumers, CastReceive(c)
  PROVE  CastInv'
<1>0. at[c] \in Endpoint /\ HasReceiver(at[c])
  BY DEF Waiting, CastReceive
<1> PICK e \in Endpoint : e = at[c]
  BY <1>0
<1>1. /\ HasReceiver(e) /\ position[e] \in Nat /\ Len(sent[e[1]]) \in Nat
      /\ joined[e] \in Nat /\ got[e] \in Seq(Nat) /\ position[e] # Len(sent[e[1]])
  BY <1>0 DEF CastInv, CastShape, CastReceive, CaughtUp, HasReceiver, Endpoint
<1>2. InOrder(e) /\ SkipsOldOnly(e)
  BY <1>1 DEF CastInv
<1>3. /\ position' \in [Endpoint -> Nat] /\ got' \in [Endpoint -> Seq(Nat)]
      /\ position'[e] = position[e] + 1 /\ got'[e] = Append(got[e], position[e] + 1)
      /\ \A f \in Endpoint \ {e} : position'[f] = position[f] /\ got'[f] = got[f]
      /\ UNCHANGED <<result, sent, joined>>
  BY <1>1 DEF CastInv, CastShape, CastReceive
<1>4. /\ Len(got[e]) \in Nat /\ Len(got'[e]) = Len(got[e]) + 1 /\ got'[e][Len(got[e]) + 1] = position[e] + 1
      /\ \A i \in 1..Len(got[e]) : got'[e][i] = got[e][i] /\ got[e][i] \in Nat
  <2>1. got[e] \in Seq(Nat) /\ position[e] + 1 \in Nat /\ got'[e] = Append(got[e], position[e] + 1)
    BY <1>1, <1>3
  <2> QED
    BY <2>1, PlacesOfAppend
<1>5. \A f \in Endpoint : HasReceiver(f)' <=> HasReceiver(f)
  BY <1>3 DEF HasReceiver
<1>6. CastShape'
  BY <1>3 DEF CastInv, CastShape
<1>7. InOrder(e)'
  <2>0. /\ joined[e] <= position[e] /\ position[e] <= Len(sent[e[1]])
        /\ \A i \in 1..Len(got[e]) : got[e][i] \in (joined[e] + 1)..position[e]
        /\ \A i \in 1..Len(got[e]) : \A j \in 1..(i - 1) : got[e][j] < got[e][i]
    BY <1>1, <1>2 DEF InOrder
  <2>1. joined[e] <= position[e] + 1 /\ position[e] + 1 <= Len(sent[e[1]])
    BY <1>1, <2>0
  <2>2. ASSUME NEW i \in 1..Len(got'[e])
        PROVE  /\ got'[e][i] \in (joined[e] + 1)..(position[e] + 1)
               /\ \A j \in 1..(i - 1) : got'[e][j] < got'[e][i]
    <3>1. CASE i \in 1..Len(got[e])
      <4>1. got'[e][i] = got[e][i] /\ got[e][i] \in (joined[e] + 1)..position[e]
        BY <1>4, <2>0, <3>1
      <4>2. ASSUME NEW j \in 1..(i - 1) PROVE got'[e][j] < got'[e][i]
        <5>1. j \in 1..Len(got[e]) /\ got[e][j] < got[e][i]
          BY <1>4, <2>0, <3>1
        <5> QED
          BY <1>4, <4>1, <5>1
      <4> QED
        BY <1>1, <4>1, <4>2
    <3>2. CASE i = Len(got[e]) + 1
      <4>1. got'[e][i] = position[e] + 1
        BY <1>4, <3>2
      <4>2. ASSUME NEW j \in 1..(i - 1) PROVE got'[e][j] < got'[e][i]
        <5>1. j \in 1..Len(got[e])
          BY <1>4, <3>2
        <5>2. got'[e][j] = got[e][j] /\ got[e][j] \in Nat /\ got[e][j] <= position[e]
          BY <1>1, <1>4, <2>0, <5>1
        <5> QED
          BY <1>1, <4>1, <5>2
      <4> QED
        BY <1>1, <2>0, <4>1, <4>2
    <3> QED
      BY <1>4, <3>1, <3>2
  <2> QED
    BY <1>1, <1>3, <1>5, <2>1, <2>2 DEF InOrder
<1>8. SkipsOldOnly(e)'
  <2> SUFFICES ASSUME NEW n \in (joined[e] + 1)..(position[e] + 1)
               PROVE  (\E i \in 1..Len(got'[e]) : got'[e][i] = n) \/ n <= Len(sent[e[1]]) - Slots[e[1]]
    BY <1>3 DEF SkipsOldOnly
  <2>1. CASE n = position[e] + 1
    <3>1. Len(got[e]) + 1 \in 1..Len(got'[e]) /\ got'[e][Len(got[e]) + 1] = n
      BY <1>4, <2>1
    <3> QED
      BY <3>1
  <2>2. CASE n \in (joined[e] + 1)..position[e]
    <3>1. CASE \E i \in 1..Len(got[e]) : got[e][i] = n
      <4> PICK i \in 1..Len(got[e]) : got[e][i] = n
        BY <3>1
      <4>1. i \in 1..Len(got'[e]) /\ got'[e][i] = n
        BY <1>4
      <4> QED
        BY <4>1
    <3>2. CASE n <= Len(sent[e[1]]) - Slots[e[1]]
      BY <3>2
    <3> QED
      BY <1>1, <1>2, <2>2, <3>1, <3>2 DEF SkipsOldOnly
  <2> QED
    BY <1>1, <2>1, <2>2
<1>9. ASSUME NEW f \in Endpoint \ {e} PROVE InOrder(f)' /\ SkipsOldOnly(f)'
  <2>1. InOrder(f) /\ SkipsOldOnly(f)
    BY DEF CastInv
  <2>2. /\ position'[f] = position[f] /\ got'[f] = got[f] /\ joined'[f] = joined[f]
        /\ sent'[f[1]] = sent[f[1]] /\ (HasReceiver(f)' <=> HasReceiver(f))
    BY <1>3, <1>5
  <2>3. InOrder(f)'
    BY <2>1, <2>2 DEF InOrder
  <2>4. SkipsOldOnly(f)'
    BY <2>1, <2>2 DEF SkipsOldOnly
  <2> QED
    BY <2>3, <2>4
<1>10. \A m \in Messages : OkIsSent(m)'
  BY <1>3 DEF CastInv, OkIsSent
<1> QED
  BY <1>6, <1>7, <1>8, <1>9, <1>10 DEF CastInv

\* A receiver that lags skips what was overwritten.
LEMMA CastLagStep ==
  ASSUME CastInv, Waiting, overflow = "DropOldest", NEW c \in Consumers, CastLag(c)
  PROVE  CastInv'
<1>0. at[c] \in Endpoint /\ HasReceiver(at[c])
  BY DEF Waiting, CastLag
<1> PICK e \in Endpoint : e = at[c]
  BY <1>0
<1>1. /\ HasReceiver(e) /\ position[e] \in Nat /\ Len(sent[e[1]]) \in Nat
      /\ joined[e] \in Nat /\ Slots[e[1]] \in Nat /\ position[e] < Overwritten(e)
  BY <1>0, SlotsAssumption DEF CastInv, CastShape, CastLag, Lags, HasReceiver, Endpoint
<1>2. InOrder(e) /\ SkipsOldOnly(e)
  BY <1>1 DEF CastInv
<1>3. Overwritten(e) \in Nat /\ Overwritten(e) = Len(sent[e[1]]) - Slots[e[1]]
  BY <1>1 DEF Overwritten
<1>4. /\ position' \in [Endpoint -> Nat] /\ position'[e] = Overwritten(e)
      /\ \A f \in Endpoint \ {e} : position'[f] = position[f]
      /\ UNCHANGED <<result, sent, joined, got>>
  BY <1>1, <1>3 DEF CastInv, CastShape, CastLag
<1>5. \A f \in Endpoint : HasReceiver(f)' <=> HasReceiver(f)
  BY <1>4 DEF HasReceiver
<1>6. CastShape'
  BY <1>4 DEF CastInv, CastShape
<1>7. InOrder(e)'
  <2>1. /\ joined[e] <= position[e]
        /\ \A i \in 1..Len(got[e]) :
             got[e][i] \in (joined[e] + 1)..position[e] /\ \A j \in 1..(i - 1) : got[e][j] < got[e][i]
    BY <1>1, <1>2 DEF InOrder
  <2>2. joined[e] <= Overwritten(e) /\ Overwritten(e) <= Len(sent[e[1]])
    BY <1>1, <1>3, <2>1
  <2>3. \A i \in 1..Len(got[e]) : got[e][i] \in (joined[e] + 1)..Overwritten(e)
    BY <1>1, <1>3, <2>1
  <2> QED
    BY <1>1, <1>4, <1>5, <2>1, <2>2, <2>3 DEF InOrder
<1>8. SkipsOldOnly(e)'
  BY <1>1, <1>2, <1>3, <1>4, <1>5 DEF SkipsOldOnly
<1>9. ASSUME NEW f \in Endpoint \ {e} PROVE InOrder(f)' /\ SkipsOldOnly(f)'
  BY <1>4, <1>5 DEF CastInv, InOrder, SkipsOldOnly
<1>10. \A m \in Messages : OkIsSent(m)'
  BY <1>4 DEF CastInv, OkIsSent
<1> QED
  BY <1>6, <1>7, <1>8, <1>9, <1>10 DEF CastInv

\* No step takes a group its receiver.
LEMMA ReceiversStay ==
  ASSUME CastInv, CastNext
  PROVE  \A e \in Endpoint : HasReceiver(e) => HasReceiver(e)'
<1>1. ASSUME NEW e \in Endpoint, Subscribe(e) PROVE \A f \in Endpoint : HasReceiver(f) => HasReceiver(f)'
  BY <1>1, CastSubscribe
<1>2. ASSUME UNCHANGED joined PROVE \A f \in Endpoint : HasReceiver(f) => HasReceiver(f)'
  BY <1>2 DEF HasReceiver
<1> QED
  BY <1>1, <1>2 DEF CastNext, CastInitGroup, CastPublish, CastConsume, CastAcquire, CastReceive,
     CastLag, CastGiveUp, castVars

\* Every step of such a channel keeps the invariant.
LEMMA CastInvStep ==
  ASSUME CastInv, Waiting, CastNext
  PROVE  CastInv'
<1>0. overflow = "DropOldest"
  BY DEF CastNext
<1>1. ASSUME UNCHANGED castVars PROVE CastInv'
  BY <1>1 DEF CastInv, CastShape, InOrder, SkipsOldOnly, OkIsSent, HasReceiver, castVars
<1>2. ASSUME NEW e \in Endpoint, CastInitGroup(e) PROVE CastInv'
  BY <1>2, CastSubscribe DEF CastInitGroup
<1>3. ASSUME NEW m \in Messages, NEW ch \in Channels, CastPublish(m, ch) PROVE CastInv'
  BY <1>3, CastPublishStep
<1>4. ASSUME NEW c \in Consumers, NEW e \in Endpoint, CastConsume(c, e) PROVE CastInv'
  BY <1>1, <1>4, CastSubscribe DEF CastConsume
<1>5. ASSUME NEW c \in Consumers, CastAcquire(c) \/ CastGiveUp(c) PROVE CastInv'
  BY <1>1, <1>5 DEF CastAcquire, CastGiveUp
<1>6. ASSUME NEW c \in Consumers, CastReceive(c) \/ CastLag(c) PROVE CastInv'
  BY <1>0, <1>6, CastReceiveStep, CastLagStep
<1> QED
  BY <1>2, <1>3, <1>4, <1>5, <1>6 DEF CastNext

\* A consumer begins to wait when its group has a receiver.
LEMMA WaitingStep ==
  ASSUME CastInv, Waiting, CastNext
  PROVE  Waiting'
<1>0. /\ overflow = "DropOldest" /\ pc \in [Consumers -> {"idle", "wait", "poll"}]
      /\ at \in [Consumers -> Endpoint \cup {None}]
      /\ \A c \in Consumers : pc[c] # "idle" => at[c] \in Endpoint /\ HasReceiver(at[c])
  BY DEF CastNext, Waiting
<1>1. \A e \in Endpoint : HasReceiver(e) => HasReceiver(e)'
  BY ReceiversStay
<1>2. ASSUME UNCHANGED consVars PROVE Waiting'
  BY <1>0, <1>1, <1>2 DEF Waiting, consVars
<1>3. ASSUME NEW c \in Consumers, pc' = [pc EXCEPT ![c] = "idle"], at' = [at EXCEPT ![c] = None]
      PROVE  Waiting'
  BY <1>0, <1>1, <1>3 DEF Waiting
<1>4. ASSUME NEW c \in Consumers, CastAcquire(c) PROVE Waiting'
  BY <1>0, <1>1, <1>4 DEF Waiting, CastAcquire
<1>5. ASSUME NEW c \in Consumers, NEW e \in Endpoint, CastConsume(c, e) PROVE Waiting'
  <2>1. HasReceiver(e)'
    BY <1>1, <1>5, CastSubscribe DEF CastConsume
  <2> QED
    BY <1>0, <1>1, <1>5, <2>1 DEF Waiting, CastConsume
<1> QED
  BY <1>2, <1>3, <1>4, <1>5
  DEF CastNext, CastInitGroup, CastPublish, CastReceive, CastLag, CastGiveUp, ConsumeReturn,
      chanVars, consVars

\* A group of a DropOldest channel gets what is published in order, each once,
\* and misses only what a whole queue of newer messages has overwritten.
THEOREM LosesOnlyTheOldestHolds == ChannelSpec => []LosesOnlyTheOldest
<1>1. NewChannel => CastInv /\ Waiting
  BY CastInit
<1>2. CastInv /\ Waiting /\ [BlockNext \/ CastNext]_allVars => CastInv' /\ Waiting'
  <2> SUFFICES ASSUME CastInv, Waiting, [BlockNext \/ CastNext]_allVars PROVE CastInv' /\ Waiting'
    OBVIOUS
  <2>1. CASE BlockNext
    BY <2>1 DEF BlockNext, CastInv, CastShape, InOrder, SkipsOldOnly, OkIsSent, HasReceiver, Waiting, castVars
  <2>2. CASE CastNext
    BY <2>2, CastInvStep, WaitingStep
  <2>3. CASE UNCHANGED allVars
    BY <2>3 DEF CastInv, CastShape, InOrder, SkipsOldOnly, OkIsSent, HasReceiver, Waiting, allVars,
       castVars, chanVars, consVars
  <2> QED
    BY <2>1, <2>2, <2>3
<1>3. CastInv => LosesOnlyTheOldest
  <2> SUFFICES ASSUME CastInv PROVE LosesOnlyTheOldest
    OBVIOUS
  <2>1. \A e \in Endpoint : HasReceiver(e) =>
          \A n \in (joined[e] + 1)..position[e] :
            (\E i \in 1..Len(got[e]) : got[e][i] = n) \/ n <= Len(sent[e[1]]) - Capacity[e[1]]
    <3> SUFFICES ASSUME NEW e \in Endpoint, HasReceiver(e), NEW n \in (joined[e] + 1)..position[e],
                        n <= Len(sent[e[1]]) - Slots[e[1]]
                 PROVE  n <= Len(sent[e[1]]) - Capacity[e[1]]
      BY DEF CastInv, SkipsOldOnly
    <3>1. e[1] \in Channels
      BY DEF Endpoint
    <3>2. Slots[e[1]] \in Nat /\ Capacity[e[1]] \in Nat /\ Capacity[e[1]] <= Slots[e[1]]
      BY <3>1, SlotsAssumption, ChannelAssumption
    <3>3. sent[e[1]] \in Seq(Messages) /\ joined[e] \in Nat /\ position[e] \in Nat
      BY <3>1 DEF CastInv, CastShape, HasReceiver
    <3>4. Len(sent[e[1]]) \in Nat /\ n \in Int
      BY <3>3
    <3> QED
      BY <3>2, <3>4
  <2> QED
    BY <2>1 DEF CastInv, InOrder, OkIsSent, LosesOnlyTheOldest
<1> QED
  BY <1>1, <1>2, <1>3, PTL DEF ChannelSpec

(***************************************************************************)
(* Both kinds together.  A channel stays of its kind: one that blocks is a *)
(* LocalChannel, of one that drops the queues of the groups stay unused.   *)
(***************************************************************************)
Unused ==
  /\ log = [e \in Endpoint |-> <<>>]
  /\ head = [e \in Endpoint |-> 0]
  /\ sealed = {}
  /\ status = [m \in Messages |-> "new"]

\* LocalChannel::new() decides the kind, and nothing turns one into the other.
LEMMA BlockIsLocalChannel == ChannelSpec /\ overflow = "Block" => ChanSpec
<1>1. NewChannel => ChanInit
  BY DEF NewChannel
<1>2. overflow = "Block" /\ [BlockNext \/ CastNext]_allVars
        => (overflow = "Block")' /\ [ChanNext]_chanVars
  BY DEF BlockNext, CastNext, allVars, castVars
<1> QED
  BY <1>1, <1>2, PTL DEF ChannelSpec, ChanSpec

\* Consumers and publishers of a DropOldest channel leave the queues of the groups alone.
LEMMA CastLeavesQueues ==
  ASSUME overflow = "DropOldest", [BlockNext \/ CastNext]_allVars
  PROVE  overflow' = "DropOldest" /\ UNCHANGED <<queueVars, status>>
<1>1. CASE CastNext
  BY <1>1 DEF CastNext, CastInitGroup, CastPublish, CastConsume, CastAcquire, CastReceive, CastLag,
     CastGiveUp, ConsumeReturn, Subscribe, chanVars, castVars, callVars, queueVars
<1>2. CASE UNCHANGED allVars
  BY <1>2 DEF allVars, castVars, chanVars, callVars, queueVars
<1> QED
  BY <1>1, <1>2 DEF BlockNext

\* Nothing is ever queued for a group of a DropOldest channel.
LEMMA DropOldestIsUnused == ChannelSpec /\ overflow = "DropOldest" => [](Unused /\ overflow = "DropOldest")
<1>1. NewChannel => Unused
  BY DEF NewChannel, ChanInit, Unused
<1>2. Unused /\ overflow = "DropOldest" /\ [BlockNext \/ CastNext]_allVars
        => Unused' /\ (overflow = "DropOldest")'
  BY CastLeavesQueues DEF Unused, queueVars
<1> QED
  BY <1>1, <1>2, PTL DEF ChannelSpec

\* There are two kinds of channels.
LEMMA OneOfTwoKinds == ChannelSpec => overflow = "Block" \/ overflow = "DropOldest"
<1>1. NewChannel => overflow = "Block" \/ overflow = "DropOldest"
  BY DEF NewChannel
<1> QED
  BY <1>1, PTL DEF ChannelSpec

\* Whoever is told Closed by a channel of either kind has lost nothing.
THEOREM ClosedIsFinalForBothKinds == ChannelSpec => []ClosedIsFinal
<1>1. Unused => ClosedIsFinal
  BY DEF Unused, ClosedIsFinal
<1> QED
  BY <1>1, BlockIsLocalChannel, DropOldestIsUnused, OneOfTwoKinds, ClosedIsFinalHolds, PTL

\* What publish() returns on a channel with Overflow::Block is true, and only
\* such a channel returns it.
THEOREM OutcomeMatchesDeliveryForBothKinds == ChannelSpec => []OutcomeMatchesDelivery
<1>1. Unused => OutcomeMatchesDelivery
  BY DEF Unused, OutcomeMatchesDelivery, Logged
<1> QED
  BY <1>1, BlockIsLocalChannel, DropOldestIsUnused, OneOfTwoKinds, OutcomeMatchesDeliveryHolds, PTL

\* LocalChannel::new() makes a GroupDelivery for each group, or never uses it.
THEOREM EveryChannelImplementsGroupDelivery == ChannelSpec => ImplementsGroupDelivery
<1>1. NewChannel => Delivery!Init
  BY DEF NewChannel, ChanInit, Delivery!Init
<1>2. overflow = "DropOldest" /\ [BlockNext \/ CastNext]_allVars => UNCHANGED Delivery!streamVars
  BY CastLeavesQueues DEF queueVars, Delivery!streamVars
<1>3. ChannelSpec /\ overflow = "DropOldest" => Delivery!Spec
  BY <1>1, <1>2, DropOldestIsUnused, PTL DEF ChannelSpec, Delivery!Spec
<1>4. ChannelSpec /\ overflow = "Block" => Delivery!Spec
  BY BlockIsLocalChannel, ChannelImplementsGroupDelivery, PTL DEF ImplementsGroupDelivery
<1> QED
  BY <1>3, <1>4, OneOfTwoKinds, PTL DEF ImplementsGroupDelivery

=============================================================================
