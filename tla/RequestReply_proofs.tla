------------------------ MODULE RequestReply_proofs ------------------------
(***************************************************************************)
(* The safety properties of RequestReply, for every number of requests and *)
(* handlers.  The reply channels are channels of LocalChannel that nobody  *)
(* closes, so that what is proved of those holds here too; the rest        *)
(* follows the requester and its handlers through their calls.             *)
(***************************************************************************)
EXTENDS RequestReply, LocalChannel_proofs

\* Every step uses the channels as LocalChannel lets them be used.
LEMMA StepIsChannelStep == [Next]_vars => [ChanNext]_chanVars
<1> SUFFICES ASSUME [Next]_vars PROVE [ChanNext]_chanVars
  OBVIOUS
<1>1. ASSUME NEW r \in Requests, Request(r) PROVE [ChanNext]_chanVars
  <2>1. Inbox(r) \in Endpoint /\ r \in Consumers
    BY RequestAssumption DEF Inbox, Endpoint, Requests
  <2> QED
    BY <1>1, <2>1
    DEF Request, CreateInbox, CreateInboxSender, Register, PublishFails, PublishSucceeds,
        Take, TakeLock, TakeReply, TakeFails, Unregister, DropTake, ChanNext, ConsumeStep
<1>2. ASSUME NEW r \in Requests, NEW w \in Workers, HandleRequest(r, w)
      PROVE  [ChanNext]_chanVars
  <2>1. <<r, w>> \in Messages /\ r \in Channels
    BY RequestAssumption DEF Calls, Requests
  <2> QED
    BY <1>2, <2>1
    DEF HandleRequest, InvokeFails, FindInbox, InboxGone, PublishReply, ReplyReturns,
        ChanNext, PublishStep
<1> QED
  BY <1>1, <1>2 DEF Next, RequestReaches, vars

\* The reply channels behave as channels: what holds of ChanSpec holds here.
THEOREM RequestsUseChannels == Spec => ChanSpec
<1>1. Init => ChanInit
  BY DEF Init
<1> QED
  BY <1>1, StepIsChannelStep, PTL DEF Spec, ChanSpec

-----------------------------------------------------------------------------
(***************************************************************************)
(* The inductive invariant: which half of the handle exists at each point  *)
(* of the requester's life, and how far a handler's publish call can be at *)
(* each point of the handler's.                                            *)
(***************************************************************************)
Types ==
  /\ ephemeral \subseteq Requests
  /\ req \in [Requests -> {"new", "created", "ready", "publishing", "published",
                           "taking", "took", "erred", "replied", "failed",
                           "unpublished", "dropped"}]
  /\ answer \in [Requests -> Workers \cup {None}]
  /\ work \in [Calls -> {"none", "busy", "found", "acked", "nacked", "refused"}]

\* The channel is registered exactly while the handle is alive, it has its
\* sender since it was made, and its one consumer consumes from it in take().
HandleInv(r) ==
  /\ r \in ephemeral <=> req[r] \in {"publishing", "published", "taking", "took", "erred"}
  /\ req[r] = "created" => Inbox(r) \in creating
  /\ req[r] \notin {"new", "created"} => Inbox(r) \in senders
  /\ req[r] = "taking" <=> pc[r] # "idle"
  /\ pc[r] # "idle" => at[r] = Inbox(r) /\ pc[r] \in {"lock", "recv"}

\* A handler exists only when its request is registered or was; it publishes
\* only after it found the channel, and to that channel only.
HandlerInv(r, w) ==
  LET k == <<r, w>>
  IN /\ work[k] # "none" => req[r] \notin {"new", "created", "ready"}
     /\ work[k] = "refused" => Finished(r)
     /\ work[k] \in {"none", "busy", "refused"} => status[k] = "new"
     /\ work[k] = "nacked" => status[k] \in {"new", "timeout"}
     /\ status[k] \in {"new", "sending", "ok", "timeout"}
     /\ target[k] \subseteq {Inbox(r)}

\* Nothing is received before the answer, and the answer is received first.
AnswerInv(r) ==
  /\ answer[r] = None => head[Inbox(r)] = 0
  /\ answer[r] # None => head[Inbox(r)] > 0 /\ log[Inbox(r)][1] = <<r, answer[r]>>
  /\ req[r] \notin {"took", "replied"} => answer[r] = None

ReqInv ==
  /\ Types
  /\ \A r \in Requests : HandleInv(r)
  /\ \A r \in Requests, w \in Workers : HandlerInv(r, w)
  /\ \A r \in Requests : AnswerInv(r)

\* Inboxes of different requests are different endpoints.
LEMMA InboxFacts ==
  ASSUME NEW r \in Requests
  PROVE  /\ Inbox(r) \in Endpoint /\ r \in Consumers
         /\ Of(r) = {Inbox(r)}
         /\ \A q \in Requests : Inbox(q) = Inbox(r) => q = r
BY RequestAssumption DEF Inbox, Endpoint, Requests, Of

\* In the initial state nothing was requested.
LEMMA ReqInvInit == Init => ReqInv
<1> SUFFICES ASSUME Init PROVE ReqInv
  OBVIOUS
<1>1. Types
  BY DEF Init, Types
<1>2. ASSUME NEW r \in Requests PROVE HandleInv(r) /\ AnswerInv(r)
  BY InboxFacts DEF Init, ChanInit, HandleInv, AnswerInv
<1>3. ASSUME NEW r \in Requests, NEW w \in Workers PROVE HandlerInv(r, w)
  <2>1. <<r, w>> \in Calls /\ <<r, w>> \in Messages
    BY RequestAssumption DEF Calls
  <2> QED
    BY <2>1 DEF Init, ChanInit, HandlerInv
<1> QED
  BY <1>1, <1>2, <1>3 DEF ReqInv

\* The message a requester receives is the reply of one of its handlers.
LEMMA ReplyIsACall ==
  ASSUME Shape, ReqInv, NEW r \in Requests, TakeReply(r)
  PROVE  /\ at[r] = Inbox(r)
         /\ head[Inbox(r)] + 1 \in 1..Len(log[Inbox(r)])
         /\ NextMsg(Inbox(r)) \in Calls
         /\ NextMsg(Inbox(r))[2] \in Workers
<1>1. at[r] = Inbox(r) /\ Inbox(r) \in Endpoint /\ ~IsEmpty(Inbox(r))
  BY InboxFacts DEF ReqInv, HandleInv, TakeReply, Receive
<1>2. head[Inbox(r)] + 1 \in 1..Len(log[Inbox(r)])
  BY <1>1 DEF Shape, ChanTypeOK, IsEmpty, Queued
<1>3. NextMsg(Inbox(r)) \in Calls
  BY <1>1, <1>2, RequestAssumption DEF Shape, ChanTypeOK, NextMsg
<1> QED
  BY <1>1, <1>2, <1>3 DEF Calls

\* Every step keeps the types of the variables of the requests.
LEMMA TypesStep ==
  ASSUME Shape, ReqInv, [Next]_vars
  PROVE  Types'
<1>1. ASSUME NEW r \in Requests, TakeReply(r) PROVE Types'
  BY <1>1, ReplyIsACall DEF ReqInv, Types, TakeReply, Goto
<1>2. ASSUME NEW r \in Requests, Request(r), ~TakeReply(r) PROVE Types'
  BY <1>2 DEF ReqInv, Types, Goto, Request, CreateInbox, CreateInboxSender, Register,
        PublishFails, PublishSucceeds, Take, TakeLock, TakeFails, Unregister, DropTake, reqVars
<1>3. ASSUME NEW r \in Requests, NEW w \in Workers,
             RequestReaches(r, w) \/ HandleRequest(r, w)
      PROVE  Types'
  <2>1. <<r, w>> \in Calls
    BY DEF Calls
  <2> QED
    BY <1>3, <2>1 DEF ReqInv, Types, RequestReaches, HandleRequest, InvokeFails, FindInbox,
          InboxGone, PublishReply, ReplyReturns, WorkOn, reqVars
<1>4. CASE UNCHANGED vars
  BY <1>4 DEF ReqInv, Types, vars, reqVars
<1> QED
  BY <1>1, <1>2, <1>3, <1>4 DEF Next

\* A step that changes neither the requester nor its channel leaves its handle.
LEMMA HandleUnchanged ==
  ASSUME NEW q \in Requests, HandleInv(q),
         q \in ephemeral' <=> q \in ephemeral, req'[q] = req[q],
         Inbox(q) \in creating => Inbox(q) \in creating',
         Inbox(q) \in senders => Inbox(q) \in senders',
         pc'[q] = pc[q], at'[q] = at[q]
  PROVE  HandleInv(q)'
BY DEF HandleInv

\* Every step keeps the handle of every request.
LEMMA HandleStep ==
  ASSUME Shape, ReqInv, [Next]_vars, NEW q \in Requests
  PROVE  HandleInv(q)'
<1>0. HandleInv(q) /\ Types
  BY DEF ReqInv
<1>1. ASSUME NEW r \in Requests, Request(r), r # q PROVE HandleInv(q)'
  <2>1. Inbox(r) # Inbox(q) /\ r \in Consumers /\ q \in Consumers
    BY <1>1, InboxFacts
  <2>2. q \in ephemeral' <=> q \in ephemeral
    BY <1>1 DEF Request, CreateInbox, CreateInboxSender, Register, PublishFails,
          PublishSucceeds, Take, TakeLock, TakeReply, TakeFails, Unregister, DropTake, reqVars
  <2>3. req'[q] = req[q]
    BY <1>0, <1>1 DEF Types, Goto, Request, CreateInbox, CreateInboxSender, Register,
          PublishFails, PublishSucceeds, Take, TakeLock, TakeReply, TakeFails, Unregister,
          DropTake, reqVars
  <2>4. /\ Inbox(q) \in creating => Inbox(q) \in creating'
        /\ Inbox(q) \in senders => Inbox(q) \in senders'
    BY <1>1, <2>1 DEF Request, CreateInbox, CreateInboxSender, Register, PublishFails,
          PublishSucceeds, Take, TakeLock, TakeReply, TakeFails, Unregister, DropTake,
          InitGroup, InitGroupSender, NewGroup, InsertSender, ConsumeBegin, AcquireReceiver,
          Receive, ReceiveTimeout, ConsumeDrop, ConsumeReturn, groupVars, chanVars
  <2>5. pc'[q] = pc[q] /\ at'[q] = at[q]
    BY <1>1, <2>1 DEF Shape, ChanTypeOK, Request, CreateInbox, CreateInboxSender, Register,
          PublishFails, PublishSucceeds, Take, TakeLock, TakeReply, TakeFails, Unregister,
          DropTake, InitGroup, InitGroupSender, ConsumeBegin, AcquireReceiver, Receive,
          ReceiveTimeout, ConsumeDrop, ConsumeReturn, consVars, chanVars
  <2> QED
    BY <1>0, <2>2, <2>3, <2>4, <2>5, HandleUnchanged
<1>2. ASSUME Request(q) PROVE HandleInv(q)'
  <2> USE <1>0, InboxFacts DEF HandleInv, Types, Goto
  <2>1. CASE CreateInbox(q)
    BY <2>1 DEF CreateInbox, InitGroup, NewGroup, consVars
  <2>2. CASE CreateInboxSender(q)
    BY <2>2 DEF CreateInboxSender, InitGroupSender, InsertSender, consVars
  <2>3. CASE Register(q) \/ PublishFails(q) \/ PublishSucceeds(q) \/ Unregister(q)
    BY <2>3 DEF Register, PublishFails, PublishSucceeds, Unregister, chanVars, groupVars, consVars
  <2>4. CASE Take(q)
    <3>1. Inbox(q) \in receivers /\ Inbox(q) \in senders
      BY <2>4 DEF Take, Shape
    <3>2. /\ pc' = [pc EXCEPT ![q] = "lock"] /\ at' = [at EXCEPT ![q] = Inbox(q)]
          /\ UNCHANGED groupVars
      BY <2>4, <3>1 DEF Take, ConsumeBegin, NewGroup
    <3> QED
      BY <2>4, <3>1, <3>2 DEF Take, Shape, ChanTypeOK, groupVars
  <2>5. CASE TakeLock(q)
    BY <2>5 DEF TakeLock, AcquireReceiver, reqVars, groupVars, Shape, ChanTypeOK
  <2>6. CASE TakeReply(q) \/ TakeFails(q) \/ DropTake(q)
    <3>1. /\ pc' = [pc EXCEPT ![q] = "idle"] /\ UNCHANGED groupVars
      BY <2>6 DEF TakeReply, TakeFails, DropTake, Receive, ReceiveTimeout, ConsumeDrop, ConsumeReturn
    <3> QED
      BY <2>6, <3>1 DEF TakeReply, TakeFails, DropTake, Shape, ChanTypeOK, groupVars
  <2> QED
    BY <1>2, <2>1, <2>2, <2>3, <2>4, <2>5, <2>6 DEF Request
<1>3. ASSUME NEW r \in Requests, NEW w \in Workers,
             RequestReaches(r, w) \/ HandleRequest(r, w)
      PROVE  HandleInv(q)'
  <2>1. UNCHANGED <<reqVars, groupVars, consVars>>
    BY <1>3 DEF RequestReaches, HandleRequest, InvokeFails, FindInbox, InboxGone, PublishReply,
          ReplyReturns, PublishBegin, Send, SendTimeout, GiveUp, chanVars
  <2> QED
    BY <1>0, <2>1, HandleUnchanged DEF reqVars, groupVars, consVars
<1>4. CASE UNCHANGED vars
  BY <1>0, <1>4, HandleUnchanged DEF vars, reqVars, chanVars, groupVars, consVars
<1> QED
  BY <1>1, <1>2, <1>3, <1>4 DEF Next

\* A step that leaves a handler, its publish call and its request's end alone.
LEMMA HandlerUnchanged ==
  ASSUME NEW q \in Requests, NEW w \in Workers, HandlerInv(q, w),
         work'[<<q, w>>] = work[<<q, w>>],
         status'[<<q, w>>] = status[<<q, w>>], target'[<<q, w>>] = target[<<q, w>>],
         req'[q] = req[q]
  PROVE  HandlerInv(q, w)'
BY DEF HandlerInv, Finished

\* Every step keeps every handler in line with its request and publish call.
LEMMA HandlerStep ==
  ASSUME Shape, ReqInv, [Next]_vars, NEW q \in Requests, NEW w \in Workers
  PROVE  HandlerInv(q, w)'
<1> DEFINE k == <<q, w>>
<1>0. /\ HandlerInv(q, w) /\ HandleInv(q) /\ Types
      /\ k \in Calls /\ k \in Messages
  BY RequestAssumption DEF ReqInv, Calls
<1>1. ASSUME NEW r \in Requests, Request(r) PROVE HandlerInv(q, w)'
  <2>1. UNCHANGED <<work, callVars>>
    BY <1>1 DEF Request, CreateInbox, CreateInboxSender, Register, PublishFails,
          PublishSucceeds, Take, TakeLock, TakeReply, TakeFails, Unregister, DropTake,
          InitGroup, InitGroupSender, ConsumeBegin, AcquireReceiver, Receive,
          ReceiveTimeout, ConsumeDrop, ConsumeReturn, chanVars
  <2>2. CASE r # q
    <3>1. req'[q] = req[q]
      BY <1>0, <1>1, <2>2 DEF Types, Goto, Request, CreateInbox, CreateInboxSender, Register,
            PublishFails, PublishSucceeds, Take, TakeLock, TakeReply, TakeFails, Unregister,
            DropTake, reqVars
    <3> QED
      BY <1>0, <2>1, <3>1, HandlerUnchanged DEF callVars
  <2>3. CASE r = q
    <3>1. /\ req'[q] \in {"new", "created", "ready"} => req[q] \in {"new", "created", "ready"}
          /\ Finished(q) => req'[q] = req[q]
      BY <1>0, <1>1, <2>3 DEF Types, Goto, Request, CreateInbox, CreateInboxSender, Register,
            PublishFails, PublishSucceeds, Take, TakeLock, TakeReply, TakeFails, Unregister,
            DropTake, reqVars, Finished
    <3> QED
      BY <1>0, <2>1, <3>1 DEF HandlerInv, callVars, Finished
  <2> QED
    BY <2>2, <2>3
<1>2. ASSUME NEW r \in Requests, NEW v \in Workers,
             RequestReaches(r, v) \/ HandleRequest(r, v)
      PROVE  HandlerInv(q, w)'
  <2>0. <<r, v>> \in Messages /\ <<r, v>> \in Calls /\ UNCHANGED reqVars
    BY <1>2, RequestAssumption DEF Calls, RequestReaches, HandleRequest, InvokeFails, FindInbox,
          InboxGone, PublishReply, ReplyReturns
  <2>1. CASE <<r, v>> # k
    <3>1. work'[k] = work[k]
      BY <1>0, <1>2, <2>0, <2>1 DEF Types, RequestReaches, HandleRequest, InvokeFails,
            FindInbox, InboxGone, PublishReply, ReplyReturns, WorkOn
    <3>2. status'[k] = status[k] /\ target'[k] = target[k]
      BY <1>0, <1>2, <2>0, <2>1 DEF Shape, CallsInShape, RequestReaches, HandleRequest,
            InvokeFails, FindInbox, InboxGone, PublishReply, ReplyReturns, PublishBegin, Send,
            Advance, SendTimeout, GiveUp, chanVars, callVars
    <3> QED
      BY <1>0, <2>0, <3>1, <3>2, HandlerUnchanged DEF reqVars
  <2>2. CASE <<r, v>> = k
    <3>0. r = q /\ v = w
      BY <2>2
    <3>1. CASE RequestReaches(q, w) \/ InvokeFails(q, w) \/ FindInbox(q, w) \/ InboxGone(q, w)
                 \/ ReplyReturns(q, w)
      <4>1. UNCHANGED callVars
        BY <3>1 DEF RequestReaches, InvokeFails, FindInbox, InboxGone, ReplyReturns, chanVars
      <4>2. q \notin ephemeral /\ work[k] = "busy" => Finished(q)
        BY <1>0 DEF HandlerInv, HandleInv, Types, Finished
      <4> QED
        BY <1>0, <2>0, <3>1, <4>1, <4>2
        DEF HandlerInv, Types, RequestReaches, InvokeFails, FindInbox, InboxGone, ReplyReturns,
            WorkOn, Finished, reqVars, callVars
    <3>2. CASE PublishReply(q, w)
      <4>1. UNCHANGED <<reqVars, work>> /\ work[k] = "found"
        BY <3>2 DEF PublishReply
      <4>2. senders \cap Of(q) = {Inbox(q)}
        BY <1>0, <4>1, InboxFacts DEF HandlerInv, HandleInv
      <4>3. /\ status'[k] \in {"sending", "ok", "timeout"}
            /\ target'[k] \subseteq {Inbox(q)}
        <5>1. CASE PublishBegin(k, q)
          BY <1>0, <4>2, <5>1 DEF PublishBegin, Shape, CallsInShape
        <5>2. CASE Send(k) \/ SendTimeout(k)
          BY <1>0, <5>2 DEF Send, Advance, SendTimeout, GiveUp, Shape, CallsInShape, HandlerInv
        <5> QED
          BY <3>2, <5>1, <5>2 DEF PublishReply
      <4> QED
        BY <1>0, <4>1, <4>3 DEF HandlerInv, reqVars, Finished
    <3> QED
      BY <1>2, <3>0, <3>1, <3>2 DEF HandleRequest
  <2> QED
    BY <2>1, <2>2
<1>3. CASE UNCHANGED vars
  BY <1>0, <1>3, HandlerUnchanged DEF vars, reqVars, chanVars, callVars
<1> QED
  BY <1>1, <1>2, <1>3 DEF Next

\* A message in the log of an inbox is the reply of a handler of its request.
LEMMA LogOfInbox ==
  ASSUME Shape, ReqInv, OutcomeMatchesDelivery, NEW q \in Requests,
         Len(log[Inbox(q)]) > 0
  PROVE  \E w \in Workers : log[Inbox(q)][1] = <<q, w>>
<1> DEFINE e == Inbox(q)
<1>1. e \in Endpoint /\ log[e] \in Seq(Messages) /\ Len(log[e]) \in Nat /\ 1 \in 1..Len(log[e])
  BY InboxFacts DEF Shape, ChanTypeOK
<1>2. PICK r \in Requests, w \in Workers : log[e][1] = <<r, w>>
  BY <1>1, RequestAssumption DEF Calls
<1>3. <<r, w>> \in Messages /\ <<r, w>> \in Logged(e)
  BY <1>1, <1>2, RequestAssumption DEF Logged, Calls
<1>4. e \in target[<<r, w>>]
  BY <1>1, <1>3 DEF OutcomeMatchesDelivery
<1>5. target[<<r, w>>] \subseteq {Inbox(r)}
  BY DEF ReqInv, HandlerInv
<1> QED
  BY <1>2, <1>4, <1>5, InboxFacts

\* Appending to a log leaves its first element alone.
LEMMA FirstStays ==
  ASSUME NEW S, NEW s \in Seq(S), NEW x \in S, Len(s) > 0
  PROVE  Append(s, x)[1] = s[1]
OBVIOUS

\* Every step keeps the answer of every request the first reply in its log.
LEMMA AnswerStep ==
  ASSUME Shape, ReqInv, OutcomeMatchesDelivery, [Next]_vars, NEW q \in Requests
  PROVE  AnswerInv(q)'
<1> DEFINE e == Inbox(q)
<1>0. AnswerInv(q) /\ HandleInv(q) /\ Types /\ e \in Endpoint
  BY InboxFacts DEF ReqInv
<1>1. log \in [Endpoint -> Seq(Messages)] /\ head[e] \in Nat /\ head[e] <= Len(log[e])
        /\ Len(log[e]) \in Nat
  BY <1>0 DEF Shape, ChanTypeOK
<1>2. ASSUME NEW r \in Requests, TakeReply(r) PROVE AnswerInv(q)'
  <2>1. /\ at[r] = Inbox(r) /\ Inbox(r) \in Endpoint /\ NextMsg(Inbox(r)) \in Calls
        /\ head[Inbox(r)] + 1 \in 1..Len(log[Inbox(r)])
    BY <1>2, ReplyIsACall, InboxFacts
  <2>2. CASE r # q
    <3>1. head'[e] = head[e] /\ UNCHANGED log /\ req'[q] = req[q] /\ answer'[q] = answer[q]
      BY <1>0, <1>2, <2>1, <2>2, InboxFacts DEF TakeReply, Receive, Goto, Types, Shape, ChanTypeOK
    <3> QED
      BY <1>0, <3>1 DEF AnswerInv
  <2>3. CASE r = q
    <3>1. answer[q] = None /\ head[e] = 0
      BY <1>0, <1>2, <2>3 DEF TakeReply, Goto, AnswerInv
    <3>2. PICK w \in Workers : log[e][1] = <<q, w>>
      BY <1>1, <2>1, <2>3, <3>1, LogOfInbox
    <3>3. /\ head'[e] = 1 /\ UNCHANGED log
          /\ answer'[q] = w /\ req'[q] = "took"
      BY <1>0, <1>2, <2>1, <2>3, <3>1, <3>2
      DEF TakeReply, Receive, Goto, Types, Shape, ChanTypeOK, NextMsg
    <3> QED
      BY <3>2, <3>3, RequestAssumption DEF AnswerInv
  <2> QED
    BY <2>2, <2>3
<1>3. ASSUME NEW r \in Requests, Request(r), ~TakeReply(r) PROVE AnswerInv(q)'
  <2>1. UNCHANGED <<head, log, answer>>
    BY <1>3 DEF Request, CreateInbox, CreateInboxSender, Register, PublishFails,
          PublishSucceeds, Take, TakeLock, TakeFails, Unregister, DropTake,
          InitGroup, InitGroupSender, ConsumeBegin, AcquireReceiver, ReceiveTimeout,
          ConsumeDrop, ConsumeReturn, chanVars, queueVars, reqVars
  <2>2. req[q] \in {"took", "replied"} => req'[q] \in {"took", "replied"}
    BY <1>0, <1>3 DEF Types, Goto, Request, CreateInbox, CreateInboxSender, Register,
          PublishFails, PublishSucceeds, Take, TakeLock, TakeFails, Unregister, DropTake, reqVars
  <2> QED
    BY <1>0, <2>1, <2>2 DEF AnswerInv
<1>4. ASSUME NEW r \in Requests, NEW w \in Workers, PublishReply(r, w) PROVE AnswerInv(q)'
  <2>1. /\ UNCHANGED <<reqVars, head>>
        /\ \/ UNCHANGED log
           \/ log' = [log EXCEPT ![cur[<<r, w>>]] = Append(@, <<r, w>>)]
    BY <1>4 DEF PublishReply, PublishBegin, Send, SendTimeout, GiveUp, queueVars
  <2>2. <<r, w>> \in Messages
    BY RequestAssumption DEF Calls
  <2>3. Len(log[e]) > 0 => log'[e][1] = log[e][1]
    <3>1. log'[e] = log[e] \/ log'[e] = Append(log[e], <<r, w>>)
      BY <1>0, <1>1, <2>1
    <3> QED
      BY <1>0, <1>1, <2>2, <3>1, FirstStays
  <2> QED
    BY <1>0, <1>1, <2>1, <2>3 DEF AnswerInv, reqVars
<1>5. ASSUME NEW r \in Requests, NEW w \in Workers,
             RequestReaches(r, w) \/ HandleRequest(r, w), ~PublishReply(r, w)
      PROVE  AnswerInv(q)'
  BY <1>0, <1>5 DEF AnswerInv, RequestReaches, HandleRequest, InvokeFails, FindInbox, InboxGone,
        ReplyReturns, chanVars, queueVars, reqVars
<1>6. CASE UNCHANGED vars
  BY <1>0, <1>6 DEF AnswerInv, vars, chanVars, queueVars, reqVars
<1> QED
  BY <1>2, <1>3, <1>4, <1>5, <1>6 DEF Next

\* The invariant holds in every reachable state.
THEOREM ReqInvariant == Spec => []ReqInv
<1>1. Shape /\ OutcomeMatchesDelivery /\ ReqInv /\ [Next]_vars => ReqInv'
  BY TypesStep, HandleStep, HandlerStep, AnswerStep DEF ReqInv
<1>2. Spec => []Shape /\ []OutcomeMatchesDelivery
  BY RequestsUseChannels, ShapeInvariant, OutcomeMatchesDeliveryHolds, PTL
<1> QED
  BY <1>1, <1>2, ReqInvInit, PTL DEF Spec

-----------------------------------------------------------------------------
(***************************************************************************)
(* The properties.                                                         *)
(***************************************************************************)
\* Every variable of requests, handlers and their channels has its type.
THEOREM TypeCorrect == Spec => []TypeOK
<1>1. Shape /\ ReqInv => TypeOK
  BY DEF Shape, ReqInv, Types, TypeOK
<1> QED
  BY <1>1, ReqInvariant, RequestsUseChannels, ShapeInvariant, PTL

\* Nobody is ever told that a reply channel is closed.
THEOREM InboxStaysOpenHolds == Spec => []InboxStaysOpen
<1>1. ReqInv => InboxStaysOpen
  BY DEF ReqInv, HandleInv, HandlerInv, InboxStaysOpen
<1> QED
  BY <1>1, ReqInvariant, PTL

\* However a request ends, its reply channel is no longer registered.
THEOREM NoReplyChannelLeaksHolds == Spec => []NoReplyChannelLeaks
<1>1. ReqInv => NoReplyChannelLeaks
  BY DEF ReqInv, Types, HandleInv, NoReplyChannelLeaks, Finished
<1> QED
  BY <1>1, ReqInvariant, PTL

\* No reply is turned away while somebody waits for it.
THEOREM RefusedOnlyWhenFinishedHolds == Spec => []RefusedOnlyWhenFinished
<1>1. ReqInv => RefusedOnlyWhenFinished
  BY DEF ReqInv, HandlerInv, RefusedOnlyWhenFinished
<1> QED
  BY <1>1, ReqInvariant, PTL

\* The answer is the first accepted reply, and its handler does not fail.
THEOREM ReplyComesFromItsHandlerHolds == Spec => []ReplyComesFromItsHandler
<1>1. Shape /\ DeliveryInv /\ ReqInv => ReplyComesFromItsHandler
  <2> SUFFICES ASSUME Shape, DeliveryInv, ReqInv, NEW r \in Requests, answer[r] # None
               PROVE  /\ log[Inbox(r)][1] = <<r, answer[r]>>
                      /\ status[<<r, answer[r]>>] = "ok"
                      /\ work[<<r, answer[r]>>] \in {"found", "acked"}
    BY DEF ReplyComesFromItsHandler
  <2> DEFINE k == <<r, answer[r]>>
  <2>1. /\ answer[r] \in Workers /\ k \in Messages /\ k \in Calls
        /\ HandlerInv(r, answer[r]) /\ AnswerInv(r) /\ Types
    BY RequestAssumption DEF ReqInv, Types, Calls
  <2>2. Inbox(r) \in Endpoint /\ 1 \in 1..Len(log[Inbox(r)]) /\ log[Inbox(r)][1] = k
    BY <2>1, InboxFacts DEF AnswerInv, Shape, ChanTypeOK
  <2>3. Inbox(r) \in Has(k)
    BY <2>2 DEF Has, Logged
  <2>4. status[k] = "ok"
    <3>1. /\ Progress(k) /\ target[k] \subseteq {Inbox(r)}
          /\ status[k] \in {"new", "sending", "ok", "timeout"}
          /\ status[k] = "sending" => cur[k] \in target[k]
      BY <2>1 DEF DeliveryInv, HandlerInv, Shape, CallsInShape
    <3>2. status[k] # "new" /\ status[k] # "sending" /\ status[k] # "timeout"
      BY <2>3, <3>1 DEF Progress
    <3> QED
      BY <3>1, <3>2
  <2> QED
    BY <2>1, <2>2, <2>4 DEF HandlerInv, Types
<1> QED
  BY <1>1, ReqInvariant, RequestsUseChannels, ShapeInvariant, DeliveryInvariant, PTL

\* A requester gives up only when no reply has been accepted for it.
THEOREM GivesUpOnlyUnansweredHolds == Spec => GivesUpOnlyUnanswered
<1>1. Shape /\ ReqInv /\ [Next]_vars =>
        \A r \in Requests :
          req[r] = "taking" /\ req'[r] \in {"erred", "dropped"} => log[Inbox(r)] = <<>>
  <2> SUFFICES ASSUME Shape, ReqInv, [Next]_vars, NEW r \in Requests,
                      req[r] = "taking", req'[r] \in {"erred", "dropped"}
               PROVE  log[Inbox(r)] = <<>>
    OBVIOUS
  <2>0. /\ HandleInv(r) /\ AnswerInv(r) /\ Types
        /\ Inbox(r) \in Endpoint /\ r \in Consumers
    BY InboxFacts DEF ReqInv
  <2>1. TakeFails(r) \/ DropTake(r)
    <3>1. PICK q \in Requests : Request(q)
      BY DEF Next, HandleRequest, RequestReaches, InvokeFails, FindInbox, InboxGone,
            PublishReply, ReplyReturns, vars, reqVars
    <3>2. q = r
      BY <2>0, <3>1 DEF Types, Goto, Request, CreateInbox, CreateInboxSender, Register,
            PublishFails, PublishSucceeds, Take, TakeLock, TakeReply, TakeFails, Unregister,
            DropTake, reqVars
    <3> QED
      BY <2>0, <3>1, <3>2 DEF Types, Goto, Request, CreateInbox, CreateInboxSender, Register,
            PublishFails, PublishSucceeds, Take, TakeLock, TakeReply, Unregister, reqVars
  <2>2. at[r] = Inbox(r) /\ head[Inbox(r)] = 0
    BY <2>0 DEF HandleInv, AnswerInv
  <2>3. IsEmpty(at[r])
    <3>1. pc[r] = "lock" => ~Locked(at[r])
      BY <2>2, InboxFacts, RequestAssumption DEF Locked, ReqInv, HandleInv, Requests
    <3> QED
      BY <2>1, <3>1 DEF TakeFails, DropTake, ReceiveTimeout, ConsumeDrop, RecvPending
  <2> QED
    BY <2>0, <2>2, <2>3 DEF IsEmpty, Queued, Shape, ChanTypeOK
<1>2. Spec => []Shape /\ []ReqInv /\ [][Next]_vars
  BY RequestsUseChannels, ShapeInvariant, ReqInvariant, PTL DEF Spec
<1> QED
  BY <1>1, <1>2, PTL DEF GivesUpOnlyUnanswered

=============================================================================
