---------------------------- MODULE RequestReply ----------------------------
(***************************************************************************)
(* Request and reply (src/src/messaging/reply.rs, BusPublisher in          *)
(* service.rs, the reply half of Activator::handle and the composite reply *)
(* publisher of bus.rs).  A requester makes an ephemeral channel with room *)
(* for one reply, registers it under a fresh name, publishes the request   *)
(* with that name in the reply-to header and waits for a reply; its caller *)
(* may drop the wait.  Every consumer group of the request channel handles *)
(* the request, and each handler publishes a reply.                        *)
(*                                                                         *)
(* The ephemeral channel of request r is the channel r of LocalChannel,    *)
(* its one consumer is the requester r, and <<r, w>> is the publish() call *)
(* of the reply of handler w to r.                                         *)
(***************************************************************************)
EXTENDS LocalChannel

CONSTANT Workers  \* the handlers a request reaches, one per group of its channel

Requests == Channels
Calls    == Requests \X Workers

ASSUME RequestAssumption ==
  /\ None \notin Workers
  /\ Groups = {"reply"}
  /\ Consumers = Requests
  /\ Messages = Calls
  /\ Capacity = [r \in Requests |-> 1]
  /\ PublishTimeout = {"timed"}
  /\ ConsumeTimeout = "timed"

VARIABLES
  ephemeral,  \* the names in the registry of reply channels
  req,        \* per request, where its requester is
  answer,     \* per request, the handler whose reply was received, or None
  work        \* per request and handler, where the handler is

reqVars == <<ephemeral, req, answer>>
vars    == <<chanVars, reqVars, work>>

Inbox(r) == <<r, "reply">>

\* The requester is through, with a reply, an error or because it was dropped.
Finished(r) == req[r] \in {"replied", "failed", "unpublished", "dropped"}

Init ==
  /\ ChanInit
  /\ ephemeral = {}
  /\ req = [r \in Requests |-> "new"]
  /\ answer = [r \in Requests |-> None]
  /\ work = [k \in Calls |-> "none"]

Goto(r, from, to) ==
  /\ req[r] = from
  /\ req' = [req EXCEPT ![r] = to]

-----------------------------------------------------------------------------
(***************************************************************************)
(* The requester: return_address, publish_request, take.                   *)
(***************************************************************************)
CreateInbox(r) ==
  /\ Goto(r, "new", "created")
  /\ InitGroup(Inbox(r))
  /\ UNCHANGED <<ephemeral, answer, work>>

CreateInboxSender(r) ==
  /\ Goto(r, "created", "ready")
  /\ InitGroupSender(Inbox(r))
  /\ UNCHANGED <<ephemeral, answer, work>>

Register(r) ==
  /\ Goto(r, "ready", "publishing")
  /\ ephemeral' = ephemeral \cup {r}
  /\ UNCHANGED <<chanVars, answer, work>>

\* The request reaches one handler after the other; each may start, and even
\* reply, before the publish of the request has returned.
RequestReaches(r, w) ==
  /\ req[r] = "publishing"
  /\ work[<<r, w>>] = "none"
  /\ work' = [work EXCEPT ![<<r, w>>] = "busy"]
  /\ UNCHANGED <<chanVars, reqVars>>

\* Mutant: the handle does not unregister its channel when it is dropped.
PublishFails_Leaks(r) ==
  /\ Goto(r, "publishing", "unpublished")
  /\ UNCHANGED <<ephemeral, chanVars, answer, work>>

\* The bus refuses the request, after some groups got it or before, or the
\* caller is dropped while it publishes: dropping the handle unregisters it.
PublishFails(r) ==
  /\ Goto(r, "publishing", "unpublished")
  /\ ephemeral' = ephemeral \ {r}
  /\ UNCHANGED <<chanVars, answer, work>>

PublishSucceeds(r) ==
  /\ \A w \in Workers : work[<<r, w>>] # "none"
  /\ Goto(r, "publishing", "published")
  /\ UNCHANGED <<chanVars, ephemeral, answer, work>>

\* Mutant: the channel is unregistered before the reply is awaited.
Take_Unregisters(r) ==
  /\ Goto(r, "published", "taking")
  /\ ConsumeBegin(r, Inbox(r))
  /\ ephemeral' = ephemeral \ {r}
  /\ UNCHANGED <<answer, work>>

Take(r) ==
  /\ Goto(r, "published", "taking")
  /\ ConsumeBegin(r, Inbox(r))
  /\ UNCHANGED <<ephemeral, answer, work>>

TakeLock(r) ==
  /\ AcquireReceiver(r)
  /\ UNCHANGED <<reqVars, work>>

TakeReply(r) ==
  /\ Goto(r, "taking", "took")
  /\ Receive(r)
  /\ answer' = [answer EXCEPT ![r] = NextMsg(Inbox(r))[2]]
  /\ UNCHANGED <<ephemeral, work>>

\* Mutant: the deadline is looked at before the queue.
TakeFails_DeadlineFirst(r) ==
  /\ Goto(r, "taking", "erred")
  /\ pc[r] = "recv"
  /\ ConsumeReturn(r)
  /\ UNCHANGED <<queueVars, ephemeral, answer, work>>

\* Mutant: the requester waits again after the deadline.
TakeFails_Retries(r) ==
  /\ Goto(r, "taking", "published")
  /\ ReceiveTimeout(r)
  /\ UNCHANGED <<ephemeral, answer, work>>

\* The channel's own deadline passes.  The error path for a closed channel is
\* not taken: InboxStaysOpen.
TakeFails(r) ==
  /\ Goto(r, "taking", "erred")
  /\ ReceiveTimeout(r)
  /\ UNCHANGED <<ephemeral, answer, work>>

\* take() unregisters the channel only after consume() has returned.
Unregister(r) ==
  /\ Goto(r, "took", "replied") \/ Goto(r, "erred", "failed")
  /\ ephemeral' = ephemeral \ {r}
  /\ UNCHANGED <<chanVars, answer, work>>

\* The caller's reply timeout drops take(), and with it the handle.
DropTake(r) ==
  /\ Goto(r, "taking", "dropped")
  /\ ConsumeDrop(r)
  /\ ephemeral' = ephemeral \ {r}
  /\ UNCHANGED <<answer, work>>

-----------------------------------------------------------------------------
(***************************************************************************)
(* A handler: invoke the component, look the reply channel up, publish.    *)
(***************************************************************************)
WorkOn(r, w, from, to) ==
  /\ work[<<r, w>>] = from
  /\ work' = [work EXCEPT ![<<r, w>>] = to]

\* Mapping or invocation fails, or the handler panics: there is no reply.
InvokeFails(r, w) ==
  /\ WorkOn(r, w, "busy", "nacked")
  /\ UNCHANGED <<chanVars, reqVars>>

FindInbox(r, w) ==
  /\ r \in ephemeral
  /\ WorkOn(r, w, "busy", "found")
  /\ UNCHANGED <<chanVars, reqVars>>

\* A name that is not in the registry falls back to the bus's own channels,
\* where no reply-<uuid> is: the handler returns an error.
InboxGone(r, w) ==
  /\ r \notin ephemeral
  /\ WorkOn(r, w, "busy", "refused")
  /\ UNCHANGED <<chanVars, reqVars>>

\* The handler holds the channel itself: the requester may be gone by now.
PublishReply(r, w) ==
  /\ work[<<r, w>>] = "found"
  /\ PublishBegin(<<r, w>>, r) \/ Send(<<r, w>>) \/ SendTimeout(<<r, w>>)
  /\ UNCHANGED <<reqVars, work>>

\* Mutant: the handler reports a failure without waiting for the publish.
ReplyReturns_Impatient(r, w) ==
  /\ \/ status[<<r, w>>] = "ok" /\ WorkOn(r, w, "found", "acked")
     \/ status[<<r, w>>] # "new" /\ WorkOn(r, w, "found", "nacked")
  /\ UNCHANGED <<chanVars, reqVars>>

ReplyReturns(r, w) ==
  /\ \/ status[<<r, w>>] = "ok" /\ WorkOn(r, w, "found", "acked")
     \/ status[<<r, w>>] = "timeout" /\ WorkOn(r, w, "found", "nacked")
  /\ UNCHANGED <<chanVars, reqVars>>

-----------------------------------------------------------------------------
Request(r) ==
  \/ CreateInbox(r)
  \/ CreateInboxSender(r)
  \/ Register(r)
  \/ PublishFails(r)
  \/ PublishSucceeds(r)
  \/ Take(r)
  \/ TakeLock(r)
  \/ TakeReply(r)
  \/ TakeFails(r)
  \/ Unregister(r)
  \/ DropTake(r)

HandleRequest(r, w) ==
  \/ InvokeFails(r, w)
  \/ FindInbox(r, w)
  \/ InboxGone(r, w)
  \/ PublishReply(r, w)
  \/ ReplyReturns(r, w)

Next ==
  \/ \E r \in Requests : Request(r)
  \/ \E r \in Requests, w \in Workers : RequestReaches(r, w) \/ HandleRequest(r, w)

Spec == Init /\ [][Next]_vars

(***************************************************************************)
(* Tasks that are ready run, deadlines pass, components return.  Nobody    *)
(* has to send a request; a request that is being published is delivered   *)
(* or refused.                                                             *)
(***************************************************************************)
Fairness ==
  /\ \A r \in Requests : WF_vars(Request(r) /\ req[r] # "new")
  /\ \A r \in Requests, w \in Workers : WF_vars(HandleRequest(r, w))

FairSpec == Spec /\ Fairness

-----------------------------------------------------------------------------
(***************************************************************************)
(* Properties                                                              *)
(***************************************************************************)
TypeOK ==
  /\ ChanTypeOK
  /\ ephemeral \subseteq Requests
  /\ req \in [Requests -> {"new", "created", "ready", "publishing", "published",
                           "taking", "took", "erred", "replied", "failed",
                           "unpublished", "dropped"}]
  /\ answer \in [Requests -> Workers \cup {None}]
  /\ work \in [Calls -> {"none", "busy", "found", "acked", "nacked", "refused"}]

\* A requester that waits has an open channel, and a handler that found the
\* channel can publish to it: neither is ever told that it is closed.
InboxStaysOpen ==
  \A r \in Requests :
    /\ req[r] \notin {"new", "created"} => Inbox(r) \in senders
    /\ \A w \in Workers : work[<<r, w>>] # "none" => status[<<r, w>>] # "closed"

\* However a request ends, its reply channel is no longer registered.
NoReplyChannelLeaks ==
  \A r \in ephemeral : ~Finished(r)

\* A handler is told that the reply channel is gone only when the requester is
\* through with it: no reply is turned away while somebody waits for it.
RefusedOnlyWhenFinished ==
  \A r \in Requests, w \in Workers : work[<<r, w>>] = "refused" => Finished(r)

\* The reply a requester got is the first that its channel accepted, and the
\* handler that sent it will not report that it failed.
ReplyComesFromItsHandler ==
  \A r \in Requests :
    answer[r] # None =>
      /\ log[Inbox(r)][1] = <<r, answer[r]>>
      /\ status[<<r, answer[r]>>] = "ok"
      /\ work[<<r, answer[r]>>] \in {"found", "acked"}

\* A requester that waits gives up, by its own or its caller's deadline, only
\* when no reply has been accepted for it.
GivesUpOnlyUnanswered ==
  [][\A r \in Requests :
       req[r] = "taking" /\ req'[r] \in {"erred", "dropped"} => log[Inbox(r)] = <<>>]_vars

\* Every request ends, whether handlers reply, fail or are late.
RequestsFinish ==
  \A r \in Requests : (req[r] = "publishing") ~> Finished(r)

\* Every handler that got a request ends, also the second one to reply, for
\* whose reply the channel has no room.
HandlersFinish ==
  \A r \in Requests, w \in Workers :
    (work[<<r, w>>] = "busy") ~> (work[<<r, w>>] \in {"acked", "nacked", "refused"})

=============================================================================
