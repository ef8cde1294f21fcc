------------------------------- MODULE Runtime -------------------------------
(***************************************************************************)
(* The life of a runtime (src/src/runtime/mod.rs) that has one HTTP server *)
(* (src/crates/http-server/src/service.rs, server.rs) in front of the bus. *)
(* Services start in the order of registration, in which messaging comes   *)
(* last, and shut down in reverse.  A start that fails starts nothing more *)
(* and undoes nothing; shutdown() may be called all the same.              *)
(*                                                                         *)
(* The clients of the bus are the requests of HTTP connections: a message  *)
(* is a request.  A route to a component invokes it; a route to a channel  *)
(* publishes, and one with a reply timeout then waits for a reply; its     *)
(* reply channel is that of RequestReply, of which only this is kept: a    *)
(* reply may come when a handler has been acked.                           *)
(***************************************************************************)
EXTENDS MessageBus

CONSTANTS
  Conns,      \* the connections clients open
  Direct,     \* the requests whose route names a component
  WithReply   \* the requests to a channel whose route has a reply timeout

ASSUME RuntimeAssumption ==
  /\ Direct \subseteq Messages \ Replies
  /\ WithReply \subseteq Messages \ (Replies \cup Direct)
  /\ None \notin Conns \cup {"202", "other"}

VARIABLES
  rt,         \* how far Runtime::start() or Runtime::shutdown() has come
  server,     \* where the task of the HTTP server is
  conn,       \* per connection, its state
  serving,    \* per connection, the request it is serving, or None
  response,   \* per request, None, or what it was answered: 202 or something else
  forced      \* the server's task has ended without its connections

httpVars == <<server, conn, serving, response, forced>>
rtVars   == <<rt, httpVars>>
sysVars  == <<busVars, rtVars>>

RtInit ==
  /\ BusInit
  /\ rt = "new"
  /\ server = "off"
  /\ conn = [c \in Conns |-> "new"]
  /\ serving = [c \in Conns |-> None]
  /\ response = [m \in Messages |-> None]
  /\ forced = FALSE

-----------------------------------------------------------------------------
(***************************************************************************)
(* Runtime::start and Runtime::shutdown.                                   *)
(***************************************************************************)
StartHttp ==
  /\ rt = "new"
  /\ rt' = "bus"
  /\ server' = "bind"
  /\ UNCHANGED <<busVars, conn, serving, response, forced>>

\* A route of the configuration names what does not exist.
StartHttpFails ==
  /\ rt = "new"
  /\ rt' = "failed"
  /\ UNCHANGED <<busVars, httpVars>>

StartBus ==
  /\ rt = "bus"
  /\ Start
  /\ rt' = CASE boot' = "started" -> "up"
             [] boot' = "failed" -> "failed"
             [] OTHER -> "bus"
  /\ UNCHANGED httpVars

Stop ==
  /\ rt \in {"up", "failed"}
  /\ rt' = "stopping"
  /\ UNCHANGED <<busVars, httpVars>>

StopBus ==
  /\ rt = "stopping"
  /\ Shutdown
  /\ rt' = IF shut' = "done" THEN "signalled" ELSE rt
  /\ UNCHANGED httpVars

\* Mutant: only a bus that was started is shut down.
StopUnstartedBus_OrFailed ==
  /\ rt = "stopping"
  /\ boot \in {"new", "failed"}
  /\ rt' = "signalled"
  /\ UNCHANGED <<busVars, httpVars>>

\* The bus was never started: it has no channel and no dispatcher.
StopUnstartedBus ==
  /\ rt = "stopping"
  /\ boot = "new"
  /\ rt' = "signalled"
  /\ UNCHANGED <<busVars, httpVars>>

\* HttpService::shutdown waits for the task of the server.
StopReturns ==
  /\ rt = "signalled"
  /\ server \in {"off", "done"}
  /\ rt' = "down"
  /\ UNCHANGED <<busVars, httpVars>>

-----------------------------------------------------------------------------
(***************************************************************************)
(* HttpServer::run: bind, accept until the shutdown is signalled or accept *)
(* fails, then wait for the connections, but for five seconds at most.     *)
(***************************************************************************)
ServerGoto(from, to) ==
  /\ server = from
  /\ server' = to
  /\ UNCHANGED <<busVars, rt, serving, response>>

Bind ==
  /\ ServerGoto("bind", "accept") \/ ServerGoto("bind", "done")
  /\ UNCHANGED <<conn, forced>>

Accept(c) ==
  /\ ServerGoto("accept", "accept")
  /\ conn[c] = "new"
  /\ conn' = [conn EXCEPT ![c] = "idle"]
  /\ UNCHANGED forced

AcceptFails ==
  /\ ServerGoto("accept", "done")
  /\ forced' = TRUE
  /\ UNCHANGED conn

StopAccepting ==
  /\ rt \in {"signalled", "down"}
  /\ ServerGoto("accept", "drain")
  /\ UNCHANGED <<conn, forced>>

AllClosed == \A c \in Conns : conn[c] \in {"new", "closed"}

\* Mutant: a connection that serves a request is not waited for.
Drained_Idle ==
  /\ \A c \in Conns : conn[c] # "idle"
  /\ ServerGoto("drain", "done")
  /\ UNCHANGED <<conn, forced>>

Drained ==
  /\ AllClosed
  /\ ServerGoto("drain", "done")
  /\ UNCHANGED <<conn, forced>>

\* Mutant: run() waits for its connections without a limit.
DrainTimeout_Never ==
  /\ FALSE
  /\ ServerGoto("drain", "done")
  /\ UNCHANGED <<conn, forced>>

DrainTimeout ==
  /\ ~AllClosed
  /\ ServerGoto("drain", "done")
  /\ forced' = TRUE
  /\ UNCHANGED conn

-----------------------------------------------------------------------------
(***************************************************************************)
(* A connection serves one request after the other.  Once the server has   *)
(* left its accept loop, connections are told to close: an idle one does   *)
(* so at once, one that serves a request when it has answered.             *)
(***************************************************************************)
ToldToClose == server \in {"drain", "done"}

Serve(c, m) ==
  /\ conn[c] = "idle"
  /\ ~ToldToClose
  /\ m \notin Replies
  /\ response[m] = None
  /\ \A d \in Conns : serving[d] # m
  /\ found[m] = None /\ m \notin refused
  /\ conn' = [conn EXCEPT ![c] = "busy"]
  /\ serving' = [serving EXCEPT ![c] = m]
  /\ UNCHANGED <<busVars, rt, server, response, forced>>

CloseIdle(c) ==
  /\ conn[c] = "idle"
  /\ conn' = [conn EXCEPT ![c] = "closed"]
  /\ UNCHANGED <<busVars, rt, server, serving, response, forced>>

RequestLookup(c) ==
  /\ serving[c] # None
  /\ serving[c] \notin Direct
  /\ ClientPublish(serving[c])
  /\ UNCHANGED rtVars

Answer(c, code) ==
  /\ response' = [response EXCEPT ![serving[c]] = code]
  /\ serving' = [serving EXCEPT ![c] = None]
  /\ conn' = [conn EXCEPT ![c] = IF ToldToClose THEN "closed" ELSE "idle"]
  /\ UNCHANGED <<busVars, rt, server, forced>>

Published(m) == status[m] = "ok"
Failed(m)    == m \in refused \/ status[m] \in Outcomes \ {"ok"}
Untouched(m) == found[m] = None /\ m \notin refused

\* No route matches, or the request cannot be turned into a message, or the
\* message into a call of the component.
AnswerRejected(c) ==
  /\ serving[c] # None
  /\ Untouched(serving[c])
  /\ Answer(c, "other")

\* The component was invoked, and returned or failed.
AnswerInvoked(c) ==
  /\ serving[c] \in Direct
  /\ Answer(c, "other")

AnswerFailed(c) ==
  /\ serving[c] # None
  /\ Failed(serving[c])
  /\ Answer(c, "other")

\* Mutant: the request is accepted before publish() has returned.
AnswerAccepted_Early(c) ==
  /\ serving[c] # None
  /\ found[serving[c]] # None
  /\ serving[c] \notin WithReply
  /\ Answer(c, "202")

AnswerAccepted(c) ==
  /\ serving[c] # None
  /\ Published(serving[c])
  /\ serving[c] \notin WithReply
  /\ Answer(c, "202")

AnswerReply(c) ==
  /\ serving[c] \in WithReply
  /\ Published(serving[c])
  /\ \E d \in Consumers : <<d, serving[c]>> \in acked
  /\ Answer(c, "other")

\* No reply in time: by the route's timeout, or by that of the reply channel.
AnswerTimeout(c) ==
  /\ serving[c] \in WithReply
  /\ Published(serving[c])
  /\ Answer(c, "other")

\* The client goes away: the future that serves its request is dropped where
\* it waits: for the body, the component, room in a queue or the reply.
ConnLost(c) ==
  /\ LET m == serving[c]
     IN /\ m # None
        /\ \/ ClientDrops(m)
           \/ /\ Untouched(m) \/ (Published(m) /\ m \in WithReply)
              /\ UNCHANGED busVars
  /\ conn' = [conn EXCEPT ![c] = "closed"]
  /\ serving' = [serving EXCEPT ![c] = None]
  /\ UNCHANGED <<rt, server, response, forced>>

-----------------------------------------------------------------------------
Lifecycle ==
  \/ StartHttp
  \/ StartHttpFails
  \/ StartBus
  \/ Stop
  \/ StopBus
  \/ StopUnstartedBus
  \/ StopReturns

Server ==
  \/ Bind
  \/ \E c \in Conns : Accept(c)
  \/ AcceptFails
  \/ StopAccepting
  \/ Drained
  \/ DrainTimeout

Responses(c) ==
  \/ AnswerRejected(c)
  \/ AnswerInvoked(c)
  \/ AnswerFailed(c)
  \/ AnswerAccepted(c)
  \/ AnswerReply(c)
  \/ AnswerTimeout(c)

Connection(c) ==
  \/ \E m \in Messages : Serve(c, m)
  \/ CloseIdle(c)
  \/ RequestLookup(c)
  \/ Responses(c)
  \/ ConnLost(c)

\* The tasks of the bus go on beside all this.
BusTasks ==
  /\ \/ \E m \in Messages : PublishToChannel(m)
     \/ \E d \in Consumers : Dispatch(d)
     \/ \E d \in Consumers, m \in Messages : Handle(d, m)
  /\ UNCHANGED rtVars

RtNext ==
  \/ Lifecycle
  \/ Server
  \/ \E c \in Conns : Connection(c)
  \/ BusTasks

RtSpec == RtInit /\ [][RtNext]_sysVars

\* The connection has a request whose message went to the bus.
Awaited(c) == serving[c] # None /\ ~Untouched(serving[c])

(***************************************************************************)
(* The runtime schedules every task that is ready, permits and mutexes are *)
(* handed out in turn, the deadline of publish() passes, a pending select! *)
(* sees the cancellation, and a component that handles a message returns.  *)
(* start() and shutdown() come to their ends once called, the server's     *)
(* task runs, its five seconds pass, and a request that publish() was      *)
(* called for is answered when that has returned.  Nobody has to call      *)
(* shutdown(), to connect or to send a request, nor the rest of its body;  *)
(* a component that is invoked for a route may never return.               *)
(***************************************************************************)
RtFairness ==
  /\ WF_sysVars(Lifecycle /\ rt \notin {"new", "up", "failed"})
  /\ WF_sysVars(Bind) /\ WF_sysVars(StopAccepting)
  /\ WF_sysVars(Drained \/ DrainTimeout)
  /\ \A c \in Conns : WF_sysVars(Awaited(c) /\ Responses(c))
  /\ \A m \in Messages : SF_sysVars(PublishToChannel(m) /\ UNCHANGED rtVars)
  /\ \A d \in Consumers :
       /\ WF_sysVars(Dispatch(d) /\ disp'[d] # disp[d] /\ UNCHANGED rtVars)
       /\ SF_sysVars(AcquireInSelect(d) /\ UNCHANGED rtVars)
       /\ SF_sysVars(BreakOnCancel(d) /\ UNCHANGED rtVars)
       /\ WF_sysVars(DrainTask(d) /\ UNCHANGED rtVars)
       /\ \A m \in Messages : WF_sysVars(Handle(d, m) /\ UNCHANGED rtVars)

FairRtSpec == RtSpec /\ RtFairness

-----------------------------------------------------------------------------
(***************************************************************************)
(* Properties                                                              *)
(***************************************************************************)
RtTypeOK ==
  /\ BusTypeOK
  /\ rt \in {"new", "bus", "up", "failed", "stopping", "signalled", "down"}
  /\ server \in {"off", "bind", "accept", "drain", "done"}
  /\ conn \in [Conns -> {"new", "idle", "busy", "closed"}]
  /\ serving \in [Conns -> Messages \cup {None}]
  /\ \A c \in Conns : serving[c] # None <=> conn[c] = "busy"
  /\ response \in [Messages -> {"202", "other", None}]
  /\ forced \in BOOLEAN

\* When shutdown() has returned, also after a start() that failed half-way, no
\* server listens, no dispatcher is left and no handler runs.
DownMeansStopped ==
  rt = "down" =>
    /\ server \in {"off", "done"}
    /\ \A d \in Consumers : disp[d] \in {"off", "done"} /\ Tasks(d) = 0

\* A request that was answered with 202 has been handled by every group that
\* was subscribed when it was published, when shutdown() returns without having
\* cancelled a dispatcher: answering and shutting down lose no message.
AcceptedRequestsAreServed ==
  rt = "down" /\ ~cancelled =>
    \A m \in Messages : response[m] = "202" =>
      /\ target[m] # {}
      /\ \A e \in target[m] :
           (\A d \in On(e) : disp[d] # "off") => \E d \in On(e) : m \in Settled(d)

\* A shutdown that did not run into the five seconds has answered every request.
RequestsAreAnswered ==
  rt = "down" /\ ~forced => AllClosed

\* shutdown() returns, whatever requests, handlers and clients are doing.
StopCompletes ==
  (rt = "stopping") ~> (rt = "down")

\* A request that has been published comes to an end, also when the bus fails
\* to start or shuts down meanwhile.
RequestsEnd ==
  \A c \in Conns : Awaited(c) ~> ~Awaited(c)

=============================================================================
