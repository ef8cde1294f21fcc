-------------------------- MODULE HttpRoutes_proofs --------------------------
(***************************************************************************)
(* The properties of HttpRoutes for every set of servers and of requests:  *)
(* accepted routes exclude each other, no part of a request is lost on its *)
(* way into the message, and the mapping's headers reach the response.     *)
(***************************************************************************)
EXTENDS HttpRoutes, SequenceTheorems, TLAPS

-----------------------------------------------------------------------------
(* Matching.                                                               *)

\* A request that has a parameter as one spec wants it does not have it as a spec
\* wants it that kinds_are_exclusive calls exclusive (config.rs:577).
LEMMA ExclusiveSpecs ==
  ASSUME NEW s, NEW t, NEW query, s.name = t.name, Exclusive(s, t)
  PROVE  ~(Satisfied(s, query) /\ Satisfied(t, query))
<1>1. CASE s.kind = "forbidden" /\ t.kind = "required"
  BY <1>1 DEF Satisfied
<1>2. CASE s.kind = "required" /\ t.kind = "forbidden"
  BY <1>2 DEF Satisfied
<1>3. CASE s.kind = "required" /\ t.kind = "required" /\ s.value # None /\ t.value # None /\ s.value # t.value
  BY <1>3 DEF Satisfied
<1> QED
  BY <1>1, <1>2, <1>3 DEF Exclusive

\* Routes that parse_routes accepts side by side never match the same request.
LEMMA NoConflictNoOverlap ==
  ASSUME NEW r, NEW s, NEW req, ~Conflict(r, s),
         Structure(r) = Structure(s), TypeOf(r) = TypeOf(s)
  PROVE  ~(Matching(r, req) /\ Matching(s, req))
<1> SUFFICES ASSUME Matching(r, req), Matching(s, req)  PROVE FALSE
  OBVIOUS
<1>1. Disjoint(r.query, s.query)
  BY DEF Conflict, Matching
<1>2. PICK i \in 1..Len(r.query), j \in 1..Len(s.query) :
        r.query[i].name = s.query[j].name /\ Exclusive(r.query[i], s.query[j])
  BY <1>1 DEF Disjoint
<1>3. Satisfied(r.query[i], req.query) /\ Satisfied(s.query[j], req.query)
  BY <1>2 DEF Matching
<1> QED
  BY <1>2, <1>3, ExclusiveSpecs

\* Past the parser, the routes are those that it accepts.
Parsed == phase \notin {"parse", "rejected"} => Valid(server)

LEMMA ParsedInvariant == HttpSpec => []Parsed
<1>1. HttpInit => Parsed
  BY DEF HttpInit, Parsed
<1>2. Parsed /\ [HttpNext]_httpVars => Parsed'
  <2> SUFFICES ASSUME Parsed, [HttpNext]_httpVars  PROVE Parsed'
    OBVIOUS
  <2>1. server' = server
    BY DEF HttpNext, ParseRoutes, StartServer, MatchRoute, NotFound, RefuseRequest, BuildMessage, CallFails,
           Accept, CallReturns, BuildResponse, httpVars
  <2>2. CASE phase \in {"parse", "rejected"}
    <3>1. phase' \in {"parse", "rejected"} \/ Valid(server)
      BY <2>2 DEF HttpNext, ParseRoutes, StartServer, MatchRoute, NotFound, RefuseRequest, BuildMessage,
                  CallFails, Accept, CallReturns, BuildResponse, httpVars
    <3> QED
      BY <2>1, <3>1 DEF Parsed
  <2>3. CASE phase \notin {"parse", "rejected"}
    BY <2>1, <2>3 DEF Parsed
  <2> QED
    BY <2>2, <2>3
<1> QED
  BY <1>1, <1>2, PTL DEF HttpSpec

\* Routes that are accepted together and have a structure and a type in common never
\* match the same request, for all servers and requests (config.rs:527).
THEOREM RoutesAreExclusive == HttpSpec => []AcceptedRoutesAreExclusive
<1>1. Parsed => AcceptedRoutesAreExclusive
  <2> SUFFICES ASSUME Parsed, NEW i \in 1..Len(server), NEW j \in 1..Len(server), i < j, phase = "listen",
                      Structure(server[i]) = Structure(server[j]), TypeOf(server[i]) = TypeOf(server[j])
               PROVE  ~(Matching(server[i], request) /\ Matching(server[j], request))
    BY DEF AcceptedRoutesAreExclusive
  <2>1. ~Conflict(server[i], server[j])
    BY DEF Parsed, Valid
  <2> QED
    BY <2>1, NoConflictNoOverlap
<1> QED
  BY <1>1, ParsedInvariant, PTL

-----------------------------------------------------------------------------
(* Messages.                                                               *)

\* The values of every capturing segment and of every query parameter that is there.
Carries(values, r, req) ==
  /\ DOMAIN values = PathCaptures(r) \cup (QueryCaptures(r) \cap DOMAIN req.query)
  /\ \A i \in 1..Len(r.path) : r.path[i][1] = "capture" =>
       r.path[i][2] \in PathCaptures(r) /\ values[r.path[i][2]] = req.path[i]
  /\ \A n \in QueryCaptures(r) \cap DOMAIN req.query : values[n] = req.query[n]

\* The captures of an accepted route: each capturing segment and each query
\* parameter that is there has its value, since no two share a name (config.rs:764).
LEMMA CapturedValues ==
  ASSUME NEW r, NEW req, ValidCaptures(r),
         r.path \in Paths
  PROVE  Carries(Captures(r, req), r, req)
<1>1. DOMAIN Captures(r, req) = PathCaptures(r) \cup (QueryCaptures(r) \cap DOMAIN req.query)
  BY DEF Captures
<1>2. ASSUME NEW i \in 1..Len(r.path), r.path[i][1] = "capture"
      PROVE  r.path[i][2] \in PathCaptures(r) /\ Captures(r, req)[r.path[i][2]] = req.path[i]
  <2> DEFINE n == r.path[i][2]
             Last(k) == r.path[k] = <<"capture", n>> /\ \A j \in (k+1)..Len(r.path) : r.path[j] # r.path[k]
  <2>1. r.path[i] = <<"capture", n>>
    BY <1>2 DEF Paths
  <2>2. n \in PathCaptures(r)
    BY <1>2 DEF PathCaptures
  <2>3. Last(i)
    <3>1. ASSUME NEW j \in (i+1)..Len(r.path)  PROVE r.path[j] # r.path[i]
      BY <1>2 DEF ValidCaptures
    <3> QED
      BY <2>1, <3>1
  <2>4. \A k \in 1..Len(r.path) : Last(k) => k = i
    BY <1>2, <2>1 DEF ValidCaptures
  <2>5. (CHOOSE k \in 1..Len(r.path) : Last(k)) = i
    <3> HIDE DEF Last
    <3> QED
      BY <2>3, <2>4
  <2>6. Captures(r, req)[n] = req.path[CHOOSE k \in 1..Len(r.path) : Last(k)]
    BY <2>2 DEF Captures
  <2> QED
    BY <2>2, <2>5, <2>6
<1>3. ASSUME NEW n \in QueryCaptures(r) \cap DOMAIN req.query  PROVE Captures(r, req)[n] = req.query[n]
  BY <1>3 DEF ValidCaptures, Captures
<1> QED
  BY <1>1, <1>2, <1>3 DEF Carries

\* What a message is at each point of a request: made once, of a route that was
\* chosen, from a body that could be parsed.
MessageInv ==
  /\ server \in Servers
  /\ phase \in {"parse", "rejected", "start", "listen", "build"} => message = None
  /\ phase \in {"build", "call", "reply"} \/ message # None => route \in 1..Len(server)
  /\ message # None => /\ Valid(server)
                       /\ ~BadBody
                       /\ message.body = MessageBody
                       /\ message.type = IF TypeOf(r0) = None THEN Json ELSE TypeOf(r0)

LEMMA MessageInvariant == HttpSpec => []MessageInv
<1>1. HttpInit => MessageInv
  BY DEF HttpInit, MessageInv
<1>2. Parsed /\ MessageInv /\ [HttpNext]_httpVars => MessageInv'
  <2> SUFFICES ASSUME Parsed, MessageInv, [HttpNext]_httpVars  PROVE MessageInv'
    OBVIOUS
  <2>1. CASE UNCHANGED <<server, request, route, message>> /\ phase' = "answered"
    BY <2>1 DEF MessageInv, BadBody, MessageBody, BodyIgnored, r0
  <2>2. CASE UNCHANGED httpVars
    BY <2>2 DEF httpVars, MessageInv, BadBody, MessageBody, BodyIgnored, r0
  <2>3. CASE ParseRoutes \/ StartServer
    BY <2>3 DEF ParseRoutes, StartServer, MessageInv
  <2>4. CASE MatchRoute
    BY <2>4 DEF MatchRoute, MessageInv
  <2>5. CASE NotFound \/ RefuseRequest \/ CallFails \/ Accept \/ BuildResponse
    BY <2>1, <2>5 DEF NotFound, RefuseRequest, CallFails, Accept, BuildResponse, Respond
  <2>6. CASE BuildMessage
    <3>1. UNCHANGED <<server, request, route>> /\ phase = "build" /\ phase' = "call" /\ ~BadBody
      BY <2>6 DEF BuildMessage
    <3>2. /\ message'.body = MessageBody
          /\ message'.type = IF TypeOf(r0) = None THEN Json ELSE TypeOf(r0)
      BY <2>6 DEF BuildMessage
    <3> QED
      BY <3>1, <3>2 DEF Parsed, MessageInv, BadBody, MessageBody, BodyIgnored, r0
  <2>7. CASE CallReturns
    BY <2>7 DEF CallReturns, MessageInv, BadBody, MessageBody, BodyIgnored, r0
  <2> QED
    BY <2>2, <2>3, <2>4, <2>5, <2>6, <2>7 DEF HttpNext
<1> QED
  BY <1>1, <1>2, ParsedInvariant, PTL DEF HttpSpec

\* Every message carries every captured value under its name and the whole body, for
\* all routes that are accepted and all requests (server.rs:661).
THEOREM EveryRequestIsCarried == HttpSpec => []RequestIsCarried
<1>1. MessageInv => RequestIsCarried
  <2> SUFFICES ASSUME MessageInv, message # None
               PROVE  /\ \A i \in 1..Len(r0.path) :
                           r0.path[i][1] = "capture" =>
                             message.body[1] = "object" /\ message.body[2][r0.path[i][2]] = request.path[i]
                      /\ \A n \in QueryCaptures(r0) \cap DOMAIN request.query :
                           message.body[1] = "object" /\ message.body[2][n] = request.query[n]
                      /\ AcceptsBody(r0) /\ request.body[1] # "empty" =>
                           IF message.type = Text THEN message.body = <<"text", request.body>>
                           ELSE IF request.body[1] # "object" THEN message.body = request.body
                           ELSE \A n \in DOMAIN request.body[2] : message.body[2][n] = request.body[2][n]
    BY DEF RequestIsCarried
  <2> DEFINE captures == Captures(r0, request)
  <2>1. ValidCaptures(r0) /\ ValidType(r0)
    BY DEF MessageInv, Valid, ValidRoute, r0
  <2>2. r0.path \in Paths
    BY ServersAreRoutes DEF MessageInv, r0
  <2>3. TypeOf(r0) \in {None, Json, Text}
    BY <2>1 DEF ValidType, TypeOf
  <2>4. ~BadBody /\ message.body = MessageBody
    BY DEF MessageInv
  <2>5. captures = <<>> <=> DOMAIN captures = {}
    <3>1. captures = [n \in DOMAIN captures |-> captures[n]]
      BY DEF Captures
    <3> HIDE DEF captures
    <3>2. DOMAIN captures = {} => captures \in [1..0 -> {}]
      BY <3>1
    <3>3. DOMAIN captures = {} => captures \in Seq({}) /\ Len(captures) = 0
      BY <3>2
    <3>4. DOMAIN <<>> = {}
      OBVIOUS
    <3> QED
      BY <3>3, <3>4, EmptySeq, Zenon
  <2>6. ASSUME NEW n \in DOMAIN captures
        PROVE  message.body[1] = "object" /\ message.body[2][n] = captures[n]
    <3>1. captures # <<>>
      BY <2>5, <2>6
    <3>2. CASE BodyIgnored
      <4>1. message.body = <<"object", captures>>
        BY <2>4, <3>1, <3>2 DEF MessageBody
      <4> QED
        BY <4>1
    <3>3. CASE ~BodyIgnored
      <4>1. TypeOf(r0) = Json
        BY <2>3, <2>4, <2>6, <3>3 DEF BadBody, BodyIgnored
      <4>2. message.body = <<"object", Merged(request.body[2], captures)>>
        BY <2>4, <3>1, <3>3, <4>1 DEF MessageBody, Json, Text
      <4>3. Merged(request.body[2], captures)[n] = captures[n]
        BY <2>6 DEF Merged
      <4> QED
        BY <4>2, <4>3
    <3> QED
      BY <3>2, <3>3
  <2>7. ASSUME AcceptsBody(r0), request.body[1] # "empty"
        PROVE  IF message.type = Text THEN message.body = <<"text", request.body>>
               ELSE IF request.body[1] # "object" THEN message.body = request.body
               ELSE \A n \in DOMAIN request.body[2] : message.body[2][n] = request.body[2][n]
    <3>1. TypeOf(r0) # None /\ ~BodyIgnored
      BY <2>1, <2>7, NoneIsNoType DEF TypeOf, BodyIgnored
    <3>2. message.type = TypeOf(r0)
      BY <3>1 DEF MessageInv
    <3>3. CASE TypeOf(r0) = Text
      <4>1. message.body = <<"text", request.body>>
        BY <2>4, <3>1, <3>3 DEF MessageBody, Json, Text
      <4> QED
        BY <3>2, <3>3, <4>1
    <3>4. CASE TypeOf(r0) = Json /\ DOMAIN captures = {}
      <4>1. message.body = request.body
        BY <2>4, <2>5, <3>1, <3>4 DEF MessageBody, Json, Text
      <4> QED
        BY <3>2, <3>4, <4>1 DEF Json, Text
    <3>5. CASE TypeOf(r0) = Json /\ DOMAIN captures # {}
      <4>1. request.body[1] = "object" /\ DOMAIN captures \cap DOMAIN request.body[2] = {}
        BY <2>4, <3>1, <3>5 DEF BadBody
      <4>2. message.body = <<"object", Merged(request.body[2], captures)>>
        BY <2>4, <2>5, <3>1, <3>5 DEF MessageBody, Json, Text
      <4>3. \A n \in DOMAIN request.body[2] : Merged(request.body[2], captures)[n] = request.body[2][n]
        BY <4>1 DEF Merged
      <4> QED
        BY <3>2, <3>5, <4>1, <4>2, <4>3 DEF Json, Text
    <3> QED
      BY <2>3, <3>1, <3>3, <3>4, <3>5
  <2>8. Carries(captures, r0, request)
    BY <2>1, <2>2, CapturedValues
  <2>9. ASSUME NEW i \in 1..Len(r0.path), r0.path[i][1] = "capture"
        PROVE  message.body[1] = "object" /\ message.body[2][r0.path[i][2]] = request.path[i]
    <3>1. r0.path[i][2] \in PathCaptures(r0) /\ captures[r0.path[i][2]] = request.path[i]
      BY <2>8, <2>9 DEF Carries
    <3>2. r0.path[i][2] \in DOMAIN captures
      BY <2>8, <3>1 DEF Carries
    <3> QED
      BY <2>6, <3>1, <3>2
  <2>10. ASSUME NEW n \in QueryCaptures(r0) \cap DOMAIN request.query
        PROVE  message.body[1] = "object" /\ message.body[2][n] = request.query[n]
    <3>1. n \in DOMAIN captures /\ captures[n] = request.query[n]
      BY <2>8, <2>10 DEF Carries
    <3> QED
      BY <2>6, <3>1
  <2> QED
    BY <2>7, <2>9, <2>10
<1> QED
  BY <1>1, MessageInvariant, PTL

-----------------------------------------------------------------------------
(* Responses.                                                              *)

\* A component's reply has the headers that were made for it, and the response
\* none but its type and those that the route emits.
ReplyInv ==
  /\ phase \notin {"reply", "answered"} => reply = None
  /\ reply # None => route \in 1..Len(server)
  /\ reply # None /\ r0.component =>
       /\ reply.headers = ReplyHeaders
       /\ "content-type" \in DOMAIN ReplyHeaders => reply.type = ReplyHeaders["content-type"]
  /\ reply # None /\ phase = "answered" =>
       \A h \in response.headers :
         \/ h = <<"content-type", reply.type>>
         \/ \E e \in r0.emits : h = <<e[2], reply.headers[e[1]]>>

LEMMA ReplyInvariant == HttpSpec => []ReplyInv
<1>1. HttpInit => ReplyInv
  BY DEF HttpInit, ReplyInv
<1>2. MessageInv /\ ReplyInv /\ [HttpNext]_httpVars => ReplyInv'
  <2> SUFFICES ASSUME MessageInv, ReplyInv, [HttpNext]_httpVars  PROVE ReplyInv'
    OBVIOUS
  <2>1. CASE UNCHANGED httpVars
    BY <2>1 DEF httpVars, ReplyInv, ReplyHeaders, Propagated, r0
  <2>2. CASE ParseRoutes \/ StartServer \/ MatchRoute \/ BuildMessage
    BY <2>2 DEF ParseRoutes, StartServer, MatchRoute, BuildMessage, ReplyInv
  <2>3. CASE NotFound \/ RefuseRequest \/ CallFails \/ Accept
    BY <2>3 DEF NotFound, RefuseRequest, CallFails, Accept, Respond, ReplyInv
  <2>4. CASE CallReturns
    <3>1. UNCHANGED <<server, route, message>> /\ phase = "call" /\ phase' = "reply"
      BY <2>4 DEF CallReturns
    <3>2. r0' = r0 /\ ReplyHeaders' = ReplyHeaders
      BY <3>1 DEF r0, ReplyHeaders, Propagated
    <3>3. r0.component =>
            /\ reply'.headers = ReplyHeaders
            /\ "content-type" \in DOMAIN ReplyHeaders => reply'.type = ReplyHeaders["content-type"]
      BY <2>4 DEF CallReturns, Answered
    <3> QED
      BY <3>1, <3>2, <3>3 DEF ReplyInv, MessageInv
  <2>5. CASE BuildResponse
    <3>1. UNCHANGED <<server, route, message, reply>> /\ phase = "reply" /\ phase' = "answered"
      BY <2>5 DEF BuildResponse, Respond
    <3>2. r0' = r0 /\ ReplyHeaders' = ReplyHeaders
      BY <3>1 DEF r0, ReplyHeaders, Propagated
    <3>3. \A h \in response'.headers :
            \/ h = <<"content-type", reply.type>>
            \/ \E e \in r0.emits : h = <<e[2], reply.headers[e[1]]>>
      BY <2>5 DEF BuildResponse, Respond
    <3> QED
      BY <3>1, <3>2, <3>3 DEF ReplyInv
  <2> QED
    BY <2>1, <2>2, <2>3, <2>4, <2>5 DEF HttpNext
<1> QED
  BY <1>1, <1>2, MessageInvariant, PTL DEF HttpSpec

\* A header of the response that the result mapping writes has the value that it
\* wrote, for all accepted routes: no rename takes its place (config.rs:363).
THEOREM MappedHeadersReachTheResponse == HttpSpec => []MappedHeadersAreEmitted
<1>1. Parsed /\ ReplyInv => MappedHeadersAreEmitted
  <2> SUFFICES ASSUME Parsed, ReplyInv, phase = "answered", reply # None, r0.component,
                      NEW h \in response.headers, h[1] \in r0.writes \ DOMAIN Propagated
               PROVE  h[2] = "mapped"
    BY DEF MappedHeadersAreEmitted
  <2>1. ValidHeaders(r0)
    BY DEF Parsed, ReplyInv, Valid, ValidRoute, r0
  <2>2. \A n \in r0.writes \ DOMAIN Propagated : n \in DOMAIN ReplyHeaders /\ ReplyHeaders[n] = "mapped"
    BY DEF ReplyHeaders
  <2>3. reply.headers = ReplyHeaders
    BY DEF ReplyInv
  <2>4. CASE h = <<"content-type", reply.type>>
    BY <2>2, <2>4 DEF ReplyInv
  <2>5. ASSUME NEW e \in r0.emits, h = <<e[2], reply.headers[e[1]]>>  PROVE h[2] = "mapped"
    <3>1. e[2] \in r0.writes /\ e[1] = e[2]
      BY <2>1, <2>5 DEF ValidHeaders
    <3> QED
      BY <2>2, <2>3, <2>5, <3>1
  <2> QED
    BY <2>4, <2>5 DEF ReplyInv
<1> QED
  BY <1>1, ParsedInvariant, ReplyInvariant, PTL

=============================================================================
