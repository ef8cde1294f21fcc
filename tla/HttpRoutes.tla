------------------------------ MODULE HttpRoutes ------------------------------
(***************************************************************************)
(* The routes of an HTTP server: their validation                          *)
(* (src/crates/http-server/src/config.rs) and, in server.rs, how a request *)
(* is matched, made into a message, and how a reply becomes the response.  *)
(* Runtime has the life of the server and of its connections; here is one  *)
(* request against one configuration.                                      *)
(*                                                                         *)
(* A path is a sequence of segments <<kind, name>> (literal, capture,      *)
(* anonymous); a query spec is [name, kind, value, capture] with None for  *)
(* no value; a header entry is <<source, target>>; a body is               *)
(* <<kind, content>>: empty, object (a function from fields), scalar       *)
(* (other JSON) or text (not JSON).                                        *)
(***************************************************************************)
EXTENDS Integers, Sequences, FiniteSets

CONSTANTS
  Servers,     \* the configurations: sequences of routes, in the order of their names
  Requests,
  Replies,     \* what an invocation or a channel may answer: see Answered
  TraceHeaders,\* PROPAGATED_HEADERS
  None

Json == "application/json"
Text == "text/plain"

ASSUME NoneIsNoType == None \notin {Json, Text}
Paths == Seq({"literal", "capture", "anonymous"} \X STRING)

ASSUME ServersAreRoutes == \A s \in Servers : \A i \in 1..Len(s) : s[i].path \in Paths

VARIABLES
  server,      \* the routes
  request,
  phase,
  route,       \* the route that matched
  message,     \* what build_message_from_request made
  reply,       \* what the target answered
  response

httpVars == <<server, request, phase, route, message, reply, response>>

-----------------------------------------------------------------------------
(* Configuration: parse_routes.                                            *)

AcceptsBody(r) == r.method \notin {"GET", "HEAD", "OPTIONS", "TRACE"}

\* The type of the body that a route expects.
TypeOf(r) == IF ~AcceptsBody(r) THEN None ELSE IF r.type = None THEN Json ELSE r.type

PathCaptures(r)  == {r.path[i][2] : i \in {j \in 1..Len(r.path) : r.path[j][1] = "capture"}}
QueryCaptures(r) == {r.query[i].name : i \in {j \in 1..Len(r.query) :
                                                r.query[j].kind # "forbidden" /\ r.query[j].capture}}

\* An entry "~key?" would have no effect.
ValidQuery(r) == \A i \in 1..Len(r.query) :
                   ~(r.query[i].kind = "optional" /\ r.query[i].value = None /\ ~r.query[i].capture)

\* Mutant: a query capture may have the name of a path capture.
ValidCaptures_Paths(r) ==
  \A i, j \in 1..Len(r.path) : r.path[i] = r.path[j] /\ r.path[i][1] = "capture" => i = j

ValidCaptures(r) ==
  /\ \A i, j \in 1..Len(r.path) : r.path[i] = r.path[j] /\ r.path[i][1] = "capture" => i = j
  /\ PathCaptures(r) \cap QueryCaptures(r) = {}

ValidType(r) ==
  /\ ~AcceptsBody(r) => r.type = None
  /\ r.type \in {None, Json, Text}
  /\ TypeOf(r) = Text => /\ r.mapping \cap {"param-mapping", "param-encoding"} = {}
                         /\ PathCaptures(r) \cup QueryCaptures(r) = {}

\* A component with a function, or a channel.
ValidTarget(r) ==
  CASE r.channel /\ ~r.component -> r.mapping = {} /\ r.writes = {}
    [] r.component /\ ~r.channel -> r.function /\ ~r.timed
    [] OTHER                     -> FALSE

\* Mutant: headers may be renamed to one that the mapping writes.
ValidHeaders_Unchecked(r) == TRUE

\* No other header is emitted as one that the result mapping writes.
ValidHeaders(r) == \A e \in r.emits : e[2] \in r.writes => e[1] = e[2]

ValidRoute(r) ==
  ValidQuery(r) /\ ValidCaptures(r) /\ ValidType(r) /\ ValidTarget(r) /\ ValidHeaders(r)

Structure(r) == [i \in 1..Len(r.path) |-> IF r.path[i][1] = "literal" THEN r.path[i] ELSE <<"capture", "">>]

\* Mutant: optional parameters with different values exclude each other, too.
Exclusive_Optional(s, t) ==
  \/ s.kind = "forbidden" /\ t.kind = "required"
  \/ s.kind = "required" /\ t.kind = "forbidden"
  \/ s.kind # "forbidden" /\ t.kind # "forbidden" /\ s.value # None /\ t.value # None /\ s.value # t.value

\* kinds_are_exclusive: no request has a parameter as both specs want it.
Exclusive(s, t) ==
  \/ s.kind = "forbidden" /\ t.kind = "required"
  \/ s.kind = "required" /\ t.kind = "forbidden"
  \/ s.kind = "required" /\ t.kind = "required" /\ s.value # None /\ t.value # None /\ s.value # t.value

\* query_specs_disjoint: of several specs of a name, the map has the last.
Disjoint(q, p) ==
  \E i \in 1..Len(q), j \in 1..Len(p) :
    /\ q[i].name = p[j].name /\ \A k \in (i+1)..Len(q) : q[k].name # q[i].name
    /\ Exclusive(q[i], p[j])

Conflict(r, s) ==
  /\ r.method = s.method /\ Structure(r) = Structure(s) /\ TypeOf(r) = TypeOf(s)
  /\ ~Disjoint(r.query, s.query)

Valid(routes) ==
  /\ \A i \in 1..Len(routes) : ValidRoute(routes[i])
  /\ \A i, j \in 1..Len(routes) : i < j => ~Conflict(routes[i], routes[j])

HttpInit ==
  /\ server \in Servers
  /\ request \in Requests
  /\ phase = "parse"
  /\ route = 0
  /\ message = None /\ reply = None /\ response = None

ParseRoutes ==
  /\ phase = "parse"
  /\ phase' = IF Valid(server) THEN "start" ELSE "rejected"
  /\ UNCHANGED <<server, request, route, message, reply, response>>

\* HttpServer::new compiles the routes: each finds its component and function, derives
\* the schemas, aligns a declared one with the derived one, and makes the mapper.
StartServer ==
  /\ phase = "start"
  /\ phase' = IF \A i \in 1..Len(server) : server[i].component => server[i].resolves
              THEN "listen" ELSE "rejected"
  /\ UNCHANGED <<server, request, route, message, reply, response>>

-----------------------------------------------------------------------------
(* Matching.                                                               *)

\* apply_query_spec: whether a request satisfies a query spec.
Satisfied(spec, query) ==
  IF spec.name \in DOMAIN query
  THEN spec.kind # "forbidden" /\ spec.value \in {None, query[spec.name]}
  ELSE spec.kind # "required"

Matching(r, req) ==
  /\ r.method = req.method
  /\ Len(r.path) = Len(req.path)
  /\ \A i \in 1..Len(r.path) : r.path[i][1] = "literal" => r.path[i][2] = req.path[i]
  /\ \A i \in 1..Len(r.query) : Satisfied(r.query[i], req.query)

\* The captures of a request, those of the path over those of the query.
Captures(r, req) ==
  [n \in PathCaptures(r) \cup (QueryCaptures(r) \cap DOMAIN req.query) |->
     IF n \in PathCaptures(r)
     THEN req.path[CHOOSE i \in 1..Len(r.path) :
                     r.path[i] = <<"capture", n>> /\ \A j \in (i+1)..Len(r.path) : r.path[j] # r.path[i]]
     ELSE req.query[n]]

Respond(status, headers, body) ==
  /\ response' = [status |-> status, headers |-> headers, body |-> body]
  /\ phase' = "answered"

\* The first route that matches has the request.
MatchRoute ==
  /\ phase = "listen"
  /\ \E i \in 1..Len(server) :
       /\ Matching(server[i], request)
       /\ \A j \in 1..(i-1) : ~Matching(server[j], request)
       /\ route' = i /\ phase' = "build"
  /\ UNCHANGED <<server, request, message, reply, response>>

NotFound ==
  /\ phase = "listen"
  /\ \A i \in 1..Len(server) : ~Matching(server[i], request)
  /\ Respond(404, {}, None)
  /\ UNCHANGED <<server, request, route, message, reply>>

-----------------------------------------------------------------------------
(* build_message_from_request.                                             *)

r0 == server[route]

WrongType == TypeOf(r0) # None /\ request.type \notin {None, TypeOf(r0)}
BodyIgnored == TypeOf(r0) = None \/ request.body[1] = "empty"

\* The body cannot be parsed, or not take the captures.
BadBody ==
  LET captures == DOMAIN Captures(r0, request)
  IN /\ ~BodyIgnored
     /\ \/ TypeOf(r0) = Json /\ request.body[1] = "text"
        \/ TypeOf(r0) = Json /\ captures # {} /\ request.body[1] # "object"
        \/ TypeOf(r0) = Json /\ request.body[1] = "object" /\ captures \cap DOMAIN request.body[2] # {}
        \/ TypeOf(r0) = Text /\ captures # {}

Merged(fields, captures) ==
  [n \in DOMAIN fields \cup DOMAIN captures |->
     IF n \in DOMAIN captures THEN captures[n] ELSE fields[n]]

MessageBody ==
  LET captures == Captures(r0, request)
  IN CASE BodyIgnored -> IF captures = <<>> THEN <<"empty", None>> ELSE <<"object", captures>>
       [] ~BodyIgnored /\ TypeOf(r0) = Text -> <<"text", request.body>>
       [] ~BodyIgnored /\ TypeOf(r0) = Json ->
            IF captures = <<>> THEN request.body ELSE <<"object", Merged(request.body[2], captures)>>

\* The schema derived from the parameters of a component: an object with the fields
\* that the call needs, and no others than it takes; no body counts as an object.
Conforms(body) ==
  r0.component =>
    /\ body[1] \in {"object", "empty"}
    /\ LET fields == IF body[1] = "object" THEN DOMAIN body[2] ELSE {}
       IN r0.needs \subseteq fields /\ fields \subseteq r0.takes

\* Declared headers first; then those of the trace, which win.
MessageHeaders ==
  LET from(t)  == {e[1] : e \in {f \in r0.lifts : f[2] = t /\ f[1] \in DOMAIN request.headers}}
      traced   == TraceHeaders \cap DOMAIN request.headers
      lifted   == {e[2] : e \in {f \in r0.lifts : f[1] \in DOMAIN request.headers}}
  IN [h \in lifted \cup traced |->
        IF h \in traced THEN request.headers[h] ELSE request.headers[CHOOSE s \in from(h) : TRUE]]

RefuseRequest ==
  /\ phase = "build"
  /\ \/ WrongType /\ Respond(415, {}, None)
     \/ ~WrongType /\ BadBody /\ Respond(400, {}, None)
     \/ ~WrongType /\ ~BadBody /\ ~Conforms(MessageBody) /\ Respond(400, {}, None)
  /\ UNCHANGED <<server, request, route, message, reply>>

BuildMessage ==
  /\ phase = "build"
  /\ ~WrongType /\ ~BadBody /\ Conforms(MessageBody)
  /\ message' = [body |-> MessageBody, type |-> IF TypeOf(r0) = None THEN Json ELSE TypeOf(r0),
                 headers |-> MessageHeaders]
  /\ phase' = "call"
  /\ UNCHANGED <<server, request, route, reply, response>>

-----------------------------------------------------------------------------
(* The target, and its reply.                                              *)

\* invoke_component: the trace goes along with the call; one is begun when
\* the request has none, or by the host's span.
Propagated ==
  LET sent == TraceHeaders \cap DOMAIN message.headers
  IN [h \in sent \cup {"traceparent"} |->
        IF h = "traceparent" /\ (r0.spans \/ h \notin sent) THEN "new" ELSE message.headers[h]]

\* from_invocation_result: mapped headers, then those that are propagated.
ReplyHeaders ==
  [h \in r0.writes \cup DOMAIN Propagated |-> IF h \in DOMAIN Propagated THEN Propagated[h] ELSE "mapped"]

\* A component's result becomes a message, JSON unless the mapping writes another
\* type; a channel's reply is one.
Answered(a) ==
  IF r0.component
  THEN [type |-> IF "content-type" \in DOMAIN ReplyHeaders THEN ReplyHeaders["content-type"] ELSE Json,
        headers |-> ReplyHeaders, conforms |-> a.conforms]
  ELSE [type |-> a.type, headers |-> a.headers, conforms |-> a.conforms]

CallFails ==
  /\ phase = "call"
  /\ \/ r0.component /\ \E status \in {400, 500} : Respond(status, {}, None)
     \/ ~r0.component /\ Respond(500, {}, None)
     \/ ~r0.component /\ r0.timed /\ Respond(504, {}, None)
  /\ UNCHANGED <<server, request, route, message, reply>>

Accept ==
  /\ phase = "call"
  /\ ~r0.component /\ ~r0.timed
  /\ Respond(202, {}, None)
  /\ UNCHANGED <<server, request, route, message, reply>>

CallReturns ==
  /\ phase = "call"
  /\ r0.component \/ r0.timed
  /\ \E a \in Replies : reply' = Answered(a)
  /\ phase' = "reply"
  /\ UNCHANGED <<server, request, route, message, response>>

\* build_http_response_from_message: a schema applies to JSON only; its coercion
\* and validation fail for what does not conform.
BuildResponse ==
  /\ phase = "reply"
  /\ IF r0.schema /\ reply.type = Json /\ ~reply.conforms
     THEN Respond(500, {}, None)
     ELSE Respond(200,
                  {<<"content-type", reply.type>>} \cup
                    {<<e[2], reply.headers[e[1]]>> : e \in {f \in r0.emits : f[1] \in DOMAIN reply.headers}},
                  reply.conforms)
  /\ UNCHANGED <<server, request, route, message, reply>>

HttpNext ==
  \/ ParseRoutes \/ StartServer \/ MatchRoute \/ NotFound \/ RefuseRequest \/ BuildMessage
  \/ CallFails \/ Accept \/ CallReturns \/ BuildResponse

HttpSpec == HttpInit /\ [][HttpNext]_httpVars

-----------------------------------------------------------------------------
(* Properties.                                                             *)

\* Every message carries all of its request (server.rs:655 "merging path + query
\* captures into the parsed body"): each value that the path or the query was to
\* capture, under its name, and the body; what cannot be carried is refused.
RequestIsCarried ==
  message # None =>
    /\ \A i \in 1..Len(r0.path) :
         r0.path[i][1] = "capture" =>
           message.body[1] = "object" /\ message.body[2][r0.path[i][2]] = request.path[i]
    /\ \A n \in QueryCaptures(r0) \cap DOMAIN request.query :
         message.body[1] = "object" /\ message.body[2][n] = request.query[n]
    /\ AcceptsBody(r0) /\ request.body[1] # "empty" =>
         IF message.type = Text THEN message.body = <<"text", request.body>>
         ELSE IF request.body[1] # "object" THEN message.body = request.body
         ELSE \A n \in DOMAIN request.body[2] : message.body[2][n] = request.body[2][n]

\* Routes that are accepted together and have a structure and a type in common
\* never match the same request (config.rs:529, "make them mutually exclusive"), so
\* that the order of their names does not matter.
AcceptedRoutesAreExclusive ==
  \A i, j \in 1..Len(server) :
    /\ i < j /\ phase = "listen"
    /\ Structure(server[i]) = Structure(server[j]) /\ TypeOf(server[i]) = TypeOf(server[j])
    => ~(Matching(server[i], request) /\ Matching(server[j], request))

\* A response header that the result mapping writes has the mapped value and no
\* other, unless the trace has it (config.rs:363, "would be silently overridden").
MappedHeadersAreEmitted ==
  phase = "answered" /\ reply # None /\ r0.component =>
    \A h \in response.headers :
      h[1] \in r0.writes \ DOMAIN Propagated => h[2] = "mapped"

\* The README of the server, on text/plain: "passed through as raw text, no captures
\* or JSON mapping/encoding config for request to params".  A text/plain route, which
\* has no captures, builds the message of every text that it gets.
PlainTextIsPassedThrough ==
  /\ phase = "answered" /\ route # 0 /\ message = None
  /\ TypeOf(r0) = Text /\ request.type = Text /\ request.body[1] = "text"
  => response.status # 400

=============================================================================
