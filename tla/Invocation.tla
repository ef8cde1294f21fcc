------------------------------ MODULE Invocation ------------------------------
(***************************************************************************)
(* The invocation of a component's function by a message: of an HTTP route *)
(* (src/crates/http-server/src/server.rs), which validates against the     *)
(* schemas derived from the function and the configuration, or of a        *)
(* subscription (src/src/messaging/activator.rs), which has none.          *)
(*                                                                         *)
(* The component is external: it returns any of Results. So is the message *)
(* of a request, as build_message_from_request makes it.                   *)
(***************************************************************************)
EXTENDS Mapping

CONSTANTS
  Setups,      \* [http, function, config, declared], declared being a response schema or None
  Messages(_), \* the messages to a setup
  Results(_),  \* what a function may return
  Says(_, _),  \* whether a value says what a JSON says: see SaysBody
  Presentable(_), \* whether the values of a type fit its schema: see PresentableBody
  Whole(_, _)  \* whether the numbers of a JSON are integers of 64 bits for a type: see WholeBody

VARIABLES
  setup,
  phase,     \* configure, serve, map, call, run, reply, answered, or how it failed:
             \* rejected, invalid, unmapped, unconverted, errored, unanswered
  schemas,   \* [input, output] of a route
  message,
  args,      \* <<"args", JSON values>>
  given,     \* <<"args", component values>>
  result,    \* what the component returned, as JSON
  reply

invVars == <<setup, phase, schemas, message, args, given, result, reply>>

f0 == setup.function
c0 == setup.config

InvInit ==
  /\ setup \in Setups
  /\ phase = "configure"
  /\ schemas = None /\ message = None /\ args = None /\ given = None /\ result = None /\ reply = None

-----------------------------------------------------------------------------
(* Route::from_config, Activator::new.                                     *)

Orders == IF c0.mapping = None THEN {<<>>} ELSE SetToSeqs(DOMAIN c0.mapping \cap Names(f0))

\* The effective output schema is the declared one, when it aligns with the derived.
EffectiveOutput ==
  LET derived == OutputSchema(f0, c0)
  IN IF derived = Error THEN Error
     ELSE IF setup.declared = None THEN derived
     ELSE IF derived = None THEN setup.declared
     ELSE IF Align(setup.declared, derived) THEN setup.declared ELSE Error

Configure ==
  /\ phase = "configure"
  /\ \E order \in Orders :
       LET input == IF setup.http THEN InputSchema(f0, c0, order) ELSE None
           output == IF setup.http THEN EffectiveOutput ELSE None
       IN IF input # Error /\ output # Error /\ ValidMapper(f0, c0)
          THEN phase' = "serve" /\ schemas' = [input |-> input, output |-> output]
          ELSE phase' = "rejected" /\ schemas' = schemas
  /\ UNCHANGED <<setup, message, args, given, result, reply>>

-----------------------------------------------------------------------------
(* A message.                                                              *)

\* An empty body counts as an object without fields. The content type may have parameters.
JsonUtf8 == "application/json; charset=utf-8"
BodyToValidate(m) ==
  IF m.body = None THEN Obj(NoFields) ELSE IF m.type = JsonUtf8 THEN Parsed(m.body) ELSE ParseBody(m)

Conforming(m) == Accepts(schemas.input, BodyToValidate(m))

Receive ==
  /\ phase = "serve"
  /\ \E m \in Messages(setup) :
       /\ message' = m
       /\ phase' = IF setup.http /\ ~Conforming(m) THEN "invalid" ELSE "map"
  /\ UNCHANGED <<setup, schemas, args, given, result, reply>>

Map ==
  /\ phase = "map"
  /\ LET a == ToInvocation(f0, c0, message)
     IN IF a = Error THEN phase' = "unmapped" /\ args' = args
        ELSE phase' = "call" /\ args' = a
  /\ UNCHANGED <<setup, schemas, message, given, result, reply>>

\* The call converts the arguments before the function runs.
Call ==
  /\ phase = "call"
  /\ LET g == Arguments(args[2], [i \in 1..Len(f0.params) |-> f0.params[i].type])
     IN IF g = Error THEN phase' = "unconverted" /\ given' = given
        ELSE phase' = "run" /\ given' = g
  /\ UNCHANGED <<setup, schemas, message, args, result, reply>>

Return ==
  /\ phase = "run"
  /\ \E v \in Results(f0) :
       LET j == ConvertResult(v)
       IN IF j = Error THEN phase' = "errored" /\ result' = result
          ELSE phase' = "reply" /\ result' = j
  /\ UNCHANGED <<setup, schemas, message, args, given, reply>>

-----------------------------------------------------------------------------
(* The reply.                                                              *)

\* A route has a traceparent from its request, or makes one.
Traced(headers) ==
  [h \in {"traceparent"} |-> IF h \in DOMAIN headers THEN headers[h] ELSE "fresh"]

\* The activator echoes the content type and the correlation of its message.
Echoed(headers) ==
  [h \in DOMAIN headers \cap {"traceparent", "correlation-id"} |-> headers[h]]

Reply ==
  IF setup.http THEN FromResult(c0, result, None, Traced(message.headers))
  ELSE FromResult(c0, result, message.type, Echoed(message.headers))

\* A mapped header may give the reply another content type.
IsJson(r) ==
  "content-type" \in DOMAIN r[2].headers => r[2].headers["content-type"] = <<"raw", Json>>

\* build_http_response_from_message: a reply of JSON is coerced, then validated.
Response(r) ==
  IF schemas.output = None \/ ~IsJson(r) THEN r
  ELSE LET j == Coerce(IF r[2].body = None THEN Null ELSE Parsed(r[2].body), schemas.output)
       IN IF Accepts(schemas.output, j) THEN [r EXCEPT ![2].body = <<"json", j>>] ELSE Error

\* A message of a subscription is answered when it says where.
Answer ==
  /\ phase = "reply"
  /\ LET r == Reply
         answer == IF ~setup.http /\ "reply-to" \notin DOMAIN message.headers THEN None
                   ELSE IF r = Error \/ ~setup.http THEN r ELSE Response(r)
     IN IF answer = Error THEN phase' = "unanswered" /\ reply' = reply
        ELSE phase' = "answered" /\ reply' = answer
  /\ UNCHANGED <<setup, schemas, message, args, given, result>>

InvNext == Configure \/ Receive \/ Map \/ Call \/ Return \/ Answer

InvSpec == InvInit /\ [][InvNext]_invVars

-----------------------------------------------------------------------------
(* Properties.                                                             *)

\* What the input schema says nothing of: headers that the templates refer to, and
\* the content type that an argument names.
MissingHeader ==
  c0.mapping # None /\
  \E n \in DOMAIN c0.mapping : \E r \in CollectRefs(c0.mapping[n]) :
    r[1] = <<"key", "headers">> /\ r[2][2] \notin DOMAIN message.headers

RuntimeTypeFails(n) ==
  /\ c0.encoding[n][1] = "path"
  /\ LET sent == ArgsAsValue(f0, Assemble(f0, c0, message))
         ct == ContentType(c0.encoding[n], sent)
     IN ~Supported(ct) \/ Encode(Field(sent, n), ct) = Error

\* What the schema accepts and the mapper takes for something else: a content type with
\* parameters, text that is empty; for one parameter an object without its name, and no body
\* at all for several.
Misread ==
  \/ message.type # Json
  \/ c0.mapping = None /\
       IF Len(f0.params) # 1 THEN message.body = None
       ELSE message.body # None /\ Parsed(message.body) = Obj(NoFields)

\* The schemas of integers are of type "number": they accept numbers with a fraction, and
\* those of u64 and s64 what is beyond 64 bits, none of which is converted. A JSON without
\* such numbers, for the integer types within a type.
WholeBody(j, T) ==
  /\ j[1] # "frac"
  /\ j[1] = "num" /\ T[1] = "int" => j[2] \in MinS64..(IF Unsigned(T) THEN MaxU64 ELSE MaxS64)
  /\ j[1] \in {"arr", "obj"} => \A i \in DOMAIN j[2] : Whole(j[2][i], T)
  /\ \A U \in PartsOf(T) : Whole(j, U)

\* A request that the derived schema accepts is mapped, and its arguments have the
\* types of the function (schema.rs:184 "describe what the consumer must send"): the
\* schema, the templates, the encoding and the conversion agree, but on the numbers that
\* are no integers of 64 bits.
ConformingRequestIsInvoked ==
  setup.http /\ phase \in {"unmapped", "unconverted"} =>
    \/ Misread \/ MissingHeader
    \/ phase = "unmapped" /\ \E n \in DOMAIN c0.encoding : RuntimeTypeFails(n)
    \/ phase = "unconverted" /\ \E i \in 1..Len(f0.params) :
         ~IsInvokable(f0.params[i].type) \/ ~Whole(args[2][i], f0.params[i].type)

\* Whether a component value says what a JSON says that its type's schema accepts. A field
\* that is absent says the same as null.
SaysParts(v, j) == j[1] = "arr" /\ Len(j[2]) = Len(v[2]) /\ \A i \in 1..Len(v[2]) : Says(v[2][i], j[2][i])
SaysPayload(p, j) == IF p = <<>> THEN j \in {Error, Null} ELSE j # Error /\ Says(p[1], j)

SaysBody(v, j) ==
  CASE v[1] \in {"bool", "str", "bytes"} -> j = v
    [] v[1] = "int" -> j = <<"num", v[2]>>
    [] v[1] \in {"enum", "flags"} -> j = v[2]
    [] v[1] = "none" -> j = Null
    [] v[1] = "some" -> j # Null /\ Says(v[2], j)
    [] v[1] \in {"list", "tuple"} -> SaysParts(v, j)
    [] v[1] = "pairs" ->
         j[1] = "arr" /\ Len(j[2]) = Len(v[2]) /\ \A i \in 1..Len(v[2]) : SaysParts(v[2][i], j[2][i])
    [] v[1] = "record" ->
         /\ j[1] = "obj" /\ DOMAIN j[2] \subseteq DOMAIN v[2]
         /\ \A f \in DOMAIN v[2] : IF f \in DOMAIN j[2] THEN Says(v[2][f], j[2][f]) ELSE v[2][f][1] = "none"
    [] v[1] = "map" -> j[1] = "obj" /\ DOMAIN j[2] = DOMAIN v[2] /\ \A k \in DOMAIN v[2] : Says(v[2][k], j[2][k])
    [] v[1] = "case" -> Field(j, "type") = Str(v[2]) /\ SaysPayload(v[3], Field(j, "value"))
    [] v[1] = "ok"  -> Field(j, "ok") # Error /\ SaysPayload(v[2], Field(j, "ok"))
    [] v[1] = "err" -> Field(j, "error") # Error /\ SaysPayload(v[2], Field(j, "error"))

\* Where the body has the value of a parameter: under its name, or where its template
\* refers to; <<>> for nowhere.
Position(n) ==
  IF c0.mapping = None THEN <<<<"key", n>>>>
  ELSE IF n \notin DOMAIN c0.mapping THEN <<<<"key", n>>>>
  ELSE LET t == c0.mapping[n] IN IF t[1] = "ref" /\ UnderBody(t[2]) THEN Tail(t[2]) ELSE <<>>

Sent(n) ==
  IF message.body = None THEN Error
  ELSE IF c0.mapping = None THEN Field(Parsed(message.body), n)
  ELSE Walk(Parsed(message.body), Position(n))

\* What the component gets are values of its types that say what the consumer of a route
\* sent: nothing is cut, mixed up or lost on the way through templates, encodings and
\* conversions, what is encoded decodes to what was sent, and an argument that was not
\* sent is none.
ArgumentsCarryTheRequest ==
  setup.http /\ phase \in {"run", "errored", "reply", "answered", "unanswered"} =>
    \A i \in 1..Len(f0.params) :
      LET n == f0.params[i].name
          v == given[2][i]
      IN /\ HasType(v, f0.params[i].type)
         /\ Position(n) # <<>> /\ Sent(n) # Error =>
              IF n \in DOMAIN c0.encoding
              THEN Decode(v, ContentType(c0.encoding[n], ArgsAsValue(f0, Assemble(f0, c0, message)))) = Sent(n)
              ELSE Says(v, Sent(n))
         /\ c0.mapping = None /\ Sent(n) = Error /\ ~Misread => v = <<"none">>

\* A type whose values fit its schema. Not: an option in an option; a payload that is written
\* as an object, among the fields of its variant; a list of pairs, which is an object when empty.
WritesObject(T) == T[1] \in {"record", "map", "variant", "result"}
PresentableBody(T) ==
  /\ T[1] # "resource"
  /\ T[1] = "option" => ~IsOptional(T[2])
  /\ T[1] = "map" => T[2][1] = "string"
  /\ T[1] = "variant" => \A U \in PartsOf(T) : ~WritesObject(U) /\ ~(IsOptional(U) /\ WritesObject(U[2]))
  /\ \A U \in PartsOf(T) : Presentable(U)

\* A result of a component that is no error is answered: mapping, decoding, coercion
\* and the schema that a route advertises agree, but for values that do not fit their own
\* schema and for what only the result decides: headers that are no object, a content
\* type that it names, bytes that are not the JSON they are decoded as, a reference of a
\* body to what nothing checks for a subscription, what the schema of a route has without its
\* null or its ok, and fields that are decoded within an option or a result, which the schema
\* has as bytes still.
NotAsAdvertised(j) == j = Null \/ Field(j, "ok") # Error \/ Field(j, "error") # Error

AdvertisedAsBytes ==
  LET s == JsonSchema(f0.result)
  IN DOMAIN c0.decoding # {} /\ (IF c0.result = None THEN UnwrapOneOf(s) ELSE s)[1] # "object"

ResultsAreAnswered ==
  LET source == ApplyResultDecoding(c0, result)
  IN phase = "unanswered" =>
    \/ setup.http /\ f0.result # Unit /\ (IsOptional(f0.result) \/ ~Presentable(f0.result) \/ AdvertisedAsBytes)
    \/ c0.result # None /\ c0.result.headers # None /\ Substitute(c0.result.headers, source)[1] # "obj"
    \/ c0.result # None /\ c0.result.body # None /\
         IF setup.http
         THEN \E p \in CollectRefs(c0.result.body) : \E k \in 0..Len(p) : NotAsAdvertised(Walk(source, SubSeq(p, 1, k)))
         ELSE Substitute(c0.result.body, source) = Error
    \/ \E n \in DOMAIN c0.decoding :
         c0.decoding[n][1] = "path" \/ Decode(Field(result, n), Str(c0.decoding[n][2])) = Error

\* schema.rs:343, on a result without a mapping: "the advertised schema must describe
\* the unwrapped ok/some value to match the reply body".  Then no reply fails by it.
ReplyMatchesTheSchema ==
  setup.http /\ setup.declared = None /\ c0.result = None /\ c0.decoding = <<>> => phase # "unanswered"

-----------------------------------------------------------------------------
\* The parameters of a function have distinct names; a content type is given or is elsewhere;
\* messages and results are data.
IsSpec(spec) == spec = <<spec[1], spec[2]>> /\ spec[1] \in {"literal", "path"}

IsFunction(f) ==
  /\ f.result \in Types \cup {Unit}
  /\ f.params \in Seq([name : Names(f), type : Types])
  /\ \A i, k \in 1..Len(f.params) : f.params[i].name = f.params[k].name => i = k
  /\ \A v \in Results(f) : IF f.result = Unit THEN v = Unit ELSE v \in Vals /\ HasType(v, f.result)

ASSUME InvocationAssumption ==
  /\ \A T \in Types, j \in Jsons : Whole(j, T) = WholeBody(j, T)
  /\ \A v \in Vals, j \in Jsons : Says(v, j) = SaysBody(v, j)
  /\ \A T \in Types : Presentable(T) = PresentableBody(T)
  /\ None # JsonUtf8 /\ \A j \in Jsons : <<"json", j>> # None
  /\ \A s \in Setups :
       /\ IsFunction(s.function)
       /\ \A n \in DOMAIN s.config.encoding : IsSpec(s.config.encoding[n])
       /\ \A n \in DOMAIN s.config.decoding : IsSpec(s.config.decoding[n])
       /\ s.http /\ s.config.mapping = None =>
            /\ InputSchema(s.function, s.config, <<>>) \in Schemas
            /\ \A m \in Messages(s) : {BodyToValidate(m), ParseBody(m)} \subseteq Jsons \cup {Error}
       /\ s.config.result = None =>
            /\ s.http /\ s.function.result # Unit => OutputSchema(s.function, s.config) \in Schemas
            /\ \A v \in Results(s.function) : ConvertResult(v) # Error =>
                 ApplyResultDecoding(s.config, ConvertResult(v)) \in Jsons \cup {Error}

=============================================================================
