------------------------------- MODULE Mapping -------------------------------
(***************************************************************************)
(* The mapper between messages and the calls of one function, and the      *)
(* schemas derived from its configuration (src/src/mapping.rs,             *)
(* src/src/schema.rs).                                                     *)
(*                                                                         *)
(* A function is [params |-> <<[name, type], ...>>, result], with Unit for *)
(* no result. Its configuration is [mapping, encoding, decoding, result]:  *)
(* mapping and result are None or templates (of the parameters; of the     *)
(* body and the headers), encoding and decoding give content types,        *)
(* <<"literal", type>> or <<"path", path>>, to parameters and fields.      *)
(*                                                                         *)
(* A template is JSON whose strings are <<"ref", path, default>>, for      *)
(* "{path | default}" alone, or <<"text", parts>>, for a text around such  *)
(* references; default is <<>> or <<JSON>>. A path is a sequence of        *)
(* <<"key", k>> and <<"index", n>>.                                        *)
(***************************************************************************)
EXTENDS Conversion

CONSTANTS
  Templates,  \* with their parts
  CollectRefs(_), Substitute(_, _), TemplateSchema(_, _), Align(_, _), Coerce(_, _),
  None

Json  == "application/json"
Plain == "text/plain"
Supported(ct) == ct \in {Str(Json), Str(Plain)}

Names(f) == {f.params[i].name : i \in 1..Len(f.params)}
TypeOf(f, n) == LET i == CHOOSE i \in 1..Len(f.params) : f.params[i].name = n IN f.params[i].type

-----------------------------------------------------------------------------
(* Templates.                                                              *)

Follow(j, seg) ==
  IF seg[1] = "key" THEN Field(j, seg[2])
  ELSE IF j[1] = "arr" /\ seg[2] < Len(j[2]) THEN j[2][seg[2] + 1] ELSE Error

Walk(j, path) == FoldLeft(LAMBDA v, seg : IF v = Error THEN Error ELSE Follow(v, seg), j, path)

Resolve(ref, source) ==
  LET v == Walk(source, ref[2])
  IN IF v # Error THEN v ELSE IF ref[3] = <<>> THEN Error ELSE ref[3][1]

NoText == <<"raw", "">>

RenderScalar(j) ==
  CASE j[1] = "str" -> Text(j)
    [] j[1] = "null" -> NoText
    [] j = Error -> Error
    [] OTHER -> <<"json", j>>

SubstituteString(parts, source) ==
  LET texts == All("cat", [i \in 1..Len(parts) |->
                 IF parts[i][1] = "ref" THEN RenderScalar(Resolve(parts[i], source)) ELSE parts[i]])
  IN IF texts = Error THEN Error ELSE <<"str", texts>>

\* A reference alone keeps the type of what it refers to; in a text it is rendered.
SubstituteBody(t, source) ==
  CASE t[1] = "ref" -> Resolve(t, source)
    [] t[1] = "text" -> SubstituteString(t[2], source)
    [] t[1] \in {"arr", "obj"} -> All(t[1], [i \in DOMAIN t[2] |-> Substitute(t[2][i], source)])
    [] OTHER -> t

-----------------------------------------------------------------------------
(* to_invocation.                                                          *)

ParseBody(m) ==
  CASE m.type \in {None, Json} -> IF m.body = None THEN Null ELSE Parsed(m.body)
    [] m.type = Plain -> <<"str", IF m.body = None THEN NoText ELSE m.body>>
    [] OTHER -> Error

HeadersAsValue(m) == Obj([h \in DOMAIN m.headers |-> Str(m.headers[h])])

\* One parameter takes the whole body, unless the body has a field of its name.
NormalizeBody(f, c, body) ==
  IF c.mapping # None \/ (Len(f.params) # 1 /\ body[1] = "obj") THEN body
  ELSE IF Len(f.params) # 1 THEN Error
  ELSE LET name == f.params[1].name
       IN IF Field(body, name) # Error THEN body ELSE Obj([n \in {name} |-> body])

NameMatch(p, body) ==
  IF Field(body, p.name) # Error THEN Field(body, p.name)
  ELSE IF IsOptional(p.type) THEN Null ELSE Error

Assemble(f, c, m) ==
  LET body   == ParseBody(m)
      source == Obj([n \in {"body", "headers"} |-> IF n = "body" THEN body ELSE HeadersAsValue(m)])
      named  == NormalizeBody(f, c, body)
      mapped == IF c.mapping = None THEN {} ELSE DOMAIN c.mapping
  IN IF body = Error THEN Error ELSE IF named = Error THEN Error
     ELSE All("args", [i \in 1..Len(f.params) |->
            LET p == f.params[i]
            IN IF p.name \in mapped THEN Substitute(c.mapping[p.name], source) ELSE NameMatch(p, named)])

ContentType(spec, source) == IF spec[1] = "literal" THEN Str(spec[2]) ELSE Walk(source, spec[2])

\* Mutant: a string is taken for its own JSON.
Encode_Raw(j, ct) ==
  IF j[1] = "str" THEN <<"bytes", Text(j)>> ELSE IF ct = Str(Json) THEN <<"bytes", <<"json", j>>>> ELSE Error

Encode(j, ct) ==
  IF ct = Str(Json) THEN <<"bytes", <<"json", j>>>>
  ELSE IF j[1] = "str" THEN <<"bytes", Text(j)>> ELSE Error

ArgsAsValue(f, args) ==
  Obj([n \in Names(f) |-> LET i == CHOOSE i \in 1..Len(f.params) : f.params[i].name = n IN args[2][i]])

\* Mutant: a content type is read from arguments of which some are encoded.
ApplyParamEncoding_InTurn(f, c, args) ==
  LET literal == {n \in DOMAIN c.encoding : c.encoding[n][1] = "literal"}
      first == <<"args", [i \in 1..Len(args[2]) |->
                 LET n == f.params[i].name
                 IN IF n \in literal THEN Encode(args[2][i], Str(c.encoding[n][2])) ELSE args[2][i]]>>
      types == [n \in DOMAIN c.encoding |-> ContentType(c.encoding[n], ArgsAsValue(f, first))]
  IN IF \E n \in DOMAIN types : ~Supported(types[n]) THEN Error
     ELSE All("args", [i \in 1..Len(args[2]) |->
            LET n == f.params[i].name
            IN IF n \in DOMAIN types \ literal THEN Encode(args[2][i], types[n]) ELSE first[2][i]])

\* Every content type comes from the arguments as they are before any is encoded.
ApplyParamEncoding(f, c, args) ==
  LET types == [n \in DOMAIN c.encoding |-> ContentType(c.encoding[n], ArgsAsValue(f, args))]
  IN IF \E n \in DOMAIN types : ~Supported(types[n]) THEN Error
     ELSE All("args", [i \in 1..Len(args[2]) |->
            LET n == f.params[i].name
            IN IF n \in DOMAIN types THEN Encode(args[2][i], types[n]) ELSE args[2][i]])

\* What is to be a string becomes one; a null is an absent optional argument.
Stringify(j, T) ==
  IF T[1] \in {"string", "enum"} /\ j[1] \notin {"str", "null"} THEN <<"str", <<"json", j>>>> ELSE j

ToInvocation(f, c, m) ==
  IF f.params = <<>> THEN <<"args", <<>>>>
  ELSE LET args    == Assemble(f, c, m)
           encoded == IF args = Error THEN Error ELSE ApplyParamEncoding(f, c, args)
       IN IF encoded = Error THEN Error
          ELSE <<"args", [i \in 1..Len(f.params) |-> Stringify(encoded[2][i], f.params[i].type)]>>

-----------------------------------------------------------------------------
(* from_invocation_result.                                                 *)

Decode(b, ct) ==
  IF b[1] # "bytes" THEN Error ELSE IF ct = Str(Json) THEN Parsed(b[2]) ELSE <<"str", b[2]>>

ApplyResultDecoding(c, j) ==
  LET types == [n \in DOMAIN c.decoding |-> ContentType(c.decoding[n], j)]
  IN IF DOMAIN types = {} THEN j
     ELSE IF (\E n \in DOMAIN types : ~Supported(types[n])) \/ j[1] # "obj" THEN Error
     ELSE All("obj", [n \in DOMAIN types \cup DOMAIN j[2] |->
            IF n \in DOMAIN types THEN Decode(Field(j, n), types[n]) ELSE j[2][n]])

SerializeBody(j, ct) == IF ct = Plain /\ j[1] = "str" THEN Text(j) ELSE <<"json", j>>

\* Mapped headers first; those that are propagated win.
ReplyHeaders(mapped, propagated) ==
  [h \in DOMAIN mapped \cup DOMAIN propagated |->
     IF h \in DOMAIN propagated THEN <<"raw", propagated[h]>>
     ELSE IF mapped[h][1] = "str" THEN Text(mapped[h]) ELSE <<"json", mapped[h]>>]

\* ct is None for no content type. A body template that is null, empty or absent
\* (None) makes no body.
FromResult(c, j, ct, propagated) ==
  LET source == ApplyResultDecoding(c, j)
      type   == IF ct = None THEN Json ELSE ct
      body   == IF source = Error THEN Error ELSE IF c.result = None THEN source
                ELSE IF c.result.body = None THEN Unit ELSE Substitute(c.result.body, source)
      mapped == IF source = Error THEN Error ELSE IF c.result = None THEN Obj(NoFields)
                ELSE IF c.result.headers = None THEN Obj(NoFields) ELSE Substitute(c.result.headers, source)
  IN IF body = Error \/ mapped[1] # "obj" THEN Error
     ELSE <<"reply", [body    |-> IF body = Unit THEN None ELSE SerializeBody(body, type),
                      type    |-> type,
                      headers |-> ReplyHeaders(mapped[2], propagated)]>>

-----------------------------------------------------------------------------
(* Derived schemas.                                                        *)

AnyNumber   == <<"number", {}, {}>>
EmptyObject == <<"object", NoFields, {}>>

\* The value within a result or an option.
UnwrapOneOf(s) ==
  IF s[1] # "oneOf" THEN s
  ELSE IF Len(s[2]) # 2 THEN s
  ELSE LET arms == {s[2][1], s[2][2]}
           named(n) == {a \in arms : a[1] = "object" /\ DOMAIN a[2] = {n}}
       IN IF Null \in arms THEN CHOOSE a \in arms : a # Null
          ELSE IF named("ok") # {} /\ named("error") # {} THEN (CHOOSE a \in named("ok") : TRUE)[2]["ok"]
          ELSE s

SchemaAt(s, seg) ==
  LET u == UnwrapOneOf(s)
  IN CASE seg[1] = "key" /\ u[1] = "object" -> IF seg[2] \in DOMAIN u[2] THEN u[2][seg[2]] ELSE Error
       [] seg[1] = "index" /\ u[1] = "tuple" -> IF seg[2] < Len(u[2]) THEN u[2][seg[2] + 1] ELSE Error
       [] seg[1] = "index" /\ u[1] \in {"array", "set"} -> u[2]
       [] OTHER -> Error

ResolvePath(s, path) ==
  LET r == FoldLeft(LAMBDA v, seg : IF v = Error THEN Error ELSE SchemaAt(v, seg), UnwrapOneOf(s), path)
  IN UnwrapOneOf(r)

\* What a caller gives, or gets, where the host encodes or decodes.
EncodedSchema(spec) == IF spec = <<"literal", Plain>> THEN <<"string">> ELSE <<"any">>

SurfaceSchema(c, p) == IF p.name \in DOMAIN c.encoding THEN EncodedSchema(c.encoding[p.name]) ELSE JsonSchema(p.type)

\* insert_at_path, insert_recursive: the same schema may be there already. at[i] is what the
\* path has reached before its i-th key, with[i] what that becomes.
Props(s)    == CASE s[1] = "object" -> s[2] [] s[1] = "also" -> s[3] [] OTHER -> NoFields
Required(s) == CASE s[1] = "object" -> s[3] [] s[1] = "also" -> s[4] [] OTHER -> {}

InsertProperty(s, k, sub) ==
  LET all == [n \in DOMAIN Props(s) \cup {k} |-> IF n = k THEN sub ELSE Props(s)[n]]
  IN CASE s[1] = "object" -> <<"object", all, Required(s) \cup {k}>>
       [] s[1] = "also"   -> <<"also", s[2], all, Required(s) \cup {k}>>
       [] OTHER           -> <<"also", s, all, {k}>>

Insert(node, path, leaf) ==
  LET n == Len(path)
      key(i) == path[i][2]
      Below(s, i) == IF key(i) \in DOMAIN Props(s) THEN Props(s)[key(i)] ELSE EmptyObject
      at[i \in 1..n] == IF i = 1 THEN node ELSE Below(at[i - 1], i - 1)
      with[i \in 1..n] ==
        IF i < n THEN InsertProperty(at[i], key(i), with[i + 1]) ELSE InsertProperty(at[n], key(n), leaf)
      taken == key(n) \in DOMAIN Props(at[n]) /\ Props(at[n])[key(n)] # leaf
  IN IF n = 0 THEN Error
     ELSE IF (\E i \in 1..n : path[i][1] = "index") \/ taken THEN Error ELSE with[1]

CollectRefsBody(t) ==
  CASE t[1] = "ref" -> {t[2]}
    [] t[1] = "text" -> {t[2][i][2] : i \in {i \in 1..Len(t[2]) : t[2][i][1] = "ref"}}
    [] t[1] \in {"arr", "obj"} -> UNION {CollectRefs(t[2][i]) : i \in DOMAIN t[2]}
    [] OTHER -> {}

UnderBody(path) == path[1] = <<"key", "body">>

\* The entries of the mapping come in no order (a HashMap): order is one of them.
Insertions(f, c, order) ==
  FlattenSeq([i \in 1..Len(order) |->
    LET t == c.mapping[order[i]]
        p == [name |-> order[i], type |-> TypeOf(f, order[i])]
    IN IF t[1] = "ref" /\ UnderBody(t[2]) THEN <<<<Tail(t[2]), SurfaceSchema(c, p)>>>>
       ELSE LET refs == SetToSeq({r \in CollectRefs(t) : UnderBody(r)})
            IN [k \in 1..Len(refs) |-> <<Tail(refs[k]), <<"string">>>>]])

InputSchema(f, c, order) ==
  IF c.mapping = None
  THEN <<"object", [n \in Names(f) |-> SurfaceSchema(c, [name |-> n, type |-> TypeOf(f, n)])],
         {n \in Names(f) : ~IsOptional(TypeOf(f, n))}>>
  ELSE IF ~(DOMAIN c.mapping \subseteq Names(f)) THEN Error
  ELSE FoldLeft(LAMBDA s, e : IF s = Error THEN Error ELSE Insert(s, e[1], e[2]),
                EmptyObject, Insertions(f, c, order))

DecodedSchema(c, s) ==
  IF s[1] # "object" THEN s
  ELSE <<"object", [n \in DOMAIN s[2] \cup DOMAIN c.decoding |->
                      IF n \in DOMAIN c.decoding THEN EncodedSchema(c.decoding[n]) ELSE s[2][n]], s[3]>>

TemplateSchemaBody(t, s) ==
  CASE t[1] = "ref" -> ResolvePath(s, t[2])
    [] t[1] = "text" -> <<"string">>
    [] t[1] = "obj" ->
         LET props == All("props", [k \in DOMAIN t[2] |-> TemplateSchema(t[2][k], s)])
         IN IF props = Error THEN Error ELSE <<"object", props[2], DOMAIN t[2]>>
    [] t[1] = "arr" -> All("tuple", [i \in DOMAIN t[2] |-> TemplateSchema(t[2][i], s)])
    [] t[1] = "null" -> Null
    [] t[1] = "bool" -> <<"boolean">>
    [] t[1] \in {"num", "frac"} -> AnyNumber

\* Mutant: the result is advertised whole, though only its ok comes as a body.
OutputSchema_Whole(f, c) ==
  IF c.result = None THEN IF f.result = Unit THEN None ELSE DecodedSchema(c, JsonSchema(f.result))
  ELSE IF c.result.body = None THEN None
  ELSE IF f.result = Unit THEN Error ELSE TemplateSchema(c.result.body, DecodedSchema(c, JsonSchema(f.result)))

\* None for no schema.
OutputSchema(f, c) ==
  IF c.result = None
  THEN IF f.result = Unit THEN None ELSE DecodedSchema(c, UnwrapOneOf(JsonSchema(f.result)))
  ELSE IF c.result.body = None THEN None
  ELSE IF f.result = Unit THEN Error
  ELSE TemplateSchema(c.result.body, DecodedSchema(c, JsonSchema(f.result)))

-----------------------------------------------------------------------------
(* Validation of the configuration, and coercion.                          *)

ByteArray == <<"array", Byte>>

ValidSpec(spec, s) == IF spec[1] = "path" THEN ResolvePath(s, spec[2]) # Error ELSE Supported(Str(spec[2]))

ByteArrayField(s, n) ==
  LET u == UnwrapOneOf(UnwrapOneOf(s))
  IN u[1] = "object" /\ n \in DOMAIN u[2] /\ UnwrapOneOf(u[2][n]) = ByteArray

ArgsSchema(f) == <<"object", [n \in Names(f) |-> JsonSchema(TypeOf(f, n))], {}>>

\* MessageMapper::from_component.
ValidMapper(f, c) ==
  /\ \A n \in DOMAIN c.decoding :
       f.result # Unit /\ ByteArrayField(JsonSchema(f.result), n) /\ ValidSpec(c.decoding[n], JsonSchema(f.result))
  /\ \A n \in DOMAIN c.encoding :
       n \in Names(f) /\ JsonSchema(TypeOf(f, n)) = ByteArray /\ ValidSpec(c.encoding[n], ArgsSchema(f))

SchemaType(s) ==
  CASE s[1] \in {"object", "map"} -> "object"
    [] s[1] \in {"array", "set", "tuple"} -> "array"
    [] s[1] \in {"string", "enum"} -> "string"
    [] s[1] \in {"number", "boolean", "null"} -> s[1]
    [] OTHER -> None

Properties(s) == IF s[1] = "object" THEN s[2] ELSE NoFields

\* A declared schema may be a string where the derived one is anything else.
AlignBody(declared, derived) ==
  LET d == UnwrapOneOf(declared)  s == UnwrapOneOf(derived)
  IN /\ SchemaType(d) \in {SchemaType(s), "string", None} \/ SchemaType(s) = None
     /\ SchemaType(d) = "object" /\ SchemaType(s) = "object" =>
          /\ DOMAIN Properties(d) = DOMAIN Properties(s)
          /\ \A n \in DOMAIN Properties(s) : Align(Properties(d)[n], Properties(s)[n])
     /\ d[1] = "tuple" /\ s[1] = "tuple" =>
          Len(d[2]) = Len(s[2]) /\ \A i \in 1..Len(s[2]) : Align(d[2][i], s[2][i])
     /\ d[1] \in {"array", "set"} /\ s[1] \in {"array", "set"} => Align(d[2], s[2])

CoerceBody(j, s) ==
  CASE SchemaType(s) = "string" /\ j[1] \notin {"str", "null"} -> <<"str", <<"json", j>>>>
    [] s[1] = "object" /\ j[1] = "obj" ->
         Obj([n \in DOMAIN j[2] |-> IF n \in DOMAIN s[2] THEN Coerce(j[2][n], s[2][n]) ELSE j[2][n]])
    [] s[1] \in {"array", "set"} /\ j[1] = "arr" -> <<"arr", [i \in 1..Len(j[2]) |-> Coerce(j[2][i], s[2])]>>
    [] OTHER -> j

-----------------------------------------------------------------------------
ASSUME MappingAssumption ==
  /\ None \notin {Error, Json, Plain, "string"}
  /\ \A t \in Templates :
       /\ t[1] \in {"arr", "obj"} => Range(t[2]) \subseteq Templates
       /\ CollectRefs(t) = CollectRefsBody(t)
       /\ \A j \in Jsons : Substitute(t, j) = SubstituteBody(t, j)
       /\ \A s \in Schemas : TemplateSchema(t, s) = TemplateSchemaBody(t, s)
  /\ \A s \in Schemas : /\ \A j \in Jsons : Coerce(j, s) = CoerceBody(j, s)
                        /\ \A r \in Schemas : Align(s, r) = AlignBody(s, r)

=============================================================================
