----------------------------- MODULE MCInvocation -----------------------------
(***************************************************************************)
(* A function of each type, and functions with mappings, with the messages *)
(* to them and their results, for TLC.                                     *)
(***************************************************************************)
EXTENDS Invocation, TLC

Num(n) == <<"num", n>>
Frac   == <<"frac", 0>>  \* 0.5
MinusTwo == -2
Arr(s) == <<"arr", s>>
Some(v) == <<"some", v>>

Num01    == <<"int", 0, 1>>
String == <<"string">>
Opt    == <<"option", Num01>>
Rec    == <<"record", "a" :> Num01 @@ "b" :> <<"option", String>>>>
Var    == <<"variant", <<<<"n", Num01>>, <<"e", Unit>>>>>>
Color  == <<"enum", {"n", "e"}>>
Pair   == <<"tuple", <<Num01, String>>>>

EachType ==
  {<<"bool">>, Num01, <<"int", -1, 0>>, U64, S64, String, <<"bytes">>, <<"list", Num01>>, Rec, <<"record", "a" :> Opt>>, Var, Color,
   <<"flags", {"n", "e"}>>, Pair, <<"map", String, Num01>>, <<"map", Num01, String>>, <<"list", Pair>>,
   <<"result", Num01, String>>, <<"result", Unit, Num01>>,
   <<"variant", <<<<"n", <<"list", Num01>>>>, <<"e", Rec>>, <<"m", <<"map", String, String>>>>>>>>,
   Opt, <<"option", Opt>>, <<"option", Rec>>, <<"list", Opt>>, <<"result", Opt, String>>, <<"option", <<"resource">>>>,
   <<"list", <<"resource">>>>}

\* JSON of every type, and of none.
JsonOfEach ==
  {Null, <<"bool", TRUE>>, Num(-3), Num(-1), Num(0), Num(1), Num(2), Num(4), Frac, Arr(<<Num(1), Frac>>), Obj("a" :> Frac),
   Obj("type" :> Str("n") @@ "value" :> Frac), Obj("ok" :> Frac), Obj("type" :> Str("m") @@ "variant" :> Num(1)),
   Str("n"), Str("x"), <<"str", <<"json", Num(1)>>>>,
   <<"str", <<"json", Num(2)>>>>, <<"bytes", <<"raw", "x">>>>, Arr(<<>>), Arr(<<Num(1)>>), Arr(<<Num(1), Str("x")>>),
   Arr(<<Str("n"), Str("e")>>), Arr(<<Str("n"), Str("n")>>), Arr(<<Arr(<<Num(1), Str("x")>>)>>),
   Obj(NoFields), Obj("a" :> Num(1)), Obj("a" :> Null), Obj("a" :> Num(1) @@ "b" :> Str("x")),
   Obj("b" :> Str("x")), Obj("a" :> Num(1) @@ "c" :> Null), Obj("type" :> Str("e")),
   Obj("type" :> Str("n") @@ "value" :> Num(1)), Obj("type" :> Str("n") @@ "value" :> Arr(<<Num(1)>>)),
   Obj("type" :> Str("e") @@ "value" :> Obj("a" :> Num(1))), Obj("type" :> Str("x")),
   Obj("ok" :> Num(1)), Obj("ok" :> Null), Obj("error" :> Str("x")), Obj("error" :> Num(1))}

\* The values of a type: all of the small ones.
RECURSIVE Values(_)
Values(T) ==
  CASE T[1] = "bool" -> {<<"bool", TRUE>>}
    [] T[1] = "int" -> {<<"int", n>> : n \in T[2]..T[3]}
    [] T[1] = "string" -> {Str("x"), <<"str", <<"json", Num(1)>>>>}
    [] T[1] = "bytes" -> {<<"bytes", <<"raw", "x">>>>, <<"bytes", <<"json", Num(1)>>>>}
    [] T[1] = "list" -> {<<"list", <<>>>>} \cup {<<"list", <<v>>>> : v \in Values(T[2])}
    [] T[1] = "option" -> {<<"none">>} \cup {Some(v) : v \in Values(T[2])}
    [] T[1] = "record" ->
         {<<"record", r>> : r \in {r \in [DOMAIN T[2] -> UNION {Values(T[2][f]) : f \in DOMAIN T[2]}] :
                                    \A f \in DOMAIN T[2] : r[f] \in Values(T[2][f])}}
    [] T[1] = "variant" ->
         UNION {IF T[2][i][2] = Unit THEN {<<"case", T[2][i][1], <<>>>>}
                ELSE {<<"case", T[2][i][1], <<v>>>> : v \in Values(T[2][i][2])} : i \in 1..Len(T[2])}
    [] T[1] = "enum" -> {<<"enum", Str(c)>> : c \in T[2]}
    [] T[1] = "flags" -> {<<"flags", Arr(<<>>)>>} \cup {<<"flags", Arr(<<Str(c)>>)>> : c \in T[2]}
    [] T[1] = "tuple" ->
         {<<"tuple", <<v, w>>>> : v \in Values(T[2][1]), w \in Values(T[2][2])}
    [] T[1] = "map" ->
         IF T[2][1] = "string" THEN {<<"map", NoFields>>} \cup {<<"map", "k" :> v>> : v \in Values(T[3])}
         ELSE {<<"pairs", <<<<"pair", <<k, v>>>>>>>> : k \in Values(T[2]), v \in Values(T[3])}
    [] T[1] = "result" ->
         (IF T[2] = Unit THEN {<<"ok", <<>>>>} ELSE {<<"ok", <<v>>>> : v \in Values(T[2])})
         \cup (IF T[3] = Unit THEN {<<"err", <<>>>>} ELSE {<<"err", <<v>>>> : v \in Values(T[3])})
    [] T[1] = "resource" -> {}
    [] T = Unit -> {Unit}

-----------------------------------------------------------------------------

Plainly == [mapping |-> None, encoding |-> <<>>, decoding |-> <<>>, result |-> None]

Ref(path)  == <<"ref", path, <<>>>>
Or(path, v) == <<"ref", path, <<v>>>>
K(k)       == <<"key", k>>
InBody(k)  == <<K("body"), K(k)>>

Params(ts) == [i \in 1..Len(ts) |-> [name |-> <<"p", "q", "r">>[i], type |-> ts[i]]]
Fn(ts, r)  == [params |-> Params(ts), result |-> r]
Setup(f, c) == [http |-> TRUE, function |-> f, config |-> c, declared |-> None]

\* A function of each type, the parameter also being the result.
Typed ==
  {Setup(Fn(<<T>>, T), Plainly) : T \in EachType} \cup
  {[Setup(Fn(<<T>>, Unit), Plainly) EXCEPT !.http = FALSE] : T \in EachType}

\* Functions of several parameters, by name and by templates.
Mapped ==
  {Setup(Fn(<<Num01, Opt>>, <<"result", Rec, String>>), Plainly),
   Setup(Fn(<<>>, Unit), Plainly),
   Setup(Fn(<<Opt, <<"option", String>>>>, Unit), Plainly),
   Setup(Fn(<<Num01, String, Opt>>, Unit),
         [Plainly EXCEPT !.mapping =
            "p" :> Ref(<<K("body"), K("a"), K("x")>>) @@
            "q" :> <<"text", <<<<"raw", "to ">>, Ref(<<K("body"), K("a"), K("y")>>), Ref(<<K("headers"), K("h")>>)>>>>]),
   Setup(Fn(<<Num01, Num01>>, Unit), [Plainly EXCEPT !.mapping = "p" :> Ref(InBody("a")) @@ "q" :> Ref(InBody("a"))]),
   Setup(Fn(<<Num01, String>>, Unit), [Plainly EXCEPT !.mapping = "p" :> Ref(InBody("a")) @@ "q" :> Ref(InBody("a"))]),
   Setup(Fn(<<Num01, String>>, Unit),
         [Plainly EXCEPT !.mapping = "p" :> Num(1) @@ "q" :> Ref(<<K("headers"), K("h")>>)]),
   Setup(Fn(<<Num01, String>>, Unit),
         [Plainly EXCEPT !.mapping = "p" :> Ref(InBody("a")) @@ "q" :> Or(<<K("headers"), K("h")>>, Str("d"))]),
   Setup(Fn(<<Num01, String>>, Unit),
         [Plainly EXCEPT !.mapping = "p" :> Or(<<K("headers"), K("n")>>, Num(0)) @@ "q" :> Ref(InBody("a"))]),
   Setup(Fn(<<Rec>>, Unit),
         [Plainly EXCEPT !.mapping = "p" :> <<"obj", "a" :> Num(0) @@ "b" :> Ref(InBody("b"))>>]),
   Setup(Fn(<<String>>, Unit), [Plainly EXCEPT !.mapping = "z" :> Ref(InBody("a"))])}

\* Parameters that are encoded, some as another one says.
Encoded ==
  {Setup(Fn(<<<<"bytes">>, Color>>, Unit), [Plainly EXCEPT !.encoding = "p" :> s]) :
     s \in {<<"literal", Json>>, <<"literal", Plain>>, <<"literal", "text/html">>, <<"path", <<K("q")>>>>, <<"path", <<K("z")>>>>}} \cup
  {Setup(Fn(<<<<"bytes">>, <<"bytes">>>>, Unit),
         [Plainly EXCEPT !.encoding = "p" :> <<"path", <<K("q")>>>> @@ "q" :> <<"literal", Plain>>]),
   Setup(Fn(<<Num01>>, Unit), [Plainly EXCEPT !.encoding = "p" :> <<"literal", Json>>])}

\* Results that are decoded and mapped.
Page == <<"record", "data" :> <<"bytes">> @@ "tag" :> String>>
Nested == <<"record", "o" :> <<"option", Rec>> @@ "r" :> <<"result", Num01, String>>>>
Pages == {<<"record", "data" :> <<"bytes", d>> @@ "tag" :> Str(t)>> : d \in {<<"json", Num(1)>>, <<"raw", "x">>}, t \in {"x", Plain}}
MCResults(f) ==
  CASE f.result = Page -> Pages
    [] f.result = <<"result", Page, String>> -> {<<"ok", <<p>>>> : p \in Pages} \cup {<<"err", <<Str("x")>>>>}
    [] OTHER -> Values(f.result)
ToReply(b, h) == [body |-> b, headers |-> h]
Replied ==
  {Setup(Fn(<<>>, r), [Plainly EXCEPT !.decoding = d, !.result = m]) :
     r \in {Page, <<"result", Page, String>>}, m \in {None},
     d \in {<<>>, "data" :> <<"literal", Plain>>, "data" :> <<"literal", Json>>, "tag" :> <<"literal", Json>>, "data" :> <<"path", <<K("tag")>>>>}} \cup
  {Setup(Fn(<<>>, r), [Plainly EXCEPT !.decoding = "data" :> <<"literal", Plain>>, !.result = m]) :
     r \in {<<"result", Page, String>>, <<"result", <<"option", Page>>, String>>}, m \in {None, ToReply(Ref(<<K("data")>>), None)}} \cup
  {Setup(Fn(<<>>, Page), [Plainly EXCEPT !.decoding = "data" :> <<"literal", Plain>>, !.result = m]) :
     m \in {ToReply(None, None), ToReply(Ref(<<K("data")>>), <<"obj", "h" :> Ref(<<K("tag")>>) @@ "traceparent" :> <<"text", <<<<"raw", "m">>>>>>>>),
            ToReply(Ref(<<K("data")>>), <<"obj", "content-type" :> Ref(<<K("tag")>>)>>),
            ToReply(Ref(<<K("none")>>), None), ToReply(Ref(<<K("tag")>>), Ref(<<K("tag")>>)),
            ToReply(<<"obj", "x" :> <<"text", <<<<"raw", "of ">>, Ref(<<K("tag")>>)>>>> @@ "y" :> Arr(<<Num(1), Ref(<<K("data")>>)>>)>>, None)}} \cup
  {[Setup(Fn(<<>>, Rec), Plainly) EXCEPT !.declared = s] :
     s \in {<<"object", "a" :> <<"string">> @@ "b" :> <<"any">>, {"a"}>>, <<"object", "a" :> <<"string">>, {}>>, <<"string">>,
            <<"boolean">>}} \cup
  {[Setup(Fn(<<Num01>>, Page), [Plainly EXCEPT !.result = ToReply(Ref(<<K(k)>>), None)]) EXCEPT !.http = FALSE] :
     k \in {"tag", "none"}} \cup
  {Setup(Fn(<<>>, Nested), [Plainly EXCEPT !.result = m]) :
     m \in {ToReply(Ref(<<K("o"), K("a")>>), None), ToReply(Ref(<<K("o"), K("b")>>), None), ToReply(Ref(<<K("r")>>), None),
            ToReply(Ref(<<K("o")>>), <<"obj", "h" :> Ref(<<K("none")>>)>>)}}

\* Functions that may have no value for a result.
Optional == {Setup(Fn(<<Num01>>, T), Plainly) : T \in {Opt, <<"result", Opt, String>>}}

MCSetups == Typed \cup Mapped \cup Encoded \cup Replied

\* Bodies with values at the places that the templates name, and none.
Bodies(s) ==
  IF s \in Typed THEN {Obj("p" :> j) : j \in JsonOfEach} \cup JsonOfEach
  ELSE {Obj(NoFields), Obj("p" :> Num(1)), Num(1)} \cup
       {Obj("p" :> j @@ "q" :> k) : j, k \in {Num(1), Str("x"), Str(Json), Str(Plain), Str("n"), Null}} \cup
       {Obj("a" :> Obj("x" :> j @@ "y" :> k)) : j, k \in {Num(1), Str("x")}} \cup
       {Obj("a" :> Obj("x" :> Num(1) @@ "y" :> Str("x")) @@ "r" :> Num(1))} \cup
       {Obj("a" :> Num(1)), Obj("a" :> Num(1) @@ "q" :> Str("x")), Obj("b" :> Str("x"))}

HeaderSets == {<<>>, "h" :> "x", "traceparent" :> "t", "reply-to" :> "c" @@ "correlation-id" :> "i"}

MCMessages(s) ==
  {[type |-> Json, body |-> b, headers |-> h] :
     b \in {None, <<"raw", "x">>} \cup {<<"json", j>> : j \in Bodies(s)},
     h \in IF s \in Typed THEN {<<>>} ELSE HeaderSets} \cup
  {[type |-> t, body |-> b, headers |-> <<>>] :
     t \in IF s.http THEN {JsonUtf8, Plain} ELSE {}, b \in {None, <<"raw", "x">>, <<"json", Obj("p" :> Num(1))>>}} \cup
  (IF s.http THEN {} ELSE
     {[type |-> t, body |-> <<"raw", "x">>, headers |-> h] : t \in {None, Plain, "text/html"}, h \in HeaderSets})

-----------------------------------------------------------------------------
\* The functions of the code that call themselves. (A LET keeps the statistics of TLC from
\* unfolding them for ever.)
MCJsonSchema(T)        == LET body == JsonSchemaBody(T) IN body
MCIsInvokable(T)       == LET body == IsInvokableBody(T) IN body
MCAccepts(s, j)        == LET body == AcceptsBody(s, j) IN body
MCJsonToVal(j, T)      == LET body == JsonToValBody(j, T) IN body
MCValToJson(v)         == LET body == ValToJsonBody(v) IN body
MCHasType(v, T)        == LET body == HasTypeBody(v, T) IN body
MCCollectRefs(t)       == LET body == CollectRefsBody(t) IN body
MCSubstitute(t, j)     == LET body == SubstituteBody(t, j) IN body
MCTemplateSchema(t, s) == LET body == TemplateSchemaBody(t, s) IN body
MCAlign(d, s)          == LET body == AlignBody(d, s) IN body
MCCoerce(j, s)         == LET body == CoerceBody(j, s) IN body
MCSays(v, j)           == LET body == SaysBody(v, j) IN body
MCWhole(j, T)          == LET body == WholeBody(j, T) IN body
MCPresentable(T)       == LET body == PresentableBody(T) IN body

-----------------------------------------------------------------------------
\* The data, each with its parts.
RECURSIVE TypesIn(_)
TypesIn(X) == X \cup UNION {TypesIn(PartsOf(T)) : T \in X}

RECURSIVE Nesting(_)
Nesting(T) == 1 + FoldSet(LAMBDA U, n : IF Nesting(U) > n THEN Nesting(U) ELSE n, 0, PartsOf(T))

MCTypes == TypesIn(UNION {{s.function.params[i].type : i \in 1..Len(s.function.params)} \cup {s.function.result} :
                            s \in MCSetups \cup Optional} \ {Unit})
MCDepth == [T \in MCTypes |-> Nesting(T)]

RECURSIVE SchemasIn(_)
SchemasIn(X) == X \cup UNION {SchemasIn(
  CASE s[1] \in {"array", "set", "map"} -> {s[2]}
    [] s[1] \in {"tuple", "oneOf", "object"} -> Range(s[2])
    [] s[1] = "also" -> {s[2]} \cup Range(s[3])
    [] OTHER -> {}) : s \in X}

Unmapped == {s \in MCSetups \cup Optional : s.config.mapping = None}
Untemplated == {s \in MCSetups \cup Optional : s.config.result = None}
MCSchemas ==
  SchemasIn({JsonSchema(T) : T \in MCTypes} \cup {InputSchema(s.function, s.config, <<>>) : s \in Unmapped} \cup
            ({OutputSchema(s.function, s.config) : s \in Untemplated} \ {None}))

RECURSIVE TemplatesIn(_)
TemplatesIn(X) == X \cup UNION {TemplatesIn(IF t[1] \in {"arr", "obj"} THEN Range(t[2]) ELSE {}) : t \in X}

MCTemplates ==
  TemplatesIn(UNION {Range(s.config.mapping) : s \in MCSetups \ Unmapped} \cup
              (UNION {{s.config.result.body, s.config.result.headers} :
                        s \in {s \in MCSetups : s.config.result # None}} \ {None}))

RECURSIVE JsonsIn(_)
JsonsIn(X) == X \cup UNION {JsonsIn(CASE j[1] = "arr" -> Range(j[2])
                                      [] j[1] = "obj" -> Range(j[2]) \cup ({Rest(j)} \ {j})
                                      [] OTHER -> {}) : j \in X}

RECURSIVE ValsIn(_)
ValsIn(X) == X \cup UNION {ValsIn(
  CASE v[1] \in {"list", "tuple", "record", "map", "ok", "err"} -> Range(v[2])
    [] v[1] = "pairs" -> UNION {Range(p[2]) : p \in Range(v[2])}
    [] v[1] = "some" -> {v[2]}
    [] v[1] = "case" -> Range(v[3])
    [] OTHER -> {}) : v \in X}

Sendable  == JsonsIn({ParseBody(m) : m \in UNION {Messages(s) : s \in Unmapped}} \ {Error})
Converted(js) == {JsonToVal(j, T) : j \in js, T \in MCTypes} \ {Error}
Returned  == UNION {Results(s.function) : s \in MCSetups \cup Optional} \ {Unit}
Decoded   == UNION {{ApplyResultDecoding(s.config, ConvertResult(v)) :
                       v \in {v \in Results(s.function) : ConvertResult(v) # Error}} : s \in Untemplated}

\* The values that JSON converts to, the JSON of these, and so on.
RECURSIVE Data(_, _)
Data(js, vs) ==
  LET more == js \cup JsonsIn({ValToJson(v) : v \in vs})
      vals == ValsIn(vs \cup Converted(more))
  IN IF vals = vs /\ more = js THEN [jsons |-> js, vals |-> vs] ELSE Data(more, vals)

AllData == Data(Sendable \cup JsonsIn(Decoded \ {Error}), ValsIn(Returned))
MCJsons == AllData.jsons
MCVals  == AllData.vals

=============================================================================
