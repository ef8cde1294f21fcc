------------------------------ MODULE Conversion ------------------------------
(***************************************************************************)
(* WIT types, the JSON schemas that describe them, and the conversions of  *)
(* JSON to component values and back (src/src/composition/wit.rs,          *)
(* src/src/runtime/conversion.rs, src/src/runtime/component.rs).           *)
(*                                                                         *)
(* Types, values, JSON and schemas are tuples <<kind, content...>>:        *)
(*   type    <<"int", lo, hi>>, <<"option", T>>, <<"record", [field -> T]>>, *)
(*           <<"variant", <<<<case, T>>, ...>>>>, <<"unit">> for no type...*)
(*   JSON    <<"null">>, <<"bool", b>>, <<"num", n>>, an integer of any    *)
(*           size, <<"frac", n>>, a number that is written with a fraction *)
(*           or an exponent and lies between n and n + 1, <<"str", text>>, *)
(*           <<"arr", seq>>, <<"obj", fields>>, and <<"bytes", text>>, the *)
(*           array of the bytes of a text.                                 *)
(*   text    <<"raw", s>>, <<"json", v>>, the text of the JSON v, and      *)
(*           <<"cat", texts>>.                                             *)
(* An integer type has any range within 64 bits. Types of floats and chars *)
(* are left out, and a list<u8> is its own type, bytes: an array of        *)
(* integers that is to be one is <<"bytes", text>>, never <<"arr", seq>>.  *)
(*                                                                         *)
(* The functions of the code that call themselves are constants here. What *)
(* such a function does is the operator named after it, JsonToValBody for  *)
(* JsonToVal, in which the calls to itself are to the constant: that it    *)
(* does this for all data, ConversionAssumption says.                      *)
(***************************************************************************)
EXTENDS Integers, Sequences, FiniteSets, SequencesExt

CONSTANTS
  Types, Schemas, Jsons, Vals,  \* WIT types, schemas, JSON and component values, with their parts
  Depth,                        \* how deep each type is nested
  MaxU64, MinS64, MaxS64,       \* the ranges of u64 and s64
  JsonSchema(_), IsInvokable(_), Accepts(_, _), JsonToVal(_, _), ValToJson(_),
  HasType(_, _)                 \* whether a value is one of a type

Null      == <<"null">>
Str(s)    == <<"str", <<"raw", s>>>>
Obj(f)    == <<"obj", f>>
NoFields  == [f \in {} |-> Null]
Unit      == <<"unit">>
Error     == <<"error">>  \* the Err of a Result

Field(j, f) == IF j[1] = "obj" /\ f \in DOMAIN j[2] THEN j[2][f] ELSE Error
Text(j)   == j[2]  \* of a JSON string
CasesNamed(T, j) == {i \in 1..Len(T[2]) : Str(T[2][i][1]) = j}  \* the cases of a variant

-----------------------------------------------------------------------------
(* wit.rs.                                                                 *)

IsOptional(T) == T[1] = "option"

\* The types that JSON has values for: no resource, stream or future within.
IsInvokableBody(T) ==
  CASE T[1] = "resource" -> FALSE
    [] T[1] \in {"list", "option"} -> IsInvokable(T[2])
    [] T[1] = "record" -> \A f \in DOMAIN T[2] : IsInvokable(T[2][f])
    [] T[1] = "variant" -> \A i \in 1..Len(T[2]) : IsInvokable(T[2][i][2])
    [] T[1] = "tuple" -> \A i \in 1..Len(T[2]) : IsInvokable(T[2][i])
    [] T[1] \in {"map", "result"} -> IsInvokable(T[2]) /\ IsInvokable(T[3])
    [] OTHER -> TRUE

\* A schema is <<kind, ...>>; an object has its properties and those required, and
\* no others; also is a schema to which properties were added.
Byte == <<"number", {0}, {255}>>

\* A number is bounded by those of its least and greatest that the schema names: u64 has no
\* greatest, s64 neither.
U64 == <<"int", 0, MaxU64>>
S64 == <<"int", MinS64, MaxS64>>
IntSchema(T) == <<"number", IF T = S64 THEN {} ELSE {T[2]}, IF T \in {U64, S64} THEN {} ELSE {T[3]}>>

RecordSchema(T) ==
  <<"object", [f \in DOMAIN T[2] |-> JsonSchema(T[2][f])], {f \in DOMAIN T[2] : ~IsOptional(T[2][f])}>>

CaseSchema(c) ==
  IF c[2] = Unit THEN <<"object", [f \in {"type"} |-> <<"const", c[1]>>], {"type"}>>
  ELSE <<"object", [f \in {"type", "value"} |-> IF f = "type" THEN <<"const", c[1]>> ELSE JsonSchema(c[2])],
         {"type", "value"}>>

ArmSchema(name, T) == <<"object", [f \in {name} |-> IF T = Unit THEN Null ELSE JsonSchema(T)], {name}>>

JsonSchemaBody(T) ==
  CASE T[1] = "bool" -> <<"boolean">>
    [] T[1] = "string" -> <<"string">>
    [] T[1] = "int" -> IntSchema(T)
    [] T[1] = "bytes" -> <<"array", Byte>>
    [] T[1] = "list" -> <<"array", JsonSchema(T[2])>>
    [] T[1] = "record" -> RecordSchema(T)
    [] T[1] = "variant" -> <<"oneOf", [i \in 1..Len(T[2]) |-> CaseSchema(T[2][i])]>>
    [] T[1] = "enum" -> <<"enum", T[2]>>
    [] T[1] = "flags" -> <<"set", <<"enum", T[2]>>>>
    [] T[1] = "option" -> <<"oneOf", <<JsonSchema(T[2]), Null>>>>
    [] T[1] = "result" -> <<"oneOf", <<ArmSchema("ok", T[2]), ArmSchema("error", T[3])>>>>
    [] T[1] = "tuple" -> <<"tuple", [i \in 1..Len(T[2]) |-> JsonSchema(T[2][i])]>>
    [] T[1] = "map" /\ T[2][1] = "string" -> <<"map", JsonSchema(T[3])>>
    [] T[1] = "map" /\ T[2][1] # "string" -> <<"array", <<"tuple", <<JsonSchema(T[2]), JsonSchema(T[3])>>>>>>
    [] T[1] = "resource" -> <<"any">>

\* External: what a schema accepts.
HasProperties(j, props, req) ==
  req \subseteq DOMAIN j[2] /\ \A f \in DOMAIN j[2] \cap DOMAIN props : Accepts(props[f], j[2][f])
Bounded(j, lows, highs) ==
  IF j[1] = "num" THEN (\A b \in lows : b <= j[2]) /\ (\A b \in highs : j[2] <= b)
  ELSE j[1] = "frac" /\ (\A b \in lows : b <= j[2]) /\ (\A b \in highs : j[2] < b)
FractionalBytes(j) ==
  j[1] = "arr" /\ (\A i \in 1..Len(j[2]) : Accepts(Byte, j[2][i])) /\ \E i \in 1..Len(j[2]) : j[2][i][1] = "frac"
AcceptsBody(s, j) ==
  CASE s[1] = "any" -> TRUE
    [] s[1] = "null" -> j[1] = "null"
    [] s[1] = "boolean" -> j[1] = "bool"
    [] s[1] = "string" -> j[1] = "str"
    [] s[1] = "number" -> Bounded(j, s[2], s[3])
    [] s[1] = "enum" -> \E c \in s[2] : j = Str(c)
    [] s[1] = "const" -> j = Str(s[2])
    [] s[1] = "array" ->
         IF s[2] = Byte THEN j[1] = "bytes" \/ FractionalBytes(j)
         ELSE j[1] = "arr" /\ \A i \in 1..Len(j[2]) : Accepts(s[2], j[2][i])
    [] s[1] = "set" -> j[1] = "arr" /\ IsInjective(j[2]) /\ \A i \in 1..Len(j[2]) : Accepts(s[2], j[2][i])
    [] s[1] = "tuple" -> j[1] = "arr" /\ Len(j[2]) = Len(s[2]) /\ \A i \in 1..Len(s[2]) : Accepts(s[2][i], j[2][i])
    [] s[1] = "map" -> j[1] = "obj" /\ \A f \in DOMAIN j[2] : Accepts(s[2], j[2][f])
    [] s[1] = "object" -> j[1] = "obj" /\ DOMAIN j[2] \subseteq DOMAIN s[2] /\ HasProperties(j, s[2], s[3])
    [] s[1] = "oneOf" -> Cardinality({i \in 1..Len(s[2]) : Accepts(s[2][i], j)}) = 1
    [] s[1] = "also" -> Accepts(s[2], j) /\ (j[1] = "obj" => HasProperties(j, s[3], s[4]))

-----------------------------------------------------------------------------
(* json_to_val. Error as soon as a part is.                                *)

All(kind, parts) == IF \E i \in DOMAIN parts : parts[i] = Error THEN Error ELSE <<kind, parts>>

\* Numbers are read as 64 bits (as_u64, as_i64), which no fraction is, and cut to the width of
\* their type (`as u8`); texts are parsed in its range.
Unsigned(T) == T[2] = 0
Readable(T) == IF Unsigned(T) THEN 0..MaxU64 ELSE MinS64..MaxS64
Wrap(n, T)  == T[2] + ((n - T[2]) % (T[3] - T[2] + 1))
Parsed(t)   == IF t[1] = "json" THEN t[2] ELSE Error
ToInt(j, T) ==
  IF j[1] = "num" THEN IF j[2] \in Readable(T) THEN <<"int", Wrap(j[2], T)>> ELSE Error
  ELSE IF j[1] # "str" THEN Error
  ELSE LET p == Parsed(j[2])
       IN IF p[1] = "num" /\ T[2] <= p[2] /\ p[2] <= T[3] THEN <<"int", p[2]>> ELSE Error

ToRecord(j, T) ==
  IF j[1] # "obj" \/ ~(DOMAIN j[2] \subseteq DOMAIN T[2]) THEN Error
  ELSE All("record", [f \in DOMAIN T[2] |->
         IF f \in DOMAIN j[2] THEN JsonToVal(j[2][f], T[2][f])
         ELSE IF IsOptional(T[2][f]) THEN <<"none">> ELSE Error])

ToEntry(p, T) ==
  IF p[1] # "arr" THEN Error ELSE IF Len(p[2]) # 2 THEN Error
  ELSE All("pair", <<JsonToVal(p[2][1], T[2]), JsonToVal(p[2][2], T[3])>>)

ToMap(j, T) ==
  CASE j[1] = "obj" ->
         IF T[2][1] # "string" THEN Error ELSE All("map", [k \in DOMAIN j[2] |-> JsonToVal(j[2][k], T[3])])
    [] j[1] = "arr" -> All("pairs", [i \in 1..Len(j[2]) |-> ToEntry(j[2][i], T)])
    [] OTHER -> Error

\* Without a value the payload is the object itself, with its type, but without a "variant".
Rest(j) == Obj([f \in DOMAIN j[2] \ {"variant"} |-> j[2][f]])
ToVariant(j, T) ==
  LET cases == CasesNamed(T, Field(j, "type"))
  IN IF cases = {} THEN Error
     ELSE LET c == T[2][CHOOSE i \in cases : TRUE]
              v == JsonToVal(IF Field(j, "value") # Error THEN Field(j, "value") ELSE Rest(j), c[2])
          IN IF c[2] = Unit THEN <<"case", c[1], <<>>>> ELSE IF v = Error THEN Error ELSE <<"case", c[1], <<v>>>>

ToArm(j, T, kind) ==
  IF T = Unit THEN <<kind, <<>>>>
  ELSE LET v == JsonToVal(j, T) IN IF v = Error THEN Error ELSE <<kind, <<v>>>>

ToResult(j, T) ==
  IF Field(j, "ok") # Error THEN ToArm(Field(j, "ok"), T[2], "ok")
  ELSE IF Field(j, "error") # Error THEN ToArm(Field(j, "error"), T[3], "err")
  ELSE Error

ToOption(j, T) ==
  IF j = Null THEN <<"none">>
  ELSE LET v == JsonToVal(j, T[2]) IN IF v = Error THEN Error ELSE <<"some", v>>

JsonToValBody(j, T) ==
  CASE T[1] = "bool" -> IF j[1] = "bool" THEN j ELSE Error
    [] T[1] = "string" -> IF j[1] = "str" THEN j ELSE Error
    [] T[1] = "int" -> ToInt(j, T)
    [] T[1] = "bytes" -> IF j[1] = "bytes" THEN j ELSE Error
    [] T[1] = "list" -> IF j[1] # "arr" THEN Error ELSE All("list", [i \in 1..Len(j[2]) |-> JsonToVal(j[2][i], T[2])])
    [] T[1] = "tuple" ->
         IF j[1] # "arr" THEN Error ELSE IF Len(j[2]) # Len(T[2]) THEN Error
         ELSE All("tuple", [i \in 1..Len(T[2]) |-> JsonToVal(j[2][i], T[2][i])])
    [] T[1] = "record" -> ToRecord(j, T)
    [] T[1] = "map" -> ToMap(j, T)
    [] T[1] = "option" -> ToOption(j, T)
    [] T[1] = "variant" -> ToVariant(j, T)
    [] T[1] = "enum" -> IF \E c \in T[2] : j = Str(c) THEN <<"enum", j>> ELSE Error
    [] T[1] = "result" -> ToResult(j, T)
    [] T[1] = "flags" -> IF j[1] = "arr" /\ \A i \in 1..Len(j[2]) : \E c \in T[2] : j[2][i] = Str(c) THEN <<"flags", j>> ELSE Error
    [] T[1] = "resource" -> Error

-----------------------------------------------------------------------------
(* val_to_json.                                                            *)

\* The fields of a payload that is an object are those of the variant.
CaseToJson(c, payload) ==
  LET v == IF payload = <<>> THEN Obj(NoFields) ELSE ValToJson(payload[1])
      fields == IF v[1] = "obj" THEN v[2] ELSE [f \in {"value"} |-> v]
  IN Obj([f \in DOMAIN fields \cup {"type"} |-> IF f \in DOMAIN fields THEN fields[f] ELSE Str(c)])

ArmToJson(name, arm) == Obj([f \in {name} |-> IF arm = <<>> THEN Null ELSE ValToJson(arm[1])])

ListToJson(v) == <<"arr", [i \in 1..Len(v[2]) |-> ValToJson(v[2][i])]>>

ValToJsonBody(v) ==
  CASE v[1] \in {"bool", "str", "bytes"} -> v
    [] v[1] = "int" -> <<"num", v[2]>>
    [] v[1] \in {"enum", "flags"} -> v[2]
    [] v[1] \in {"list", "tuple"} -> ListToJson(v)
    [] v[1] \in {"record", "map"} -> Obj([f \in DOMAIN v[2] |-> ValToJson(v[2][f])])
    [] v[1] = "pairs" ->
         IF v[2] = <<>> THEN Obj(NoFields) ELSE <<"arr", [i \in 1..Len(v[2]) |-> ListToJson(v[2][i])]>>
    [] v[1] = "some" -> ValToJson(v[2])
    [] v[1] = "none" -> Null
    [] v[1] = "case" -> CaseToJson(v[2], v[3])
    [] v[1] = "ok" -> ArmToJson("ok", v[2])
    [] v[1] = "err" -> ArmToJson("error", v[2])

-----------------------------------------------------------------------------
(* The data.                                                               *)

\* External: the values of a type, as wasmtime takes and returns them. A map whose keys are
\* strings is written by its keys.
HasPayload(p, T) == IF T = Unit THEN p = <<>> ELSE p # <<>> /\ p[1] \in Vals /\ HasType(p[1], T)
IsEntry(v, T) ==
  /\ v[1] = "pair" /\ v[2] \in Seq(Vals) /\ Len(v[2]) = 2
  /\ HasType(v[2][1], T[2]) /\ HasType(v[2][2], T[3])

HasTypeBody(v, T) ==
  CASE T[1] = "bool" -> v[1] = "bool"
    [] T[1] = "string" -> v[1] = "str"
    [] T[1] = "bytes" -> v[1] = "bytes"
    [] T[1] = "int" -> v[1] = "int" /\ v[2] \in T[2]..T[3]
    [] T[1] = "enum" -> \E c \in T[2] : v = <<"enum", Str(c)>>
    [] T[1] = "flags" ->
         v[1] = "flags" /\ v[2][1] = "arr" /\ v[2][2] \in Seq({Str(c) : c \in T[2]}) /\ IsInjective(v[2][2])
    [] T[1] = "list" -> v[1] = "list" /\ v[2] \in Seq(Vals) /\ \A i \in 1..Len(v[2]) : HasType(v[2][i], T[2])
    [] T[1] = "tuple" ->
         /\ v[1] = "tuple" /\ v[2] \in Seq(Vals) /\ Len(v[2]) = Len(T[2])
         /\ \A i \in 1..Len(T[2]) : HasType(v[2][i], T[2][i])
    [] T[1] = "record" ->
         v[1] = "record" /\ v[2] \in [DOMAIN T[2] -> Vals] /\ \A f \in DOMAIN T[2] : HasType(v[2][f], T[2][f])
    [] T[1] = "map" /\ T[2][1] = "string" ->
         v[1] = "map" /\ v[2] \in [DOMAIN v[2] -> Vals] /\ \A k \in DOMAIN v[2] : HasType(v[2][k], T[3])
    [] T[1] = "map" /\ T[2][1] # "string" ->
         v[1] = "pairs" /\ v[2] \in Seq(Range(v[2])) /\ \A i \in 1..Len(v[2]) : IsEntry(v[2][i], T)
    [] T[1] = "option" -> v[1] = "none" \/ (v[1] = "some" /\ v[2] \in Vals /\ HasType(v[2], T[2]))
    [] T[1] = "variant" ->
         v[1] = "case" /\ \E i \in 1..Len(T[2]) : v[2] = T[2][i][1] /\ HasPayload(v[3], T[2][i][2])
    [] T[1] = "result" ->
         (v[1] = "ok" /\ HasPayload(v[2], T[2])) \/ (v[1] = "err" /\ HasPayload(v[2], T[3]))
    [] T[1] = "resource" -> FALSE

\* What types, schemas and JSON are, parts of them being of the same set.
PartsOf(T) ==
  CASE T[1] \in {"list", "option"} -> {T[2]}
    [] T[1] \in {"record", "tuple"} -> Range(T[2])
    [] T[1] = "variant" -> {T[2][i][2] : i \in 1..Len(T[2])} \ {Unit}
    [] T[1] \in {"map", "result"} -> {T[2], T[3]} \ {Unit}
    [] OTHER -> {}

IsType(T) ==
  /\ \A U \in PartsOf(T) : U \in Types /\ Depth[U] < Depth[T]
  /\ T[1] \in {"bool", "int", "string", "bytes", "list", "record", "variant", "enum", "flags", "option",
               "result", "tuple", "map", "resource"}
  /\ T[1] = "int" => /\ T = <<"int", T[2], T[3]>> /\ T[2] \in Int /\ T[3] \in Int /\ T[2] <= T[3]
                     /\ T[2] \in Readable(T) /\ T[3] \in Readable(T)
  /\ T[1] = "list" => T[2] # <<"int", 0, 255>>
  /\ T[1] = "record" => T[2] \in [DOMAIN T[2] -> Types]
  /\ T[1] = "tuple" => T[2] \in Seq(Types)
  /\ T[1] = "variant" => /\ T[2] \in Seq(Range(T[2]))
                         /\ \A i, k \in 1..Len(T[2]) : T[2][i][1] = T[2][k][1] => i = k
  /\ T[1] = "map" => T[2] # Unit /\ T[3] # Unit

IsSchema(s) ==
  /\ s[1] \in {"array", "set", "map"} => s[2] \in Schemas
  /\ s[1] \in {"tuple", "oneOf"} => s[2] \in Seq(Schemas)
  /\ s[1] = "object" => s[2] \in [DOMAIN s[2] -> Schemas]
  /\ s[1] = "also" => s[2] \in Schemas /\ s[3] \in [DOMAIN s[3] -> Schemas]

IsJsonValue(j) ==
  /\ j[1] \in {"null", "bool", "num", "frac", "str", "bytes", "arr", "obj"}
  /\ j[1] = "null" => j = Null
  /\ j[1] # "null" => j = <<j[1], j[2]>>
  /\ j[1] \in {"num", "frac"} => j[2] \in Int
  /\ j[1] = "arr" => j[2] \in Seq(Jsons)
  /\ j[1] = "obj" => j[2] \in [DOMAIN j[2] -> Jsons] /\ Rest(j) \in Jsons

\* What arguments that are encoded become.
Encodings == {<<"bytes", <<"json", j>>>> : j \in Jsons} \cup {<<"bytes", j[2]>> : j \in {j \in Jsons : j[1] = "str"}}

ASSUME WidthAssumption ==
  /\ MinS64 \in Int /\ MinS64 < 0 /\ MaxS64 \in Nat /\ MaxU64 \in Nat /\ MaxS64 <= MaxU64

ASSUME ConversionAssumption ==
  /\ Depth \in [Types -> Nat]
  /\ \A T \in Types \cup {Unit} : IsInvokable(T) = IsInvokableBody(T)
  /\ \A T \in Types :
       /\ IsType(T)
       /\ JsonSchema(T) = JsonSchemaBody(T) /\ JsonSchema(T) \in Schemas
  /\ \A s \in Schemas : IsSchema(s) /\ \A j \in Jsons \cup {Error} : Accepts(s, j) = AcceptsBody(s, j)
  /\ Null \in Jsons /\ \A j \in Jsons : IsJsonValue(j)
  /\ \A T \in Types :
       /\ \A j \in Jsons : JsonToVal(j, T) \in Vals \cup {Error}
       /\ \A j \in Jsons \cup Encodings : JsonToVal(j, T) = JsonToValBody(j, T)
       /\ \A v \in Vals \cup Encodings : HasType(v, T) = HasTypeBody(v, T)
  /\ \A v \in Vals : ValToJson(v) = ValToJsonBody(v) /\ ValToJson(v) \in Jsons

-----------------------------------------------------------------------------
(* component.rs.                                                           *)

\* call_export: as many arguments as parameters, each converted to its type.
Arguments(args, types) ==
  IF Len(args) # Len(types) THEN Error
  ELSE All("args", [i \in 1..Len(args) |-> JsonToVal(args[i], types[i])])

\* convert_results: the error of a result is an error, and its ok is unwrapped. What
\* has no value is null (Component host).
ConvertResult(v) ==
  CASE v = Unit -> Null
    [] v[1] = "err" -> Error
    [] v[1] = "ok" -> IF v[2] = <<>> THEN Null ELSE ValToJson(v[2][1])
    [] OTHER -> ValToJson(v)

=============================================================================
