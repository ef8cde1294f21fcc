--------------------------- MODULE Invocation_proofs ---------------------------
(******************************************************************************)
(* What the value conversion and the message mapping promise each other, for  *)
(* every set of types, documents and setups that satisfies the assumptions.   *)
(* Types are finite trees: by induction on their depth, a document that the   *)
(* schema of a type accepts is converted to a value of that type, and a value *)
(* of a type becomes a document that the schema of the type accepts.  From    *)
(* these, and an inductive invariant that says what each phase of a request   *)
(* has established, the properties of Invocation follow for functions without *)
(* a mapping (of a request) or a template (of a result).                      *)
(******************************************************************************)
EXTENDS Invocation, FiniteSetTheorems, SequenceTheorems, WellFoundedInduction, TLAPS

\* What holds of a type when it holds of its parts holds of every type.
LEMMA TypeInduction ==
  ASSUME NEW S, \A T \in Types : (\A U \in PartsOf(T) : U \in S) => T \in S
  PROVE  Types \subseteq S
<1>1. Depth \in [Types -> Nat] /\ \A T \in Types : IsType(T)
  BY ConversionAssumption, Zenon
<1>. DEFINE Left == {T \in Types : T \notin S}
            Depths == {Depth[T] : T \in Left}
<1>2. SUFFICES ASSUME Left # {} PROVE FALSE
  OBVIOUS
<1>3. PICK d \in Depths : \A e \in Depths : <<e, d>> \notin OpToRel(<, Nat)
  <2>1. Depths \subseteq Nat /\ Depths # {}
    BY <1>1, <1>2
  <2>. QED
    BY <2>1, WFMin, NatLessThanWellFounded, Zenon
<1>4. PICK T \in Left : d = Depth[T]
  OBVIOUS
<1>5. \A U \in PartsOf(T) : U \in Types /\ Depth[U] < Depth[T]
  BY <1>1 DEF IsType
<1>6. \A U \in PartsOf(T) : U \in S
  <2>. SUFFICES ASSUME NEW U \in PartsOf(T), U \notin S PROVE FALSE
    OBVIOUS
  <2>1. Depth[U] \in Depths /\ Depth[U] \in Nat /\ d \in Nat /\ Depth[U] < d
    BY <1>1, <1>4, <1>5
  <2>. QED
    BY <1>3, <2>1 DEF OpToRel
<1>. QED
  BY <1>4, <1>6

-----------------------------------------------------------------------------
(* From JSON to values.                                                    *)

\* What a schema accepts converts, when its numbers are integers of 64 bits; what converts
\* has a value of the type that says the same.
Converts(T, j) ==
  Accepts(JsonSchema(T), j) =>
    /\ IsInvokable(T) /\ Whole(j, T) => JsonToVal(j, T) # Error
    /\ JsonToVal(j, T) # Error => HasType(JsonToVal(j, T), T) /\ Says(JsonToVal(j, T), j)

ConvertsBody(T, j) ==
  AcceptsBody(JsonSchemaBody(T), j) =>
    /\ IsInvokableBody(T) /\ WholeBody(j, T) => JsonToValBody(j, T) # Error
    /\ JsonToValBody(j, T) # Error => HasTypeBody(JsonToValBody(j, T), T) /\ SaysBody(JsonToValBody(j, T), j)

LEMMA ConvertsByBody ==
  ASSUME NEW T \in Types, NEW j \in Jsons
  PROVE  ConvertsBody(T, j) = Converts(T, j)
<1>1. /\ JsonSchema(T) = JsonSchemaBody(T) /\ JsonSchema(T) \in Schemas
      /\ IsInvokable(T) = IsInvokableBody(T)
      /\ JsonToVal(j, T) \in Vals \cup {Error} /\ JsonToVal(j, T) = JsonToValBody(j, T)
  BY ConversionAssumption, Zenon
<1>2. Accepts(JsonSchema(T), j) = AcceptsBody(JsonSchema(T), j)
  BY <1>1, ConversionAssumption, Zenon
<1>3. ASSUME JsonToVal(j, T) # Error
      PROVE  /\ HasType(JsonToVal(j, T), T) = HasTypeBody(JsonToVal(j, T), T)
             /\ Says(JsonToVal(j, T), j) = SaysBody(JsonToVal(j, T), j)
  BY <1>1, <1>3, ConversionAssumption, InvocationAssumption, Zenon
<1>4. Whole(j, T) = WholeBody(j, T)
  BY InvocationAssumption, Zenon
<1>. QED
  BY <1>1, <1>2, <1>3, <1>4 DEF Converts, ConvertsBody

\* Without a fraction in it, nor is there one in its parts.
LEMMA WholeParts ==
  ASSUME NEW T \in Types, NEW j \in Jsons, WholeBody(j, T)
  PROVE  /\ \A U \in PartsOf(T) : Whole(j, U)
         /\ j[1] \in {"arr", "obj"} => \A i \in DOMAIN j[2] : Whole(j[2][i], T)
BY DEF WholeBody

\* The parts of an array or an object, read as the parts of its type.
LEMMA WholeWithin ==
  ASSUME NEW T \in Types, NEW j \in Jsons, WholeBody(j, T), j[1] \in {"arr", "obj"},
         NEW i \in DOMAIN j[2], j[2][i] \in Jsons
  PROVE  WholeBody(j[2][i], T) /\ \A U \in PartsOf(T) : Whole(j[2][i], U)
<1>1. Whole(j[2][i], T)
  BY WholeParts
<1>2. WholeBody(j[2][i], T)
  BY <1>1, InvocationAssumption, Zenon
<1>. QED
  BY <1>2, WholeParts

\* Types, JSON and conversions are data.
LEMMA TypeIs ==
  ASSUME NEW T \in Types
  PROVE  IsType(T) /\ JsonSchema(T) \in Schemas /\ \A U \in PartsOf(T) : U \in Types
BY ConversionAssumption DEF IsType

LEMMA JsonIs ==
  ASSUME NEW j \in Jsons
  PROVE  IsJsonValue(j) /\ j # Error
BY ConversionAssumption DEF IsJsonValue, Error

LEMMA ConvertedIs ==
  ASSUME NEW T \in Types, NEW j \in Jsons
  PROVE  JsonToVal(j, T) \in Vals \cup {Error}
BY ConversionAssumption

LEMMA InRange ==
  ASSUME NEW lo \in Int, NEW hi \in Int, NEW n \in Int, lo <= n, n <= hi
  PROVE  lo + ((n - lo) % (hi - lo + 1)) = n
OBVIOUS

LEMMA ScalarConverts ==
  ASSUME NEW T \in Types, NEW j \in Jsons, T[1] \in {"bool", "string", "bytes", "int", "resource"}
  PROVE  ConvertsBody(T, j)
<1>1. IsType(T) /\ IsJsonValue(j) /\ j # Error
  BY TypeIs, JsonIs
<1>2. CASE T[1] = "bool"
  BY <1>1, <1>2 DEF ConvertsBody, AcceptsBody, JsonSchemaBody, JsonToValBody, HasTypeBody, SaysBody
<1>3. CASE T[1] = "string"
  BY <1>1, <1>3 DEF ConvertsBody, AcceptsBody, JsonSchemaBody, JsonToValBody, HasTypeBody, SaysBody
<1>4. CASE T[1] = "bytes"
  <2>1. JsonSchemaBody(T) = <<"array", Byte>> /\ JsonToValBody(j, T) = IF j[1] = "bytes" THEN j ELSE Error
    BY <1>4 DEF JsonSchemaBody, JsonToValBody
  <2>2. AcceptsBody(<<"array", Byte>>, j) <=> j[1] = "bytes" \/ FractionalBytes(j)
    BY DEF AcceptsBody
  <2>3. ASSUME FractionalBytes(j) PROVE ~WholeBody(j, T)
    <3>1. j[1] = "arr" /\ j[2] \in Seq(Jsons) /\ \E i \in 1..Len(j[2]) : j[2][i][1] = "frac"
      BY <1>1, <2>3 DEF FractionalBytes, IsJsonValue
    <3>2. PICK i \in DOMAIN j[2] : j[2][i] \in Jsons /\ j[2][i][1] = "frac"
      BY <3>1
    <3>3. WholeBody(j, T) => WholeBody(j[2][i], T)
      BY <3>1, <3>2, WholeWithin
    <3>. QED
      BY <3>2, <3>3 DEF WholeBody
  <2>4. j[1] = "bytes" => j # Error /\ HasTypeBody(j, T) /\ SaysBody(j, j)
    BY <1>1, <1>4 DEF HasTypeBody, SaysBody
  <2>. QED
    BY <2>1, <2>2, <2>3, <2>4 DEF ConvertsBody
<1>5. CASE T[1] = "int"
  <2>1. T = <<"int", T[2], T[3]>> /\ T[2] \in Int /\ T[3] \in Int /\ T[2] <= T[3]
    BY <1>1, <1>5 DEF IsType
  <2>2. JsonSchemaBody(T) = IntSchema(T)
    BY <1>5 DEF JsonSchemaBody
  <2>3. JsonToValBody(j, T) = ToInt(j, T)
    BY <1>5 DEF JsonToValBody
  <2>4. SUFFICES ASSUME AcceptsBody(IntSchema(T), j) PROVE ConvertsBody(T, j)
    BY <2>2 DEF ConvertsBody
  <2>5. /\ j[1] \in {"num", "frac"} /\ j = <<j[1], j[2]>> /\ j[2] \in Int
        /\ j[1] = "num" => T = S64 \/ T[2] <= j[2]
        /\ j[1] = "num" => T \in {U64, S64} \/ j[2] <= T[3]
    <3>1. Bounded(j, IF T = S64 THEN {} ELSE {T[2]}, IF T \in {U64, S64} THEN {} ELSE {T[3]})
      BY <2>4 DEF AcceptsBody, IntSchema
    <3>2. j[1] \in {"num", "frac"}
      BY <3>1 DEF Bounded
    <3>. QED
      BY <1>1, <3>1, <3>2 DEF Bounded, IsJsonValue
  \* What is read lies within the range of the type.
  <2>6. ASSUME j[1] = "num", j[2] \in Readable(T)
        PROVE  ToInt(j, T) = <<"int", j[2]>> /\ j[2] \in T[2]..T[3]
    <3>1. T[2] <= j[2] /\ j[2] <= T[3]
      <4>1. T = U64 => T[2] = 0 /\ T[3] = MaxU64 /\ j[2] \in 0..MaxU64
        BY <2>6 DEF U64, Readable, Unsigned
      <4>2. T = S64 => T[2] = MinS64 /\ T[3] = MaxS64 /\ j[2] \in MinS64..MaxS64
        BY <2>6, WidthAssumption DEF S64, Readable, Unsigned
      <4>. QED
        BY <2>1, <2>5, <2>6, <4>1, <4>2, WidthAssumption
    <3>2. Wrap(j[2], T) = j[2]
      BY <2>1, <2>5, <3>1, InRange DEF Wrap
    <3>. QED
      BY <2>1, <2>5, <2>6, <3>1, <3>2 DEF ToInt
  <2>7. ToInt(j, T) # Error => j[1] = "num" /\ j[2] \in Readable(T)
    BY <2>5 DEF ToInt
  <2>8. ASSUME WholeBody(j, T) PROVE ToInt(j, T) # Error
    <3>1. j[1] = "num" /\ j[2] \in MinS64..(IF Unsigned(T) THEN MaxU64 ELSE MaxS64)
      BY <1>5, <2>5, <2>8 DEF WholeBody
    <3>2. Unsigned(T) => 0 <= j[2]
      <4>1. T = S64 => ~Unsigned(T)
        BY WidthAssumption DEF S64, Unsigned
      <4>. QED
        BY <2>5, <3>1, <4>1 DEF Unsigned
    <3>3. j[2] \in Readable(T)
      BY <3>1, <3>2, WidthAssumption DEF Readable
    <3>. QED
      BY <2>6, <3>1, <3>3 DEF Error
  <2>9. ASSUME NEW n \in T[2]..T[3], j = <<"num", n>>
        PROVE  HasTypeBody(<<"int", n>>, T) /\ SaysBody(<<"int", n>>, j)
    BY <1>5, <2>9 DEF HasTypeBody, SaysBody
  <2>. QED
    BY <2>3, <2>5, <2>6, <2>7, <2>8, <2>9 DEF ConvertsBody
<1>6. CASE T[1] = "resource"
  BY <1>6 DEF ConvertsBody, IsInvokableBody, JsonToValBody
<1>. QED
  BY <1>2, <1>3, <1>4, <1>5, <1>6

\* That the parts of a type convert.
PartsConvert(T) == \A U \in PartsOf(T) : \A k \in Jsons : Converts(U, k)

LEMMA AllParts ==
  ASSUME NEW kind, kind # "error", NEW parts
  PROVE  /\ All(kind, parts) # Error => All(kind, parts) = <<kind, parts>>
         /\ All(kind, parts) # Error <=> \A i \in DOMAIN parts : parts[i] # Error
<1>1. <<kind, parts>> # Error
  BY DEF Error
<1>. QED
  BY <1>1 DEF All

LEMMA MadeSeq ==
  ASSUME NEW n \in Nat, NEW S, NEW f \in [1..n -> S]
  PROVE  f \in Seq(S) /\ Len(f) = n
BY IsASeq, LenProperties

LEMMA NamesConvert ==
  ASSUME NEW T \in Types, NEW j \in Jsons, T[1] \in {"enum", "flags"}
  PROVE  ConvertsBody(T, j)
<1>1. IsType(T) /\ IsJsonValue(j) /\ j # Error /\ JsonSchema(T) \in Schemas
  BY TypeIs, JsonIs
<1>2. CASE T[1] = "enum"
  <2>1. JsonSchemaBody(T) = <<"enum", T[2]>>
    BY <1>2 DEF JsonSchemaBody
  <2>2. SUFFICES ASSUME NEW c \in T[2], j = Str(c) PROVE ConvertsBody(T, j)
    BY <2>1 DEF ConvertsBody, AcceptsBody
  <2>3. JsonToValBody(j, T) = <<"enum", j>>
    BY <1>2, <2>2 DEF JsonToValBody
  <2>. QED
    BY <1>2, <2>2, <2>3 DEF ConvertsBody, HasTypeBody, SaysBody, Error
<1>3. CASE T[1] = "flags"
  <2>1. JsonSchemaBody(T) = <<"set", <<"enum", T[2]>>>> /\ JsonSchemaBody(T) \in Schemas
    BY <1>1, <1>3, ConversionAssumption DEF JsonSchemaBody
  <2>2. <<"enum", T[2]>> \in Schemas
    BY <2>1, ConversionAssumption DEF IsSchema
  <2>3. SUFFICES ASSUME AcceptsBody(JsonSchemaBody(T), j) PROVE ConvertsBody(T, j)
    BY DEF ConvertsBody
  <2>4. j[1] = "arr" /\ IsInjective(j[2]) /\ \A i \in 1..Len(j[2]) : Accepts(<<"enum", T[2]>>, j[2][i])
    BY <2>1, <2>3 DEF AcceptsBody
  <2>5. j = <<"arr", j[2]>> /\ j[2] \in Seq(Jsons)
    BY <1>1, <2>4 DEF IsJsonValue
  <2>6. ASSUME NEW i \in 1..Len(j[2]) PROVE \E c \in T[2] : j[2][i] = Str(c)
    <3>1. j[2][i] \in Jsons
      BY <2>5
    <3>2. AcceptsBody(<<"enum", T[2]>>, j[2][i])
      BY <2>2, <2>4, <3>1, ConversionAssumption
    <3>. QED
      BY <3>2 DEF AcceptsBody
  <2>7. j[2] \in Seq({Str(c) : c \in T[2]})
    BY <2>5, <2>6
  <2>8. JsonToValBody(j, T) = <<"flags", j>>
    BY <1>3, <2>4, <2>6 DEF JsonToValBody
  <2>. QED
    BY <1>3, <2>4, <2>7, <2>8 DEF ConvertsBody, HasTypeBody, SaysBody, Error
<1>. QED
  BY <1>2, <1>3

LEMMA ByteSchema ==
  ASSUME NEW T \in Types, JsonSchema(T) = Byte
  PROVE  T = <<"int", 0, 255>>
<1>1. IsType(T) /\ JsonSchemaBody(T) = Byte
  BY TypeIs, ConversionAssumption
<1>2. CASE T[1] = "int"
  <2>1. JsonSchemaBody(T) = IntSchema(T)
    BY <1>2 DEF JsonSchemaBody
  <2>2. T = <<"int", T[2], T[3]>>
    BY <1>1, <1>2 DEF IsType
  <2>3. T[2] = 0 /\ T[3] = 255
    <3>1. /\ (IF T = S64 THEN {} ELSE {T[2]}) = {0}
          /\ (IF T \in {U64, S64} THEN {} ELSE {T[3]}) = {255}
      BY <1>1, <2>1 DEF IntSchema, Byte
    <3>. QED
      BY <3>1
  <2>. QED
    BY <2>2, <2>3
<1>3. CASE T[1] # "int"
  <2>1. JsonSchemaBody(T)[1] # "number"
    BY <1>1, <1>3 DEF IsType, JsonSchemaBody, RecordSchema
  <2>. QED
    BY <1>1, <2>1 DEF Byte
<1>. QED
  BY <1>2, <1>3

LEMMA ListConverts ==
  ASSUME NEW T \in Types, NEW j \in Jsons, T[1] = "list", PartsConvert(T)
  PROVE  ConvertsBody(T, j)
<1>1. IsType(T) /\ IsJsonValue(j) /\ T[2] \in PartsOf(T) /\ T[2] \in Types
  BY TypeIs, JsonIs DEF PartsOf
<1>2. JsonSchemaBody(T) = <<"array", JsonSchema(T[2])>> /\ JsonSchema(T[2]) # Byte
  BY <1>1, ByteSchema DEF JsonSchemaBody, IsType
<1>3. SUFFICES ASSUME AcceptsBody(JsonSchemaBody(T), j) PROVE ConvertsBody(T, j)
  BY DEF ConvertsBody
<1>4. j[1] = "arr" /\ j[2] \in Seq(Jsons) /\ \A i \in 1..Len(j[2]) : Accepts(JsonSchema(T[2]), j[2][i])
  BY <1>1, <1>2, <1>3 DEF AcceptsBody, IsJsonValue
<1>. DEFINE parts == [i \in 1..Len(j[2]) |-> JsonToVal(j[2][i], T[2])]
<1>5. \A i \in 1..Len(j[2]) :
        /\ IsInvokable(T[2]) /\ WholeBody(j, T) => parts[i] # Error
        /\ parts[i] # Error => parts[i] \in Vals /\ HasType(parts[i], T[2]) /\ Says(parts[i], j[2][i])
  <2>1. \A i \in 1..Len(j[2]) : j[2][i] \in Jsons /\ (WholeBody(j, T) => Whole(j[2][i], T[2]))
    BY <1>1, <1>4, WholeWithin
  <2>. QED
    BY <1>1, <1>4, <2>1, ConvertedIs DEF PartsConvert, Converts
<1>6. JsonToValBody(j, T) = All("list", parts)
  BY <1>4 DEF JsonToValBody
<1>7. IsInvokableBody(T) = IsInvokable(T[2])
  BY DEF IsInvokableBody
<1>8. ASSUME All("list", parts) # Error
      PROVE  HasTypeBody(<<"list", parts>>, T) /\ SaysBody(<<"list", parts>>, j)
  <2>1. \A i \in 1..Len(j[2]) : parts[i] # Error
    BY <1>8, AllParts
  <2>2. DOMAIN parts = 1..Len(j[2]) /\ Len(j[2]) \in Nat
    BY <1>4
  <2>3. \A i \in 1..Len(j[2]) : parts[i] \in Vals
    BY <1>5, <2>1, Zenon
  <2>. parts = [i \in DOMAIN parts |-> parts[i]]
    OBVIOUS
  <2>. HIDE DEF parts
  <2>4. parts \in Seq(Vals) /\ Len(parts) = Len(j[2])
    BY <2>2, <2>3, MadeSeq
  <2>5. \A i \in 1..Len(parts) : HasType(parts[i], T[2]) /\ Says(parts[i], j[2][i])
    BY <1>5, <2>1, <2>4
  <2>. QED
    BY <1>4, <2>4, <2>5 DEF HasTypeBody, SaysBody, SaysParts
<1>. QED
  BY <1>5, <1>6, <1>7, <1>8, AllParts DEF ConvertsBody

LEMMA TupleConverts ==
  ASSUME NEW T \in Types, NEW j \in Jsons, T[1] = "tuple", PartsConvert(T)
  PROVE  ConvertsBody(T, j)
<1>1. IsType(T) /\ IsJsonValue(j) /\ T[2] \in Seq(Types) /\ Len(T[2]) \in Nat
  <2>1. IsType(T) /\ IsJsonValue(j)
    BY TypeIs, JsonIs
  <2>. QED
    BY <2>1 DEF IsType
<1>2. \A i \in 1..Len(T[2]) : T[2][i] \in Types /\ T[2][i] \in PartsOf(T)
  BY <1>1 DEF PartsOf, Range
<1>. DEFINE schemas1 == [i \in 1..Len(T[2]) |-> JsonSchema(T[2][i])]
<1>3. JsonSchemaBody(T) = <<"tuple", schemas1>> /\ Len(schemas1) = Len(T[2])
  BY <1>1, MadeSeq DEF JsonSchemaBody
<1>4. SUFFICES ASSUME AcceptsBody(JsonSchemaBody(T), j) PROVE ConvertsBody(T, j)
  BY DEF ConvertsBody
<1>5. /\ j[1] = "arr" /\ j[2] \in Seq(Jsons) /\ Len(j[2]) = Len(T[2])
      /\ \A i \in 1..Len(T[2]) : Accepts(JsonSchema(T[2][i]), j[2][i])
  <2>1. AcceptsBody(<<"tuple", schemas1>>, j)
    BY <1>3, <1>4
  <2>2. j[1] = "arr" /\ Len(j[2]) = Len(schemas1) /\ \A i \in 1..Len(schemas1) : Accepts(schemas1[i], j[2][i])
    <3>. HIDE DEF schemas1
    <3>. QED
      BY <2>1 DEF AcceptsBody
  <2>. QED
    BY <1>1, <1>3, <2>2 DEF IsJsonValue
<1>. DEFINE parts == [i \in 1..Len(T[2]) |-> JsonToVal(j[2][i], T[2][i])]
<1>6. \A i \in 1..Len(T[2]) :
        /\ IsInvokable(T[2][i]) /\ WholeBody(j, T) => parts[i] # Error
        /\ parts[i] # Error => parts[i] \in Vals /\ HasType(parts[i], T[2][i]) /\ Says(parts[i], j[2][i])
  <2>1. \A i \in 1..Len(T[2]) : j[2][i] \in Jsons /\ (WholeBody(j, T) => Whole(j[2][i], T[2][i]))
    BY <1>2, <1>5, WholeWithin
  <2>. QED
    BY <1>2, <1>5, <2>1, ConvertedIs DEF PartsConvert, Converts
<1>7. JsonToValBody(j, T) = All("tuple", parts)
  BY <1>5 DEF JsonToValBody
<1>8. IsInvokableBody(T) = \A i \in 1..Len(T[2]) : IsInvokable(T[2][i])
  BY DEF IsInvokableBody
<1>9. ASSUME All("tuple", parts) # Error
      PROVE  HasTypeBody(<<"tuple", parts>>, T) /\ SaysBody(<<"tuple", parts>>, j)
  <2>1. \A i \in 1..Len(T[2]) : parts[i] # Error
    BY <1>9, AllParts
  <2>2. DOMAIN parts = 1..Len(T[2])
    OBVIOUS
  <2>3. \A i \in 1..Len(T[2]) : parts[i] \in Vals
    BY <1>6, <2>1, Zenon
  <2>. parts = [i \in DOMAIN parts |-> parts[i]]
    OBVIOUS
  <2>. HIDE DEF parts
  <2>4. parts \in Seq(Vals) /\ Len(parts) = Len(T[2])
    BY <1>1, <2>2, <2>3, MadeSeq
  <2>5. \A i \in 1..Len(T[2]) : HasType(parts[i], T[2][i]) /\ Says(parts[i], j[2][i])
    BY <1>6, <2>1
  <2>. QED
    BY <1>5, <2>4, <2>5 DEF HasTypeBody, SaysBody, SaysParts
<1>. QED
  BY <1>6, <1>7, <1>8, <1>9, AllParts DEF ConvertsBody

LEMMA AbsentIsNone ==
  ASSUME NEW T \in Types, IsOptional(T)
  PROVE  <<"none">> \in Vals /\ HasType(<<"none">>, T) /\ JsonToVal(Null, T) = <<"none">> /\ <<"none">> # Error
<1>1. JsonToVal(Null, T) = JsonToValBody(Null, T) /\ JsonToVal(Null, T) \in Vals \cup {Error}
  BY ConversionAssumption
<1>2. JsonToValBody(Null, T) = <<"none">> /\ <<"none">> # Error
  BY DEF JsonToValBody, ToOption, IsOptional, Error
<1>3. HasTypeBody(<<"none">>, T)
  BY DEF HasTypeBody, IsOptional
<1>. QED
  BY <1>1, <1>2, <1>3, ConversionAssumption

LEMMA RecordConverts ==
  ASSUME NEW T \in Types, NEW j \in Jsons, T[1] = "record", PartsConvert(T)
  PROVE  ConvertsBody(T, j)
<1>1. IsType(T) /\ IsJsonValue(j) /\ T[2] \in [DOMAIN T[2] -> Types]
  <2>1. IsType(T) /\ IsJsonValue(j)
    BY TypeIs, JsonIs
  <2>. QED
    BY <2>1 DEF IsType
<1>2. \A f \in DOMAIN T[2] : T[2][f] \in Types /\ T[2][f] \in PartsOf(T)
  BY <1>1 DEF PartsOf, Range
<1>3. SUFFICES ASSUME AcceptsBody(JsonSchemaBody(T), j) PROVE ConvertsBody(T, j)
  BY DEF ConvertsBody
<1>4. /\ j[1] = "obj" /\ j[2] \in [DOMAIN j[2] -> Jsons] /\ DOMAIN j[2] \subseteq DOMAIN T[2]
      /\ \A f \in DOMAIN T[2] \ DOMAIN j[2] : IsOptional(T[2][f])
      /\ \A f \in DOMAIN j[2] : Accepts(JsonSchema(T[2][f]), j[2][f])
  <2>. DEFINE props == [f \in DOMAIN T[2] |-> JsonSchema(T[2][f])]
              req == {f \in DOMAIN T[2] : ~IsOptional(T[2][f])}
  <2>1. AcceptsBody(<<"object", props, req>>, j)
    BY <1>3 DEF JsonSchemaBody, RecordSchema
  <2>2. DOMAIN props = DOMAIN T[2]
    OBVIOUS
  <2>3. j[1] = "obj" /\ DOMAIN j[2] \subseteq DOMAIN props /\ HasProperties(j, props, req)
    <3>. HIDE DEF props, req
    <3>. QED
      BY <2>1 DEF AcceptsBody
  <2>. QED
    BY <1>1, <2>2, <2>3 DEF HasProperties, IsJsonValue
<1>. DEFINE parts == [f \in DOMAIN T[2] |->
                        IF f \in DOMAIN j[2] THEN JsonToVal(j[2][f], T[2][f])
                        ELSE IF IsOptional(T[2][f]) THEN <<"none">> ELSE Error]
<1>5. ASSUME NEW f \in DOMAIN T[2]
      PROVE  /\ IsInvokable(T[2][f]) /\ WholeBody(j, T) => parts[f] # Error
             /\ parts[f] # Error =>
                  /\ parts[f] \in Vals /\ HasType(parts[f], T[2][f])
                  /\ IF f \in DOMAIN j[2] THEN Says(parts[f], j[2][f]) ELSE parts[f][1] = "none"
  <2>1. CASE f \in DOMAIN j[2]
    <3>1. parts[f] = JsonToVal(j[2][f], T[2][f]) /\ j[2][f] \in Jsons
      BY <1>4, <2>1
    <3>2. WholeBody(j, T) => Whole(j[2][f], T[2][f])
      BY <1>2, <1>4, <2>1, <3>1, WholeWithin
    <3>. QED
      BY <1>2, <1>4, <2>1, <3>1, <3>2, ConvertedIs DEF PartsConvert, Converts
  <2>2. CASE f \notin DOMAIN j[2]
    <3>1. parts[f] = <<"none">>
      BY <1>4, <2>2
    <3>. QED
      BY <1>2, <1>4, <2>2, <3>1, AbsentIsNone
  <2>. QED
    BY <2>1, <2>2
<1>6. JsonToValBody(j, T) = All("record", parts)
  <2>1. JsonToValBody(j, T) = ToRecord(j, T)
    BY DEF JsonToValBody
  <2>. QED
    BY <1>4, <2>1 DEF ToRecord
<1>7. IsInvokableBody(T) = \A f \in DOMAIN T[2] : IsInvokable(T[2][f])
  BY DEF IsInvokableBody
<1>8. ASSUME All("record", parts) # Error
      PROVE  HasTypeBody(<<"record", parts>>, T) /\ SaysBody(<<"record", parts>>, j)
  <2>1. \A f \in DOMAIN T[2] : parts[f] # Error
    BY <1>8, AllParts
  <2>2. DOMAIN parts = DOMAIN T[2]
    OBVIOUS
  <2>3. \A f \in DOMAIN T[2] : parts[f] \in Vals
    BY <1>5, <2>1, Zenon
  <2>. parts = [f \in DOMAIN parts |-> parts[f]]
    OBVIOUS
  <2>. HIDE DEF parts
  <2>. QED
    BY <1>4, <1>5, <2>1, <2>2, <2>3 DEF HasTypeBody, SaysBody
<1>9. DOMAIN parts = DOMAIN T[2]
  OBVIOUS
<1>. HIDE DEF parts
<1>. QED
  BY <1>5, <1>6, <1>7, <1>8, <1>9, AllParts DEF ConvertsBody

LEMMA NamedMapConverts ==
  ASSUME NEW T \in Types, NEW j \in Jsons, T[1] = "map", T[2][1] = "string", PartsConvert(T)
  PROVE  ConvertsBody(T, j)
<1>1. IsType(T) /\ IsJsonValue(j) /\ T[3] # Unit
  <2>1. IsType(T) /\ IsJsonValue(j)
    BY TypeIs, JsonIs
  <2>. QED
    BY <2>1 DEF IsType
<1>2. T[3] \in PartsOf(T) /\ T[3] \in Types
  BY <1>1, TypeIs DEF PartsOf
<1>3. JsonSchemaBody(T) = <<"map", JsonSchema(T[3])>>
  BY DEF JsonSchemaBody
<1>4. SUFFICES ASSUME AcceptsBody(JsonSchemaBody(T), j) PROVE ConvertsBody(T, j)
  BY DEF ConvertsBody
<1>5. j[1] = "obj" /\ j[2] \in [DOMAIN j[2] -> Jsons] /\ \A k \in DOMAIN j[2] : Accepts(JsonSchema(T[3]), j[2][k])
  BY <1>1, <1>3, <1>4 DEF AcceptsBody, IsJsonValue
<1>. DEFINE parts == [k \in DOMAIN j[2] |-> JsonToVal(j[2][k], T[3])]
<1>6. \A k \in DOMAIN j[2] :
        /\ IsInvokable(T[3]) /\ WholeBody(j, T) => parts[k] # Error
        /\ parts[k] # Error => parts[k] \in Vals /\ HasType(parts[k], T[3]) /\ Says(parts[k], j[2][k])
  <2>1. \A k \in DOMAIN j[2] : j[2][k] \in Jsons /\ (WholeBody(j, T) => Whole(j[2][k], T[3]))
    BY <1>2, <1>5, WholeWithin
  <2>. QED
    BY <1>2, <1>5, <2>1, ConvertedIs DEF PartsConvert, Converts
<1>7. JsonToValBody(j, T) = All("map", parts)
  BY <1>5 DEF JsonToValBody, ToMap
<1>8. IsInvokableBody(T) => IsInvokable(T[3])
  BY DEF IsInvokableBody
<1>9. ASSUME All("map", parts) # Error
      PROVE  HasTypeBody(<<"map", parts>>, T) /\ SaysBody(<<"map", parts>>, j)
  <2>1. \A k \in DOMAIN j[2] : parts[k] # Error
    BY <1>9, AllParts
  <2>2. DOMAIN parts = DOMAIN j[2]
    OBVIOUS
  <2>3. \A k \in DOMAIN j[2] : parts[k] \in Vals
    BY <1>6, <2>1, Zenon
  <2>. parts = [k \in DOMAIN parts |-> parts[k]]
    OBVIOUS
  <2>. HIDE DEF parts
  <2>. QED
    BY <1>5, <1>6, <2>1, <2>2, <2>3 DEF HasTypeBody, SaysBody
<1>10. DOMAIN parts = DOMAIN j[2]
  OBVIOUS
<1>. HIDE DEF parts
<1>. QED
  BY <1>6, <1>7, <1>8, <1>9, <1>10, AllParts DEF ConvertsBody

LEMMA EntryConverts ==
  ASSUME NEW T \in Types, T[1] = "map", PartsConvert(T), NEW p \in Jsons,
         AcceptsBody(<<"tuple", <<JsonSchema(T[2]), JsonSchema(T[3])>>>>, p)
  PROVE  /\ IsInvokable(T[2]) /\ IsInvokable(T[3]) /\ WholeBody(p, T) => ToEntry(p, T) # Error
         /\ ToEntry(p, T) # Error => IsEntry(ToEntry(p, T), T) /\ SaysParts(ToEntry(p, T), p)
<1>1. IsType(T) /\ IsJsonValue(p) /\ T[2] # Unit /\ T[3] # Unit
  <2>1. IsType(T) /\ IsJsonValue(p)
    BY TypeIs, JsonIs
  <2>. QED
    BY <2>1 DEF IsType
<1>2. T[2] \in PartsOf(T) /\ T[3] \in PartsOf(T) /\ T[2] \in Types /\ T[3] \in Types
  BY <1>1, TypeIs DEF PartsOf
<1>3. p[1] = "arr" /\ p[2] \in Seq(Jsons) /\ Len(p[2]) = 2
  BY <1>1 DEF AcceptsBody, IsJsonValue
<1>4. /\ p[2][1] \in Jsons /\ p[2][2] \in Jsons
      /\ Accepts(JsonSchema(T[2]), p[2][1]) /\ Accepts(JsonSchema(T[3]), p[2][2])
  BY <1>3 DEF AcceptsBody
<1>. DEFINE k == JsonToVal(p[2][1], T[2])
            v == JsonToVal(p[2][2], T[3])
<1>0. WholeBody(p, T) => Whole(p[2][1], T[2]) /\ Whole(p[2][2], T[3])
  BY <1>2, <1>3, <1>4, WholeWithin
<1>5. /\ IsInvokable(T[2]) /\ WholeBody(p, T) => k # Error
      /\ k # Error => k \in Vals /\ HasType(k, T[2]) /\ Says(k, p[2][1])
  BY <1>2, <1>4, <1>0, ConvertedIs DEF PartsConvert, Converts
<1>6. /\ IsInvokable(T[3]) /\ WholeBody(p, T) => v # Error
      /\ v # Error => v \in Vals /\ HasType(v, T[3]) /\ Says(v, p[2][2])
  BY <1>2, <1>4, <1>0, ConvertedIs DEF PartsConvert, Converts
<1>7. ToEntry(p, T) = All("pair", <<k, v>>)
  BY <1>3 DEF ToEntry
<1>. HIDE DEF k, v
<1>8. (\A i \in DOMAIN <<k, v>> : <<k, v>>[i] # Error) <=> k # Error /\ v # Error
  OBVIOUS
<1>9. ASSUME k # Error, v # Error
      PROVE  IsEntry(<<"pair", <<k, v>>>>, T) /\ SaysParts(<<"pair", <<k, v>>>>, p)
  BY <1>3, <1>5, <1>6, <1>9 DEF IsEntry, SaysParts
<1>. QED
  BY <1>5, <1>6, <1>7, <1>8, <1>9, AllParts

LEMMA PairsConvert ==
  ASSUME NEW T \in Types, NEW j \in Jsons, T[1] = "map", T[2][1] # "string", PartsConvert(T)
  PROVE  ConvertsBody(T, j)
<1>1. IsJsonValue(j) /\ JsonSchema(T) \in Schemas
  BY TypeIs, JsonIs
<1>. DEFINE entry == <<"tuple", <<JsonSchema(T[2]), JsonSchema(T[3])>>>>
<1>2. JsonSchemaBody(T) = <<"array", entry>> /\ entry # Byte
  BY DEF JsonSchemaBody, Byte
<1>3. entry \in Schemas
  BY <1>1, <1>2, ConversionAssumption DEF IsSchema
<1>. HIDE DEF entry
<1>4. SUFFICES ASSUME AcceptsBody(JsonSchemaBody(T), j) PROVE ConvertsBody(T, j)
  BY DEF ConvertsBody
<1>5. j[1] = "arr" /\ j[2] \in Seq(Jsons) /\ \A i \in 1..Len(j[2]) : Accepts(entry, j[2][i])
  BY <1>1, <1>2, <1>4 DEF AcceptsBody, IsJsonValue
<1>. DEFINE parts == [i \in 1..Len(j[2]) |-> ToEntry(j[2][i], T)]
<1>6. ASSUME NEW i \in 1..Len(j[2])
      PROVE  /\ IsInvokable(T[2]) /\ IsInvokable(T[3]) /\ WholeBody(j, T) => parts[i] # Error
             /\ parts[i] # Error => IsEntry(parts[i], T) /\ SaysParts(parts[i], j[2][i])
  <2>1. j[2][i] \in Jsons /\ AcceptsBody(entry, j[2][i])
    BY <1>3, <1>5, ConversionAssumption
  <2>2. WholeBody(j, T) => WholeBody(j[2][i], T)
    BY <1>5, <2>1, WholeWithin
  <2>. QED
    BY <2>1, <2>2, EntryConverts DEF entry
<1>7. JsonToValBody(j, T) = All("pairs", parts)
  BY <1>5 DEF JsonToValBody, ToMap
<1>8. IsInvokableBody(T) = (IsInvokable(T[2]) /\ IsInvokable(T[3]))
  BY DEF IsInvokableBody
<1>9. DOMAIN parts = 1..Len(j[2]) /\ parts = [i \in DOMAIN parts |-> parts[i]]
  OBVIOUS
<1>. HIDE DEF parts
<1>10. ASSUME All("pairs", parts) # Error
      PROVE  HasTypeBody(<<"pairs", parts>>, T) /\ SaysBody(<<"pairs", parts>>, j)
  <2>1. \A i \in 1..Len(j[2]) : parts[i] # Error
    BY <1>9, <1>10, AllParts
  <2>2. parts \in Seq(Range(parts)) /\ Len(parts) = Len(j[2])
    BY <1>5, <1>9, MadeSeq DEF Range
  <2>. QED
    BY <1>5, <1>6, <2>1, <2>2 DEF HasTypeBody, SaysBody
<1>. QED
  BY <1>6, <1>7, <1>8, <1>9, <1>10, AllParts DEF ConvertsBody

\* One of several schemas accepts.
LEMMA OneAccepts ==
  ASSUME NEW s, Len(s) \in Nat, NEW j
  PROVE  AcceptsBody(<<"oneOf", s>>, j) <=>
           \E i \in 1..Len(s) : Accepts(s[i], j) /\ \A k \in 1..Len(s) : Accepts(s[k], j) => k = i
<1>. DEFINE those == {i \in 1..Len(s) : Accepts(s[i], j)}
<1>1. AcceptsBody(<<"oneOf", s>>, j) <=> Cardinality(those) = 1
  BY DEF AcceptsBody
<1>2. IsFiniteSet(those)
  <2>1. IsFiniteSet(1..Len(s))
    BY FS_Interval
  <2>. QED
    BY <2>1, FS_Subset
<1>3. Cardinality(those) = 1 <=> \E i : those = {i}
  BY <1>2, FS_Singleton
<1>4. ASSUME NEW i, those = {i}
      PROVE  \E k \in 1..Len(s) : Accepts(s[k], j) /\ \A l \in 1..Len(s) : Accepts(s[l], j) => l = k
  <2>1. i \in 1..Len(s) /\ Accepts(s[i], j)
    BY <1>4
  <2>2. \A l \in 1..Len(s) : Accepts(s[l], j) => l = i
    BY <1>4
  <2>. QED
    BY <2>1, <2>2
<1>5. ASSUME NEW i \in 1..Len(s), Accepts(s[i], j), \A k \in 1..Len(s) : Accepts(s[k], j) => k = i
      PROVE  those = {i}
  BY <1>5
<1>. QED
  BY <1>1, <1>3, <1>4, <1>5, Zenon

LEMMA SchemaIs ==
  ASSUME NEW s \in Schemas
  PROVE  IsSchema(s) /\ \A j \in Jsons \cup {Error} : Accepts(s, j) = AcceptsBody(s, j)
BY ConversionAssumption

LEMMA NullSchema ==
  ASSUME NEW j \in Jsons, Null \in Schemas
  PROVE  Accepts(Null, j) <=> j = Null
<1>1. Accepts(Null, j) = AcceptsBody(Null, j) /\ IsJsonValue(j)
  BY SchemaIs, JsonIs
<1>. QED
  BY <1>1 DEF AcceptsBody, IsJsonValue, Null

LEMMA OptionSchema ==
  ASSUME NEW T \in Types, T[1] = "option"
  PROVE  /\ T[2] \in Types /\ T[2] \in PartsOf(T) /\ Null \in Schemas
         /\ \A j \in Jsons : AcceptsBody(JsonSchemaBody(T), j) <=>
              (Accepts(JsonSchema(T[2]), j) <=> j # Null)
<1>. DEFINE arms == <<JsonSchema(T[2]), Null>>
<1>1. T[2] \in PartsOf(T) /\ T[2] \in Types /\ JsonSchema(T) \in Schemas
  BY TypeIs DEF PartsOf
<1>2. JsonSchemaBody(T) = <<"oneOf", arms>> /\ JsonSchemaBody(T) = JsonSchema(T)
  BY ConversionAssumption DEF JsonSchemaBody
<1>3. Null \in Schemas
  <2>1. arms \in Seq(Schemas)
    BY <1>1, <1>2, SchemaIs DEF IsSchema
  <2>. QED
    BY <2>1
<1>4. Len(arms) = 2 /\ arms[1] = JsonSchema(T[2]) /\ arms[2] = Null
  OBVIOUS
<1>. HIDE DEF arms
<1>5. ASSUME NEW j \in Jsons
      PROVE  AcceptsBody(<<"oneOf", arms>>, j) <=> (Accepts(JsonSchema(T[2]), j) <=> j # Null)
  <2>1. Accepts(arms[2], j) <=> j = Null
    BY <1>3, <1>4, NullSchema
  <2>2. 1..Len(arms) = {1, 2} /\ Len(arms) \in Nat
    BY <1>4
  <2>3. AcceptsBody(<<"oneOf", arms>>, j) <=>
          \E i \in {1, 2} : Accepts(arms[i], j) /\ \A k \in {1, 2} : Accepts(arms[k], j) => k = i
    BY <2>2, OneAccepts
  <2>. QED
    BY <1>4, <2>1, <2>3
<1>. QED
  BY <1>1, <1>2, <1>3, <1>5

LEMMA OptionConverts ==
  ASSUME NEW T \in Types, NEW j \in Jsons, T[1] = "option", PartsConvert(T)
  PROVE  ConvertsBody(T, j)
<1>1. SUFFICES ASSUME AcceptsBody(JsonSchemaBody(T), j) PROVE ConvertsBody(T, j)
  BY DEF ConvertsBody
<1>2. JsonToValBody(j, T) = ToOption(j, T) /\ IsInvokableBody(T) = IsInvokable(T[2])
  BY DEF JsonToValBody, IsInvokableBody
<1>3. CASE j = Null
  <2>1. JsonToValBody(j, T) = <<"none">> /\ <<"none">> # Error
    BY <1>2, <1>3 DEF ToOption, Error
  <2>. QED
    BY <1>3, <2>1 DEF ConvertsBody, HasTypeBody, SaysBody
<1>4. CASE j # Null
  <2>. DEFINE v == JsonToVal(j, T[2])
  <2>1. /\ IsInvokable(T[2]) /\ WholeBody(j, T) => v # Error
        /\ v # Error => v \in Vals /\ HasType(v, T[2]) /\ Says(v, j)
    BY <1>1, <1>4, OptionSchema, WholeParts, ConvertedIs DEF PartsConvert, Converts
  <2>2. JsonToValBody(j, T) = IF v = Error THEN Error ELSE <<"some", v>>
    BY <1>2, <1>4 DEF ToOption
  <2>. HIDE DEF v
  <2>3. <<"some", v>> # Error
    BY DEF Error
  <2>4. ASSUME v # Error PROVE HasTypeBody(<<"some", v>>, T) /\ SaysBody(<<"some", v>>, j)
    BY <1>4, <2>1, <2>4 DEF HasTypeBody, SaysBody
  <2>. QED
    BY <1>2, <2>1, <2>2, <2>3, <2>4 DEF ConvertsBody
<1>. QED
  BY <1>3, <1>4

\* A case of a variant is told by its name.
LEMMA CaseAccepts ==
  ASSUME NEW T \in Types, T[1] = "variant", NEW i \in 1..Len(T[2]), NEW j \in Jsons
  PROVE  /\ CaseSchema(T[2][i]) \in Schemas /\ Len(T[2]) \in Nat
         /\ T[2][i][2] # Unit => T[2][i][2] \in Types /\ T[2][i][2] \in PartsOf(T)
         /\ Accepts(CaseSchema(T[2][i]), j) <=>
              /\ j[1] = "obj" /\ "type" \in DOMAIN j[2] /\ j[2]["type"] = Str(T[2][i][1])
              /\ IF T[2][i][2] = Unit THEN DOMAIN j[2] = {"type"}
                 ELSE DOMAIN j[2] = {"type", "value"} /\ Accepts(JsonSchema(T[2][i][2]), j[2]["value"])
<1>1. /\ IsType(T) /\ JsonSchema(T) \in Schemas /\ IsJsonValue(j)
      /\ JsonSchema(T) = <<"oneOf", [k \in 1..Len(T[2]) |-> CaseSchema(T[2][k])]>>
  BY TypeIs, JsonIs, ConversionAssumption DEF JsonSchemaBody
<1>2. Len(T[2]) \in Nat /\ (T[2][i][2] # Unit => T[2][i][2] \in PartsOf(T) /\ T[2][i][2] \in Types)
  <2>1. T[2] \in Seq(Range(T[2]))
    BY <1>1 DEF IsType
  <2>2. T[2][i][2] # Unit => T[2][i][2] \in PartsOf(T)
    BY DEF PartsOf
  <2>. QED
    BY <2>1, <2>2, TypeIs
<1>. DEFINE cases == [k \in 1..Len(T[2]) |-> CaseSchema(T[2][k])]
<1>3. cases[i] = CaseSchema(T[2][i]) /\ Len(cases) = Len(T[2])
  BY <1>2
<1>4. cases \in Seq(Schemas)
  BY <1>1, SchemaIs DEF IsSchema
<1>. HIDE DEF cases
<1>. DEFINE s == CaseSchema(T[2][i])
<1>5. s \in Schemas
  BY <1>3, <1>4
<1>6. Accepts(s, j) = AcceptsBody(s, j)
  BY <1>5, SchemaIs
<1>. DEFINE c == T[2][i]
            ofType == <<"const", c[1]>>
<1>7. ofType \in Schemas /\ \A k \in Jsons : Accepts(ofType, k) <=> k = Str(c[1])
  <2>1. s[2] \in [DOMAIN s[2] -> Schemas]
    BY <1>5, SchemaIs DEF IsSchema, CaseSchema
  <2>2. "type" \in DOMAIN s[2] /\ s[2]["type"] = ofType
    BY DEF CaseSchema
  <2>3. ofType \in Schemas
    BY <2>1, <2>2
  <2>4. ASSUME NEW k \in Jsons PROVE AcceptsBody(ofType, k) <=> k = Str(c[1])
    BY DEF AcceptsBody
  <2>. QED
    BY <2>3, <2>4, SchemaIs
<1>8. j[1] = "obj" => j[2] \in [DOMAIN j[2] -> Jsons]
  BY <1>1 DEF IsJsonValue
<1>9. CASE c[2] = Unit
  <2>. DEFINE props == [f \in {"type"} |-> ofType]
  <2>1. s = <<"object", props, {"type"}>>
    BY <1>9 DEF CaseSchema
  <2>2. DOMAIN props = {"type"} /\ props["type"] = ofType
    OBVIOUS
  <2>. HIDE DEF props, ofType
  <2>3. AcceptsBody(<<"object", props, {"type"}>>, j) <=>
          j[1] = "obj" /\ DOMAIN j[2] = {"type"} /\ Accepts(ofType, j[2]["type"])
    BY <2>2 DEF AcceptsBody, HasProperties
  <2>4. j[1] = "obj" /\ "type" \in DOMAIN j[2] => j[2]["type"] \in Jsons
    BY <1>8
  <2>5. Accepts(s, j) <=> j[1] = "obj" /\ DOMAIN j[2] = {"type"} /\ j[2]["type"] = Str(c[1])
    BY <1>6, <1>7, <2>1, <2>3, <2>4
  <2>. QED
    BY <1>2, <1>5, <1>9, <2>5
<1>10. CASE c[2] # Unit
  <2>. DEFINE payload == JsonSchema(c[2])
              props == [f \in {"type", "value"} |-> IF f = "type" THEN ofType ELSE payload]
  <2>1. s = <<"object", props, {"type", "value"}>>
    BY <1>10 DEF CaseSchema
  <2>2. DOMAIN props = {"type", "value"} /\ props["type"] = ofType /\ props["value"] = payload
    OBVIOUS
  <2>. HIDE DEF props, ofType, payload
  <2>3. AcceptsBody(<<"object", props, {"type", "value"}>>, j) <=>
          /\ j[1] = "obj" /\ DOMAIN j[2] = {"type", "value"}
          /\ Accepts(ofType, j[2]["type"]) /\ Accepts(payload, j[2]["value"])
    BY <2>2 DEF AcceptsBody, HasProperties
  <2>4. j[1] = "obj" /\ "type" \in DOMAIN j[2] => j[2]["type"] \in Jsons
    BY <1>8
  <2>5. Accepts(s, j) <=>
          /\ j[1] = "obj" /\ DOMAIN j[2] = {"type", "value"}
          /\ j[2]["type"] = Str(c[1]) /\ Accepts(payload, j[2]["value"])
    BY <1>6, <1>7, <2>1, <2>3, <2>4
  <2>. QED
    BY <1>2, <1>5, <1>10, <2>5 DEF payload
<1>. QED
  BY <1>9, <1>10

\* A variant has the case that its type names, and no other one.
LEMMA CaseIs ==
  ASSUME NEW T \in Types, T[1] = "variant", NEW i \in 1..Len(T[2])
  PROVE  CasesNamed(T, Str(T[2][i][1])) = {i}
<1>1. \A k \in 1..Len(T[2]) : T[2][i][1] = T[2][k][1] => i = k
  BY TypeIs DEF IsType
<1>2. \A k \in 1..Len(T[2]) : Str(T[2][k][1]) = Str(T[2][i][1]) => k = i
  BY <1>1 DEF Str
<1>. QED
  BY <1>2 DEF CasesNamed

LEMMA VariantSchema ==
  ASSUME NEW T \in Types, T[1] = "variant", NEW j \in Jsons
  PROVE  AcceptsBody(JsonSchemaBody(T), j) <=> \E i \in 1..Len(T[2]) : Accepts(CaseSchema(T[2][i]), j)
<1>. DEFINE cases == [k \in 1..Len(T[2]) |-> CaseSchema(T[2][k])]
<1>1. JsonSchemaBody(T) = <<"oneOf", cases>>
  BY DEF JsonSchemaBody
<1>2. Len(T[2]) \in Nat
  <2>1. IsType(T)
    BY TypeIs
  <2>2. T[2] \in Seq(Range(T[2]))
    BY <2>1 DEF IsType
  <2>. QED
    BY <2>2
<1>3. Len(cases) = Len(T[2]) /\ \A i \in 1..Len(T[2]) : cases[i] = CaseSchema(T[2][i])
  BY <1>2
<1>. HIDE DEF cases
<1>4. ASSUME NEW i \in 1..Len(T[2]), NEW k \in 1..Len(T[2]), Accepts(cases[i], j), Accepts(cases[k], j)
      PROVE  k = i
  <2>1. j[2]["type"] = Str(T[2][i][1]) /\ j[2]["type"] = Str(T[2][k][1])
    BY <1>3, <1>4, CaseAccepts
  <2>. QED
    BY <2>1, CaseIs
<1>5. AcceptsBody(<<"oneOf", cases>>, j) <=> \E i \in 1..Len(T[2]) : Accepts(cases[i], j)
  BY <1>2, <1>3, <1>4, OneAccepts
<1>. QED
  BY <1>1, <1>3, <1>5

LEMMA VariantConverts ==
  ASSUME NEW T \in Types, NEW j \in Jsons, T[1] = "variant", PartsConvert(T)
  PROVE  ConvertsBody(T, j)
<1>1. SUFFICES ASSUME NEW i \in 1..Len(T[2]), Accepts(CaseSchema(T[2][i]), j) PROVE ConvertsBody(T, j)
  BY VariantSchema DEF ConvertsBody
<1>. DEFINE c == T[2][i]
<1>2. /\ c[2] # Unit => c[2] \in Types /\ c[2] \in PartsOf(T)
      /\ j[1] = "obj" /\ "type" \in DOMAIN j[2] /\ j[2]["type"] = Str(c[1])
      /\ IF c[2] = Unit THEN DOMAIN j[2] = {"type"}
         ELSE DOMAIN j[2] = {"type", "value"} /\ Accepts(JsonSchema(c[2]), j[2]["value"])
  BY <1>1, CaseAccepts
<1>3. Field(j, "type") = Str(c[1]) /\ CasesNamed(T, Field(j, "type")) = {i}
  BY <1>2, CaseIs DEF Field
<1>4. JsonToValBody(j, T) = ToVariant(j, T)
  BY DEF JsonToValBody
<1>5. IsInvokableBody(T) => IsInvokable(c[2])
  BY DEF IsInvokableBody
<1>6. CASE c[2] = Unit
  <2>1. JsonToValBody(j, T) = <<"case", c[1], <<>>>> /\ <<"case", c[1], <<>>>> # Error
    BY <1>3, <1>4, <1>6 DEF ToVariant, Error
  <2>2. HasTypeBody(<<"case", c[1], <<>>>>, T)
    BY <1>6 DEF HasTypeBody, HasPayload
  <2>3. Field(j, "value") = Error
    BY <1>2, <1>6 DEF Field
  <2>4. SaysBody(<<"case", c[1], <<>>>>, j)
    BY <1>3, <2>3 DEF SaysBody, SaysPayload
  <2>. QED
    BY <2>1, <2>2, <2>4 DEF ConvertsBody
<1>7. CASE c[2] # Unit
  <2>. DEFINE value == j[2]["value"]
              v == JsonToVal(value, c[2])
  <2>1. value \in Jsons /\ value # Error /\ Field(j, "value") = value
    <3>1. j[2] \in [DOMAIN j[2] -> Jsons]
      BY <1>2, JsonIs DEF IsJsonValue
    <3>2. value \in Jsons
      BY <1>2, <1>7, <3>1
    <3>. QED
      BY <1>2, <1>7, <3>2, JsonIs DEF Field
  <2>2. /\ IsInvokable(c[2]) /\ WholeBody(j, T) => v # Error
        /\ v # Error => v \in Vals /\ HasType(v, c[2]) /\ Says(v, value)
    <3>1. WholeBody(j, T) => Whole(value, c[2])
      BY <1>2, <1>7, <2>1, WholeWithin
    <3>. QED
      BY <1>2, <1>7, <2>1, <3>1, ConvertedIs DEF PartsConvert, Converts
  <2>3. JsonToValBody(j, T) = IF v = Error THEN Error ELSE <<"case", c[1], <<v>>>>
    BY <1>3, <1>4, <1>7, <2>1 DEF ToVariant
  <2>. HIDE DEF v
  <2>4. <<"case", c[1], <<v>>>> # Error
    BY DEF Error
  <2>5. ASSUME v # Error PROVE HasTypeBody(<<"case", c[1], <<v>>>>, T)
    <3>1. HasPayload(<<v>>, c[2])
      BY <1>7, <2>2, <2>5 DEF HasPayload
    <3>. QED
      BY <3>1 DEF HasTypeBody
  <2>6. ASSUME v # Error PROVE SaysBody(<<"case", c[1], <<v>>>>, j)
    <3>1. SaysPayload(<<v>>, Field(j, "value"))
      BY <2>1, <2>2, <2>6 DEF SaysPayload
    <3>. QED
      BY <1>3, <3>1 DEF SaysBody
  <2>. QED
    BY <1>5, <2>2, <2>3, <2>4, <2>5, <2>6 DEF ConvertsBody
<1>. QED
  BY <1>6, <1>7

LEMMA ArmAccepts ==
  ASSUME NEW name, NEW T, T # Unit => T \in Types, ArmSchema(name, T) \in Schemas, NEW j \in Jsons
  PROVE  /\ T = Unit => Null \in Schemas
         /\ Accepts(ArmSchema(name, T), j) <=>
              /\ j[1] = "obj" /\ DOMAIN j[2] = {name} /\ j[2][name] \in Jsons
              /\ IF T = Unit THEN j[2][name] = Null ELSE Accepts(JsonSchema(T), j[2][name])
<1>. DEFINE arm == IF T = Unit THEN Null ELSE JsonSchema(T)
            props == [f \in {name} |-> arm]
<1>1. ArmSchema(name, T) = <<"object", props, {name}>>
  BY DEF ArmSchema
<1>2. DOMAIN props = {name} /\ props[name] = arm
  OBVIOUS
<1>. HIDE DEF props, arm
<1>3. arm \in Schemas
  BY <1>1, <1>2, SchemaIs DEF IsSchema
<1>4. AcceptsBody(<<"object", props, {name}>>, j) <=> j[1] = "obj" /\ DOMAIN j[2] = {name} /\ Accepts(arm, j[2][name])
  BY <1>2 DEF AcceptsBody, HasProperties
<1>5. j[1] = "obj" => j[2] \in [DOMAIN j[2] -> Jsons]
  BY JsonIs DEF IsJsonValue
<1>. QED
  BY <1>1, <1>3, <1>4, <1>5, SchemaIs, NullSchema DEF arm

LEMMA ResultSchema ==
  ASSUME NEW T \in Types, T[1] = "result", NEW j \in Jsons
  PROVE  /\ ArmSchema("ok", T[2]) \in Schemas /\ ArmSchema("error", T[3]) \in Schemas
         /\ T[2] # Unit => T[2] \in Types /\ T[2] \in PartsOf(T)
         /\ T[3] # Unit => T[3] \in Types /\ T[3] \in PartsOf(T)
         /\ AcceptsBody(JsonSchemaBody(T), j) <=>
              Accepts(ArmSchema("ok", T[2]), j) \/ Accepts(ArmSchema("error", T[3]), j)
<1>. DEFINE arms == <<ArmSchema("ok", T[2]), ArmSchema("error", T[3])>>
<1>1. /\ T[2] # Unit => T[2] \in Types /\ T[2] \in PartsOf(T)
      /\ T[3] # Unit => T[3] \in Types /\ T[3] \in PartsOf(T)
  BY TypeIs DEF PartsOf
<1>2. JsonSchemaBody(T) = <<"oneOf", arms>> /\ JsonSchemaBody(T) \in Schemas
  BY TypeIs, ConversionAssumption DEF JsonSchemaBody
<1>3. IsSchema(<<"oneOf", arms>>)
  BY <1>2, SchemaIs
<1>4. Len(arms) = 2 /\ arms[1] = ArmSchema("ok", T[2]) /\ arms[2] = ArmSchema("error", T[3])
  OBVIOUS
<1>. HIDE DEF arms
<1>5. arms[1] \in Schemas /\ arms[2] \in Schemas
  <2>1. arms \in Seq(Schemas)
    BY <1>3 DEF IsSchema
  <2>2. 1 \in 1..Len(arms) /\ 2 \in 1..Len(arms)
    BY <1>4
  <2>. QED
    BY <2>1, <2>2, ElementOfSeq
<1>6. ~(Accepts(arms[1], j) /\ Accepts(arms[2], j))
  <2>. SUFFICES ASSUME Accepts(arms[1], j), Accepts(arms[2], j) PROVE FALSE
    OBVIOUS
  <2>1. DOMAIN j[2] = {"ok"} /\ DOMAIN j[2] = {"error"}
    BY <1>1, <1>4, <1>5, ArmAccepts
  <2>. QED
    BY <2>1
<1>7. AcceptsBody(<<"oneOf", arms>>, j) <=>
        \E i \in {1, 2} : Accepts(arms[i], j) /\ \A k \in {1, 2} : Accepts(arms[k], j) => k = i
  <2>1. 1..Len(arms) = {1, 2} /\ Len(arms) \in Nat
    BY <1>4
  <2>. QED
    BY <2>1, OneAccepts
<1>. QED
  BY <1>1, <1>2, <1>4, <1>5, <1>6, <1>7

LEMMA ArmConverts ==
  ASSUME NEW T, T # Unit => T \in Types /\ \A k \in Jsons : Converts(T, k),
         NEW kind \in {"ok", "err"}, NEW j \in Jsons, IF T = Unit THEN j = Null ELSE Accepts(JsonSchema(T), j)
  PROVE  /\ (IsInvokable(T) /\ Whole(j, T)) \/ T = Unit => ToArm(j, T, kind) # Error
         /\ ToArm(j, T, kind) # Error =>
              \E p : ToArm(j, T, kind) = <<kind, p>> /\ HasPayload(p, T) /\ SaysPayload(p, j)
<1>1. CASE T = Unit
  <2>1. ToArm(j, T, kind) = <<kind, <<>>>> /\ <<kind, <<>>>> # Error
    BY <1>1 DEF ToArm, Error
  <2>. QED
    BY <1>1, <2>1 DEF HasPayload, SaysPayload
<1>2. CASE T # Unit
  <2>. DEFINE v == JsonToVal(j, T)
  <2>1. /\ IsInvokable(T) /\ Whole(j, T) => v # Error
        /\ v # Error => v \in Vals /\ HasType(v, T) /\ Says(v, j)
    BY <1>2, ConvertedIs DEF Converts
  <2>2. ToArm(j, T, kind) = IF v = Error THEN Error ELSE <<kind, <<v>>>>
    BY <1>2 DEF ToArm
  <2>. HIDE DEF v
  <2>3. <<kind, <<v>>>> # Error
    BY DEF Error
  <2>4. ASSUME v # Error PROVE HasPayload(<<v>>, T) /\ SaysPayload(<<v>>, j)
    BY <1>2, <2>1, <2>4, JsonIs DEF HasPayload, SaysPayload
  <2>. QED
    BY <1>2, <2>1, <2>2, <2>3, <2>4
<1>. QED
  BY <1>1, <1>2

LEMMA ResultConverts ==
  ASSUME NEW T \in Types, NEW j \in Jsons, T[1] = "result", PartsConvert(T)
  PROVE  ConvertsBody(T, j)
<1>1. JsonToValBody(j, T) = ToResult(j, T) /\ IsInvokableBody(T) = (IsInvokable(T[2]) /\ IsInvokable(T[3]))
  BY DEF JsonToValBody, IsInvokableBody
<1>2. /\ T[2] # Unit => T[2] \in Types /\ \A k \in Jsons : Converts(T[2], k)
      /\ T[3] # Unit => T[3] \in Types /\ \A k \in Jsons : Converts(T[3], k)
  BY ResultSchema DEF PartsConvert
<1>3. ASSUME Accepts(ArmSchema("ok", T[2]), j) PROVE ConvertsBody(T, j)
  <2>1. /\ j[1] = "obj" /\ DOMAIN j[2] = {"ok"} /\ j[2]["ok"] \in Jsons
        /\ IF T[2] = Unit THEN j[2]["ok"] = Null ELSE Accepts(JsonSchema(T[2]), j[2]["ok"])
    BY <1>3, ResultSchema, ArmAccepts
  <2>2. Field(j, "ok") = j[2]["ok"] /\ Field(j, "ok") # Error
    BY <2>1, JsonIs DEF Field
  <2>3. ToResult(j, T) = ToArm(j[2]["ok"], T[2], "ok")
    BY <2>2 DEF ToResult
  <2>4. ASSUME ToResult(j, T) # Error
        PROVE  HasTypeBody(ToResult(j, T), T) /\ SaysBody(ToResult(j, T), j)
    <3>1. PICK p : ToResult(j, T) = <<"ok", p>> /\ HasPayload(p, T[2]) /\ SaysPayload(p, Field(j, "ok"))
      BY <1>2, <2>1, <2>2, <2>3, <2>4, ArmConverts
    <3>. QED
      BY <2>2, <3>1 DEF HasTypeBody, SaysBody
  <2>5. IsInvokable(T[2]) /\ WholeBody(j, T) => ToResult(j, T) # Error
    <3>1. WholeBody(j, T) => T[2] = Unit \/ Whole(j[2]["ok"], T[2])
      BY <2>1, ResultSchema, WholeWithin
    <3>. QED
      BY <1>2, <2>1, <2>3, <3>1, ArmConverts
  <2>. QED
    BY <1>1, <2>4, <2>5 DEF ConvertsBody
<1>4. ASSUME Accepts(ArmSchema("error", T[3]), j) PROVE ConvertsBody(T, j)
  <2>1. /\ j[1] = "obj" /\ DOMAIN j[2] = {"error"} /\ j[2]["error"] \in Jsons
        /\ IF T[3] = Unit THEN j[2]["error"] = Null ELSE Accepts(JsonSchema(T[3]), j[2]["error"])
    BY <1>4, ResultSchema, ArmAccepts
  <2>2. Field(j, "ok") = Error /\ Field(j, "error") = j[2]["error"] /\ Field(j, "error") # Error
    BY <2>1, JsonIs DEF Field
  <2>3. ToResult(j, T) = ToArm(j[2]["error"], T[3], "err")
    BY <2>2 DEF ToResult
  <2>4. ASSUME ToResult(j, T) # Error
        PROVE  HasTypeBody(ToResult(j, T), T) /\ SaysBody(ToResult(j, T), j)
    <3>1. PICK p : ToResult(j, T) = <<"err", p>> /\ HasPayload(p, T[3]) /\ SaysPayload(p, Field(j, "error"))
      BY <1>2, <2>1, <2>2, <2>3, <2>4, ArmConverts
    <3>. QED
      BY <2>2, <3>1 DEF HasTypeBody, SaysBody
  <2>5. IsInvokable(T[3]) /\ WholeBody(j, T) => ToResult(j, T) # Error
    <3>1. WholeBody(j, T) => T[3] = Unit \/ Whole(j[2]["error"], T[3])
      BY <2>1, ResultSchema, WholeWithin
    <3>. QED
      BY <1>2, <2>1, <2>3, <3>1, ArmConverts
  <2>. QED
    BY <1>1, <2>4, <2>5 DEF ConvertsBody
<1>. QED
  BY <1>3, <1>4, ResultSchema DEF ConvertsBody

\* JSON that the schema of a type accepts converts, if its numbers are written as integers of
\* 64 bits (the schemas of integers accept others, which are refused) and the type has no
\* resource; and whatever converts has a value of the type that says the same (wit.rs:245,
\* conversion.rs:6): no number that the schema accepts is cut to another one.
THEOREM AcceptedIsConverted ==
  \A T \in Types, j \in Jsons : Accepts(JsonSchema(T), j) =>
    /\ IsInvokable(T) /\ Whole(j, T) => JsonToVal(j, T) # Error
    /\ JsonToVal(j, T) # Error => HasType(JsonToVal(j, T), T) /\ Says(JsonToVal(j, T), j)
<1>. DEFINE S == {T \in Types : \A j \in Jsons : Converts(T, j)}
<1>1. ASSUME NEW T \in Types, \A U \in PartsOf(T) : U \in S PROVE T \in S
  <2>1. PartsConvert(T)
    BY <1>1 DEF PartsConvert
  <2>2. T[1] \in {"bool", "int", "string", "bytes", "list", "record", "variant", "enum", "flags", "option",
                  "result", "tuple", "map", "resource"}
    BY TypeIs DEF IsType
  <2>3. ASSUME NEW j \in Jsons PROVE ConvertsBody(T, j)
    BY <2>1, <2>2, ScalarConverts, NamesConvert, ListConverts, TupleConverts, RecordConverts, NamedMapConverts,
       PairsConvert, OptionConverts, VariantConverts, ResultConverts
  <2>. QED
    BY <2>3, ConvertsByBody
<1>2. Types \subseteq S
  BY <1>1, TypeInduction, Zenon
<1>. QED
  BY <1>2 DEF Converts

-----------------------------------------------------------------------------
(* From values to JSON.                                                    *)

\* The values of a type fit its schema.
Fits(T, v) == HasType(v, T) => Accepts(JsonSchema(T), ValToJson(v))
FitsBody(T, v) == HasTypeBody(v, T) => AcceptsBody(JsonSchemaBody(T), ValToJsonBody(v))
PartsFit(T) == \A U \in PartsOf(T) : Presentable(U) /\ \A u \in Vals : Fits(U, u)

LEMMA ValueIs ==
  ASSUME NEW v \in Vals
  PROVE  /\ ValToJson(v) = ValToJsonBody(v) /\ ValToJson(v) \in Jsons
         /\ \A T \in Types : HasType(v, T) = HasTypeBody(v, T)
BY ConversionAssumption

LEMMA FitsByBody ==
  ASSUME NEW T \in Types, NEW v \in Vals
  PROVE  FitsBody(T, v) = Fits(T, v)
<1>1. JsonSchema(T) = JsonSchemaBody(T) /\ JsonSchema(T) \in Schemas
  BY ConversionAssumption
<1>. QED
  BY <1>1, ValueIs, SchemaIs DEF Fits, FitsBody

LEMMA ScalarFits ==
  ASSUME NEW T \in Types, NEW v \in Vals, T[1] \in {"bool", "string", "bytes", "int", "resource"}
  PROVE  FitsBody(T, v)
<1>1. CASE T[1] = "bool"
  BY <1>1 DEF FitsBody, AcceptsBody, JsonSchemaBody, ValToJsonBody, HasTypeBody
<1>2. CASE T[1] = "string"
  BY <1>2 DEF FitsBody, AcceptsBody, JsonSchemaBody, ValToJsonBody, HasTypeBody
<1>3. CASE T[1] = "bytes"
  BY <1>3 DEF FitsBody, AcceptsBody, JsonSchemaBody, ValToJsonBody, HasTypeBody
<1>4. CASE T[1] = "int"
  <2>1. T[2] \in Int /\ T[3] \in Int
    BY <1>4, TypeIs DEF IsType
  <2>2. JsonSchemaBody(T) = IntSchema(T)
    BY <1>4 DEF JsonSchemaBody
  <2>3. SUFFICES ASSUME v[1] = "int", v[2] \in T[2]..T[3] PROVE AcceptsBody(JsonSchemaBody(T), ValToJsonBody(v))
    BY <1>4 DEF FitsBody, HasTypeBody
  <2>4. ValToJsonBody(v) = <<"num", v[2]>>
    BY <2>3 DEF ValToJsonBody
  <2>5. Bounded(<<"num", v[2]>>, IF T = S64 THEN {} ELSE {T[2]}, IF T \in {U64, S64} THEN {} ELSE {T[3]})
    BY <2>1, <2>3 DEF Bounded
  <2>. QED
    BY <2>2, <2>4, <2>5 DEF AcceptsBody, IntSchema
<1>5. CASE T[1] = "resource"
  BY <1>5 DEF FitsBody, HasTypeBody
<1>. QED
  BY <1>1, <1>2, <1>3, <1>4, <1>5

LEMMA NamesFit ==
  ASSUME NEW T \in Types, NEW v \in Vals, T[1] \in {"enum", "flags"}
  PROVE  FitsBody(T, v)
<1>1. CASE T[1] = "enum"
  <2>1. JsonSchemaBody(T) = <<"enum", T[2]>>
    BY <1>1 DEF JsonSchemaBody
  <2>2. SUFFICES ASSUME NEW c \in T[2], v = <<"enum", Str(c)>> PROVE AcceptsBody(<<"enum", T[2]>>, ValToJsonBody(v))
    BY <1>1, <2>1 DEF FitsBody, HasTypeBody
  <2>3. ValToJsonBody(v) = Str(c)
    BY <2>2 DEF ValToJsonBody
  <2>. QED
    BY <2>3 DEF AcceptsBody
<1>2. CASE T[1] = "flags"
  <2>1. JsonSchemaBody(T) = <<"set", <<"enum", T[2]>>>> /\ JsonSchemaBody(T) \in Schemas
    BY <1>2, ConversionAssumption DEF JsonSchemaBody
  <2>2. <<"enum", T[2]>> \in Schemas
    BY <2>1, SchemaIs DEF IsSchema
  <2>3. SUFFICES ASSUME v[1] = "flags", v[2][1] = "arr", v[2][2] \in Seq({Str(c) : c \in T[2]}), IsInjective(v[2][2])
                 PROVE  AcceptsBody(<<"set", <<"enum", T[2]>>>>, ValToJsonBody(v))
    BY <1>2, <2>1 DEF FitsBody, HasTypeBody
  <2>4. ValToJsonBody(v) = v[2] /\ v[2] \in Jsons
    BY <2>3, ValueIs DEF ValToJsonBody
  <2>5. ASSUME NEW i \in 1..Len(v[2][2]) PROVE Accepts(<<"enum", T[2]>>, v[2][2][i])
    <3>1. v[2][2][i] \in Jsons
      BY <2>3, <2>4, JsonIs DEF IsJsonValue
    <3>2. \E c \in T[2] : v[2][2][i] = Str(c)
      BY <2>3
    <3>3. AcceptsBody(<<"enum", T[2]>>, v[2][2][i])
      BY <3>2 DEF AcceptsBody
    <3>. QED
      BY <2>2, <3>1, <3>3, SchemaIs
  <2>. QED
    BY <2>3, <2>4, <2>5 DEF AcceptsBody
<1>. QED
  BY <1>1, <1>2

LEMMA ListFits ==
  ASSUME NEW T \in Types, NEW v \in Vals, T[1] = "list", PartsFit(T)
  PROVE  FitsBody(T, v)
<1>1. IsType(T) /\ T[2] \in PartsOf(T) /\ T[2] \in Types
  BY TypeIs DEF PartsOf
<1>2. JsonSchemaBody(T) = <<"array", JsonSchema(T[2])>> /\ JsonSchema(T[2]) # Byte
  BY <1>1, ByteSchema DEF JsonSchemaBody, IsType
<1>3. SUFFICES ASSUME v[1] = "list", v[2] \in Seq(Vals), \A i \in 1..Len(v[2]) : HasType(v[2][i], T[2])
               PROVE  AcceptsBody(<<"array", JsonSchema(T[2])>>, ValToJsonBody(v))
  BY <1>2 DEF FitsBody, HasTypeBody
<1>. DEFINE parts == [i \in 1..Len(v[2]) |-> ValToJson(v[2][i])]
<1>4. ValToJsonBody(v) = <<"arr", parts>>
  BY <1>3 DEF ValToJsonBody, ListToJson
<1>5. \A i \in 1..Len(v[2]) : parts[i] \in Jsons /\ Accepts(JsonSchema(T[2]), parts[i])
  BY <1>1, <1>3, ValueIs DEF PartsFit, Fits
<1>6. Len(parts) = Len(v[2])
  BY <1>3
<1>. HIDE DEF parts
<1>. QED
  BY <1>2, <1>4, <1>5, <1>6 DEF AcceptsBody

LEMMA TupleFits ==
  ASSUME NEW T \in Types, NEW v \in Vals, T[1] = "tuple", PartsFit(T)
  PROVE  FitsBody(T, v)
<1>1. T[2] \in Seq(Types) /\ Len(T[2]) \in Nat
  <2>1. IsType(T)
    BY TypeIs
  <2>. QED
    BY <2>1 DEF IsType
<1>2. \A i \in 1..Len(T[2]) : T[2][i] \in Types /\ T[2][i] \in PartsOf(T)
  BY <1>1 DEF PartsOf, Range
<1>3. SUFFICES ASSUME v[1] = "tuple", v[2] \in Seq(Vals), Len(v[2]) = Len(T[2]),
                      \A i \in 1..Len(T[2]) : HasType(v[2][i], T[2][i])
               PROVE  AcceptsBody(JsonSchemaBody(T), ValToJsonBody(v))
  BY DEF FitsBody, HasTypeBody
<1>. DEFINE schemas1 == [i \in 1..Len(T[2]) |-> JsonSchema(T[2][i])]
            parts == [i \in 1..Len(v[2]) |-> ValToJson(v[2][i])]
<1>4. JsonSchemaBody(T) = <<"tuple", schemas1>> /\ ValToJsonBody(v) = <<"arr", parts>>
  BY <1>3 DEF JsonSchemaBody, ValToJsonBody, ListToJson
<1>5. \A i \in 1..Len(T[2]) : Accepts(schemas1[i], parts[i])
  BY <1>2, <1>3, ValueIs DEF PartsFit, Fits
<1>6. Len(parts) = Len(T[2]) /\ Len(schemas1) = Len(T[2])
  BY <1>1, <1>3
<1>. HIDE DEF parts, schemas1
<1>. QED
  BY <1>4, <1>5, <1>6 DEF AcceptsBody

LEMMA RecordFits ==
  ASSUME NEW T \in Types, NEW v \in Vals, T[1] = "record", PartsFit(T)
  PROVE  FitsBody(T, v)
<1>1. T[2] \in [DOMAIN T[2] -> Types]
  <2>1. IsType(T)
    BY TypeIs
  <2>. QED
    BY <2>1 DEF IsType
<1>2. \A f \in DOMAIN T[2] : T[2][f] \in Types /\ T[2][f] \in PartsOf(T)
  BY <1>1 DEF PartsOf, Range
<1>3. SUFFICES ASSUME v[1] = "record", v[2] \in [DOMAIN T[2] -> Vals], \A f \in DOMAIN T[2] : HasType(v[2][f], T[2][f])
               PROVE  AcceptsBody(JsonSchemaBody(T), ValToJsonBody(v))
  BY DEF FitsBody, HasTypeBody
<1>. DEFINE props == [f \in DOMAIN T[2] |-> JsonSchema(T[2][f])]
            req == {f \in DOMAIN T[2] : ~IsOptional(T[2][f])}
            parts == [f \in DOMAIN v[2] |-> ValToJson(v[2][f])]
<1>4. JsonSchemaBody(T) = <<"object", props, req>> /\ ValToJsonBody(v) = <<"obj", parts>>
  BY <1>3 DEF JsonSchemaBody, RecordSchema, ValToJsonBody, Obj
<1>5. \A f \in DOMAIN T[2] : Accepts(props[f], parts[f])
  BY <1>2, <1>3, ValueIs DEF PartsFit, Fits
<1>6. DOMAIN props = DOMAIN T[2] /\ DOMAIN parts = DOMAIN T[2] /\ req \subseteq DOMAIN T[2]
  BY <1>3
<1>. HIDE DEF parts, props, req
<1>. QED
  BY <1>4, <1>5, <1>6 DEF AcceptsBody, HasProperties

LEMMA NamedMapFits ==
  ASSUME NEW T \in Types, NEW v \in Vals, T[1] = "map", T[2][1] = "string", PartsFit(T)
  PROVE  FitsBody(T, v)
<1>1. T[3] \in Types /\ T[3] \in PartsOf(T)
  <2>1. IsType(T)
    BY TypeIs
  <2>2. T[3] # Unit
    BY <2>1 DEF IsType
  <2>. QED
    BY <2>2, TypeIs DEF PartsOf
<1>2. SUFFICES ASSUME v[1] = "map", v[2] \in [DOMAIN v[2] -> Vals], \A k \in DOMAIN v[2] : HasType(v[2][k], T[3])
               PROVE  AcceptsBody(JsonSchemaBody(T), ValToJsonBody(v))
  BY DEF FitsBody, HasTypeBody
<1>. DEFINE parts == [k \in DOMAIN v[2] |-> ValToJson(v[2][k])]
<1>3. JsonSchemaBody(T) = <<"map", JsonSchema(T[3])>> /\ ValToJsonBody(v) = <<"obj", parts>>
  BY <1>2 DEF JsonSchemaBody, ValToJsonBody, Obj
<1>4. \A k \in DOMAIN v[2] : Accepts(JsonSchema(T[3]), parts[k])
  BY <1>1, <1>2, ValueIs DEF PartsFit, Fits
<1>5. DOMAIN parts = DOMAIN v[2]
  OBVIOUS
<1>. HIDE DEF parts
<1>. QED
  BY <1>3, <1>4, <1>5 DEF AcceptsBody

\* Only an option has null.
LEMMA NullRefused ==
  ASSUME NEW T \in Types, T[1] \notin {"option", "resource"}
  PROVE  ~Accepts(JsonSchema(T), Null)
<1>1. IsType(T) /\ Null \in Jsons /\ JsonSchema(T) \in Schemas /\ JsonSchema(T) = JsonSchemaBody(T)
  BY TypeIs, ConversionAssumption
<1>2. SUFFICES ~AcceptsBody(JsonSchemaBody(T), Null)
  BY <1>1, SchemaIs
<1>3. CASE T[1] = "variant"
  BY <1>1, <1>3, VariantSchema, CaseAccepts DEF Null
<1>4. CASE T[1] = "result"
  BY <1>1, <1>4, ResultSchema, ArmAccepts DEF Null
<1>5. CASE T[1] \notin {"variant", "result"}
  <2>1. JsonSchemaBody(T)[1] \in {"boolean", "string", "number", "array", "object", "enum", "set", "tuple", "map"}
    BY <1>1, <1>5 DEF JsonSchemaBody, IsType, RecordSchema, IntSchema
  <2>2. ~Bounded(Null, JsonSchemaBody(T)[2], JsonSchemaBody(T)[3]) /\ ~FractionalBytes(Null)
    BY DEF Bounded, FractionalBytes, Null
  <2>. QED
    BY <2>1, <2>2 DEF AcceptsBody, Null, Str
<1>. QED
  BY <1>3, <1>4, <1>5

LEMMA OptionFits ==
  ASSUME NEW T \in Types, NEW v \in Vals, T[1] = "option", Presentable(T), PartsFit(T)
  PROVE  FitsBody(T, v)
<1>1. T[2] \in Types /\ T[2] \in PartsOf(T) /\ T[2][1] \notin {"option", "resource"}
  <2>1. T[2] \in Types /\ T[2] \in PartsOf(T)
    BY OptionSchema
  <2>2. PresentableBody(T) /\ PresentableBody(T[2])
    BY <2>1, InvocationAssumption DEF PartsFit
  <2>. QED
    BY <2>1, <2>2 DEF PresentableBody, IsOptional
<1>2. ~Accepts(JsonSchema(T[2]), Null) /\ Null \in Jsons
  BY <1>1, NullRefused, ConversionAssumption
<1>3. CASE v[1] = "none"
  <2>1. ValToJsonBody(v) = Null
    BY <1>3 DEF ValToJsonBody
  <2>. QED
    BY <1>2, <2>1, OptionSchema DEF FitsBody
<1>4. CASE v[1] # "none"
  <2>1. SUFFICES ASSUME v[1] = "some", v[2] \in Vals, HasType(v[2], T[2])
                 PROVE  AcceptsBody(JsonSchemaBody(T), ValToJsonBody(v))
    BY <1>4 DEF FitsBody, HasTypeBody
  <2>2. ValToJsonBody(v) = ValToJson(v[2]) /\ ValToJson(v[2]) \in Jsons
    BY <2>1, ValueIs DEF ValToJsonBody
  <2>3. Accepts(JsonSchema(T[2]), ValToJson(v[2]))
    BY <1>1, <2>1 DEF PartsFit, Fits
  <2>. QED
    BY <1>2, <2>2, <2>3, OptionSchema
<1>. QED
  BY <1>3, <1>4

LEMMA SimpleIsNoObject ==
  ASSUME NEW T \in Types, NEW v \in Vals, HasType(v, T), ~WritesObject(T), ~IsOptional(T)
  PROVE  ValToJson(v)[1] # "obj"
<1>1. IsType(T) /\ HasTypeBody(v, T)
  BY TypeIs, ValueIs
<1>2. SUFFICES ValToJsonBody(v)[1] # "obj"
  BY ValueIs
<1>3. CASE T[1] \in {"bool", "int", "string", "bytes", "list", "tuple"}
  BY <1>1, <1>3 DEF HasTypeBody, ValToJsonBody, ListToJson
<1>4. CASE T[1] = "enum"
  BY <1>1, <1>4 DEF HasTypeBody, ValToJsonBody, Str
<1>5. CASE T[1] = "flags"
  BY <1>1, <1>5 DEF HasTypeBody, ValToJsonBody
<1>6. CASE T[1] = "resource"
  BY <1>1, <1>6 DEF HasTypeBody
<1>7. T[1] \in {"bool", "int", "string", "bytes", "list", "tuple", "enum", "flags", "resource"}
  BY <1>1 DEF IsType, WritesObject, IsOptional
<1>. QED
  BY <1>3, <1>4, <1>5, <1>6, <1>7

\* What is not written as an object is none.
LEMMA NoObject ==
  ASSUME NEW T \in Types, NEW v \in Vals, HasType(v, T), Presentable(T),
         ~WritesObject(T), ~(IsOptional(T) /\ WritesObject(T[2]))
  PROVE  ValToJson(v)[1] # "obj"
<1>1. CASE ~IsOptional(T)
  BY <1>1, SimpleIsNoObject
<1>2. CASE IsOptional(T)
  <2>1. T[2] \in Types /\ ~IsOptional(T[2]) /\ ~WritesObject(T[2])
    <3>1. PresentableBody(T)
      BY InvocationAssumption
    <3>2. T[2] \in Types
      BY <1>2, OptionSchema DEF IsOptional
    <3>. QED
      BY <1>2, <3>1, <3>2 DEF PresentableBody, IsOptional
  <2>2. HasTypeBody(v, T) /\ ValToJson(v) = ValToJsonBody(v)
    BY ValueIs
  <2>3. CASE v[1] = "none"
    BY <2>2, <2>3 DEF ValToJsonBody, Null
  <2>4. CASE v[1] # "none"
    <3>1. v[1] = "some" /\ v[2] \in Vals /\ HasType(v[2], T[2])
      BY <1>2, <2>2, <2>4 DEF HasTypeBody, IsOptional
    <3>2. ValToJson(v) = ValToJson(v[2])
      BY <2>2, <3>1 DEF ValToJsonBody
    <3>. QED
      BY <2>1, <3>1, <3>2, SimpleIsNoObject
  <2>. QED
    BY <2>3, <2>4
<1>. QED
  BY <1>1, <1>2

LEMMA VariantFits ==
  ASSUME NEW T \in Types, NEW v \in Vals, T[1] = "variant", Presentable(T), PartsFit(T)
  PROVE  FitsBody(T, v)
<1>1. SUFFICES ASSUME v[1] = "case", NEW i \in 1..Len(T[2]), v[2] = T[2][i][1], HasPayload(v[3], T[2][i][2])
               PROVE  AcceptsBody(JsonSchemaBody(T), ValToJsonBody(v))
  BY DEF FitsBody, HasTypeBody
<1>. DEFINE c == T[2][i]
            j == ValToJsonBody(v)
<1>2. j = CaseToJson(c[1], v[3]) /\ j \in Jsons
  BY <1>1, ValueIs DEF ValToJsonBody
<1>3. SUFFICES Accepts(CaseSchema(c), j)
  BY <1>2, VariantSchema
<1>4. CASE c[2] = Unit
  <2>1. v[3] = <<>>
    BY <1>1, <1>4 DEF HasPayload
  <2>2. j = Obj([f \in {"type"} |-> Str(c[1])])
    <3>1. Obj(NoFields)[1] = "obj" /\ Obj(NoFields)[2] = NoFields /\ DOMAIN NoFields = {}
      BY DEF Obj, NoFields
    <3>. HIDE DEF j, c
    <3>2. j = Obj([f \in {} \cup {"type"} |-> IF f \in {} THEN NoFields[f] ELSE Str(c[1])])
      BY <1>2, <2>1, <3>1 DEF CaseToJson
    <3>. QED
      BY <3>2
  <2>. HIDE DEF j
  <2>3. j[1] = "obj" /\ DOMAIN j[2] = {"type"} /\ j[2]["type"] = Str(c[1])
    BY <2>2 DEF Obj
  <2>. QED
    BY <1>2, <1>4, <2>3, CaseAccepts
<1>5. CASE c[2] # Unit
  <2>. DEFINE u == v[3][1]
              w == ValToJson(u)
  <2>1. v[3] # <<>> /\ u \in Vals /\ HasType(u, c[2]) /\ c[2] \in Types /\ c[2] \in PartsOf(T)
    BY <1>1, <1>2, <1>5, CaseAccepts DEF HasPayload
  <2>2. w[1] # "obj"
    <3>1. PresentableBody(T) /\ Presentable(c[2])
      BY <2>1, InvocationAssumption DEF PartsFit
    <3>2. ~WritesObject(c[2]) /\ ~(IsOptional(c[2]) /\ WritesObject(c[2][2]))
      BY <2>1, <3>1 DEF PresentableBody
    <3>. QED
      BY <2>1, <3>1, <3>2, NoObject
  <2>3. Accepts(JsonSchema(c[2]), w)
    BY <2>1 DEF PartsFit, Fits
  <2>. HIDE DEF j, c, w
  <2>4. j = Obj([f \in {"value"} \cup {"type"} |-> IF f \in {"value"} THEN [g \in {"value"} |-> w][f] ELSE Str(c[1])])
    BY <1>2, <2>1, <2>2 DEF CaseToJson, w
  <2>5. j[1] = "obj" /\ DOMAIN j[2] = {"type", "value"} /\ j[2]["type"] = Str(c[1]) /\ j[2]["value"] = w
    BY <2>4 DEF Obj
  <2>. QED
    BY <1>2, <1>5, <2>3, <2>5, CaseAccepts DEF c
<1>. QED
  BY <1>4, <1>5

LEMMA ArmFits ==
  ASSUME NEW name, NEW T, T # Unit => T \in Types /\ \A u \in Vals : Fits(T, u), ArmSchema(name, T) \in Schemas,
         NEW p, HasPayload(p, T), ArmToJson(name, p) \in Jsons
  PROVE  Accepts(ArmSchema(name, T), ArmToJson(name, p))
<1>. DEFINE w == IF p = <<>> THEN Null ELSE ValToJson(p[1])
            j == ArmToJson(name, p)
<1>1. IF T = Unit THEN w = Null ELSE Accepts(JsonSchema(T), w) /\ w \in Jsons
  BY ValueIs DEF HasPayload, Fits
<1>2. Null \in Jsons
  BY ConversionAssumption
<1>. HIDE DEF w
<1>3. j = Obj([f \in {name} |-> w])
  BY DEF ArmToJson, w
<1>. HIDE DEF j
<1>4. j[1] = "obj" /\ DOMAIN j[2] = {name} /\ j[2][name] = w
  BY <1>3 DEF Obj
<1>. QED
  BY <1>1, <1>2, <1>4, ArmAccepts DEF j

LEMMA ResultFits ==
  ASSUME NEW T \in Types, NEW v \in Vals, T[1] = "result", PartsFit(T)
  PROVE  FitsBody(T, v)
<1>1. /\ T[2] # Unit => T[2] \in Types /\ \A u \in Vals : Fits(T[2], u)
      /\ T[3] # Unit => T[3] \in Types /\ \A u \in Vals : Fits(T[3], u)
      /\ ArmSchema("ok", T[2]) \in Schemas /\ ArmSchema("error", T[3]) \in Schemas
      /\ ValToJsonBody(v) \in Jsons
  BY ResultSchema, ValueIs DEF PartsFit
<1>2. ASSUME v[1] = "ok", HasPayload(v[2], T[2]) PROVE AcceptsBody(JsonSchemaBody(T), ValToJsonBody(v))
  <2>1. ValToJsonBody(v) = ArmToJson("ok", v[2])
    BY <1>2 DEF ValToJsonBody
  <2>. QED
    BY <1>1, <1>2, <2>1, ArmFits, ResultSchema
<1>3. ASSUME v[1] = "err", HasPayload(v[2], T[3]) PROVE AcceptsBody(JsonSchemaBody(T), ValToJsonBody(v))
  <2>1. ValToJsonBody(v) = ArmToJson("error", v[2])
    BY <1>3 DEF ValToJsonBody
  <2>. QED
    BY <1>1, <1>3, <2>1, ArmFits, ResultSchema
<1>. QED
  BY <1>2, <1>3 DEF FitsBody, HasTypeBody

\* The values that a function returns fit the schema of their type (conversion.rs:351), but
\* for the types that have another one's JSON (PresentableBody names them).
THEOREM ValuesFitTheirSchema ==
  \A T \in Types, v \in Vals : Presentable(T) /\ HasType(v, T) => Accepts(JsonSchema(T), ValToJson(v))
<1>. DEFINE S == {T \in Types : Presentable(T) => \A v \in Vals : Fits(T, v)}
<1>1. ASSUME NEW T \in Types, \A U \in PartsOf(T) : U \in S PROVE T \in S
  <2>1. SUFFICES ASSUME Presentable(T), NEW v \in Vals PROVE FitsBody(T, v)
    BY FitsByBody
  <2>2. PresentableBody(T) /\ PartsFit(T)
    BY <1>1, <2>1, InvocationAssumption DEF PartsFit, PresentableBody
  <2>3. T[1] \in {"bool", "int", "string", "bytes", "list", "record", "variant", "enum", "flags", "option",
                  "result", "tuple", "map", "resource"}
    BY TypeIs DEF IsType
  <2>4. T[1] = "map" => T[2][1] = "string"
    BY <2>2 DEF PresentableBody
  <2>. QED
    BY <2>1, <2>2, <2>3, <2>4, ScalarFits, NamesFit, ListFits, TupleFits, RecordFits, NamedMapFits, OptionFits,
       VariantFits, ResultFits
<1>2. Types \subseteq S
  BY <1>1, TypeInduction, Zenon
<1>. QED
  BY <1>2 DEF Fits

-----------------------------------------------------------------------------
(* How the steps depend on each other.                                     *)

ParamTypes == [i \in 1..Len(f0.params) |-> f0.params[i].type]

\* Each phase has what the earlier ones derived: the schemas of the route, a message that
\* they accept, the arguments that it maps to, the values of these, and the result.
Served    == phase \notin {"configure", "rejected"}
Received  == Served /\ phase # "serve"
Admitted  == Received /\ phase # "invalid"
Called    == Admitted /\ phase \notin {"map", "unmapped"}
Started   == Called /\ phase \notin {"call", "unconverted"}
Returned  == phase \in {"reply", "answered", "unanswered"}

SchemasInv ==
  /\ ValidMapper(f0, c0)
  /\ setup.http =>
       /\ \E order \in Orders : schemas.input = InputSchema(f0, c0, order)
       /\ schemas.output = EffectiveOutput

AnswerFails == Reply = Error \/ (setup.http /\ Response(Reply) = Error)

InvInv ==
  /\ setup \in Setups
  /\ Served => SchemasInv
  /\ Received => message \in Messages(setup)
  /\ Admitted /\ setup.http => Conforming(message)
  /\ phase = "unmapped" => ToInvocation(f0, c0, message) = Error
  /\ Called => args = ToInvocation(f0, c0, message) /\ args # Error
  /\ phase = "unconverted" => Arguments(args[2], ParamTypes) = Error
  /\ Started => given = Arguments(args[2], ParamTypes) /\ given # Error
  /\ Returned => \E v \in Results(f0) : result = ConvertResult(v) /\ result # Error
  /\ phase = "unanswered" => AnswerFails

LEMMA InvInitially == InvInit => InvInv
BY DEF InvInit, InvInv, Served, Received, Admitted, Called, Started, Returned

\* What is derived of the setup stays.
LEMMA SetupStays ==
  ASSUME setup' = setup
  PROVE  /\ f0' = f0 /\ c0' = c0 /\ ParamTypes' = ParamTypes /\ Orders' = Orders
         /\ schemas' = schemas => SchemasInv' = SchemasInv
BY DEF f0, c0, ParamTypes, Orders, SchemasInv, EffectiveOutput

LEMMA ConfigureKeeps == InvInv /\ Configure => InvInv'
<1>. SUFFICES ASSUME InvInv, Configure PROVE InvInv'
  OBVIOUS
<1>1. setup' = setup /\ phase' \in {"serve", "rejected"}
  BY DEF Configure
<1>2. ASSUME phase' = "serve" PROVE SchemasInv'
  <2>1. f0' = f0 /\ c0' = c0 /\ Orders' = Orders /\ EffectiveOutput' = EffectiveOutput
    BY <1>1 DEF f0, c0, Orders, EffectiveOutput
  <2>2. PICK order \in Orders :
          /\ ValidMapper(f0, c0)
          /\ schemas' = [input  |-> IF setup.http THEN InputSchema(f0, c0, order) ELSE None,
                         output |-> IF setup.http THEN EffectiveOutput ELSE None]
    BY <1>2 DEF Configure
  <2>. QED
    BY <1>1, <2>1, <2>2 DEF SchemasInv
<1>. QED
  BY <1>1, <1>2 DEF InvInv, Served, Received, Admitted, Called, Started, Returned

LEMMA ReceiveKeeps == InvInv /\ Receive => InvInv'
<1>. SUFFICES ASSUME InvInv, Receive PROVE InvInv'
  OBVIOUS
<1>1. setup' = setup /\ schemas' = schemas /\ phase = "serve" /\ phase' \in {"invalid", "map"}
  BY DEF Receive
<1>2. message' \in Messages(setup')
  BY <1>1 DEF Receive
<1>3. phase' = "map" /\ setup.http => Conforming(message)'
  BY <1>1 DEF Receive, Conforming
<1>. QED
  BY <1>1, <1>2, <1>3, SetupStays DEF InvInv, Served, Received, Admitted, Called, Started, Returned

LEMMA MapKeeps == InvInv /\ Map => InvInv'
<1>. SUFFICES ASSUME InvInv, Map PROVE InvInv'
  OBVIOUS
<1>1. /\ setup' = setup /\ schemas' = schemas /\ message' = message
      /\ phase = "map" /\ phase' \in {"unmapped", "call"}
  BY DEF Map
<1>2. /\ phase' = "unmapped" => ToInvocation(f0, c0, message) = Error
      /\ phase' = "call" => args' = ToInvocation(f0, c0, message) /\ args' # Error
  BY DEF Map
<1>. QED
  BY <1>1, <1>2, SetupStays DEF InvInv, Served, Received, Admitted, Called, Started, Returned, Conforming

LEMMA CallKeeps == InvInv /\ Call => InvInv'
<1>. SUFFICES ASSUME InvInv, Call PROVE InvInv'
  OBVIOUS
<1>1. /\ setup' = setup /\ schemas' = schemas /\ message' = message /\ args' = args
      /\ phase = "call" /\ phase' \in {"unconverted", "run"}
  BY DEF Call
<1>2. /\ phase' = "unconverted" => Arguments(args[2], ParamTypes) = Error
      /\ phase' = "run" => given' = Arguments(args[2], ParamTypes) /\ given' # Error
  BY DEF Call, ParamTypes
<1>. QED
  BY <1>1, <1>2, SetupStays DEF InvInv, Served, Received, Admitted, Called, Started, Returned, Conforming

LEMMA ReturnKeeps == InvInv /\ Return => InvInv'
<1>. SUFFICES ASSUME InvInv, Return PROVE InvInv'
  OBVIOUS
<1>1. /\ setup' = setup /\ schemas' = schemas /\ message' = message /\ args' = args /\ given' = given
      /\ phase = "run" /\ phase' \in {"errored", "reply"}
  BY DEF Return
<1>2. phase' = "reply" => \E v \in Results(f0) : result' = ConvertResult(v) /\ result' # Error
  BY DEF Return
<1>. QED
  BY <1>1, <1>2, SetupStays DEF InvInv, Served, Received, Admitted, Called, Started, Returned, Conforming

LEMMA AnswerKeeps == InvInv /\ Answer => InvInv'
<1>. SUFFICES ASSUME InvInv, Answer PROVE InvInv'
  OBVIOUS
<1>1. /\ setup' = setup /\ schemas' = schemas /\ message' = message /\ args' = args /\ given' = given
      /\ result' = result /\ phase = "reply" /\ phase' \in {"unanswered", "answered"}
  BY DEF Answer
<1>2. phase' = "unanswered" => AnswerFails
  BY MappingAssumption DEF Answer, AnswerFails
<1>3. AnswerFails' = AnswerFails
  BY <1>1 DEF AnswerFails, Reply, Response, IsJson, f0, c0
<1>. QED
  BY <1>1, <1>2, <1>3, SetupStays DEF InvInv, Served, Received, Admitted, Called, Started, Returned, Conforming

LEMMA InvKept == InvInv /\ [InvNext]_invVars => InvInv'
<1>. SUFFICES ASSUME InvInv, UNCHANGED invVars PROVE InvInv'
  BY ConfigureKeeps, ReceiveKeeps, MapKeeps, CallKeeps, ReturnKeeps, AnswerKeeps DEF InvNext
<1>1. AnswerFails' = AnswerFails
  BY DEF invVars, AnswerFails, Reply, Response, IsJson, f0, c0
<1>. QED
  BY <1>1, SetupStays
     DEF invVars, InvInv, Served, Received, Admitted, Called, Started, Returned, Conforming

LEMMA InvAlways == InvSpec => []InvInv
BY InvInitially, InvKept, PTL DEF InvSpec

-----------------------------------------------------------------------------
(* A request to a function without a mapping.                              *)

\* The fields of a body, and what each parameter gets of them.
Fields(m) == IF m.body = None THEN NoFields ELSE Parsed(m.body)[2]

FromBody(f, m, i) ==
  LET n == f.params[i].name IN IF n \in DOMAIN Fields(m) THEN Fields(m)[n] ELSE Null

\* Nothing of the body is taken for something else.
Legible(f, m) ==
  /\ m.type \in {None, Json}
  /\ IF Len(f.params) # 1 THEN m.body # None ELSE m.body # None => Parsed(m.body) # Obj(NoFields)

LEMMA ParamIs ==
  ASSUME NEW f, IsFunction(f), NEW i \in 1..Len(f.params)
  PROVE  /\ f.params[i].name \in Names(f) /\ f.params[i].type \in Types
         /\ TypeOf(f, f.params[i].name) = f.params[i].type
         /\ (CHOOSE k \in 1..Len(f.params) : f.params[k].name = f.params[i].name) = i
<1>1. f.params \in Seq([name : Names(f), type : Types])
  BY DEF IsFunction
<1>2. f.params[i] \in [name : Names(f), type : Types]
  BY <1>1, ElementOfSeq
<1>3. \A k \in 1..Len(f.params) : f.params[k].name = f.params[i].name => k = i
  BY DEF IsFunction
<1>. QED
  BY <1>2, <1>3 DEF TypeOf

\* The parameters are as many as their sequence is long.
LEMMA ParamsAre ==
  ASSUME NEW f, IsFunction(f)
  PROVE  Len(f.params) \in Nat /\ \A n \in Names(f) : \E i \in 1..Len(f.params) : f.params[i].name = n
BY DEF IsFunction, Names

LEMMA JsonBody ==
  ASSUME NEW m, m.type \in {None, Json}
  PROVE  /\ m.body # None => BodyToValidate(m) = Parsed(m.body) /\ ParseBody(m) = Parsed(m.body)
         /\ m.body = None => BodyToValidate(m) = Obj(NoFields) /\ ParseBody(m) = Null
<1>1. m.type # JsonUtf8 /\ m.type # Plain
  <2>1. None # JsonUtf8 /\ None # Plain
    BY InvocationAssumption, MappingAssumption
  <2>2. Json # JsonUtf8 /\ Json # Plain
    BY DEF Json, JsonUtf8, Plain
  <2>. QED
    BY <2>1, <2>2
<1>2. ParseBody(m) = IF m.body = None THEN Null ELSE Parsed(m.body)
  BY <1>1 DEF ParseBody
<1>. QED
  BY <1>1, <1>2 DEF BodyToValidate

LEMMA BodyFits ==
  ASSUME NEW s \in Setups, s.http, s.config.mapping = None, NEW m \in Messages(s), m.type \in {None, Json},
         Accepts(InputSchema(s.function, s.config, <<>>), BodyToValidate(m))
  PROVE  /\ m.body # None => /\ Parsed(m.body) \in Jsons /\ Parsed(m.body)[1] = "obj"
                             /\ Parsed(m.body) = Obj(Fields(m)) /\ ParseBody(m) = Parsed(m.body)
         /\ m.body = None => ParseBody(m) = Null /\ Fields(m) = NoFields
         /\ DOMAIN Fields(m) \subseteq Names(s.function) /\ Fields(m) \in [DOMAIN Fields(m) -> Jsons]
         /\ \A n \in DOMAIN Fields(m) :
              Fields(m)[n] \in Jsons
              /\ Accepts(SurfaceSchema(s.config, [name |-> n, type |-> TypeOf(s.function, n)]), Fields(m)[n])
         /\ \A n \in Names(s.function) \ DOMAIN Fields(m) : IsOptional(TypeOf(s.function, n))
<1>. DEFINE f == s.function
            c == s.config
            props == [n \in Names(f) |-> SurfaceSchema(c, [name |-> n, type |-> TypeOf(f, n)])]
            required == {n \in Names(f) : ~IsOptional(TypeOf(f, n))}
            body == BodyToValidate(m)
<1>1. InputSchema(f, c, <<>>) = <<"object", props, required>>
  BY DEF InputSchema
<1>2. DOMAIN props = Names(f)
  OBVIOUS
<1>3. InputSchema(f, c, <<>>) \in Schemas /\ {BodyToValidate(m), ParseBody(m)} \subseteq Jsons \cup {Error}
  BY InvocationAssumption
<1>4. AcceptsBody(<<"object", props, required>>, body)
  BY <1>1, <1>3, SchemaIs
<1>5. body[1] = "obj" /\ DOMAIN body[2] \subseteq Names(f) /\ HasProperties(body, props, required)
  BY <1>2, <1>4 DEF AcceptsBody
<1>6. body \in Jsons
  BY <1>3, <1>5 DEF Error
<1>7. body = <<"obj", body[2]>> /\ body[2] \in [DOMAIN body[2] -> Jsons]
  BY <1>5, <1>6, JsonIs DEF IsJsonValue
<1>8. m.body # None => body = Parsed(m.body) /\ ParseBody(m) = Parsed(m.body)
  BY JsonBody
<1>9. m.body = None => body = Obj(NoFields) /\ ParseBody(m) = Null
  BY JsonBody
<1>10. Fields(m) = body[2]
  BY <1>8, <1>9 DEF Fields, Obj
<1>11. ASSUME NEW n \in DOMAIN Fields(m)
       PROVE  Fields(m)[n] \in Jsons /\ Accepts(props[n], Fields(m)[n])
  BY <1>2, <1>5, <1>7, <1>10, <1>11 DEF HasProperties
<1>12. required \subseteq DOMAIN Fields(m)
  BY <1>5, <1>10 DEF HasProperties
<1>13. m.body # None => /\ Parsed(m.body) \in Jsons /\ Parsed(m.body)[1] = "obj"
                        /\ Parsed(m.body) = Obj(Fields(m)) /\ ParseBody(m) = Parsed(m.body)
  BY <1>5, <1>6, <1>7, <1>8, <1>10 DEF Obj
<1>14. m.body = None => ParseBody(m) = Null /\ Fields(m) = NoFields
  BY <1>9 DEF Fields
<1>15. DOMAIN Fields(m) \subseteq Names(f) /\ Fields(m) \in [DOMAIN Fields(m) -> Jsons]
  BY <1>5, <1>7, <1>10
<1>. QED
  BY <1>11, <1>12, <1>13, <1>14, <1>15

\* Each parameter gets its field.
LEMMA AssembledIs ==
  ASSUME NEW s \in Setups, s.http, s.config.mapping = None, NEW m \in Messages(s), Legible(s.function, m),
         Accepts(InputSchema(s.function, s.config, <<>>), BodyToValidate(m))
  PROVE  Assemble(s.function, s.config, m) = <<"args", [i \in 1..Len(s.function.params) |-> FromBody(s.function, m, i)]>>
<1>. DEFINE f == s.function
            body == ParseBody(m)
            named == NormalizeBody(f, s.config, body)
            parts == [i \in 1..Len(f.params) |-> NameMatch(f.params[i], named)]
            those == [i \in 1..Len(f.params) |-> FromBody(f, m, i)]
<1>1. IsFunction(f) /\ m.type \in {None, Json}
  BY InvocationAssumption DEF Legible
<1>2. body \in Jsons
  BY <1>1, BodyFits, ConversionAssumption
<1>3. \A i \in 1..Len(f.params) : those[i] \in Jsons /\ NameMatch(f.params[i], named) = those[i]
  <2>. TAKE i \in 1..Len(f.params)
  <2>. DEFINE n == f.params[i].name
  <2>1. n \in Names(f) /\ TypeOf(f, n) = f.params[i].type
    BY <1>1, ParamIs
  <2>2. those[i] \in Jsons /\ those[i] # Error
    BY <1>1, BodyFits, ConversionAssumption, JsonIs DEF FromBody
  <2>3. n \notin DOMAIN Fields(m) => IsOptional(f.params[i].type)
    BY <1>1, <2>1, BodyFits
  <2>4. CASE Len(f.params) # 1
    <3>1. m.body # None
      BY <2>4 DEF Legible
    <3>2. named = Obj(Fields(m))
      BY <1>1, <2>4, <3>1, BodyFits DEF NormalizeBody
    <3>. QED
      BY <2>2, <2>3, <3>2 DEF NameMatch, Field, Obj, FromBody
  <2>5. CASE Len(f.params) = 1
    <3>1. i = 1 /\ f.params[1].name = n /\ DOMAIN Fields(m) \subseteq {n}
      <4>1. i = 1 /\ Names(f) = {n}
        BY <2>5 DEF Names
      <4>. QED
        BY <1>1, <4>1, BodyFits
    <3>2. CASE m.body = None
      <4>1. Field(Null, n) = Error /\ body = Null /\ Fields(m) = NoFields
        BY <1>1, <3>2, BodyFits DEF Field, Null
      <4>2. named = Obj([k \in {n} |-> Null])
        BY <2>5, <3>1, <4>1 DEF NormalizeBody
      <4>3. Field(Obj([k \in {n} |-> Null]), n) = Null
        BY DEF Field, Obj
      <4>4. those[i] = Null
        BY <4>1 DEF FromBody, NoFields
      <4>. QED
        BY <2>2, <4>2, <4>3, <4>4 DEF NameMatch
    <3>3. CASE m.body # None
      <4>1. body = Obj(Fields(m)) /\ body = Parsed(m.body)
        BY <1>1, <3>3, BodyFits
      <4>2. n \in DOMAIN Fields(m)
        <5>1. SUFFICES ASSUME DOMAIN Fields(m) = {} PROVE FALSE
          BY <3>1
        <5>2. Fields(m) \in [DOMAIN Fields(m) -> Jsons]
          BY <1>1, BodyFits
        <5>3. Fields(m) = NoFields
          BY <5>1, <5>2 DEF NoFields
        <5>. QED
          BY <2>5, <3>3, <4>1, <5>3 DEF Legible
      <4>3. Field(body, n) = those[i]
        BY <4>1, <4>2 DEF Field, Obj, FromBody
      <4>4. named = body
        BY <2>2, <2>5, <3>1, <4>3 DEF NormalizeBody
      <4>. QED
        BY <2>2, <4>3, <4>4 DEF NameMatch
    <3>. QED
      BY <3>2, <3>3
  <2>. QED
    BY <2>4, <2>5
<1>4. named # Error /\ body # Error
  <2>1. body # Error
    BY <1>2, JsonIs
  <2>2. CASE Len(f.params) # 1
    <3>1. named = body
      BY <1>1, <2>2, BodyFits DEF NormalizeBody, Legible, Obj
    <3>. QED
      BY <2>1, <3>1
  <2>3. CASE Len(f.params) = 1
    BY <2>1, <2>3 DEF NormalizeBody, Obj, Error
  <2>. QED
    BY <2>1, <2>2, <2>3
<1>5. parts = those
  BY <1>3
<1>6. Assemble(f, s.config, m) = All("args", parts)
  <2>. HIDE DEF body, named
  <2>1. Assemble(f, s.config, m) = All("args", [i \in 1..Len(f.params) |-> NameMatch(f.params[i], named)])
    BY <1>4 DEF Assemble, body, named
  <2>. QED
    BY <2>1
<1>7. All("args", those) = <<"args", those>>
  <2>1. \A i \in DOMAIN those : those[i] # Error
    BY <1>3, JsonIs
  <2>. HIDE DEF those
  <2>. QED
    BY <2>1 DEF All
<1>. QED
  BY <1>5, <1>6, <1>7

\* A request that the schema of a function without a mapping accepts, and that says what it
\* seems to say.
Conforms(s, m) ==
  /\ s.http /\ s.config.mapping = None /\ ValidMapper(s.function, s.config)
  /\ Accepts(InputSchema(s.function, s.config, <<>>), BodyToValidate(m))
  /\ Legible(s.function, m)

\* What the parameters get before any is encoded, and the content type of one.
AllSent(s, m) == ArgsAsValue(s.function, Assemble(s.function, s.config, m))
TypeFor(s, m, n) == ContentType(s.config.encoding[n], AllSent(s, m))

LEMMA SentIs ==
  ASSUME NEW s \in Setups, NEW m \in Messages(s), Conforms(s, m), NEW i \in 1..Len(s.function.params)
  PROVE  /\ Field(AllSent(s, m), s.function.params[i].name) = FromBody(s.function, m, i)
         /\ FromBody(s.function, m, i) \in Jsons
<1>. DEFINE f == s.function
            n == f.params[i].name
            those == [k \in 1..Len(f.params) |-> FromBody(f, m, k)]
            all == [x \in Names(f) |-> LET k == CHOOSE k \in 1..Len(f.params) : f.params[k].name = x IN those[k]]
<1>1. IsFunction(f) /\ m.type \in {None, Json}
  BY InvocationAssumption DEF Conforms, Legible
<1>2. Assemble(f, s.config, m) = <<"args", those>>
  BY AssembledIs DEF Conforms
<1>3. AllSent(s, m) = Obj(all)
  BY <1>2 DEF AllSent, ArgsAsValue
<1>4. n \in Names(f) /\ (CHOOSE k \in 1..Len(f.params) : f.params[k].name = n) = i
  BY <1>1, ParamIs
<1>5. all[n] = FromBody(f, m, i) /\ n \in DOMAIN all
  BY <1>4
<1>6. FromBody(f, m, i) \in Jsons
  BY <1>1, BodyFits, ConversionAssumption DEF FromBody, Conforms
<1>. HIDE DEF all
<1>. QED
  BY <1>3, <1>5, <1>6 DEF Field, Obj

LEMMA ByteArrayIs ==
  ASSUME NEW T \in Types, JsonSchema(T) = ByteArray
  PROVE  T[1] = "bytes"
<1>1. IsType(T) /\ JsonSchemaBody(T) = <<"array", Byte>>
  BY TypeIs, ConversionAssumption DEF ByteArray
<1>2. T[1] # "list"
  <2>. SUFFICES ASSUME T[1] = "list" PROVE FALSE
    OBVIOUS
  <2>1. T[2] \in Types /\ T[2] # <<"int", 0, 255>>
    BY <1>1 DEF IsType, PartsOf
  <2>2. JsonSchema(T[2]) = Byte
    BY <1>1 DEF JsonSchemaBody
  <2>. QED
    BY <2>1, <2>2, ByteSchema
<1>3. T[1] # "map"
  BY <1>1 DEF JsonSchemaBody, Byte
<1>. QED
  BY <1>1, <1>2, <1>3 DEF IsType, JsonSchemaBody, RecordSchema, IntSchema

\* What is encoded is bytes that decode to what was sent.
LEMMA EncodeInverts ==
  ASSUME NEW j \in Jsons, NEW ct, Supported(ct), Encode(j, ct) # Error
  PROVE  /\ Encode(j, ct) \in Encodings /\ Encode(j, ct)[1] = "bytes"
         /\ Decode(Encode(j, ct), ct) = j
<1>1. CASE ct = Str(Json)
  <2>1. Encode(j, ct) = <<"bytes", <<"json", j>>>>
    BY <1>1 DEF Encode
  <2>2. Decode(<<"bytes", <<"json", j>>>>, ct) = j
    BY <1>1 DEF Decode, Parsed
  <2>. QED
    BY <2>1, <2>2 DEF Encodings
<1>2. CASE ct # Str(Json)
  <2>1. j[1] = "str" /\ Encode(j, ct) = <<"bytes", j[2]>>
    BY <1>2 DEF Encode, Text
  <2>2. Decode(<<"bytes", j[2]>>, ct) = <<"str", j[2]>>
    BY <1>2 DEF Decode
  <2>3. j = <<"str", j[2]>>
    BY <2>1, JsonIs DEF IsJsonValue
  <2>. QED
    BY <2>1, <2>2, <2>3 DEF Encodings
<1>. QED
  BY <1>1, <1>2

\* What is encoded is no error.
LEMMA BytesAreNoError ==
  ASSUME NEW x
  PROVE  <<"bytes", x>> # Error
BY DEF Error

\* A parameter that is encoded is one of bytes, and was sent.
LEMMA EncodedIs ==
  ASSUME NEW s \in Setups, NEW m \in Messages(s), Conforms(s, m), NEW i \in 1..Len(s.function.params),
         s.function.params[i].name \in DOMAIN s.config.encoding
  PROVE  LET n == s.function.params[i].name
         IN /\ s.function.params[i].type[1] = "bytes" /\ n \in DOMAIN Fields(m)
            /\ s.config.encoding[n][1] # "path" =>
                 Supported(TypeFor(s, m, n)) /\ Encode(FromBody(s.function, m, i), TypeFor(s, m, n)) # Error
<1>. DEFINE f == s.function
            c == s.config
            p == f.params[i]
            n == p.name
            j == FromBody(f, m, i)
<1>1. IsFunction(f) /\ m.type \in {None, Json} /\ IsSpec(c.encoding[n])
  BY InvocationAssumption DEF Conforms, Legible
<1>2. p.type \in Types /\ TypeOf(f, n) = p.type /\ n \in Names(f)
  BY <1>1, ParamIs
<1>3. JsonSchema(p.type) = ByteArray /\ ValidSpec(c.encoding[n], ArgsSchema(f))
  BY <1>2 DEF Conforms, ValidMapper
<1>4. p.type[1] = "bytes"
  BY <1>2, <1>3, ByteArrayIs
<1>5. n \in DOMAIN Fields(m) /\ j = Fields(m)[n]
  <2>1. ~IsOptional(TypeOf(f, n))
    BY <1>2, <1>4 DEF IsOptional
  <2>2. n \in DOMAIN Fields(m)
    BY <1>1, <1>2, <2>1, BodyFits DEF Conforms
  <2>. QED
    BY <2>2 DEF FromBody
<1>6. ASSUME c.encoding[n][1] # "path"
      PROVE  Supported(TypeFor(s, m, n)) /\ Encode(j, TypeFor(s, m, n)) # Error
  <2>. DEFINE spec == c.encoding[n]
  <2>1. spec = <<"literal", spec[2]>> /\ TypeFor(s, m, n) = Str(spec[2])
    BY <1>1, <1>6 DEF IsSpec, TypeFor, ContentType
  <2>2. Supported(Str(spec[2]))
    BY <1>3, <1>6 DEF ValidSpec
  <2>3. CASE spec[2] = Json
    <3>. HIDE DEF spec, j, n, p, c, f
    <3>1. Encode(j, Str(spec[2])) = <<"bytes", <<"json", j>>>>
      BY <2>3 DEF Encode
    <3>2. Encode(j, Str(spec[2])) # Error
      BY <3>1, BytesAreNoError, Zenon
    <3>3. TypeFor(s, m, n) = Str(spec[2])
      BY <2>1
    <3>. QED
      BY <2>2, <3>2, <3>3
  <2>4. CASE spec[2] # Json
    <3>1. spec[2] = Plain
      BY <2>2, <2>4 DEF Supported, Str
    <3>2. SurfaceSchema(c, [name |-> n, type |-> TypeOf(f, n)]) = <<"string">>
      BY <2>1, <3>1 DEF SurfaceSchema, EncodedSchema
    <3>3. Accepts(<<"string">>, j) /\ j \in Jsons
      BY <1>1, <1>5, <3>2, BodyFits DEF Conforms
    <3>4. <<"string">> \in Schemas
      <4>. DEFINE props == [x \in Names(f) |-> SurfaceSchema(c, [name |-> x, type |-> TypeOf(f, x)])]
      <4>1. InputSchema(f, c, <<>>) \in Schemas
        BY InvocationAssumption DEF Conforms
      <4>2. InputSchema(f, c, <<>>) = <<"object", props, {x \in Names(f) : ~IsOptional(TypeOf(f, x))}>>
        BY DEF InputSchema, Conforms
      <4>3. props \in [DOMAIN props -> Schemas]
        BY <4>1, <4>2, SchemaIs DEF IsSchema
      <4>4. DOMAIN props = Names(f) /\ props[n] = <<"string">>
        BY <1>2, <3>2
      <4>. HIDE DEF props
      <4>. QED
        BY <1>2, <4>3, <4>4
    <3>5. j[1] = "str"
      BY <3>3, <3>4, SchemaIs DEF AcceptsBody
    <3>6. Str(spec[2]) # Str(Json)
      BY <3>1 DEF Str, Json, Plain
    <3>7. Encode(j, Str(spec[2])) = <<"bytes", j[2]>>
      BY <3>5, <3>6 DEF Encode, Text
    <3>8. Encode(j, Str(spec[2])) # Error
      <4>. HIDE DEF spec, j, n, p, c, f
      <4>. QED
        BY <3>7, BytesAreNoError, Zenon
    <3>9. TypeFor(s, m, n) = Str(spec[2])
      BY <2>1
    <3>. HIDE DEF spec, j, n, p, c, f
    <3>. QED
      BY <2>2, <3>8, <3>9
  <2>. QED
    BY <2>3, <2>4
<1>. QED
  BY <1>4, <1>5, <1>6

\* What a parameter gets, encoded where the configuration says so.
ArgumentOf(s, m, i) ==
  LET n == s.function.params[i].name
  IN IF n \in DOMAIN s.config.encoding THEN Encode(FromBody(s.function, m, i), TypeFor(s, m, n))
     ELSE FromBody(s.function, m, i)

TypesSupported(s, m) == \A n \in DOMAIN s.config.encoding : Supported(TypeFor(s, m, n))

LEMMA EncodingIs ==
  ASSUME NEW s \in Setups, NEW m \in Messages(s), Conforms(s, m)
  PROVE  /\ Assemble(s.function, s.config, m) # Error
         /\ ApplyParamEncoding(s.function, s.config, Assemble(s.function, s.config, m)) =
              IF TypesSupported(s, m) THEN All("args", [i \in 1..Len(s.function.params) |-> ArgumentOf(s, m, i)])
              ELSE Error
<1>. DEFINE f == s.function
            c == s.config
            those == [i \in 1..Len(f.params) |-> FromBody(f, m, i)]
            types == [n \in DOMAIN c.encoding |-> TypeFor(s, m, n)]
            list == Assemble(f, c, m)
            parts == [i \in 1..Len(list[2]) |->
                        IF f.params[i].name \in DOMAIN types THEN Encode(list[2][i], types[f.params[i].name]) ELSE list[2][i]]
<1>1. list = <<"args", those>>
  BY AssembledIs DEF Conforms
<1>2. Len(those) = Len(f.params)
  <2>1. Len(f.params) \in Nat
    BY InvocationAssumption, ParamsAre
  <2>. QED
    BY <2>1
<1>3. list # Error
  BY <1>1 DEF Error
<1>4. ApplyParamEncoding(f, c, list) =
        IF \E n \in DOMAIN types : ~Supported(types[n]) THEN Error ELSE All("args", parts)
  BY DEF ApplyParamEncoding, TypeFor, AllSent
<1>5. (\E n \in DOMAIN types : ~Supported(types[n])) <=> ~TypesSupported(s, m)
  BY DEF TypesSupported
<1>6. parts = [i \in 1..Len(f.params) |-> ArgumentOf(s, m, i)]
  <2>1. Len(list[2]) = Len(f.params) /\ list[2] = those
    BY <1>1, <1>2
  <2>. QED
    BY <2>1 DEF ArgumentOf
<1>. HIDE DEF parts, types, list
<1>. QED
  BY <1>3, <1>4, <1>5, <1>6 DEF list

\* An argument is already what its parameter takes.
LEMMA NotStringified ==
  ASSUME NEW s \in Setups, NEW m \in Messages(s), Conforms(s, m), NEW i \in 1..Len(s.function.params)
  PROVE  Stringify(ArgumentOf(s, m, i), s.function.params[i].type) = ArgumentOf(s, m, i)
<1>. DEFINE f == s.function
            T == f.params[i].type
            n == f.params[i].name
<1>1. /\ IsFunction(f) /\ m.type \in {None, Json}
      /\ T \in Types /\ n \in Names(f) /\ TypeOf(f, n) = T
  BY InvocationAssumption, ParamIs DEF Conforms, Legible
<1>2. CASE n \in DOMAIN s.config.encoding
  BY <1>2, EncodedIs DEF Stringify
<1>3. CASE n \notin DOMAIN s.config.encoding /\ n \notin DOMAIN Fields(m)
  BY <1>3 DEF ArgumentOf, FromBody, Stringify, Null
<1>4. CASE n \notin DOMAIN s.config.encoding /\ n \in DOMAIN Fields(m)
  <2>. DEFINE j == Fields(m)[n]
  <2>1. ArgumentOf(s, m, i) = j
    BY <1>4 DEF ArgumentOf, FromBody
  <2>2. j \in Jsons /\ Accepts(JsonSchema(T), j)
    BY <1>1, <1>4, BodyFits DEF Conforms, SurfaceSchema
  <2>3. AcceptsBody(JsonSchemaBody(T), j)
    BY <1>1, <2>2, SchemaIs, ConversionAssumption
  <2>4. T[1] = "string" => j[1] = "str"
    BY <2>3 DEF AcceptsBody, JsonSchemaBody
  <2>5. T[1] = "enum" => j[1] = "str"
    <3>1. T[1] = "enum" => \E c \in T[2] : j = Str(c)
      BY <2>3 DEF AcceptsBody, JsonSchemaBody
    <3>. QED
      BY <3>1 DEF Str
  <2>. QED
    BY <2>1, <2>4, <2>5 DEF Stringify
<1>. QED
  BY <1>2, <1>3, <1>4

\* A request is mapped, each argument for its parameter, unless a content type fails that
\* the request names.
LEMMA MappedIs ==
  ASSUME NEW s \in Setups, NEW m \in Messages(s), Conforms(s, m), s.function.params # <<>>
  PROVE  /\ ToInvocation(s.function, s.config, m) = Error =>
              \E n \in DOMAIN s.config.encoding :
                /\ s.config.encoding[n][1] = "path"
                /\ ~Supported(TypeFor(s, m, n)) \/ Encode(Field(AllSent(s, m), n), TypeFor(s, m, n)) = Error
         /\ ToInvocation(s.function, s.config, m) # Error =>
              /\ TypesSupported(s, m)
              /\ \A i \in 1..Len(s.function.params) : ArgumentOf(s, m, i) # Error
              /\ ToInvocation(s.function, s.config, m) =
                   <<"args", [i \in 1..Len(s.function.params) |-> ArgumentOf(s, m, i)]>>
<1>. DEFINE f == s.function
            c == s.config
            parts == [i \in 1..Len(f.params) |-> ArgumentOf(s, m, i)]
            encoded == ApplyParamEncoding(f, c, Assemble(f, c, m))
<1>1. ToInvocation(f, c, m) =
        IF encoded = Error THEN Error
        ELSE <<"args", [i \in 1..Len(f.params) |-> Stringify(encoded[2][i], f.params[i].type)]>>
  BY EncodingIs DEF ToInvocation
<1>2. encoded = IF TypesSupported(s, m) THEN All("args", parts) ELSE Error
  BY EncodingIs
<1>3. All("args", parts) = IF \E i \in 1..Len(f.params) : ArgumentOf(s, m, i) = Error THEN Error ELSE <<"args", parts>>
  BY DEF All
<1>. HIDE DEF encoded
<1>4. IsFunction(f)
  BY InvocationAssumption
<1>5. ASSUME ToInvocation(f, c, m) = Error
      PROVE  \E n \in DOMAIN c.encoding :
               /\ c.encoding[n][1] = "path"
               /\ ~Supported(TypeFor(s, m, n)) \/ Encode(Field(AllSent(s, m), n), TypeFor(s, m, n)) = Error
  <2>1. encoded = Error
    <3>1. \A x : <<"args", x>> # Error
      BY DEF Error
    <3>. QED
      BY <1>1, <1>5, <3>1
  <2>2. CASE ~TypesSupported(s, m)
    <3>1. PICK n \in DOMAIN c.encoding : ~Supported(TypeFor(s, m, n))
      BY <2>2 DEF TypesSupported
    <3>2. PICK i \in 1..Len(f.params) : f.params[i].name = n
      BY <1>4, <3>1, ParamsAre DEF Conforms, ValidMapper
    <3>. QED
      BY <3>1, <3>2, EncodedIs
  <2>3. CASE TypesSupported(s, m)
    <3>1. PICK i \in 1..Len(f.params) : ArgumentOf(s, m, i) = Error
      <4>1. \A x : <<"args", x>> # Error
        BY DEF Error
      <4>. HIDE DEF parts
      <4>. QED
        BY <1>2, <1>3, <2>1, <2>3, <4>1
    <3>. DEFINE n == f.params[i].name
    <3>2. Field(AllSent(s, m), n) = FromBody(f, m, i) /\ FromBody(f, m, i) # Error
      BY SentIs, JsonIs
    <3>3. n \in DOMAIN c.encoding /\ Encode(FromBody(f, m, i), TypeFor(s, m, n)) = Error
      BY <3>1, <3>2 DEF ArgumentOf
    <3>. QED
      BY <3>2, <3>3, EncodedIs
  <2>. QED
    BY <2>2, <2>3
<1>6. ASSUME ToInvocation(f, c, m) # Error
      PROVE  /\ TypesSupported(s, m)
             /\ \A i \in 1..Len(f.params) : ArgumentOf(s, m, i) # Error
             /\ ToInvocation(f, c, m) = <<"args", parts>>
  <2>1. encoded # Error
    BY <1>1, <1>6
  <2>2. TypesSupported(s, m) /\ encoded = All("args", parts)
    BY <1>2, <2>1
  <2>3. (\A i \in 1..Len(f.params) : ArgumentOf(s, m, i) # Error) /\ encoded = <<"args", parts>>
    BY <1>3, <2>1, <2>2
  <2>4. \A i \in 1..Len(f.params) : Stringify(encoded[2][i], f.params[i].type) = parts[i]
    BY <2>3, NotStringified
  <2>5. [i \in 1..Len(f.params) |-> Stringify(encoded[2][i], f.params[i].type)] = parts
    BY <2>4
  <2>. HIDE DEF parts
  <2>6. ToInvocation(f, c, m) = <<"args", parts>>
    BY <1>1, <2>1, <2>5
  <2>. QED
    BY <2>2, <2>3, <2>6
<1>. QED
  BY <1>5, <1>6

\* An argument converts to a value of its type that is what was sent.
LEMMA ArgumentConverts ==
  ASSUME NEW s \in Setups, NEW m \in Messages(s), Conforms(s, m), NEW i \in 1..Len(s.function.params),
         TypesSupported(s, m), ArgumentOf(s, m, i) # Error
  PROVE  LET T == s.function.params[i].type
             n == s.function.params[i].name
             v == JsonToVal(ArgumentOf(s, m, i), T)
         IN /\ IsInvokable(T) /\ Whole(ArgumentOf(s, m, i), T) => v # Error
            /\ v # Error =>
                 /\ HasType(v, T)
                 /\ n \notin DOMAIN Fields(m) => v = <<"none">>
                 /\ n \in DOMAIN Fields(m) =>
                      IF n \in DOMAIN s.config.encoding THEN Decode(v, TypeFor(s, m, n)) = Fields(m)[n]
                      ELSE Says(v, Fields(m)[n])
<1>. DEFINE f == s.function
            T == f.params[i].type
            n == f.params[i].name
            a == ArgumentOf(s, m, i)
            v == JsonToVal(a, T)
<1>1. /\ IsFunction(f) /\ m.type \in {None, Json}
      /\ T \in Types /\ n \in Names(f) /\ TypeOf(f, n) = T
  BY InvocationAssumption, ParamIs DEF Conforms, Legible
<1>2. CASE n \in DOMAIN s.config.encoding
  <2>1. T[1] = "bytes" /\ n \in DOMAIN Fields(m)
    BY <1>2, EncodedIs
  <2>2. a = Encode(Fields(m)[n], TypeFor(s, m, n)) /\ Fields(m)[n] \in Jsons /\ Supported(TypeFor(s, m, n))
    BY <1>1, <1>2, <2>1, BodyFits DEF ArgumentOf, FromBody, TypesSupported, Conforms
  <2>3. a \in Encodings /\ a[1] = "bytes" /\ Decode(a, TypeFor(s, m, n)) = Fields(m)[n]
    BY <2>2, EncodeInverts
  <2>4. v = a
    <3>1. JsonToVal(a, T) = JsonToValBody(a, T)
      BY <1>1, <2>3, ConversionAssumption
    <3>. QED
      BY <2>1, <2>3, <3>1 DEF JsonToValBody
  <2>5. HasType(a, T)
    <3>1. HasType(a, T) = HasTypeBody(a, T)
      BY <1>1, <2>3, ConversionAssumption
    <3>. QED
      BY <2>1, <2>3, <3>1 DEF HasTypeBody
  <2>6. a # Error
    BY <2>3 DEF Error
  <2>7. Decode(a, TypeFor(s, m, n)) = Fields(m)[n]
    BY <2>3
  <2>. QED
    BY <1>2, <2>1, <2>4, <2>5, <2>6, <2>7, Zenon
<1>3. CASE n \notin DOMAIN s.config.encoding /\ n \notin DOMAIN Fields(m)
  <2>1. a = Null
    BY <1>3 DEF ArgumentOf, FromBody
  <2>2. IsOptional(T)
    BY <1>1, <1>3, BodyFits DEF Conforms
  <2>. QED
    BY <1>1, <1>3, <2>1, <2>2, AbsentIsNone
<1>4. CASE n \notin DOMAIN s.config.encoding /\ n \in DOMAIN Fields(m)
  <2>1. a = Fields(m)[n]
    BY <1>4 DEF ArgumentOf, FromBody
  <2>2. Fields(m)[n] \in Jsons /\ Accepts(JsonSchema(T), Fields(m)[n])
    BY <1>1, <1>4, BodyFits DEF Conforms, SurfaceSchema
  <2>3. /\ IsInvokable(T) /\ Whole(Fields(m)[n], T) => JsonToVal(Fields(m)[n], T) # Error
        /\ JsonToVal(Fields(m)[n], T) # Error =>
             HasType(JsonToVal(Fields(m)[n], T), T) /\ Says(JsonToVal(Fields(m)[n], T), Fields(m)[n])
    BY <1>1, <2>2, AcceptedIsConverted, Zenon
  <2>. QED
    BY <1>4, <2>1, <2>3, Zenon
<1>. QED
  BY <1>2, <1>3, <1>4

\* The calls convert each argument.
LEMMA ArgumentsAre ==
  ASSUME NEW s \in Setups, NEW list, Arguments(list, [i \in 1..Len(s.function.params) |-> s.function.params[i].type]) # Error
  PROVE  /\ Arguments(list, [i \in 1..Len(s.function.params) |-> s.function.params[i].type])
              = <<"args", [i \in 1..Len(s.function.params) |-> JsonToVal(list[i], s.function.params[i].type)]>>
         /\ \A i \in 1..Len(s.function.params) : JsonToVal(list[i], s.function.params[i].type) # Error
<1>. DEFINE types == [i \in 1..Len(s.function.params) |-> s.function.params[i].type]
            parts == [i \in 1..Len(list) |-> JsonToVal(list[i], types[i])]
<1>1. Len(types) = Len(s.function.params)
  <2>1. Len(s.function.params) \in Nat
    BY InvocationAssumption, ParamsAre
  <2>. QED
    BY <2>1
<1>2. Len(list) = Len(types) /\ All("args", parts) # Error /\ Arguments(list, types) = All("args", parts)
  BY DEF Arguments
<1>3. All("args", parts) = <<"args", parts>> /\ \A i \in DOMAIN parts : parts[i] # Error
  BY <1>2, AllParts
<1>4. parts = [i \in 1..Len(s.function.params) |-> JsonToVal(list[i], s.function.params[i].type)]
  BY <1>1, <1>2
<1>. QED
  BY <1>1, <1>2, <1>3, <1>4

LEMMA Admits ==
  ASSUME InvInv, Admitted, setup.http, c0.mapping = None
  PROVE  /\ setup \in Setups /\ message \in Messages(setup) /\ ValidMapper(f0, c0)
         /\ Accepts(InputSchema(f0, c0, <<>>), BodyToValidate(message))
         /\ Legible(f0, message) => Conforms(setup, message)
<1>1. Received /\ Served
  BY DEF Admitted, Received
<1>2. schemas.input = InputSchema(f0, c0, <<>>)
  BY <1>1 DEF InvInv, SchemasInv, Orders
<1>. QED
  BY <1>1, <1>2 DEF InvInv, SchemasInv, Conforming, Conforms, f0, c0

LEMMA ArgumentsFail ==
  ASSUME NEW list, NEW types, Len(list) = Len(types), Len(list) \in Nat, Arguments(list, types) = Error
  PROVE  \E i \in 1..Len(list) : JsonToVal(list[i], types[i]) = Error
<1>. DEFINE parts == [i \in 1..Len(list) |-> JsonToVal(list[i], types[i])]
<1>1. All("args", parts) = Error
  BY DEF Arguments
<1>2. DOMAIN parts = 1..Len(list)
  OBVIOUS
<1>3. ASSUME NEW i \in DOMAIN parts, parts[i] = Error
      PROVE  i \in 1..Len(list) /\ JsonToVal(list[i], types[i]) = Error
  BY <1>3
<1>4. \E i \in DOMAIN parts : parts[i] = Error
  <2>. HIDE DEF parts
  <2>. QED
    BY <1>1, AllParts
<1>. QED
  BY <1>3, <1>4

LEMMA NoParameters ==
  ASSUME NEW s \in Setups, s.function.params = <<>>, NEW m
  PROVE  ToInvocation(s.function, s.config, m) = <<"args", <<>>>> /\ <<"args", <<>>>> # Error
BY DEF ToInvocation, Error

\* A request that a route accepts invokes its function (ConformingRequestIsInvoked), for
\* every function without a mapping and every request, but one with a number that is no
\* integer of 64 bits: schema and conversion disagree on these.
THEOREM UnmappedRequestIsInvoked == InvSpec => [](c0.mapping = None => ConformingRequestIsInvoked)
<1>1. ASSUME InvInv, c0.mapping = None PROVE ConformingRequestIsInvoked
  <2>. SUFFICES ASSUME setup.http, phase \in {"unmapped", "unconverted"}, ~Misread
                PROVE  \/ phase = "unmapped" /\ \E n \in DOMAIN c0.encoding : RuntimeTypeFails(n)
                       \/ phase = "unconverted" /\ \E i \in 1..Len(f0.params) :
                            ~IsInvokable(f0.params[i].type) \/ ~Whole(args[2][i], f0.params[i].type)
    BY DEF ConformingRequestIsInvoked
  <2>1. Admitted /\ (phase = "unconverted" => Called)
    BY DEF Admitted, Received, Served, Called
  <2>2. Legible(f0, message)
    BY <1>1 DEF Legible, Misread
  <2>3. Conforms(setup, message) /\ setup \in Setups /\ message \in Messages(setup)
    BY <1>1, <2>1, <2>2, Admits
  <2>4. CASE phase = "unmapped"
    <3>1. ToInvocation(setup.function, setup.config, message) = Error
      BY <1>1, <2>4 DEF InvInv, f0, c0
    <3>2. setup.function.params # <<>>
      BY <2>3, <3>1, NoParameters
    <3>3. PICK n \in DOMAIN setup.config.encoding :
            /\ setup.config.encoding[n][1] = "path"
            /\ ~Supported(TypeFor(setup, message, n))
               \/ Encode(Field(AllSent(setup, message), n), TypeFor(setup, message, n)) = Error
      BY <2>3, <3>1, <3>2, MappedIs
    <3>4. RuntimeTypeFails(n)
      BY <3>3 DEF RuntimeTypeFails, TypeFor, AllSent, f0, c0
    <3>. QED
      BY <2>4, <3>4 DEF c0
  <2>5. CASE phase = "unconverted"
    <3>. DEFINE list == [i \in 1..Len(f0.params) |-> ArgumentOf(setup, message, i)]
    <3>1. args = ToInvocation(setup.function, setup.config, message) /\ args # Error /\ Arguments(args[2], ParamTypes) = Error
      BY <1>1, <2>1, <2>5 DEF InvInv, f0, c0
    <3>2. setup.function.params # <<>>
      <4>1. SUFFICES ASSUME setup.function.params = <<>> PROVE FALSE
        OBVIOUS
      <4>2. args[2] = <<>>
        BY <2>3, <3>1, <4>1, NoParameters
      <4>3. Len(<<>>) = 0 /\ Len(ParamTypes) = 0 /\ 1..0 = {}
        BY <4>1 DEF ParamTypes, f0
      <4>. QED
        BY <3>1, <4>2, <4>3, ArgumentsFail
    <3>3. /\ args[2] = list /\ TypesSupported(setup, message)
          /\ \A i \in 1..Len(f0.params) : ArgumentOf(setup, message, i) # Error
      BY <2>3, <3>1, <3>2, MappedIs DEF f0
    <3>4. PICK i \in 1..Len(f0.params) : JsonToVal(ArgumentOf(setup, message, i), f0.params[i].type) = Error
      <4>1. Len(f0.params) \in Nat
        BY <2>3, InvocationAssumption, ParamsAre DEF f0
      <4>2. Len(list) = Len(f0.params) /\ Len(ParamTypes) = Len(f0.params)
        BY <4>1 DEF ParamTypes
      <4>3. PICK i \in 1..Len(list) : JsonToVal(list[i], ParamTypes[i]) = Error
        BY <3>1, <3>3, <4>1, <4>2, ArgumentsFail
      <4>. QED
        BY <4>2, <4>3 DEF ParamTypes
    <3>5. ~IsInvokable(f0.params[i].type) \/ ~Whole(ArgumentOf(setup, message, i), f0.params[i].type)
      BY <2>3, <3>3, <3>4, ArgumentConverts DEF f0
    <3>6. args[2][i] = ArgumentOf(setup, message, i)
      BY <3>3
    <3>. QED
      BY <2>5, <3>5, <3>6
  <2>. QED
    BY <2>4, <2>5
<1>. QED
  BY <1>1, InvAlways, PTL

\* What is not legible is an object without fields, or a text that is empty.
Misreadings == {Obj(NoFields), <<"str", NoText>>}

\* These have a value of a type, or none.
LEMMA MisreadIsTyped ==
  ASSUME NEW T \in Types, NEW j \in Jsons, j \in Misreadings, JsonToVal(j, T) # Error
  PROVE  HasType(JsonToVal(j, T), T)
<1>. DEFINE S == {U \in Types : JsonToVal(j, U) # Error => HasType(JsonToVal(j, U), U)}
<1>1. ASSUME NEW U \in Types, \A W \in PartsOf(U) : W \in S PROVE U \in S
  <2>. DEFINE v == JsonToVal(j, U)
  <2>1. SUFFICES ASSUME v # Error PROVE HasTypeBody(v, U)
    BY ConvertedIs, ValueIs
  <2>2. v \in Vals /\ v = JsonToValBody(j, U) /\ IsType(U)
    BY <2>1, ConvertedIs, TypeIs, ConversionAssumption
  <2>3. \/ j[1] = "obj" /\ j[2] = NoFields /\ DOMAIN j[2] = {}
        \/ j[1] = "str" /\ j[2] = NoText
    BY DEF Misreadings, Obj, NoFields
  <2>4. j # Null
    BY <2>3 DEF Null
  <2>. HIDE DEF v
  <2>5. CASE U[1] = "string"
    BY <2>1, <2>2, <2>5 DEF JsonToValBody, HasTypeBody
  <2>6. CASE U[1] \in {"bool", "bytes", "list", "tuple", "flags", "resource"}
    BY <2>1, <2>2, <2>3, <2>6 DEF JsonToValBody
  <2>7. CASE U[1] = "int"
    <3>1. Parsed(NoText)[1] = "error"
      BY DEF Parsed, NoText, Error
    <3>. QED
      BY <2>1, <2>2, <2>3, <2>7, <3>1 DEF JsonToValBody, ToInt
  <2>8. CASE U[1] = "enum"
    BY <2>1, <2>2, <2>8 DEF JsonToValBody, HasTypeBody
  <2>9. CASE U[1] = "option"
    <3>1. U[2] \in PartsOf(U) /\ U[2] \in Types
      BY <2>9, OptionSchema
    <3>2. v = <<"some", JsonToVal(j, U[2])>> /\ JsonToVal(j, U[2]) # Error
      BY <2>1, <2>2, <2>4, <2>9 DEF JsonToValBody, ToOption
    <3>3. JsonToVal(j, U[2]) \in Vals /\ HasType(JsonToVal(j, U[2]), U[2])
      BY <1>1, <3>1, <3>2, ConvertedIs
    <3>. QED
      BY <2>9, <3>2, <3>3 DEF HasTypeBody
  <2>10. CASE U[1] \in {"variant", "result"}
    <3>1. \A f : Field(j, f) = Error
      BY <2>3 DEF Field
    <3>2. CasesNamed(U, Error) = {}
      BY DEF CasesNamed, Str, Error
    <3>3. CASE U[1] = "variant"
      BY <2>1, <2>2, <3>1, <3>2, <3>3 DEF JsonToValBody, ToVariant
    <3>4. CASE U[1] = "result"
      BY <2>1, <2>2, <3>1, <3>4 DEF JsonToValBody, ToResult
    <3>. QED
      BY <2>10, <3>3, <3>4
  <2>11. CASE U[1] = "record"
    <3>. DEFINE parts == [f \in DOMAIN U[2] |->
                            IF f \in DOMAIN j[2] THEN JsonToVal(j[2][f], U[2][f])
                            ELSE IF IsOptional(U[2][f]) THEN <<"none">> ELSE Error]
    <3>1. DOMAIN j[2] = {}
      BY <2>1, <2>2, <2>3, <2>11 DEF JsonToValBody, ToRecord
    <3>2. v = All("record", parts)
      BY <2>1, <2>2, <2>11 DEF JsonToValBody, ToRecord
    <3>3. v = <<"record", parts>> /\ \A f \in DOMAIN U[2] : parts[f] # Error
      BY <2>1, <3>2, AllParts
    <3>4. ASSUME NEW f \in DOMAIN U[2] PROVE parts[f] \in Vals /\ HasType(parts[f], U[2][f])
      <4>1. parts[f] = <<"none">> /\ IsOptional(U[2][f])
        BY <3>1, <3>3
      <4>2. U[2][f] \in Types
        BY <2>2, <2>11 DEF IsType
      <4>. QED
        BY <4>1, <4>2, AbsentIsNone
    <3>5. parts \in [DOMAIN U[2] -> Vals]
      BY <3>4
    <3>. HIDE DEF parts
    <3>. QED
      BY <2>11, <3>3, <3>4, <3>5 DEF HasTypeBody
  <2>12. CASE U[1] = "map"
    <3>. DEFINE parts == [k \in DOMAIN j[2] |-> JsonToVal(j[2][k], U[3])]
    <3>1. j[1] = "obj" /\ DOMAIN j[2] = {} /\ U[2][1] = "string" /\ v = All("map", parts)
      BY <2>1, <2>2, <2>3, <2>12 DEF JsonToValBody, ToMap
    <3>2. v = <<"map", parts>> /\ DOMAIN parts = {}
      BY <2>1, <3>1, AllParts
    <3>3. parts \in [DOMAIN parts -> Vals]
      BY <3>2
    <3>. HIDE DEF parts
    <3>4. v[1] = "map" /\ v[2] \in [DOMAIN v[2] -> Vals] /\ DOMAIN v[2] = {}
      BY <3>2, <3>3
    <3>. QED
      BY <2>12, <3>1, <3>4 DEF HasTypeBody
  <2>. QED
    BY <2>2, <2>5, <2>6, <2>7, <2>8, <2>9, <2>10, <2>11, <2>12 DEF IsType
<1>2. Types \subseteq S
  BY <1>1, TypeInduction, Zenon
<1>. QED
  BY <1>2

LEMMA NothingRequired ==
  ASSUME NEW s \in Setups, s.http, s.config.mapping = None, NEW m \in Messages(s),
         Accepts(InputSchema(s.function, s.config, <<>>), BodyToValidate(m))
  PROVE  /\ BodyToValidate(m)[1] = "obj"
         /\ BodyToValidate(m) = Obj(NoFields) => \A n \in Names(s.function) : IsOptional(TypeOf(s.function, n))
<1>. DEFINE f == s.function
            props == [n \in Names(f) |-> SurfaceSchema(s.config, [name |-> n, type |-> TypeOf(f, n)])]
            required == {n \in Names(f) : ~IsOptional(TypeOf(f, n))}
            body == BodyToValidate(m)
<1>1. InputSchema(f, s.config, <<>>) = <<"object", props, required>>
  BY DEF InputSchema
<1>2. InputSchema(f, s.config, <<>>) \in Schemas /\ body \in Jsons \cup {Error}
  BY InvocationAssumption
<1>3. AcceptsBody(<<"object", props, required>>, body)
  BY <1>1, <1>2, SchemaIs
<1>4. body[1] = "obj" /\ HasProperties(body, props, required)
  BY <1>3 DEF AcceptsBody
<1>5. required \subseteq DOMAIN body[2]
  BY <1>4 DEF HasProperties
<1>6. body = Obj(NoFields) => DOMAIN body[2] = {}
  BY DEF Obj, NoFields
<1>. QED
  BY <1>4, <1>5, <1>6

\* What is not legible is refused, or is taken for the one parameter, that is optional.
LEMMA IllegibleIs ==
  ASSUME NEW s \in Setups, s.http, s.config.mapping = None, NEW m \in Messages(s), ValidMapper(s.function, s.config),
         Accepts(InputSchema(s.function, s.config, <<>>), BodyToValidate(m)), ~Legible(s.function, m),
         s.function.params # <<>>, ToInvocation(s.function, s.config, m) # Error
  PROVE  /\ Len(s.function.params) = 1
         /\ \E j \in Jsons \cap Misreadings : ToInvocation(s.function, s.config, m) = <<"args", [i \in 1..1 |-> j]>>
         /\ m.body # None => Parsed(m.body) = Obj(NoFields)
<1>. DEFINE f == s.function
            c == s.config
            body == ParseBody(m)
            named == NormalizeBody(f, c, body)
            got == Assemble(f, c, m)
<1>1. IsFunction(f) /\ body \in Jsons \cup {Error} /\ BodyToValidate(m)[1] = "obj"
  BY InvocationAssumption, NothingRequired
<1>2. got # Error /\ ApplyParamEncoding(f, c, got) # Error
  BY DEF ToInvocation
<1>3. body # Error /\ named # Error /\ got = All("args", [i \in 1..Len(f.params) |-> NameMatch(f.params[i], named)])
  <2>. HIDE DEF body, named
  <2>1. body # Error /\ named # Error
    BY <1>2 DEF Assemble, body, named
  <2>. QED
    BY <2>1 DEF Assemble, body, named
<1>4. body \in Jsons /\ (Len(f.params) # 1 => body[1] = "obj")
  <2>1. Len(f.params) # 1 /\ body[1] # "obj" => named = Error
    BY DEF NormalizeBody
  <2>. QED
    BY <1>1, <1>3, <2>1
<1>5. /\ body \in Misreadings /\ Len(f.params) = 1 /\ BodyToValidate(m) = Obj(NoFields)
      /\ m.body # None => Parsed(m.body) = Obj(NoFields)
  <2>1. CASE m.type \in {None, Json}
    <3>1. /\ m.body # None => BodyToValidate(m) = Parsed(m.body) /\ body = Parsed(m.body)
          /\ m.body = None => body = Null
      BY <2>1, JsonBody
    <3>2. Len(f.params) = 1
      BY <1>4, <2>1, <3>1 DEF Legible, Null
    <3>3. m.body # None /\ Parsed(m.body) = Obj(NoFields)
      BY <2>1, <3>2 DEF Legible
    <3>. QED
      BY <3>1, <3>2, <3>3 DEF Misreadings
  <2>2. CASE m.type \notin {None, Json}
    <3>1. m.type = Plain /\ body = <<"str", IF m.body = None THEN NoText ELSE m.body>>
      BY <1>3, <2>2 DEF ParseBody
    <3>2. m.body = None
      <4>1. Plain # JsonUtf8
        BY DEF Plain, JsonUtf8
      <4>2. m.body # None => BodyToValidate(m) = body
        BY <3>1, <4>1 DEF BodyToValidate
      <4>. QED
        BY <1>1, <3>1, <4>2
    <3>3. body = <<"str", NoText>> /\ BodyToValidate(m) = Obj(NoFields)
      BY <3>1, <3>2 DEF BodyToValidate
    <3>. QED
      BY <1>4, <3>2, <3>3 DEF Misreadings
  <2>. QED
    BY <2>1, <2>2
<1>. DEFINE T == f.params[1].type
            n == f.params[1].name
<1>6. Names(f) = {n} /\ T \in Types /\ IsOptional(T) /\ TypeOf(f, n) = T
  <2>1. 1 \in 1..Len(f.params) /\ Names(f) = {n}
    BY <1>5 DEF Names
  <2>2. T \in Types /\ TypeOf(f, n) = T /\ n \in Names(f)
    BY <1>1, <2>1, ParamIs
  <2>. QED
    BY <1>5, <2>1, <2>2, NothingRequired
<1>7. NameMatch(f.params[1], named) = body
  <2>1. Field(body, n) = Error
    BY <1>5 DEF Misreadings, Field, Obj, NoFields
  <2>2. named = Obj([x \in {n} |-> body])
    BY <1>5, <2>1 DEF NormalizeBody, Obj
  <2>3. Field(Obj([x \in {n} |-> body]), n) = body
    BY DEF Field, Obj
  <2>. QED
    BY <1>3, <2>2, <2>3 DEF NameMatch
<1>. DEFINE those == [i \in 1..1 |-> body]
<1>8. All("args", those) = <<"args", those>>
  BY <1>3 DEF All
<1>9. got = <<"args", those>> /\ Len(those) = 1
  <2>1. [i \in 1..Len(f.params) |-> NameMatch(f.params[i], named)] = those
    BY <1>5, <1>7
  <2>. QED
    BY <1>3, <1>8, <2>1
<1>10. DOMAIN c.encoding = {}
  <2>. SUFFICES ASSUME NEW x \in DOMAIN c.encoding PROVE FALSE
    OBVIOUS
  <2>1. x = n /\ JsonSchema(T) = ByteArray
    BY <1>6 DEF ValidMapper
  <2>2. T[1] = "bytes"
    BY <1>6, <2>1, ByteArrayIs
  <2>. QED
    BY <1>6, <2>2 DEF IsOptional
<1>11. ApplyParamEncoding(f, c, got) = got
  <2>. DEFINE types == [x \in DOMAIN c.encoding |-> ContentType(c.encoding[x], ArgsAsValue(f, got))]
              parts == [i \in 1..Len(got[2]) |->
                          IF f.params[i].name \in DOMAIN types THEN Encode(got[2][i], types[f.params[i].name]) ELSE got[2][i]]
  <2>1. DOMAIN types = {}
    BY <1>10
  <2>2. ApplyParamEncoding(f, c, got) = All("args", parts)
    BY <2>1 DEF ApplyParamEncoding
  <2>. HIDE DEF types, got, those
  <2>3. parts = those
    BY <1>9, <2>1 DEF those
  <2>. QED
    BY <1>8, <1>9, <2>2, <2>3
<1>12. Stringify(body, T) = body
  BY <1>6 DEF Stringify, IsOptional
<1>13. ToInvocation(f, c, m) = <<"args", [i \in 1..Len(f.params) |-> Stringify(got[2][i], f.params[i].type)]>>
  BY <1>2, <1>11 DEF ToInvocation
<1>14. [i \in 1..Len(f.params) |-> Stringify(got[2][i], f.params[i].type)] = those
  BY <1>5, <1>9, <1>12
<1>. QED
  BY <1>4, <1>5, <1>13, <1>14

\* What a component without a mapping is given (ArgumentsCarryTheRequest) are values of its
\* types that say what was sent, for every request and every type.
THEOREM UnmappedArgumentsCarryTheRequest == InvSpec => [](c0.mapping = None => ArgumentsCarryTheRequest)
<1>1. ASSUME InvInv, c0.mapping = None PROVE ArgumentsCarryTheRequest
  <2>. SUFFICES ASSUME setup.http, phase \in {"run", "errored", "reply", "answered", "unanswered"},
                       NEW i \in 1..Len(f0.params)
                PROVE  LET n == f0.params[i].name
                           v == given[2][i]
                       IN /\ HasType(v, f0.params[i].type)
                          /\ Sent(n) # Error =>
                               IF n \in DOMAIN c0.encoding THEN Decode(v, TypeFor(setup, message, n)) = Sent(n)
                               ELSE Says(v, Sent(n))
                          /\ Sent(n) = Error /\ ~Misread => v = <<"none">>
    BY DEF ArgumentsCarryTheRequest, TypeFor, AllSent, f0, c0
  <2>. DEFINE n == f0.params[i].name
              v == given[2][i]
              T == f0.params[i].type
  <2>1. Admitted /\ Called /\ Started
    BY DEF Admitted, Received, Served, Called, Started
  <2>2. /\ setup \in Setups /\ message \in Messages(setup) /\ ValidMapper(f0, c0)
        /\ Accepts(InputSchema(f0, c0, <<>>), BodyToValidate(message))
        /\ Legible(f0, message) => Conforms(setup, message)
    BY <1>1, <2>1, Admits
  <2>3. /\ args = ToInvocation(setup.function, setup.config, message) /\ args # Error
        /\ given = Arguments(args[2], ParamTypes) /\ given # Error
    BY <1>1, <2>1 DEF InvInv, f0, c0
  <2>4. v = JsonToVal(args[2][i], T) /\ v # Error
    <3>. DEFINE vals == [k \in 1..Len(f0.params) |-> JsonToVal(args[2][k], f0.params[k].type)]
    <3>1. given = <<"args", vals>> /\ \A k \in 1..Len(f0.params) : JsonToVal(args[2][k], f0.params[k].type) # Error
      BY <2>2, <2>3, ArgumentsAre, Zenon DEF ParamTypes, f0
    <3>2. given[2] = vals
      BY <3>1
    <3>. QED
      BY <3>1, <3>2
  <2>5. setup.function.params # <<>> /\ T \in Types
    BY <2>2, InvocationAssumption, ParamIs DEF f0
  <2>6. Sent(n) = IF message.body = None THEN Error ELSE Field(Parsed(message.body), n)
    BY <1>1 DEF Sent
  <2>. HIDE DEF v
  <2>7. CASE Legible(f0, message)
    <3>1. Conforms(setup, message) /\ message.type \in {None, Json}
      BY <2>2, <2>7 DEF Legible
    <3>. DEFINE list == [k \in 1..Len(f0.params) |-> ArgumentOf(setup, message, k)]
    <3>2. args[2][i] = ArgumentOf(setup, message, i) /\ TypesSupported(setup, message) /\ ArgumentOf(setup, message, i) # Error
      <4>1. /\ args = <<"args", list>> /\ TypesSupported(setup, message)
            /\ \A k \in 1..Len(f0.params) : ArgumentOf(setup, message, k) # Error
        BY <2>2, <2>3, <2>5, <3>1, MappedIs, Zenon DEF f0
      <4>2. args[2] = list
        BY <4>1
      <4>. QED
        BY <4>1, <4>2
    <3>3. /\ HasType(v, T)
          /\ n \notin DOMAIN Fields(message) => v = <<"none">>
          /\ n \in DOMAIN Fields(message) =>
               IF n \in DOMAIN c0.encoding THEN Decode(v, TypeFor(setup, message, n)) = Fields(message)[n]
               ELSE Says(v, Fields(message)[n])
      BY <2>2, <2>4, <3>1, <3>2, ArgumentConverts DEF f0, c0
    <3>4. IF n \in DOMAIN Fields(message) THEN Sent(n) = Fields(message)[n] /\ Sent(n) # Error ELSE Sent(n) = Error
      <4>1. /\ message.body # None => Parsed(message.body) = Obj(Fields(message))
            /\ message.body = None => Fields(message) = NoFields
            /\ \A x \in DOMAIN Fields(message) : Fields(message)[x] \in Jsons
        BY <1>1, <2>2, <3>1, BodyFits DEF f0, c0
      <4>2. CASE message.body = None
        BY <2>6, <4>1, <4>2 DEF NoFields
      <4>3. CASE message.body # None
        <5>1. Field(Obj(Fields(message)), n) = IF n \in DOMAIN Fields(message) THEN Fields(message)[n] ELSE Error
          BY DEF Field, Obj
        <5>. QED
          BY <2>6, <4>1, <4>3, <5>1, JsonIs
      <4>. QED
        BY <4>2, <4>3
    <3>. QED
      BY <3>3, <3>4 DEF v
  <2>8. CASE ~Legible(f0, message)
    <3>1. /\ Len(f0.params) = 1
          /\ \E j \in Jsons \cap Misreadings : args = <<"args", [k \in 1..1 |-> j]>>
          /\ message.body # None => Parsed(message.body) = Obj(NoFields)
      BY <1>1, <2>2, <2>3, <2>5, <2>8, IllegibleIs DEF f0, c0
    <3>2. HasType(v, T)
      <4>1. args[2][i] \in Jsons /\ args[2][i] \in Misreadings
        BY <3>1
      <4>. QED
        BY <2>4, <2>5, <4>1, MisreadIsTyped
    <3>3. Sent(n) = Error
      BY <2>6, <3>1 DEF Field, Obj, NoFields
    <3>4. Misread
      BY <1>1, <2>8, <3>1 DEF Misread, Legible
    <3>. QED
      BY <3>2, <3>3, <3>4 DEF v
  <2>. QED
    BY <2>7, <2>8
<1>. QED
  BY <1>1, InvAlways, PTL

-----------------------------------------------------------------------------
(* A reply without a mapping.                                              *)

Stays(T, j) == Accepts(JsonSchema(T), j) => Coerce(j, JsonSchema(T)) = j

LEMMA CoerceIs ==
  ASSUME NEW s \in Schemas, NEW j \in Jsons
  PROVE  Coerce(j, s) = CoerceBody(j, s)
BY MappingAssumption

\* What a string, a name, or what is no text, no record and no list is coerced to.
LEMMA NotCoerced ==
  ASSUME NEW s \in Schemas, NEW j \in Jsons, SchemaType(s) = "string" => j[1] = "str",
         ~(s[1] = "object" /\ j[1] = "obj"), ~(s[1] \in {"array", "set"} /\ j[1] = "arr")
  PROVE  Coerce(j, s) = j
BY CoerceIs DEF CoerceBody

LEMMA ItemsStay ==
  ASSUME NEW s \in Schemas, NEW j \in Jsons, s[1] \in {"array", "set"},
         j[1] = "arr" => \A i \in 1..Len(j[2]) : Coerce(j[2][i], s[2]) = j[2][i]
  PROVE  Coerce(j, s) = j
<1>1. CASE j[1] # "arr"
  BY <1>1, NotCoerced DEF SchemaType
<1>2. CASE j[1] = "arr"
  <2>. DEFINE items == [i \in 1..Len(j[2]) |-> Coerce(j[2][i], s[2])]
  <2>1. SchemaType(s) # "string" /\ s[1] # "object"
    BY DEF SchemaType
  <2>2. Coerce(j, s) = <<"arr", items>>
    BY <1>2, <2>1, CoerceIs DEF CoerceBody
  <2>3. j = <<"arr", j[2]>> /\ j[2] \in Seq(Jsons)
    BY <1>2, JsonIs DEF IsJsonValue
  <2>4. items = j[2]
    <3>1. j[2] = [i \in 1..Len(j[2]) |-> j[2][i]]
      BY <2>3
    <3>. QED
      BY <1>2, <3>1
  <2>. QED
    BY <2>2, <2>3, <2>4
<1>. QED
  BY <1>1, <1>2

\* The coercion of a reply (CoerceBody) changes nothing that already fits its type's schema.
THEOREM AcceptedIsNotCoerced ==
  \A T \in Types, j \in Jsons : Accepts(JsonSchema(T), j) => Coerce(j, JsonSchema(T)) = j
<1>. DEFINE S == {T \in Types : \A j \in Jsons : Stays(T, j)}
<1>1. ASSUME NEW T \in Types, \A U \in PartsOf(T) : U \in S PROVE T \in S
  <2>. SUFFICES ASSUME NEW j \in Jsons, Accepts(JsonSchema(T), j) PROVE Coerce(j, JsonSchema(T)) = j
    BY DEF Stays
  <2>. DEFINE s == JsonSchema(T)
  <2>1. s \in Schemas /\ s = JsonSchemaBody(T) /\ AcceptsBody(s, j) /\ IsType(T) /\ IsSchema(s) /\ IsJsonValue(j)
    BY TypeIs, SchemaIs, JsonIs, ConversionAssumption
  <2>2. \A U \in PartsOf(T), k \in Jsons : U \in Types /\ (Accepts(JsonSchema(U), k) => Coerce(k, JsonSchema(U)) = k)
    BY <1>1 DEF Stays
  <2>. HIDE DEF s
  <2>3. CASE T[1] \in {"bool", "int", "variant", "option", "result", "tuple", "resource"}
    <3>1. s[1] \in {"boolean", "number", "oneOf", "tuple", "any"}
      BY <2>1, <2>3 DEF JsonSchemaBody, IntSchema
    <3>2. SchemaType(s) # "string"
      BY <3>1, MappingAssumption DEF SchemaType
    <3>. QED
      BY <2>1, <3>1, <3>2, NotCoerced DEF s
  <2>4. CASE T[1] = "string"
    <3>1. s = <<"string">> /\ j[1] = "str"
      BY <2>1, <2>4 DEF JsonSchemaBody, AcceptsBody
    <3>. QED
      BY <2>1, <3>1, NotCoerced DEF s
  <2>5. CASE T[1] = "enum"
    <3>1. s = <<"enum", T[2]>>
      BY <2>1, <2>5 DEF JsonSchemaBody
    <3>2. \E c \in T[2] : j = Str(c)
      BY <2>1, <3>1 DEF AcceptsBody
    <3>3. j[1] = "str"
      BY <3>2 DEF Str
    <3>. QED
      BY <2>1, <3>1, <3>3, NotCoerced DEF s
  <2>6. CASE T[1] = "bytes"
    <3>1. s = <<"array", Byte>> /\ Byte \in Schemas
      BY <2>1, <2>6 DEF JsonSchemaBody, IsSchema
    <3>2. ASSUME j[1] = "arr", NEW i \in 1..Len(j[2]) PROVE Coerce(j[2][i], s[2]) = j[2][i]
      <4>1. j[2] \in Seq(Jsons)
        BY <2>1, <3>2 DEF IsJsonValue
      <4>2. j[2][i] \in Jsons
        BY <3>2, <4>1, ElementOfSeq
      <4>3. s[2] = Byte /\ Byte[1] = "number" /\ SchemaType(Byte) = "number"
        BY <3>1 DEF Byte, SchemaType
      <4>. QED
        BY <3>1, <4>2, <4>3, NotCoerced
    <3>. QED
      BY <2>1, <3>1, <3>2, ItemsStay DEF s
  <2>7. CASE T[1] = "list"
    <3>1. s = <<"array", JsonSchema(T[2])>> /\ T[2] \in PartsOf(T) /\ T[2] \in Types
      BY <2>1, <2>2, <2>7 DEF JsonSchemaBody, PartsOf
    <3>2. JsonSchema(T[2]) # Byte
      BY <2>1, <2>7, <3>1, ByteSchema DEF IsType
    <3>3. j[1] = "arr" /\ \A i \in 1..Len(j[2]) : Accepts(JsonSchema(T[2]), j[2][i])
      BY <2>1, <3>1, <3>2 DEF AcceptsBody
    <3>4. j[2] \in Seq(Jsons)
      BY <2>1, <3>3 DEF IsJsonValue
    <3>5. \A i \in 1..Len(j[2]) : Coerce(j[2][i], s[2]) = j[2][i]
      BY <2>2, <3>1, <3>3, <3>4, ElementOfSeq
    <3>. QED
      BY <2>1, <3>1, <3>5, ItemsStay DEF s
  <2>8. CASE T[1] = "flags"
    <3>1. s = <<"set", <<"enum", T[2]>>>>
      BY <2>1, <2>8 DEF JsonSchemaBody
    <3>2. <<"enum", T[2]>> \in Schemas
      BY <2>1, <3>1 DEF IsSchema
    <3>3. j[1] = "arr" /\ \A i \in 1..Len(j[2]) : Accepts(<<"enum", T[2]>>, j[2][i])
      BY <2>1, <3>1 DEF AcceptsBody
    <3>4. j[2] \in Seq(Jsons)
      BY <2>1, <3>3 DEF IsJsonValue
    <3>5. ASSUME NEW i \in 1..Len(j[2]) PROVE Coerce(j[2][i], s[2]) = j[2][i]
      <4>1. j[2][i] \in Jsons
        BY <3>4, ElementOfSeq
      <4>2. \E c \in T[2] : j[2][i] = Str(c)
        BY <3>2, <3>3, <4>1, SchemaIs DEF AcceptsBody
      <4>3. j[2][i][1] = "str"
        BY <4>2 DEF Str
      <4>. QED
        BY <3>1, <3>2, <4>1, <4>3, NotCoerced
    <3>. QED
      BY <2>1, <3>1, <3>5, ItemsStay DEF s
  <2>9. CASE T[1] = "map" /\ T[2][1] = "string"
    <3>1. s[1] = "map"
      BY <2>1, <2>9 DEF JsonSchemaBody
    <3>. QED
      BY <2>1, <3>1, NotCoerced DEF SchemaType, s
  <2>10. CASE T[1] = "map" /\ T[2][1] # "string"
    <3>. DEFINE entry == <<"tuple", <<JsonSchema(T[2]), JsonSchema(T[3])>>>>
    <3>1. s = <<"array", entry>>
      BY <2>1, <2>10 DEF JsonSchemaBody
    <3>2. entry \in Schemas /\ entry[1] = "tuple"
      BY <2>1, <3>1 DEF IsSchema
    <3>3. ASSUME j[1] = "arr", NEW i \in 1..Len(j[2]) PROVE Coerce(j[2][i], s[2]) = j[2][i]
      <4>1. j[2] \in Seq(Jsons)
        BY <2>1, <3>3 DEF IsJsonValue
      <4>2. j[2][i] \in Jsons
        BY <3>3, <4>1, ElementOfSeq
      <4>. HIDE DEF entry
      <4>. QED
        BY <3>1, <3>2, <4>2, NotCoerced DEF SchemaType
    <3>. QED
      BY <2>1, <3>1, <3>3, ItemsStay DEF s
  <2>11. CASE T[1] = "record"
    <3>. DEFINE props == [f \in DOMAIN T[2] |-> JsonSchema(T[2][f])]
                fields == [f \in DOMAIN j[2] |-> IF f \in DOMAIN s[2] THEN Coerce(j[2][f], s[2][f]) ELSE j[2][f]]
    <3>1. s[1] = "object" /\ s[2] = props
      BY <2>1, <2>11 DEF JsonSchemaBody, RecordSchema
    <3>2. DOMAIN props = DOMAIN T[2] /\ \A f \in DOMAIN T[2] : props[f] = JsonSchema(T[2][f]) /\ T[2][f] \in PartsOf(T)
      BY <2>11 DEF PartsOf, Range
    <3>. HIDE DEF props
    <3>3. j[1] = "obj" /\ \A f \in DOMAIN j[2] : f \in DOMAIN T[2] /\ Accepts(props[f], j[2][f])
      BY <2>1, <3>1, <3>2 DEF AcceptsBody, HasProperties
    <3>4. j = <<"obj", j[2]>> /\ j[2] \in [DOMAIN j[2] -> Jsons]
      BY <2>1, <3>3 DEF IsJsonValue
    <3>5. \A f \in DOMAIN j[2] : f \in DOMAIN s[2] /\ Coerce(j[2][f], s[2][f]) = j[2][f]
      BY <2>2, <3>1, <3>2, <3>3, <3>4
    <3>6. fields = j[2]
      BY <3>4, <3>5
    <3>7. Coerce(j, s) = Obj(fields)
      <4>1. SchemaType(s) # "string"
        BY <3>1 DEF SchemaType
      <4>. QED
        BY <2>1, <3>1, <3>3, <4>1, CoerceIs DEF CoerceBody
    <3>. HIDE DEF fields
    <3>. QED
      BY <3>4, <3>6, <3>7 DEF Obj, s
  <2>. QED
    BY <2>1, <2>3, <2>4, <2>5, <2>6, <2>7, <2>8, <2>9, <2>10, <2>11 DEF IsType
<1>2. Types \subseteq S
  BY <1>1, TypeInduction, Zenon
<1>. QED
  BY <1>2 DEF Stays

\* The schema of a result is that of its ok, and of what is no result and no option its own.
LEMMA UnwrapResult ==
  ASSUME NEW T \in Types, T[1] = "result"
  PROVE  UnwrapOneOf(JsonSchema(T)) = IF T[2] = Unit THEN Null ELSE JsonSchema(T[2])
<1>. DEFINE ok == ArmSchema("ok", T[2])
            err == ArmSchema("error", T[3])
            named(x) == {a \in {ok, err} : a[1] = "object" /\ DOMAIN a[2] = {x}}
<1>1. JsonSchema(T) = <<"oneOf", <<ok, err>>>>
  BY ConversionAssumption DEF JsonSchemaBody
<1>2. /\ ok[1] = "object" /\ DOMAIN ok[2] = {"ok"} /\ ok[2]["ok"] = IF T[2] = Unit THEN Null ELSE JsonSchema(T[2])
      /\ err[1] = "object" /\ DOMAIN err[2] = {"error"}
  BY DEF ArmSchema
<1>. HIDE DEF ok, err
<1>3. Null \notin {ok, err}
  BY <1>2 DEF Null
<1>4. named("ok") = {ok} /\ named("error") = {err}
  BY <1>2
<1>5. UnwrapOneOf(<<"oneOf", <<ok, err>>>>) =
        IF Null \in {ok, err} THEN CHOOSE a \in {ok, err} : a # Null
        ELSE IF named("ok") # {} /\ named("error") # {} THEN (CHOOSE a \in named("ok") : TRUE)[2]["ok"]
        ELSE <<"oneOf", <<ok, err>>>>
  BY DEF UnwrapOneOf
<1>6. (CHOOSE a \in named("ok") : TRUE) = ok
  BY <1>4
<1>. HIDE DEF named
<1>. QED
  BY <1>1, <1>2, <1>3, <1>4, <1>5, <1>6

LEMMA UnwrapOther ==
  ASSUME NEW T \in Types, T[1] \notin {"result", "option"}
  PROVE  UnwrapOneOf(JsonSchema(T)) = JsonSchema(T)
<1>. DEFINE s == JsonSchema(T)
<1>1. s = JsonSchemaBody(T) /\ IsType(T)
  BY TypeIs, ConversionAssumption
<1>2. CASE T[1] # "variant"
  <2>1. s[1] # "oneOf"
    BY <1>1, <1>2 DEF JsonSchemaBody, IsType, RecordSchema, IntSchema
  <2>. QED
    BY <2>1 DEF UnwrapOneOf
<1>3. CASE T[1] = "variant"
  <2>. DEFINE cases == [i \in 1..Len(T[2]) |-> CaseSchema(T[2][i])]
  <2>1. s = <<"oneOf", cases>>
    BY <1>1, <1>3 DEF JsonSchemaBody
  <2>2. \A i \in 1..Len(T[2]) : cases[i][1] = "object" /\ "type" \in DOMAIN cases[i][2]
    BY DEF CaseSchema
  <2>3. Len(T[2]) \in Nat
    BY <1>1, <1>3 DEF IsType
  <2>4. Len(cases) = Len(T[2])
    BY <2>3
  <2>. HIDE DEF cases, s
  <2>5. CASE Len(cases) # 2
    <3>1. s[1] = "oneOf" /\ Len(s[2]) # 2
      BY <2>1, <2>5
    <3>. QED
      BY <3>1 DEF UnwrapOneOf, s
  <2>6. CASE Len(cases) = 2
    <3>. DEFINE arms == {cases[1], cases[2]}
                named(x) == {a \in arms : a[1] = "object" /\ DOMAIN a[2] = {x}}
    <3>1. \A a \in arms : a[1] = "object" /\ "type" \in DOMAIN a[2]
      BY <2>2, <2>4, <2>6
    <3>2. Null \notin arms
      BY <3>1 DEF Null
    <3>3. named("ok") = {}
      BY <3>1
    <3>4. UnwrapOneOf(s) =
            IF Null \in arms THEN CHOOSE a \in arms : a # Null
            ELSE IF named("ok") # {} /\ named("error") # {} THEN (CHOOSE a \in named("ok") : TRUE)[2]["ok"]
            ELSE s
      BY <2>1, <2>6 DEF UnwrapOneOf
    <3>. HIDE DEF arms, named
    <3>. QED
      BY <3>2, <3>3, <3>4 DEF s
  <2>. QED
    BY <2>5, <2>6
<1>. QED
  BY <1>2, <1>3

LEMMA KindIs ==
  ASSUME NEW T \in Types, NEW v \in Vals, HasType(v, T)
  PROVE  v[1] # "unit" /\ (v[1] \in {"ok", "err"} <=> T[1] = "result")
<1>1. IsType(T) /\ HasTypeBody(v, T)
  BY TypeIs, ValueIs
<1>2. CASE T[1] \in {"bool", "string", "bytes", "int", "flags", "list", "tuple", "record", "option", "variant", "resource"}
  BY <1>1, <1>2 DEF HasTypeBody
<1>3. CASE T[1] = "enum"
  BY <1>1, <1>3 DEF HasTypeBody
<1>4. CASE T[1] = "map"
  BY <1>1, <1>4 DEF HasTypeBody
<1>5. CASE T[1] = "result"
  BY <1>1, <1>5 DEF HasTypeBody
<1>. QED
  BY <1>1, <1>2, <1>3, <1>4, <1>5 DEF IsType

\* What a call returns of a value fits the schema that is advertised, and is not coerced.
LEMMA ReturnedFits ==
  ASSUME NEW T \in Types, NEW v \in Vals, HasType(v, T), Presentable(T), ~IsOptional(T), ConvertResult(v) # Error
  PROVE  LET s == UnwrapOneOf(JsonSchema(T))
         IN Accepts(s, ConvertResult(v)) /\ Coerce(ConvertResult(v), s) = ConvertResult(v) /\ ConvertResult(v) \in Jsons
<1>1. IsType(T) /\ HasTypeBody(v, T) /\ PresentableBody(T) /\ Null \in Jsons
  BY TypeIs, ValueIs, InvocationAssumption, ConversionAssumption
<1>2. v # Unit
  BY KindIs DEF Unit
<1>3. v[1] \in {"ok", "err"} <=> T[1] = "result"
  BY KindIs
<1>4. v[1] # "err"
  BY <1>2 DEF ConvertResult
<1>5. CASE T[1] # "result"
  <2>1. ConvertResult(v) = ValToJson(v) /\ UnwrapOneOf(JsonSchema(T)) = JsonSchema(T)
    BY <1>2, <1>3, <1>5, UnwrapOther DEF ConvertResult, IsOptional
  <2>. QED
    BY <2>1, ValuesFitTheirSchema, AcceptedIsNotCoerced, ValueIs
<1>6. CASE T[1] = "result"
  <2>1. v[1] = "ok" /\ HasPayload(v[2], T[2])
    BY <1>1, <1>3, <1>4, <1>6 DEF HasTypeBody
  <2>2. CASE T[2] = Unit
    <3>1. ConvertResult(v) = Null /\ UnwrapOneOf(JsonSchema(T)) = Null
      BY <1>2, <1>6, <2>1, <2>2, UnwrapResult DEF ConvertResult, HasPayload
    <3>2. Null \in Schemas
      <4>1. ArmSchema("ok", T[2]) \in Schemas
        BY <1>1, <1>6, ResultSchema
      <4>. QED
        BY <1>1, <2>2, <4>1, ArmAccepts
    <3>3. Coerce(Null, Null) = Null
      BY <1>1, <3>2, NotCoerced, MappingAssumption DEF SchemaType, Null
    <3>. QED
      BY <1>1, <3>1, <3>2, <3>3, NullSchema
  <2>3. CASE T[2] # Unit
    <3>. DEFINE u == v[2][1]
    <3>1. v[2] # <<>> /\ u \in Vals /\ HasType(u, T[2])
      BY <2>1, <2>3 DEF HasPayload
    <3>2. T[2] \in Types /\ T[2] \in PartsOf(T)
      BY <1>1, <1>6, <2>3, ResultSchema
    <3>3. Presentable(T[2])
      BY <1>1, <3>2 DEF PresentableBody
    <3>4. ConvertResult(v) = ValToJson(u) /\ UnwrapOneOf(JsonSchema(T)) = JsonSchema(T[2])
      BY <1>2, <1>6, <2>1, <2>3, <3>1, UnwrapResult DEF ConvertResult
    <3>. QED
      BY <3>1, <3>2, <3>3, <3>4, ValuesFitTheirSchema, AcceptedIsNotCoerced, ValueIs
  <2>. QED
    BY <2>2, <2>3
<1>. QED
  BY <1>5, <1>6

\* Without decoding, the schema of a type is advertised as it is.
LEMMA DecodesNothing ==
  ASSUME NEW c, DOMAIN c.decoding = {}, NEW T \in Types
  PROVE  DecodedSchema(c, JsonSchema(T)) = JsonSchema(T)
<1>. DEFINE s == JsonSchema(T)
<1>1. s = JsonSchemaBody(T) /\ IsType(T)
  BY TypeIs, ConversionAssumption
<1>2. CASE s[1] # "object"
  BY <1>2 DEF DecodedSchema
<1>3. CASE s[1] = "object"
  <2>1. T[1] = "record"
    BY <1>1, <1>3 DEF JsonSchemaBody, IsType, IntSchema
  <2>. DEFINE props == [f \in DOMAIN T[2] |-> JsonSchema(T[2][f])]
              required == {f \in DOMAIN T[2] : ~IsOptional(T[2][f])}
  <2>2. s = <<"object", props, required>>
    BY <1>1, <2>1 DEF JsonSchemaBody, RecordSchema
  <2>3. [n \in DOMAIN props |-> props[n]] = props
    OBVIOUS
  <2>. HIDE DEF s, props, required
  <2>4. DOMAIN props \cup {} = DOMAIN props
    OBVIOUS
  <2>5. DecodedSchema(c, s) = <<"object", [n \in DOMAIN props |-> props[n]], required>>
    BY <2>2, <2>4 DEF DecodedSchema
  <2>. QED
    BY <2>2, <2>3, <2>5 DEF s
<1>. QED
  BY <1>2, <1>3

\* Fields that are decoded are fields of the result, and the others stay.
LEMMA DecodesFields ==
  ASSUME NEW c, DOMAIN c.decoding # {}, NEW j \in Jsons,
         \A n \in DOMAIN c.decoding :
           /\ c.decoding[n] = <<"literal", c.decoding[n][2]>> /\ Supported(Str(c.decoding[n][2]))
           /\ Decode(Field(j, n), Str(c.decoding[n][2])) # Error
  PROVE  /\ j[1] = "obj" /\ DOMAIN c.decoding \subseteq DOMAIN j[2]
         /\ ApplyResultDecoding(c, j) =
              <<"obj", [n \in DOMAIN j[2] |-> IF n \in DOMAIN c.decoding THEN Decode(Field(j, n), Str(c.decoding[n][2]))
                                              ELSE j[2][n]]>>
         /\ ApplyResultDecoding(c, j) # Error
<1>. DEFINE D == DOMAIN c.decoding
            types == [n \in D |-> ContentType(c.decoding[n], j)]
            ct(n) == Str(c.decoding[n][2])
<1>1. \A n \in D : types[n] = ct(n)
  BY DEF ContentType
<1>2. \A n \in D : Field(j, n)[1] = "bytes"
  BY DEF Decode
<1>3. \A n \in D : Field(j, n) # Error
  BY <1>2 DEF Error
<1>4. j[1] = "obj" /\ D \subseteq DOMAIN j[2]
  BY <1>3 DEF Field
<1>5. \A n \in DOMAIN j[2] : j[2][n] # Error
  <2>1. j[2] \in [DOMAIN j[2] -> Jsons]
    BY <1>4, JsonIs DEF IsJsonValue
  <2>. QED
    BY <2>1, JsonIs DEF IsJsonValue, Error
<1>. DEFINE parts == [n \in DOMAIN j[2] |-> IF n \in D THEN Decode(Field(j, n), ct(n)) ELSE j[2][n]]
<1>6. \A n \in DOMAIN parts : parts[n] # Error
  BY <1>5
<1>7. All("obj", parts) = <<"obj", parts>> /\ All("obj", parts) # Error
  <2>. HIDE DEF parts
  <2>1. "obj" # "error"
    OBVIOUS
  <2>. QED
    BY <1>6, <2>1, AllParts
<1>8. ApplyResultDecoding(c, j) = All("obj", parts)
  <2>1. DOMAIN types = D /\ ~(\E n \in DOMAIN types : ~Supported(types[n]))
    BY <1>1
  <2>2. D \cup DOMAIN j[2] = DOMAIN j[2]
    BY <1>4
  <2>3. [n \in D \cup DOMAIN j[2] |-> IF n \in D THEN Decode(Field(j, n), types[n]) ELSE j[2][n]] = parts
    BY <1>1, <2>2
  <2>4. ApplyResultDecoding(c, j) =
          IF D = {} THEN j
          ELSE IF (\E n \in D : ~Supported(types[n])) \/ j[1] # "obj" THEN Error
          ELSE All("obj", [n \in D \cup DOMAIN j[2] |-> IF n \in D THEN Decode(Field(j, n), types[n]) ELSE j[2][n]])
    BY <2>1 DEF ApplyResultDecoding
  <2>. HIDE DEF D, types, parts
  <2>. QED
    BY <1>4, <2>1, <2>3, <2>4 DEF D
<1>. QED
  BY <1>4, <1>7, <1>8

\* What the schemas of decoded fields accept.
LEMMA EncodedAccepts ==
  ASSUME NEW s \in Schemas, NEW j \in Jsons
  PROVE  /\ s = <<"any">> => Accepts(s, j)
         /\ s = <<"string">> /\ j[1] = "str" => Accepts(s, j)
<1>1. Accepts(s, j) = AcceptsBody(s, j)
  BY SchemaIs
<1>2. s = <<"any">> => AcceptsBody(s, j)
  BY DEF AcceptsBody
<1>3. s = <<"string">> /\ j[1] = "str" => AcceptsBody(s, j)
  BY DEF AcceptsBody
<1>. QED
  BY <1>1, <1>2, <1>3

\* What is decoded fits the schema in which the same fields are replaced, and is not coerced.
LEMMA DecodedFits ==
  ASSUME NEW c, DOMAIN c.decoding # {}, NEW j \in Jsons, NEW s \in Schemas, s[1] = "object",
         \A n \in DOMAIN c.decoding :
           /\ c.decoding[n] = <<"literal", c.decoding[n][2]>> /\ Supported(Str(c.decoding[n][2]))
           /\ Decode(Field(j, n), Str(c.decoding[n][2])) # Error,
         Accepts(s, j), Coerce(j, s) = j,
         DecodedSchema(c, s) \in Schemas, ApplyResultDecoding(c, j) \in Jsons
  PROVE  /\ Accepts(DecodedSchema(c, s), ApplyResultDecoding(c, j))
         /\ Coerce(ApplyResultDecoding(c, j), DecodedSchema(c, s)) = ApplyResultDecoding(c, j)
<1>. DEFINE D == DOMAIN c.decoding
            out == [n \in DOMAIN j[2] |-> IF n \in D THEN Decode(Field(j, n), Str(c.decoding[n][2])) ELSE j[2][n]]
            props == [n \in DOMAIN s[2] \cup D |-> IF n \in D THEN EncodedSchema(c.decoding[n]) ELSE s[2][n]]
            source == ApplyResultDecoding(c, j)
            t == DecodedSchema(c, s)
<1>1. j[1] = "obj" /\ D \subseteq DOMAIN j[2] /\ source = <<"obj", out>>
  BY DecodesFields
<1>2. t = <<"object", props, s[3]>>
  BY DEF DecodedSchema
<1>3. /\ DOMAIN j[2] \subseteq DOMAIN s[2] /\ s[3] \subseteq DOMAIN j[2]
      /\ \A f \in DOMAIN j[2] \cap DOMAIN s[2] : Accepts(s[2][f], j[2][f])
  BY <1>1, SchemaIs DEF AcceptsBody, HasProperties
<1>4. \A f \in DOMAIN j[2] : Coerce(j[2][f], s[2][f]) = j[2][f]
  <2>1. Coerce(j, s) = Obj([n \in DOMAIN j[2] |-> IF n \in DOMAIN s[2] THEN Coerce(j[2][n], s[2][n]) ELSE j[2][n]])
    BY <1>1, CoerceIs DEF CoerceBody, SchemaType
  <2>2. j[2] = [n \in DOMAIN j[2] |-> IF n \in DOMAIN s[2] THEN Coerce(j[2][n], s[2][n]) ELSE j[2][n]]
    BY <2>1 DEF Obj
  <2>. QED
    BY <1>3, <2>2
<1>5. \A n \in D : Accepts(props[n], out[n]) /\ Coerce(out[n], props[n]) = out[n]
  <2>. SUFFICES ASSUME NEW n \in D PROVE Accepts(props[n], out[n]) /\ Coerce(out[n], props[n]) = out[n]
    OBVIOUS
  <2>1. out[n] \in Jsons
    <3>1. source[1] = "obj" => source[2] \in [DOMAIN source[2] -> Jsons]
      BY JsonIs DEF IsJsonValue
    <3>2. source[1] = "obj" /\ source[2] = out
      BY <1>1
    <3>. HIDE DEF out, source
    <3>3. n \in DOMAIN out
      BY <1>1 DEF out
    <3>. QED
      BY <3>1, <3>2, <3>3
  <2>2. props[n] \in Schemas
    <3>1. t[1] = "object" => t[2] \in [DOMAIN t[2] -> Schemas]
      BY SchemaIs DEF IsSchema
    <3>2. t[1] = "object" /\ t[2] = props /\ n \in DOMAIN props
      BY <1>2
    <3>. HIDE DEF props, t
    <3>. QED
      BY <3>1, <3>2
  <2>3. props[n] = EncodedSchema(c.decoding[n]) /\ out[n] = Decode(Field(j, n), Str(c.decoding[n][2]))
    BY <1>1
  <2>. HIDE DEF props, out
  <2>4. CASE c.decoding[n] = <<"literal", Plain>>
    <3>1. props[n] = <<"string">> /\ Str(c.decoding[n][2]) = Str(Plain)
      BY <2>3, <2>4 DEF EncodedSchema
    <3>2. Str(Plain) # Str(Json) /\ Decode(Field(j, n), Str(Plain)) # Error
      BY <3>1 DEF Str, Plain, Json
    <3>3. out[n] = <<"str", Field(j, n)[2]>>
      BY <2>3, <3>1, <3>2 DEF Decode
    <3>4. out[n][1] = "str"
      BY <3>3
    <3>5. Accepts(props[n], out[n])
      BY <2>1, <2>2, <3>1, <3>4, EncodedAccepts
    <3>6. Coerce(out[n], props[n]) = out[n]
      BY <2>1, <2>2, <3>1, <3>4, NotCoerced
    <3>. QED
      BY <3>5, <3>6
  <2>5. CASE c.decoding[n] # <<"literal", Plain>>
    <3>1. props[n] = <<"any">>
      BY <2>3, <2>5 DEF EncodedSchema
    <3>2. Accepts(props[n], out[n])
      BY <2>1, <2>2, <3>1, EncodedAccepts
    <3>3. None # "string"
      BY MappingAssumption
    <3>4. SchemaType(props[n]) = None
      BY <3>1 DEF SchemaType
    <3>5. Coerce(out[n], props[n]) = out[n]
      BY <2>1, <2>2, <3>1, <3>3, <3>4, NotCoerced
    <3>. QED
      BY <3>2, <3>5
  <2>. QED
    BY <2>4, <2>5
<1>6. \A f \in DOMAIN j[2] : Accepts(props[f], out[f]) /\ Coerce(out[f], props[f]) = out[f]
  <2>. SUFFICES ASSUME NEW f \in DOMAIN j[2], f \notin D PROVE Accepts(props[f], out[f]) /\ Coerce(out[f], props[f]) = out[f]
    BY <1>5
  <2>1. props[f] = s[2][f] /\ out[f] = j[2][f]
    BY <1>3
  <2>. HIDE DEF props, out
  <2>. QED
    BY <1>3, <1>4, <2>1
<1>7. DOMAIN out = DOMAIN j[2] /\ DOMAIN props = DOMAIN s[2]
  BY <1>1, <1>3
<1>. HIDE DEF D, out, props, source, t
<1>8. Accepts(t, source)
  <2>1. t \in Schemas /\ source \in Jsons /\ t[1] = "object" /\ t[2] = props /\ t[3] = s[3] /\ source[1] = "obj" /\ source[2] = out
    BY <1>1, <1>2 DEF source, t
  <2>2. HasProperties(source, t[2], t[3])
    BY <1>3, <1>6, <1>7, <2>1 DEF HasProperties
  <2>. QED
    BY <1>3, <1>7, <2>1, <2>2, SchemaIs DEF AcceptsBody
<1>9. Coerce(source, t) = source
  <2>1. t \in Schemas /\ source \in Jsons /\ t[1] = "object" /\ t[2] = props /\ source[1] = "obj" /\ source[2] = out
    BY <1>1, <1>2 DEF source, t
  <2>2. Coerce(source, t) = Obj([n \in DOMAIN out |-> IF n \in DOMAIN props THEN Coerce(out[n], props[n]) ELSE out[n]])
    BY <2>1, CoerceIs DEF CoerceBody, SchemaType
  <2>3. [n \in DOMAIN out |-> IF n \in DOMAIN props THEN Coerce(out[n], props[n]) ELSE out[n]] = [n \in DOMAIN out |-> out[n]]
    BY <1>6, <1>7
  <2>4. [n \in DOMAIN out |-> out[n]] = out
    BY DEF out
  <2>. QED
    BY <1>1, <2>2, <2>3, <2>4 DEF Obj
<1>. QED
  BY <1>8, <1>9 DEF source, t

\* A result that no template maps is the body of the reply, decoded, and no header gives it
\* another type.
LEMMA PlainReply ==
  ASSUME NEW c, c.result = None, NEW j, ApplyResultDecoding(c, j) \in Jsons, NEW ct, NEW propagated
  PROVE  LET type == IF ct = None THEN Json ELSE ct
         IN FromResult(c, j, ct, propagated) =
              <<"reply", [body    |-> SerializeBody(ApplyResultDecoding(c, j), type),
                          type    |-> type,
                          headers |-> ReplyHeaders(NoFields, propagated)]>>
<1>. DEFINE source == ApplyResultDecoding(c, j)
<1>1. Obj(NoFields)[1] = "obj" /\ Obj(NoFields)[2] = NoFields
  BY DEF Obj
<1>2. source # Error /\ source # Unit
  BY JsonIs DEF IsJsonValue, Unit
<1>. HIDE DEF source
<1>. QED
  BY <1>1, <1>2 DEF FromResult, source

LEMMA ReturnedIs ==
  ASSUME NEW T \in Types, NEW v \in Vals, HasType(v, T), ConvertResult(v) # Error
  PROVE  ConvertResult(v) \in Jsons
<1>1. IsType(T) /\ HasTypeBody(v, T) /\ Null \in Jsons
  BY TypeIs, ValueIs, ConversionAssumption
<1>2. v # Unit
  BY KindIs DEF Unit
<1>3. v[1] = "ok" => T[1] = "result"
  BY KindIs
<1>4. CASE v[1] = "ok"
  <2>1. HasPayload(v[2], T[2])
    BY <1>1, <1>3, <1>4 DEF HasTypeBody
  <2>2. v[2] # <<>> => v[2][1] \in Vals
    BY <2>1 DEF HasPayload
  <2>. QED
    BY <1>1, <1>2, <1>4, <2>2, ValueIs DEF ConvertResult
<1>5. CASE v[1] # "ok"
  BY <1>2, <1>5, ValueIs DEF ConvertResult
<1>. QED
  BY <1>4, <1>5

\* Unless what it is decoded as fails, a result is decoded; without decodings it stays.
LEMMA ReturnedDecodes ==
  ASSUME NEW s \in Setups, s.config.result = None, ValidMapper(s.function, s.config), NEW j \in Jsons,
         \E v \in Results(s.function) : j = ConvertResult(v),
         \A n \in DOMAIN s.config.decoding :
           s.config.decoding[n][1] # "path" /\ Decode(Field(j, n), Str(s.config.decoding[n][2])) # Error
  PROVE  /\ ApplyResultDecoding(s.config, j) \in Jsons
         /\ \A n \in DOMAIN s.config.decoding :
              /\ s.config.decoding[n] = <<"literal", s.config.decoding[n][2]>>
              /\ Supported(Str(s.config.decoding[n][2]))
         /\ DOMAIN s.config.decoding = {} => ApplyResultDecoding(s.config, j) = j
<1>. DEFINE c == s.config
<1>1. \A n \in DOMAIN c.decoding : c.decoding[n] = <<"literal", c.decoding[n][2]>>
  BY InvocationAssumption DEF IsSpec
<1>2. \A n \in DOMAIN c.decoding : Supported(Str(c.decoding[n][2]))
  BY <1>1 DEF ValidMapper, ValidSpec
<1>3. DOMAIN c.decoding = {} => ApplyResultDecoding(c, j) = j
  BY DEF ApplyResultDecoding
<1>4. j # Error
  BY JsonIs
<1>5. ApplyResultDecoding(c, j) \in Jsons \cup {Error}
  BY <1>4, InvocationAssumption
<1>6. DOMAIN c.decoding # {} => ApplyResultDecoding(c, j) # Error
  BY <1>1, <1>2, DecodesFields
<1>. QED
  BY <1>1, <1>2, <1>3, <1>5, <1>6

\* The schema that is advertised accepts what is decoded of a result, and does not coerce it.
LEMMA AdvertisedFits ==
  ASSUME NEW s \in Setups, s.http, s.config.result = None, NEW T \in Types, s.function.result = T,
         NEW v \in Vals, HasType(v, T), Presentable(T), ~IsOptional(T), ConvertResult(v) # Error,
         DOMAIN s.config.decoding # {} => UnwrapOneOf(JsonSchema(T))[1] = "object",
         \A n \in DOMAIN s.config.decoding :
           /\ s.config.decoding[n] = <<"literal", s.config.decoding[n][2]>> /\ Supported(Str(s.config.decoding[n][2]))
           /\ Decode(Field(ConvertResult(v), n), Str(s.config.decoding[n][2])) # Error,
         ApplyResultDecoding(s.config, ConvertResult(v)) \in Jsons
  PROVE  LET output == OutputSchema(s.function, s.config)
             source == ApplyResultDecoding(s.config, ConvertResult(v))
         IN Accepts(output, source) /\ Coerce(source, output) = source
<1>. DEFINE c == s.config
            own == UnwrapOneOf(JsonSchema(T))
            j == ConvertResult(v)
<1>1. T # Unit
  BY TypeIs DEF IsType, Unit
<1>2. OutputSchema(s.function, c) = DecodedSchema(c, own) /\ OutputSchema(s.function, c) \in Schemas
  BY <1>1, InvocationAssumption DEF OutputSchema
<1>3. Accepts(own, j) /\ Coerce(j, own) = j /\ j \in Jsons
  BY ReturnedFits
<1>4. T[1] # "result" => own = JsonSchema(T)
  BY UnwrapOther DEF IsOptional
<1>5. T[1] = "result" => own = IF T[2] = Unit THEN Null ELSE JsonSchema(T[2])
  BY UnwrapResult
<1>6. T[1] = "result" /\ T[2] # Unit => T[2] \in Types
  BY <1>3, ResultSchema
<1>7. CASE DOMAIN c.decoding = {}
  <2>1. DecodedSchema(c, Null) = Null
    BY DEF DecodedSchema, Null
  <2>2. DecodedSchema(c, own) = own
    <3>1. CASE T[1] # "result"
      BY <1>4, <1>7, <3>1, DecodesNothing
    <3>2. CASE T[1] = "result"
      BY <1>5, <1>6, <1>7, <2>1, <3>2, DecodesNothing
    <3>. QED
      BY <3>1, <3>2
  <2>3. ApplyResultDecoding(c, j) = j
    BY <1>7 DEF ApplyResultDecoding
  <2>. QED
    BY <1>2, <1>3, <2>2, <2>3
<1>8. CASE DOMAIN c.decoding # {}
  <2>1. own[1] = "object"
    BY <1>8
  <2>2. own \in Schemas
    <3>1. Null[1] # "object"
      BY DEF Null
    <3>. QED
      BY <1>4, <1>5, <1>6, <2>1, <3>1, TypeIs
  <2>. HIDE DEF own
  <2>. QED
    BY <1>2, <1>3, <1>8, <2>1, <2>2, DecodedFits
<1>. QED
  BY <1>7, <1>8

\* A result that is no error is answered (ResultsAreAnswered; schema.rs:343), for every
\* function whose result is put into no template, decoded or not, and the schema derived of it.
THEOREM PlainResultsAreAnswered ==
  InvSpec => [](c0.result = None /\ setup.declared = None => ResultsAreAnswered)
<1>1. ASSUME InvInv, c0.result = None, setup.declared = None PROVE ResultsAreAnswered
  <2>. SUFFICES ASSUME phase = "unanswered",
                       setup.http /\ f0.result # Unit =>
                         ~IsOptional(f0.result) /\ Presentable(f0.result) /\ ~AdvertisedAsBytes,
                       \A n \in DOMAIN c0.decoding :
                         c0.decoding[n][1] # "path" /\ Decode(Field(result, n), Str(c0.decoding[n][2])) # Error
                PROVE  FALSE
    BY DEF ResultsAreAnswered
  <2>1. Served /\ Returned /\ setup \in Setups /\ ValidMapper(f0, c0)
    BY <1>1 DEF Served, Returned, InvInv, SchemasInv
  <2>2. /\ f0.result \in Types \cup {Unit}
        /\ \A v \in Results(f0) : IF f0.result = Unit THEN v = Unit ELSE v \in Vals /\ HasType(v, f0.result)
    BY <2>1, InvocationAssumption DEF IsFunction, f0
  <2>3. PICK v \in Results(f0) : result = ConvertResult(v) /\ result # Error
    BY <1>1, <2>1 DEF InvInv
  <2>4. result \in Jsons
    <3>1. CASE f0.result = Unit
      <4>1. ConvertResult(Unit) = Null
        BY DEF ConvertResult, Unit
      <4>. QED
        BY <2>2, <2>3, <3>1, <4>1, ConversionAssumption
    <3>2. CASE f0.result # Unit
      BY <2>2, <2>3, <3>2, ReturnedIs
    <3>. QED
      BY <3>1, <3>2
  <2>. DEFINE source == ApplyResultDecoding(c0, result)
  <2>5. /\ source \in Jsons
        /\ \A n \in DOMAIN c0.decoding :
             c0.decoding[n] = <<"literal", c0.decoding[n][2]>> /\ Supported(Str(c0.decoding[n][2]))
    BY <1>1, <2>1, <2>3, <2>4, ReturnedDecodes DEF f0, c0
  <2>6. \A x : <<"reply", x>> # Error
    BY DEF Error
  <2>7. setup.http /\ Response(Reply) = Error
    <3>1. Reply # Error
      BY <1>1, <2>5, <2>6, PlainReply DEF Reply
    <3>. QED
      BY <1>1, <3>1 DEF InvInv, AnswerFails
  <2>. DEFINE propagated == Traced(message.headers)
              headers == ReplyHeaders(NoFields, propagated)
              r == <<"reply", [body |-> <<"json", source>>, type |-> Json, headers |-> headers]>>
  <2>8. Reply = r
    <3>1. SerializeBody(source, Json) = <<"json", source>>
      BY DEF SerializeBody, Json, Plain
    <3>2. Reply = FromResult(c0, result, None, propagated)
      BY <2>7 DEF Reply
    <3>. QED
      BY <1>1, <2>5, <3>1, <3>2, PlainReply
  <2>9. IsJson(r)
    <3>1. DOMAIN headers = {"traceparent"}
      BY DEF ReplyHeaders, NoFields, Traced
    <3>. HIDE DEF headers
    <3>. QED
      BY <3>1 DEF IsJson
  <2>. HIDE DEF headers
  <2>10. schemas.output # None /\ f0.result # Unit /\ schemas.output = OutputSchema(f0, c0)
    <3>1. schemas.output # None
      BY <2>6, <2>7, <2>8 DEF Response
    <3>2. schemas.output = OutputSchema(f0, c0)
      BY <1>1, <2>1, <2>7 DEF InvInv, SchemasInv, EffectiveOutput
    <3>3. f0.result # Unit
      BY <1>1, <3>1, <3>2 DEF OutputSchema
    <3>. QED
      BY <3>1, <3>2, <3>3
  <2>11. Accepts(schemas.output, source) /\ Coerce(source, schemas.output) = source
    <3>1. DOMAIN c0.decoding # {} => UnwrapOneOf(JsonSchema(f0.result))[1] = "object"
      BY <1>1, <2>7, <2>10 DEF AdvertisedAsBytes
    <3>2. f0.result \in Types /\ v \in Vals /\ HasType(v, f0.result)
      BY <2>2, <2>10
    <3>. QED
      BY <1>1, <2>1, <2>3, <2>5, <2>7, <2>10, <3>1, <3>2, AdvertisedFits DEF f0, c0
  <2>12. Response(r) = [r EXCEPT ![2].body = <<"json", source>>]
    <3>1. r[2].body = <<"json", source>> /\ r[2].body # None
      BY <2>5, InvocationAssumption
    <3>2. Parsed(<<"json", source>>) = source
      BY DEF Parsed
    <3>3. Coerce(IF r[2].body = None THEN Null ELSE Parsed(r[2].body), schemas.output) = source
      BY <2>11, <3>1, <3>2
    <3>. HIDE DEF r, source
    <3>. QED
      BY <2>9, <2>10, <2>11, <3>3 DEF Response
  <2>. QED
    BY <2>7, <2>8, <2>12 DEF Error
<1>. QED
  BY <1>1, InvAlways, PTL

=============================================================================
