------------------------ MODULE Configuration_proofs ------------------------
(***************************************************************************)
(* What an accepted configuration promises, for every list of paths,       *)
(* loaders and handlers: nothing that was loaded is lost on the way to the *)
(* handlers, and what the graph is built from fits its assumptions; and    *)
(* that a configuration is refused exactly when the input is at fault.     *)
(***************************************************************************)
EXTENDS Configuration, FiniteSetTheorems, SequenceTheorems, TLAPS

\* A sequence holds what it holds and what is added to it.
LEMMA ElementsOfConcat ==
  ASSUME NEW S, NEW s \in Seq(S), NEW t \in Seq(S)
  PROVE  s \o t \in Seq(S) /\ Elements(s) \subseteq Elements(s \o t) /\ Elements(t) \subseteq Elements(s \o t)
<1>1. s \o t \in Seq(S) /\ Len(s \o t) = Len(s) + Len(t) /\ Len(s) \in Nat /\ Len(t) \in Nat
  OBVIOUS
<1>2. \A i \in 1..Len(s) : i \in 1..Len(s \o t) /\ (s \o t)[i] = s[i]
  BY <1>1
<1>3. \A i \in 1..Len(t) : Len(s) + i \in 1..Len(s \o t) /\ (s \o t)[Len(s) + i] = t[i]
  BY <1>1
<1> QED
  BY <1>1, <1>2, <1>3 DEF Elements

\* So does one with an element appended.
LEMMA ElementsOfAppend ==
  ASSUME NEW S, NEW s \in Seq(S), NEW x \in S
  PROVE  Append(s, x) \in Seq(S) /\ Elements(s) \subseteq Elements(Append(s, x)) /\ x \in Elements(Append(s, x))
<1>1. Append(s, x) \in Seq(S) /\ Len(Append(s, x)) = Len(s) + 1 /\ Len(s) \in Nat
  OBVIOUS
<1>2. \A i \in 1..Len(s) : i \in 1..Len(Append(s, x)) /\ Append(s, x)[i] = s[i]
  BY <1>1
<1>3. Len(s) + 1 \in 1..Len(Append(s, x)) /\ Append(s, x)[Len(s) + 1] = x
  BY <1>1
<1> QED
  BY <1>1, <1>2, <1>3 DEF Elements

\* Of a sequence that is not empty, the head and the tail hold all.
LEMMA ElementsOfTail ==
  ASSUME NEW S, NEW s \in Seq(S), s # <<>>
  PROVE  Head(s) \in S /\ Tail(s) \in Seq(S) /\ Elements(s) \subseteq {Head(s)} \cup Elements(Tail(s))
<1>1. Len(s) \in Nat \ {0} /\ Head(s) = s[1] /\ Tail(s) \in Seq(S) /\ Len(Tail(s)) = Len(s) - 1 /\ s[1] \in S
  OBVIOUS
<1>2. \A i \in 2..Len(s) : i - 1 \in 1..Len(Tail(s)) /\ Tail(s)[i - 1] = s[i]
  BY <1>1
<1> QED
  BY <1>1, <1>2 DEF Elements

-----------------------------------------------------------------------------
(***************************************************************************)
(* The inductive invariant: loading, dispatch, and what the core handlers  *)
(* have made.                                                              *)
(***************************************************************************)
\* The loader l is past the path i.
Past(l, i) == l < loading[1] \/ (l = loading[1] /\ i < loading[2])

LoadInv ==
  /\ input \in Inputs
  /\ phase \in {"claim", "load", "claims", "dispatch", "placeholders", "validate", "ready", "failed"}
  /\ loading \in (1..(Len(input.loaders) + 1)) \X (1..(Len(input.paths) + 1))
  /\ phase = "claim" => loading = <<1, 1>>
  /\ phase = "load" => \A i \in 1..Len(input.paths) : ClaimedBy(input.paths[i]) # {}
  /\ phase \in {"claim", "load"} =>
       \A i \in 1..Len(input.paths) : \A l \in ClaimedBy(input.paths[i]) :
         Past(l, i) => Elements(Load(input.paths[i])) \subseteq Elements(definitions)
  /\ definitions \in Seq(Source)
  /\ phase \in {"claim", "load", "claims"} => given = {} /\ components = <<>> /\ capabilities = <<>>
  /\ phase = "claims" => Source \subseteq Elements(definitions)
  /\ phase \in {"placeholders", "validate", "ready"} => definitions = <<>>

\* A definition was accepted, and its properties were handed to their readers.
Dealt(def) ==
  Accepted(def) /\ \A p \in PropertiesOf(def) : <<ReaderOf(def, p), def, p>> \in given

DispatchInv ==
  /\ phase \in {"dispatch", "placeholders", "validate", "ready"} =>
       \A def \in Source : def \in Elements(definitions) \/ Dealt(def)
  /\ \A g \in given : \E def \in Source : \E p \in PropertiesOf(def) : g = <<ReaderOf(def, p), def, p>>

\* Every input is made of lists.
LEMMA InputFacts ==
  ASSUME input \in Inputs
  PROVE  /\ Len(input.loaders) \in Nat /\ Len(input.paths) \in Nat
         /\ \A i \in 1..Len(input.paths) :
              Load(input.paths[i]) \in Seq(Source) /\ Elements(Load(input.paths[i])) \subseteq Source
<1>1. Len(input.loaders) \in Nat /\ Len(input.paths) \in Nat
  BY ConfigAssumption DEF IsList
<1>2. ASSUME NEW i \in 1..Len(input.paths)
      PROVE  Load(input.paths[i]) \in Seq(Source) /\ Elements(Load(input.paths[i])) \subseteq Source
  <2>1. input.paths[i] \in Elements(input.paths)
    BY DEF Elements
  <2>2. IsList(input.paths[i].tables)
    BY <2>1, ConfigAssumption
  <2>3. Load(input.paths[i]) \in Seq(Elements(Load(input.paths[i])))
    <3>1. CASE input.paths[i].kind = "toml"
      BY <2>2, <3>1 DEF Load, IsList
    <3>2. CASE input.paths[i].kind # "toml"
      <4> DEFINE w == <<WasmDefinition(input.paths[i])>>
      <4>1. Len(w) = 1 /\ w[1] = WasmDefinition(input.paths[i])
        OBVIOUS
      <4>2. WasmDefinition(input.paths[i]) \in Elements(w)
        BY <4>1 DEF Elements
      <4>3. w \in Seq(Elements(w))
        BY <4>2
      <4> QED
        BY <3>2, <4>3 DEF Load
    <3> QED
      BY <3>1, <3>2
  <2>4. Elements(Load(input.paths[i])) \subseteq Source
    BY <2>1 DEF Source
  <2> HIDE DEF Source
  <2> QED
    BY <2>3, <2>4
<1> QED
  BY <1>1, <1>2

\* Before process() has begun nothing is loaded.
LEMMA ConfigInvInit == ConfigInit => LoadInv /\ DispatchInv
<1> SUFFICES ASSUME ConfigInit PROVE LoadInv /\ DispatchInv
  OBVIOUS
<1>1. input \in Inputs /\ Len(input.loaders) \in Nat /\ Len(input.paths) \in Nat
  BY InputFacts DEF ConfigInit
<1>2. loading \in (1..(Len(input.loaders) + 1)) \X (1..(Len(input.paths) + 1))
  BY <1>1 DEF ConfigInit
<1>3. \A i \in 1..Len(input.paths) : \A l \in ClaimedBy(input.paths[i]) : ~Past(l, i)
  BY <1>1 DEF ConfigInit, Past, ClaimedBy
<1>4. definitions \in Seq(Source)
  BY DEF ConfigInit
<1> QED
  BY <1>1, <1>2, <1>3, <1>4 DEF ConfigInit, LoadInv, DispatchInv

-----------------------------------------------------------------------------
(***************************************************************************)
(* Every step keeps the invariant.                                         *)
(***************************************************************************)
\* Whose a definition and its properties are is decided by the input alone.
LEMMA SameInput ==
  ASSUME UNCHANGED input
  PROVE  /\ Handlers' = Handlers /\ Source' = Source
         /\ \A category : Claims(category)' = Claims(category)
         /\ \A category, p : Claimers(category, p)' = Claimers(category, p)
         /\ \A def : OwnerOf(def)' = OwnerOf(def) /\ Matches(def)' = Matches(def)
         /\ \A def, p : ReaderOf(def, p)' = ReaderOf(def, p)
         /\ \A def : Core(def)' = Core(def) /\ (Accepted(def)' <=> Accepted(def))
<1>1. Handlers' = Handlers
  BY DEF Handlers
<1>2. Indices' = Indices
  BY <1>1 DEF Indices
<1>3. \A category : Claims(category)' = Claims(category)
  BY <1>1, <1>2 DEF Claims
<1>4. \A category, p : Claimers(category, p)' = Claimers(category, p)
  BY <1>1, <1>2 DEF Claimers
<1>5. \A def : Matches(def)' = Matches(def)
  BY <1>3 DEF Matches
<1>6. \A def : OwnerOf(def)' = OwnerOf(def)
  BY <1>5 DEF OwnerOf
<1>7. ASSUME NEW def, NEW p PROVE ReaderOf(def, p)' = ReaderOf(def, p)
  <2>1. Claimers(def.category, p)' = Claimers(def.category, p) /\ OwnerOf(def)' = OwnerOf(def)
    BY <1>4, <1>6
  <2> QED
    BY <2>1 DEF ReaderOf
<1>8. \A def : Core(def)' = Core(def)
  BY <1>6, <1>7 DEF Core
<1>9. \A def : Accepted(def)' <=> Accepted(def)
  BY <1>1, <1>4, <1>5, <1>6, <1>8 DEF Accepted
<1>10. Source' = Source
  BY DEF Source
<1> QED
  BY <1>1, <1>3, <1>4, <1>5, <1>6, <1>7, <1>8, <1>9, <1>10

\* No step changes the input.
LEMMA InputStays ==
  ASSUME [ConfigNext]_configVars
  PROVE  UNCHANGED input
BY DEF ConfigNext, configVars, ClaimPaths, LoadPath, NextLoader, LoadDone, CheckClaims, DispatchDefinition,
       DispatchDone, ResolvePlaceholders, Validate, Fail

\* Loading a path brings its definitions in and leaves the others.
LEMMA LoadPathStep ==
  ASSUME LoadInv, LoadPath
  PROVE  LoadInv'
<1>0. /\ input' = input /\ Source' = Source /\ phase = "load"
      /\ Len(input.loaders) \in Nat /\ Len(input.paths) \in Nat
  BY SameInput, InputFacts DEF LoadPath, Fail, LoadInv
<1>1. CASE Fail
  BY <1>0, <1>1 DEF Fail, LoadInv
<1>2. CASE ~Fail
  <2> DEFINE l == loading[1]
             i == loading[2]
             Owned == input.paths[i].kind \in input.loaders[l]
  <2>1. /\ l \in 1..Len(input.loaders) /\ i \in 1..Len(input.paths)
        /\ definitions' = IF Owned THEN definitions \o Load(input.paths[i]) ELSE definitions
        /\ loading' = [loading EXCEPT ![2] = @ + 1]
        /\ UNCHANGED <<input, phase, given, components, capabilities>>
    BY <1>0, <1>2 DEF LoadPath, LoadInv
  <2>2. loading'[1] = l /\ loading'[2] = i + 1
        /\ loading' \in (1..(Len(input.loaders) + 1)) \X (1..(Len(input.paths) + 1))
    <3>1. loading = <<l, i>>
      BY DEF LoadInv
    <3>2. loading' = <<l, i + 1>>
      BY <2>1, <3>1
    <3>3. l \in 1..(Len(input.loaders) + 1) /\ i + 1 \in 1..(Len(input.paths) + 1)
      BY <1>0, <2>1
    <3> QED
      BY <3>2, <3>3
  <2>3. /\ definitions' \in Seq(Source) /\ Elements(definitions) \subseteq Elements(definitions')
        /\ Owned => Elements(Load(input.paths[i])) \subseteq Elements(definitions')
    BY <2>1, ElementsOfConcat, InputFacts DEF LoadInv
  <2>4. ASSUME NEW j \in 1..Len(input.paths), NEW k \in ClaimedBy(input.paths[j]), Past(k, j)'
        PROVE  Elements(Load(input.paths[j])) \subseteq Elements(definitions')
    <3>1. CASE Past(k, j)
      BY <1>0, <2>3, <3>1 DEF LoadInv
    <3>2. CASE k = l /\ j = i
      BY <2>3, <3>2 DEF ClaimedBy
    <3>3. Past(k, j) \/ (k = l /\ j = i)
      BY <1>0, <2>1, <2>2, <2>4 DEF Past, LoadInv, ClaimedBy
    <3> QED
      BY <3>1, <3>2, <3>3
  <2>5. /\ \A j \in 1..Len(input.paths) : ClaimedBy(input.paths[j])' = ClaimedBy(input.paths[j])
        /\ \A j \in 1..Len(input.paths) : ClaimedBy(input.paths[j]) # {}
    BY <1>0 DEF ClaimedBy, LoadInv
  <2> QED
    BY <1>0, <2>1, <2>2, <2>3, <2>4, <2>5 DEF LoadInv
<1> QED
  BY <1>1, <1>2

\* When the loaders are done every path was loaded.
LEMMA LoadDoneStep ==
  ASSUME LoadInv, LoadDone
  PROVE  LoadInv'
<1>1. /\ input' = input /\ Source' = Source /\ phase = "load" /\ phase' = "claims"
      /\ UNCHANGED <<loading, definitions, given, components, capabilities>>
      /\ Len(input.loaders) \in Nat /\ Len(input.paths) \in Nat
  BY SameInput, InputFacts DEF LoadDone, LoadInv
<1>2. ASSUME NEW i \in 1..Len(input.paths)
      PROVE  Elements(Load(input.paths[i])) \subseteq Elements(definitions)
  <2>1. PICK l \in ClaimedBy(input.paths[i]) : TRUE
    BY <1>1 DEF LoadInv
  <2>2. Past(l, i)
    BY <1>1, <2>1 DEF Past, ClaimedBy, LoadDone, LoadInv
  <2> QED
    BY <1>1, <2>1, <2>2 DEF LoadInv
<1>3. Source \subseteq Elements(definitions)
  <2> SUFFICES ASSUME NEW def \in Source PROVE def \in Elements(definitions)
    OBVIOUS
  <2>1. PICK p \in Elements(input.paths) : def \in Elements(Load(p))
    BY DEF Source
  <2>2. PICK i \in 1..Len(input.paths) : p = input.paths[i]
    BY DEF Elements
  <2> QED
    BY <1>2, <2>1, <2>2
<1> QED
  BY <1>1, <1>3 DEF LoadInv

\* Loading goes forward, and after it nothing is loaded any more.
LEMMA LoadInvStep ==
  ASSUME LoadInv, [ConfigNext]_configVars
  PROVE  LoadInv'
<1>0. /\ input' = input /\ Source' = Source
      /\ Len(input.loaders) \in Nat /\ Len(input.paths) \in Nat
  BY InputStays, SameInput, InputFacts DEF LoadInv
<1>1. CASE ClaimPaths
  <2>1. CASE Fail
    BY <1>0, <2>1 DEF Fail, LoadInv
  <2>2. CASE ~Fail
    <3>1. /\ phase = "claim" /\ phase' = "load"
          /\ UNCHANGED <<input, loading, definitions, given, components, capabilities>>
          /\ \A i \in 1..Len(input.paths) : Cardinality(ClaimedBy(input.paths[i])) = 1
      BY <1>1, <2>2 DEF ClaimPaths
    <3>2. ASSUME NEW i \in 1..Len(input.paths) PROVE ClaimedBy(input.paths[i]) # {}
      <4>1. Cardinality(ClaimedBy(input.paths[i])) # 0
        BY <3>1
      <4> QED
        BY <4>1, FS_EmptySet
    <3>3. \A i \in 1..Len(input.paths) : ClaimedBy(input.paths[i])' = ClaimedBy(input.paths[i])
      BY <3>1 DEF ClaimedBy
    <3>4. \A l, i : Past(l, i)' <=> Past(l, i)
      BY <3>1 DEF Past
    <3> QED
      BY <1>0, <3>1, <3>2, <3>3, <3>4 DEF LoadInv
  <2> QED
    BY <2>1, <2>2
<1>2. CASE LoadPath
  BY <1>2, LoadPathStep
<1>3. CASE NextLoader
  <2>1. /\ phase = "load" /\ loading' = <<loading[1] + 1, 1>>
        /\ loading[1] <= Len(input.loaders) /\ loading[2] > Len(input.paths)
        /\ UNCHANGED <<input, phase, definitions, given, components, capabilities>>
    BY <1>3 DEF NextLoader
  <2>2. loading' \in (1..(Len(input.loaders) + 1)) \X (1..(Len(input.paths) + 1))
    BY <1>0, <2>1 DEF LoadInv
  <2>3. \A i \in 1..Len(input.paths) : \A l \in ClaimedBy(input.paths[i]) : Past(l, i)' => Past(l, i)
    BY <1>0, <2>1 DEF Past, ClaimedBy, LoadInv
  <2>4. \A i \in 1..Len(input.paths) : ClaimedBy(input.paths[i])' = ClaimedBy(input.paths[i])
    BY <2>1 DEF ClaimedBy
  <2> QED
    BY <1>0, <2>1, <2>2, <2>3, <2>4 DEF LoadInv
<1>4. CASE LoadDone
  BY <1>4, LoadDoneStep
<1>5. CASE CheckClaims
  BY <1>0, <1>5 DEF CheckClaims, Fail, LoadInv
<1>6. CASE DispatchDefinition
  <2>1. Tail(definitions) \in Seq(Source)
    BY <1>6, ElementsOfTail DEF DispatchDefinition, LoadInv
  <2> QED
    BY <1>0, <1>6, <2>1 DEF DispatchDefinition, Fail, LoadInv
<1>7. CASE DispatchDone \/ ResolvePlaceholders \/ Validate
  BY <1>0, <1>7 DEF DispatchDone, ResolvePlaceholders, Validate, Fail, LoadInv
<1>8. CASE UNCHANGED configVars
  <2>1. \A i \in 1..Len(input.paths) : ClaimedBy(input.paths[i])' = ClaimedBy(input.paths[i])
    BY <1>0 DEF ClaimedBy
  <2>2. \A l, i : Past(l, i)' <=> Past(l, i)
    BY <1>8 DEF Past, configVars
  <2> QED
    BY <1>0, <1>8, <2>1, <2>2 DEF configVars, LoadInv
<1> QED
  BY <1>1, <1>2, <1>3, <1>4, <1>5, <1>6, <1>7, <1>8 DEF ConfigNext

\* Dispatch hands out the properties of one definition after the other.
LEMMA DispatchInvStep ==
  ASSUME LoadInv, DispatchInv, [ConfigNext]_configVars
  PROVE  DispatchInv'
<1>0. /\ input' = input /\ Source' = Source
      /\ \A def : Accepted(def)' <=> Accepted(def)
      /\ \A def, p : ReaderOf(def, p)' = ReaderOf(def, p)
  BY InputStays, SameInput
<1>1. CASE ClaimPaths \/ LoadPath \/ NextLoader \/ LoadDone
  BY <1>0, <1>1 DEF ClaimPaths, LoadPath, NextLoader, LoadDone, Fail, LoadInv, DispatchInv
<1>2. CASE CheckClaims
  BY <1>0, <1>2 DEF CheckClaims, Fail, LoadInv, DispatchInv
<1>3. CASE DispatchDefinition
  <2>1. CASE Fail
    BY <1>0, <2>1 DEF Fail, DispatchInv
  <2>2. CASE ~Fail
    <3> DEFINE head == Head(definitions)
    <3>1. /\ Accepted(head) /\ phase = "dispatch" /\ phase' = "dispatch"
          /\ definitions' = Tail(definitions)
          /\ given' = given \cup {<<ReaderOf(head, p), head, p>> : p \in PropertiesOf(head)}
      BY <1>3, <2>2 DEF DispatchDefinition
    <3>2. head \in Source /\ Elements(definitions) \subseteq {head} \cup Elements(definitions')
      BY <1>3, <3>1, ElementsOfTail DEF DispatchDefinition, LoadInv
    <3>3. ASSUME NEW def \in Source PROVE def \in Elements(definitions') \/ Dealt(def)'
      <4>1. def \in Elements(definitions) \/ Dealt(def)
        BY <3>1 DEF DispatchInv
      <4>2. Dealt(def) => Dealt(def)'
        BY <1>0, <3>1 DEF Dealt
      <4>3. def = head => Dealt(def)'
        BY <1>0, <3>1 DEF Dealt
      <4> QED
        BY <3>2, <4>1, <4>2, <4>3
    <3>4. ASSUME NEW g \in given' PROVE \E def \in Source : \E p \in PropertiesOf(def) : g = <<ReaderOf(def, p), def, p>>
      BY <3>1, <3>2 DEF DispatchInv
    <3> QED
      BY <1>0, <3>1, <3>3, <3>4 DEF DispatchInv, Elements
  <2> QED
    BY <2>1, <2>2
<1>4. CASE DispatchDone \/ ResolvePlaceholders \/ Validate \/ UNCHANGED configVars
  BY <1>0, <1>4 DEF DispatchDone, ResolvePlaceholders, Validate, Fail, configVars, DispatchInv, Dealt
<1> QED
  BY <1>1, <1>2, <1>3, <1>4 DEF ConfigNext

\* process() keeps the invariant.
THEOREM ConfigInvariant == ConfigSpec => [](LoadInv /\ DispatchInv)
BY ConfigInvInit, LoadInvStep, DispatchInvStep, PTL DEF ConfigSpec

\* In an accepted configuration every property of every definition that the paths
\* hold was handed to the one handler that is to read it (processor.rs:103).
THEOREM HandedToItsReaderHolds == ConfigSpec => []HandedToItsReader
<1>1. LoadInv /\ DispatchInv => HandedToItsReader
  <2> SUFFICES ASSUME LoadInv, DispatchInv, phase = "ready",
                      NEW def \in Source, NEW p \in PropertiesOf(def)
               PROVE  \E h \in Indices :
                        /\ {g \in given : g[2] = def /\ g[3] = p} = {<<h, def, p>>}
                        /\ \/ h \in Claimers(def.category, p)
                           \/ /\ Claimers(def.category, p) = {}
                              /\ \E c \in Matches(def) : c[1] = h
                              /\ def.category \in Handlers[h].lax
    BY DEF HandedToItsReader
  <2> DEFINE h == ReaderOf(def, p)
  <2>1. Dealt(def)
    BY DEF LoadInv, DispatchInv, Elements
  <2>2. {g \in given : g[2] = def /\ g[3] = p} = {<<h, def, p>>}
    BY <2>1 DEF DispatchInv, Dealt
  <2>3. PICK c \in Matches(def) : OwnerOf(def) = c[1]
    <3>1. Matches(def) # {}
      BY <2>1, FS_EmptySet DEF Dealt, Accepted
    <3> QED
      BY <3>1 DEF OwnerOf
  <2>4. OwnerOf(def) \in Indices
    BY <2>3 DEF Matches, Claims
  <2>5. CASE Claimers(def.category, p) = {}
    <3>1. h = OwnerOf(def)
      BY <2>5 DEF ReaderOf
    <3>2. def.category \in Handlers[OwnerOf(def)].lax
      BY <2>1, <2>5 DEF Dealt, Accepted
    <3> QED
      BY <2>2, <2>3, <2>4, <2>5, <3>1, <3>2
  <2>6. CASE Claimers(def.category, p) # {}
    <3>1. h \in Claimers(def.category, p)
      BY <2>6 DEF ReaderOf
    <3>2. h \in Indices
      BY <3>1 DEF Claimers
    <3> QED
      BY <2>2, <3>1, <3>2
  <2> QED
    BY <2>5, <2>6
<1> QED
  BY <1>1, ConfigInvariant, PTL

-----------------------------------------------------------------------------
(***************************************************************************)
(* What the core handlers make.  They own their categories alone, since    *)
(* their claims have no selector.                                          *)
(***************************************************************************)
SourceOf(category) == {def \in Source : def.category = category}

DraftComponents   == {MakeComponent(def) : def \in SourceOf("component")}
DraftCapabilities == {MakeCapability(def) : def \in SourceOf("capability")}
Resolved(drafts)  == {ResolveIn(draft) : draft \in drafts}

\* The definition def has become one of those made.
Became(def, made) == \E i \in 1..Len(made) : made[i].name = def.name

MadeInv ==
  /\ phase \in {"dispatch", "placeholders", "validate", "ready"} => ClaimsAreExclusive
  /\ phase \in {"claim", "load", "claims", "dispatch", "placeholders"} =>
       components \in Seq(DraftComponents) /\ capabilities \in Seq(DraftCapabilities)
  /\ phase \in {"validate", "ready"} =>
       components \in Seq(Resolved(DraftComponents)) /\ capabilities \in Seq(Resolved(DraftCapabilities))
  /\ phase \in {"dispatch", "placeholders", "validate", "ready"} =>
       /\ \A def \in SourceOf("component") : def \in Elements(definitions) \/ Became(def, components)
       /\ \A def \in SourceOf("capability") : def \in Elements(definitions) \/ Became(def, capabilities)
  /\ phase = "ready" => ValidNames /\ ValidImports

\* The first two handlers are the core handlers.
LEMMA CoreHandlers ==
  ASSUME input \in Inputs
  PROVE  1 \in Indices /\ 2 \in Indices /\ Handlers[1] = ComponentHandler /\ Handlers[2] = CapabilityHandler
<1>1. IsList(input.handlers)
  BY ConfigAssumption
<1>2. input.handlers \in Seq(Elements(input.handlers))
  BY <1>1 DEF IsList
<1> DEFINE core == <<ComponentHandler, CapabilityHandler>>
           S == Elements(input.handlers) \cup {ComponentHandler, CapabilityHandler}
<1>3. core \in Seq(S) /\ Len(core) = 2 /\ core[1] = ComponentHandler /\ core[2] = CapabilityHandler
  OBVIOUS
<1>4. input.handlers \in Seq(S) /\ Len(input.handlers) \in Nat
  BY <1>2
<1> HIDE DEF core, S
<1>5. /\ Len(core \o input.handlers) = 2 + Len(input.handlers)
      /\ (core \o input.handlers)[1] = core[1] /\ (core \o input.handlers)[2] = core[2]
  <2> DEFINE more == input.handlers
             both == core \o more
  <2>1. core \in Seq(S) /\ more \in Seq(S)
    BY <1>3, <1>4
  <2> HIDE DEF more
  <2>2. /\ Len(both) = Len(core) + Len(more)
        /\ \A i \in 1..(Len(core) + Len(more)) : both[i] = IF i <= Len(core) THEN core[i] ELSE more[i - Len(core)]
    BY <2>1, ConcatProperties, Zenon
  <2>3. Len(more) \in Nat
    BY <2>1
  <2> HIDE DEF both
  <2>4. Len(both) = 2 + Len(more) /\ both[1] = core[1] /\ both[2] = core[2]
    BY <1>3, <2>2, <2>3
  <2> QED
    BY <2>4 DEF both, more
<1>6. Handlers = core \o input.handlers
  BY DEF Handlers, core
<1> QED
  BY <1>3, <1>4, <1>5, <1>6 DEF Indices

\* A handler whose claim of a category has no selector owns all of it and, when it
\* claims nothing else, nothing else.
LEMMA SoleOwner ==
  ASSUME ClaimsAreExclusive, NEW category, NEW h \in Indices,
         Handlers[h].claims = {[category |-> category, selector |-> {}]},
         NEW def, Matches(def) # {}
  PROVE  OwnerOf(def) = h <=> def.category = category
<1> DEFINE claim == [category |-> category, selector |-> {}]
<1>1. claim.category = category /\ claim.selector = {}
  OBVIOUS
<1> HIDE DEF claim
<1>2. Handlers[h].claims = {claim}
  BY DEF claim
<1>3. <<h, claim>> \in Claims(category)
  BY <1>1, <1>2 DEF Claims
<1>4. category \in Categories
  BY <1>1, <1>2 DEF Categories
<1>5. PICK c \in Matches(def) : OwnerOf(def) = c[1]
  BY DEF OwnerOf
<1>6. c \in Claims(def.category)
  BY <1>5 DEF Matches
<1>7. ASSUME def.category = category PROVE c[1] = h
  <2>1. c = <<h, claim>>
    BY <1>1, <1>3, <1>4, <1>6, <1>7 DEF ClaimsAreExclusive
  <2> QED
    BY <2>1
<1>8. ASSUME c[1] = h PROVE def.category = category
  <2>1. PICK g \in Indices : c \in {g} \X Handlers[g].claims
    BY <1>6 DEF Claims
  <2>2. c[2] = claim
    BY <1>2, <1>8, <2>1
  <2> QED
    BY <1>1, <1>6, <2>2 DEF Claims
<1> QED
  BY <1>5, <1>7, <1>8

\* So the core handlers own the components and the capabilities, and nothing else.
LEMMA CoreOwners ==
  ASSUME input \in Inputs, ClaimsAreExclusive, NEW def, Accepted(def)
  PROVE  /\ OwnerOf(def) = 1 <=> def.category = "component"
         /\ OwnerOf(def) = 2 <=> def.category = "capability"
<1>1. Matches(def) # {}
  BY FS_EmptySet DEF Accepted
<1>2. /\ Handlers[1].claims = {[category |-> "component", selector |-> {}]}
      /\ Handlers[2].claims = {[category |-> "capability", selector |-> {}]}
  BY CoreHandlers DEF ComponentHandler, CapabilityHandler
<1>3. 1 \in Indices /\ 2 \in Indices
  BY CoreHandlers
<1>4. ASSUME NEW h \in Indices, NEW category, Handlers[h].claims = {[category |-> category, selector |-> {}]}
      PROVE  OwnerOf(def) = h <=> def.category = category
  BY <1>1, <1>4, SoleOwner
<1> QED
  BY <1>2, <1>3, <1>4

\* What is made of a definition has its name.
LEMMA MadeNames ==
  /\ \A def : MakeComponent(def).name = def.name /\ MakeCapability(def).name = def.name
  /\ \A def : ResolveIn(MakeComponent(def)).name = def.name /\ ResolveIn(MakeCapability(def)).name = def.name
BY DEF MakeComponent, MakeCapability, ResolveIn

\* What has become of a definition is still there when another one is made.
LEMMA BecameAppend ==
  ASSUME NEW S, NEW made \in Seq(S), NEW x \in S, NEW def
  PROVE  (Became(def, made) \/ x.name = def.name) => Became(def, Append(made, x))
<1>1. Len(Append(made, x)) = Len(made) + 1 /\ Len(made) \in Nat /\ Append(made, x)[Len(made) + 1] = x
      /\ \A i \in 1..Len(made) : Append(made, x)[i] = made[i]
  OBVIOUS
<1> QED
  BY <1>1 DEF Became

\* Resolving placeholders changes no name.
LEMMA BecameResolved ==
  ASSUME NEW drafts, drafts = DraftComponents \/ drafts = DraftCapabilities,
         NEW made \in Seq(drafts)
  PROVE  LET resolved == [i \in 1..Len(made) |-> ResolveIn(made[i])]
         IN /\ resolved \in Seq(Resolved(drafts))
            /\ \A def : Became(def, made) => Became(def, resolved)
<1> DEFINE resolved == [i \in 1..Len(made) |-> ResolveIn(made[i])]
<1>1. Len(made) \in Nat /\ \A i \in 1..Len(made) : made[i] \in drafts
  OBVIOUS
<1>2. \A i \in 1..Len(made) : ResolveIn(made[i]).name = made[i].name
  BY <1>1, MadeNames DEF DraftComponents, DraftCapabilities
<1>3. \A i \in 1..Len(made) : ResolveIn(made[i]) \in Resolved(drafts)
  BY <1>1 DEF Resolved
<1>4. resolved \in [1..Len(made) -> Resolved(drafts)]
  BY <1>3
<1>5. resolved \in Seq(Resolved(drafts)) /\ Len(resolved) = Len(made)
  BY <1>1, <1>4, LenProperties
<1>6. \A i \in 1..Len(made) : resolved[i] = ResolveIn(made[i])
  OBVIOUS
<1> HIDE DEF resolved
<1>7. \A def : Became(def, made) => Became(def, resolved)
  BY <1>2, <1>5, <1>6 DEF Became
<1> QED
  BY <1>5, <1>7 DEF resolved

\* Nothing was made when process() begins.
LEMMA MadeInvInit == ConfigInit => MadeInv
BY DEF ConfigInit, MadeInv

\* What a definition of the input becomes depends on the input alone.
LEMMA SameDrafts ==
  ASSUME UNCHANGED input
  PROVE  /\ DraftComponents' = DraftComponents /\ DraftCapabilities' = DraftCapabilities
         /\ \A category : SourceOf(category)' = SourceOf(category)
         /\ ClaimsAreExclusive' <=> ClaimsAreExclusive
<1>1. Source' = Source /\ Handlers' = Handlers /\ (\A category : Claims(category)' = Claims(category))
      /\ \A def : Core(def)' = Core(def)
  BY SameInput
<1>2. \A category : SourceOf(category)' = SourceOf(category)
  BY <1>1 DEF SourceOf
<1>3. DraftComponents' = DraftComponents
  BY <1>2 DEF DraftComponents, MakeComponent
<1>4. ASSUME NEW def PROVE MakeCapability(def)' = MakeCapability(def)
  BY <1>1 DEF MakeCapability
<1>5. DraftCapabilities' = DraftCapabilities
  BY <1>2, <1>4 DEF DraftCapabilities
<1>6. Categories' = Categories
  BY <1>1 DEF Categories, Indices
<1>7. ClaimsAreExclusive' <=> ClaimsAreExclusive
  BY <1>1, <1>6 DEF ClaimsAreExclusive
<1> QED
  BY <1>2, <1>3, <1>5, <1>7

\* Dispatch makes one component or capability of a definition that its handler owns.
LEMMA MadeDispatch ==
  ASSUME LoadInv, MadeInv, DispatchDefinition
  PROVE  MadeInv'
<1>0. /\ input' = input /\ DraftComponents' = DraftComponents /\ DraftCapabilities' = DraftCapabilities
      /\ \A category : SourceOf(category)' = SourceOf(category)
      /\ ClaimsAreExclusive' <=> ClaimsAreExclusive
  BY SameDrafts DEF DispatchDefinition, Fail
<1>1. CASE Fail
  BY <1>1 DEF Fail, MadeInv
<1>2. CASE ~Fail
  <2> DEFINE head == Head(definitions)
  <2>1. /\ Accepted(head) /\ phase = "dispatch" /\ phase' = "dispatch" /\ definitions # <<>>
        /\ definitions' = Tail(definitions)
        /\ components' = IF OwnerOf(head) = 1 THEN Append(components, MakeComponent(head)) ELSE components
        /\ capabilities' = IF OwnerOf(head) = 2 THEN Append(capabilities, MakeCapability(head)) ELSE capabilities
    BY <1>2 DEF DispatchDefinition
  <2>2. head \in Source /\ Elements(definitions) \subseteq {head} \cup Elements(definitions')
    BY <2>1, ElementsOfTail DEF LoadInv
  <2>3. /\ OwnerOf(head) = 1 <=> head \in SourceOf("component")
        /\ OwnerOf(head) = 2 <=> head \in SourceOf("capability")
    BY <2>1, <2>2, CoreOwners DEF MadeInv, LoadInv, SourceOf
  <2>4. components \in Seq(DraftComponents) /\ capabilities \in Seq(DraftCapabilities)
    BY <2>1 DEF MadeInv
  <2>5. /\ OwnerOf(head) = 1 => MakeComponent(head) \in DraftComponents
        /\ OwnerOf(head) = 2 => MakeCapability(head) \in DraftCapabilities
    BY <2>3 DEF DraftComponents, DraftCapabilities
  <2>6. components' \in Seq(DraftComponents) /\ capabilities' \in Seq(DraftCapabilities)
    BY <2>1, <2>4, <2>5, ElementsOfAppend
  <2>7. ASSUME NEW def \in SourceOf("component")
        PROVE  def \in Elements(definitions') \/ Became(def, components')
    <3>1. def \in Elements(definitions) \/ Became(def, components)
      BY <2>1 DEF MadeInv
    <3>2. CASE OwnerOf(head) = 1
      <4>1. (Became(def, components) \/ MakeComponent(head).name = def.name) => Became(def, components')
        BY <2>1, <2>4, <2>5, <3>2, BecameAppend
      <4> QED
        BY <2>2, <3>1, <4>1, MadeNames
    <3>3. CASE OwnerOf(head) # 1
      BY <2>1, <2>2, <2>3, <3>1, <3>3
    <3> QED
      BY <3>2, <3>3
  <2>8. ASSUME NEW def \in SourceOf("capability")
        PROVE  def \in Elements(definitions') \/ Became(def, capabilities')
    <3>1. def \in Elements(definitions) \/ Became(def, capabilities)
      BY <2>1 DEF MadeInv
    <3>2. CASE OwnerOf(head) = 2
      <4>1. (Became(def, capabilities) \/ MakeCapability(head).name = def.name) => Became(def, capabilities')
        BY <2>1, <2>4, <2>5, <3>2, BecameAppend
      <4> QED
        BY <2>2, <3>1, <4>1, MadeNames
    <3>3. CASE OwnerOf(head) # 2
      BY <2>1, <2>2, <2>3, <3>1, <3>3
    <3> QED
      BY <3>2, <3>3
  <2>9. \A def : (def \in Elements(definitions))' <=> def \in Elements(definitions')
    BY DEF Elements
  <2>10. \A def : /\ Became(def, components)' <=> Became(def, components')
                  /\ Became(def, capabilities)' <=> Became(def, capabilities')
    BY DEF Became
  <2> QED
    BY <1>0, <2>1, <2>6, <2>7, <2>8, <2>9, <2>10 DEF MadeInv
<1> QED
  BY <1>1, <1>2

\* Resolving placeholders keeps what was made, under its name.
LEMMA MadeResolve ==
  ASSUME LoadInv, MadeInv, ResolvePlaceholders
  PROVE  MadeInv'
<1>0. /\ input' = input /\ DraftComponents' = DraftComponents /\ DraftCapabilities' = DraftCapabilities
      /\ \A category : SourceOf(category)' = SourceOf(category)
      /\ ClaimsAreExclusive' <=> ClaimsAreExclusive
  BY SameDrafts DEF ResolvePlaceholders, Fail
<1>1. CASE Fail
  BY <1>1 DEF Fail, MadeInv
<1>2. CASE ~Fail
  <2>1. /\ phase = "placeholders" /\ phase' = "validate" /\ definitions' = definitions
        /\ components' = [i \in 1..Len(components) |-> ResolveIn(components[i])]
        /\ capabilities' = [i \in 1..Len(capabilities) |-> ResolveIn(capabilities[i])]
    BY <1>2 DEF ResolvePlaceholders
  <2>2. components \in Seq(DraftComponents) /\ capabilities \in Seq(DraftCapabilities)
    BY <2>1 DEF MadeInv
  <2>3. /\ components' \in Seq(Resolved(DraftComponents))
        /\ \A def : Became(def, components) => Became(def, components')
    BY <2>1, <2>2, BecameResolved
  <2>4. /\ capabilities' \in Seq(Resolved(DraftCapabilities))
        /\ \A def : Became(def, capabilities) => Became(def, capabilities')
    BY <2>1, <2>2, BecameResolved
  <2>5. Resolved(DraftComponents)' = Resolved(DraftComponents)
        /\ Resolved(DraftCapabilities)' = Resolved(DraftCapabilities)
    BY <1>0 DEF Resolved
  <2>6. \A def : (def \in Elements(definitions))' <=> def \in Elements(definitions)
    BY <2>1 DEF Elements
  <2>7. \A def : /\ Became(def, components)' <=> Became(def, components')
                 /\ Became(def, capabilities)' <=> Became(def, capabilities')
    BY DEF Became
  <2> QED
    BY <1>0, <2>1, <2>3, <2>4, <2>5, <2>6, <2>7 DEF MadeInv
<1> QED
  BY <1>1, <1>2

\* Every step keeps what was made in line with the definitions.
LEMMA MadeInvStep ==
  ASSUME LoadInv, MadeInv, [ConfigNext]_configVars
  PROVE  MadeInv'
<1>0. /\ input' = input /\ DraftComponents' = DraftComponents /\ DraftCapabilities' = DraftCapabilities
      /\ \A category : SourceOf(category)' = SourceOf(category)
      /\ ClaimsAreExclusive' <=> ClaimsAreExclusive
  BY InputStays, SameDrafts
<1>1. CASE ClaimPaths \/ LoadPath \/ NextLoader \/ LoadDone
  BY <1>0, <1>1 DEF ClaimPaths, LoadPath, NextLoader, LoadDone, Fail, MadeInv
<1>2. CASE CheckClaims
  <2>1. Fail \/ (/\ phase = "claims" /\ phase' = "dispatch" /\ ClaimsAreExclusive
                 /\ UNCHANGED <<definitions, components, capabilities>>)
    BY <1>2 DEF CheckClaims
  <2>2. phase = "claims" => Source \subseteq Elements(definitions)
    BY DEF LoadInv
  <2>3. \A category : SourceOf(category) \subseteq Source
    BY DEF SourceOf
  <2>4. UNCHANGED definitions => \A def : (def \in Elements(definitions))' <=> def \in Elements(definitions)
    BY DEF Elements
  <2> QED
    BY <1>0, <2>1, <2>2, <2>3, <2>4 DEF Fail, MadeInv
<1>3. CASE DispatchDefinition
  BY <1>3, MadeDispatch
<1>4. CASE ResolvePlaceholders
  BY <1>4, MadeResolve
<1>5. CASE DispatchDone \/ Validate \/ UNCHANGED configVars
  <2>1. UNCHANGED <<definitions, components, capabilities>>
    BY <1>5 DEF DispatchDone, Validate, Fail, configVars
  <2>2. /\ \A def : (def \in Elements(definitions))' <=> def \in Elements(definitions)
        /\ \A def : /\ Became(def, components)' <=> Became(def, components)
                    /\ Became(def, capabilities)' <=> Became(def, capabilities)
        /\ Resolved(DraftComponents)' = Resolved(DraftComponents)
        /\ Resolved(DraftCapabilities)' = Resolved(DraftCapabilities)
    BY <1>0, <2>1 DEF Elements, Became, Resolved
  <2>3. (ValidNames /\ ValidImports)' <=> ValidNames /\ ValidImports
    BY <2>1 DEF ValidNames, ValidImports, Named, All
  <2>4. \/ phase = "dispatch" /\ phase' = "placeholders"
        \/ phase = "validate" /\ phase' = "ready" /\ ValidNames /\ ValidImports
        \/ phase' = "failed"
        \/ phase' = phase
    BY <1>5 DEF DispatchDone, Validate, Fail, configVars
  <2> QED
    BY <1>0, <2>1, <2>2, <2>3, <2>4 DEF MadeInv
<1> QED
  BY <1>1, <1>2, <1>3, <1>4, <1>5 DEF ConfigNext

\* No placeholder is left in a value in which placeholders were resolved.
LEMMA NoPlaceholderLeft ==
  ASSUME NEW leaf, leaf[1] = "array" => IsList(leaf[2])
  PROVE  /\ Resolve(leaf)[1] # "placeholder"
         /\ Resolve(leaf)[1] = "array" =>
              \A i \in 1..Len(Resolve(leaf)[2]) : Resolve(leaf)[2][i][1] # "placeholder"
<1> DEFINE One(x) == IF x[1] = "placeholder" THEN <<"string", ResolveText(x[2])>> ELSE x
           list == [i \in 1..Len(leaf[2]) |-> One(leaf[2][i])]
<1>1. \A x : One(x)[1] # "placeholder" /\ (One(x)[1] = "array" => x[1] = "array" /\ One(x) = x)
  OBVIOUS
<1>2. CASE leaf[1] = "array"
  <2>1. Resolve(leaf)[1] = "array" /\ Resolve(leaf)[2] = list
    BY <1>2 DEF Resolve
  <2>2. Len(leaf[2]) \in Nat
    BY <1>2 DEF IsList
  <2>3. Len(list) = Len(leaf[2])
    <3>1. list \in Seq({One(leaf[2][i]) : i \in 1..Len(leaf[2])})
      BY <2>2
    <3> QED
      BY <2>2, <3>1, LenProperties
  <2>4. \A i \in 1..Len(list) : list[i] = One(leaf[2][i])
    BY <2>3
  <2> HIDE DEF list
  <2>5. \A i \in 1..Len(list) : list[i][1] # "placeholder"
    BY <1>1, <2>4
  <2> QED
    BY <2>1, <2>5
<1>3. CASE leaf[1] # "array"
  <2>1. Resolve(leaf) = One(leaf)
    BY <1>3 DEF Resolve
  <2> HIDE DEF One
  <2> QED
    BY <1>1, <1>3, <2>1
<1> QED
  BY <1>2, <1>3

\* The arrays among the properties of a definition are lists.
LEMMA SourceLists ==
  ASSUME input \in Inputs, NEW def \in Source, NEW key \in DOMAIN def.properties,
         def.properties[key][1] = "array"
  PROVE  IsList(def.properties[key][2])
<1>1. PICK p \in Elements(input.paths) : def \in Elements(Load(p))
  BY DEF Source
<1>2. CASE p.kind = "toml"
  <2>1. def \in Elements(p.tables)
    BY <1>1, <1>2 DEF Load
  <2> QED
    BY <1>1, <2>1, ConfigAssumption
<1>3. CASE p.kind # "toml"
  <2> DEFINE w == WasmDefinition(p)
  <2>1. def = w
    <3>1. Len(<<w>>) = 1 /\ <<w>>[1] = w /\ Load(p) = <<w>>
      BY <1>3 DEF Load
    <3> HIDE DEF w
    <3> QED
      BY <1>1, <3>1 DEF Elements
  <2>2. def.properties[key] = <<"string", p.name>>
    BY <2>1 DEF WasmDefinition
  <2> QED
    BY <2>2
<1> QED
  BY <1>2, <1>3

\* In the configuration of a component or capability no placeholder is left once
\* its placeholders are resolved.
LEMMA ResolvedIsFree ==
  ASSUME input \in Inputs,
         NEW d \in Resolved(DraftComponents) \cup Resolved(DraftCapabilities), NEW key \in DOMAIN d.config
  PROVE  /\ d.config[key][1] # "placeholder"
         /\ d.config[key][1] = "array" =>
              \A i \in 1..Len(d.config[key][2]) : d.config[key][2][i][1] # "placeholder"
<1>1. PICK draft \in DraftComponents \cup DraftCapabilities : d = ResolveIn(draft)
  BY DEF Resolved
<1>2. PICK def \in Source : draft = MakeComponent(def) \/ draft = MakeCapability(def)
  BY <1>1 DEF DraftComponents, DraftCapabilities, SourceOf
<1>3. \A k \in DOMAIN draft.config : k \in DOMAIN def.properties /\ draft.config[k] = def.properties[k]
  BY <1>2 DEF MakeComponent, MakeCapability, Part
<1>4. d.config = [k \in DOMAIN draft.config |-> Resolve(draft.config[k])]
  BY <1>1, <1>2 DEF ResolveIn, MakeComponent, MakeCapability
<1>5. key \in DOMAIN draft.config /\ d.config[key] = Resolve(draft.config[key])
  BY <1>4
<1>6. draft.config[key][1] = "array" => IsList(draft.config[key][2])
  BY <1>3, <1>5, SourceLists
<1> QED
  BY <1>5, <1>6, NoPlaceholderLeft

\* As many names as members, when no two share a name.
LEMMA NamesCounted ==
  ASSUME NEW S, NEW s \in Seq(S), \A i, j \in 1..Len(s) : s[i].name = s[j].name => i = j
  PROVE  Cardinality({s[i].name : i \in 1..Len(s)}) = Len(s)
<1> DEFINE names == {s[i].name : i \in 1..Len(s)}
           nth == [i \in 1..Len(s) |-> s[i].name]
<1>1. Len(s) \in Nat
  OBVIOUS
<1>2. nth \in Bijection(1..Len(s), names)
  BY DEF Bijection, Injection, Surjection, IsInjective
<1>3. ExistsBijection(1..Len(s), names)
  BY <1>2 DEF ExistsBijection
<1> HIDE DEF names
<1>4. Cardinality(names) = Len(s)
  BY <1>1, <1>3, FS_CountingElements
<1> QED
  BY <1>4 DEF names

\* Under the names of their definitions, and only those.
LEMMA NamesMade ==
  ASSUME NEW category, NEW drafts,
         \/ category = "component" /\ drafts = DraftComponents
         \/ category = "capability" /\ drafts = DraftCapabilities,
         NEW made \in Seq(Resolved(drafts)),
         \A def \in SourceOf(category) : Became(def, made)
  PROVE  {def.name : def \in SourceOf(category)} = {d.name : d \in Elements(made)}
<1>1. ASSUME NEW def \in SourceOf(category) PROVE \E d \in Elements(made) : d.name = def.name
  BY DEF Became, Elements
<1>2. ASSUME NEW d \in Elements(made) PROVE \E def \in SourceOf(category) : d.name = def.name
  <2>1. d \in Resolved(drafts)
    BY DEF Elements
  <2> QED
    BY <2>1, MadeNames DEF Resolved, DraftComponents, DraftCapabilities
<1> QED
  BY <1>1, <1>2

\* An accepted configuration is one that the component graph can be built from: the
\* assumption of ComponentGraph::build, and no placeholder that was left unresolved.
THEOREM BuildableWhenAcceptedHolds == ConfigSpec => []BuildableWhenAccepted
<1>1. LoadInv /\ MadeInv => BuildableWhenAccepted
  <2> SUFFICES ASSUME LoadInv, MadeInv, phase = "ready" PROVE BuildableWhenAccepted
    BY DEF BuildableWhenAccepted
  <2>1. /\ components \in Seq(Resolved(DraftComponents)) /\ capabilities \in Seq(Resolved(DraftCapabilities))
        /\ ValidNames /\ ValidImports /\ input \in Inputs /\ definitions = <<>>
    BY DEF MadeInv, LoadInv
  <2>2. Elements(definitions) = {}
    BY <2>1 DEF Elements
  <2>3. /\ \A def \in SourceOf("component") : Became(def, components)
        /\ \A def \in SourceOf("capability") : Became(def, capabilities)
    BY <2>2 DEF MadeInv
  <2>4. {def.name : def \in SourceOf("component")} = {d.name : d \in Elements(components)}
    BY <2>1, <2>3, NamesMade
  <2>5. {def.name : def \in SourceOf("capability")} = {d.name : d \in Elements(capabilities)}
    BY <2>1, <2>3, NamesMade
  <2> DEFINE S == Resolved(DraftComponents) \cup Resolved(DraftCapabilities)
  <2>6. components \in Seq(S) /\ capabilities \in Seq(S)
    BY <2>1
  <2>7. All \in Seq(S)
    <3> HIDE DEF S
    <3> QED
      BY <2>6, ConcatProperties DEF All
  <2>8. Cardinality(Named) = Len(All) /\ Named \cap ReservedNames = {}
    BY <2>1, <2>7, NamesCounted DEF ValidNames, Named
  <2>9. \A d \in Elements(components) : d.imports \subseteq Named
    BY <2>1 DEF ValidImports, Elements
  <2>10. ASSUME NEW d \in Elements(All), NEW key \in DOMAIN d.config
         PROVE  /\ d.config[key][1] # "placeholder"
                /\ d.config[key][1] = "array" =>
                     \A i \in 1..Len(d.config[key][2]) : d.config[key][2][i][1] # "placeholder"
    <3>1. d \in S
      BY <2>7 DEF Elements
    <3> QED
      BY <2>1, <3>1, ResolvedIsFree
  <2>11. \A category \in {"component", "capability"} :
           LET made == IF category = "component" THEN components ELSE capabilities
           IN {def.name : def \in {d \in Source : d.category = category}} = {d.name : d \in Elements(made)}
    BY <2>4, <2>5 DEF SourceOf
  <2> QED
    BY <2>8, <2>9, <2>10, <2>11 DEF BuildableWhenAccepted
<1> QED
  BY <1>1, ConfigInvInit, LoadInvStep, MadeInvInit, MadeInvStep, PTL DEF ConfigSpec

-----------------------------------------------------------------------------
(***************************************************************************)
(* process() refuses exactly for the reasons it has, whatever the order in *)
(* which it meets them.  What each phase has let pass has no reason of its *)
(* kind (CheckedInv).                                                      *)
(***************************************************************************)
Reason ==
  \/ Unloadable
  \/ Contested
  \/ \E def \in Source : Unreadable(def)
  \/ Unresolvable \/ Ambiguous \/ Dangling

CheckedInv ==
  /\ phase \notin {"claim", "failed"} =>
       \A i \in 1..Len(input.paths) :
         /\ Cardinality(ClaimedBy(input.paths[i])) = 1
         /\ \A l \in ClaimedBy(input.paths[i]) : Past(l, i) => input.paths[i].wellFormed
  /\ phase \in {"claims", "dispatch", "placeholders", "validate", "ready"} => loading[1] > Len(input.loaders)
  /\ phase \in {"dispatch", "placeholders", "validate", "ready"} => ~Contested
  /\ phase \in {"validate", "ready"} => ~Unresolvable
  /\ phase = "ready" => ValidScopes /\ ValidNames /\ ValidImports
  /\ phase = "failed" => Reason

\* Every handler is a core handler or a registered one.
LEMMA EveryHandler ==
  ASSUME input \in Inputs
  PROVE  /\ Len(Handlers) \in Nat
         /\ \A h \in Indices : Handlers[h] \in Elements(input.handlers) \cup {ComponentHandler, CapabilityHandler}
<1>1. input.handlers \in Seq(Elements(input.handlers))
  BY ConfigAssumption DEF IsList
<1> DEFINE core == <<ComponentHandler, CapabilityHandler>>
           more == input.handlers
           S == Elements(more) \cup {ComponentHandler, CapabilityHandler}
<1>2. core \in Seq({ComponentHandler, CapabilityHandler})
  OBVIOUS
<1> HIDE DEF core
<1>3. core \in Seq(S) /\ more \in Seq(S)
  BY <1>1, <1>2
<1> HIDE DEF S, more
<1>4. core \o more \in Seq(S)
  BY <1>3
<1>5. Handlers \in Seq(S)
  BY <1>4 DEF Handlers, core, more
<1> QED
  BY <1>5 DEF Indices, S, more

\* What a handler claims are properties of categories.
LEMMA ClaimedAreProperties ==
  ASSUME input \in Inputs, NEW h \in Indices, NEW cp \in Handlers[h].claimed
  PROVE  cp = <<cp[1], cp[2]>>
<1>1. CASE Handlers[h] \in Elements(input.handlers)
  BY <1>1, ConfigAssumption
<1>2. CASE Handlers[h] = ComponentHandler
  BY <1>2 DEF ComponentHandler
<1>3. CASE Handlers[h] = CapabilityHandler
  BY <1>3 DEF CapabilityHandler
<1> QED
  BY <1>1, <1>2, <1>3, EveryHandler

\* The handlers that claim a property are finitely many.
LEMMA ClaimersAreFew ==
  ASSUME input \in Inputs, NEW category, NEW p
  PROVE  IsFiniteSet(Claimers(category, p))
<1>1. IsFiniteSet(Indices)
  BY EveryHandler, FS_Interval DEF Indices
<1>2. Claimers(category, p) \subseteq Indices
  BY DEF Claimers
<1> QED
  BY <1>1, <1>2, FS_Subset

\* A finite set that is not empty has one member unless it has two.
LEMMA OneOrTwo ==
  ASSUME NEW S, IsFiniteSet(S), NEW x \in S
  PROVE  Cardinality(S) = 1 <=> \A y, z \in S : y = z
<1>1. ASSUME \A y, z \in S : y = z PROVE Cardinality(S) = 1
  <2>1. S = {x}
    BY <1>1
  <2> QED
    BY <2>1, FS_Singleton
<1>2. ASSUME Cardinality(S) = 1 PROVE \A y, z \in S : y = z
  <2>1. \E y : S = {y}
    BY <1>2, FS_Singleton
  <2> QED
    BY <2>1
<1> QED
  BY <1>1, <1>2

\* CheckClaims sees when a category or a property is contested, and only then.
LEMMA ContestedSeen ==
  ASSUME input \in Inputs
  PROVE  ~Contested <=> /\ ClaimsAreExclusive
                        /\ \A cp \in ClaimedProperties : Cardinality(Claimers(cp[1], cp[2])) = 1
<1> DEFINE Shared == \E h, g \in Indices : h # g /\ Handlers[h].claimed \cap Handlers[g].claimed # {}
           Clash == \E h, g \in Indices : \E c \in Handlers[h].claims, d \in Handlers[g].claims :
                      <<h, c>> # <<g, d>> /\ c.category = d.category /\ c.selector = {}
<1>1. ClaimsAreExclusive <=> ~Clash
  <2>1. \A category : \A c \in Claims(category) :
          c[1] \in Indices /\ c[2] \in Handlers[c[1]].claims /\ c[2].category = category /\ c = <<c[1], c[2]>>
    BY DEF Claims
  <2>2. \A h \in Indices : \A c \in Handlers[h].claims : <<h, c>> \in Claims(c.category) /\ c.category \in Categories
    BY DEF Claims, Categories
  <2>3. ASSUME ~Clash PROVE ClaimsAreExclusive
    <3> SUFFICES ASSUME NEW category \in Categories, NEW c \in Claims(category), NEW d \in Claims(category), c # d,
                        c[2].selector = {}
                 PROVE  FALSE
      BY DEF ClaimsAreExclusive
    <3> QED
      BY <2>1, <2>3
  <2>4. ASSUME Clash PROVE ~ClaimsAreExclusive
    <3>1. PICK h \in Indices, g \in Indices :
            \E c \in Handlers[h].claims, d \in Handlers[g].claims :
              <<h, c>> # <<g, d>> /\ c.category = d.category /\ c.selector = {}
      BY <2>4
    <3>2. PICK c \in Handlers[h].claims, d \in Handlers[g].claims :
            <<h, c>> # <<g, d>> /\ c.category = d.category /\ c.selector = {}
      BY <3>1
    <3>3. <<h, c>> \in Claims(c.category) /\ <<g, d>> \in Claims(c.category) /\ c.category \in Categories
      BY <2>2, <3>2
    <3> QED
      BY <3>2, <3>3 DEF ClaimsAreExclusive
  <2> QED
    BY <2>3, <2>4
<1>2. (\A cp \in ClaimedProperties : Cardinality(Claimers(cp[1], cp[2])) = 1) <=> ~Shared
  <2>1. ASSUME NEW h \in Indices, NEW cp \in Handlers[h].claimed
        PROVE  /\ cp \in ClaimedProperties
               /\ h \in Claimers(cp[1], cp[2]) /\ Claimers(cp[1], cp[2]) = {g \in Indices : cp \in Handlers[g].claimed}
    BY ClaimedAreProperties DEF ClaimedProperties, Claimers
  <2>2. \A cp \in ClaimedProperties : \E h \in Indices : cp \in Handlers[h].claimed
    BY DEF ClaimedProperties
  <2>3. ASSUME NEW h \in Indices, NEW cp \in Handlers[h].claimed
        PROVE  Cardinality(Claimers(cp[1], cp[2])) = 1
                 <=> \A g, k \in Indices : cp \in Handlers[g].claimed /\ cp \in Handlers[k].claimed => g = k
    <3>1. h \in Claimers(cp[1], cp[2]) /\ IsFiniteSet(Claimers(cp[1], cp[2]))
      BY <2>1, ClaimersAreFew
    <3>2. Cardinality(Claimers(cp[1], cp[2])) = 1 <=> \A g, k \in Claimers(cp[1], cp[2]) : g = k
      BY <3>1, OneOrTwo
    <3> QED
      BY <2>1, <3>2
  <2> QED
    BY <2>1, <2>2, <2>3
<1> QED
  BY <1>1, <1>2 DEF Contested

\* Where nothing is contested a property has at most one claimer.
LEMMA OneClaimer ==
  ASSUME input \in Inputs, ~Contested, NEW category, NEW p,
         NEW h \in Claimers(category, p), NEW g \in Claimers(category, p)
  PROVE  h = g
BY DEF Claimers, Contested

\* The claims that a definition satisfies are finitely many.
LEMMA MatchesAreFew ==
  ASSUME input \in Inputs, NEW def
  PROVE  IsFiniteSet(Matches(def))
<1>1. ASSUME NEW h \in Indices PROVE IsFiniteSet(Handlers[h].claims)
  <2>1. CASE Handlers[h] \in Elements(input.handlers)
    BY <2>1, ConfigAssumption
  <2>2. CASE Handlers[h] = ComponentHandler \/ Handlers[h] = CapabilityHandler
    <3>1. /\ ComponentHandler.claims = {[category |-> "component", selector |-> {}]}
          /\ CapabilityHandler.claims = {[category |-> "capability", selector |-> {}]}
      BY DEF ComponentHandler, CapabilityHandler
    <3>2. \A c : IsFiniteSet({c})
      BY FS_Singleton
    <3> QED
      BY <2>2, <3>1, <3>2
  <2> QED
    BY <2>1, <2>2, EveryHandler
<1> DEFINE ofOne(h) == {h} \X Handlers[h].claims
           parts == {ofOne(h) : h \in Indices}
<1>2. \A h \in Indices : IsFiniteSet(ofOne(h))
  BY <1>1, FS_Singleton, FS_Product
<1>3. IsFiniteSet(Indices)
  BY EveryHandler, FS_Interval DEF Indices
<1> HIDE DEF ofOne
<1>4. IsFiniteSet(parts)
  <2>1. [h \in Indices |-> ofOne(h)] \in Surjection(Indices, parts)
    BY DEF Surjection
  <2> QED
    BY <1>3, <2>1, FS_Surjection
<1>5. IsFiniteSet(UNION parts)
  BY <1>2, <1>4, FS_UNION
<1>6. Matches(def) \subseteq UNION parts
  BY DEF Matches, Claims, ofOne
<1> QED
  BY <1>5, <1>6, FS_Subset

\* Then dispatch accepts the definitions that can be read, and no others.
LEMMA AcceptedIsReadable ==
  ASSUME input \in Inputs, ~Contested, NEW def
  PROVE  Accepted(def) <=> ~Unreadable(def)
<1>1. CASE Cardinality(Matches(def)) # 1
  BY <1>1 DEF Accepted, Unreadable
<1>2. CASE Cardinality(Matches(def)) = 1
  <2>1. PICK c : Matches(def) = {c}
    BY <1>2, MatchesAreFew, FS_Singleton
  <2>2. OwnerOf(def) = c[1]
    BY <2>1 DEF OwnerOf
  <2> DEFINE owner == Handlers[c[1]]
             Left(p) == p \in PropertiesOf(def) /\ Claimers(def.category, p) \subseteq {c[1]}
  <2>3. \A p : p \in Core(def) <=> Left(p)
    <3> SUFFICES ASSUME NEW p \in PropertiesOf(def)
                 PROVE  ReaderOf(def, p) = c[1] <=> Claimers(def.category, p) \subseteq {c[1]}
      BY <2>2 DEF Core
    <3>1. CASE Claimers(def.category, p) = {}
      BY <2>2, <3>1 DEF ReaderOf
    <3>2. CASE Claimers(def.category, p) # {}
      <4>1. ReaderOf(def, p) \in Claimers(def.category, p)
        BY <3>2 DEF ReaderOf
      <4>2. \A h \in Claimers(def.category, p) : h = ReaderOf(def, p)
        BY <4>1, OneClaimer
      <4> QED
        BY <4>1, <4>2
    <3> QED
      BY <3>1, <3>2
  <2> HIDE DEF owner, Left
  <2>4. Accepted(def) <=>
          /\ def.category \in owner.lax \/ \A p \in PropertiesOf(def) : Claimers(def.category, p) # {}
          /\ \A p \in owner.required : Left(p)
          /\ \A p \in DOMAIN owner.type : Left(p) => HasType(def, p, owner.type[p])
    BY <1>2, <2>2, <2>3 DEF Accepted, owner
  <2>5. Unreadable(def) <=>
          \/ \E p \in PropertiesOf(def) : Claimers(def.category, p) = {} /\ def.category \notin owner.lax
          \/ \E p \in owner.required : ~Left(p)
          \/ \E p \in DOMAIN owner.type : Left(p) /\ ~HasType(def, p, owner.type[p])
    BY <1>2, <2>1 DEF Unreadable, owner, Left
  <2> QED
    BY <2>4, <2>5
<1> QED
  BY <1>1, <1>2

\* Reasons are reasons of the input.
LEMMA SameReason ==
  ASSUME UNCHANGED input
  PROVE  /\ Reason' <=> Reason
         /\ Contested' <=> Contested
         /\ Unresolvable' <=> Unresolvable
         /\ \A p : ClaimedBy(p)' = ClaimedBy(p)
<1>1. /\ Handlers' = Handlers /\ Source' = Source
      /\ \A category, p : Claimers(category, p)' = Claimers(category, p)
      /\ \A def : Matches(def)' = Matches(def)
  BY SameInput
<1>2. Indices' = Indices
  BY <1>1 DEF Indices
<1>3. Contested' <=> Contested
  BY <1>1, <1>2 DEF Contested
<1>4. Unresolvable' <=> Unresolvable
  BY <1>1 DEF Unresolvable
<1>5. \A p : ClaimedBy(p)' = ClaimedBy(p)
  BY DEF ClaimedBy
<1>6. Unloadable' <=> Unloadable
  BY <1>5 DEF Unloadable
<1>7. \A def : Unreadable(def)' <=> Unreadable(def)
  BY <1>1 DEF Unreadable
<1>8. Ambiguous' <=> Ambiguous
  BY DEF Ambiguous, Places, DefAt
<1>9. Dangling' <=> Dangling
  BY <1>1 DEF Dangling
<1> QED
  BY <1>1, <1>3, <1>4, <1>5, <1>6, <1>7, <1>8, <1>9 DEF Reason

(***************************************************************************)
(* Nothing is lost or doubled on the way: what waits for dispatch and what *)
(* was made of it can be traced to places of the input, different ones to  *)
(* different places, and each place of a component or capability that was  *)
(* loaded is found in one of them.                                         *)
(***************************************************************************)
Items == ({"left"} \X (1..Len(definitions))) \cup ({"component"} \X (1..Len(components)))
           \cup ({"capability"} \X (1..Len(capabilities)))

Shaped(draft) == IF phase \in {"validate", "ready"} THEN ResolveIn(draft) ELSE draft

ComesFrom(u, def) ==
  \/ u[1] = "left" /\ definitions[u[2]] = def
  \/ /\ u[1] = "component" /\ def.category = "component" /\ Accepted(def)
     /\ components[u[2]] = Shaped(MakeComponent(def))
  \/ /\ u[1] = "capability" /\ def.category = "capability" /\ Accepted(def)
     /\ capabilities[u[2]] = Shaped(MakeCapability(def))

\* The places that were loaded.
Done == {x \in Places : \E l \in ClaimedBy(input.paths[x[1]]) : Past(l, x[1])}

IsCore(def) == def.category \in {"component", "capability"}

ItemsHavePlaces ==
  \A u, v \in Items : \E x, y \in Done :
    ComesFrom(u, DefAt(x)) /\ ComesFrom(v, DefAt(y)) /\ (u = v <=> x = y)

PlacesHaveItems ==
  \A x, y \in Done : IsCore(DefAt(x)) /\ IsCore(DefAt(y)) =>
    \E u, v \in Items : ComesFrom(u, DefAt(x)) /\ ComesFrom(v, DefAt(y)) /\ (u = v <=> x = y)

TraceInv == phase # "failed" => ItemsHavePlaces /\ PlacesHaveItems

\* The definitions of the input are those at its places.
LEMMA SourcePlaces ==
  ASSUME input \in Inputs
  PROVE  /\ \A x \in Places : DefAt(x) \in Source
         /\ \A def \in Source : \E x \in Places : DefAt(x) = def
<1>1. ASSUME NEW x \in Places PROVE DefAt(x) \in Source
  <2>1. x[1] \in 1..Len(input.paths) /\ x[2] \in 1..Len(Load(input.paths[x[1]]))
    BY DEF Places
  <2> QED
    BY <2>1 DEF DefAt, Source, Elements
<1>2. ASSUME NEW def \in Source PROVE \E x \in Places : DefAt(x) = def
  <2>1. PICK i \in 1..Len(input.paths) : def \in Elements(Load(input.paths[i]))
    BY DEF Source, Elements
  <2>2. PICK k \in 1..Len(Load(input.paths[i])) : def = Load(input.paths[i])[k]
    BY <2>1 DEF Elements
  <2>3. <<i, k>> \in Places
    BY <2>2 DEF Places
  <2> QED
    BY <2>2, <2>3 DEF DefAt
<1> QED
  BY <1>1, <1>2

\* A step that makes something else of the items, but loses none that is traced to a
\* component or capability, keeps them traced.
Moved(was) ==
  /\ \A u \in Items' : was[u] \in Items
  /\ \A u \in Items' : \A def : ComesFrom(was[u], def) => ComesFrom(u, def)'
  /\ \A u, v \in Items' : was[u] = was[v] => u = v
  /\ \A w \in Items : \A def : IsCore(def) /\ ComesFrom(w, def) => \E u \in Items' : was[u] = w

LEMMA StillTraced ==
  ASSUME TraceInv, phase # "failed", UNCHANGED input, Done' = Done, NEW was, Moved(was)
  PROVE  TraceInv'
<1>0. \A x : DefAt(x)' = DefAt(x)
  BY DEF DefAt
<1>1. ASSUME NEW u \in Items', NEW v \in Items'
      PROVE  \E x, y \in Done : ComesFrom(u, DefAt(x))' /\ ComesFrom(v, DefAt(y))' /\ (u = v <=> x = y)
  <2>1. PICK x \in Done, y \in Done :
          ComesFrom(was[u], DefAt(x)) /\ ComesFrom(was[v], DefAt(y)) /\ (was[u] = was[v] <=> x = y)
    BY DEF TraceInv, ItemsHavePlaces, Moved
  <2>2. ComesFrom(u, DefAt(x))' /\ ComesFrom(v, DefAt(y))'
    BY <1>0, <2>1 DEF Moved
  <2> QED
    BY <2>1, <2>2 DEF Moved
<1>2. ASSUME NEW x \in Done, NEW y \in Done, IsCore(DefAt(x)), IsCore(DefAt(y))
      PROVE  \E u, v \in Items' : ComesFrom(u, DefAt(x))' /\ ComesFrom(v, DefAt(y))' /\ (u = v <=> x = y)
  <2>1. PICK w \in Items, z \in Items : ComesFrom(w, DefAt(x)) /\ ComesFrom(z, DefAt(y)) /\ (w = z <=> x = y)
    BY <1>2 DEF TraceInv, PlacesHaveItems
  <2>2. PICK u \in Items', v \in Items' : was[u] = w /\ was[v] = z
    BY <1>2, <2>1 DEF Moved
  <2>3. ComesFrom(u, DefAt(x))' /\ ComesFrom(v, DefAt(y))'
    BY <1>0, <2>1, <2>2 DEF Moved
  <2> QED
    BY <2>1, <2>2, <2>3 DEF Moved
<1>3. ItemsHavePlaces'
  BY <1>0, <1>1 DEF ItemsHavePlaces
<1>4. PlacesHaveItems'
  BY <1>0, <1>2 DEF PlacesHaveItems, IsCore
<1> QED
  BY <1>3, <1>4 DEF TraceInv

\* Loading goes from path to path: which places are done depends on the loader and
\* the path that it is at.
LEMMA DoneNext ==
  ASSUME LoadInv, CheckedInv, NextLoader
  PROVE  Done' = Done
<1>1. /\ input' = input /\ phase = "load" /\ loading' = <<loading[1] + 1, 1>>
      /\ loading[1] <= Len(input.loaders) /\ loading[2] > Len(input.paths)
      /\ Len(input.loaders) \in Nat /\ Len(input.paths) \in Nat
      /\ loading \in (1..(Len(input.loaders) + 1)) \X (1..(Len(input.paths) + 1))
  BY InputFacts DEF NextLoader, LoadInv
<1>2. \A p : ClaimedBy(p)' = ClaimedBy(p) /\ ClaimedBy(p) \subseteq 1..Len(input.loaders)
  BY <1>1 DEF ClaimedBy
<1>3. ASSUME NEW i \in 1..Len(input.paths), NEW l \in 1..Len(input.loaders)
      PROVE  Past(l, i)' <=> Past(l, i)
  <2>1. loading'[1] = loading[1] + 1 /\ loading'[2] = 1
    BY <1>1
  <2>2. loading[1] \in Nat /\ loading[2] \in Nat /\ i < loading[2] /\ ~(i < 1)
    BY <1>1
  <2> QED
    BY <1>1, <2>1, <2>2 DEF Past
<1>4. Places' = Places /\ \A x \in Places : x[1] \in 1..Len(input.paths)
  BY <1>1 DEF Places
<1> QED
  BY <1>1, <1>2, <1>3, <1>4 DEF Done

\* Once all is loaded, all places are done.
LEMMA AllDone ==
  ASSUME LoadInv, CheckedInv, phase \in {"claims", "dispatch", "placeholders", "validate", "ready"}
  PROVE  Done = Places
<1>1. loading[1] > Len(input.loaders) /\ Len(input.loaders) \in Nat /\ loading[1] \in Nat
  BY InputFacts DEF LoadInv, CheckedInv
<1>2. ASSUME NEW x \in Places PROVE \E l \in ClaimedBy(input.paths[x[1]]) : Past(l, x[1])
  <2>1. x[1] \in 1..Len(input.paths)
    BY DEF Places
  <2>2. Cardinality(ClaimedBy(input.paths[x[1]])) # 0
    BY <2>1 DEF CheckedInv
  <2>3. PICK l \in ClaimedBy(input.paths[x[1]]) : TRUE
    BY <2>2, FS_EmptySet
  <2>4. l < loading[1]
    BY <1>1, <2>3 DEF ClaimedBy
  <2> QED
    BY <2>3, <2>4 DEF Past
<1> QED
  BY <1>2 DEF Done

\* A path has one loader.
LEMMA OneLoader ==
  ASSUME LoadInv, CheckedInv, phase \notin {"claim", "failed"}, NEW i \in 1..Len(input.paths),
         NEW l \in ClaimedBy(input.paths[i]), NEW k \in ClaimedBy(input.paths[i])
  PROVE  l = k
<1>0. Len(input.loaders) \in Nat
  BY InputFacts DEF LoadInv
<1>1. IsFiniteSet(1..Len(input.loaders))
  BY <1>0, FS_Interval
<1>2. IsFiniteSet(ClaimedBy(input.paths[i]))
  BY <1>1, FS_Subset DEF ClaimedBy
<1>3. Cardinality(ClaimedBy(input.paths[i])) = 1
  BY DEF CheckedInv
<1> QED
  BY <1>2, <1>3, OneOrTwo

\* Loading a path that the loader has claimed adds its places and their definitions.
LEMMA LoadedIsTraced ==
  ASSUME LoadInv, CheckedInv, TraceInv, LoadPath, phase' = "load"
  PROVE  TraceInv'
<1>0. PICK l, i, n : l = loading[1] /\ i = loading[2] /\ n = Len(definitions)
  OBVIOUS
<1> DEFINE Owned == input.paths[i].kind \in input.loaders[l]
           loaded == Load(input.paths[i])
<1>1. /\ input' = input /\ phase = "load" /\ components' = components /\ capabilities' = capabilities
      /\ components = <<>> /\ capabilities = <<>>
      /\ loading \in (1..(Len(input.loaders) + 1)) \X (1..(Len(input.paths) + 1))
      /\ l \in 1..Len(input.loaders) /\ i \in 1..Len(input.paths)
      /\ loading' = [loading EXCEPT ![2] = @ + 1]
      /\ definitions' = IF Owned THEN definitions \o loaded ELSE definitions
      /\ definitions \in Seq(Source) /\ loaded \in Seq(Source)
      /\ Len(input.loaders) \in Nat /\ Len(input.paths) \in Nat
  BY <1>0, InputFacts DEF LoadPath, Fail, LoadInv
<1>2. loading'[1] = l /\ loading'[2] = i + 1 /\ l \in Nat /\ i \in Nat
  <2>1. loading = <<l, i>>
    BY <1>0, <1>1
  <2> QED
    BY <1>1, <2>1
<1>3. \A k, j : k \in Int /\ j \in Int => (Past(k, j)' <=> Past(k, j) \/ (k = l /\ j = i))
  BY <1>0, <1>2 DEF Past
<1>4. /\ \A p : ClaimedBy(p)' = ClaimedBy(p) /\ ClaimedBy(p) \subseteq 1..Len(input.loaders)
      /\ Places' = Places /\ \A x \in Places : x[1] \in 1..Len(input.paths)
      /\ Owned <=> l \in ClaimedBy(input.paths[i])
      /\ \A x : DefAt(x)' = DefAt(x)
  <2>1. \A p : ClaimedBy(p)' = ClaimedBy(p) /\ ClaimedBy(p) \subseteq 1..Len(input.loaders)
    BY <1>1 DEF ClaimedBy
  <2>2. Places' = Places /\ \A x \in Places : x[1] \in 1..Len(input.paths)
    BY <1>1 DEF Places
  <2>3. Owned <=> l \in ClaimedBy(input.paths[i])
    BY <1>1 DEF ClaimedBy
  <2>4. \A x : DefAt(x)' = DefAt(x)
    BY <1>1 DEF DefAt
  <2> QED
    BY <2>1, <2>2, <2>3, <2>4
<1>5. ~Past(l, i)
  BY <1>0, <1>2 DEF Past
<1>6. Done' = Done \cup {x \in Places : Owned /\ x[1] = i}
  <2> SUFFICES ASSUME NEW x \in Places
               PROVE  (\E k \in ClaimedBy(input.paths[x[1]]) : Past(k, x[1])')
                        <=> (\E k \in ClaimedBy(input.paths[x[1]]) : Past(k, x[1])) \/ (Owned /\ x[1] = i)
    BY <1>1, <1>4 DEF Done
  <2> QED
    BY <1>3, <1>4
<1> HIDE DEF Owned, loaded
<1>7. /\ Items = {"left"} \X (1..n)
      /\ \A u \in Items : \A def : ComesFrom(u, def) <=> definitions[u[2]] = def
  <2>1. Items = {"left"} \X (1..n)
    BY <1>0, <1>1 DEF Items
  <2>2. ASSUME NEW u, u[1] = "left", NEW def PROVE ComesFrom(u, def) <=> definitions[u[2]] = def
    BY <2>2 DEF ComesFrom
  <2>3. \A u \in Items : u[1] = "left"
    BY <2>1
  <2> QED
    BY <2>1, <2>2, <2>3
<1>8. /\ Items' = {"left"} \X (1..Len(definitions'))
      /\ \A u \in Items' : \A def : ComesFrom(u, def)' <=> definitions'[u[2]] = def
  <2>1. Items' = {"left"} \X (1..Len(definitions'))
    BY <1>1 DEF Items
  <2>2. ASSUME NEW u, u[1] = "left", NEW def PROVE ComesFrom(u, def)' <=> definitions'[u[2]] = def
    BY <2>2 DEF ComesFrom
  <2>3. \A u \in Items' : u[1] = "left"
    BY <2>1
  <2> QED
    BY <2>1, <2>2, <2>3
<1>9. CASE ~Owned
  <2>1. definitions' = definitions /\ Done' = Done
    BY <1>1, <1>6, <1>9
  <2> DEFINE was == [u \in Items |-> u]
  <2>2. Items' = Items
    BY <1>0, <1>7, <1>8, <2>1
  <2>3. \A u \in Items : \A def : ComesFrom(u, def)' <=> ComesFrom(u, def)
    BY <1>7, <1>8, <2>1, <2>2
  <2>4. Moved(was)
    BY <2>2, <2>3 DEF Moved
  <2> HIDE DEF was
  <2> QED
    BY <1>1, <2>1, <2>4, StillTraced
<1>10. CASE Owned
  <2>0. PICK m : m = Len(loaded)
    OBVIOUS
  <2> DEFINE item(k) == <<"left", n + k>>
             place(k) == <<i, k>>
  <2>1. /\ n \in Nat /\ m \in Nat /\ Len(definitions') = n + m
        /\ \A k \in 1..n : definitions'[k] = definitions[k]
        /\ \A k \in 1..m : definitions'[n + k] = loaded[k]
    BY <1>0, <1>1, <1>10, <2>0
  <2>2. ASSUME NEW k \in 1..m
        PROVE  /\ item(k) \in Items' /\ item(k) \notin Items
               /\ place(k) \in Done' /\ place(k) \notin Done
               /\ ComesFrom(item(k), DefAt(place(k)))'
    <3>1. item(k) \in Items' /\ item(k) \notin Items
      BY <1>7, <1>8, <2>1
    <3>2. place(k) \in Places /\ DefAt(place(k)) = loaded[k]
      BY <1>1, <2>0 DEF Places, DefAt, loaded
    <3>3. place(k) \in Done'
      BY <1>6, <1>10, <3>2
    <3>4. place(k) \notin Done
      <4> SUFFICES ASSUME NEW j \in ClaimedBy(input.paths[i]), Past(j, i) PROVE FALSE
        BY DEF Done
      <4>1. l \in ClaimedBy(input.paths[i])
        BY <1>4, <1>10
      <4>2. j = l
        BY <1>1, <4>1, OneLoader
      <4> QED
        BY <1>5, <4>2
    <3>5. ComesFrom(item(k), DefAt(place(k)))'
      BY <1>4, <1>8, <2>1, <3>1, <3>2
    <3> QED
      BY <3>1, <3>3, <3>4, <3>5
  <2>3. ASSUME NEW u \in Items' PROVE u \in Items \/ \E k \in 1..m : u = item(k)
    <3>1. PICK j \in 1..(n + m) : u = <<"left", j>>
      BY <1>8, <2>1
    <3>2. CASE j <= n
      BY <1>7, <2>1, <3>1, <3>2
    <3>3. CASE j > n
      <4>1. j - n \in 1..m /\ u = item(j - n)
        BY <2>1, <3>1, <3>3
      <4> QED
        BY <4>1
    <3> QED
      BY <2>1, <3>2, <3>3
  <2>4. ASSUME NEW x \in Done' PROVE x \in Done \/ \E k \in 1..m : x = place(k)
    <3>1. CASE x \in Places /\ x[1] = i
      BY <2>0, <3>1 DEF Places, loaded
    <3> QED
      BY <1>6, <3>1
  <2>5. Items \subseteq Items' /\ Done \subseteq Done'
    BY <1>6, <1>7, <1>8, <2>1
  <2>6. ASSUME NEW u \in Items, NEW def, ComesFrom(u, def) PROVE ComesFrom(u, def)'
    <3>1. u \in Items' /\ definitions[u[2]] = def /\ u[2] \in 1..n
      BY <1>7, <2>5, <2>6
    <3> QED
      BY <1>8, <2>1, <3>1
  <2>7. \A k, j \in 1..m : (item(k) = item(j) <=> k = j) /\ (place(k) = place(j) <=> k = j)
    BY <2>1
  <2> HIDE DEF item, place
  <2>8. ASSUME NEW u \in Items', NEW v \in Items'
        PROVE  \E x, y \in Done' : ComesFrom(u, DefAt(x))' /\ ComesFrom(v, DefAt(y))' /\ (u = v <=> x = y)
    <3>1. \A w \in Items : \E x \in Done : ComesFrom(w, DefAt(x))
      BY <1>1 DEF TraceInv, ItemsHavePlaces
    <3>2. CASE u \in Items /\ v \in Items
      <4>1. PICK x \in Done, y \in Done : ComesFrom(u, DefAt(x)) /\ ComesFrom(v, DefAt(y)) /\ (u = v <=> x = y)
        BY <1>1, <3>2 DEF TraceInv, ItemsHavePlaces
      <4> QED
        BY <1>4, <2>5, <2>6, <3>2, <4>1
    <3>3. ASSUME NEW w \in Items, NEW k \in 1..m
          PROVE  \E x, y \in Done' : ComesFrom(w, DefAt(x))' /\ ComesFrom(item(k), DefAt(y))' /\ w # item(k) /\ x # y
      <4>1. PICK x \in Done : ComesFrom(w, DefAt(x))
        BY <3>1
      <4>2. ComesFrom(w, DefAt(x))' /\ x \in Done'
        BY <1>4, <2>5, <2>6, <4>1
      <4> QED
        BY <2>2, <4>1, <4>2
    <3>4. CASE u \notin Items /\ v \notin Items
      BY <2>2, <2>3, <2>7, <3>4
    <3> QED
      BY <2>3, <3>2, <3>3, <3>4
  <2>9. ASSUME NEW x \in Done', NEW y \in Done', IsCore(DefAt(x)), IsCore(DefAt(y))
        PROVE  \E u, v \in Items' : ComesFrom(u, DefAt(x))' /\ ComesFrom(v, DefAt(y))' /\ (u = v <=> x = y)
    <3>1. \A z \in Done : IsCore(DefAt(z)) => \E w \in Items : ComesFrom(w, DefAt(z))
      BY <1>1 DEF TraceInv, PlacesHaveItems
    <3>2. CASE x \in Done /\ y \in Done
      <4>1. PICK u \in Items, v \in Items : ComesFrom(u, DefAt(x)) /\ ComesFrom(v, DefAt(y)) /\ (u = v <=> x = y)
        BY <1>1, <2>9, <3>2 DEF TraceInv, PlacesHaveItems
      <4> QED
        BY <1>4, <2>5, <2>6, <3>2, <4>1
    <3>3. ASSUME NEW z \in Done, IsCore(DefAt(z)), NEW k \in 1..m
          PROVE  \E u, v \in Items' : ComesFrom(u, DefAt(z))' /\ ComesFrom(v, DefAt(place(k)))' /\ u # v /\ z # place(k)
      <4>1. PICK w \in Items : ComesFrom(w, DefAt(z))
        BY <3>1, <3>3
      <4>2. ComesFrom(w, DefAt(z))' /\ w \in Items'
        BY <1>4, <2>5, <2>6, <4>1
      <4> QED
        BY <2>2, <4>1, <4>2
    <3>4. CASE x \notin Done /\ y \notin Done
      BY <2>2, <2>4, <2>7, <3>4
    <3> QED
      BY <2>4, <2>9, <3>2, <3>3, <3>4
  <2>10. ItemsHavePlaces'
    BY <1>4, <2>8 DEF ItemsHavePlaces
  <2>11. PlacesHaveItems'
    BY <1>4, <2>9 DEF PlacesHaveItems, IsCore
  <2> QED
    BY <2>10, <2>11 DEF TraceInv
<1> QED
  BY <1>9, <1>10

\* What is made of a definition depends on the input alone.
LEMMA SameMade ==
  ASSUME UNCHANGED input
  PROVE  /\ \A def : MakeComponent(def)' = MakeComponent(def) /\ MakeCapability(def)' = MakeCapability(def)
         /\ \A draft : ResolveIn(draft)' = ResolveIn(draft)
<1>1. \A def : Core(def)' = Core(def)
  BY SameInput
<1>2. ASSUME NEW def PROVE MakeCapability(def)' = MakeCapability(def)
  BY <1>1 DEF MakeCapability
<1> QED
  BY <1>2

\* A definition that is dispatched becomes what its owner makes of it, at its end.
LEMMA DispatchedIsTraced ==
  ASSUME LoadInv, MadeInv, CheckedInv, TraceInv, DispatchDefinition, phase' = "dispatch"
  PROVE  TraceInv'
<1>0. PICK n, nc, nk, h : n = Len(definitions) /\ nc = Len(components) /\ nk = Len(capabilities) /\ h = Head(definitions)
  OBVIOUS
<1>1. /\ phase = "dispatch" /\ input' = input /\ loading' = loading /\ Accepted(h)
      /\ definitions # <<>> /\ definitions' = Tail(definitions)
      /\ components' = IF OwnerOf(h) = 1 THEN Append(components, MakeComponent(h)) ELSE components
      /\ capabilities' = IF OwnerOf(h) = 2 THEN Append(capabilities, MakeCapability(h)) ELSE capabilities
      /\ definitions \in Seq(Source) /\ components \in Seq(DraftComponents) /\ capabilities \in Seq(DraftCapabilities)
      /\ input \in Inputs /\ ClaimsAreExclusive
  BY <1>0 DEF DispatchDefinition, Fail, LoadInv, MadeInv
<1>2. /\ OwnerOf(h) = 1 <=> h.category = "component"
      /\ OwnerOf(h) = 2 <=> h.category = "capability"
  BY <1>1, CoreOwners
<1>3. /\ \A def : MakeComponent(def)' = MakeComponent(def) /\ MakeCapability(def)' = MakeCapability(def)
      /\ \A def : Accepted(def)' <=> Accepted(def)
  BY <1>1, SameMade, SameInput
<1>4. /\ n \in Nat \ {0} /\ Len(definitions') = n - 1 /\ h = definitions[1]
      /\ \A j \in 1..(n - 1) : definitions'[j] = definitions[j + 1]
  BY <1>0, <1>1
<1>5. /\ nc \in Nat /\ \A j \in 1..nc : components'[j] = components[j]
      /\ Len(components') = IF h.category = "component" THEN nc + 1 ELSE nc
      /\ h.category = "component" => components'[nc + 1] = MakeComponent(h)
  BY <1>0, <1>1, <1>2
<1>6. /\ nk \in Nat /\ \A j \in 1..nk : capabilities'[j] = capabilities[j]
      /\ Len(capabilities') = IF h.category = "capability" THEN nk + 1 ELSE nk
      /\ h.category = "capability" => capabilities'[nk + 1] = MakeCapability(h)
  BY <1>0, <1>1, <1>2
<1> DEFINE was == [u \in Items' |->
                     IF u[1] = "left" THEN <<"left", u[2] + 1>>
                     ELSE IF u = <<"component", nc + 1>> \/ u = <<"capability", nk + 1>> THEN <<"left", 1>>
                     ELSE u]
           Left(u)  == \E j \in 1..(n - 1) : u = <<"left", j>> /\ was[u] = <<"left", j + 1>>
           Kept(u)  == /\ \/ \E j \in 1..nc : u = <<"component", j>>
                          \/ \E j \in 1..nk : u = <<"capability", j>>
                       /\ was[u] = u
           Fresh(u) == /\ \/ h.category = "component" /\ u = <<"component", nc + 1>>
                          \/ h.category = "capability" /\ u = <<"capability", nk + 1>>
                       /\ was[u] = <<"left", 1>>
<1>7. ASSUME NEW u \in Items' PROVE Left(u) \/ Kept(u) \/ Fresh(u)
  <2>1. CASE \E j \in 1..(n - 1) : u = <<"left", j>>
    BY <2>1
  <2>2. CASE \E j \in 1..nc : u = <<"component", j>>
    BY <1>5, <2>2
  <2>3. CASE \E j \in 1..nk : u = <<"capability", j>>
    BY <1>6, <2>3
  <2>4. CASE h.category = "component" /\ u = <<"component", nc + 1>>
    BY <2>4
  <2>5. CASE h.category = "capability" /\ u = <<"capability", nk + 1>>
    BY <2>5
  <2>6. \/ \E j \in 1..(n - 1) : u = <<"left", j>>
        \/ \E j \in 1..nc : u = <<"component", j>>
        \/ \E j \in 1..nk : u = <<"capability", j>>
        \/ h.category = "component" /\ u = <<"component", nc + 1>>
        \/ h.category = "capability" /\ u = <<"capability", nk + 1>>
    BY <1>4, <1>5, <1>6 DEF Items
  <2> QED
    BY <2>1, <2>2, <2>3, <2>4, <2>5, <2>6
<1>8. /\ \A j \in 1..(n - 1) : <<"left", j>> \in Items' /\ was[<<"left", j>>] = <<"left", j + 1>>
      /\ \A j \in 1..nc : <<"component", j>> \in Items' /\ was[<<"component", j>>] = <<"component", j>>
      /\ \A j \in 1..nk : <<"capability", j>> \in Items' /\ was[<<"capability", j>>] = <<"capability", j>>
      /\ h.category = "component" => <<"component", nc + 1>> \in Items' /\ was[<<"component", nc + 1>>] = <<"left", 1>>
      /\ h.category = "capability" => <<"capability", nk + 1>> \in Items' /\ was[<<"capability", nk + 1>>] = <<"left", 1>>
  <2>1. /\ \A j \in 1..(n - 1) : <<"left", j>> \in Items'
        /\ \A j \in 1..nc : <<"component", j>> \in Items'
        /\ \A j \in 1..nk : <<"capability", j>> \in Items'
        /\ h.category = "component" => <<"component", nc + 1>> \in Items'
        /\ h.category = "capability" => <<"capability", nk + 1>> \in Items'
    BY <1>4, <1>5, <1>6 DEF Items
  <2>2. \A j \in 1..(n - 1) : was[<<"left", j>>] = <<"left", j + 1>>
    BY <2>1
  <2>3. ASSUME NEW j \in 1..nc PROVE was[<<"component", j>>] = <<"component", j>>
    <3>1. <<"component", j>> # <<"component", nc + 1>> /\ <<"component", j>> # <<"capability", nk + 1>>
      BY <1>5
    <3> QED
      BY <2>1, <3>1
  <2>4. ASSUME NEW j \in 1..nk PROVE was[<<"capability", j>>] = <<"capability", j>>
    <3>1. <<"capability", j>> # <<"component", nc + 1>> /\ <<"capability", j>> # <<"capability", nk + 1>>
      BY <1>6
    <3> QED
      BY <2>1, <3>1
  <2>5. /\ h.category = "component" => was[<<"component", nc + 1>>] = <<"left", 1>>
        /\ h.category = "capability" => was[<<"capability", nk + 1>>] = <<"left", 1>>
    BY <2>1
  <2> HIDE DEF was
  <2> QED
    BY <2>1, <2>2, <2>3, <2>4, <2>5
<1> HIDE DEF was
<1>9. Items = ({"left"} \X (1..n)) \cup ({"component"} \X (1..nc)) \cup ({"capability"} \X (1..nk))
  BY <1>0 DEF Items
<1>10. \A u \in Items' : was[u] \in Items
  BY <1>4, <1>7, <1>9
<1>11. \A u, v \in Items' : was[u] = was[v] => u = v
  BY <1>4, <1>5, <1>6, <1>7
<1>12. \A draft : Shaped(draft) = draft /\ Shaped(draft)' = draft
  BY <1>1 DEF Shaped
<1>13. ASSUME NEW u \in Items', NEW def, ComesFrom(was[u], def) PROVE ComesFrom(u, def)'
  <2>1. CASE Left(u)
    BY <1>4, <1>13, <2>1 DEF ComesFrom
  <2>2. CASE Kept(u)
    BY <1>3, <1>5, <1>6, <1>12, <1>13, <2>2 DEF ComesFrom
  <2>3. CASE Fresh(u)
    <3>1. def = h
      BY <1>4, <1>13, <2>3 DEF ComesFrom
    <3> QED
      BY <1>1, <1>3, <1>5, <1>6, <1>12, <2>3, <3>1 DEF ComesFrom
  <2> QED
    BY <1>7, <2>1, <2>2, <2>3
<1>14. ASSUME NEW w \in Items, NEW def, IsCore(def), ComesFrom(w, def) PROVE \E u \in Items' : was[u] = w
  <2>1. CASE w = <<"left", 1>>
    <3>1. def = h
      BY <1>4, <1>14, <2>1 DEF ComesFrom
    <3> QED
      BY <1>8, <1>14, <2>1, <3>1 DEF IsCore
  <2>2. CASE w # <<"left", 1>>
    <3>1. CASE \E j \in 1..n : w = <<"left", j>>
      <4>1. PICK j \in 1..n : w = <<"left", j>>
        BY <3>1
      <4>2. j - 1 \in 1..(n - 1) /\ (j - 1) + 1 = j
        BY <1>4, <2>2, <4>1
      <4> QED
        BY <1>8, <4>1, <4>2
    <3>2. CASE ~\E j \in 1..n : w = <<"left", j>>
      BY <1>8, <1>9, <3>2
    <3> QED
      BY <3>1, <3>2
  <2> QED
    BY <2>1, <2>2
<1>15. Moved(was)
  BY <1>10, <1>11, <1>13, <1>14 DEF Moved
<1>16. Done' = Done
  BY <1>1 DEF Done, Places, ClaimedBy, Past
<1> QED
  BY <1>1, <1>15, <1>16, StillTraced

\* Resolving placeholders makes nothing new.
LEMMA ResolvedIsTraced ==
  ASSUME LoadInv, MadeInv, TraceInv, ResolvePlaceholders, phase' = "validate"
  PROVE  TraceInv'
<1>1. /\ phase = "placeholders" /\ input' = input /\ loading' = loading /\ definitions' = definitions
      /\ components' = [i \in 1..Len(components) |-> ResolveIn(components[i])]
      /\ capabilities' = [i \in 1..Len(capabilities) |-> ResolveIn(capabilities[i])]
      /\ components \in Seq(DraftComponents) /\ capabilities \in Seq(DraftCapabilities)
  BY DEF ResolvePlaceholders, Fail, MadeInv
<1>2. Len(components') = Len(components) /\ Len(capabilities') = Len(capabilities)
  BY <1>1, BecameResolved, LenProperties
<1>3. Items' = Items
  BY <1>1, <1>2 DEF Items
<1>4. /\ \A def : MakeComponent(def)' = MakeComponent(def) /\ MakeCapability(def)' = MakeCapability(def)
      /\ \A def : Accepted(def)' <=> Accepted(def)
      /\ \A draft : ResolveIn(draft)' = ResolveIn(draft)
  BY <1>1, SameMade, SameInput
<1>5. \A draft : Shaped(draft) = draft /\ Shaped(draft)' = ResolveIn(draft)
  BY <1>1, <1>4 DEF Shaped
<1>6. ASSUME NEW u \in Items', NEW def, ComesFrom(u, def) PROVE ComesFrom(u, def)'
  <2>1. /\ u[1] = "component" => components'[u[2]] = ResolveIn(components[u[2]])
        /\ u[1] = "capability" => capabilities'[u[2]] = ResolveIn(capabilities[u[2]])
    BY <1>1, <1>3 DEF Items
  <2> QED
    BY <1>1, <1>4, <1>5, <1>6, <2>1 DEF ComesFrom
<1> DEFINE was == [u \in Items |-> u]
<1>7. Moved(was)
  BY <1>3, <1>6 DEF Moved
<1> HIDE DEF was
<1>8. Done' = Done
  BY <1>1 DEF Done, Places, ClaimedBy, Past
<1> QED
  BY <1>1, <1>7, <1>8, StillTraced

\* Nothing is loaded, and so everything traced, when process() begins.
LEMMA TraceInvInit == ConfigInit => TraceInv /\ CheckedInv
<1> SUFFICES ASSUME ConfigInit PROVE TraceInv /\ CheckedInv
  OBVIOUS
<1>1. /\ phase = "claim" /\ loading = <<1, 1>> /\ definitions = <<>> /\ components = <<>> /\ capabilities = <<>>
      /\ Len(input.loaders) \in Nat /\ Len(input.paths) \in Nat
  BY InputFacts DEF ConfigInit
<1>2. Items = {}
  BY <1>1 DEF Items
<1>3. Done = {}
  <2>1. \A x \in Places : x[1] \in 1..Len(input.paths)
    BY DEF Places
  <2>2. \A i \in 1..Len(input.paths) : \A l \in ClaimedBy(input.paths[i]) : ~Past(l, i)
    BY <1>1 DEF Past, ClaimedBy
  <2> QED
    BY <2>1, <2>2 DEF Done
<1> QED
  BY <1>1, <1>2, <1>3 DEF TraceInv, ItemsHavePlaces, PlacesHaveItems, CheckedInv

\* Every step keeps everything traced.
LEMMA TraceInvStep ==
  ASSUME LoadInv, MadeInv, CheckedInv, TraceInv, [ConfigNext]_configVars
  PROVE  TraceInv'
<1>0. CASE phase' = "failed"
  BY <1>0 DEF TraceInv
<1> SUFFICES ASSUME phase' # "failed" PROVE TraceInv'
  BY <1>0
<1>1. CASE LoadPath
  BY <1>1, LoadedIsTraced DEF LoadPath, Fail
<1>2. CASE DispatchDefinition
  BY <1>2, DispatchedIsTraced DEF DispatchDefinition, Fail
<1>3. CASE ResolvePlaceholders
  BY <1>3, ResolvedIsTraced DEF ResolvePlaceholders, Fail
<1>4. CASE ClaimPaths \/ NextLoader \/ LoadDone \/ CheckClaims \/ DispatchDone \/ Validate \/ UNCHANGED configVars
  <2>1. /\ UNCHANGED <<input, definitions, components, capabilities>>
        /\ phase # "failed"
        /\ phase' \in {"validate", "ready"} <=> phase \in {"validate", "ready"}
    BY <1>4 DEF ClaimPaths, NextLoader, LoadDone, CheckClaims, DispatchDone, Validate, configVars, Fail
  <2>2. Done' = Done
    <3>1. CASE NextLoader
      BY <3>1, DoneNext
    <3>2. CASE UNCHANGED loading
      BY <2>1, <3>2 DEF Done, Places, ClaimedBy, Past
    <3> QED
      BY <1>4, <3>1, <3>2 DEF ClaimPaths, LoadDone, CheckClaims, DispatchDone, Validate, configVars, Fail
  <2>3. /\ \A def : MakeComponent(def)' = MakeComponent(def) /\ MakeCapability(def)' = MakeCapability(def)
        /\ \A def : Accepted(def)' <=> Accepted(def)
        /\ \A draft : ResolveIn(draft)' = ResolveIn(draft)
    BY <2>1, SameMade, SameInput
  <2>4. Items' = Items
    BY <2>1 DEF Items
  <2>5. \A draft : Shaped(draft)' = Shaped(draft)
    BY <2>1, <2>3 DEF Shaped
  <2>6. ASSUME NEW u, NEW def PROVE ComesFrom(u, def)' <=> ComesFrom(u, def)
    BY <2>1, <2>3, <2>5 DEF ComesFrom
  <2> DEFINE was == [u \in Items |-> u]
  <2>7. Moved(was)
    BY <2>4, <2>6 DEF Moved
  <2> HIDE DEF was
  <2> QED
    BY <2>1, <2>2, <2>7, StillTraced
<1> QED
  BY <1>1, <1>2, <1>3, <1>4 DEF ConfigNext

-----------------------------------------------------------------------------
(***************************************************************************)
(* What the last two phases see of the input.                              *)
(***************************************************************************)
\* The capability handler is given what nobody claims.
LEMMA CapabilityConfig ==
  ASSUME input \in Inputs, ClaimsAreExclusive, NEW def, def.category = "capability", Accepted(def),
         NEW key \in DOMAIN def.properties
  PROVE  key \in DOMAIN MakeCapability(def).config <=> Claimers("capability", key[1]) = {}
<1>1. OwnerOf(def) = 2 /\ 2 \in Indices /\ Handlers[2] = CapabilityHandler
  BY CoreOwners, CoreHandlers
<1>2. \A p : 2 \in Claimers("capability", p) <=> p \in {"type", "scope"}
  <2>1. CapabilityHandler.claimed = {"capability"} \X {"type", "scope"}
    BY DEF CapabilityHandler
  <2> QED
    BY <1>1, <2>1 DEF Claimers
<1>3. DOMAIN MakeCapability(def).config = {k \in DOMAIN def.properties : k[1] \in Core(def) \ {"type", "scope"}}
  BY DEF MakeCapability
<1>4. key[1] \in PropertiesOf(def)
  BY DEF PropertiesOf
<1>5. key[1] \in Core(def) <=> ReaderOf(def, key[1]) = 2
  BY <1>1, <1>4 DEF Core
<1>6. CASE Claimers("capability", key[1]) = {}
  <2>1. ReaderOf(def, key[1]) = 2
    BY <1>1, <1>6 DEF ReaderOf
  <2> QED
    BY <1>2, <1>3, <1>5, <1>6, <2>1
<1>7. CASE Claimers("capability", key[1]) # {}
  <2>1. ReaderOf(def, key[1]) \in Claimers("capability", key[1])
    BY <1>7 DEF ReaderOf
  <2> QED
    BY <1>2, <1>3, <1>5, <1>7, <2>1
<1> QED
  BY <1>6, <1>7

\* What a handler keeps of the configuration is a part of the definition.
LEMMA ConfigIsPart ==
  ASSUME NEW def
  PROVE  /\ \A key \in DOMAIN MakeComponent(def).config :
              key \in DOMAIN def.properties /\ MakeComponent(def).config[key] = def.properties[key]
         /\ \A key \in DOMAIN MakeCapability(def).config :
              key \in DOMAIN def.properties /\ MakeCapability(def).config[key] = def.properties[key]
         /\ \A key : key \in DOMAIN MakeComponent(def).config <=> key \in DOMAIN def.properties /\ key[1] = "config"
BY DEF MakeComponent, MakeCapability, Part

\* Once dispatch is over, what was made is traced to all of the input.
LEMMA MadeOfAll ==
  ASSUME LoadInv, CheckedInv, TraceInv, phase \in {"placeholders", "validate", "ready"}
  PROVE  /\ \A i \in 1..Len(components) : \E def \in Source :
              def.category = "component" /\ Accepted(def) /\ components[i] = Shaped(MakeComponent(def))
         /\ \A i \in 1..Len(capabilities) : \E def \in Source :
              def.category = "capability" /\ Accepted(def) /\ capabilities[i] = Shaped(MakeCapability(def))
         /\ \A def \in Source : def.category = "component" =>
              /\ Accepted(def)
              /\ \E i \in 1..Len(components) : components[i] = Shaped(MakeComponent(def))
         /\ \A def \in Source : def.category = "capability" =>
              /\ Accepted(def)
              /\ \E i \in 1..Len(capabilities) : capabilities[i] = Shaped(MakeCapability(def))
<1>1. /\ input \in Inputs /\ definitions = <<>>
      /\ ItemsHavePlaces /\ PlacesHaveItems
  BY DEF LoadInv, TraceInv
<1>2. Done = Places /\ \A x \in Places : DefAt(x) \in Source
  BY <1>1, AllDone, SourcePlaces
<1>3. Items = ({"component"} \X (1..Len(components))) \cup ({"capability"} \X (1..Len(capabilities)))
  BY <1>1 DEF Items
<1>4. ASSUME NEW u \in Items PROVE \E def \in Source : ComesFrom(u, def)
  BY <1>1, <1>2 DEF ItemsHavePlaces
<1>5. ASSUME NEW def \in Source, IsCore(def) PROVE \E u \in Items : ComesFrom(u, def)
  <2>1. PICK x \in Done : DefAt(x) = def
    BY <1>1, <1>2, SourcePlaces
  <2> QED
    BY <1>1, <1>5, <2>1 DEF PlacesHaveItems
<1>6. ASSUME NEW i \in 1..Len(components)
      PROVE  \E def \in Source : def.category = "component" /\ Accepted(def) /\ components[i] = Shaped(MakeComponent(def))
  <2>1. <<"component", i>> \in Items
    BY <1>3
  <2> QED
    BY <1>4, <2>1 DEF ComesFrom
<1>7. ASSUME NEW i \in 1..Len(capabilities)
      PROVE  \E def \in Source : def.category = "capability" /\ Accepted(def) /\ capabilities[i] = Shaped(MakeCapability(def))
  <2>1. <<"capability", i>> \in Items
    BY <1>3
  <2> QED
    BY <1>4, <2>1 DEF ComesFrom
<1>8. ASSUME NEW def \in Source, def.category = "component"
      PROVE  /\ Accepted(def)
             /\ \E i \in 1..Len(components) : components[i] = Shaped(MakeComponent(def))
  <2>1. PICK u \in Items : ComesFrom(u, def)
    BY <1>5, <1>8 DEF IsCore
  <2> QED
    BY <1>3, <1>8, <2>1 DEF ComesFrom
<1>9. ASSUME NEW def \in Source, def.category = "capability"
      PROVE  /\ Accepted(def)
             /\ \E i \in 1..Len(capabilities) : capabilities[i] = Shaped(MakeCapability(def))
  <2>1. PICK u \in Items : ComesFrom(u, def)
    BY <1>5, <1>9 DEF IsCore
  <2> QED
    BY <1>3, <1>9, <2>1 DEF ComesFrom
<1> QED
  BY <1>6, <1>7, <1>8, <1>9

\* ResolvePlaceholders meets a placeholder that it cannot resolve when there is one in
\* the input, and only then.
CanResolveAll(defs) == \A i \in 1..Len(defs) : \A key \in DOMAIN defs[i].config : CanResolve(defs[i].config[key])

LEMMA UnresolvableSeen ==
  ASSUME LoadInv, MadeInv, CheckedInv, TraceInv, phase = "placeholders"
  PROVE  CanResolveAll(components) /\ CanResolveAll(capabilities) <=> ~Unresolvable
<1>1. input \in Inputs /\ ClaimsAreExclusive /\ \A draft : Shaped(draft) = draft
  BY DEF LoadInv, MadeInv, Shaped
<1>2. ASSUME NEW i \in 1..Len(components), NEW key \in DOMAIN components[i].config, ~CanResolve(components[i].config[key])
      PROVE  Unresolvable
  <2>1. PICK def \in Source : def.category = "component" /\ components[i] = MakeComponent(def)
    BY <1>1, MadeOfAll
  <2>2. key \in DOMAIN def.properties /\ key[1] = "config" /\ components[i].config[key] = def.properties[key]
    BY <2>1, ConfigIsPart
  <2> QED
    BY <1>2, <2>1, <2>2 DEF Unresolvable
<1>3. ASSUME NEW i \in 1..Len(capabilities), NEW key \in DOMAIN capabilities[i].config,
             ~CanResolve(capabilities[i].config[key])
      PROVE  Unresolvable
  <2>1. PICK def \in Source : def.category = "capability" /\ Accepted(def) /\ capabilities[i] = MakeCapability(def)
    BY <1>1, MadeOfAll
  <2>2. key \in DOMAIN def.properties /\ capabilities[i].config[key] = def.properties[key]
    BY <2>1, ConfigIsPart
  <2>3. Claimers("capability", key[1]) = {}
    BY <1>1, <2>1, <2>2, CapabilityConfig
  <2> QED
    BY <1>3, <2>1, <2>2, <2>3 DEF Unresolvable
<1>4. ASSUME CanResolveAll(components), CanResolveAll(capabilities), Unresolvable PROVE FALSE
  <2>0. PICK def \in Source : \E key \in DOMAIN def.properties :
          /\ \/ def.category = "component" /\ key[1] = "config"
             \/ def.category = "capability" /\ Claimers("capability", key[1]) = {}
          /\ ~CanResolve(def.properties[key])
    BY <1>4 DEF Unresolvable
  <2>1. PICK key \in DOMAIN def.properties :
          /\ \/ def.category = "component" /\ key[1] = "config"
             \/ def.category = "capability" /\ Claimers("capability", key[1]) = {}
          /\ ~CanResolve(def.properties[key])
    BY <2>0
  <2>2. CASE def.category = "component" /\ key[1] = "config"
    <3>1. PICK i \in 1..Len(components) : components[i] = MakeComponent(def)
      BY <1>1, <2>2, MadeOfAll
    <3>2. key \in DOMAIN components[i].config /\ components[i].config[key] = def.properties[key]
      BY <2>2, <3>1, ConfigIsPart
    <3> QED
      BY <1>4, <2>1, <3>2 DEF CanResolveAll
  <2>3. CASE def.category = "capability" /\ Claimers("capability", key[1]) = {}
    <3>1. PICK i \in 1..Len(capabilities) : Accepted(def) /\ capabilities[i] = MakeCapability(def)
      BY <1>1, <2>3, MadeOfAll
    <3>2. key \in DOMAIN capabilities[i].config /\ capabilities[i].config[key] = def.properties[key]
      BY <1>1, <2>3, <3>1, CapabilityConfig, ConfigIsPart
    <3> QED
      BY <1>4, <2>1, <3>2 DEF CanResolveAll
  <2> QED
    BY <2>1, <2>2, <2>3
<1> QED
  BY <1>2, <1>3, <1>4 DEF CanResolveAll

\* All that was made: the capabilities, then the components.
LEMMA AllMade ==
  ASSUME LoadInv, MadeInv, phase \in {"validate", "ready"}
  PROVE  /\ Len(components) \in Nat /\ Len(capabilities) \in Nat /\ Len(All) = Len(capabilities) + Len(components)
         /\ \A i \in 1..Len(capabilities) : All[i] = capabilities[i]
         /\ \A i \in 1..Len(components) : All[Len(capabilities) + i] = components[i]
         /\ \A i \in 1..Len(All) : \/ i \in 1..Len(capabilities)
                                   \/ \E j \in 1..Len(components) : i = Len(capabilities) + j
<1> DEFINE S == Resolved(DraftComponents) \cup Resolved(DraftCapabilities)
<1>1. components \in Seq(S) /\ capabilities \in Seq(S)
  BY DEF MadeInv
<1> HIDE DEF S
<1>2. /\ Len(components) \in Nat /\ Len(capabilities) \in Nat /\ Len(All) = Len(capabilities) + Len(components)
      /\ \A i \in 1..Len(capabilities) : All[i] = capabilities[i]
      /\ \A i \in 1..Len(components) : All[Len(capabilities) + i] = components[i]
  BY <1>1 DEF All
<1>3. ASSUME NEW i \in 1..Len(All)
      PROVE  i \in 1..Len(capabilities) \/ \E j \in 1..Len(components) : i = Len(capabilities) + j
  <2>1. CASE i > Len(capabilities)
    <3>1. i - Len(capabilities) \in 1..Len(components) /\ i = Len(capabilities) + (i - Len(capabilities))
      BY <1>2, <2>1
    <3> QED
      BY <3>1
  <2> QED
    BY <1>2, <2>1
<1> QED
  BY <1>2, <1>3

\* What is kept of a definition when its placeholders are resolved.
LEMMA KeptOf ==
  ASSUME NEW def, phase \in {"validate", "ready"}
  PROVE  /\ Shaped(MakeComponent(def)).name = def.name /\ Shaped(MakeCapability(def)).name = def.name
         /\ Shaped(MakeComponent(def)).scope = ScopeOf(def) /\ Shaped(MakeCapability(def)).scope = ScopeOf(def)
         /\ Shaped(MakeComponent(def)).imports = StringsAt(def, "imports")
BY DEF Shaped, ResolveIn, MakeComponent, MakeCapability

\* Two of what was made have a name in common when two definitions have, and only then.
LEMMA AmbiguousSeen ==
  ASSUME LoadInv, MadeInv, CheckedInv, TraceInv, phase \in {"validate", "ready"}
  PROVE  (\A i, j \in 1..Len(All) : All[i].name = All[j].name => i = j) <=> ~Ambiguous
<1>1. input \in Inputs /\ definitions = <<>> /\ ItemsHavePlaces /\ PlacesHaveItems /\ Done = Places
  BY AllDone DEF LoadInv, TraceInv
<1>0. PICK n, m : n = Len(capabilities) /\ m = Len(components)
  OBVIOUS
<1>7. /\ n \in Nat /\ m \in Nat /\ Len(All) = n + m
      /\ \A i \in 1..n : All[i] = capabilities[i]
      /\ \A i \in 1..m : All[n + i] = components[i]
      /\ \A i \in 1..Len(All) : i \in 1..n \/ \E j \in 1..m : i = n + j
  BY <1>0, AllMade
<1>8. Items = ({"component"} \X (1..m)) \cup ({"capability"} \X (1..n))
  BY <1>0, <1>1 DEF Items
<1>9. \A u \in Items : \A def : ComesFrom(u, def) =>
        \/ u[1] = "component" /\ def.category = "component" /\ components[u[2]] = Shaped(MakeComponent(def))
        \/ u[1] = "capability" /\ def.category = "capability" /\ capabilities[u[2]] = Shaped(MakeCapability(def))
  BY <1>8 DEF ComesFrom
<1> DEFINE item(i) == IF i <= n THEN <<"capability", i>> ELSE <<"component", i - n>>
<1>2. ASSUME NEW i \in 1..Len(All)
      PROVE  /\ item(i) \in Items
             /\ \A def : ComesFrom(item(i), def) => All[i].name = def.name /\ IsCore(def)
  <2>1. CASE i \in 1..n
    <3>1. item(i) = <<"capability", i>> /\ All[i] = capabilities[i]
      BY <1>7, <2>1
    <3> HIDE DEF item
    <3> QED
      BY <1>8, <1>9, <2>1, <3>1, KeptOf DEF IsCore
  <2>2. ASSUME NEW j \in 1..m, i = n + j
        PROVE  /\ item(i) \in Items
               /\ \A def : ComesFrom(item(i), def) => All[i].name = def.name /\ IsCore(def)
    <3>1. item(i) = <<"component", j>> /\ All[i] = components[j]
      BY <1>7, <2>2
    <3> HIDE DEF item
    <3> QED
      BY <1>8, <1>9, <2>2, <3>1, KeptOf DEF IsCore
  <2> HIDE DEF item
  <2> QED
    BY <1>7, <2>1, <2>2
<1>3. ASSUME NEW i \in 1..Len(All), NEW j \in 1..Len(All), item(i) = item(j) PROVE i = j
  BY <1>3, <1>7
<1>4. ASSUME NEW u \in Items PROVE \E i \in 1..Len(All) : item(i) = u
  <2>1. CASE \E i \in 1..n : u = <<"capability", i>>
    <3>1. PICK i \in 1..n : u = <<"capability", i>>
      BY <2>1
    <3>2. i \in 1..Len(All) /\ item(i) = u
      BY <1>7, <3>1
    <3> QED
      BY <3>2
  <2>2. CASE \E j \in 1..m : u = <<"component", j>>
    <3>1. PICK j \in 1..m : u = <<"component", j>>
      BY <2>2
    <3>2. n + j \in 1..Len(All) /\ item(n + j) = u
      BY <1>7, <3>1
    <3> QED
      BY <3>2
  <2> QED
    BY <1>8, <2>1, <2>2
<1> HIDE DEF item
<1>5. ASSUME NEW i \in 1..Len(All), NEW j \in 1..Len(All), All[i].name = All[j].name, i # j
      PROVE  Ambiguous
  <2>1. PICK x \in Done, y \in Done :
          ComesFrom(item(i), DefAt(x)) /\ ComesFrom(item(j), DefAt(y)) /\ (item(i) = item(j) <=> x = y)
    BY <1>1, <1>2 DEF ItemsHavePlaces
  <2> QED
    BY <1>1, <1>2, <1>3, <1>5, <2>1 DEF Ambiguous, SameName, IsCore
<1>6. ASSUME Ambiguous PROVE \E i, j \in 1..Len(All) : All[i].name = All[j].name /\ i # j
  <2>1. PICK x \in Places, y \in Places : x # y /\ SameName(DefAt(x), DefAt(y))
    BY <1>6 DEF Ambiguous
  <2>2. PICK u \in Items, v \in Items : ComesFrom(u, DefAt(x)) /\ ComesFrom(v, DefAt(y)) /\ (u = v <=> x = y)
    BY <1>1, <2>1 DEF PlacesHaveItems, SameName, IsCore
  <2>3. PICK i \in 1..Len(All), j \in 1..Len(All) : item(i) = u /\ item(j) = v
    BY <1>4
  <2>4. All[i].name = DefAt(x).name /\ All[j].name = DefAt(y).name
    BY <1>2, <2>2, <2>3
  <2> QED
    BY <2>1, <2>2, <2>3, <2>4 DEF SameName
<1> QED
  BY <1>5, <1>6

\* The names that were made are those of the components and capabilities of the input.
LEMMA NamedAre ==
  ASSUME LoadInv, MadeInv, CheckedInv, TraceInv, phase \in {"validate", "ready"}
  PROVE  \A n : n \in Named <=> \E def \in Source : IsCore(def) /\ def.name = n
<1>1. ASSUME NEW i \in 1..Len(All) PROVE \E def \in Source : IsCore(def) /\ def.name = All[i].name
  <2>1. CASE i \in 1..Len(capabilities)
    <3>1. PICK def \in Source : def.category = "capability" /\ capabilities[i] = Shaped(MakeCapability(def))
      BY <2>1, MadeOfAll
    <3>2. All[i] = capabilities[i]
      BY <2>1, AllMade
    <3> QED
      BY <3>1, <3>2, KeptOf DEF IsCore
  <2>2. ASSUME NEW j \in 1..Len(components), i = Len(capabilities) + j
        PROVE  \E def \in Source : IsCore(def) /\ def.name = All[i].name
    <3>1. PICK def \in Source : def.category = "component" /\ components[j] = Shaped(MakeComponent(def))
      BY MadeOfAll
    <3>2. All[i] = components[j]
      BY <2>2, AllMade
    <3> QED
      BY <3>1, <3>2, KeptOf DEF IsCore
  <2> QED
    BY <2>1, <2>2, AllMade
<1>2. ASSUME NEW def \in Source, IsCore(def) PROVE \E i \in 1..Len(All) : All[i].name = def.name
  <2>1. CASE def.category = "capability"
    <3>1. PICK i \in 1..Len(capabilities) : capabilities[i] = Shaped(MakeCapability(def))
      BY <2>1, MadeOfAll
    <3>2. i \in 1..Len(All) /\ All[i] = capabilities[i]
      BY AllMade
    <3> QED
      BY <3>1, <3>2, KeptOf
  <2>2. CASE def.category = "component"
    <3>1. PICK i \in 1..Len(components) : components[i] = Shaped(MakeComponent(def))
      BY <2>2, MadeOfAll
    <3>2. Len(capabilities) + i \in 1..Len(All) /\ All[Len(capabilities) + i] = components[i]
      BY AllMade
    <3> QED
      BY <3>1, <3>2, KeptOf
  <2> QED
    BY <1>2, <2>1, <2>2 DEF IsCore
<1> QED
  BY <1>1, <1>2 DEF Named

\* Scopes, reserved names and imports that Validate objects to are those of definitions.
LEMMA DanglingSeen ==
  ASSUME LoadInv, MadeInv, CheckedInv, TraceInv, phase \in {"validate", "ready"}
  PROVE  ValidScopes /\ Named \cap ReservedNames = {} /\ ValidImports <=> ~Dangling
<1>2. ValidScopes <=> \A def \in Source : /\ def.category = "capability" => ScopeOf(def) = "any"
                                          /\ def.category = "component" => ScopeOf(def) \in Scopes
  <2>1. ASSUME ValidScopes, NEW def \in Source
        PROVE  /\ def.category = "capability" => ScopeOf(def) = "any"
               /\ def.category = "component" => ScopeOf(def) \in Scopes
    BY <2>1, MadeOfAll, KeptOf DEF ValidScopes
  <2>2. ASSUME \A def \in Source : /\ def.category = "capability" => ScopeOf(def) = "any"
                                   /\ def.category = "component" => ScopeOf(def) \in Scopes
        PROVE  ValidScopes
    BY <2>2, MadeOfAll, KeptOf DEF ValidScopes
  <2> QED
    BY <2>1, <2>2
<1>3. Named \cap ReservedNames = {} <=> \A def \in Source : IsCore(def) => def.name \notin ReservedNames
  BY NamedAre
<1>4. ValidImports <=> \A def \in Source : def.category = "component" =>
                         \A n \in StringsAt(def, "imports") : n \notin ReservedNames /\ n \in Named
  <2>1. ASSUME ValidImports, NEW def \in Source, def.category = "component"
        PROVE  StringsAt(def, "imports") \subseteq Named \ ReservedNames
    <3>1. PICK i \in 1..Len(components) : components[i] = Shaped(MakeComponent(def))
      BY <2>1, MadeOfAll
    <3>2. components[i].imports \subseteq Named \ ReservedNames
      BY <2>1 DEF ValidImports
    <3> QED
      BY <3>1, <3>2, KeptOf
  <2>2. ASSUME NEW i \in 1..Len(components)
        PROVE  \E def \in Source : def.category = "component" /\ components[i].imports = StringsAt(def, "imports")
    BY MadeOfAll, KeptOf
  <2> QED
    BY <2>1, <2>2 DEF ValidImports
<1>5. \A n : n \in Named <=> \E d \in Source : d.name = n /\ SameName(d, d)
  BY NamedAre DEF SameName, IsCore
<1> QED
  BY <1>2, <1>3, <1>4, <1>5 DEF Dangling, IsCore

-----------------------------------------------------------------------------
(***************************************************************************)
(* A step that fails has met a reason; one that passes has excluded those  *)
(* of its kind.                                                            *)
(***************************************************************************)
\* Paths are claimed, then loaded, by one loader each, and those loaded were well formed.
LEMMA CheckedLoading ==
  ASSUME LoadInv, CheckedInv, ClaimPaths \/ LoadPath \/ NextLoader \/ LoadDone
  PROVE  CheckedInv'
<1>0. /\ input' = input /\ input \in Inputs
      /\ Len(input.loaders) \in Nat /\ Len(input.paths) \in Nat
      /\ loading \in (1..(Len(input.loaders) + 1)) \X (1..(Len(input.paths) + 1))
      /\ (Reason' <=> Reason) /\ \A p : ClaimedBy(p)' = ClaimedBy(p)
  BY InputFacts, SameReason DEF LoadInv, ClaimPaths, LoadPath, NextLoader, LoadDone, Fail
<1>1. \A i \in 1..Len(input.paths) : input.paths[i] \in Elements(input.paths)
  BY DEF Elements
<1>2. CASE phase' = "failed"
  <2>1. Unloadable
    <3>1. CASE ClaimPaths
      <4>1. PICK i \in 1..Len(input.paths) : Cardinality(ClaimedBy(input.paths[i])) # 1
        BY <1>2, <3>1 DEF ClaimPaths
      <4> QED
        BY <1>1, <4>1 DEF Unloadable
    <3>2. CASE LoadPath
      <4>1. loading[2] \in 1..Len(input.paths) /\ ~input.paths[loading[2]].wellFormed
        BY <1>0, <1>2, <3>2 DEF LoadPath
      <4> QED
        BY <1>1, <4>1 DEF Unloadable
    <3>3. CASE NextLoader \/ LoadDone
      BY <1>2, <3>3 DEF NextLoader, LoadDone
    <3> QED
      BY <3>1, <3>2, <3>3
  <2> QED
    BY <1>0, <1>2, <2>1 DEF CheckedInv, Reason
<1>3. CASE phase' # "failed"
  <2>1. /\ phase' \in {"load", "claims"}
        /\ phase' = "claims" => loading'[1] > Len(input.loaders)
    BY <1>0, <1>3 DEF ClaimPaths, LoadPath, NextLoader, LoadDone, Fail
  <2>2. \A i \in 1..Len(input.paths) : Cardinality(ClaimedBy(input.paths[i])) = 1
    BY <1>3 DEF ClaimPaths, LoadPath, NextLoader, LoadDone, Fail, CheckedInv
  <2>3. ASSUME NEW i \in 1..Len(input.paths), NEW l \in ClaimedBy(input.paths[i]), Past(l, i)'
        PROVE  input.paths[i].wellFormed
    <3>0. l \in 1..Len(input.loaders) /\ input.paths[i].kind \in input.loaders[l]
      BY DEF ClaimedBy
    <3>1. CASE ClaimPaths
      <4>1. loading' = <<1, 1>>
        BY <1>3, <3>1 DEF ClaimPaths, Fail, LoadInv
      <4> QED
        BY <1>0, <2>3, <3>0, <4>1 DEF Past
    <3>2. CASE LoadPath
      <4>1. /\ loading' = [loading EXCEPT ![2] = @ + 1] /\ phase = "load"
            /\ input.paths[loading[2]].kind \in input.loaders[loading[1]] => input.paths[loading[2]].wellFormed
        BY <1>3, <3>2 DEF LoadPath, Fail
      <4>2. loading'[1] = loading[1] /\ loading'[2] = loading[2] + 1 /\ loading[2] \in Nat
        BY <1>0, <4>1
      <4>3. Past(l, i) \/ (l = loading[1] /\ i = loading[2])
        BY <1>0, <2>3, <3>0, <4>2 DEF Past
      <4> QED
        BY <3>0, <4>1, <4>3 DEF CheckedInv
    <3>3. CASE NextLoader
      <4>1. loading' = <<loading[1] + 1, 1>> /\ loading[2] > Len(input.paths) /\ phase = "load"
        BY <3>3 DEF NextLoader
      <4>2. Past(l, i)
        BY <1>0, <2>3, <3>0, <4>1 DEF Past
      <4> QED
        BY <4>1, <4>2 DEF CheckedInv
    <3>4. CASE LoadDone
      <4>1. loading' = loading /\ phase = "load"
        BY <3>4 DEF LoadDone
      <4> QED
        BY <2>3, <4>1 DEF Past, CheckedInv
    <3> QED
      BY <3>1, <3>2, <3>3, <3>4
  <2> QED
    BY <1>0, <1>3, <2>1, <2>2, <2>3 DEF CheckedInv
<1> QED
  BY <1>2, <1>3

\* Every step checks what its phase is there for.
LEMMA CheckedInvStep ==
  ASSUME LoadInv, MadeInv, CheckedInv, TraceInv, [ConfigNext]_configVars
  PROVE  CheckedInv'
<1>0. /\ input' = input /\ input \in Inputs
      /\ (Reason' <=> Reason) /\ (Contested' <=> Contested) /\ (Unresolvable' <=> Unresolvable)
      /\ \A p : ClaimedBy(p)' = ClaimedBy(p)
  BY InputStays, SameReason DEF LoadInv
<1>1. CASE ClaimPaths \/ LoadPath \/ NextLoader \/ LoadDone
  BY <1>1, CheckedLoading
<1>2. CASE UNCHANGED configVars
  <2>1. /\ (ValidScopes' <=> ValidScopes) /\ (ValidNames' <=> ValidNames) /\ (ValidImports' <=> ValidImports)
    BY <1>2 DEF configVars, ValidScopes, ValidNames, ValidImports, Named, All
  <2> QED
    BY <1>0, <1>2, <2>1 DEF configVars, CheckedInv, Past
<1>3. ASSUME loading' = loading, phase \notin {"claim", "failed"}
      PROVE  \A i \in 1..Len(input.paths) :
               /\ Cardinality(ClaimedBy(input.paths[i])) = 1
               /\ \A l \in ClaimedBy(input.paths[i]) : Past(l, i)' => input.paths[i].wellFormed
  BY <1>3 DEF CheckedInv, Past
<1>4. CASE CheckClaims
  <2>1. /\ loading' = loading /\ phase = "claims"
        /\ \/ phase' = "failed" /\ Contested
           \/ phase' = "dispatch" /\ ~Contested
    BY <1>0, <1>4, ContestedSeen DEF CheckClaims, Fail
  <2> QED
    BY <1>0, <1>3, <2>1 DEF CheckedInv, Reason
<1>5. CASE DispatchDefinition
  <2>1. /\ loading' = loading /\ phase = "dispatch" /\ ~Contested
        /\ \/ phase' = "failed" /\ ~Accepted(Head(definitions))
           \/ phase' = "dispatch"
    BY <1>5 DEF DispatchDefinition, Fail, CheckedInv
  <2>2. Head(definitions) \in Source
    BY <1>5, ElementsOfTail DEF DispatchDefinition, LoadInv
  <2>3. phase' = "failed" => \E def \in Source : Unreadable(def)
    BY <1>0, <2>1, <2>2, AcceptedIsReadable
  <2> QED
    BY <1>0, <1>3, <2>1, <2>3 DEF CheckedInv, Reason
<1>6. CASE DispatchDone
  <2>1. loading' = loading /\ phase = "dispatch" /\ phase' = "placeholders"
    BY <1>6 DEF DispatchDone
  <2> QED
    BY <1>0, <1>3, <2>1 DEF CheckedInv
<1>7. CASE ResolvePlaceholders
  <2>1. /\ loading' = loading /\ phase = "placeholders"
        /\ \/ phase' = "failed" /\ ~(CanResolveAll(components) /\ CanResolveAll(capabilities))
           \/ phase' = "validate" /\ CanResolveAll(components) /\ CanResolveAll(capabilities)
    BY <1>7 DEF ResolvePlaceholders, Fail, CanResolveAll
  <2>2. phase' = "failed" <=> Unresolvable
    BY <2>1, UnresolvableSeen
  <2> QED
    BY <1>0, <1>3, <2>1, <2>2 DEF CheckedInv, Reason
<1>8. CASE Validate
  <2>1. /\ UNCHANGED <<loading, components, capabilities>> /\ phase = "validate"
        /\ \/ phase' = "failed" /\ ~(ValidScopes /\ ValidNames /\ ValidImports)
           \/ phase' = "ready" /\ ValidScopes /\ ValidNames /\ ValidImports
    BY <1>8 DEF Validate, Fail
  <2>2. /\ (ValidScopes' <=> ValidScopes) /\ (ValidNames' <=> ValidNames) /\ (ValidImports' <=> ValidImports)
    BY <2>1 DEF ValidScopes, ValidNames, ValidImports, Named, All
  <2>3. phase' = "failed" => Ambiguous \/ Dangling
    BY <2>1, AmbiguousSeen, DanglingSeen DEF ValidNames
  <2> QED
    BY <1>0, <1>3, <2>1, <2>2, <2>3 DEF CheckedInv, Reason
<1> QED
  BY <1>1, <1>2, <1>4, <1>5, <1>6, <1>7, <1>8 DEF ConfigNext

\* process() stops at the first error in an order that depends on paths, loaders, handlers
\* and hash maps, but it refuses exactly when the input is at fault (processor.rs:103).
THEOREM RefusedForAReasonHolds == ConfigSpec => []RefusedForAReason
<1> DEFINE IInv == LoadInv /\ DispatchInv /\ MadeInv /\ CheckedInv /\ TraceInv
<1>1. ConfigInit => IInv
  BY ConfigInvInit, MadeInvInit, TraceInvInit
<1>2. IInv /\ [ConfigNext]_configVars => IInv'
  BY LoadInvStep, DispatchInvStep, MadeInvStep, CheckedInvStep, TraceInvStep
<1>3. IInv => RefusedForAReason
  <2> SUFFICES ASSUME IInv, phase = "ready", Reason PROVE FALSE
    BY DEF RefusedForAReason, CheckedInv, Reason
  <2>1. input \in Inputs /\ ~Contested /\ ~Unresolvable /\ definitions = <<>>
    BY DEF LoadInv, CheckedInv
  <2>2. ~Unloadable
    <3> SUFFICES ASSUME NEW i \in 1..Len(input.paths)
                 PROVE  input.paths[i].wellFormed /\ Cardinality(ClaimedBy(input.paths[i])) = 1
      BY DEF Unloadable, Elements
    <3>1. Cardinality(ClaimedBy(input.paths[i])) = 1 /\ Len(input.loaders) \in Nat
      <4>1. Len(input.loaders) \in Nat
        BY <2>1, InputFacts
      <4> QED
        BY <4>1 DEF CheckedInv
    <3>2. PICK l \in ClaimedBy(input.paths[i]) : TRUE
      <4>0. Cardinality(ClaimedBy(input.paths[i])) # 0
        BY <3>1
      <4>1. ClaimedBy(input.paths[i]) # {}
        BY <4>0, FS_EmptySet
      <4> QED
        BY <4>1
    <3>3. l < loading[1]
      <4>1. l \in 1..Len(input.loaders)
        BY <3>2 DEF ClaimedBy
      <4>2. loading[1] > Len(input.loaders) /\ loading[1] \in Nat
        BY <3>1 DEF LoadInv, CheckedInv
      <4> QED
        BY <3>1, <4>1, <4>2
    <3> QED
      BY <3>1, <3>2, <3>3 DEF CheckedInv, Past
  <2>3. ASSUME NEW def \in Source PROVE ~Unreadable(def)
    <3>1. Dealt(def)
      BY <2>1 DEF DispatchInv, Elements
    <3> QED
      BY <2>1, <3>1, AcceptedIsReadable DEF Dealt
  <2>4. ValidScopes /\ ValidNames /\ ValidImports
    BY DEF CheckedInv
  <2>5. ~Ambiguous /\ ~Dangling
    BY <2>4, AmbiguousSeen, DanglingSeen DEF ValidNames
  <2> QED
    BY <2>1, <2>2, <2>3, <2>5 DEF Reason
<1> QED
  BY <1>1, <1>2, <1>3, PTL DEF ConfigSpec

=============================================================================
