---------------------------- MODULE Configuration ----------------------------
(***************************************************************************)
(* From files to definitions (src/src/config/): ConfigProcessor::process   *)
(* gives every path to a loader, collects the loaders' definitions, gives  *)
(* every definition to the handler that owns it and to those that claimed  *)
(* some of its properties, resolves placeholders, and validates what the   *)
(* component and capability handlers made.  Loading is one action per path *)
(* and loader, dispatch one per definition, every other loop one action:   *)
(* nothing runs beside it.                                                 *)
(*                                                                         *)
(* The properties of a definition are kept flat: a function from key paths *)
(* (<<"config", "port">>) to leaves <<kind, content>>, of the kinds        *)
(* string, placeholder (a string "${...}", as <<pattern, key, default>>),  *)
(* number, bool, null, array (of leaves) and table (an empty one).         *)
(***************************************************************************)
EXTENDS Integers, Sequences, FiniteSets

CONSTANTS
  Inputs,         \* what process() is called with: see ConfigInit
  Environment,    \* the environment variables that are set
  ReservedNames,  \* the names that start with "_" or contain "$"
  None

Elements(s) == {s[i] : i \in 1..Len(s)}
IsList(s)   == s \in Seq(Elements(s))

\* Lists are lists, also as values of properties; a handler claims finitely many
\* categories, and properties of a category.
ASSUME ConfigAssumption ==
  \A x \in Inputs :
    /\ IsList(x.loaders) /\ IsList(x.paths) /\ IsList(x.handlers)
    /\ \A h \in Elements(x.handlers) :
         /\ IsFiniteSet(h.claims)
         /\ \A cp \in h.claimed : cp = <<cp[1], cp[2]>>
    /\ \A p \in Elements(x.paths) :
         /\ IsList(p.tables)
         /\ \A def \in Elements(p.tables) : \A key \in DOMAIN def.properties :
              def.properties[key][1] = "array" => IsList(def.properties[key][2])

VARIABLES
  input,          \* loaders, paths and registered handlers
  phase,          \* how far process() has come, or how it ended
  loading,        \* the loader that loads, and the path that it is at
  definitions,    \* the generic definitions not yet dispatched
  given,          \* <<handler, definition, property>>: what was handed to whom
  components,     \* what the component handler has made
  capabilities    \* what the capability handler has made

configVars == <<input, phase, loading, definitions, given, components, capabilities>>

Fail == phase' = "failed" /\ UNCHANGED <<input, loading, definitions, given, components, capabilities>>

-----------------------------------------------------------------------------
(* Loaders: a loader is the set of the kinds of paths that it claims.       *)

\* A .wasm file or an OCI reference (whose version must not be missing) is a
\* component that is only a uri.
WasmDefinition(p) ==
  [category |-> "component", name |-> p.name,
   properties |-> [key \in {<<"uri">>} |-> <<"string", p.name>>]]

\* What a loader makes of a path it has claimed: a table of a TOML file is a definition.
Load(p) == IF p.kind = "toml" THEN p.tables ELSE <<WasmDefinition(p)>>

ClaimedBy(p) == {l \in 1..Len(input.loaders) : p.kind \in input.loaders[l]}

ConfigInit ==
  /\ input \in Inputs
  /\ phase = "claim"
  /\ loading = <<1, 1>>
  /\ definitions = <<>>
  /\ given = {}
  /\ components = <<>>
  /\ capabilities = <<>>

\* Every path must have one loader.
ClaimPaths ==
  /\ phase = "claim"
  /\ IF \A i \in 1..Len(input.paths) : Cardinality(ClaimedBy(input.paths[i])) = 1
     THEN phase' = "load" /\ UNCHANGED <<input, loading, definitions, given, components, capabilities>>
     ELSE Fail

\* The loaders load the paths they claimed, one loader after the other, each in the
\* order of the paths; the first error ends it.
LoadPath ==
  /\ phase = "load"
  /\ loading[1] <= Len(input.loaders) /\ loading[2] <= Len(input.paths)
  /\ LET p     == input.paths[loading[2]]
         Owned == p.kind \in input.loaders[loading[1]]
     IN IF Owned /\ ~p.wellFormed THEN Fail
        ELSE /\ definitions' = IF Owned THEN definitions \o Load(p) ELSE definitions
             /\ loading' = [loading EXCEPT ![2] = @ + 1]
             /\ UNCHANGED <<input, phase, given, components, capabilities>>

NextLoader ==
  /\ phase = "load"
  /\ loading[1] <= Len(input.loaders) /\ loading[2] > Len(input.paths)
  /\ loading' = <<loading[1] + 1, 1>>
  /\ UNCHANGED <<input, phase, definitions, given, components, capabilities>>

LoadDone ==
  /\ phase = "load"
  /\ loading[1] > Len(input.loaders)
  /\ phase' = "claims"
  /\ UNCHANGED <<input, loading, definitions, given, components, capabilities>>

-----------------------------------------------------------------------------
(* Handlers: the categories a handler claims, each with the conditions of   *)
(* its selector (none: all definitions); the properties it claims; the type *)
(* it takes each for, and those it requires, in its own category; the       *)
(* categories in which it accepts what nobody claims.                       *)

ComponentHandler ==
  [claims   |-> {[category |-> "component", selector |-> {}]},
   claimed  |-> {"component"} \X {"uri", "scope", "imports", "interceptors", "config", "labels"},
   type     |-> [uri |-> "string", scope |-> "string", imports |-> "strings",
                 interceptors |-> "strings", config |-> "object", labels |-> "labels"],
   required |-> {"uri"},
   lax      |-> {}]

CapabilityHandler ==
  [claims   |-> {[category |-> "capability", selector |-> {}]},
   claimed  |-> {"capability"} \X {"type", "scope"},
   type     |-> [type |-> "string", scope |-> "string"],
   required |-> {"type"},
   lax      |-> {"capability"}]

MessagingHandler ==
  LET Strings == {"channel", "component", "function"}
      Objects == {"param-mapping", "param-encoding", "result-decoding"}
      All     == Strings \cup Objects \cup {"result-mapping"}
  IN [claims   |-> {[category |-> "subscription", selector |-> {}]},
      claimed  |-> {"subscription"} \X All,
      type     |-> [p \in All |-> IF p \in Strings THEN "string"
                                  ELSE IF p \in Objects THEN "object" ELSE "any"],
      required |-> {"component"},
      lax      |-> {}]

\* The core handlers come first.
Handlers == <<ComponentHandler, CapabilityHandler>> \o input.handlers
Indices  == 1..Len(Handlers)

Claims(category) ==
  {c \in UNION {{h} \X Handlers[h].claims : h \in Indices} : c[2].category = category}
Claimers(category, p) == {h \in Indices : <<category, p>> \in Handlers[h].claimed}
Categories            == UNION {{c.category : c \in Handlers[h].claims} : h \in Indices}
ClaimedProperties     == UNION {Handlers[h].claimed : h \in Indices}

\* A claim without a selector must be the only one of its category.
ClaimsAreExclusive ==
  \A category \in Categories : \A c, d \in Claims(category) : c # d => c[2].selector # {}

\* Mutant: the last handler to claim a property has it.
CheckClaims_Last ==
  /\ phase = "claims"
  /\ IF ClaimsAreExclusive
     THEN phase' = "dispatch" /\ UNCHANGED <<input, loading, definitions, given, components, capabilities>>
     ELSE Fail

\* Every property has at most one claimer.
CheckClaims ==
  /\ phase = "claims"
  /\ IF /\ ClaimsAreExclusive
        /\ \A cp \in ClaimedProperties : Cardinality(Claimers(cp[1], cp[2])) = 1
     THEN phase' = "dispatch" /\ UNCHANGED <<input, loading, definitions, given, components, capabilities>>
     ELSE Fail

-----------------------------------------------------------------------------
(* Selectors.  A condition is [key, op, texts]: "texts" are the values that *)
(* satisfy it (the one of "=", those of "in (...)", those that hold the     *)
(* needle of "contains"), or that do not for the negated operators.         *)

\* flatten_for_selector: tables have no entry, arrays and null one without a text.
HasEntry(def, key) == key \in DOMAIN def.properties /\ def.properties[key][1] # "table"
Text(leaf)         == IF leaf[1] = "placeholder" THEN "${" ELSE leaf[2]
HasText(def, key)  == HasEntry(def, key) /\ def.properties[key][1] \notin {"array", "null"}

Satisfies(cond, def) ==
  CASE cond.op = "exists"       -> HasEntry(def, cond.key)
    [] cond.op = "doesNotExist" -> ~HasEntry(def, cond.key)
    [] cond.op = "in"           -> /\ HasText(def, cond.key)
                                   /\ Text(def.properties[cond.key]) \in cond.texts
    [] cond.op = "notIn"        -> /\ HasText(def, cond.key)
                                   /\ Text(def.properties[cond.key]) \notin cond.texts

\* The claims whose selector a definition satisfies; owner, if there is one.
Matches(def) == {c \in Claims(def.category) : \A cond \in c[2].selector : Satisfies(cond, def)}
OwnerOf(def) == (CHOOSE c \in Matches(def) : TRUE)[1]

-----------------------------------------------------------------------------
(* Dispatch.                                                               *)

PropertiesOf(def) == {key[1] : key \in DOMAIN def.properties}
Part(def, p)      == [key \in {k \in DOMAIN def.properties : k[1] = p} |-> def.properties[key]]

IsString(leaf) == leaf[1] \in {"string", "placeholder"}
IsLeaf(def, p) == <<p>> \in DOMAIN def.properties /\ def.properties[<<p>>][1] # "table"

HasType(def, p, type) ==
  CASE type = "string"  -> IsLeaf(def, p) /\ IsString(def.properties[<<p>>])
    [] type = "strings" -> /\ IsLeaf(def, p) /\ def.properties[<<p>>][1] = "array"
                           /\ \A i \in 1..Len(def.properties[<<p>>][2]) :
                                IsString(def.properties[<<p>>][2][i])
    [] type = "number"  -> IsLeaf(def, p) /\ def.properties[<<p>>][1] = "number"
    [] type = "object"  -> ~IsLeaf(def, p)
    [] type = "labels"  -> /\ ~IsLeaf(def, p)
                           /\ \A key \in DOMAIN Part(def, p) :
                                \/ def.properties[key][1] = "table" /\ Len(key) = 1
                                \/ Len(key) = 2 /\ HasText(def, key)
    [] type = "any"     -> TRUE

\* split_properties: the handler a property is given to.
ReaderOf(def, p) ==
  LET claimers == Claimers(def.category, p)
  IN IF claimers = {} THEN OwnerOf(def) ELSE CHOOSE h \in claimers : TRUE

\* The properties that the owner is left with.
Core(def) == {p \in PropertiesOf(def) : ReaderOf(def, p) = OwnerOf(def)}

\* There is one owner, which takes unclaimed properties if there are any, and
\* every property it is left with has the type it expects.
Accepted(def) ==
  /\ Cardinality(Matches(def)) = 1
  /\ LET owner == Handlers[OwnerOf(def)]
     IN /\ \/ def.category \in owner.lax
           \/ \A p \in PropertiesOf(def) : Claimers(def.category, p) # {}
        /\ owner.required \subseteq Core(def)
        /\ \A p \in Core(def) \cap DOMAIN owner.type : HasType(def, p, owner.type[p])

StringsAt(def, p) ==
  IF p \in PropertiesOf(def) THEN {def.properties[<<p>>][2][i][2] : i \in 1..Len(def.properties[<<p>>][2])}
  ELSE {}
ScopeOf(def) == IF "scope" \in PropertiesOf(def) THEN Text(def.properties[<<"scope">>]) ELSE "any"

MakeComponent(def) ==
  [name |-> def.name, scope |-> ScopeOf(def), imports |-> StringsAt(def, "imports"),
   interceptors |-> StringsAt(def, "interceptors"), config |-> Part(def, "config")]
MakeCapability(def) ==
  [name |-> def.name, scope |-> ScopeOf(def),
   config |-> [key \in {k \in DOMAIN def.properties : k[1] \in Core(def) \ {"type", "scope"}} |->
                 def.properties[key]]]

\* Mutant: the owner is given its own properties only, nobody the others.
DispatchDefinition_OwnerOnly ==
  /\ phase = "dispatch" /\ definitions # <<>>
  /\ LET def == Head(definitions)
     IN IF Accepted(def)
        THEN /\ definitions' = Tail(definitions)
             /\ given' = given \cup {<<OwnerOf(def), def, p>> : p \in Core(def)}
             /\ components' = IF OwnerOf(def) = 1 THEN Append(components, MakeComponent(def)) ELSE components
             /\ capabilities' = IF OwnerOf(def) = 2 THEN Append(capabilities, MakeCapability(def)) ELSE capabilities
             /\ UNCHANGED <<input, loading, phase>>
        ELSE Fail

DispatchDefinition ==
  /\ phase = "dispatch" /\ definitions # <<>>
  /\ LET def == Head(definitions)
     IN IF Accepted(def)
        THEN /\ definitions' = Tail(definitions)
             /\ given' = given \cup {<<ReaderOf(def, p), def, p>> : p \in PropertiesOf(def)}
             /\ components' = IF OwnerOf(def) = 1 THEN Append(components, MakeComponent(def)) ELSE components
             /\ capabilities' = IF OwnerOf(def) = 2 THEN Append(capabilities, MakeCapability(def)) ELSE capabilities
             /\ UNCHANGED <<input, loading, phase>>
        ELSE Fail

DispatchDone ==
  /\ phase = "dispatch" /\ definitions = <<>>
  /\ phase' = "placeholders"
  /\ UNCHANGED <<input, loading, definitions, given, components, capabilities>>

-----------------------------------------------------------------------------
(* Placeholders, in the configuration of components and capabilities.       *)

CanResolve(leaf) ==
  CASE leaf[1] = "placeholder" -> /\ leaf[2][1] = "process:env"
                                  /\ leaf[2][2] \in DOMAIN Environment \/ leaf[2][3] # None
    [] leaf[1] = "array"       -> \A i \in 1..Len(leaf[2]) :
                                    leaf[2][i][1] = "placeholder" =>
                                      /\ leaf[2][i][2][1] = "process:env"
                                      /\ leaf[2][i][2][2] \in DOMAIN Environment \/ leaf[2][i][2][3] # None
    [] OTHER                   -> TRUE

ResolveText(ph) == IF ph[2] \in DOMAIN Environment THEN Environment[ph[2]] ELSE ph[3]
Resolve(leaf) ==
  LET One(x) == IF x[1] = "placeholder" THEN <<"string", ResolveText(x[2])>> ELSE x
  IN IF leaf[1] = "array" THEN <<"array", [i \in 1..Len(leaf[2]) |-> One(leaf[2][i])]>> ELSE One(leaf)
ResolveIn(def) == [def EXCEPT !.config = [key \in DOMAIN @ |-> Resolve(@[key])]]

ResolvePlaceholders ==
  /\ phase = "placeholders"
  /\ LET Resolvable(defs) == \A i \in 1..Len(defs) : \A key \in DOMAIN defs[i].config : CanResolve(defs[i].config[key])
     IN IF Resolvable(components) /\ Resolvable(capabilities)
        THEN /\ components'   = [i \in 1..Len(components) |-> ResolveIn(components[i])]
             /\ capabilities' = [i \in 1..Len(capabilities) |-> ResolveIn(capabilities[i])]
             /\ phase' = "validate"
             /\ UNCHANGED <<input, loading, definitions, given>>
        ELSE Fail

-----------------------------------------------------------------------------
(* Validation across definitions.                                          *)

Scopes == {"any", "package", "namespace"}
All    == capabilities \o components
Named  == {All[i].name : i \in 1..Len(All)}

ValidScopes ==
  /\ \A i \in 1..Len(capabilities) : capabilities[i].scope = "any"
  /\ \A i \in 1..Len(components) : components[i].scope \in Scopes

\* Mutant: capabilities and components have names of their own.
ValidNames_PerCategory ==
  /\ Named \cap ReservedNames = {}
  /\ \A i, j \in 1..Len(components) : components[i].name = components[j].name => i = j
  /\ \A i, j \in 1..Len(capabilities) : capabilities[i].name = capabilities[j].name => i = j

ValidNames ==
  /\ Named \cap ReservedNames = {}
  /\ \A i, j \in 1..Len(All) : All[i].name = All[j].name => i = j

ValidImports ==
  \A i \in 1..Len(components) : components[i].imports \subseteq Named \ ReservedNames

Validate ==
  /\ phase = "validate"
  /\ IF ValidScopes /\ ValidNames /\ ValidImports
     THEN phase' = "ready" /\ UNCHANGED <<input, loading, definitions, given, components, capabilities>>
     ELSE Fail

ConfigNext ==
  \/ ClaimPaths \/ LoadPath \/ NextLoader \/ LoadDone \/ CheckClaims \/ DispatchDefinition \/ DispatchDone
  \/ ResolvePlaceholders \/ Validate

ConfigSpec == ConfigInit /\ [][ConfigNext]_configVars

-----------------------------------------------------------------------------
(* Properties.                                                             *)

\* The definitions of the input, and their places in it.
Source == UNION {Elements(Load(p)) : p \in Elements(input.paths)}
Places == UNION {{i} \X (1..Len(Load(input.paths[i]))) : i \in 1..Len(input.paths)}
DefAt(place) == Load(input.paths[place[1]])[place[2]]

\* Dispatch (processor.rs:103): in an accepted configuration every property of
\* every definition, wherever it was loaded, was handed to one handler: to the
\* one that claims it, or, when none does, to an owner that takes such properties.
HandedToItsReader ==
  phase = "ready" =>
    \A def \in Source : \A p \in PropertiesOf(def) :
      \E h \in Indices :
        /\ {g \in given : g[2] = def /\ g[3] = p} = {<<h, def, p>>}
        /\ \/ h \in Claimers(def.category, p)
           \/ /\ Claimers(def.category, p) = {}
              /\ \E c \in Matches(def) : c[1] = h
              /\ def.category \in Handlers[h].lax

\* process() stops at the first error it meets, in the order of paths, loaders,
\* handlers and hash maps; but whether it accepts depends on none of them: it
\* refuses exactly when the definitions, as a set, are ambiguous or unreadable.
Unloadable == \E p \in Elements(input.paths) : ~p.wellFormed \/ Cardinality(ClaimedBy(p)) # 1
Contested  ==
  \/ \E h, g \in Indices : h # g /\ Handlers[h].claimed \cap Handlers[g].claimed # {}
  \/ \E h, g \in Indices : \E c \in Handlers[h].claims, d \in Handlers[g].claims :
       <<h, c>> # <<g, d>> /\ c.category = d.category /\ c.selector = {}
Unreadable(def) ==
  \/ Cardinality(Matches(def)) # 1
  \/ \E p \in PropertiesOf(def) :
       Claimers(def.category, p) = {} /\ \A c \in Matches(def) : def.category \notin Handlers[c[1]].lax
  \/ \E c \in Matches(def) :
       LET owner == Handlers[c[1]]
           Left(p) == p \in PropertiesOf(def) /\ Claimers(def.category, p) \subseteq {c[1]}
       IN \/ \E p \in owner.required : ~Left(p)
          \/ \E p \in DOMAIN owner.type : Left(p) /\ ~HasType(def, p, owner.type[p])
Unresolvable ==
  \E def \in Source : \E key \in DOMAIN def.properties :
    /\ \/ def.category = "component" /\ key[1] = "config"
       \/ def.category = "capability" /\ Claimers("capability", key[1]) = {}
    /\ ~CanResolve(def.properties[key])
SameName(d, e) == d.name = e.name /\ {d.category, e.category} \subseteq {"component", "capability"}
Ambiguous ==
  \E x, y \in Places : x # y /\ SameName(DefAt(x), DefAt(y))
Dangling ==
  \E def \in Source :
    \/ def.category \in {"component", "capability"} /\ def.name \in ReservedNames
    \/ def.category = "capability" /\ ScopeOf(def) # "any"
    \/ def.category = "component" /\ ScopeOf(def) \notin Scopes
    \/ /\ def.category = "component"
       /\ \E n \in StringsAt(def, "imports") :
            n \in ReservedNames \/ ~\E d \in Source : d.name = n /\ SameName(d, d)
RefusedForAReason ==
  phase \in {"ready", "failed"} =>
    (phase = "failed") =
      \/ Unloadable
      \/ Contested
      \/ \E def \in Source : Unreadable(def)
      \/ Unresolvable \/ Ambiguous \/ Dangling

\* What ComponentGraph::build is given (its GraphAssumption): one definition per
\* loaded component or capability, no two of a name, no reserved name, imports that
\* are defined; and no placeholder that is still one.
BuildableWhenAccepted ==
  phase = "ready" =>
    /\ \A category \in {"component", "capability"} :
         LET made == IF category = "component" THEN components ELSE capabilities
         IN {def.name : def \in {d \in Source : d.category = category}} = {d.name : d \in Elements(made)}
    /\ Cardinality(Named) = Len(All) /\ Named \cap ReservedNames = {}
    /\ \A d \in Elements(components) : d.imports \subseteq Named
    /\ \A d \in Elements(All) : \A key \in DOMAIN d.config :
         /\ d.config[key][1] # "placeholder"
         /\ d.config[key][1] = "array" =>
              \A i \in 1..Len(d.config[key][2]) : d.config[key][2][i][1] # "placeholder"

=============================================================================
