----------------------------- MODULE Registries -----------------------------
(***************************************************************************)
(* The registries (src/src/composition/registry.rs), built from the graph: *)
(* the capabilities are created, then each component is composed with what *)
(* it depends on, in an order in which what it depends on comes first, and *)
(* refused when an import of it is left that no capability satisfies.      *)
(*                                                                         *)
(* Of a component's bytes the model keeps what they import (wasm).  The    *)
(* registry keeps a list of imports of its own (imports) for its checks.   *)
(***************************************************************************)
EXTENDS ComponentGraph, FiniteSets

CONSTANTS
  Interfaces,        \* records of a name and the parts of a version
  AdviceInterface,   \* the interface that advice components export
  ConfigStore,       \* the interface that is answered by the configuration
  Kinds,             \* the types of capabilities: <<"custom", name>>, or <<base, version>>
                     \* of "wasi:base-version", with "" for no version
  Factories,         \* what the custom capabilities registered by name provide
  None

\* What a configuration says besides the graph: which components have a scope
\* (validate_scopes leaves capabilities none), the type of each capability, and what
\* each component imports and exports.
ASSUME RegistryAssumption ==
  /\ AdviceInterface \in Interfaces
  /\ ConfigStore \in Interfaces
  /\ \A name \in DOMAIN Factories : Factories[name] \subseteq Interfaces
  /\ \A cfg \in Configurations :
       /\ cfg.scoped \subseteq Components
       /\ cfg.kind \in [Capabilities -> Kinds]
       /\ cfg.needs \in [Components -> SUBSET Interfaces]
       /\ cfg.gives \in [Components -> SUBSET Interfaces]

VARIABLES
  built,   \* the specs of the components composed so far, by name
  draft    \* the component being composed, or None

registryVars == <<graphVars, built, draft>>

Preds(x)        == {y \in Nodes : <<y, x>> \in DOMAIN edges}
ComponentNode   == {x \in Nodes : template[x] \in Components}
NameOf(x)       == CHOOSE n \in DOMAIN nodeMap : nodeMap[n] = x

-----------------------------------------------------------------------------
(* The interfaces of the WASI capabilities.                                *)

Io == {"io/error", "io/poll", "io/streams"}

P2 ==
  [cli        |-> {"cli/stdin", "cli/stdout", "cli/stderr", "cli/environment"},
   clocks     |-> {"clocks/monotonic-clock", "clocks/wall-clock"},
   filesystem |-> {"filesystem/preopens", "filesystem/types"} \cup Io,
   http       |-> {"http/outgoing-handler", "http/types"} \cup Io,
   io         |-> Io,
   random     |-> {"random/random", "random/insecure", "random/insecure-seed"},
   sockets    |-> {"sockets/tcp", "sockets/udp", "sockets/network", "sockets/instance-network",
                   "sockets/ip-name-lookup", "sockets/tcp-create-socket", "sockets/udp-create-socket"}]

Terminal ==
  {"cli/exit", "cli/terminal-input", "cli/terminal-output", "cli/terminal-stdin",
   "cli/terminal-stdout", "cli/terminal-stderr"}

P3 ==
  [cli        |-> P2.cli \cup Terminal \cup {"cli/types"},
   clocks     |-> {"clocks/monotonic-clock", "clocks/system-clock", "clocks/timezone", "clocks/types"},
   filesystem |-> {"filesystem/preopens", "filesystem/types"},
   http       |-> {"http/client", "http/types"},
   random     |-> P2.random,
   sockets    |-> {"sockets/types", "sockets/ip-name-lookup"}]

\* "wasi:p2" is all of P2 but http, and the terminal.
Bundle == UNION {P2[base] : base \in DOMAIN P2 \ {"http"}} \cup Terminal

\* split_wasi_kind: the latest version where none is named.
VersionOf(kind) == IF kind[2] = "" THEN "p3" ELSE kind[2]

At(names, version) == {[name |-> n, version |-> version] : n \in names}

InterfacesForKind ==
  [kind \in Kinds |->
     CASE kind[1] = "custom" /\ kind[2] \in DOMAIN Factories -> Factories[kind[2]]
       [] kind = <<"p2", "">> -> At(Bundle, <<0, 2, 12>>)
       [] VersionOf(kind) = "p2" /\ kind[1] \in DOMAIN P2 -> At(P2[kind[1]], <<0, 2, 12>>)
       [] VersionOf(kind) = "p3" /\ kind[1] \in DOMAIN P3 -> At(P3[kind[1]], <<0, 3, 0>>)
       [] OTHER -> {}]

KindOf(k)       == config.kind[k]
InterfacesOf(k) == InterfacesForKind[KindOf(k)]
Custom(k)       == KindOf(k)[1] = "custom"

\* A WASI type without interfaces, or a name that nothing is registered for.
Unknown ==
  {k \in Capabilities : IF Custom(k) THEN KindOf(k)[2] \notin DOMAIN Factories ELSE InterfacesOf(k) = {}}

-----------------------------------------------------------------------------

\* The same interface, or one of the same major and minor version with at least
\* the patch; versions of other parts match only themselves.
Satisfies(available, import) ==
  \/ available = import
  \/ /\ available.name = import.name
     /\ Len(available.version) = 3 /\ Len(import.version) = 3
     /\ \A i \in 1..2 : available.version[i] = import.version[i]
     /\ available.version[3] >= import.version[3]

IsImportSatisfied(import, capabilities) ==
  \E k \in capabilities : \E available \in InterfacesOf(k) : Satisfies(available, import)

RegistryInit ==
  /\ GraphInit
  /\ built = <<>>
  /\ draft = None

BuildGraph == GraphNext /\ UNCHANGED <<built, draft>>

\* The factory of a custom capability may refuse its configuration.
CreateCapabilities ==
  /\ stage = "built"
  /\ stage' \in IF Unknown # {} THEN {"unknown"}
                ELSE {"compose"} \cup {"refused" : k \in {k \in Capabilities : Custom(k)}}
  /\ UNCHANGED <<config, nodeMap, template, edges, built, draft>>

\* Any order of the nodes that toposort() may return.
BeginComponent(x) ==
  /\ stage = "compose"
  /\ draft = None
  /\ NameOf(x) \notin DOMAIN built
  /\ \A y \in Preds(x) \cap ComponentNode : NameOf(y) \in DOMAIN built
  /\ LET needs == config.needs[template[x]] \ {ConfigStore}
     IN draft' = [node |-> x, pending |-> Preds(x), imports |-> needs, wasm |-> needs,
                  exports |-> config.gives[template[x]], capabilities |-> {}]
  /\ UNCHANGED <<graphVars, built>>

\* The next dependency: those last added to the graph come first, so that the
\* edge of the chain, which was there before the imports, is the last one.
NextIs(y) ==
  /\ draft # None
  /\ y \in draft.pending
  /\ edges[<<y, draft.node>>] = "interceptor" => draft.pending = {y}

\* Mutant: what a dependency is linked with is not passed on.
Composed_Direct(y, imports, wasm, exports) ==
  draft' = [draft EXCEPT !.pending = @ \ {y}, !.imports = imports, !.wasm = wasm, !.exports = exports]

Composed(y, imports, wasm, exports) ==
  draft' = [draft EXCEPT !.pending = @ \ {y}, !.imports = imports, !.wasm = wasm,
                         !.exports = exports, !.capabilities = @ \cup built[NameOf(y)].capabilities]

LinkCapability(y) ==
  /\ NextIs(y)
  /\ y \notin ComponentNode
  /\ draft' = [draft EXCEPT !.pending = @ \ {y}, !.capabilities = @ \cup {y[1]}]
  /\ UNCHANGED <<graphVars, built>>

Importable(y) == template[y] \notin config.scoped

\* compose_components: what the plug exports is no longer imported, and what the
\* plug imports is imported by the result.  It fails when nothing fits.
Plug(imported, spec) == (imported \ spec.exports) \cup spec.wasm
Fits(imported, spec) == imported \cap spec.exports # {}

IsAdvice(y) ==
  edges[<<y, draft.node>>] = "interceptor" /\ AdviceInterface \in draft.exports

ComposeDependency(y) ==
  /\ NextIs(y)
  /\ y \in ComponentNode
  /\ Importable(y)
  /\ ~IsAdvice(y)
  /\ Fits(draft.wasm, built[NameOf(y)])
  /\ LET spec == built[NameOf(y)]
     IN Composed(y, draft.imports \ spec.exports, Plug(draft.wasm, spec), draft.exports)
  /\ UNCHANGED <<graphVars, built>>

\* The generated wrapper exports what the target does, and imports that and the
\* advice: it is plugged with the advice, then with the target.
Wrapped(spec) ==
  Plug(Plug(spec.exports \cup {AdviceInterface}, draft), spec)

\* Mutant: the result is registered with the exports of the advice.
ComposeAdvice_OwnExports(y) ==
  /\ NextIs(y)
  /\ y \in ComponentNode
  /\ Importable(y)
  /\ IsAdvice(y)
  /\ built[NameOf(y)].exports # {}
  /\ LET spec == built[NameOf(y)]
     IN Composed(y, spec.imports \ spec.exports, Wrapped(spec), draft.exports)
  /\ UNCHANGED <<graphVars, built>>

ComposeAdvice(y) ==
  /\ NextIs(y)
  /\ y \in ComponentNode
  /\ Importable(y)
  /\ IsAdvice(y)
  /\ built[NameOf(y)].exports # {}
  /\ LET spec == built[NameOf(y)]
     IN Composed(y, spec.imports \ spec.exports, Wrapped(spec), spec.exports)
  /\ UNCHANGED <<graphVars, built>>

Unsatisfied == {i \in draft.imports : ~IsImportSatisfied(i, draft.capabilities)}

\* Mutant: an import is satisfied by any capability of the configuration.
FinishComponent_AnyCapability ==
  /\ draft # None
  /\ draft.pending = {}
  /\ {i \in draft.imports : ~IsImportSatisfied(i, Capabilities)} = {}
  /\ built' = [n \in DOMAIN built \cup {NameOf(draft.node)} |->
                 IF n = NameOf(draft.node)
                 THEN [imports |-> draft.imports, wasm |-> draft.wasm, exports |-> draft.exports,
                       capabilities |-> draft.capabilities, dependents |-> {}]
                 ELSE built[n]]
  /\ draft' = None
  /\ UNCHANGED graphVars

FinishComponent ==
  /\ draft # None
  /\ draft.pending = {}
  /\ Unsatisfied = {}
  /\ built' = [n \in DOMAIN built \cup {NameOf(draft.node)} |->
                 IF n = NameOf(draft.node)
                 THEN [imports |-> draft.imports, wasm |-> draft.wasm, exports |-> draft.exports,
                       capabilities |-> draft.capabilities, dependents |-> {}]
                 ELSE built[n]]
  /\ draft' = None
  /\ UNCHANGED graphVars

\* The first error ends the construction.  Reading, parsing and composing may
\* fail, the last when nothing fits.
ComposeFails ==
  /\ stage = "compose"
  /\ \/ /\ \E y \in ComponentNode : NextIs(y) /\ ~Importable(y)
        /\ stage' = "scope"
     \/ /\ draft # None /\ draft.pending = {} /\ Unsatisfied # {}
        /\ stage' = "unsatisfied"
     \/ stage' = "failed"
  /\ UNCHANGED <<config, nodeMap, template, edges, built, draft>>

AddDependents ==
  /\ stage = "compose"
  /\ draft = None
  /\ \A x \in ComponentNode : NameOf(x) \in DOMAIN built
  /\ stage' = "done"
  /\ built' = [n \in DOMAIN built |->
       [built[n] EXCEPT !.dependents =
          {NameOf(e[2]) : e \in {d \in DOMAIN edges : d[1] = nodeMap[n] /\ edges[d] = "dependency"}}]]
  /\ UNCHANGED <<config, nodeMap, template, edges, draft>>

Compose ==
  \/ CreateCapabilities
  \/ \E x \in ComponentNode : BeginComponent(x)
  \/ /\ stage = "compose"
     /\ \/ \E y \in Nodes : LinkCapability(y) \/ ComposeDependency(y) \/ ComposeAdvice(y)
        \/ FinishComponent
  \/ ComposeFails
  \/ AddDependents

RegistryNext == BuildGraph \/ Compose

-----------------------------------------------------------------------------
(***************************************************************************)
(* Properties                                                              *)
(***************************************************************************)
\* What the registry offers: get_component hides the reserved names.
Public == DOMAIN built \cap Components

\* The capabilities a component is linked with are those of the components and
\* capabilities it depends on, directly or not, and no others.
Upstream(x) == {S \in SUBSET Nodes : x \in S /\ \A y \in S : Preds(y) \subseteq S}
Below(x)    == {y \in Nodes : \A S \in Upstream(x) : y \in S}

Reached(n) == {k \in Capabilities : <<k, 0>> \in Below(nodeMap[n])}

LinkedWithWhatItReaches ==
  \A n \in DOMAIN built :
    built[n].capabilities = Reached(n)

\* A component that is intercepted by advice only looks to its importers and to
\* the outside as if it were not: it exports the same.
AdviceIsTransparent ==
  \A c \in Public :
    (\A i \in Elements(Chain(c)) : AdviceInterface \in config.gives[i])
      => built[c].exports = config.gives[c]

=============================================================================
