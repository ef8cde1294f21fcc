--------------------------- MODULE ComponentGraph ---------------------------
(***************************************************************************)
(* The graph of components and capabilities                                *)
(* (src/src/composition/graph.rs): build() makes a node per definition,    *)
(* wraps each intercepted component in a chain of clones of its            *)
(* interceptors, of which the outermost takes over its name, adds the      *)
(* edges of the imports and rejects cycles.  Each loop of build() is one   *)
(* action: nothing runs beside it.                                         *)
(*                                                                         *)
(* A node is <<c, i>>: i = 0 is the definition's own node, i > 0 the clone *)
(* at place i of its chain, counted outward.  The names "_c$i" that are    *)
(* reserved for the inside of a chain are the pairs <<c, i>> too.          *)
(***************************************************************************)
EXTENDS Integers, Sequences

CONSTANTS
  Components,      \* the names of the component definitions
  Capabilities,    \* the names of the capability definitions
  Configurations   \* the configurations considered

Names    == Components \cup Capabilities
Reserved == Components \X Nat

\* What ConfigProcessor::process has validated: the names are distinct, none is
\* a reserved one, and every import is defined.  Interceptors are not checked.
ASSUME GraphAssumption ==
  /\ Components \cap Capabilities = {}
  /\ Names \cap Reserved = {}
  /\ \A cfg \in Configurations :
       /\ cfg.imports \in [Components -> SUBSET Names]
       /\ cfg.interceptors \in [Components -> Seq(Names)]

VARIABLES
  config,     \* the definitions
  stage,      \* how far build() has come, or how it ended
  nodeMap,    \* the node of each name
  template,   \* per node, the definition it holds (under a name of its own)
  edges       \* <<exporter, importer>> to the kind of the edge

graphVars == <<config, stage, nodeMap, template, edges>>

Elements(s)  == {s[i] : i \in 1..Len(s)}
Chain(c)     == config.interceptors[c]
Intercepted  == {c \in Components : Chain(c) # <<>>}
Nodes        == DOMAIN template
Clones       == UNION {{<<c, i>> : i \in 1..Len(Chain(c))} : c \in Intercepted}
Innards      == UNION {{<<c, i>> : i \in 0..(Len(Chain(c)) - 1)} : c \in Intercepted}

\* The components that are interceptors and that nobody imports.
TemplateOnly ==
  {n \in Components : /\ \E c \in Components : n \in Elements(Chain(c))
                      /\ \A c \in Components : n \notin config.imports[c]}

GraphInit ==
  /\ config \in Configurations
  /\ stage = "nodes"
  /\ nodeMap = <<>>
  /\ template = <<>>
  /\ edges = <<>>

AddNodes ==
  /\ stage = "nodes"
  /\ stage' = "chains"
  /\ LET kept == Names \ TemplateOnly
     IN /\ nodeMap' = [n \in kept |-> <<n, 0>>]
        /\ template' = [x \in kept \X {0} |-> x[1]]
  /\ UNCHANGED <<config, edges>>

\* Mutant: the chain is built in the order of the list.
CloneOf_Inward(x) == Chain(x[1])[x[2]]

\* The list is in call order, from the outside in.
CloneOf(x) == Chain(x[1])[Len(Chain(x[1])) - x[2] + 1]

\* Mutant: the clone keeps an internal name, the component its own.
NodeOf_NoTakeover(n) ==
  IF n \in Innards \cup Clones THEN n ELSE nodeMap[n]

\* The outermost clone has the name of the component it intercepts.
NodeOf(n) ==
  IF n \in Intercepted THEN <<n, Len(Chain(n))>>
  ELSE IF n \in Innards THEN n ELSE nodeMap[n]

AddChains ==
  /\ stage = "chains"
  /\ Intercepted \subseteq DOMAIN nodeMap
  /\ \A c \in Intercepted : Elements(Chain(c)) \subseteq Components
  /\ stage' = "imports"
  /\ nodeMap' = [n \in DOMAIN nodeMap \cup Innards |-> NodeOf(n)]
  /\ template' = [x \in Nodes \cup Clones |-> IF x \in Clones THEN CloneOf(x) ELSE template[x]]
  /\ edges' = [e \in {<<<<x[1], x[2] - 1>>, x>> : x \in Clones} |-> "interceptor"]
  /\ UNCHANGED config

\* The loop ends at the first definition, in whatever order they come, that has
\* no node to rename or names an interceptor that is no component.
AddChainsPanics ==
  /\ stage = "chains"
  /\ \E c \in Intercepted : c \notin DOMAIN nodeMap
  /\ stage' = "panicked"
  /\ UNCHANGED <<config, nodeMap, template, edges>>

AddChainsFails ==
  /\ stage = "chains"
  /\ \E c \in Intercepted \cap DOMAIN nodeMap : ~(Elements(Chain(c)) \subseteq Components)
  /\ stage' = "undefined"
  /\ UNCHANGED <<config, nodeMap, template, edges>>

\* update_edge: an edge that is there gets the new kind.
WithDependencies(pairs) ==
  [e \in DOMAIN edges \cup pairs |-> IF e \in pairs THEN "dependency" ELSE edges[e]]

ImporterName(c) == IF Chain(c) = <<>> THEN c ELSE <<c, 0>>

\* Imports that have no node are only warned about.
AddImports ==
  /\ stage = "imports"
  /\ stage' = "clones"
  /\ edges' = WithDependencies(
       {<<nodeMap[p[2]], nodeMap[ImporterName(p[1])]>> :
          p \in {q \in Components \X Names : /\ ImporterName(q[1]) \in DOMAIN nodeMap
                                             /\ q[2] \in config.imports[q[1]] \cap DOMAIN nodeMap}})
  /\ UNCHANGED <<config, nodeMap, template>>

AddCloneImports ==
  /\ stage = "clones"
  /\ stage' = "check"
  /\ edges' = WithDependencies(
       {<<nodeMap[p[2]], p[1]>> :
          p \in {q \in Clones \X Names : q[2] \in config.imports[template[q[1]]] \cap DOMAIN nodeMap}})
  /\ UNCHANGED <<config, nodeMap, template>>

\* Is there a set in which every node depends on another one of the set?
Cyclic ==
  \E S \in SUBSET Nodes :
    S # {} /\ \A x \in S : \E y \in S : <<y, x>> \in DOMAIN edges

\* Mutant: the check knows the imports only, not the chains.
CheckCycles_ImportsOnly ==
  /\ stage = "check"
  /\ stage' = IF \E S \in SUBSET Nodes : S # {} /\ \A x \in S : \E y \in S :
                    <<y, x>> \in DOMAIN edges /\ edges[<<y, x>>] = "dependency"
              THEN "cyclic" ELSE "built"
  /\ UNCHANGED <<config, nodeMap, template, edges>>

CheckCycles ==
  /\ stage = "check"
  /\ stage' = IF Cyclic THEN "cyclic" ELSE "built"
  /\ UNCHANGED <<config, nodeMap, template, edges>>

GraphNext ==
  \/ AddNodes
  \/ AddChains
  \/ AddChainsPanics
  \/ AddChainsFails
  \/ AddImports
  \/ AddCloneImports
  \/ CheckCycles

GraphSpec == GraphInit /\ [][GraphNext]_graphVars

-----------------------------------------------------------------------------
(***************************************************************************)
(* Properties                                                              *)
(***************************************************************************)
HasAllEdges == stage \in {"check", "cyclic", "built"}

\* Nobody gets past an interceptor: whatever imports a component, its own
\* interceptors and those of other components included, depends on the
\* outermost clone of its chain.
NobodyBypassesInterceptors ==
  \A e \in DOMAIN edges :
    edges[e] = "dependency" => e[1][2] = IF e[1][1] \in Components THEN Len(Chain(e[1][1])) ELSE 0

\* The public name of an intercepted component leads through its interceptors
\* in the order of the list to the component itself, and no import replaced one
\* of the edges in between.
ChainsInCallOrder ==
  stage \notin {"nodes", "chains", "panicked", "undefined"} =>
    \A c \in Intercepted :
      LET n == Len(Chain(c))
      IN /\ nodeMap[c] = <<c, n>>
         /\ template[<<c, 0>>] = c
         /\ \A i \in 1..n : /\ template[<<c, n - i + 1>>] = Chain(c)[i]
                            /\ <<<<c, i - 1>>, <<c, i>>>> \in DOMAIN edges
                            /\ edges[<<<<c, i - 1>>, <<c, i>>>>] = "interceptor"

\* Every import of every node has its edge: none is skipped with a warning, and
\* there are no others.
EveryImportIsLinked ==
  HasAllEdges =>
    \A x \in Nodes :
      LET imported == IF template[x] \in Components THEN config.imports[template[x]] ELSE {}
      IN /\ imported \subseteq DOMAIN nodeMap
         /\ {e[1] : e \in {d \in DOMAIN edges : d[2] = x /\ edges[d] = "dependency"}}
              = {nodeMap[n] : n \in imported}

\* Whatever is intercepted has a node: the assertion in the unwrap() of build().
InterceptedHasNode == stage # "panicked"

\* A configuration is rejected as circular exactly when its definitions are:
\* a component uses what it imports and what its interceptors import.
Uses(c) == config.imports[c] \cup UNION {config.imports[i] : i \in Elements(Chain(c)) \cap Components}

RejectsOnlyCircular ==
  stage \in {"cyclic", "built"} =>
    (stage = "cyclic" <=>
       \E S \in SUBSET (Components \ TemplateOnly) : S # {} /\ \A c \in S : Uses(c) \cap S # {})

=============================================================================
