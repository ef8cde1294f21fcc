------------------------- MODULE Composition_proofs -------------------------
(***************************************************************************)
(* The properties of the graph, of the registries and of the instances     *)
(* made from them, for all configurations.  ComponentGraph::build() has    *)
(* one behaviour per configuration but for its errors, so that the         *)
(* invariant says what names, nodes and edges are after each of its loops. *)
(***************************************************************************)
EXTENDS Host, SequenceTheorems, WellFoundedInduction, TLAPS

Kept          == Names \ TemplateOnly
PublicNode(n) == IF n \in Components THEN <<n, Len(Chain(n))>> ELSE <<n, 0>>
Held(x)       == IF x \in Clones THEN CloneOf(x) ELSE x[1]

ChainEdges == {<<<<x[1], x[2] - 1>>, x>> : x \in Clones}

ImportEdges ==
  {<<PublicNode(p[2]), <<p[1], 0>>>> :
     p \in {q \in Components \X Names : q[1] \in Kept /\ q[2] \in config.imports[q[1]]}}

CloneEdges ==
  {<<PublicNode(p[2]), p[1]>> :
     p \in {q \in Clones \X Names : q[2] \in config.imports[CloneOf(q[1])]}}

HasChains == stage \in {"imports", "clones", "check", "cyclic", "built"}

NamesInv ==
  HasChains =>
    /\ Intercepted \subseteq Kept
    /\ \A c \in Intercepted : Elements(Chain(c)) \subseteq Components
    /\ DOMAIN nodeMap = Kept \cup Innards
    /\ \A n \in Kept : nodeMap[n] = PublicNode(n)
    /\ \A n \in Innards : nodeMap[n] = n
    /\ Nodes = (Kept \X {0}) \cup Clones
    /\ \A x \in Nodes : template[x] = Held(x)

\* The edges of imports so far; those of the chains are never among them.
Dependencies ==
  (IF stage = "clones" \/ HasAllEdges THEN ImportEdges ELSE {})
    \cup (IF HasAllEdges THEN CloneEdges ELSE {})

EdgesInv ==
  /\ HasChains => DOMAIN edges = ChainEdges \cup Dependencies
  /\ ~HasChains => edges = <<>>
  /\ \A e \in DOMAIN edges : edges[e] = IF e \in Dependencies THEN "dependency" ELSE "interceptor"

GraphInv ==
  /\ config \in Configurations
  /\ stage \in {"nodes", "chains", "imports", "clones", "check", "cyclic", "built",
                "panicked", "undefined"}
  /\ stage = "chains" =>
       /\ nodeMap = [n \in Kept |-> <<n, 0>>]
       /\ template = [x \in Kept \X {0} |-> x[1]]
  /\ NamesInv
  /\ EdgesInv

-----------------------------------------------------------------------------
\* What a configuration says, and how names are told apart.
LEMMA ConfigFacts ==
  ASSUME config \in Configurations
  PROVE  /\ \A c \in Components : config.imports[c] \subseteq Names
         /\ \A c \in Components : Chain(c) \in Seq(Names) /\ Len(Chain(c)) \in Nat
         /\ \A c \in Components : c \notin Intercepted => Len(Chain(c)) = 0
         /\ \A c \in Intercepted : c \in Components /\ Len(Chain(c)) > 0
         /\ Innards \cap Names = {}
         /\ Clones \subseteq Components \X Nat
         /\ Components \subseteq Names
         /\ \A c \in Components : config.imports[c] \subseteq Kept
<1>1. /\ config.imports \in [Components -> SUBSET Names]
      /\ config.interceptors \in [Components -> Seq(Names)]
      /\ Names \cap Reserved = {}
  BY GraphAssumption
<1>2. /\ \A c \in Components : config.imports[c] \subseteq Names
      /\ \A c \in Components : Chain(c) \in Seq(Names) /\ Len(Chain(c)) \in Nat
  BY <1>1 DEF Chain
<1>3. ASSUME NEW c \in Intercepted PROVE c \in Components /\ Len(Chain(c)) > 0
  <2>1. c \in Components /\ Chain(c) # <<>>
    BY DEF Intercepted
  <2>2. Chain(c) \in Seq(Names)
    BY <1>2, <2>1
  <2>3. Len(Chain(c)) \in Nat \ {0}
    BY <2>1, <2>2, EmptySeq, Zenon
  <2> QED
    BY <2>1, <2>3
<1>4. \A c \in Components : c \notin Intercepted => Len(Chain(c)) = 0
  BY <1>2, EmptySeq DEF Intercepted
<1>5. Innards \cap Names = {}
  <2>1. Innards \subseteq Reserved
    BY <1>2, <1>3 DEF Innards, Reserved
  <2> QED
    BY <1>1, <2>1
<1>6. Clones \subseteq Components \X Nat
  BY <1>2, <1>3 DEF Clones
<1>7. \A c \in Components : config.imports[c] \subseteq Kept
  BY <1>2 DEF Kept, TemplateOnly
<1> QED
  BY <1>2, <1>3, <1>4, <1>5, <1>6, <1>7 DEF Names

\* The places of a chain.
LEMMA ClonePlaces ==
  ASSUME config \in Configurations
  PROVE  /\ \A x \in Clones : /\ x = <<x[1], x[2]>> /\ x[1] \in Intercepted
                              /\ x[2] \in 1..Len(Chain(x[1]))
                              /\ CloneOf(x) \in Elements(Chain(x[1]))
         /\ \A c \in Intercepted : \A i \in 1..Len(Chain(c)) : <<c, i>> \in Clones
         /\ \A c \in Intercepted : <<c, 0>> \in Innards
         /\ \A x \in Innards : x[1] \in Intercepted /\ x[2] \in 0..(Len(Chain(x[1])) - 1)
                                 /\ x = <<x[1], x[2]>>
<1>1. \A c \in Intercepted : c \in Components /\ Len(Chain(c)) \in Nat /\ Len(Chain(c)) > 0
  BY ConfigFacts
<1>2. \A x \in Clones : /\ x = <<x[1], x[2]>> /\ x[1] \in Intercepted
                        /\ x[2] \in 1..Len(Chain(x[1]))
  BY DEF Clones
<1>3. ASSUME NEW x \in Clones PROVE CloneOf(x) \in Elements(Chain(x[1]))
  <2>1. Len(Chain(x[1])) - x[2] + 1 \in 1..Len(Chain(x[1]))
    BY <1>1, <1>2
  <2> QED
    BY <2>1 DEF CloneOf, Elements
<1>4. \A c \in Intercepted : \A i \in 1..Len(Chain(c)) : <<c, i>> \in Clones
  BY DEF Clones
<1>5. ASSUME NEW c \in Intercepted PROVE <<c, 0>> \in Innards
  <2>1. 0 \in 0..(Len(Chain(c)) - 1)
    BY <1>1
  <2> QED
    BY <2>1 DEF Innards
<1>6. \A x \in Innards : x[1] \in Intercepted /\ x[2] \in 0..(Len(Chain(x[1])) - 1)
                           /\ x = <<x[1], x[2]>>
  BY DEF Innards
<1> QED
  BY <1>2, <1>3, <1>4, <1>5, <1>6

\* A dependency starts at the node that has the public name.
LEMMA DependenciesArePublic ==
  ASSUME config \in Configurations
  PROVE  \A e \in ImportEdges \cup CloneEdges :
           \E n \in Names : e[1] = PublicNode(n)
  BY DEF ImportEdges, CloneEdges

LEMMA ChainEdgesAreInner ==
  ASSUME config \in Configurations
  PROVE  ChainEdges \cap (ImportEdges \cup CloneEdges) = {}
<1> SUFFICES ASSUME NEW e \in ChainEdges, e \in ImportEdges \cup CloneEdges PROVE FALSE
  OBVIOUS
<1>1. PICK x \in Clones : e = <<<<x[1], x[2] - 1>>, x>>
  BY DEF ChainEdges
<1>2. PICK n \in Names : e[1] = PublicNode(n)
  BY DependenciesArePublic
<1>3. x[1] \in Components /\ x[2] \in 1..Len(Chain(x[1])) /\ Len(Chain(x[1])) \in Nat
  BY ConfigFacts, ClonePlaces
<1>4. CASE n \in Components
  BY <1>1, <1>2, <1>3, <1>4 DEF PublicNode
<1>5. CASE n \notin Components
  BY <1>1, <1>2, <1>3, <1>5 DEF PublicNode
<1> QED
  BY <1>4, <1>5

-----------------------------------------------------------------------------
\* The loop of the interceptors: every intercepted component has a node.
LEMMA AddChainsKeepsInv ==
  ASSUME GraphInv, AddChains
  PROVE  GraphInv'
<1>1. /\ config \in Configurations /\ config' = config /\ stage' = "imports"
      /\ stage = "chains"
      /\ nodeMap = [n \in Kept |-> <<n, 0>>]
      /\ template = [x \in Kept \X {0} |-> x[1]]
      /\ Intercepted \subseteq Kept
      /\ \A c \in Intercepted : Elements(Chain(c)) \subseteq Components
  BY DEF GraphInv, AddChains
<1>2. /\ nodeMap' = [n \in Kept \cup Innards |-> NodeOf(n)]
      /\ template' = [x \in (Kept \X {0}) \cup Clones |->
                        IF x \in Clones THEN CloneOf(x) ELSE template[x]]
      /\ edges' = [e \in ChainEdges |-> "interceptor"]
  BY <1>1 DEF AddChains, Nodes, ChainEdges
<1>3. \A n \in Kept : NodeOf(n) = PublicNode(n)
  BY <1>1, ConfigFacts DEF NodeOf, PublicNode, Kept, Names
<1>4. \A n \in Innards : NodeOf(n) = n
  BY <1>1, ConfigFacts DEF NodeOf
<1>5. \A x \in (Kept \X {0}) \cup Clones : template'[x] = Held(x)
  BY <1>1, <1>2 DEF Held
<1>6. /\ Kept' = Kept /\ Innards' = Innards /\ Clones' = Clones /\ Intercepted' = Intercepted
      /\ ChainEdges' = ChainEdges
      /\ \A c : Chain(c)' = Chain(c)
      /\ \A x : PublicNode(x)' = PublicNode(x) /\ Held(x)' = Held(x)
  BY <1>1 DEF Kept, TemplateOnly, Innards, Clones, Intercepted, Chain, ChainEdges, PublicNode,
              Held, CloneOf
<1>7. NamesInv'
  BY <1>1, <1>2, <1>3, <1>4, <1>5, <1>6 DEF NamesInv, Nodes
<1>8. EdgesInv'
  BY <1>1, <1>2, <1>6 DEF EdgesInv, Dependencies, HasAllEdges, HasChains
<1> QED
  BY <1>1, <1>7, <1>8 DEF GraphInv

\* A step that leaves names and nodes alone keeps what depends on them.
LEMMA NamesKept ==
  ASSUME GraphInv, UNCHANGED <<config, nodeMap, template>>, HasChains
  PROVE  /\ NamesInv'
         /\ ChainEdges' = ChainEdges
         /\ ImportEdges' = ImportEdges /\ CloneEdges' = CloneEdges
         /\ config' \in Configurations
<1>1. config' = config /\ nodeMap' = nodeMap /\ template' = template
  OBVIOUS
<1>2. /\ Kept' = Kept /\ Innards' = Innards /\ Clones' = Clones /\ Intercepted' = Intercepted
      /\ ChainEdges' = ChainEdges
      /\ \A c : Chain(c)' = Chain(c)
      /\ \A x : PublicNode(x)' = PublicNode(x) /\ Held(x)' = Held(x) /\ CloneOf(x)' = CloneOf(x)
  BY <1>1 DEF Kept, TemplateOnly, Innards, Clones, Intercepted, Chain, ChainEdges, PublicNode,
              Held, CloneOf
<1>3. ImportEdges' = ImportEdges /\ CloneEdges' = CloneEdges
  BY <1>1, <1>2 DEF ImportEdges, CloneEdges
<1>4. NamesInv'
  BY <1>1, <1>2 DEF NamesInv, GraphInv, Nodes
<1> QED
  BY <1>1, <1>2, <1>3, <1>4 DEF GraphInv

\* The pairs that AddImports links are the edges of the imports.
LEMMA ImportPairs ==
  ASSUME GraphInv, HasChains
  PROVE  {<<nodeMap[p[2]], nodeMap[ImporterName(p[1])]>> :
            p \in {q \in Components \X Names : /\ ImporterName(q[1]) \in DOMAIN nodeMap
                                               /\ q[2] \in config.imports[q[1]] \cap DOMAIN nodeMap}}
           = ImportEdges
<1>1. config \in Configurations /\ NamesInv
  BY DEF GraphInv
<1>2. ASSUME NEW c \in Components
      PROVE  /\ ImporterName(c) \in DOMAIN nodeMap <=> c \in Kept
             /\ c \in Kept => nodeMap[ImporterName(c)] = <<c, 0>>
  <2>1. CASE Chain(c) = <<>>
    <3>1. c \notin Intercepted /\ Len(Chain(c)) = 0 /\ c \in Names /\ c \notin Innards
      BY <1>1, <2>1, ConfigFacts DEF Intercepted
    <3> QED
      BY <1>1, <2>1, <3>1 DEF ImporterName, NamesInv, PublicNode
  <2>2. CASE Chain(c) # <<>>
    <3>1. c \in Intercepted
      BY <2>2 DEF Intercepted
    <3>2. <<c, 0>> \in Innards /\ c \in Kept
      BY <1>1, <3>1, ClonePlaces DEF NamesInv
    <3> QED
      BY <1>1, <2>2, <3>2 DEF ImporterName, NamesInv
  <2> QED
    BY <2>1, <2>2
<1>3. ASSUME NEW c \in Components, NEW n \in config.imports[c]
      PROVE  n \in DOMAIN nodeMap /\ nodeMap[n] = PublicNode(n) /\ n \in Names
  BY <1>1, ConfigFacts DEF NamesInv
<1>4. {q \in Components \X Names : /\ ImporterName(q[1]) \in DOMAIN nodeMap
                                    /\ q[2] \in config.imports[q[1]] \cap DOMAIN nodeMap}
        = {q \in Components \X Names : q[1] \in Kept /\ q[2] \in config.imports[q[1]]}
  BY <1>2, <1>3
<1> QED
  BY <1>2, <1>3, <1>4 DEF ImportEdges

\* The pairs that AddCloneImports links are the edges of the clones.
LEMMA ClonePairs ==
  ASSUME GraphInv, HasChains
  PROVE  {<<nodeMap[p[2]], p[1]>> :
            p \in {q \in Clones \X Names : q[2] \in config.imports[template[q[1]]] \cap DOMAIN nodeMap}}
           = CloneEdges
<1>1. config \in Configurations /\ NamesInv
  BY DEF GraphInv
<1>2. ASSUME NEW x \in Clones
      PROVE  template[x] = CloneOf(x) /\ CloneOf(x) \in Components
  BY <1>1, ClonePlaces DEF NamesInv, Held
<1>3. ASSUME NEW c \in Components, NEW n \in config.imports[c]
      PROVE  n \in DOMAIN nodeMap /\ nodeMap[n] = PublicNode(n) /\ n \in Names
  BY <1>1, ConfigFacts DEF NamesInv
<1>4. {q \in Clones \X Names : q[2] \in config.imports[template[q[1]]] \cap DOMAIN nodeMap}
        = {q \in Clones \X Names : q[2] \in config.imports[CloneOf(q[1])]}
  BY <1>2, <1>3
<1> QED
  BY <1>2, <1>3, <1>4 DEF CloneEdges

LEMMA AddImportsKeepsInv ==
  ASSUME GraphInv, AddImports
  PROVE  GraphInv'
<1>1. /\ stage = "imports" /\ stage' = "clones" /\ HasChains /\ ~HasAllEdges
      /\ UNCHANGED <<config, nodeMap, template>>
      /\ edges' = WithDependencies(ImportEdges)
  BY ImportPairs DEF AddImports, HasChains, HasAllEdges
<1>2. DOMAIN edges = ChainEdges /\ \A e \in DOMAIN edges : edges[e] = "interceptor"
  BY <1>1 DEF GraphInv, EdgesInv, Dependencies
<1>3. /\ DOMAIN edges' = ChainEdges \cup ImportEdges
      /\ \A e \in DOMAIN edges' : edges'[e] = IF e \in ImportEdges THEN "dependency" ELSE "interceptor"
  BY <1>1, <1>2 DEF WithDependencies
<1>4. Dependencies' = ImportEdges /\ HasChains' /\ ChainEdges' = ChainEdges
  BY <1>1, NamesKept DEF Dependencies, HasAllEdges, HasChains
<1>5. EdgesInv'
  BY <1>3, <1>4 DEF EdgesInv
<1> QED
  BY <1>1, <1>5, NamesKept DEF GraphInv

LEMMA AddCloneImportsKeepsInv ==
  ASSUME GraphInv, AddCloneImports
  PROVE  GraphInv'
<1>1. /\ stage = "clones" /\ stage' = "check" /\ HasChains /\ ~HasAllEdges
      /\ UNCHANGED <<config, nodeMap, template>>
      /\ edges' = WithDependencies(CloneEdges)
  BY ClonePairs DEF AddCloneImports, HasChains, HasAllEdges
<1>2. /\ DOMAIN edges = ChainEdges \cup ImportEdges
      /\ \A e \in DOMAIN edges : edges[e] = IF e \in ImportEdges THEN "dependency" ELSE "interceptor"
  BY <1>1 DEF GraphInv, EdgesInv, Dependencies
<1>3. /\ DOMAIN edges' = ChainEdges \cup (ImportEdges \cup CloneEdges)
      /\ \A e \in DOMAIN edges' :
           edges'[e] = IF e \in ImportEdges \cup CloneEdges THEN "dependency" ELSE "interceptor"
  BY <1>1, <1>2 DEF WithDependencies
<1>4. Dependencies' = ImportEdges \cup CloneEdges /\ HasChains' /\ ChainEdges' = ChainEdges
  BY <1>1, NamesKept DEF Dependencies, HasAllEdges, HasChains
<1>5. EdgesInv'
  BY <1>3, <1>4 DEF EdgesInv
<1> QED
  BY <1>1, <1>5, NamesKept DEF GraphInv

LEMMA CheckCyclesKeepsInv ==
  ASSUME GraphInv, CheckCycles
  PROVE  GraphInv'
<1>1. /\ stage = "check" /\ stage' \in {"cyclic", "built"} /\ HasChains /\ HasAllEdges
      /\ UNCHANGED <<config, nodeMap, template>> /\ edges' = edges
  BY DEF CheckCycles, HasChains, HasAllEdges
<1>2. Dependencies' = Dependencies /\ HasChains' /\ ChainEdges' = ChainEdges
  BY <1>1, NamesKept DEF Dependencies, HasAllEdges, HasChains
<1>3. EdgesInv'
  BY <1>1, <1>2 DEF EdgesInv, GraphInv
<1> QED
  BY <1>1, <1>3, NamesKept DEF GraphInv

\* Each loop of build() keeps the invariant.
LEMMA GraphInvStep ==
  ASSUME GraphInv, [GraphNext]_graphVars
  PROVE  GraphInv'
<1>1. ASSUME AddNodes PROVE GraphInv'
  <2>1. /\ config' = config /\ config \in Configurations /\ stage = "nodes" /\ stage' = "chains"
        /\ edges' = <<>> /\ DOMAIN edges' = {}
        /\ nodeMap' = [n \in Kept |-> <<n, 0>>]
        /\ template' = [x \in Kept \X {0} |-> x[1]]
    BY <1>1 DEF AddNodes, GraphInv, EdgesInv, HasChains, Kept
  <2>2. Kept' = Kept
    BY <2>1 DEF Kept, TemplateOnly, Chain
  <2> QED
    BY <2>1, <2>2 DEF GraphInv, NamesInv, EdgesInv, HasChains
<1>2. ASSUME AddChainsPanics \/ AddChainsFails PROVE GraphInv'
  BY <1>2 DEF AddChainsPanics, AddChainsFails, GraphInv, NamesInv, EdgesInv, HasChains
<1>3. ASSUME UNCHANGED graphVars PROVE GraphInv'
  <2>1. /\ HasChains' = HasChains /\ HasAllEdges' = HasAllEdges
        /\ Kept' = Kept /\ Innards' = Innards /\ Clones' = Clones /\ Intercepted' = Intercepted
        /\ \A c : Chain(c)' = Chain(c)
        /\ \A x : PublicNode(x)' = PublicNode(x) /\ Held(x)' = Held(x) /\ CloneOf(x)' = CloneOf(x)
    BY <1>3 DEF graphVars, HasChains, HasAllEdges, Kept, TemplateOnly, Innards, Clones,
                Intercepted, Chain, PublicNode, Held, CloneOf
  <2>2. ChainEdges' = ChainEdges /\ Dependencies' = Dependencies
    BY <1>3, <2>1 DEF graphVars, ChainEdges, Dependencies, ImportEdges, CloneEdges
  <2> QED
    BY <1>3, <2>1, <2>2 DEF graphVars, GraphInv, NamesInv, EdgesInv, Nodes
<1> QED
  BY <1>1, <1>2, <1>3, AddChainsKeepsInv, AddImportsKeepsInv, AddCloneImportsKeepsInv,
     CheckCyclesKeepsInv DEF GraphNext

\* Names, nodes and edges are those of the definitions, whatever the configuration.
THEOREM GraphInvariant == GraphSpec => []GraphInv
<1>1. ASSUME GraphInit PROVE GraphInv
  BY <1>1 DEF GraphInit, GraphInv, NamesInv, EdgesInv, HasChains
<1> QED
  BY <1>1, GraphInvStep, PTL DEF GraphSpec

-----------------------------------------------------------------------------
\* What the invariant of the graph says of its properties.
LEMMA GraphInvNoBypass == GraphInv => NobodyBypassesInterceptors
<1> SUFFICES ASSUME GraphInv, NEW e \in DOMAIN edges, edges[e] = "dependency"
             PROVE  e[1][2] = IF e[1][1] \in Components THEN Len(Chain(e[1][1])) ELSE 0
  BY DEF NobodyBypassesInterceptors
<1>1. e \in ImportEdges \cup CloneEdges /\ config \in Configurations
  BY DEF GraphInv, EdgesInv, Dependencies
<1>2. PICK n \in Names : e[1] = PublicNode(n)
  BY <1>1, DependenciesArePublic
<1> QED
  BY <1>2 DEF PublicNode

\* Whatever imports an intercepted component depends on the outermost clone of
\* its chain.
THEOREM NobodyBypassesInterceptorsHolds == GraphSpec => []NobodyBypassesInterceptors
BY GraphInvNoBypass, GraphInvariant, PTL

\* Of the order of chains.
LEMMA GraphInvCallOrder == GraphInv => ChainsInCallOrder
<1> SUFFICES ASSUME GraphInv, stage \notin {"nodes", "chains", "panicked", "undefined"},
                    NEW c \in Intercepted
             PROVE  /\ nodeMap[c] = <<c, Len(Chain(c))>>
                    /\ template[<<c, 0>>] = c
                    /\ \A i \in 1..Len(Chain(c)) :
                         /\ template[<<c, Len(Chain(c)) - i + 1>>] = Chain(c)[i]
                         /\ <<<<c, i - 1>>, <<c, i>>>> \in DOMAIN edges
                         /\ edges[<<<<c, i - 1>>, <<c, i>>>>] = "interceptor"
  BY DEF ChainsInCallOrder
<1>1. HasChains /\ NamesInv /\ EdgesInv /\ config \in Configurations
  BY DEF GraphInv, HasChains
<1>2. c \in Components /\ c \in Kept /\ Len(Chain(c)) \in Nat
  BY <1>1, ConfigFacts DEF NamesInv
<1>3. nodeMap[c] = <<c, Len(Chain(c))>>
  BY <1>1, <1>2 DEF NamesInv, PublicNode
<1>4. template[<<c, 0>>] = c
  <2>1. <<c, 0>> \notin Clones
    BY <1>1, ClonePlaces
  <2>2. <<c, 0>> \in Nodes
    BY <1>1, <1>2 DEF NamesInv
  <2> QED
    BY <1>1, <2>1, <2>2 DEF NamesInv, Held
<1>5. ASSUME NEW i \in 1..Len(Chain(c))
      PROVE  /\ template[<<c, Len(Chain(c)) - i + 1>>] = Chain(c)[i]
             /\ <<<<c, i - 1>>, <<c, i>>>> \in DOMAIN edges
             /\ edges[<<<<c, i - 1>>, <<c, i>>>>] = "interceptor"
  <2> DEFINE place == Len(Chain(c)) - i + 1
  <2>1. place \in 1..Len(Chain(c)) /\ Len(Chain(c)) - place + 1 = i
    BY <1>2
  <2>2. <<c, place>> \in Clones /\ <<c, i>> \in Clones
    BY <1>1, <2>1, ClonePlaces
  <2>3. CloneOf(<<c, place>>) = Chain(c)[i]
    BY <2>1 DEF CloneOf
  <2>4. template[<<c, place>>] = Chain(c)[i]
    BY <1>1, <2>2, <2>3 DEF NamesInv, Held
  <2>5. <<<<c, i - 1>>, <<c, i>>>> \in ChainEdges
    BY <2>2 DEF ChainEdges
  <2>6. <<<<c, i - 1>>, <<c, i>>>> \notin Dependencies
    BY <1>1, <2>5, ChainEdgesAreInner DEF Dependencies
  <2> QED
    BY <1>1, <2>4, <2>5, <2>6 DEF EdgesInv
<1> QED
  BY <1>3, <1>4, <1>5

\* A public name leads through the interceptors in the order of the list.
THEOREM ChainsInCallOrderHolds == GraphSpec => []ChainsInCallOrder
BY GraphInvCallOrder, GraphInvariant, PTL

\* What a finished graph has an edge for: the imports of the definition that
\* the node holds, and the node before it in its chain.
LEMMA EdgesOfNodes ==
  ASSUME GraphInv, HasAllEdges
  PROVE  /\ \A x \in Nodes : \A e \in ImportEdges \cup CloneEdges :
              e[2] = x => \E n \in Names : /\ template[x] \in Components
                                          /\ n \in config.imports[template[x]]
                                          /\ e = <<PublicNode(n), x>>
         /\ \A x \in Nodes : template[x] \in Components =>
              \A n \in config.imports[template[x]] :
                <<PublicNode(n), x>> \in ImportEdges \cup CloneEdges
<1>1. NamesInv /\ HasChains /\ config \in Configurations
  BY DEF GraphInv, HasChains, HasAllEdges
<1>2. ASSUME NEW x \in Clones
      PROVE  /\ template[x] = CloneOf(x) /\ CloneOf(x) \in Components
             /\ \A e \in ImportEdges : e[2] # x
             /\ \A n \in config.imports[CloneOf(x)] : <<PublicNode(n), x>> \in CloneEdges
             /\ \A e \in CloneEdges : e[2] = x =>
                  \E n \in Names : n \in config.imports[CloneOf(x)] /\ e = <<PublicNode(n), x>>
  <2>1. template[x] = CloneOf(x) /\ CloneOf(x) \in Components /\ x[2] # 0
    BY <1>1, ClonePlaces, ConfigFacts DEF NamesInv, Held
  <2>2. \A e \in ImportEdges : e[2] # x
    BY <2>1 DEF ImportEdges
  <2>3. ASSUME NEW n \in config.imports[CloneOf(x)]
        PROVE  <<PublicNode(n), x>> \in CloneEdges
    <3>1. <<x, n>> \in {q \in Clones \X Names : q[2] \in config.imports[CloneOf(q[1])]}
      BY <1>1, <2>1, ConfigFacts
    <3> QED
      BY <3>1 DEF CloneEdges
  <2>4. ASSUME NEW e \in CloneEdges, e[2] = x
        PROVE  \E n \in Names : n \in config.imports[CloneOf(x)] /\ e = <<PublicNode(n), x>>
    BY <2>4 DEF CloneEdges
  <2> QED
    BY <2>1, <2>2, <2>3, <2>4
<1>3. ASSUME NEW x \in Nodes, x \notin Clones
      PROVE  /\ x[1] \in Kept /\ x = <<x[1], 0>> /\ template[x] = x[1]
             /\ \A e \in CloneEdges : e[2] # x
             /\ x[1] \in Components =>
                  \A n \in config.imports[x[1]] : <<PublicNode(n), x>> \in ImportEdges
             /\ \A e \in ImportEdges : e[2] = x =>
                  \E n \in Names : /\ x[1] \in Components /\ n \in config.imports[x[1]]
                                  /\ e = <<PublicNode(n), x>>
  <2>1. x[1] \in Kept /\ x = <<x[1], 0>> /\ template[x] = x[1]
    BY <1>1, <1>3 DEF NamesInv, Held
  <2>2. \A e \in CloneEdges : e[2] # x
    BY <1>3 DEF CloneEdges
  <2>3. ASSUME x[1] \in Components, NEW n \in config.imports[x[1]]
        PROVE  <<PublicNode(n), x>> \in ImportEdges
    <3>1. <<x[1], n>> \in {q \in Components \X Names : q[1] \in Kept /\ q[2] \in config.imports[q[1]]}
      BY <1>1, <2>1, <2>3, ConfigFacts
    <3>2. <<PublicNode(n), <<x[1], 0>>>> \in ImportEdges
      BY <3>1 DEF ImportEdges
    <3> QED
      BY <2>1, <3>2
  <2>4. ASSUME NEW e \in ImportEdges, e[2] = x
        PROVE  \E n \in Names : /\ x[1] \in Components /\ n \in config.imports[x[1]]
                                /\ e = <<PublicNode(n), x>>
    <3>1. PICK p \in Components \X Names : /\ p[1] \in Kept /\ p[2] \in config.imports[p[1]]
                                           /\ e = <<PublicNode(p[2]), <<p[1], 0>>>>
      BY <2>4 DEF ImportEdges
    <3>2. p[1] = x[1]
      BY <2>1, <2>4, <3>1
    <3> QED
      BY <2>1, <3>1, <3>2
  <2> QED
    BY <2>1, <2>2, <2>3, <2>4
<1> QED
  BY <1>2, <1>3

\* Of imports.
LEMMA GraphInvImports == GraphInv => EveryImportIsLinked
<1> SUFFICES ASSUME GraphInv, HasAllEdges, NEW x \in Nodes
             PROVE  LET imported == IF template[x] \in Components THEN config.imports[template[x]] ELSE {}
                    IN /\ imported \subseteq DOMAIN nodeMap
                       /\ {e[1] : e \in {d \in DOMAIN edges : d[2] = x /\ edges[d] = "dependency"}}
                            = {nodeMap[n] : n \in imported}
  BY DEF EveryImportIsLinked
<1> DEFINE imported == IF template[x] \in Components THEN config.imports[template[x]] ELSE {}
           into     == {d \in DOMAIN edges : d[2] = x /\ edges[d] = "dependency"}
<1>1. NamesInv /\ HasChains /\ EdgesInv /\ config \in Configurations
  BY DEF GraphInv, HasChains, HasAllEdges
<1>2. into = {d \in ImportEdges \cup CloneEdges : d[2] = x}
  BY <1>1 DEF EdgesInv, Dependencies
<1>3. imported \subseteq Kept
  BY <1>1, ConfigFacts
<1>4. imported \subseteq DOMAIN nodeMap /\ \A n \in imported : nodeMap[n] = PublicNode(n)
  BY <1>1, <1>3 DEF NamesInv
<1>5. ASSUME NEW d \in into PROVE \E n \in imported : d[1] = nodeMap[n]
  BY <1>2, <1>4, EdgesOfNodes
<1>6. ASSUME NEW n \in imported PROVE \E d \in into : d[1] = nodeMap[n]
  <2>1. <<PublicNode(n), x>> \in into
    BY <1>2, EdgesOfNodes
  <2> QED
    BY <1>4, <2>1
<1>7. {d[1] : d \in into} = {nodeMap[n] : n \in imported}
  BY <1>5, <1>6
<1> QED
  BY <1>4, <1>7

\* Every import of every node has its edge, and there is no other one.
THEOREM EveryImportIsLinkedHolds == GraphSpec => []EveryImportIsLinked
BY GraphInvImports, GraphInvariant, PTL

-----------------------------------------------------------------------------
LEMMA LeastPlace ==
  ASSUME NEW T, T \subseteq Nat, T # {}
  PROVE  \E m \in T : \A k \in T : m <= k
<1>1. PICK m \in T : \A k \in T : <<k, m>> \notin OpToRel(<, Nat)
  BY WFMin, NatLessThanWellFounded, Zenon
<1>2. ASSUME NEW k \in T PROVE m <= k
  <2>1. ~(k < m)
    BY <1>1 DEF OpToRel
  <2> QED
    BY <2>1
<1> QED
  BY <1>2

\* What a node of a component imports is something the component uses.
LEMMA NodesUse ==
  ASSUME GraphInv, HasAllEdges, NEW x \in Nodes, template[x] \in Components
  PROVE  /\ x[1] \in Components
         /\ config.imports[template[x]] \subseteq Uses(x[1])
<1>1. NamesInv /\ config \in Configurations
  BY DEF GraphInv, NamesInv, HasChains, HasAllEdges
<1>2. CASE x \in Clones
  <2>1. template[x] = CloneOf(x) /\ CloneOf(x) \in Elements(Chain(x[1])) /\ x[1] \in Components
    BY <1>1, <1>2, ClonePlaces, ConfigFacts DEF NamesInv, HasChains, HasAllEdges, Held
  <2> QED
    BY <2>1 DEF Uses
<1>3. CASE x \notin Clones
  BY <1>1, <1>3 DEF NamesInv, HasChains, HasAllEdges, Held, Uses
<1> QED
  BY <1>2, <1>3

\* From a cycle of nodes to one of definitions: of the nodes of a chain that are
\* in the cycle, the innermost one imports something.
LEMMA CyclicIsCircular ==
  ASSUME GraphInv, HasAllEdges, Cyclic
  PROVE  \E S \in SUBSET (Components \ TemplateOnly) : S # {} /\ \A c \in S : Uses(c) \cap S # {}
<1>1. /\ NamesInv /\ HasChains /\ config \in Configurations
      /\ DOMAIN edges = ChainEdges \cup (ImportEdges \cup CloneEdges)
  BY DEF GraphInv, HasChains, HasAllEdges, EdgesInv, Dependencies
<1>2. PICK S \in SUBSET Nodes : S # {} /\ \A x \in S : \E y \in S : <<y, x>> \in DOMAIN edges
  BY DEF Cyclic
<1> DEFINE D == {x[1] : x \in S}
<1>3. ASSUME NEW x \in Nodes
      PROVE  x = <<x[1], x[2]>> /\ x[1] \in Kept /\ x[2] \in Nat
  <2>1. CASE x \in Clones
    BY <1>1, <2>1, ClonePlaces, ConfigFacts DEF NamesInv
  <2>2. CASE x \in Kept \X {0}
    BY <2>2
  <2> QED
    BY <1>1, <2>1, <2>2 DEF NamesInv
<1>4. ASSUME NEW c \in D PROVE c \in Components /\ Uses(c) \cap D # {}
  <2> DEFINE T == {x[2] : x \in {z \in S : z[1] = c}}
  <2>1. T \subseteq Nat /\ T # {}
    BY <1>3
  <2>2. PICK m \in T : \A k \in T : m <= k
    BY <2>1, LeastPlace
  <2>3. PICK x \in S : x[1] = c /\ x[2] = m
    OBVIOUS
  <2>4. PICK y \in S : <<y, x>> \in DOMAIN edges
    BY <1>2
  <2>5. <<y, x>> \notin ChainEdges
    <3> SUFFICES ASSUME <<y, x>> \in ChainEdges PROVE FALSE
      OBVIOUS
    <3>1. x \in Clones /\ y = <<x[1], x[2] - 1>>
      BY DEF ChainEdges
    <3>2. x[2] - 1 \in T
      BY <2>3, <3>1
    <3>3. m \in Nat /\ m <= m - 1
      BY <2>1, <2>2, <2>3, <3>2
    <3> QED
      BY <3>3
  <2>6. <<y, x>> \in ImportEdges \cup CloneEdges /\ x \in Nodes
    BY <1>1, <2>4, <2>5
  <2>7. PICK n \in Names : /\ template[x] \in Components /\ n \in config.imports[template[x]]
                           /\ <<y, x>> = <<PublicNode(n), x>>
    BY <2>6, EdgesOfNodes
  <2>8. n = y[1] /\ n \in D
    BY <2>7 DEF PublicNode
  <2> QED
    BY <2>3, <2>6, <2>7, <2>8, NodesUse
<1>5. D \subseteq Components \ TemplateOnly
  BY <1>3, <1>4 DEF Kept
<1>6. D # {}
  BY <1>2
<1> QED
  BY <1>4, <1>5, <1>6

\* The nodes of a component: its own and those of its chain.
LEMMA PlacesOf ==
  ASSUME GraphInv, HasAllEdges, NEW c \in Components, c \notin TemplateOnly
  PROVE  /\ Len(Chain(c)) \in Nat
         /\ \A i \in Nat : i <= Len(Chain(c)) => <<c, i>> \in Nodes
         /\ \A i \in Nat : 0 < i /\ i <= Len(Chain(c)) => <<c, i>> \in Clones
         /\ \A z \in Nodes : z[1] = c => /\ z[2] \in Nat /\ z[2] <= Len(Chain(c))
                                        /\ z = <<c, z[2]>>
<1>1. NamesInv /\ HasChains /\ config \in Configurations
  BY DEF GraphInv, HasChains, HasAllEdges
<1>2. c \in Kept /\ Len(Chain(c)) \in Nat
  BY <1>1, ConfigFacts DEF Kept
<1>3. ASSUME NEW i \in Nat, 0 < i, i <= Len(Chain(c)) PROVE <<c, i>> \in Clones
  <2>1. c \in Intercepted /\ i \in 1..Len(Chain(c))
    BY <1>1, <1>2, <1>3, ConfigFacts
  <2> QED
    BY <1>1, <2>1, ClonePlaces
<1>4. ASSUME NEW i \in Nat, i <= Len(Chain(c)) PROVE <<c, i>> \in Nodes
  <2>1. CASE i = 0
    BY <1>1, <1>2, <2>1 DEF NamesInv
  <2>2. CASE i # 0
    BY <1>1, <1>3, <1>4, <2>2 DEF NamesInv
  <2> QED
    BY <2>1, <2>2
<1>5. ASSUME NEW z \in Nodes, z[1] = c
      PROVE  z[2] \in Nat /\ z[2] <= Len(Chain(c)) /\ z = <<c, z[2]>>
  <2>1. CASE z \in Clones
    BY <1>1, <1>2, <1>5, <2>1, ClonePlaces
  <2>2. CASE z \in Kept \X {0}
    BY <1>2, <1>5, <2>2
  <2> QED
    BY <1>1, <2>1, <2>2 DEF NamesInv
<1> QED
  BY <1>2, <1>3, <1>4, <1>5

\* From a cycle of definitions to one of nodes: in each chain, the nodes from
\* the innermost one that uses the cycle outward.
LEMMA CircularIsCyclic ==
  ASSUME GraphInv, HasAllEdges,
         NEW D \in SUBSET (Components \ TemplateOnly), D # {},
         \A c \in D : Uses(c) \cap D # {}
  PROVE  Cyclic
<1>1. /\ NamesInv /\ HasChains /\ config \in Configurations
      /\ DOMAIN edges = ChainEdges \cup (ImportEdges \cup CloneEdges)
  BY DEF GraphInv, HasChains, HasAllEdges, EdgesInv, Dependencies
<1> DEFINE Imports(x) == template[x] \in Components /\ config.imports[template[x]] \cap D # {}
           S == {x \in Nodes : /\ x[1] \in D
                              /\ \E z \in Nodes : z[1] = x[1] /\ z[2] <= x[2] /\ Imports(z)}
<1>2. ASSUME NEW c \in D
      PROVE  /\ Len(Chain(c)) \in Nat /\ c \in Components /\ c \notin TemplateOnly
             /\ \A i \in Nat : i <= Len(Chain(c)) => <<c, i>> \in Nodes
             /\ \A i \in Nat : 0 < i /\ i <= Len(Chain(c)) => <<c, i>> \in Clones
             /\ \A z \in Nodes : z[1] = c => /\ z[2] \in Nat /\ z[2] <= Len(Chain(c))
                                            /\ z = <<c, z[2]>>
  <2>1. c \in Components /\ c \notin TemplateOnly
    OBVIOUS
  <2> QED
    BY <2>1, PlacesOf
<1>3. ASSUME NEW c \in D PROVE \E z \in Nodes : z[1] = c /\ Imports(z)
  <2>1. PICK n \in Uses(c) : n \in D
    OBVIOUS
  <2>2. CASE n \in config.imports[c]
    <3>1. <<c, 0>> \in Nodes /\ <<c, 0>> \notin Clones
      <4>1. 0 <= Len(Chain(c))
        BY <1>2
      <4>2. <<c, 0>> \in Nodes
        BY <1>2, <4>1
      <4>3. <<c, 0>> \notin Clones
        BY <1>1, ClonePlaces
      <4> QED
        BY <4>2, <4>3
    <3>2. template[<<c, 0>>] = c
      BY <1>1, <3>1 DEF NamesInv, Held
    <3> QED
      BY <1>2, <2>1, <2>2, <3>1, <3>2
  <2>3. CASE n \notin config.imports[c]
    <3>1. PICK i \in Elements(Chain(c)) \cap Components : n \in config.imports[i]
      BY <2>3 DEF Uses
    <3>2. PICK j \in 1..Len(Chain(c)) : Chain(c)[j] = i
      BY <3>1 DEF Elements
    <3> DEFINE place == Len(Chain(c)) - j + 1
    <3>3. /\ place \in Nat /\ 0 < place /\ place <= Len(Chain(c))
          /\ Len(Chain(c)) - place + 1 = j
      BY <1>2
    <3> HIDE DEF place
    <3>4. <<c, place>> \in Nodes /\ <<c, place>> \in Clones
      BY <1>2, <3>3
    <3>5. CloneOf(<<c, place>>) = i
      BY <3>2, <3>3 DEF CloneOf
    <3>6. template[<<c, place>>] = i
      BY <1>1, <3>4, <3>5 DEF NamesInv, Held
    <3> QED
      BY <2>1, <3>1, <3>4, <3>6
  <2> QED
    BY <2>2, <2>3
<1>4. ASSUME NEW c \in D PROVE <<c, Len(Chain(c))>> \in S /\ PublicNode(c) = <<c, Len(Chain(c))>>
  <2>1. PICK z \in Nodes : z[1] = c /\ Imports(z)
    BY <1>3
  <2>2. z[2] <= Len(Chain(c))
    BY <1>2, <2>1
  <2>3. Len(Chain(c)) \in Nat /\ Len(Chain(c)) <= Len(Chain(c)) /\ c \in Components
    BY <1>2
  <2>4. <<c, Len(Chain(c))>> \in Nodes
    BY <1>2, <2>3
  <2>5. <<c, Len(Chain(c))>> \in S
    BY <2>1, <2>2, <2>4
  <2> QED
    BY <2>3, <2>5 DEF PublicNode
<1>5. ASSUME NEW x \in S PROVE \E y \in S : <<y, x>> \in DOMAIN edges
  <2>1. CASE Imports(x)
    <3>1. PICK n \in config.imports[template[x]] : n \in D
      BY <2>1
    <3>2. <<PublicNode(n), x>> \in DOMAIN edges
      BY <1>1, <2>1, <3>1, EdgesOfNodes
    <3> QED
      BY <1>4, <3>1, <3>2
  <2>2. CASE ~Imports(x)
    <3>1. PICK z \in Nodes : z[1] = x[1] /\ z[2] <= x[2] /\ Imports(z)
      OBVIOUS
    <3>2. x[1] \in D /\ x \in Nodes
      OBVIOUS
    <3>3. /\ x = <<x[1], x[2]>> /\ z = <<x[1], z[2]>>
          /\ z[2] \in Nat /\ x[2] \in Nat /\ x[2] <= Len(Chain(x[1])) /\ Len(Chain(x[1])) \in Nat
      BY <1>2, <3>1, <3>2
    <3>4. z[2] # x[2]
      BY <2>2, <3>1, <3>3
    <3>5. 0 < x[2] /\ z[2] <= x[2] - 1 /\ x[2] - 1 \in Nat /\ x[2] - 1 <= Len(Chain(x[1]))
      BY <3>1, <3>3, <3>4
    <3>6. x \in Clones /\ <<x[1], x[2] - 1>> \in Nodes
      BY <1>2, <3>2, <3>3, <3>5
    <3>7. <<x[1], x[2] - 1>> \in S
      BY <3>1, <3>2, <3>5, <3>6
    <3>8. <<<<x[1], x[2] - 1>>, x>> \in DOMAIN edges
      BY <1>1, <3>6 DEF ChainEdges
    <3> QED
      BY <3>7, <3>8
  <2> QED
    BY <2>1, <2>2
<1>6. S # {} /\ S \subseteq Nodes
  BY <1>4
<1> QED
  BY <1>5, <1>6 DEF Cyclic

\* The check ends "cyclic" exactly when the graph is.
CheckedInv == stage \in {"cyclic", "built"} => (stage = "cyclic" <=> Cyclic)

\* The result of the check stays true of the graph.
LEMMA CheckedInvStep ==
  ASSUME CheckedInv, [GraphNext]_graphVars
  PROVE  CheckedInv'
<1>1. ASSUME CheckCycles \/ UNCHANGED graphVars PROVE CheckedInv'
  <2>1. template' = template /\ edges' = edges
    BY <1>1 DEF CheckCycles, graphVars
  <2>2. Cyclic' = Cyclic
    BY <2>1 DEF Cyclic, Nodes
  <2> QED
    BY <1>1, <2>2 DEF CheckCycles, CheckedInv, graphVars
<1>2. ASSUME AddNodes \/ AddChains \/ AddChainsPanics \/ AddChainsFails \/ AddImports \/ AddCloneImports
      PROVE  CheckedInv'
  BY <1>2 DEF AddNodes, AddChains, AddChainsPanics, AddChainsFails, AddImports, AddCloneImports,
              CheckedInv
<1> QED
  BY <1>1, <1>2 DEF GraphNext

\* Of circular definitions.
LEMMA CheckedIsCircular == GraphInv /\ CheckedInv => RejectsOnlyCircular
<1> SUFFICES ASSUME GraphInv, CheckedInv, stage \in {"cyclic", "built"}
             PROVE  stage = "cyclic" <=>
                      \E S \in SUBSET (Components \ TemplateOnly) :
                        S # {} /\ \A c \in S : Uses(c) \cap S # {}
  BY DEF RejectsOnlyCircular
<1>1. HasAllEdges
  BY DEF HasAllEdges
<1>2. stage = "cyclic" <=> Cyclic
  BY DEF CheckedInv
<1> QED
  BY <1>1, <1>2, CyclicIsCircular, CircularIsCyclic

\* A configuration is rejected exactly when its definitions use each other in a
\* circle, through interceptors or not.
THEOREM RejectsOnlyCircularHolds == GraphSpec => []RejectsOnlyCircular
<1>1. GraphInit => CheckedInv
  BY DEF GraphInit, CheckedInv
<1> QED
  BY <1>1, CheckedInvStep, CheckedIsCircular, GraphInvariant, PTL DEF GraphSpec

-----------------------------------------------------------------------------
(***************************************************************************)
(* The registries.                                                         *)
(***************************************************************************)
GraphStages ==
  {"nodes", "chains", "imports", "clones", "check", "cyclic", "built", "panicked", "undefined"}

\* The graph that build() has returned, which nothing changes any more.
Finished ==
  /\ config \in Configurations
  /\ Intercepted \subseteq Kept
  /\ \A c \in Intercepted : Elements(Chain(c)) \subseteq Components
  /\ DOMAIN nodeMap = Kept \cup Innards
  /\ \A n \in Kept : nodeMap[n] = PublicNode(n)
  /\ \A n \in Innards : nodeMap[n] = n
  /\ Nodes = (Kept \X {0}) \cup Clones
  /\ \A x \in Nodes : template[x] = Held(x)
  /\ DOMAIN edges = ChainEdges \cup (ImportEdges \cup CloneEdges)
  /\ \A e \in DOMAIN edges : edges[e] = IF e \in ChainEdges THEN "interceptor" ELSE "dependency"

Inner(x)    == <<x[1], x[2] - 1>>  \* what the clone x wraps
IsAdvised(x) == x \in Clones /\ AdviceInterface \in config.gives[template[x]]

Specs(D) ==
  [imports : SUBSET Interfaces, wasm : SUBSET Interfaces, exports : SUBSET Interfaces,
   capabilities : SUBSET Capabilities, dependents : {D}]

Drafts ==
  [node : ComponentNode, pending : SUBSET Nodes, imports : SUBSET Interfaces, wasm : SUBSET Interfaces,
   exports : SUBSET Interfaces, capabilities : SUBSET Capabilities]

\* Only components are registered, under the names of their nodes.
BuiltTypes ==
  \A n \in DOMAIN built :
    /\ n \in DOMAIN nodeMap /\ nodeMap[n] \in ComponentNode
    /\ \E D : built[n] \in Specs(D)

\* What of a capability answers an import: what the linker makes of it, or for 0.0.x
\* what the registry takes for satisfied.
IsAnswered(i, k) == IsLinked(i, {k}) \/ (ExactOnly(i) /\ IsImportSatisfied(i, {k}))

\* An import of a registered component is answered, or one of some advice.
AdviceNeeds == UNION {config.needs[c] : c \in Advice}

WasmInv ==
  \A n \in DOMAIN built : \A i \in built[n].wasm :
    i \in AdviceNeeds \/ \E k \in built[n].capabilities : IsAnswered(i, k)

\* Behind clones of advice only, a component's exports show.
ExportsInv ==
  \A x \in ComponentNode :
    /\ NameOf(x) \in DOMAIN built
    /\ \A j \in 1..x[2] : AdviceInterface \in config.gives[template[<<x[1], j>>]]
    => built[NameOf(x)].exports = config.gives[x[1]]

\* The component in progress, of node x, has its own imports and exports until its
\* advice wraps what it intercepts.
DraftInv ==
  draft # None =>
    /\ draft \in Drafts
    /\ \A x \in ComponentNode : x = draft.node =>
         /\ draft.pending \subseteq Preds(x)
         /\ \A y \in Preds(x) \cap ComponentNode : NameOf(y) \in DOMAIN built
         /\ IF IsAdvised(x) /\ Inner(x) \notin draft.pending
            THEN draft.exports = built[NameOf(Inner(x))].exports
            ELSE /\ draft.exports = config.gives[template[x]]
                 /\ draft.imports \subseteq config.needs[template[x]]
    /\ \A i \in draft.wasm :
         i \in draft.imports \/ i \in AdviceNeeds \/ \E k \in draft.capabilities : IsAnswered(i, k)

BuildInv == Finished /\ BuiltTypes /\ WasmInv /\ ExportsInv /\ DraftInv

RegInv ==
  /\ stage \in GraphStages => GraphInv /\ built = <<>> /\ draft = None
  /\ stage \notin GraphStages => BuildInv
  /\ instance # None => stage = "done"

-----------------------------------------------------------------------------
LEMMA BuiltIsFinished ==
  ASSUME GraphInv, stage = "built"
  PROVE  Finished
<1>1. HasChains /\ HasAllEdges /\ config \in Configurations
  BY DEF HasChains, HasAllEdges, GraphInv
<1>2. Dependencies = ImportEdges \cup CloneEdges
  BY <1>1 DEF Dependencies
<1>3. /\ DOMAIN edges = ChainEdges \cup (ImportEdges \cup CloneEdges)
      /\ \A e \in DOMAIN edges :
           edges[e] = IF e \in ImportEdges \cup CloneEdges THEN "dependency" ELSE "interceptor"
  BY <1>1, <1>2 DEF GraphInv, EdgesInv
<1>4. \A e \in DOMAIN edges : edges[e] = IF e \in ChainEdges THEN "interceptor" ELSE "dependency"
  BY <1>1, <1>3, ChainEdgesAreInner
<1> QED
  BY <1>1, <1>3, <1>4 DEF GraphInv, NamesInv, Finished

\* Each node has one name.
LEMMA NodesHaveNames ==
  ASSUME Finished
  PROVE  /\ \A x \in Nodes : NameOf(x) \in DOMAIN nodeMap /\ nodeMap[NameOf(x)] = x
         /\ \A n \in DOMAIN nodeMap : nodeMap[n] \in Nodes /\ NameOf(nodeMap[n]) = n
<1> USE DEF Finished
<1>1. /\ \A c \in Components : Len(Chain(c)) \in Nat
      /\ \A c \in Components : c \notin Intercepted => Len(Chain(c)) = 0
      /\ \A c \in Intercepted : c \in Components /\ Len(Chain(c)) > 0
      /\ Innards \cap Names = {} /\ Components \subseteq Names /\ Kept \subseteq Names
  BY ConfigFacts DEF Kept
<1>2. \A n \in Kept : PublicNode(n) = IF n \in Intercepted THEN <<n, Len(Chain(n))>> ELSE <<n, 0>>
  BY <1>1 DEF PublicNode
<1>3. ASSUME NEW x \in Nodes PROVE \E n \in DOMAIN nodeMap : nodeMap[n] = x
  <2>1. CASE x \in Clones
    <3>1. x = <<x[1], x[2]>> /\ x[1] \in Intercepted /\ x[2] \in 1..Len(Chain(x[1]))
      BY <2>1, ClonePlaces
    <3>2. CASE x[2] = Len(Chain(x[1]))
      BY <1>2, <3>1, <3>2
    <3>3. CASE x[2] # Len(Chain(x[1]))
      <4>1. x[2] \in 0..(Len(Chain(x[1])) - 1)
        BY <1>1, <3>1, <3>3
      <4>2. x \in Innards
        BY <3>1, <4>1 DEF Innards
      <4> QED
        BY <4>2
    <3> QED
      BY <3>2, <3>3
  <2>2. CASE x \in Kept \X {0}
    <3>1. x = <<x[1], 0>> /\ x[1] \in Kept
      BY <2>2
    <3>2. CASE x[1] \in Intercepted
      BY <3>1, <3>2, ClonePlaces
    <3>3. CASE x[1] \notin Intercepted
      BY <1>2, <3>1, <3>3
    <3> QED
      BY <3>2, <3>3
  <2> QED
    BY <2>1, <2>2
<1>4. ASSUME NEW n \in DOMAIN nodeMap PROVE nodeMap[n] \in Nodes
  <2>1. CASE n \in Kept /\ n \notin Intercepted
    BY <1>2, <2>1
  <2>2. CASE n \in Kept /\ n \in Intercepted
    <3>1. Len(Chain(n)) \in 1..Len(Chain(n))
      BY <1>1, <2>2
    <3> QED
      BY <1>2, <2>2, <3>1, ClonePlaces
  <2>3. CASE n \in Innards
    <3>1. n = <<n[1], n[2]>> /\ n[1] \in Intercepted /\ n[2] \in 0..(Len(Chain(n[1])) - 1)
      BY <2>3, ClonePlaces
    <3>2. CASE n[2] = 0
      BY <2>3, <3>1, <3>2
    <3>3. CASE n[2] # 0
      <4>1. n[2] \in 1..Len(Chain(n[1]))
        BY <1>1, <3>1, <3>3
      <4> QED
        BY <2>3, <3>1, <4>1, ClonePlaces
    <3> QED
      BY <3>2, <3>3
  <2> QED
    BY <2>1, <2>2, <2>3
<1>5. ASSUME NEW n \in DOMAIN nodeMap, NEW m \in DOMAIN nodeMap, nodeMap[n] = nodeMap[m] PROVE n = m
  <2>1. \A k \in Kept : nodeMap[k][1] = k
    BY <1>2
  <2>2. \A k \in Innards : nodeMap[k] = k /\ k[1] \in Intercepted /\ k[2] \in 0..(Len(Chain(k[1])) - 1)
    BY ClonePlaces
  <2>3. \A k \in Innards, l \in Kept : nodeMap[k] # nodeMap[l]
    <3> SUFFICES ASSUME NEW k \in Innards, NEW l \in Kept, nodeMap[k] = nodeMap[l] PROVE FALSE
      OBVIOUS
    <3>1. l = k[1] /\ l \in Intercepted /\ l \in Components
      BY <1>1, <2>1, <2>2
    <3>2. nodeMap[l] = <<l, Len(Chain(l))>> /\ Len(Chain(l)) \in Nat
      BY <1>1, <1>2, <3>1
    <3>3. k[2] = Len(Chain(l))
      BY <2>2, <3>2
    <3> QED
      BY <2>2, <3>1, <3>2, <3>3
  <2> QED
    BY <1>5, <2>1, <2>2, <2>3
<1> QED
  BY <1>3, <1>4, <1>5 DEF NameOf

\* What the nodes hold, and which edges are those of chains.
LEMMA NodeFacts ==
  ASSUME Finished
  PROVE  /\ \A x \in ComponentNode :
              /\ x = <<x[1], x[2]>> /\ x[1] \in Components /\ x[2] \in Nat /\ template[x] \in Components
              /\ x \notin Clones => x[2] = 0 /\ template[x] = x[1]
              /\ x \in Clones => /\ x[2] > 0 /\ Inner(x) \in ComponentNode /\ Inner(x) \in Preds(x)
                                 /\ edges[<<Inner(x), x>>] = "interceptor"
         /\ \A y \in Nodes \ ComponentNode : y[1] \in Capabilities
         /\ \A x \in ComponentNode : \A y \in Preds(x) :
              edges[<<y, x>>] = "interceptor" => x \in Clones /\ y = Inner(x)
<1> USE DEF Finished
<1>1. \A c \in Components : Len(Chain(c)) \in Nat
  BY ConfigFacts
<1>2. /\ \A x \in Clones : /\ x = <<x[1], x[2]>> /\ x[1] \in Intercepted /\ x[1] \in Components
                           /\ x[2] \in 1..Len(Chain(x[1])) /\ x[2] \in Nat /\ x[2] > 0
                           /\ template[x] \in Components
      /\ \A x \in Kept \X {0} : x = <<x[1], 0>> /\ x[1] \in Names /\ x \notin Clones /\ template[x] = x[1]
  <2>1. \A x \in Clones : /\ x = <<x[1], x[2]>> /\ x[1] \in Intercepted /\ x[2] \in 1..Len(Chain(x[1]))
                          /\ CloneOf(x) \in Elements(Chain(x[1]))
    BY ClonePlaces
  <2>2. \A x \in Clones : x[1] \in Components
    BY <2>1 DEF Intercepted
  <2>3. \A x \in Clones : x[2] \in Nat /\ x[2] > 0
    BY <1>1, <2>1, <2>2
  <2>4. \A x \in Clones : template[x] \in Components
    BY <2>1 DEF Held
  <2>5. \A x \in Kept \X {0} : x = <<x[1], 0>> /\ x[1] \in Names /\ x \notin Clones
    BY <2>1, <2>3 DEF Kept
  <2>6. \A x \in Kept \X {0} : template[x] = x[1]
    BY <2>5 DEF Held
  <2> QED
    BY <2>1, <2>2, <2>3, <2>4, <2>5, <2>6
<1>3. ASSUME NEW x \in Clones
      PROVE  Inner(x) \in ComponentNode /\ <<Inner(x), x>> \in DOMAIN edges /\ edges[<<Inner(x), x>>] = "interceptor"
  <2>1. Inner(x) \in ComponentNode
    <3>1. CASE x[2] = 1
      <4>1. Inner(x) = <<x[1], 0>> /\ Inner(x) \in Kept \X {0}
        BY <1>2, <3>1 DEF Inner
      <4>2. template[Inner(x)] = x[1]
        BY <1>2, <4>1
      <4> QED
        BY <1>2, <4>1, <4>2 DEF ComponentNode
    <3>2. CASE x[2] # 1
      <4>1. x[2] - 1 \in 1..Len(Chain(x[1]))
        BY <1>1, <1>2, <3>2
      <4>2. Inner(x) \in Clones
        BY <1>2, <4>1, ClonePlaces DEF Inner
      <4> QED
        BY <1>2, <4>2 DEF ComponentNode
    <3> QED
      BY <3>1, <3>2
  <2>2. <<Inner(x), x>> \in ChainEdges
    BY DEF ChainEdges, Inner
  <2> QED
    BY <2>1, <2>2
<1>4. \A x \in ComponentNode : x \in Nodes /\ template[x] \in Components
  BY DEF ComponentNode
<1>5. \A y \in Nodes \ ComponentNode : y[1] \in Capabilities
  BY <1>2 DEF ComponentNode, Names
<1>6. ASSUME NEW x \in ComponentNode, NEW y \in Preds(x), edges[<<y, x>>] = "interceptor"
      PROVE  x \in Clones /\ y = Inner(x)
  <2>1. <<y, x>> \in ChainEdges
    BY <1>6 DEF Preds
  <2> QED
    BY <2>1 DEF ChainEdges, Inner
<1>7. \A x \in Clones : Inner(x) \in Preds(x)
  BY <1>3 DEF Preds, ComponentNode
<1>8. ASSUME NEW x \in ComponentNode
      PROVE  /\ x = <<x[1], x[2]>> /\ x[1] \in Components /\ x[2] \in Nat /\ template[x] \in Components
             /\ x \notin Clones => x[2] = 0 /\ template[x] = x[1]
  BY <1>2, <1>4
<1> QED
  BY <1>2, <1>3, <1>5, <1>6, <1>7, <1>8

\* What the registry takes for satisfied the linker of the host answers, but at 0.0.x.
LEMMA SatisfiedIsLinked ==
  ASSUME config \in Configurations, NEW k \in Capabilities, NEW i, IsImportSatisfied(i, {k})
  PROVE  IsAnswered(i, k)
<1>1. PICK available \in InterfacesOf(k) : Satisfies(available, i)
  BY DEF IsImportSatisfied
<1>2. Answers(available, i) \/ ExactOnly(i)
  BY <1>1, 1 \in 1..2, 2 \in 1..2 DEF Satisfies, Answers
<1>3. available \in Linked(k)
  <2>1. KindOf(k) \in Kinds
    BY RegistryAssumption DEF KindOf
  <2> DEFINE kind == KindOf(k)
             whole == Custom(k) \/ kind = <<"p2", "">> \/ VersionOf(kind) = "p3"
  <2>2. CASE whole
    BY <1>1, <2>2 DEF Linked
  <2>3. CASE ~whole
    <3>1. /\ VersionOf(kind) = "p2" /\ kind[1] \in DOMAIN P2
          /\ InterfacesOf(k) = At(P2[kind[1]], <<0, 2, 12>>)
      BY <1>1, <2>1, <2>3 DEF InterfacesOf, InterfacesForKind, Custom
    <3>2. kind[1] \in {"cli", "clocks", "filesystem", "http", "io", "random", "sockets"}
      BY <3>1 DEF P2
    <3>3. /\ kind[1] = "cli" => P2[kind[1]] = {"cli/stdin", "cli/stdout", "cli/stderr", "cli/environment"}
          /\ kind[1] = "clocks" => P2[kind[1]] = {"clocks/wall-clock", "clocks/monotonic-clock"}
          /\ kind[1] = "filesystem" => P2[kind[1]] = {"filesystem/types", "filesystem/preopens"} \cup Io
          /\ kind[1] = "http" => P2[kind[1]] = {"http/outgoing-handler", "http/types"} \cup Io
          /\ kind[1] = "io" => P2[kind[1]] = Io
          /\ kind[1] = "random" => P2[kind[1]] = {"random/random", "random/insecure", "random/insecure-seed"}
          /\ kind[1] = "sockets" =>
               P2[kind[1]] = {"sockets/tcp", "sockets/udp", "sockets/network", "sockets/instance-network",
                              "sockets/ip-name-lookup", "sockets/tcp-create-socket", "sockets/udp-create-socket"}
      BY DEF P2
    <3>4. Linked(k) = At(P2[kind[1]], <<0, 2, 12>>)
      BY <2>3, <3>2, <3>3 DEF Linked
    <3> QED
      BY <1>1, <3>1, <3>4
  <2> QED
    BY <2>2, <2>3
<1> QED
  BY <1>2, <1>3 DEF IsLinked, IsAnswered

\* Nothing but build() changes the graph.
LEMMA SameGraph ==
  ASSUME Finished, UNCHANGED <<config, nodeMap, template, edges>>
  PROVE  /\ Finished'
         /\ ComponentNode' = ComponentNode /\ Nodes' = Nodes /\ Clones' = Clones
         /\ Advice' = Advice /\ AdviceNeeds' = AdviceNeeds /\ Drafts' = Drafts
         /\ \A x : Preds(x)' = Preds(x) /\ NameOf(x)' = NameOf(x) /\ IsAdvised(x)' = IsAdvised(x)
         /\ \A k, i : IsAnswered(i, k)' = IsAnswered(i, k)
<1>1. /\ Kept' = Kept /\ Innards' = Innards /\ Clones' = Clones /\ Intercepted' = Intercepted
      /\ \A c : Chain(c)' = Chain(c)
      /\ \A x : PublicNode(x)' = PublicNode(x) /\ CloneOf(x)' = CloneOf(x) /\ Held(x)' = Held(x)
  BY DEF Kept, TemplateOnly, Innards, Clones, Intercepted, Chain, PublicNode, CloneOf, Held
<1>2. ChainEdges' = ChainEdges /\ ImportEdges' = ImportEdges /\ CloneEdges' = CloneEdges
  BY <1>1 DEF ChainEdges, ImportEdges, CloneEdges
<1>3. Nodes' = Nodes
  BY DEF Nodes
<1>4. Finished'
  BY <1>1, <1>2, <1>3 DEF Finished
<1>5. ComponentNode' = ComponentNode
  BY <1>3 DEF ComponentNode
<1>6. Advice' = Advice
  BY <1>1 DEF Advice
<1>7. AdviceNeeds' = AdviceNeeds
  BY <1>6 DEF AdviceNeeds
<1>8. \A x : Preds(x)' = Preds(x) /\ NameOf(x)' = NameOf(x) /\ IsAdvised(x)' = IsAdvised(x)
  BY <1>1, <1>3 DEF Preds, NameOf, IsAdvised
<1>9. \A k, i : IsAnswered(i, k)' = IsAnswered(i, k)
  <2>1. \A k : Linked(k)' = Linked(k) /\ InterfacesOf(k)' = InterfacesOf(k)
    BY DEF Linked, KindOf, Custom, InterfacesOf
  <2>2. \A k, i : IsLinked(i, {k})' = IsLinked(i, {k})
    BY <2>1 DEF IsLinked
  <2>3. \A k, i : IsImportSatisfied(i, {k})' = IsImportSatisfied(i, {k})
    BY <2>1 DEF IsImportSatisfied
  <2> QED
    BY <2>2, <2>3 DEF IsAnswered
<1>10. Drafts' = Drafts
  BY <1>3, <1>5 DEF Drafts
<1> QED
  BY <1>1, <1>3, <1>4, <1>5, <1>6, <1>7, <1>8, <1>9, <1>10

\* What a component is linked with is linked with its importer.
LEMMA ImportsOfConfig ==
  ASSUME config \in Configurations, NEW c \in Components
  PROVE  config.needs[c] \subseteq Interfaces /\ config.gives[c] \subseteq Interfaces
BY RegistryAssumption

\* Nor is what is registered changed while a component is composed.
LEMMA SameBuilt ==
  ASSUME Finished, BuiltTypes, WasmInv, ExportsInv, UNCHANGED <<config, nodeMap, template, edges, built>>
  PROVE  BuiltTypes' /\ WasmInv' /\ ExportsInv'
<1>1. /\ ComponentNode' = ComponentNode /\ AdviceNeeds' = AdviceNeeds
      /\ \A z : NameOf(z)' = NameOf(z)
      /\ \A k, i : IsAnswered(i, k)' = IsAnswered(i, k)
  BY SameGraph
<1>2. BuiltTypes'
  BY <1>1 DEF BuiltTypes, Specs
<1>3. WasmInv'
  <2> SUFFICES ASSUME NEW n \in DOMAIN built, NEW i \in built[n].wasm, i \notin AdviceNeeds
               PROVE  \E k \in built[n].capabilities : IsAnswered(i, k)'
    BY <1>1 DEF WasmInv
  <2>1. PICK k \in built[n].capabilities : IsAnswered(i, k)
    BY DEF WasmInv
  <2> QED
    BY <1>1, <2>1
<1>4. ExportsInv'
  BY <1>1 DEF ExportsInv
<1> QED
  BY <1>2, <1>3, <1>4

LEMMA BeginStep ==
  ASSUME BuildInv, NEW x \in ComponentNode, BeginComponent(x)
  PROVE  BuildInv'
<1> USE DEF BuildInv
<1>1. /\ UNCHANGED <<config, nodeMap, template, edges>> /\ built' = built /\ draft = None
      /\ \A y \in Preds(x) \cap ComponentNode : NameOf(y) \in DOMAIN built
  BY DEF BeginComponent, graphVars
<1>2. /\ Finished' /\ ComponentNode' = ComponentNode /\ Nodes' = Nodes
      /\ AdviceNeeds' = AdviceNeeds /\ Drafts' = Drafts
      /\ \A z : Preds(z)' = Preds(z) /\ NameOf(z)' = NameOf(z) /\ IsAdvised(z)' = IsAdvised(z)
      /\ \A k, i : IsAnswered(i, k)' = IsAnswered(i, k)
  BY <1>1, SameGraph
<1>3. BuiltTypes' /\ WasmInv' /\ ExportsInv'
  BY <1>1, <1>2, SameBuilt
<1> DEFINE needs == config.needs[template[x]] \ {ConfigStore}
<1>4. draft' = [node |-> x, pending |-> Preds(x), imports |-> needs, wasm |-> needs,
                exports |-> config.gives[template[x]], capabilities |-> {}]
  BY DEF BeginComponent
<1>5. needs \subseteq Interfaces /\ config.gives[template[x]] \subseteq Interfaces /\ Preds(x) \subseteq Nodes
  BY ImportsOfConfig, NodeFacts DEF Preds, Finished
<1>6. draft' \in Drafts
  BY <1>4, <1>5 DEF Drafts
<1>7. x \in Clones => Inner(x) \in Preds(x)
  BY NodeFacts
<1>8. ~(IsAdvised(x) /\ Inner(x) \notin draft'.pending)
  BY <1>4, <1>7 DEF IsAdvised
<1>9. DraftInv'
  BY <1>1, <1>2, <1>4, <1>6, <1>8 DEF DraftInv
<1> QED
  BY <1>2, <1>3, <1>9

LEMMA FinishStep ==
  ASSUME BuildInv, FinishComponent
  PROVE  BuildInv'
<1> USE DEF BuildInv
<1> DEFINE x == draft.node
           n == NameOf(x)
           spec == [imports |-> draft.imports, wasm |-> draft.wasm, exports |-> draft.exports,
                    capabilities |-> draft.capabilities, dependents |-> {}]
<1>1. /\ UNCHANGED <<config, nodeMap, template, edges>> /\ draft # None /\ draft' = None
      /\ draft.pending = {} /\ Unsatisfied = {}
      /\ built' = [m \in DOMAIN built \cup {n} |-> IF m = n THEN spec ELSE built[m]]
  BY DEF FinishComponent, graphVars
<1>2. /\ Finished' /\ ComponentNode' = ComponentNode /\ AdviceNeeds' = AdviceNeeds
      /\ \A z : NameOf(z)' = NameOf(z)
      /\ \A k, i : IsAnswered(i, k)' = IsAnswered(i, k)
  BY <1>1, SameGraph
<1>3. draft \in Drafts /\ x \in ComponentNode /\ x \in Nodes
  BY <1>1 DEF DraftInv, Drafts, ComponentNode
<1>4. /\ \A y \in Nodes : NameOf(y) \in DOMAIN nodeMap /\ nodeMap[NameOf(y)] = y
  BY NodesHaveNames
<1>5. spec \in Specs({})
  BY <1>3 DEF Drafts, Specs
<1>6. BuiltTypes'
  BY <1>1, <1>2, <1>3, <1>4, <1>5 DEF BuiltTypes
<1>7. \A i \in draft.wasm : i \in AdviceNeeds \/ \E k \in draft.capabilities : IsAnswered(i, k)
  <2> SUFFICES ASSUME NEW i \in draft.wasm, i \in draft.imports
               PROVE  \E k \in draft.capabilities : IsAnswered(i, k)
    BY <1>1 DEF DraftInv
  <2>1. IsImportSatisfied(i, draft.capabilities)
    BY <1>1 DEF Unsatisfied
  <2>2. PICK k \in draft.capabilities : IsImportSatisfied(i, {k})
    BY <2>1 DEF IsImportSatisfied
  <2>3. k \in Capabilities
    BY <1>3 DEF Drafts
  <2> QED
    BY <2>2, <2>3, SatisfiedIsLinked DEF Finished
<1>8. WasmInv'
  <2> SUFFICES ASSUME NEW m \in DOMAIN built', NEW i \in built'[m].wasm, i \notin AdviceNeeds
               PROVE  \E k \in built'[m].capabilities : IsAnswered(i, k)'
    BY <1>2 DEF WasmInv
  <2>1. CASE m = n
    <3>1. built'[m].wasm = draft.wasm /\ built'[m].capabilities = draft.capabilities
      BY <1>1, <2>1
    <3>2. PICK k \in draft.capabilities : IsAnswered(i, k)
      BY <1>7, <3>1
    <3> QED
      BY <1>2, <3>1, <3>2
  <2>2. CASE m # n
    <3>1. m \in DOMAIN built /\ built'[m] = built[m]
      BY <1>1, <2>2
    <3>2. PICK k \in built[m].capabilities : IsAnswered(i, k)
      BY <3>1 DEF WasmInv
    <3> QED
      BY <1>2, <3>1, <3>2
  <2> QED
    BY <2>1, <2>2
<1>9. ExportsInv'
  <2> SUFFICES ASSUME NEW y \in ComponentNode, NameOf(y) \in DOMAIN built',
                      \A j \in 1..y[2] : AdviceInterface \in config.gives[template[<<y[1], j>>]]
               PROVE  built'[NameOf(y)].exports = config.gives[y[1]]
    BY <1>1, <1>2 DEF ExportsInv
  <2>1. CASE y # x
    <3>1. NameOf(y) # n
      BY <1>3, <1>4, <2>1 DEF ComponentNode
    <3>2. NameOf(y) \in DOMAIN built /\ built'[NameOf(y)] = built[NameOf(y)]
      BY <1>1, <3>1
    <3> QED
      BY <3>2 DEF ExportsInv
  <2>2. CASE y = x
    <3>1. built'[NameOf(y)].exports = draft.exports
      BY <1>1, <2>2
    <3>2. CASE y \notin Clones
      <4>1. template[y] = y[1] /\ ~IsAdvised(y)
        BY <3>2, NodeFacts DEF IsAdvised
      <4> QED
        BY <1>1, <1>3, <2>2, <3>1, <4>1 DEF DraftInv
    <3>3. CASE y \in Clones
      <4>1. y = <<y[1], y[2]>> /\ y[2] \in Nat /\ y[2] > 0 /\ Inner(y) \in ComponentNode /\ Inner(y) \in Preds(y)
        BY <3>3, NodeFacts
      <4>2. IsAdvised(y)
        <5>1. y[2] \in 1..y[2]
          BY <4>1
        <5> QED
          BY <3>3, <4>1, <5>1 DEF IsAdvised
      <4>3. /\ draft.exports = built[NameOf(Inner(y))].exports
            /\ NameOf(Inner(y)) \in DOMAIN built
        BY <1>1, <1>3, <2>2, <4>1, <4>2 DEF DraftInv
      <4>4. Inner(y)[1] = y[1] /\ Inner(y)[2] = y[2] - 1 /\ 1..(y[2] - 1) \subseteq 1..y[2]
        BY <4>1 DEF Inner
      <4>5. built[NameOf(Inner(y))].exports = config.gives[y[1]]
        BY <4>1, <4>3, <4>4 DEF ExportsInv
      <4> QED
        BY <3>1, <4>3, <4>5
    <3> QED
      BY <3>2, <3>3
  <2> QED
    BY <2>1, <2>2
<1>10. DraftInv'
  BY <1>1 DEF DraftInv
<1> QED
  BY <1>2, <1>6, <1>8, <1>9, <1>10

\* Steps that only end the construction, or come after it.
LEMMA SameBuild ==
  ASSUME BuildInv, UNCHANGED <<config, nodeMap, template, edges, built, draft>>
  PROVE  BuildInv'
<1> USE DEF BuildInv
<1>1. /\ Finished' /\ ComponentNode' = ComponentNode /\ AdviceNeeds' = AdviceNeeds /\ Drafts' = Drafts
      /\ \A z : Preds(z)' = Preds(z) /\ NameOf(z)' = NameOf(z) /\ IsAdvised(z)' = IsAdvised(z)
      /\ \A k, i : IsAnswered(i, k)' = IsAnswered(i, k)
  BY SameGraph
<1>2. BuiltTypes' /\ WasmInv' /\ ExportsInv'
  BY SameBuilt
<1>3. DraftInv'
  <2> SUFFICES ASSUME draft # None PROVE DraftInv'
    BY DEF DraftInv
  <2>1. \A i \in draft.wasm :
          i \in draft.imports \/ i \in AdviceNeeds' \/ \E k \in draft.capabilities : IsAnswered(i, k)'
    <3> SUFFICES ASSUME NEW i \in draft.wasm, i \notin draft.imports, i \notin AdviceNeeds
                 PROVE  \E k \in draft.capabilities : IsAnswered(i, k)'
      BY <1>1
    <3>1. PICK k \in draft.capabilities : IsAnswered(i, k)
      BY DEF DraftInv
    <3> QED
      BY <1>1, <3>1
  <2>2. draft \in Drafts'
    BY <1>1 DEF DraftInv
  <2>3. \A x \in ComponentNode' : x = draft.node =>
          /\ draft.pending \subseteq Preds(x)'
          /\ \A y \in Preds(x)' \cap ComponentNode' : NameOf(y)' \in DOMAIN built
          /\ IF IsAdvised(x)' /\ Inner(x) \notin draft.pending
             THEN draft.exports = built[NameOf(Inner(x))'].exports
             ELSE /\ draft.exports = config.gives[template[x]]
                  /\ draft.imports \subseteq config.needs[template[x]]
    BY <1>1 DEF DraftInv
  <2> QED
    BY <2>1, <2>2, <2>3 DEF DraftInv, Inner
<1> QED
  BY <1>1, <1>2, <1>3

\* The component in progress and what it is composed with next.
LEMMA DraftFacts ==
  ASSUME BuildInv, NEW y \in Nodes, NextIs(y)
  PROVE  /\ draft \in Drafts /\ draft.node \in ComponentNode /\ y \in draft.pending
         /\ y \in Preds(draft.node)
         /\ edges[<<y, draft.node>>] = "interceptor" => draft.node \in Clones /\ y = Inner(draft.node)
         /\ y \in ComponentNode =>
              /\ NameOf(y) \in DOMAIN built
              /\ built[NameOf(y)].imports \subseteq Interfaces /\ built[NameOf(y)].wasm \subseteq Interfaces
              /\ built[NameOf(y)].exports \subseteq Interfaces
              /\ built[NameOf(y)].capabilities \subseteq Capabilities
         /\ IsAdvised(draft.node) /\ y = Inner(draft.node) => IsAdvice(y)
<1> USE DEF BuildInv
<1>1. draft # None /\ y \in draft.pending
  BY DEF NextIs
<1>2. draft \in Drafts /\ draft.node \in ComponentNode
  BY <1>1 DEF DraftInv, Drafts
<1>3. /\ y \in Preds(draft.node)
      /\ y \in ComponentNode => NameOf(y) \in DOMAIN built
  BY <1>1, <1>2 DEF DraftInv
<1>4. edges[<<y, draft.node>>] = "interceptor" => draft.node \in Clones /\ y = Inner(draft.node)
  BY <1>2, <1>3, NodeFacts
<1>5. ASSUME y \in ComponentNode
      PROVE  /\ built[NameOf(y)].imports \subseteq Interfaces /\ built[NameOf(y)].wasm \subseteq Interfaces
             /\ built[NameOf(y)].exports \subseteq Interfaces
             /\ built[NameOf(y)].capabilities \subseteq Capabilities
  <2>1. PICK D : built[NameOf(y)] \in Specs(D)
    BY <1>3, <1>5 DEF BuiltTypes
  <2> QED
    BY <2>1 DEF Specs
<1>6. ASSUME IsAdvised(draft.node), y = Inner(draft.node)
      PROVE  IsAdvice(y)
  <2>1. draft.exports = config.gives[template[draft.node]]
    BY <1>1, <1>2, <1>6 DEF DraftInv
  <2>2. edges[<<y, draft.node>>] = "interceptor" /\ AdviceInterface \in draft.exports
    BY <1>2, <1>6, <2>1, NodeFacts DEF IsAdvised
  <2> QED
    BY <2>2 DEF IsAdvice
<1> QED
  BY <1>1, <1>2, <1>3, <1>4, <1>5, <1>6

\* What is in progress keeps its exports when it is linked or composed with anything
\* but what its advice wraps, and nothing is imported that was not, or is not linked.
LEMMA ProgressStep ==
  ASSUME BuildInv, draft # None, draft' \in Drafts, UNCHANGED <<config, nodeMap, template, edges, built>>,
         draft'.node = draft.node, draft'.pending \subseteq draft.pending,
         IsAdvised(draft.node) /\ Inner(draft.node) \in draft.pending => Inner(draft.node) \in draft'.pending,
         draft'.exports = draft.exports, draft'.imports \subseteq draft.imports,
         \A i \in draft'.wasm :
           i \in draft'.imports \/ i \in AdviceNeeds \/ \E k \in draft'.capabilities : IsAnswered(i, k)
  PROVE  BuildInv'
<1> USE DEF BuildInv
<1>1. /\ Finished' /\ ComponentNode' = ComponentNode /\ AdviceNeeds' = AdviceNeeds /\ Drafts' = Drafts
      /\ \A z : Preds(z)' = Preds(z) /\ NameOf(z)' = NameOf(z) /\ IsAdvised(z)' = IsAdvised(z)
      /\ \A k, i : IsAnswered(i, k)' = IsAnswered(i, k)
  BY SameGraph
<1>2. BuiltTypes' /\ WasmInv' /\ ExportsInv'
  BY SameBuilt
<1>3. DraftInv'
  <2>1. \A i \in draft'.wasm :
          i \in draft'.imports \/ i \in AdviceNeeds' \/ \E k \in draft'.capabilities : IsAnswered(i, k)'
    <3> SUFFICES ASSUME NEW i \in draft'.wasm, i \notin draft'.imports, i \notin AdviceNeeds
                 PROVE  \E k \in draft'.capabilities : IsAnswered(i, k)'
      BY <1>1
    <3>1. PICK k \in draft'.capabilities : IsAnswered(i, k)
      OBVIOUS
    <3> QED
      BY <1>1, <3>1
  <2>2. draft' \in Drafts'
    BY <1>1
  <2>3. \A x \in ComponentNode' : x = draft'.node =>
          /\ draft'.pending \subseteq Preds(x)'
          /\ \A y \in Preds(x)' \cap ComponentNode' : NameOf(y)' \in DOMAIN built
          /\ IF IsAdvised(x)' /\ Inner(x) \notin draft'.pending
             THEN draft'.exports = built[NameOf(Inner(x))'].exports
             ELSE /\ draft'.exports = config.gives[template[x]]
                  /\ draft'.imports \subseteq config.needs[template[x]]
    BY <1>1 DEF DraftInv
  <2> QED
    BY <2>1, <2>2, <2>3 DEF DraftInv, Inner
<1> QED
  BY <1>1, <1>2, <1>3

LEMMA LinkStep ==
  ASSUME BuildInv, NEW y \in Nodes, LinkCapability(y)
  PROVE  BuildInv'
<1>1. /\ NextIs(y) /\ y \notin ComponentNode /\ draft # None
      /\ UNCHANGED <<config, nodeMap, template, edges, built>>
      /\ draft' = [draft EXCEPT !.pending = @ \ {y}, !.capabilities = @ \cup {y[1]}]
  BY DEF LinkCapability, NextIs, graphVars
<1>2. draft \in Drafts /\ draft.node \in ComponentNode
  BY <1>1, DraftFacts
<1>3. y[1] \in Capabilities
  BY <1>1, NodeFacts DEF BuildInv
<1>4. draft' = [node |-> draft.node, pending |-> draft.pending \ {y}, imports |-> draft.imports,
                wasm |-> draft.wasm, exports |-> draft.exports, capabilities |-> draft.capabilities \cup {y[1]}]
  BY <1>1, <1>2 DEF Drafts
<1>5. draft' \in Drafts
  BY <1>2, <1>3, <1>4 DEF Drafts
<1>6. IsAdvised(draft.node) => y # Inner(draft.node)
  BY <1>1, <1>2, NodeFacts DEF BuildInv, IsAdvised
<1>7. \A i \in draft'.wasm :
        i \in draft'.imports \/ i \in AdviceNeeds \/ \E k \in draft'.capabilities : IsAnswered(i, k)
  BY <1>1, <1>4 DEF BuildInv, DraftInv
<1> QED
  BY <1>1, <1>4, <1>5, <1>6, <1>7, ProgressStep

\* What a registered component imports is linked through what it brings with it.
LEMMA LinkedBySpec ==
  ASSUME BuildInv, NEW n \in DOMAIN built, NEW caps, built[n].capabilities \subseteq caps, NEW i \in built[n].wasm
  PROVE  i \in AdviceNeeds \/ \E k \in caps : IsAnswered(i, k)
BY DEF BuildInv, WasmInv

LEMMA DependencyStep ==
  ASSUME BuildInv, NEW y \in Nodes, ComposeDependency(y)
  PROVE  BuildInv'
<1> DEFINE spec == built[NameOf(y)]
           wasm == Plug(draft.wasm, spec)
           imports == draft.imports \ spec.exports
           capabilities == draft.capabilities \cup spec.capabilities
<1>1. /\ NextIs(y) /\ y \in ComponentNode /\ ~IsAdvice(y) /\ draft # None
      /\ UNCHANGED <<config, nodeMap, template, edges, built>>
      /\ draft' = [draft EXCEPT !.pending = @ \ {y}, !.imports = imports, !.wasm = wasm,
                                !.exports = draft.exports, !.capabilities = @ \cup spec.capabilities]
  BY DEF ComposeDependency, Composed, NextIs, graphVars
<1>2. /\ draft \in Drafts /\ draft.node \in ComponentNode /\ NameOf(y) \in DOMAIN built
      /\ spec.wasm \subseteq Interfaces /\ spec.capabilities \subseteq Capabilities
      /\ IsAdvised(draft.node) => y # Inner(draft.node)
  BY <1>1, DraftFacts
<1>3. draft' = [node |-> draft.node, pending |-> draft.pending \ {y}, imports |-> imports, wasm |-> wasm,
                exports |-> draft.exports, capabilities |-> capabilities]
  BY <1>1, <1>2 DEF Drafts
<1>4. /\ draft.node \in ComponentNode /\ draft.pending \subseteq Nodes /\ draft.imports \subseteq Interfaces
      /\ draft.wasm \subseteq Interfaces /\ draft.exports \subseteq Interfaces
      /\ draft.capabilities \subseteq Capabilities
  BY <1>2 DEF Drafts
<1>5. draft' \in Drafts
  BY <1>2, <1>3, <1>4 DEF Drafts, Plug
<1>6. \A i \in draft'.wasm :
        i \in draft'.imports \/ i \in AdviceNeeds \/ \E k \in draft'.capabilities : IsAnswered(i, k)
  <2> SUFFICES ASSUME NEW i \in wasm, i \notin imports
               PROVE  i \in AdviceNeeds \/ \E k \in capabilities : IsAnswered(i, k)
    BY <1>3
  <2>1. CASE i \in spec.wasm
    BY <1>2, <2>1, LinkedBySpec
  <2>2. CASE i \in draft.wasm /\ i \notin draft.imports
    BY <1>1, <2>2 DEF BuildInv, DraftInv
  <2> QED
    BY <2>1, <2>2 DEF Plug
<1> QED
  BY <1>1, <1>2, <1>3, <1>5, <1>6, ProgressStep

LEMMA AdviceStep ==
  ASSUME BuildInv, NEW y \in Nodes, ComposeAdvice(y)
  PROVE  BuildInv'
<1> DEFINE spec == built[NameOf(y)]
           x == draft.node
           imports == spec.imports \ spec.exports
           capabilities == draft.capabilities \cup spec.capabilities
<1>1. /\ NextIs(y) /\ y \in ComponentNode /\ IsAdvice(y) /\ draft # None
      /\ UNCHANGED <<config, nodeMap, template, edges, built>>
      /\ draft' = [draft EXCEPT !.pending = @ \ {y}, !.imports = imports, !.wasm = Wrapped(spec),
                                !.exports = spec.exports, !.capabilities = @ \cup spec.capabilities]
  BY DEF ComposeAdvice, Composed, NextIs, graphVars
<1>2. /\ draft \in Drafts /\ x \in ComponentNode /\ NameOf(y) \in DOMAIN built
      /\ y \in draft.pending /\ y \in Preds(x)
      /\ spec.imports \subseteq Interfaces /\ spec.wasm \subseteq Interfaces
      /\ spec.exports \subseteq Interfaces /\ spec.capabilities \subseteq Capabilities
  BY <1>1, DraftFacts
<1>3. x \in Clones /\ y = Inner(x)
  BY <1>1, DraftFacts DEF IsAdvice
<1>4. /\ draft' = [node |-> x, pending |-> draft.pending \ {y}, imports |-> imports, wasm |-> Wrapped(spec),
                   exports |-> spec.exports, capabilities |-> capabilities]
      /\ draft.pending \subseteq Nodes /\ draft.wasm \subseteq Interfaces /\ draft.capabilities \subseteq Capabilities
  BY <1>1, <1>2 DEF Drafts
<1>5. AdviceInterface \in draft.exports
  BY <1>1 DEF IsAdvice
<1>6. Wrapped(spec) \subseteq (draft.wasm \ spec.exports) \cup spec.wasm
  BY <1>5 DEF Wrapped, Plug
<1>7. draft' \in Drafts
  <2>1. Wrapped(spec) \subseteq Interfaces
    BY <1>2, <1>4, <1>6
  <2> QED
    BY <1>2, <1>4, <2>1 DEF Drafts
<1>8. draft.exports = config.gives[template[x]] /\ draft.imports \subseteq config.needs[template[x]]
  BY <1>1, <1>2, <1>3 DEF BuildInv, DraftInv
<1>9. IsAdvised(x) /\ draft.imports \subseteq AdviceNeeds
  <2>1. template[x] \in Components
    BY <1>2, NodeFacts DEF BuildInv
  <2>2. template[x] \in Advice
    BY <1>3, <1>5, <1>8, <2>1 DEF Advice
  <2> QED
    BY <1>3, <1>5, <1>8, <2>2 DEF AdviceNeeds, IsAdvised
<1>10. \A i \in Wrapped(spec) : i \in AdviceNeeds \/ \E k \in capabilities : IsAnswered(i, k)
  <2> SUFFICES ASSUME NEW i \in Wrapped(spec)
               PROVE  i \in AdviceNeeds \/ \E k \in capabilities : IsAnswered(i, k)
    OBVIOUS
  <2>1. CASE i \in spec.wasm
    BY <1>2, <2>1, LinkedBySpec
  <2>2. CASE i \in draft.wasm
    BY <1>1, <1>9, <2>2 DEF BuildInv, DraftInv
  <2> QED
    BY <1>6, <2>1, <2>2
<1>11. /\ Finished' /\ ComponentNode' = ComponentNode /\ AdviceNeeds' = AdviceNeeds /\ Drafts' = Drafts
       /\ \A z : Preds(z)' = Preds(z) /\ NameOf(z)' = NameOf(z) /\ IsAdvised(z)' = IsAdvised(z)
       /\ \A k, i : IsAnswered(i, k)' = IsAnswered(i, k)
  BY <1>1, SameGraph DEF BuildInv
<1>12. BuiltTypes' /\ WasmInv' /\ ExportsInv'
  BY <1>1, SameBuilt DEF BuildInv
<1>13. DraftInv'
  <2>1. \A i \in draft'.wasm : i \in AdviceNeeds' \/ \E k \in draft'.capabilities : IsAnswered(i, k)'
    <3> SUFFICES ASSUME NEW i \in Wrapped(spec), i \notin AdviceNeeds
                 PROVE  \E k \in capabilities : IsAnswered(i, k)'
      BY <1>4, <1>11
    <3>1. PICK k \in capabilities : IsAnswered(i, k)
      BY <1>10
    <3> QED
      BY <1>11, <3>1
  <2>2. draft' \in Drafts'
    BY <1>7, <1>11
  <2>3. \A z \in ComponentNode' : z = draft'.node =>
          /\ draft'.pending \subseteq Preds(z)'
          /\ \A w \in Preds(z)' \cap ComponentNode' : NameOf(w)' \in DOMAIN built
          /\ IsAdvised(z)' /\ Inner(z) \notin draft'.pending
          /\ draft'.exports = built[NameOf(Inner(z))'].exports
    BY <1>1, <1>2, <1>3, <1>4, <1>9, <1>11 DEF BuildInv, DraftInv
  <2> QED
    BY <1>1, <2>1, <2>2, <2>3 DEF DraftInv, Inner
<1> QED
  BY <1>11, <1>12, <1>13 DEF BuildInv

LEMMA DependentsStep ==
  ASSUME BuildInv, AddDependents
  PROVE  BuildInv'
<1> USE DEF BuildInv
<1> DEFINE D(n) == {NameOf(e[2]) : e \in {d \in DOMAIN edges : d[1] = nodeMap[n] /\ edges[d] = "dependency"}}
<1>1. /\ UNCHANGED <<config, nodeMap, template, edges, draft>> /\ draft = None
      /\ built' = [n \in DOMAIN built |-> [built[n] EXCEPT !.dependents = D(n)]]
  BY DEF AddDependents
<1>2. /\ Finished' /\ ComponentNode' = ComponentNode /\ AdviceNeeds' = AdviceNeeds
      /\ \A z : NameOf(z)' = NameOf(z)
      /\ \A k, i : IsAnswered(i, k)' = IsAnswered(i, k)
  BY <1>1, SameGraph
<1>3. \A n \in DOMAIN built :
        /\ built'[n] \in Specs(D(n))
        /\ built'[n].wasm = built[n].wasm /\ built'[n].exports = built[n].exports
        /\ built'[n].capabilities = built[n].capabilities
  <2> SUFFICES ASSUME NEW n \in DOMAIN built
               PROVE  /\ built'[n] \in Specs(D(n))
                      /\ built'[n].wasm = built[n].wasm /\ built'[n].exports = built[n].exports
                      /\ built'[n].capabilities = built[n].capabilities
    OBVIOUS
  <2> HIDE DEF D
  <2>1. PICK E : built[n] \in Specs(E)
    BY DEF BuiltTypes
  <2>2. built'[n] = [built[n] EXCEPT !.dependents = D(n)]
    BY <1>1
  <2> QED
    BY <2>1, <2>2 DEF Specs
<1> HIDE DEF D
<1>4. DOMAIN built' = DOMAIN built
  BY <1>1
<1>5. BuiltTypes'
  BY <1>1, <1>2, <1>3, <1>4 DEF BuiltTypes, Specs
<1>6. WasmInv'
  <2> SUFFICES ASSUME NEW n \in DOMAIN built, NEW i \in built[n].wasm, i \notin AdviceNeeds
               PROVE  \E k \in built[n].capabilities : IsAnswered(i, k)'
    BY <1>2, <1>3, <1>4 DEF WasmInv
  <2>1. PICK k \in built[n].capabilities : IsAnswered(i, k)
    BY DEF WasmInv
  <2> QED
    BY <1>2, <2>1
<1>7. ExportsInv'
  BY <1>1, <1>2, <1>3, <1>4 DEF ExportsInv
<1>8. DraftInv'
  BY <1>1 DEF DraftInv
<1> QED
  BY <1>2, <1>5, <1>6, <1>7, <1>8

-----------------------------------------------------------------------------
LEMMA ComposeStep ==
  ASSUME BuildInv, stage \notin GraphStages, Compose
  PROVE  BuildInv' /\ stage' \notin GraphStages
<1>1. ASSUME NEW x \in ComponentNode, BeginComponent(x) PROVE BuildInv' /\ stage' = stage
  BY <1>1, BeginStep DEF BeginComponent, graphVars
<1>2. ASSUME NEW y \in Nodes, LinkCapability(y) PROVE BuildInv' /\ stage' = stage
  BY <1>2, LinkStep DEF LinkCapability, graphVars
<1>3. ASSUME NEW y \in Nodes, ComposeDependency(y) PROVE BuildInv' /\ stage' = stage
  BY <1>3, DependencyStep DEF ComposeDependency, graphVars
<1>4. ASSUME NEW y \in Nodes, ComposeAdvice(y) PROVE BuildInv' /\ stage' = stage
  BY <1>4, AdviceStep DEF ComposeAdvice, graphVars
<1>5. ASSUME FinishComponent PROVE BuildInv' /\ stage' = stage
  BY <1>5, FinishStep DEF FinishComponent, graphVars
<1>6. ASSUME ComposeFails PROVE BuildInv' /\ stage' \in {"scope", "unsatisfied", "failed"}
  BY <1>6, SameBuild DEF ComposeFails
<1>7. ASSUME AddDependents PROVE BuildInv' /\ stage' = "done"
  BY <1>7, DependentsStep DEF AddDependents
<1>8. ~CreateCapabilities
  BY DEF CreateCapabilities, GraphStages
<1> QED
  BY <1>1, <1>2, <1>3, <1>4, <1>5, <1>6, <1>7, <1>8 DEF Compose, GraphStages

LEMMA CreateStep ==
  ASSUME GraphInv, built = <<>>, draft = None, CreateCapabilities
  PROVE  BuildInv' /\ stage' \notin GraphStages
<1>1. /\ stage = "built" /\ stage' \in {"unknown", "compose", "refused"}
      /\ UNCHANGED <<config, nodeMap, template, edges, built, draft>>
  BY DEF CreateCapabilities
<1>2. Finished
  BY <1>1, BuiltIsFinished
<1>3. BuiltTypes /\ WasmInv /\ ExportsInv /\ DraftInv
  BY DEF BuiltTypes, WasmInv, ExportsInv, DraftInv
<1>4. BuildInv'
  BY <1>1, <1>2, <1>3, SameBuild DEF BuildInv
<1> QED
  BY <1>1, <1>4 DEF GraphStages

LEMMA RegInvStep ==
  ASSUME RegInv, [HostNext]_hostVars
  PROVE  RegInv'
<1>1. ASSUME BuildGraph, UNCHANGED instance PROVE RegInv'
  <2>1. stage \in GraphStages /\ instance = None
    BY <1>1 DEF BuildGraph, GraphNext, AddNodes, AddChains, AddChainsPanics, AddChainsFails, AddImports,
                AddCloneImports, CheckCycles, RegInv, GraphStages
  <2>2. GraphInv /\ built = <<>> /\ draft = None
    BY <2>1 DEF RegInv
  <2>3. GraphInv' /\ built' = <<>> /\ draft' = None
    BY <1>1, <2>2, GraphInvStep DEF BuildGraph
  <2>4. stage' \in GraphStages
    BY <2>3 DEF GraphInv, GraphStages
  <2> QED
    BY <1>1, <2>1, <2>3, <2>4 DEF RegInv
<1>2. ASSUME Compose, UNCHANGED instance PROVE RegInv'
  <2>1. CASE stage \in GraphStages
    <3>1. /\ GraphInv /\ built = <<>> /\ draft = None
      BY <2>1 DEF RegInv
    <3>2. CreateCapabilities /\ instance = None
      BY <1>2, <2>1, <3>1 DEF Compose, BeginComponent, ComposeFails, AddDependents, GraphStages, RegInv
    <3> QED
      BY <1>2, <3>1, <3>2, CreateStep DEF RegInv
  <2>2. CASE stage \notin GraphStages
    <3>1. BuildInv' /\ stage' \notin GraphStages
      BY <1>2, <2>2, ComposeStep DEF RegInv
    <3>2. stage # "done"
      BY <1>2 DEF Compose, CreateCapabilities, BeginComponent, ComposeFails, AddDependents
    <3> QED
      BY <1>2, <3>1, <3>2 DEF RegInv
  <2> QED
    BY <2>1, <2>2
<1>3. ASSUME UNCHANGED registryVars, instance' # None => instance' = instance \/ stage = "done" PROVE RegInv'
  <2>1. UNCHANGED <<config, nodeMap, template, edges, built, draft>> /\ UNCHANGED graphVars /\ stage' = stage
    BY <1>3 DEF registryVars, graphVars
  <2>2. CASE stage \in GraphStages
    <3>1. GraphInv' /\ built' = <<>> /\ draft' = None
      BY <2>1, <2>2, GraphInvStep DEF RegInv
    <3> QED
      BY <1>3, <2>1, <2>2, <3>1 DEF RegInv
  <2>3. CASE stage \notin GraphStages
    <3>1. BuildInv'
      BY <2>1, <2>3, SameBuild DEF RegInv
    <3> QED
      BY <1>3, <2>1, <2>3, <3>1 DEF RegInv
  <2> QED
    BY <2>2, <2>3
<1>4. ASSUME NEW k \in Capabilities, Prepare(k) PROVE RegInv'
  BY <1>3, <1>4 DEF Prepare
<1>5. ASSUME NEW n \in Components, Instantiate(n) PROVE RegInv'
  BY <1>3, <1>5 DEF Instantiate
<1>6. ASSUME UNCHANGED hostVars PROVE RegInv'
  BY <1>3, <1>6 DEF hostVars
<1> QED
  BY <1>1, <1>2, <1>4, <1>5, <1>6 DEF HostNext, Build, RegistryNext

\* The invariant of the graph, the registry and the host.
THEOREM RegistryInvariant == HostSpec => []RegInv
<1>1. HostInit => RegInv
  <2> SUFFICES ASSUME HostInit PROVE RegInv
    OBVIOUS
  <2>1. GraphInit /\ built = <<>> /\ draft = None /\ instance = None
    BY DEF HostInit, RegistryInit
  <2>2. GraphInv
    BY <2>1 DEF GraphInit, GraphInv, NamesInv, EdgesInv, HasChains
  <2>3. stage \in GraphStages
    BY <2>1 DEF GraphInit, GraphStages
  <2> QED
    BY <2>1, <2>2, <2>3 DEF RegInv
<1> QED
  BY <1>1, RegInvStep, PTL DEF HostSpec

\* A component behind advice only is registered with its own exports, whatever the
\* generated wrappers and the order of the composition: Registry::build.
THEOREM AdviceIsTransparentHolds == HostSpec => []AdviceIsTransparent
<1>1. RegInv => AdviceIsTransparent
  <2> SUFFICES ASSUME RegInv, NEW c \in Public,
                      \A i \in Elements(Chain(c)) : AdviceInterface \in config.gives[i]
               PROVE  built[c].exports = config.gives[c]
    BY DEF AdviceIsTransparent
  <2>1. c \in DOMAIN built /\ c \in Components
    BY DEF Public
  <2>2. BuildInv
    BY <2>1 DEF RegInv
  <2> USE DEF BuildInv
  <2>3. c \in DOMAIN nodeMap /\ nodeMap[c] \in ComponentNode /\ NameOf(nodeMap[c]) = c
    BY <2>1, <2>2, NodesHaveNames DEF BuiltTypes
  <2>4. c \in Kept /\ nodeMap[c] = PublicNode(c)
    <3>1. c \notin Innards
      BY <2>1, <2>2, ConfigFacts DEF Finished, Names
    <3> QED
      BY <2>2, <2>3, <3>1 DEF Finished
  <2> DEFINE n == Len(Chain(c))
  <2>5. nodeMap[c] = <<c, n>>
    BY <2>1, <2>4 DEF PublicNode
  <2>6. ASSUME NEW j \in 1..n PROVE AdviceInterface \in config.gives[template[<<c, j>>]]
    <3>1. c \in Intercepted /\ j \in 1..Len(Chain(c))
      BY <2>1, <2>2, <2>6, ConfigFacts DEF Finished
    <3>2. <<c, j>> \in Clones /\ CloneOf(<<c, j>>) \in Elements(Chain(c))
      BY <2>2, <3>1, ClonePlaces DEF Finished
    <3>3. template[<<c, j>>] = CloneOf(<<c, j>>)
      BY <2>2, <3>2 DEF Finished, Held
    <3> QED
      BY <3>2, <3>3
  <2> HIDE DEF n
  <2> QED
    BY <2>1, <2>2, <2>3, <2>5, <2>6 DEF ExportsInv
<1> QED
  BY <1>1, RegistryInvariant, PTL

\* What build() has accepted the host can instantiate, but for what the property
\* names: but at 0.0.x, the registry's rule for imports is at least as strict as the
\* linker's.
THEOREM AcceptedIsInstantiableHolds == HostSpec => []AcceptedIsInstantiable
<1>1. HostInit => AcceptedIsInstantiable
  BY DEF HostInit, AcceptedIsInstantiable
<1>2. ASSUME RegInv, AcceptedIsInstantiable, [HostNext]_hostVars PROVE AcceptedIsInstantiable'
  <2>1. CASE instance' = instance /\ UNCHANGED <<config, template, built>>
    <3>1. Clones' = Clones
      BY <2>1 DEF Clones, Intercepted, Chain
    <3>2. \A k : KindOf(k)' = KindOf(k) /\ OfService(k)' = OfService(k) /\ Linked(k)' = Linked(k)
      BY <2>1 DEF KindOf, OfService, Custom, Linked, InterfacesOf
    <3>3. Advice' = Advice
      BY <2>1, <3>1 DEF Advice
    <3>4. \A n : UncheckedImport(n)' = UncheckedImport(n) /\ LaterPatchOnly(n)' = LaterPatchOnly(n)
      <4>1. \A i, s : IsLinked(i, s)' = IsLinked(i, s)
        BY <2>1, <3>2 DEF IsLinked
      <4>2. \A i, s : IsImportSatisfied(i, s)' = IsImportSatisfied(i, s)
        BY <2>1, <3>2 DEF IsImportSatisfied, InterfacesOf
      <4> QED
        BY <2>1, <3>3, <4>1, <4>2 DEF UncheckedImport, LaterPatchOnly
    <3>5. \A s : Stateful(s)' = Stateful(s)
      BY <3>2 DEF Stateful
    <3> QED
      BY <1>2, <2>1, <3>2, <3>4, <3>5 DEF AcceptedIsInstantiable
  <2>2. ASSUME Build PROVE AcceptedIsInstantiable'
    <3>1. stage # "done"
      BY <2>2 DEF Build, RegistryNext, BuildGraph, GraphNext, AddNodes, AddChains, AddChainsPanics, AddChainsFails,
                  AddImports, AddCloneImports, CheckCycles, Compose, CreateCapabilities, BeginComponent,
                  ComposeFails, AddDependents
    <3>2. instance = None /\ instance' = instance
      BY <1>2, <2>2, <3>1 DEF RegInv, Build
    <3> QED
      BY <3>2 DEF AcceptedIsInstantiable
  <2>3. ASSUME NEW n \in Components, Instantiate(n) PROVE AcceptedIsInstantiable'
    <3> DEFINE spec == built[n]
               stateful == Stateful(spec.capabilities)
    <3>1. /\ stage = "done" /\ n \in DOMAIN built /\ built' = built /\ config' = config /\ template' = template
          /\ \E outcome \in Outcomes(spec) : instance' = [of |-> n, outcome |-> outcome, prepared |-> prepared]
      BY <2>3 DEF Instantiate, Public, registryVars, graphVars
    <3>2. PICK outcome \in Outcomes(spec) : instance' = [of |-> n, outcome |-> outcome, prepared |-> prepared]
      BY <3>1
    <3>3. /\ \A k : KindOf(k)' = KindOf(k) /\ OfService(k)' = OfService(k) /\ Linked(k)' = Linked(k)
          /\ Clones' = Clones
      BY <3>1 DEF KindOf, OfService, Custom, Linked, InterfacesOf, Clones, Intercepted, Chain
    <3>4. Advice' = Advice
      BY <3>1, <3>3 DEF Advice
    <3>5. UncheckedImport(n)' = UncheckedImport(n) /\ LaterPatchOnly(n)' = LaterPatchOnly(n)
      <4>1. \A i, s : IsLinked(i, s)' = IsLinked(i, s)
        BY <3>1, <3>3 DEF IsLinked
      <4>2. \A i, s : IsImportSatisfied(i, s)' = IsImportSatisfied(i, s)
        BY <3>1, <3>3 DEF IsImportSatisfied, InterfacesOf
      <4> QED
        BY <3>1, <3>4, <4>1, <4>2 DEF UncheckedImport, LaterPatchOnly
    <3>6. Stateful(spec.capabilities)' = stateful
      BY <3>1, <3>3 DEF Stateful
    <3>7. outcome = "unlinked" => UncheckedImport(n) \/ LaterPatchOnly(n)
      <4> SUFFICES ASSUME outcome = "unlinked", ~LaterPatchOnly(n) PROVE UncheckedImport(n)
        OBVIOUS
      <4>1. PICK i \in spec.wasm : ~IsLinked(i, spec.capabilities)
        BY <3>2 DEF Outcomes
      <4>2. BuildInv
        BY <1>2, <3>1 DEF RegInv, GraphStages
      <4>3. i \in AdviceNeeds
        <5>1. \A k \in spec.capabilities : IsLinked(i, {k}) => IsLinked(i, spec.capabilities)
          BY DEF IsLinked
        <5>2. \A k \in spec.capabilities :
                IsImportSatisfied(i, {k}) => IsImportSatisfied(i, spec.capabilities)
          BY DEF IsImportSatisfied
        <5>3. \A k \in spec.capabilities : ~IsAnswered(i, k)
          BY <4>1, <5>1, <5>2 DEF IsAnswered, LaterPatchOnly
        <5> QED
          BY <3>1, <4>1, <4>2, <5>3 DEF BuildInv, WasmInv
      <4> QED
        BY <4>1, <4>3 DEF AdviceNeeds, UncheckedImport
    <3>8. outcome = "panicked" => ~(stateful \subseteq prepared)
      BY <3>2 DEF Outcomes
    <3>9. outcome = "clash" => \E k, l \in stateful : k # l /\ KindOf(k) = KindOf(l)
      BY <3>2 DEF Outcomes
    <3> HIDE DEF stateful
    <3> QED
      BY <3>1, <3>2, <3>3, <3>5, <3>6, <3>7, <3>8, <3>9 DEF AcceptedIsInstantiable
  <2>4. ASSUME NEW k \in Capabilities, Prepare(k) PROVE AcceptedIsInstantiable'
    BY <2>1, <2>4 DEF Prepare, registryVars, graphVars
  <2>5. ASSUME UNCHANGED hostVars PROVE AcceptedIsInstantiable'
    BY <2>1, <2>5 DEF hostVars, registryVars, graphVars
  <2> QED
    BY <1>2, <2>2, <2>3, <2>4, <2>5 DEF HostNext
<1> QED
  BY <1>1, <1>2, RegistryInvariant, PTL DEF HostSpec

-----------------------------------------------------------------------------
\* What is below a node: itself and what is below that which it depends on.
LEMMA BelowItsPreds ==
  ASSUME NEW x \in Nodes
  PROVE  Below(x) = {x} \cup UNION {Below(y) : y \in Preds(x)}
<1> DEFINE rest == {x} \cup UNION {Below(y) : y \in Preds(x)}
<1>1. \A z : Preds(z) \subseteq Nodes
  BY DEF Preds
<1>2. \A z \in Nodes : Below(z) \subseteq Nodes /\ z \in Below(z)
  BY DEF Below, Upstream
<1>3. ASSUME NEW z \in Nodes, NEW y \in Below(z) PROVE Preds(y) \subseteq Below(z)
  <2> SUFFICES ASSUME NEW w \in Preds(y), NEW S \in Upstream(z) PROVE w \in S
    BY <1>1 DEF Below
  <2>1. y \in S
    BY <1>3 DEF Below
  <2> QED
    BY <2>1 DEF Upstream
<1>4. ASSUME NEW y \in Preds(x) PROVE Below(y) \subseteq Below(x)
  <2> SUFFICES ASSUME NEW w \in Below(y), NEW S \in Upstream(x) PROVE w \in S
    BY DEF Below
  <2>1. S \in SUBSET Nodes /\ x \in S /\ \A z \in S : Preds(z) \subseteq S
    BY DEF Upstream
  <2>2. y \in S
    BY <2>1
  <2>3. S \in Upstream(y)
    BY <2>1, <2>2 DEF Upstream
  <2> QED
    BY <2>3 DEF Below
<1>5. rest \in Upstream(x)
  <2>1. rest \in SUBSET Nodes
    BY <1>1, <1>2
  <2>2. ASSUME NEW y \in rest PROVE Preds(y) \subseteq rest
    <3>1. CASE y = x
      BY <1>1, <1>2, <3>1
    <3>2. CASE y # x
      <4>1. PICK z \in Preds(x) : y \in Below(z)
        BY <2>2, <3>2
      <4> QED
        BY <1>1, <1>3, <4>1
    <3> QED
      BY <3>1, <3>2
  <2> QED
    BY <2>1, <2>2 DEF Upstream
<1>6. Below(x) \subseteq rest
  BY <1>5 DEF Below
<1>7. rest \subseteq Below(x)
  BY <1>2, <1>4
<1> QED
  BY <1>6, <1>7

\* The capabilities among some nodes and what is below them.
CapabilitiesOf(X) == {k \in Capabilities : \E y \in X : <<k, 0>> \in Below(y)}

\* So far a component is linked with what its dependencies that were composed reach.
LinkInv ==
  /\ LinkedWithWhatItReaches
  /\ draft # None => draft.capabilities = CapabilitiesOf(Preds(draft.node) \ draft.pending)

\* A capability depends on nothing; a component is none.
LEMMA CapabilityNodes ==
  ASSUME Finished
  PROVE  /\ \A y \in Nodes \ ComponentNode : CapabilitiesOf({y}) = {y[1]}
         /\ \A x \in ComponentNode : CapabilitiesOf({x}) = CapabilitiesOf(Preds(x))
<1> USE DEF Finished
<1>1. \A x \in Clones : x \in ComponentNode
  <2>1. \A x \in Clones : template[x] \in Elements(Chain(x[1])) /\ x[1] \in Intercepted
    BY ClonePlaces DEF Held
  <2> QED
    BY <2>1 DEF ComponentNode
<1>2. \A y \in Nodes \ ComponentNode : y = <<y[1], 0>> /\ y[1] \in Capabilities
  BY <1>1, NodeFacts
<1>3. \A k \in Capabilities : <<k, 0>> \notin ComponentNode
  <2> SUFFICES ASSUME NEW k \in Capabilities, <<k, 0>> \in ComponentNode PROVE FALSE
    OBVIOUS
  <2>1. k \in Components
    BY NodeFacts
  <2> QED
    BY <2>1, GraphAssumption
<1>4. ASSUME NEW y \in Nodes \ ComponentNode PROVE Preds(y) = {}
  <2> SUFFICES ASSUME NEW z, <<z, y>> \in DOMAIN edges PROVE FALSE
    BY DEF Preds
  <2>1. y \in Clones \/ (y = <<y[1], 0>> /\ y[1] \in Components)
    BY DEF ChainEdges, ImportEdges, CloneEdges
  <2> QED
    BY <1>1, <1>2, <2>1, GraphAssumption
<1>5. ASSUME NEW y \in Nodes \ ComponentNode PROVE CapabilitiesOf({y}) = {y[1]}
  <2>1. Below(y) = {y}
    BY <1>4, BelowItsPreds
  <2> QED
    BY <1>2, <2>1 DEF CapabilitiesOf
<1>6. ASSUME NEW x \in ComponentNode PROVE CapabilitiesOf({x}) = CapabilitiesOf(Preds(x))
  <2>1. x \in Nodes
    BY DEF ComponentNode
  <2> QED
    BY <1>3, <2>1, BelowItsPreds DEF CapabilitiesOf
<1> QED
  BY <1>5, <1>6

\* What is composed with next adds what it reaches.
LEMMA ReachesMore ==
  ASSUME BuildInv, LinkInv, NEW y \in Nodes, NextIs(y)
  PROVE  CapabilitiesOf(Preds(draft.node) \ (draft.pending \ {y})) = draft.capabilities \cup CapabilitiesOf({y})
<1>1. y \in draft.pending /\ y \in Preds(draft.node) /\ draft # None
  BY DraftFacts DEF NextIs
<1> QED
  BY <1>1 DEF LinkInv, CapabilitiesOf

\* By the node of the name.
LEMMA ReachedIsOf ==
  ASSUME NEW n
  PROVE  Reached(n) = CapabilitiesOf({nodeMap[n]})
BY DEF Reached, CapabilitiesOf

\* Steps that leave the graph alone leave alone what is reached.
LEMMA SameReach ==
  ASSUME Finished, UNCHANGED <<config, nodeMap, template, edges>>
  PROVE  \A n, X : Reached(n)' = Reached(n) /\ CapabilitiesOf(X)' = CapabilitiesOf(X)
<1>1. Nodes' = Nodes /\ \A x : Preds(x)' = Preds(x)
  BY SameGraph
<1>2. \A x : Upstream(x)' = Upstream(x)
  BY <1>1 DEF Upstream
<1>3. \A x : Below(x)' = Below(x)
  BY <1>1, <1>2 DEF Below
<1> QED
  BY <1>3 DEF Reached, CapabilitiesOf

\* Every step keeps what components are linked with.
LEMMA LinkInvStep ==
  ASSUME RegInv, LinkInv, [HostNext]_hostVars
  PROVE  LinkInv'
<1>1. CASE stage \in GraphStages
  <2>1. built = <<>> /\ draft = None
    BY <1>1 DEF RegInv
  <2>2. built' = <<>> /\ draft' = None
    BY <1>1, <2>1 DEF HostNext, Build, RegistryNext, BuildGraph, Compose, CreateCapabilities, BeginComponent,
       ComposeFails, AddDependents, Prepare, Instantiate, registryVars, hostVars, GraphStages
  <2> QED
    BY <2>2 DEF LinkInv, LinkedWithWhatItReaches
<1>2. CASE stage \notin GraphStages
  <2>0. BuildInv /\ Finished
    BY <1>2 DEF RegInv, BuildInv
  <2>1. UNCHANGED <<config, nodeMap, template, edges>>
    BY <1>2 DEF HostNext, Build, RegistryNext, BuildGraph, GraphNext, AddNodes, AddChains, AddChainsPanics,
       AddChainsFails, AddImports, AddCloneImports, CheckCycles, Compose, CreateCapabilities, BeginComponent,
       LinkCapability, ComposeDependency, ComposeAdvice, FinishComponent,
       ComposeFails, AddDependents, Prepare, Instantiate, graphVars, registryVars, hostVars, GraphStages
  <2>2. \A n, X : Reached(n)' = Reached(n) /\ CapabilitiesOf(X)' = CapabilitiesOf(X)
    BY <2>0, <2>1, SameReach
  <2>3. ComponentNode' = ComponentNode /\ \A x : Preds(x)' = Preds(x) /\ NameOf(x)' = NameOf(x)
    BY <2>0, <2>1, SameGraph
  <2>4. ASSUME built' = built, draft' = draft PROVE LinkInv'
    BY <2>2, <2>3, <2>4 DEF LinkInv, LinkedWithWhatItReaches
  <2>5. ASSUME NEW x \in ComponentNode, BeginComponent(x) PROVE LinkInv'
    <3>1. built' = built /\ draft'.node = x /\ draft'.pending = Preds(x) /\ draft'.capabilities = {}
      BY <2>5 DEF BeginComponent
    <3>2. CapabilitiesOf(Preds(x) \ Preds(x)) = {}
      BY DEF CapabilitiesOf
    <3> QED
      BY <2>2, <2>3, <3>1, <3>2 DEF LinkInv, LinkedWithWhatItReaches
  <2>6. ASSUME NEW y \in Nodes, NextIs(y), built' = built, draft'.node = draft.node,
               draft'.pending = draft.pending \ {y},
               draft'.capabilities = draft.capabilities \cup CapabilitiesOf({y})
        PROVE  LinkInv'
    BY <2>0, <2>2, <2>3, <2>6, ReachesMore DEF LinkInv, LinkedWithWhatItReaches
  <2>7. ASSUME NEW y \in Nodes, LinkCapability(y) PROVE LinkInv'
    <3>1. NextIs(y) /\ y \notin ComponentNode /\ built' = built /\ draft \in Drafts
      BY <2>0, <2>7, DraftFacts DEF LinkCapability
    <3>2. /\ draft'.node = draft.node /\ draft'.pending = draft.pending \ {y}
          /\ draft'.capabilities = draft.capabilities \cup {y[1]}
      BY <2>7, <3>1 DEF LinkCapability, Drafts
    <3>3. CapabilitiesOf({y}) = {y[1]}
      BY <2>0, <3>1, CapabilityNodes
    <3> QED
      BY <2>6, <3>1, <3>2, <3>3
  <2>8. ASSUME NEW y \in Nodes, ComposeDependency(y) \/ ComposeAdvice(y) PROVE LinkInv'
    <3>1. NextIs(y) /\ y \in ComponentNode /\ built' = built
      BY <2>8 DEF ComposeDependency, ComposeAdvice
    <3>2. draft \in Drafts /\ NameOf(y) \in DOMAIN built
      BY <2>0, <3>1, DraftFacts
    <3>3. /\ draft'.node = draft.node /\ draft'.pending = draft.pending \ {y}
          /\ draft'.capabilities = draft.capabilities \cup built[NameOf(y)].capabilities
      BY <2>8, <3>2 DEF ComposeDependency, ComposeAdvice, Composed, Drafts
    <3>4. nodeMap[NameOf(y)] = y
      BY <2>0, <3>1, NodesHaveNames
    <3>5. built[NameOf(y)].capabilities = CapabilitiesOf({y})
      BY <3>2, <3>4, ReachedIsOf DEF LinkInv, LinkedWithWhatItReaches
    <3> QED
      BY <2>6, <3>1, <3>3, <3>5
  <2>9. ASSUME FinishComponent PROVE LinkInv'
    <3> DEFINE n == NameOf(draft.node)
    <3>1. draft # None /\ draft.pending = {} /\ draft' = None
      BY <2>9 DEF FinishComponent
    <3>2. draft.node \in ComponentNode /\ draft.node \in Nodes
      BY <2>0, <3>1 DEF BuildInv, DraftInv, Drafts, ComponentNode
    <3>3. nodeMap[n] = draft.node
      BY <2>0, <3>2, NodesHaveNames
    <3>4. draft.capabilities = Reached(n)
      <4>1. draft.capabilities = CapabilitiesOf(Preds(draft.node))
        BY <3>1 DEF LinkInv
      <4>2. CapabilitiesOf(Preds(draft.node)) = CapabilitiesOf({draft.node})
        BY <2>0, <3>2, CapabilityNodes
      <4> QED
        BY <3>3, <4>1, <4>2, ReachedIsOf
    <3>5. /\ DOMAIN built' = DOMAIN built \cup {n}
          /\ \A m \in DOMAIN built' :
               built'[m].capabilities = IF m = n THEN draft.capabilities ELSE built[m].capabilities
      BY <2>9 DEF FinishComponent
    <3> HIDE DEF n
    <3> QED
      BY <2>2, <3>1, <3>4, <3>5 DEF LinkInv, LinkedWithWhatItReaches
  <2>10. ASSUME AddDependents PROVE LinkInv'
    <3>1. draft' = draft /\ draft = None /\ DOMAIN built' = DOMAIN built
      BY <2>10 DEF AddDependents
    <3>2. \A m \in DOMAIN built : built'[m].capabilities = built[m].capabilities
      <4> SUFFICES ASSUME NEW m \in DOMAIN built PROVE built'[m].capabilities = built[m].capabilities
        OBVIOUS
      <4>1. PICK D : built[m] \in Specs(D)
        BY <2>0 DEF BuildInv, BuiltTypes
      <4>2. \E D2 : built'[m] = [built[m] EXCEPT !.dependents = D2]
        BY <2>10 DEF AddDependents
      <4> QED
        BY <4>1, <4>2 DEF Specs
    <3> QED
      BY <2>2, <3>1, <3>2 DEF LinkInv, LinkedWithWhatItReaches
  <2> QED
    <3>1. ASSUME Compose PROVE LinkInv'
      BY <2>4, <2>5, <2>7, <2>8, <2>9, <2>10, <3>1 DEF Compose, CreateCapabilities, ComposeFails
    <3>2. ASSUME BuildGraph \/ (\E k \in Capabilities : Prepare(k)) \/ (\E n \in Components : Instantiate(n))
                 \/ UNCHANGED hostVars
          PROVE  LinkInv'
      BY <2>4, <3>2 DEF BuildGraph, Prepare, Instantiate, registryVars, hostVars
    <3> QED
      BY <3>1, <3>2 DEF HostNext, Build, RegistryNext
<1> QED
  BY <1>1, <1>2

\* A registered component is linked with the capabilities that it and its dependencies
\* reach in the graph, and no others, in whatever order they are composed (registry.rs).
THEOREM LinkedWithWhatItReachesHolds == HostSpec => []LinkedWithWhatItReaches
<1>1. HostInit => LinkInv
  BY DEF HostInit, RegistryInit, LinkInv, LinkedWithWhatItReaches
<1>2. LinkInv => LinkedWithWhatItReaches
  BY DEF LinkInv
<1> QED
  BY <1>1, <1>2, LinkInvStep, RegistryInvariant, PTL DEF HostSpec

-----------------------------------------------------------------------------
\* The graph in front of the registries and the host.
GraphOfHost ==
  /\ NobodyBypassesInterceptors
  /\ ChainsInCallOrder
  /\ EveryImportIsLinked
  /\ RejectsOnlyCircular

RightWhileBuilding == stage \in GraphStages => GraphOfHost

\* As long as the graph is built, its own invariant holds.
LEMMA WhileBuilding == HostSpec => []RightWhileBuilding
<1>1. HostInit => CheckedInv
  BY DEF HostInit, RegistryInit, GraphInit, CheckedInv
<1>2. ASSUME RegInv, CheckedInv, [HostNext]_hostVars PROVE CheckedInv'
  <2>1. CASE BuildGraph \/ UNCHANGED graphVars
    BY <1>2, <2>1, CheckedInvStep DEF BuildGraph
  <2>2. CASE ~(BuildGraph \/ UNCHANGED graphVars)
    <3>1. Compose
      BY <1>2, <2>2 DEF HostNext, Build, RegistryNext, Prepare, Instantiate, hostVars, registryVars
    <3>2. stage' \notin {"cyclic", "built"}
      BY <2>2, <3>1 DEF Compose, CreateCapabilities, BeginComponent, LinkCapability, ComposeDependency,
         ComposeAdvice, FinishComponent, ComposeFails, AddDependents
    <3> QED
      BY <3>2 DEF CheckedInv
  <2> QED
    BY <2>1, <2>2
<1>3. RegInv /\ CheckedInv => RightWhileBuilding
  BY GraphInvNoBypass, GraphInvCallOrder, GraphInvImports, CheckedIsCircular
     DEF RegInv, GraphOfHost, RightWhileBuilding
<1> QED
  BY <1>1, <1>2, <1>3, RegistryInvariant, PTL DEF HostSpec

\* What is built from the graph leaves it as it is: the chains, the imports and the check for
\* cycles are right in everything that Registry::build and the host do later.
THEOREM GraphOfHostHolds == HostSpec => []GraphOfHost
<1>1. HostInit => GraphOfHost
  <2> SUFFICES ASSUME HostInit PROVE GraphOfHost
    OBVIOUS
  <2>1. GraphInit
    BY DEF HostInit, RegistryInit
  <2>2. GraphInv /\ CheckedInv
    BY <2>1 DEF GraphInit, GraphInv, NamesInv, EdgesInv, HasChains, CheckedInv
  <2> QED
    BY <2>2, GraphInvNoBypass, GraphInvCallOrder, GraphInvImports, CheckedIsCircular DEF GraphOfHost
<1>2. ASSUME RegInv, GraphOfHost, [HostNext]_hostVars, RightWhileBuilding' PROVE GraphOfHost'
  <2> SUFFICES ASSUME stage' \notin GraphStages PROVE GraphOfHost'
    BY <1>2 DEF RightWhileBuilding
  <2>1. ~BuildGraph
    BY DEF BuildGraph, GraphNext, AddNodes, AddChains, AddChainsPanics, AddChainsFails, AddImports,
       AddCloneImports, CheckCycles, GraphStages
  <2>2. UNCHANGED <<config, nodeMap, template, edges>> /\ (stage = "built" \/ stage \notin GraphStages)
    <3>1. CASE UNCHANGED graphVars
      BY <3>1 DEF graphVars
    <3>2. CASE CreateCapabilities \/ ComposeFails \/ AddDependents
      BY <3>2 DEF CreateCapabilities, ComposeFails, AddDependents, GraphStages
    <3>3. UNCHANGED graphVars \/ CreateCapabilities \/ ComposeFails \/ AddDependents
      BY <1>2, <2>1 DEF HostNext, Build, RegistryNext, Compose, BeginComponent, LinkCapability, ComposeDependency,
         ComposeAdvice, FinishComponent, Prepare, Instantiate, hostVars, registryVars
    <3> QED
      BY <3>1, <3>2, <3>3
  <2>3. stage \notin {"nodes", "chains", "panicked", "undefined"}
    BY <2>2 DEF GraphStages
  <2>4. NobodyBypassesInterceptors'
    BY <1>2, <2>2 DEF GraphOfHost, NobodyBypassesInterceptors, Chain
  <2>5. ChainsInCallOrder'
    <3> DEFINE InOrder(c, n) == /\ nodeMap[c] = <<c, n>>
                                /\ template[<<c, 0>>] = c
                                /\ \A i \in 1..n : /\ template[<<c, n - i + 1>>] = Chain(c)[i]
                                                   /\ <<<<c, i - 1>>, <<c, i>>>> \in DOMAIN edges
                                                   /\ edges[<<<<c, i - 1>>, <<c, i>>>>] = "interceptor"
    <3>1. Intercepted' = Intercepted
      BY <2>2 DEF Intercepted, Chain
    <3>2. \A c \in Intercepted : InOrder(c, Len(Chain(c)))
      BY <1>2, <2>3 DEF GraphOfHost, ChainsInCallOrder
    <3>3. \A c, n : InOrder(c, n) <=> InOrder(c, n)'
      BY <2>2 DEF Chain
    <3>4. \A c : Len(Chain(c))' = Len(Chain(c))
      BY <2>2 DEF Chain
    <3>5. \A c \in Intercepted' : InOrder(c, Len(Chain(c)))'
      <4> HIDE DEF InOrder
      <4> QED
        BY <3>1, <3>2, <3>3, <3>4
    <3> QED
      BY <3>5 DEF ChainsInCallOrder
  <2>6. EveryImportIsLinked' /\ RejectsOnlyCircular'
    BY DEF EveryImportIsLinked, RejectsOnlyCircular, HasAllEdges, GraphStages
  <2> QED
    BY <2>4, <2>5, <2>6 DEF GraphOfHost
<1> QED
  BY <1>1, <1>2, WhileBuilding, RegistryInvariant, PTL DEF HostSpec

=============================================================================
