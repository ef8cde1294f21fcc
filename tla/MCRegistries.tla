----------------------------- MODULE MCRegistries -----------------------------
(***************************************************************************)
(* Configurations of three components and two capabilities, for TLC.       *)
(***************************************************************************)
EXTENDS Host, TLC

CONSTANTS a, b, c, k, l

Streams(v)  == [name |-> "io/streams", version |-> v]
Older       == Streams(<<0, 2, 6>>)
Newer       == Streams(<<0, 2, 12>>)
Logs        == [name |-> "otel/logs", version |-> <<0, 2, 0, 2>>]
Cache(p)    == [name |-> "cache", version |-> <<0, 0, p>>]
Api(n)      == [name |-> n, version |-> <<1, 0, 0>>]
MCAdvice    == Api("advice")
MCStore     == Api("store")
MCInterfaces ==
  {Older, Newer, Logs, Cache(1), Cache(2), MCAdvice, MCStore} \cup {Api(n) : n \in {"a", "b", "c"}}

Otel        == <<"custom", "otel">>
Files       == <<"filesystem", "p2">>
Cached      == <<"custom", "cache">>
MCFactories == "otel" :> {Logs} @@ "cache" :> {Cache(2)}
MCServices  == {"otel"}
MCKinds     == {Otel, Files, Cached, <<"custom", "x">>, <<"p2", "">>, <<"random", "">>, <<"cli", "p2">>, <<"cli", "p1">>}

\* The graphs: b may intercept a, alone, twice or with c, and be intercepted by
\* c; each may import others.  <<k>> names an interceptor that is no component.
Graphs ==
  {[interceptors |-> (a :> ia @@ b :> ib @@ c :> <<>>),
    imports      |-> (a :> ma @@ b :> mb @@ c :> mc)] :
     ia \in {<<>>, <<b>>, <<b, b>>, <<b, c>>, <<c, b>>, <<k>>}, ib \in {<<>>, <<c>>},
     ma \in SUBSET {b, k}, mb \in {{}, {a}, {c}, {k}}, mc \in {{}, {b}, {l}}}

\* The bytes: each of b and c may export an interface of its own, that of a (a
\* plain interceptor, which imports it too), or advice.
Binaries ==
  {[needs |-> (a :> na @@ b :> wb.needs @@ c :> wc.needs),
    gives |-> (a :> {Api("a")} @@ b :> wb.gives @@ c :> wc.gives)] :
     na \in {{}, {Older}, {Api("b"), MCStore}},
     wb \in {[needs |-> {Newer},           gives |-> {Api("b")}],
             [needs |-> {Api("a"), Older}, gives |-> {Api("a")}],
             [needs |-> {Older},           gives |-> {Api("b"), MCAdvice}],
             [needs |-> {Api("c")},        gives |-> {MCAdvice}]},
     wc \in {[needs |-> {Logs},            gives |-> {Api("c")}],
             [needs |-> {Api("a")},        gives |-> {Api("a")}],
             [needs |-> {},                gives |-> {Api("c"), MCAdvice}]}}

\* The rest: the types of k and l, and scopes and types that are refused.
Settings ==
  {[scoped |-> {},  kind |-> k :> Files @@ l :> Otel],
   [scoped |-> {},  kind |-> k :> Otel @@ l :> Otel],
   [scoped |-> {},  kind |-> k :> <<"random", "">> @@ l :> <<"p2", "">>],
   [scoped |-> {b}, kind |-> k :> Files @@ l :> <<"cli", "p2">>],
   [scoped |-> {},  kind |-> k :> <<"custom", "x">> @@ l :> <<"cli", "p1">>]}


\* A capability of version 0.0.2, and a that imports it, or the version before.
Patches == {[w EXCEPT !.needs[a] = {Cache(p)}] : w \in Binaries, p \in {1, 2}}
CacheSetting == [scoped |-> {}, kind |-> k :> Cached @@ l :> Otel]

MCConfigurations ==
  {g @@ x[1] @@ x[2] : g \in Graphs, x \in (Binaries \X Settings) \cup (Patches \X {CacheSetting})}

=============================================================================
