--------------------------- MODULE MCConfiguration ---------------------------
(***************************************************************************)
(* Configurations of one or two paths and up to two services, for TLC.     *)
(***************************************************************************)
EXTENDS Configuration, TLC

S(x)       == <<"string", x>>
Env(k, d)  == <<"placeholder", <<"process:env", k, d>>>>
Other      == <<"placeholder", <<"secret", "x", None>>>>
List(s)    == <<"array", s>>
Table      == <<"table", 0>>

MCEnvironment == "SET" :> "value"
MCReserved    == {"_x"}

Def(c, n, props)  == [category |-> c, name |-> n, properties |-> props]
Uri               == <<"uri">> :> S("u")
Component(n, props) == Def("component", n, Uri @@ props)
Capability(n, props) == Def("capability", n, (<<"type">> :> S("t")) @@ props)
Server(n, props)  == Def("server", n, props)

Components_ ==
  {Component(n, props) : n \in {"a", "_x"}, props \in {<<>>, <<"imports">> :> List(<<S("b")>>)}} \cup
  {Component("b", props) : props \in
     {<<"imports">> :> List(<<S("a"), S("b")>>),    <<"imports">> :> List(<<S("_x")>>),
      <<"imports">> :> List(<<<<"number", "1">>>>), <<"imports">> :> S("a"),
      <<"scope">> :> S("package"),                  <<"scope">> :> S("galaxy"),
      <<"config", "k">> :> Env("SET", None),        <<"config", "k">> :> Env("UNSET", None),
      <<"config", "k">> :> List(<<S("x"), Env("UNSET", "default")>>), <<"config", "k", "l">> :> Other,
      <<"config">> :> Table,                        <<"config">> :> S("flat"),
      <<"labels", "l">> :> <<"number", "1">>,       <<"labels", "l">> :> List(<<>>),
      <<"watched">> :> S("w"),                      <<"unknown">> :> S("w")}}
Capabilities_ ==
  {Capability(n, props) : n \in {"a", "b"},
     props \in {<<>>, <<"any">> :> Env("SET", None), <<"any">> :> List(<<Other>>), <<"scope">> :> S("package")}}
Others ==
  {Def("subscription", "a", <<"component">> :> S("a")),
   Def("subscription", "a", <<"channel">> :> S("a")),
   Def("subscription", "a", (<<"component">> :> S("a")) @@ (<<"param-mapping", "p">> :> S("{body}"))),
   Server("s", (<<"type">> :> S("http")) @@ (<<"port">> :> <<"number", "80">>)),
   Server("s", (<<"type">> :> S("http")) @@ (<<"port">> :> S("80"))),
   Server("s", (<<"type">> :> S("grpc")) @@ (<<"watched">> :> S("w"))),
   Server("s", (<<"type">> :> S("grpc")) @@ (<<"port">> :> <<"number", "80">>)),
   Server("s", (<<"type">> :> List(<<S("http")>>))),
   Server("s", <<"port">> :> <<"number", "80">>)}

Toml(tables)    == [kind |-> "toml", name |-> "f", wellFormed |-> TRUE, tables |-> tables]
Wasm(kind, n)   == [kind |-> kind, name |-> n, wellFormed |-> TRUE, tables |-> <<>>]
Paths ==
  {Toml(<<d>>) : d \in Components_ \cup Capabilities_ \cup Others} \cup
  {Toml(<<>>), [Toml(<<>>) EXCEPT !.wellFormed = FALSE], Wasm("wasm", "a"), Wasm("oci", "b"), Wasm("txt", "a")}

\* The HTTP server's handler, others for servers, one that reads a property of components
\* and one of capabilities, and one that wants the components themselves.
Service(c, sel, claimed, type, required) ==
  [claims |-> {[category |-> c, selector |-> sel]}, claimed |-> claimed, type |-> type,
   required |-> required, lax |-> {}]
Kind(op, x) == {[key |-> <<"type">>, op |-> op, texts |-> {x}]}
Http    == Service("server", Kind("in", "http"), {"server"} \X {"type", "port"}, [port |-> "number"], {"port"})
Grpc    == Service("server", Kind("notIn", "http"), {<<"server", "watched">>}, [watched |-> "string"], {})
Untyped == Service("server", {[key |-> <<"type">>, op |-> "doesNotExist", texts |-> {}]}, {}, <<>>, {})
Typed   == Service("server", {[key |-> <<"type">>, op |-> "exists", texts |-> {}]}, {<<"server", "port">>}, <<>>, {})
Watcher == Service("watch", {}, {<<"component", "watched">>, <<"capability", "any">>}, <<>>, {})
Needy   == Service("server", Kind("in", "grpc"), {}, <<>>, {"port"})
Thief   == Service("component", Kind("in", "x"), {<<"component", "uri">>}, <<>>, {})

MCInputs ==
  {[loaders |-> l, paths |-> ps, handlers |-> hs] :
     l \in {<<{"toml"}, {"wasm", "oci"}>>}, ps \in {<<>>} \cup {<<p>> : p \in Paths} \cup (Paths \X Paths),
     hs \in {<<>>, <<MessagingHandler>>, <<Http, Watcher>>, <<Grpc, Http>>, <<Untyped, Http>>}} \cup
  {[loaders |-> l, paths |-> <<p>>, handlers |-> hs] :
     l \in {<<{"toml"}, {"wasm", "oci"}, {"txt"}>>, <<{"toml"}, {"wasm", "toml"}>>},
     p \in Paths, hs \in {<<>>, <<Thief>>, <<Http, Typed>>, <<Needy, Http>>, <<Watcher, Watcher>>}}

=============================================================================
