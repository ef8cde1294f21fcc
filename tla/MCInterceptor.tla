---------------------------- MODULE MCInterceptor ----------------------------
(***************************************************************************)
(* Worlds of one function of each shape, and worlds with several exports   *)
(* and patterns, for TLC.                                                  *)
(***************************************************************************)
EXTENDS Interceptor

Func(n, ps, r, flats, layout) ==
  [name |-> n, signature |-> [params |-> ps, result |-> r, flats |-> flats, layout |-> layout]]
Plain(n) == Func(n, <<>>, None, <<>>, 0)

\* Functions by the WIT type of their result.
Texting(ps)  == Func("f", ps, "str", <<4, 4>>, 8)
Bytes(ps)    == Func("f", ps, "complex", <<4, 4>>, 8)
Wide(ps)     == Func("f", ps, "wide", <<8>>, 8)
Nothing(ps)  == Func("f", ps, None, <<>>, 0)
\* record { id: u32, name: string, ts: u64 }
Entity(ps)   == Func("f", ps, "complex", <<4, 4, 4, 8>>, 24)
\* result<record { id: u8, name: string, ts: u64 }, string>
Fallible(ps) == Func("f", ps, "complex", <<4, 4, 4, 4, 8>>, 32)

World(f) == [exports |-> <<[iface |-> "i", functions |-> <<f>>]>>, patterns |-> {}]

Shapes ==
  {World(f) : f \in {Texting(<<>>), Texting(<<"str">>), Wide(<<"wide">>), Nothing(<<"complex", "narrow">>),
                     Bytes(<<"complex">>), Entity(<<>>), Fallible(<<>>), Fallible(<<"str">>)}}

\* Direct functions come before interfaces; f is in two interfaces and direct too.
Wired ==
  {[exports |-> <<[iface |-> None, functions |-> <<Plain("f")>>], [iface |-> None, functions |-> <<Plain("g")>>],
                  [iface |-> "i", functions |-> <<Plain("f"), Plain("g")>>],
                  [iface |-> "j", functions |-> <<Plain("f"), Plain("h")>>],
                  [iface |-> "k", functions |-> <<Plain("f")>>]>>,
    patterns |-> ps] :
     ps \in {{}} \cup {{[iface |-> i, function |-> f]} : i \in {None, {"i", "k"}, {"j"}}, f \in {{"f"}, {"g", "h"}}}
                 \cup {{[iface |-> {"i"}, function |-> {"g"}], [iface |-> {"k"}, function |-> {"f"}],
                        [iface |-> None, function |-> {"h"}]}}}

\* Direct functions around an interface: valid only if not all of them are wrapped.
Interleaved ==
  {[exports |-> <<[iface |-> None, functions |-> <<Plain("f")>>],
                  [iface |-> "i", functions |-> <<Plain("h"), Plain("g")>>],
                  [iface |-> None, functions |-> <<Plain("g")>>]>>,
    patterns |-> ps] :
     ps \in {{}} \cup {{[iface |-> None, function |-> f]} : f \in {{"f", "h"}, {"h", "g"}, {"f"}, {"g"}}}}

MCCells == 0..70
MCWorlds == Shapes \cup Wired \cup Interleaved

=============================================================================
