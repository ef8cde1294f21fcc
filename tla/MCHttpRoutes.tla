----------------------------- MODULE MCHttpRoutes -----------------------------
(***************************************************************************)
(* Servers of one or two routes and the requests to them, for TLC.         *)
(***************************************************************************)
EXTENDS HttpRoutes, TLC

Lit(n) == <<"literal", n>>
Cap(n) == <<"capture", n>>
Anon   == <<"anonymous", "">>

Spec(n, kind, value, capture) == [name |-> n, kind |-> kind, value |-> value, capture |-> capture]

Route ==
  [method |-> "POST", path |-> <<Lit("u")>>, query |-> <<>>, type |-> None,
   component |-> TRUE, function |-> TRUE, channel |-> FALSE, timed |-> FALSE, resolves |-> TRUE,
   mapping |-> {}, writes |-> {}, needs |-> {}, takes |-> {"f", "n", "p", "q"}, schema |-> FALSE, spans |-> FALSE,
   lifts |-> {}, emits |-> {}]
ToChannel == [Route EXCEPT !.component = FALSE, !.function = FALSE, !.channel = TRUE]

\* Routes whose query specs and paths may conflict.
Queries ==
  {<<>>} \cup {<<Spec("q", kind, v, c)>> : kind \in {"required", "optional"}, v \in {None, "1", "2"}, c \in BOOLEAN}
         \cup {<<Spec("q", "forbidden", None, FALSE)>>, <<Spec("q", "required", "1", TRUE), Spec("p", "optional", "1", TRUE)>>}
Shaped ==
  {[Route EXCEPT !.query = q, !.path = p, !.type = t] :
     q \in Queries, p \in {<<Lit("u")>>, <<Cap("q")>>}, t \in {None, Text}} \cup
  {[Route EXCEPT !.path = p, !.method = m] :
     p \in {<<Lit("u"), Cap("n")>>, <<Cap("n"), Cap("n")>>, <<Anon, Cap("p")>>}, m \in {"GET", "POST"}}

\* Routes with targets, mappings and headers.
Targets ==
  {[ToChannel EXCEPT !.timed = t, !.type = y, !.schema = t, !.emits = e] :
     t \in BOOLEAN, y \in {None, Text, "text/html"}, e \in {{}, {<<"h", "x">>}}} \cup
  {[ToChannel EXCEPT !.mapping = {"param-mapping"}], [ToChannel EXCEPT !.component = TRUE],
   [ToChannel EXCEPT !.channel = FALSE], [Route EXCEPT !.timed = TRUE], [Route EXCEPT !.function = FALSE],
   [Route EXCEPT !.method = "GET", !.type = Json], [Route EXCEPT !.type = Text, !.mapping = {"param-encoding"}]} \cup
  {[Route EXCEPT !.mapping = {"result-mapping"}, !.writes = w, !.emits = e, !.schema = TRUE, !.spans = s] :
     w \in {{"x"}, {"x", "traceparent"}, {"content-type"}},
     e \in {{<<"x", "x">>}, {<<"h", "x">>}, {<<"traceparent", "x">>}, {<<"x", "y">>, <<"traceparent", "traceparent">>}},
     s \in BOOLEAN} \cup
  {[Route EXCEPT !.resolves = FALSE], [Route EXCEPT !.needs = {"f"}, !.lifts = {<<"h", "h">>, <<"h", "traceparent">>}]}

MCServers ==
  {<<r>> : r \in Shaped \cup Targets} \cup (Shaped \X Shaped)

Bodies ==
  {<<"empty", None>>, <<"object", [f \in {"f"} |-> "body"]>>, <<"object", [f \in {"q"} |-> "body"]>>,
   <<"scalar", "1">>, <<"text", "t">>}
MCRequests ==
  {[method |-> "POST", path |-> <<"u">>, query |-> q, type |-> t, body |-> b, headers |-> h] :
     q \in {<<>>, "q" :> "1"}, t \in {None, Text, Json}, b \in Bodies, h \in {<<>>}} \cup
  {[method |-> m, path |-> p, query |-> q, type |-> None, body |-> <<"object", [f \in {"f"} |-> "body"]>>, headers |-> h] :
     m \in {"GET", "POST"}, p \in {<<"u">>, <<"v">>, <<"u", "v">>},
     q \in {<<>>, "q" :> "1", "q" :> "2", "q" :> "1" @@ "p" :> "1"},
     h \in {"h" :> "a", "h" :> "a" @@ "traceparent" :> "t"}}

MCReplies ==
  {[type |-> t, headers |-> h, conforms |-> c] : t \in {Json, Text}, h \in {<<>>, "h" :> "r"}, c \in BOOLEAN}

=============================================================================
