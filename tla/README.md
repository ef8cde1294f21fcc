# Verification of the Composable Runtime

The Composable Runtime (`src/`) is an inversion-of-control runtime for
WebAssembly components: a configuration is turned into a graph of components,
the graph is composed and linked, and services (messaging, HTTP, telemetry)
call the components. This directory holds TLA+ models of its concurrent core (the
messaging and the services around it) and of the algorithms that a configuration, a
request and a component go through, what TLC checks of them on small instances, and
what the TLA+ proof system proves of them for every instance.

## Inventory

| part | source | state it keeps | operations | hard because | correct when |
|---|---|---|---|---|---|
| channel | `src/src/messaging/channel.rs` | two maps (senders, receivers), one bounded queue per group | publish, consume, init_group, close | fan-out is a loop of awaits over cloned senders; two maps with two locks; deadlines; close races publish | the result of publish agrees with where the message went; Closed means drained; first in first out, once |
| registry of channels | same file, 458-504 | name to channel | register, remove, lookup, list | lookups go stale | a reply channel is found while somebody waits for it |
| bus | `src/src/messaging/bus.rs` | subscriptions, registry, dispatcher handles, cancellation token | start, publish, shutdown | start fails half-way; shutdown closes while handlers publish; cancel after ten seconds | an accepted message is handled once per group; shutdown returns, and nothing runs after it |
| dispatcher | `src/src/messaging/dispatcher.rs` | the loop, a set of handler tasks | run, dispatch_message | biased select over a cancel-safe future; joins without watching the token; panics | the concurrency limit; no message lost by a stop |
| activator | `src/src/messaging/activator.rs` | none | handle | publishes a reply from inside the handler | acked only when the reply is out |
| request/reply | `src/src/messaging/reply.rs`, `service.rs` | registry of reply channels, the handle | return_address, publish_request, take, Drop | late, double or missing replies; caller gives up | no leak, no accepted reply lost, everybody ends |
| runtime | `src/src/runtime/mod.rs`, `service.rs` | list of services | build, start, shutdown, run | services start in registration order without rollback, messaging last | what start() began shutdown() ends |
| HTTP service | `src/crates/http-server/src/` | listener, watch channel, connections | start, run, shutdown, handle | graceful shutdown with a limit, requests across the bus's start and stop | each request answered, 202 only for accepted messages |
| component graph | `src/src/composition/graph.rs` | nodes, edges, names | build | interceptors take over names, templates have no node | importers reach the outermost interceptor; no cycle |
| registries | `src/src/composition/registry.rs` | components, capabilities | build_registries, process_component | scopes, version ranges, order of composition | every import satisfied by what may be imported |
| configuration | `src/src/config/` | loaders, handlers, definitions | process | who owns a property; files, loaders and handlers in any order | every property read once, by its reader; accepted or refused whatever the order |
| host, telemetry | `src/src/runtime/host.rs`, `src/crates/opentelemetry/` | an engine; per call a store with the states of its capabilities | instantiate, invoke, start, create_state | links what another module had matched; states that need a start | what was accepted can be instantiated |
| HTTP routes | `src/crates/http-server/src/config.rs`, `server.rs` | the routes | parse_routes, match, build message and response | optional and forbidden parameters; captures, body and headers in one message | no two routes for a request; nothing of a request lost |
| invocation | `src/src/mapping.rs`, `schema.rs`, `runtime/conversion.rs`, `component.rs`, `composition/wit.rs` | none | map, validate, encode, convert, decode, coerce | a schema derived once, values converted at each call, by different code | a request that the schema accepts is invoked as it says, and answered |
| interceptor generator | `src/crates/interceptor/` | none; its product has a heap | generate | writes WebAssembly by hand: indices, offsets, a bump allocator | each wrapper calls its function, advice is obeyed, memory is freed |
| gRPC host import | `src/src/runtime/grpc.rs` | none | send a request | timers around library futures | - |
| messages, shared types | `src/src/message.rs`, `types.rs` | none | - | data | - |
| command line | `src/src/main.rs` | none | invoke, publish, run | - | - |

How they interact: `RuntimeBuilder::build` processes the configuration, builds the graph
from what that returns, the registries from the graph, and gives the registries to the
component host. The runtime then starts its services. An HTTP route or the command line
publishes through `BusPublisher` to the bus; the bus looks the channel up and publishes
to its groups; one dispatcher per subscription consumes and calls the activator, which
maps the message to a call, has the host instantiate and invoke the component, and
publishes a reply, either to a reply channel of `ReplyHandler` (tried first) or to a
channel of the bus. A route to a component does the same with the request and its
response, between schemas. Components intercepted in the graph are called through
wrappers that the interceptor generator makes when the registries are built.

## The modules

The modules form three families and three that stand alone. An arrow is EXTENDS:

    LocalChannel <- BroadcastChannel                       the channels
    LocalChannel <- MessageBus <- Runtime                  a runtime at work
    LocalChannel <- RequestReply                           its replies
    LocalChannel implements GroupDelivery
    ComponentGraph <- Registries <- Host                   how it is built
    Conversion <- Mapping <- Invocation                    one call of a component
    Configuration, HttpRoutes, Interceptor

**LocalChannel** models a set of channels with `Overflow::Block`. An endpoint is
a consumer group of a channel. `receivers` and `senders` are the two maps of
`ChannelInner::Block`; `creating` holds the endpoints between the two critical
sections of `init_group` (or of a `consume` that creates its group). The queue
of an endpoint is kept with its history: `log` is everything ever put into it,
`head` how much was received. A message of the model is one call of `publish`:
`status` says where the call is or what it returned, `target` the senders it
cloned, `todo` and `cur` how far its loop has come. A consumer is a task in
`consume`: `create` (between the locks), `lock` (waits for the receiver's mutex),
`recv`. That a queue is closed when no sender is left (`HasSender`) counts the
clones of running publishes. Receivers live as long as the channel, so a send never
finds its queue closed, and `publish` returns Closed only for an empty clone.

**GroupDelivery** is the abstract specification: a bounded first-in first-out
stream per group that takes a message at most once, hands each out once and is
declared closed only when drained, for ever. LocalChannel implements it, and so does a
channel of either kind (`ImplementsGroupDelivery`).

**BroadcastChannel** adds `Overflow::DropOldest`: one queue for all groups (`sent`), in
which each group's receiver has a `position`. `publish` never waits and overwrites; a
receiver that was overtaken is told so once (`CastLag`) and goes on with the oldest
message left. `Slots` is the length of tokio's ring, the next power of two. `NewChannel`
makes a channel of either kind. Nothing in the runtime asks for this kind yet, so the modules
above it do without.

**MessageBus** extends LocalChannel with `GenericBus` and `Dispatcher`: its
consumers are the dispatchers, its publish calls those of clients and of
handlers. `boot` and `sub` are the loop of `start()`, `disp` the loop of a
dispatcher, `running` and `ended` its `JoinSet`, `shut` and `toClose` the
progress of `shutdown()`. The reply of a handler is a publish call of its own
(`Reply`), made from inside the handler task.

**RequestReply** extends LocalChannel with the ephemeral reply channels: the
channel of request `r` is channel `r`, its only consumer the requester, and
`<<r, w>>` the publish call of the reply of handler `w`.

**Runtime** extends MessageBus with the life of a runtime that has one HTTP
server. `rt` is how far `Runtime::start` or `Runtime::shutdown` has come (the HTTP
service starts first and stops last), `server` the task of `HttpServer::run`,
`conn`, `serving` and `response` its connections and requests. A message of the
bus is a request; `Direct` and `WithReply` tell the three kinds of routes apart. A
reply is reduced to the fact that it can arrive only after a handler was acked;
RequestReply has its details. A dropped connection drops the publish call it
waits for (`ClientDrops`, `PublishDrop`), in the middle of a fan-out too.

In all of these the time limit of a publish is chosen anew for each call from
`PublishTimeout` (none, zero, or a time that may pass): the code fixes one for each
channel, which is a special case.

**ComponentGraph** models `ComponentGraph::build`: each loop of it is an action
(`AddNodes`, `AddChains`, `AddImports`, `AddCloneImports`, `CheckCycles`), because
nothing runs beside it, and `stage` is where it is or how it ended. A node is
`<<c, i>>`: the definition `c` itself (`i = 0`) or the clone at place `i` of its
chain; `template` is the definition a node holds, `nodeMap` its `node_map`. The
reserved names `_c$i` are the pairs `<<c, i>>` as well. Its properties compare the
built graph with the definitions.

**Registries** extends it with `build_registries`: the interfaces of each type of
capability, `draft` as the component in `process_component`, one step per dependency in
an order that the graph allows, `built` as what is registered. `wasm` is what the bytes
import and `imports` the list the code keeps beside them; that the two may differ is what
its properties are about. `compose_components` (the external `wac` plug) is set algebra on
imports and exports.

**Host** goes on with what is registered: `Prepare` is the start of a service that
provides capabilities (OpenTelemetry), `Instantiate` an instance with its linker and its
states. `Linked` is the table of the linker, which is not that of the registry
(`InterfacesOf`), and `Answers` its rule for versions, which is not that of the registry
either (`Satisfies`): semantic versioning, by which 0.0.x is compatible with itself only.

**Configuration** models `ConfigProcessor::process`: paths go to loaders (`ClaimPaths`,
`LoadPath`), the claims of handlers are collected and checked (`CheckClaims`), each
definition goes to its owner and its properties to those who claim them
(`DispatchDefinition`), placeholders are resolved and the result validated. The handlers
of components, capabilities and subscriptions are those of the code; those of services are
an input. `given` records who read what. The properties of a definition are flat key
paths, so that the same function shows a selector's view and a handler's view of them.

**HttpRoutes** models `parse_routes` on a list of routes (`Conflict` is the overlap check
for each pair), then one request through matching, `build_message_from_request`, the
target and `build_http_response_from_message`. It is the inside of `Serve`, `Published`
and `Answer` of Runtime for one request; there the content of a request plays no part.

**Conversion**, **Mapping** and **Invocation** model one call. Conversion has the JSON
schema of a WIT type, JSON to values and values to JSON; Mapping the templates, encodings
and decodings of a `MessageMapper` with the schemas derived for a route; Invocation the
steps of a call from a route (`setup.http`, between two schemas) or from the activator
(without). Results of the component are any values of its result type. A number of a JSON document
is an integer of any size, or lies between two (`frac`); the schemas of integers accept both
(`IntSchema`, `Bounded`), the conversion reads integers of 64 bits (`Readable`) and cuts them to
their width (`Wrap`).

Much of this code calls itself: on types, values, documents, schemas and templates. Each such
function (`JsonToVal`, `ValToJson`, `JsonSchema`, `Accepts`, `Substitute`, `Align`, ...) is a
constant operator, and what it does is written down in the operator named after it,
`JsonToValBody` for `JsonToVal`, where the calls to itself are calls of the constant.
`ConversionAssumption`, `MappingAssumption` and `InvocationAssumption` say that constant and
body agree on all data (`Types`, `Schemas`, `Jsons`, `Vals`, `Templates`, which are closed under
taking parts), and that types are finitely deep (`Depth`). For TLC, MCInvocation closes the knot
with an `MCJsonToVal(j, T)` that is `JsonToValBody(j, T)`, and checks the assumptions on the sets of
the run. So the model is recursive as the code is, without a RECURSIVE operator, about which nothing
could be proved; a constant that satisfies the equations is the function of the code, because
every call is for a part.

**Interceptor** has two halves. The first is arithmetic on lists: which functions are
wrapped, the number of the module each is imported from, and the shim, bags and table
between a wrapper and its target (`Reached`); a bag is a run of functions of one module, and a world in which
two runs belong to one module has no valid interceptor (`IsValid`). The second is a machine that runs the
generated `write_interceptor_func` on a memory of cells: `Enter` marshals the arguments
and stores the watermark, `Construct` makes the invocation resource, `Proceed`, `Skip`,
`Accept` and `Repeat` are the answers of an advice. What the canonical ABI does with the
memory (lowering lists into fresh cells, lifting results) is external and modelled as far as
the generated code depends on it. A signature carries the sizes of the flat types of its result and
the bytes of its layout: `target_ret` is allocated by the first (`Area`) and written by the second
(`Extent`). An advice is external too, and assumed to answer with as many arguments as it was given:
the wrapper reads that many from any list, so a shorter one would show it what lies behind.

How they compose: the outer module of a family has variables of its own, and each of its
actions is a conjunction of an action of the inner one and of what the outer code does in
the same step. The families meet where one hands over to the next: Configuration
guarantees what ComponentGraph assumes (`BuildableWhenAccepted` states `GraphAssumption`
of the definitions that `process()` returns), Registries starts from the graph that
`build()` finished, Host from the registries; HttpRoutes and Invocation are the inside of
single steps of Runtime and MessageBus (a request that is served, a task that handles).

The **_proofs** modules hold the theorems about the modules they are named for:
LocalChannel (and BroadcastChannel), RequestReply, Runtime (and MessageBus), Configuration,
HttpRoutes and Interceptor; Composition_proofs those about ComponentGraph, Registries and
Host; Invocation_proofs those about Conversion, Mapping and Invocation. Those on the bus and
on the replies extend that on the channel.

Definitions named `Operation_Word` (`Send_Unbounded`, ...) are mutants: forms of
`Operation` with a plausible bug, which no specification uses. Each property of
each run has one that breaks it; `PROJECT.json` pairs them.

## Runs

| run | instance | what it shows |
|---|---|---|
| channel | a channel of either kind, capacity 1, 2 groups, 2 publishes, 2 consumers; fair | the outcome of publish agrees with who has the message; Closed is final; refinement of GroupDelivery; close wakes a waiting consumer; a lagging group loses only what newer messages replaced |
| runtime_stop | 1 connection, 2 dispatchers that compete for a channel, 2 requests (one with a reply, one whose handler replies to the channel it is fed from), limit 2 | after shutdown() no server, dispatcher or handler runs, also when start() had failed; requests are answered unless the five seconds passed; what was answered with 202 is handled; each message is handled once, within the limit; an ack means that the reply is out; who stops leaves no message |
| runtime_live | 1 connection, 3 requests (one per kind of route), 1 dispatcher, limit 0, the self-reply; fair | shutdown() returns; a published request comes to its end |
| request_reply | 1 request, 3 handlers; fair | no leak, no refusal while somebody waits, deadlines never discard a reply; the request and the handlers end |
| composition | 3 components, 2 capabilities: 117,504 configurations of interceptors, imports, interfaces, types and versions, 0.0.x among them | importers reach the outermost interceptor, chains are in call order, cycles are found; components have the capabilities they reach; advice does not show; what is registered can be instantiated, but for what the property names |
| configuration | up to 2 paths out of 41, up to 2 services, several sets of loaders | each property is read once; refused exactly when the definitions are ambiguous or unreadable; what is accepted fits the graph |
| http | 1 or 2 routes, 1 request: conflicting query and path specs, targets, mappings and headers | accepted routes exclude each other; a message carries the whole request; mapped headers are emitted |
| invocation | 27 types, each in a function without configuration, and functions with mappings, encodings, decodings, result templates and declared schemas; messages that fit and that do not, numbers with a fraction or beyond 64 bits among them; 25,129 states | what the schema accepts is invoked, but for such numbers; arguments say what was sent; results are answered |
| interceptor | functions of 8 signatures, two with results larger than their return area, worlds with direct functions before and around interfaces, several patterns, 71 cells of memory, any sequence of calls and repeats; 94,101 states | calls reach their function; advice sees the call of this round and is obeyed, and the target's own value is returned where it fits; memory is reclaimed |
| http_text | as http | expected violation: a text/plain request to a component route is refused |
| invocation_option | as invocation, functions that return options | expected violation: `none` fails the advertised schema |
| composition_panic | as composition | expected violation: an intercepted component without a node |

Findings. For a component route the body of a text/plain request becomes a JSON string,
which is then validated against the schema of an object with a member for each parameter
(`src/crates/http-server/src/server.rs:790`): each such request is answered with 400,
although `src/crates/http-server/README.md:185` says that it is "passed through as raw text"
(`http_text`).

`derive_output_schema` drops the option around a result type because "the advertised
schema must describe the unwrapped ok/some value to match the reply body"
(`src/src/schema.rs:342`). The host converts `none` to null, which that schema excludes: the
response check answers with 500 (`invocation_option`).

`ComponentGraph::build` unwraps the node of an intercepted component
(`src/src/composition/graph.rs:88`), which a component that is itself only an
interceptor does not have: interceptors of interceptors panic instead of being
refused or applied (`composition_panic`).

Further observations, which the models take over from the code as it is and which the
properties above except by name where they meet them:

- `HttpService::shutdown` waits for the server's task only; that task returns after five
  seconds, or at once when `accept()` fails, and the connection tasks it spawned go on
  (`server.rs:999`, `src/src/service.rs:56`). Hence "unless the five seconds passed".
- `process_component` gives an advice component the imports of its target before it looks
  for unsatisfied ones (`registry.rs:649` and `:693`): what advice itself imports and nobody
  provides is missed only when the component is instantiated (`UncheckedImport`).
- The registry takes a higher patch for any version (`registry.rs:523`), wasmtime's linker not for
  0.0.x: a component that imports an interface at 0.0.1, of which a custom capability has 0.0.2, is
  accepted by build() and fails at each instantiation (`LaterPatchOnly`).
- A component's capabilities include those of its dependencies. Two OpenTelemetry
  capabilities among them are two states of one type: build() accepts them and each
  invocation fails (`host.rs:533`). An invocation before start() panics (`lib.rs:160`).
- A consumer of a DropOldest channel with a timeout of zero gets `Timeout` when it lags,
  whose text is "No message available" (`channel.rs:47`), though newer messages are there.
- Integers are advertised as JSON numbers, u64 without a maximum and s64 without any bound
  (`wit.rs:250-259`); the conversion takes integers of 64 bits only (`conversion.rs:65-118`). So 1.5
  and 1.0 for any integer, and what is beyond 64 bits for u64 and s64, conform and are refused once
  the call is made (`Whole`).
- In schemas and mappings: a path-only template inside an object or array is described as a
  string but keeps its type (`schema.rs:254`); numbers wrap when narrowed, where strings are
  refused; an empty map whose keys are no strings comes back as `{}`, which its
  own schema (a list of pairs) refuses; a single optional
  parameter takes the whole body `{}`; of overlapping template paths the order of a hash map
  decides which is refused; a capture is a string, so a numeric parameter fed by one alone
  always fails the schema; a default in a template does not make its path optional.
- Between the schema of a route and the mapper: a function of several parameters, all optional,
  is refused when the request has no body, because the server validates `{}`
  (`server.rs:790`) but the mapper takes null, which is no object (`mapping.rs:727`). A content
  type with parameters (`application/json; charset=utf-8`) passes the server, which looks at
  its start (`server.rs:737`), and is unsupported in `parse_body` (`mapping.rs:751`). An empty text is
  validated as `{}` and mapped as a text. These are the cases of `Misread`.
- Between a result and its schema: `resolve_path` looks through the options and results of a
  type (`schema.rs:141`), `resolve` does not (`mapping.rs:972`), so that a body template that leads
  through an option that is none, or to a result within the result, is accepted at
  configuration and fails at the reply (`NotAsAdvertised`). Templates of headers are not checked at
  all. Fields are decoded in the advertised schema only where that is an object
  (`schema.rs:378`), but `validate_byte_array_field` and the decoding itself reach through results and
  options: with a body template for a function that returns a result, and for an option in a
  result, the schema still says bytes, and a reply with the decoded text is refused with 500
  (`AdvertisedAsBytes`; `src/crates/http-server/README.md:171` says "with any `result-decoding` swap applied to
  byte-array fields"). A payload that is an object is written among the fields of its variant, and none in an
  option of an option is null: neither fits the type's own schema (`Presentable`).
- In interceptors: the area for a target's result is sized by its flat types
  (`generator.rs:585-599`), which may take less than its layout: 24 bytes of 32 for
  `result<record { id: u8, name: string, ts: u64 }, string>`. The host then writes on into what the
  wrapper allocates next: for a function without parameters that is the text of the result
  itself, and the caller gets a corrupt value; with parameters it is the records of
  the round's arguments, which are read by then, and nothing is lost (`Fits`).
- A component whose direct functions come before and after an interface, both wrapped, gets two
  instances named `target-func` (`builder.rs:304-338`), with which its interceptor is not valid:
  generation fails. `Init` leaves such worlds out (`IsValid`).
- Also in interceptors: bools that advice changes are not read back (`generator.rs:1004`, hence
  no bool in `AdviceIsObeyed`, against the crate's README); `skip` or `accept` with none for a function
  with a result reads stale memory; more than 16 flat parameters are not supported.

Bounds. A capacity of 1 makes every queue full as soon as it holds one message; two
messages then give a publisher that is stopped in its first, or only in its second group
while another one waits. Two groups are the least fan-out that can fail half-way, and two
consumers the least that compete. The properties speak of one or two messages, groups or
dispatchers at a time. A channel is closed at any time and any number of times. Requests
share nothing but a registry with a fresh name for each, so request_reply has one of them.
One connection serves requests one after the other; the handler's own reply is what overlaps with
them. For the composition, three components make a chain of two different interceptors, an
interceptor that is intercepted, imported, or imports what it intercepts; versions are one
patch apart, at 0.2 and at 0.0, and one is not three numbers. The configurations are the initial states, and
building is deterministic but for the order of composition. In configuration every file
holds one definition with one thing that is special about it, so that two files make every pair of
these; in http and invocation likewise. There the 64 bits of numbers are 0 to 3 and -2 to 1: integers on both
sides of either, of a narrower type, and between two integers, alone and within lists, records,
variants and results. In interceptor the memory ends far above the bound
that `MemoryIsReclaimed` states: a call that needed more would be seen. A dispatcher or
service that fails to start does so at each point of the loop.

Fairness. Tokio runs every task that is ready; its mutex and the permits of its
queues are first come first served (strong fairness of the lock and of sends);
timers fire. A dispatcher's `select!` that stays cancelled and pending again and again
takes that branch. An invocation has no time limit in the code; the
liveness properties assume that the components called by handlers return (otherwise
`shutdown()` waits for ever: after its cancellation it has no limit). Nobody has to
publish, close, or call shutdown. In the runtime, a component invoked for a route, the
body of a request and an idle connection may hang: `StopCompletes` rests on the five
seconds, not on them.

The runs without a liveness property need no fairness.

Deadlock is not checked: the systems stop when all calls have returned.

## Proofs

`LocalChannel_proofs` proves, for every set of channels, groups, messages and
consumers, every positive capacity and all ranges of both timeouts
(`ChannelAssumption`): `ChanTypeOK`, `OutcomeMatchesDelivery`, `ClosedIsFinal`,
`OneReceiver`, and that LocalChannel implements GroupDelivery.

`ChanTypeOK` is not inductive. `Shape` adds what ties the maps and the calls
together: senders and creating are among the receivers and disjoint, a call that
is sending holds a sender it cloned and has not yet dealt with, a consumer works on an
endpoint of the map. `ClosedIsFinal` is inductive relative to `Shape`: the only ways
to a new sender are a new group (the endpoint was in no map, so not sealed), the second
half of a creation, and a clone of one in the map. `OutcomeMatchesDelivery`
follows from `DeliveryInv`, which says for every call which of its clone's groups
have the message at each point of its loop. The refinement uses all three: Send is
`Accept` because the message is not yet in the group (`DeliveryInv`) and the
group is not declared closed (`ClosedIsFinal`).

Its second part is about BroadcastChannel. A channel stays of its kind and one of kind
DropOldest never uses the queues, so that the theorems hold of a channel of either kind
(`OutcomeMatchesDeliveryForBothKinds`, `ClosedIsFinalForBothKinds`,
`EveryChannelImplementsGroupDelivery`). `LosesOnlyTheOldest` needs `CastInv`: what a group
got is in order and behind its position, and what is behind its position and was not received
is older than what the ring holds, which stays so as the ring only moves on; `Waiting` says
that who waits or polls has a receiver, so that no position is made anew meanwhile. Of the
ring only `Capacity <= Slots` is used (`SlotsAssumption`).

`RequestReply_proofs` proves the six safety properties of RequestReply, for every
number of requests and handlers (`RequestAssumption`). First, every step is a step
of LocalChannel, so that its theorems hold of the reply channels. `ReqInv` is the
inductive invariant: which half of the handle exists at each point of the requester's life
(`HandleInv`: registered from its registration to the end of its wait, with a sender
all the while), how far a handler's publish can be (`HandlerInv`: it
publishes only after it found the channel, so a refusal means that the request has
finished), and that the answer is the first entry of the reply channel's log
(`AnswerInv`). `TypeOK` alone says nothing of the order of these. That a
requester gives up only unanswered is an action property: its deadline passes only
when its queue is empty and nothing was received from it.

`Runtime_proofs` proves first the eight safety properties of MessageBus, for every
list of subscriptions, set of messages and replies, concurrency limit,
capacity and timeout (`BusAssumption`). `BusInv` is inductive together with `Shape`:
start() has made the groups of the subscriptions behind it, and nobody but it makes a
group (`BootInv`), a dispatcher is inside consume() exactly while it is in its
select! and leaves the loop only on Closed or when cancelled (`LoopInv`), and there is
room for a task whenever it waits for a message (`TaskInv`). From it, every step of
the bus is a step of its channels. `OrderlyStopLosesNothing` is then
`ClosedIsFinal`, carried over from the channel. `HandledOnce` needs `HandledInv`
(what a group received is the disjoint union of what its dispatchers have), which
is inductive because a group is never given a message twice (`NoDuplicates`, from the
refinement). `AckedMeansReplied` needs `ReplyInv` (the call of a
reply finds only the channel its header names) and `OutcomeMatchesDelivery`. A
cancelled dispatcher stops only if its queue is empty or another one holds the
receiver, hence `LastStopLeavesNothing`.

Its second part is about the runtime: each step of it is a step of its bus
(`RuntimeUsesBus`), so that every theorem of the bus holds of a runtime (`RuntimeAssumption`).
`RtInv` ties the phase of the runtime to those of the bus and the server: before start() nothing
has happened, a shutdown that is over has stopped the bus or found it never started
(`StopInv`), and a server that ended before the five seconds were over has closed its connections
(`ConnInv`). `AcceptedRequestsAreServed` then
follows along three theorems: 202 means that publish returned Ok (`AcceptInv`), which
means that every group has the message (`OutcomeMatchesDelivery`); at the end every
dispatcher stopped without being cancelled, so its group is empty
(`OrderlyStopLosesNothing`); and what left the group was settled (`HandledOnce`).
`BusPromisesHold` states the promises of the bus of the runtime itself.

`Composition_proofs` proves first the four properties of the graph that hold, for every
configuration that `ConfigProcessor` lets pass (`GraphAssumption`: distinct names,
imports defined, no reserved name) and chains of any length. `build()` is
deterministic but for its errors, so `GraphInv` says outright what names, nodes and
edges are after each loop; the step that needs care is that a dependency never
replaces an edge of a chain, because it starts at a node that is outermost
(`ChainEdgesAreInner`). `RejectsOnlyCircular` relates the cycle check on nodes to the
definitions: of the nodes of a chain in a cycle the innermost imports something
(`CyclicIsCircular`, by the least-element principle), and the nodes of a chain from
the innermost one that uses the circle outward make a cycle (`CircularIsCyclic`).

It goes on with what is built from the graph, for every assignment of types, imports and
exports to the definitions (`RegistryAssumption`). `RegInv` keeps `GraphInv` while the graph is
built and `BuildInv` afterwards: the graph is `Finished`, and each import left in the bytes of
a registered component is an import of some advice or answered by the linker
through a capability the component brings with it (`WasmInv`). For the component in progress
(`DraftInv`) this holds of the bytes only up to the list of imports the code keeps beside them,
which is what the check at the end decides; and as its edge of the chain comes last, it
has its own exports and imports until that edge is composed. `SatisfiedIsLinked` is where
registry and host meet: what the registry's table and rule for versions accept, the
linker's table and rule answer, except for an import of 0.0.x of which a later patch is there,
where the two rules differ (`LaterPatchOnly`). `AdviceIsTransparent` follows from `ExportsInv`, by
which exports pass outward through the clones of advice one by one.

`LinkedWithWhatItReaches` compares what is linked with what is below a node in the graph, the
least set closed under dependencies. `LinkInv` says it of the component in progress: it is
linked with what the dependencies already composed reach. The step is that what is below a node
is the node and what is below its dependencies (`BelowItsPreds`), and that a capability
depends on nothing. `GraphOfHost` carries the four properties of the graph over to all that
is built from it.

`Configuration_proofs` proves, for every list of paths, loaders and handlers
(`ConfigAssumption`: claims are finite, what is a list is a list), that each property is handed
to exactly one reader, that the result is what the graph assumes, and that `process()` refuses
exactly what has a reason to be refused. `LoadInv` says that what was loaded is in `definitions`,
`DispatchInv` that what left `definitions` was handed out completely, and `MadeInv` that for each
definition of a component there is a component and the like: the handlers of
components and capabilities are the only owners of their categories, because claims are exclusive
and theirs have no selector (`CoreOwners`). `RefusedForAReason` has two directions. A
refusal has a reason by the step that refuses, and `CheckedInv` says what each phase let
pass: no path without its loader, no contested property, no placeholder unresolved. For the last
check, which is on the items made and not on the definitions they came from, `TraceInv` relates
the two: items and definitions correspond, and two items are one exactly if their definitions
are. Two reasons had to be stated with care: a placeholder counts only in the config of a
component or in a property that a capability keeps, and an owner can miss or misread only what
no other handler claims.

`HttpRoutes_proofs` proves the three properties of routes for every set of servers and
requests (`ServersAreRoutes`, `NoneIsNoType`). `NoConflictNoOverlap` is the heart of the first:
if no parameter is wanted by one route and excluded by the other, or with two values,
`parse_routes` sees a conflict. The second rests on the distinctness of captured names, which
parse_routes checks too.

`Interceptor_proofs` proves the four properties of Interceptor for every world, signature and
number of repeats (`InterceptorAssumption`). `MemoryInv` has one bound per phase, relative
to the watermark; `Repeat` starts again at the watermark before the host allocates the
next round's arguments, so the bound does not grow. `CallInv` says what the cells hold at
each point: complex arguments stay where the caller put them and, if it `Fits`, the outcome where the target
put it, outside the work areas (`HoldsFrame`), and before the advice is made the argument area
shows what is given in this round. `AdviceSeesTheCall` and `AdviceIsObeyed` follow. They hold of a memory that
is large enough for a call (`MemoryAssumption`), as the page the wrapper declares never grows and
an access beyond it traps. For a result that does not fit the theorem says nothing of the target's
own value, and all else holds. `CallsReachTheirFunction` is about the numbers in the generated
module: `Wrapped` lists the functions by flattening the lists of the interfaces, and the entry
at each place is the one the export was made from (`FlattenElements`, by the
least-element principle on the number of lists); a module of imports belongs to one interface
(`ModuleOfInterface`) and, in a world that has a valid interceptor, to one bag.

`Invocation_proofs` proves what the conversion of values and the mapping of messages promise
each other, for all types, documents, values and setups that satisfy the assumptions above. A
set of types that contains each type whose parts it contains contains all (`TypeInduction`, by the
least-element principle on `Depth`), which takes the place of induction over data. By it:
`AcceptedIsConverted`, what the schema of a type accepts converts if its numbers are `Whole`, and what
converts, whole or not, becomes a value of the type that says the same (the cut to the width of a type
changes no number that its schema accepts); `ValuesFitTheirSchema`, the JSON of a value fits the schema of its type, for the types
that are `Presentable`; and `AcceptedIsNotCoerced`, the coercion of a reply leaves such JSON alone.
The case that needs care is a `oneOf`, which accepts what exactly one of its schemas accepts:
the cases of a variant have different names, the arms of a result different keys, and no schema of
a type that is no option accepts null.

`InvInv` then says for each phase what the call has established: the schemas are those derived
from the function (`SchemasInv`), a message that is past validation conforms (`Admitted`),
the arguments are those of the mapper (`Called`), what the function was given is their conversion
(`Started`) and the result is the JSON of one of its values (`Returned`); a call that failed, failed
where its phase says. It was checked by TLC in the run invocation first. From it,
`UnmappedRequestIsInvoked` and `UnmappedArgumentsCarryTheRequest` state
`ConformingRequestIsInvoked` and `ArgumentsCarryTheRequest` for every function without a mapping,
the first with its exception for numbers, with any number of parameters and any encodings, literal or named by another argument.
`PlainResultsAreAnswered` states `ResultsAreAnswered` for every result that is put into no
template, with any decodings, and the schema derived for it: `DecodesFields` says what is decoded,
`DecodedFits` that it fits the schema in which the same fields are replaced. Routes and
subscriptions are covered both.

Only model-checked: the liveness properties (`ReceiverLearnsOfClose`, `StopCompletes`,
`RequestsEnd`, `RequestsFinish`, `HandlersFinish`: fairness is out of the prover's reach), and the
three properties of Invocation where the theorems stop. Of functions with a mapping the schema is
folded together from the paths of the templates, and paths are followed by a fold too: what a
fold computes is induction over data. Of a declared response schema the code checks only the
shape: one that is stricter than the derived schema refuses results, and those of the run are not.

## Not modelled

- Tokio's cooperative budget, which may make `recv()` pending although a message is there.
- Which differing versions of an interface `wac` itself would plug together: the model plugs
  equal names only, as the list of imports in the code does.
- Several servers in one runtime, and services without a state.
- In Invocation: resources, floats and chars, exit codes, the direct handler mode of the
  activator (the message is passed on as it is), the choice of a function by its key, and the
  parsing of the text of templates and paths, which are given parsed.
- In Configuration: file access, the syntax of TOML and of selectors.
- In Interceptor: the encoding of the generated component as bytes; of `builder.rs` only the wiring.
- In Host: what wasmtime does, WASI contexts, the hooks of outgoing HTTP.
- Spans and logs of the telemetry service and their export; tracing spans of the server.
- gRPC of guests, the command line, the HTTP client component: pure input and output around
  libraries. Messages, headers and shared types: data.

## Plan

Done: messaging with both kinds of channels, request and reply, the runtime with its HTTP
server, graph, registries and host, configuration, routes, invocation, interceptors; proofs of
every safety property and refinement that the runs check, those of Invocation for functions
without a mapping and results without a template.

Left, in this order: what a schema that is derived from templates accepts, for any list of
paths, and with it the properties of Invocation for mapped functions; the export of telemetry
at shutdown; the timeouts of gRPC requests; the direct handler mode.
