--------------------------------- MODULE Host ---------------------------------
(***************************************************************************)
(* The component host (src/src/runtime/host.rs): for each invocation, a    *)
(* component of the registry is instantiated with the capabilities that    *)
(* the registry linked it with.  A capability that a service provides, as  *)
(* that of OpenTelemetry (src/crates/opentelemetry/src/lib.rs), has a      *)
(* state of its own per instance, made from what the start of the service  *)
(* prepares.                                                               *)
(***************************************************************************)
EXTENDS Registries

CONSTANT Services   \* the custom capabilities of services, by the name of their type

VARIABLES
  prepared,   \* the capabilities of services that start() has initialised
  instance    \* the last instantiation: [of, outcome], and what was prepared then

hostVars == <<registryVars, prepared, instance>>

HostInit ==
  /\ RegistryInit
  /\ prepared = {}
  /\ instance = None

Build == RegistryNext /\ UNCHANGED <<prepared, instance>>

OfService(k) == Custom(k) /\ KindOf(k)[2] \in Services

\* OtelService::start, one capability after the other; the first error ends it, and
\* then the start of the runtime.  Nothing undoes what was prepared.
Prepare(k) ==
  /\ stage = "done"
  /\ OfService(k)
  /\ prepared' = prepared \cup {k}
  /\ UNCHANGED <<registryVars, instance>>

\* create_linker: what each capability adds.  A custom one links what it names, and
\* the bundles of p2 and p3 are those of wasmtime; the parts of p2 are added one by one.
Linked(k) ==
  LET base == KindOf(k)[1]
  IN IF Custom(k) \/ KindOf(k) = <<"p2", "">> \/ VersionOf(KindOf(k)) = "p3" THEN InterfacesOf(k)
     ELSE At(CASE base = "cli" -> {"cli/stdin", "cli/stdout", "cli/stderr", "cli/environment"}
               [] base = "clocks" -> {"clocks/wall-clock", "clocks/monotonic-clock"}
               [] base = "filesystem" -> {"filesystem/types", "filesystem/preopens"} \cup Io
               [] base = "http" -> {"http/outgoing-handler", "http/types"} \cup Io
               [] base = "io" -> Io
               [] base = "random" -> {"random/random", "random/insecure", "random/insecure-seed"}
               [] base = "sockets" ->
                    {"sockets/tcp", "sockets/udp", "sockets/network", "sockets/instance-network",
                     "sockets/ip-name-lookup", "sockets/tcp-create-socket", "sockets/udp-create-socket"},
             <<0, 2, 12>>)

\* A version that only itself is compatible with.
ExactOnly(import) ==
  Len(import.version) = 3 /\ import.version[1] = 0 /\ import.version[2] = 0

\* External: an import is answered by the same interface, or by another version of it
\* that has the same major part, and minor part when that is 0, unless both are 0.
Answers(available, import) ==
  \/ available = import
  \/ /\ available.name = import.name
     /\ Len(available.version) = 3 /\ Len(import.version) = 3
     /\ available.version[1] = import.version[1]
     /\ available.version[1] = 0 => available.version[2] = import.version[2]
     /\ ~ExactOnly(import)

IsLinked(import, capabilities) ==
  \E k \in capabilities : \E available \in Linked(k) : Answers(available, import)

HasFiles(k) == KindOf(k) = <<"p2", "">> \/ KindOf(k)[1] = "filesystem"

Stateful(capabilities) == {k \in capabilities : OfService(k)}

\* How instantiate_from_bytes may end for a component with these capabilities, in the
\* order they come (any): a directory of the host may be missing, a state may need
\* what start() did not prepare, two states may have one type.
Outcomes(spec) ==
  LET stateful == Stateful(spec.capabilities)
      unopened == {"unopened" : k \in {k \in spec.capabilities : HasFiles(k)}}
      panics   == {"panicked" : k \in stateful \ prepared}
      clashes  == {"clash" : p \in {p \in (stateful \cap prepared) \X (stateful \cap prepared) :
                                      p[1] # p[2] /\ KindOf(p[1]) = KindOf(p[2])}}
  IN unopened \cup panics \cup clashes \cup
     IF panics \cup clashes # {} THEN {}
     ELSE {IF \A i \in spec.wasm : IsLinked(i, spec.capabilities) THEN "ok" ELSE "unlinked"}

Instantiate(n) ==
  /\ stage = "done"
  /\ n \in Public
  /\ \E outcome \in Outcomes(built[n]) :
       instance' = [of |-> n, outcome |-> outcome, prepared |-> prepared]
  /\ UNCHANGED <<registryVars, prepared>>

HostNext ==
  \/ Build
  \/ \E k \in Capabilities : Prepare(k)
  \/ \E n \in Components : Instantiate(n)

HostSpec == HostInit /\ [][HostNext]_hostVars

-----------------------------------------------------------------------------
(***************************************************************************)
(* Properties                                                              *)
(***************************************************************************)
\* What advice imports is not looked at by the registry.
Advice ==
  {c \in Components : AdviceInterface \in config.gives[c] /\ \E x \in Clones : template[x] = c}

UncheckedImport(n) ==
  \E c \in Advice : \E i \in config.needs[c] : ~IsLinked(i, built[n].capabilities)

\* The registry takes a later patch for any version (is_import_satisfied,
\* registry.rs:523-526), the linker not for 0.0.x: an import of 0.0.1 that only 0.0.2
\* is there for is accepted by build() and not answered.
LaterPatchOnly(n) ==
  \E i \in built[n].wasm :
    /\ ExactOnly(i)
    /\ IsImportSatisfied(i, built[n].capabilities)
    /\ ~IsLinked(i, built[n].capabilities)

\* A component that build() has accepted can be instantiated: what the registry found
\* satisfied is what the host links, through every component it was composed with.
\* It fails only when a directory of the host is missing, when it depends on a
\* capability of a service that start() has not prepared, or on two of one type, when
\* the advice around it imports something of its own, or when it imports an interface
\* at 0.0.x of which a later patch is all there is.
AcceptedIsInstantiable ==
  instance # None =>
    LET stateful == Stateful(built[instance.of].capabilities)
    IN /\ instance.outcome = "unlinked" =>
            UncheckedImport(instance.of) \/ LaterPatchOnly(instance.of)
       /\ instance.outcome = "panicked" => ~(stateful \subseteq instance.prepared)
       /\ instance.outcome = "clash" => \E k, l \in stateful : k # l /\ KindOf(k) = KindOf(l)

=============================================================================
