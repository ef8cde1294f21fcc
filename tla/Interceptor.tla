----------------------------- MODULE Interceptor -----------------------------
(***************************************************************************)
(* An interceptor component, as src/crates/interceptor generates it: which *)
(* functions of a world it wraps and how their calls are wired to the      *)
(* target (matcher.rs, extractor.rs, generator.rs, builder.rs), and what   *)
(* the generated wrapper does with its linear memory while an advice steers*)
(* a call (write_interceptor_func and the functions it calls).             *)
(*                                                                         *)
(* A value is <<disc, content>>, disc being its case of the WIT variant    *)
(* `value`: str, num (num-s64 and num-u64; the floats go the same way),    *)
(* bool, complex. A kind is the type of a parameter or result: a disc, or  *)
(* narrow and wide for integers of 32 and 64 bits. Memory is an array of   *)
(* cells of 8 bytes; a text fills one cell, a string is a cell that points *)
(* to its text. A complex value is a pointer to a text and, when it is a   *)
(* result, as many further cells as its layout has, each with a part of it.*)
(* An arg record is four cells: name, type name, disc, payload. before_ret *)
(* and after_ret are four cells: disc of the action, list or option, disc  *)
(* of the value, payload.                                                  *)
(*                                                                         *)
(* The canonical ABI (the host), the target and the advice are external. It*)
(* is assumed that an advice answers with as many args as it was given: the*)
(* wrapper reads that many from any list, and a shorter one's neighbours.  *)
(***************************************************************************)
EXTENDS Integers, Sequences, FiniteSets, SequencesExt

CONSTANTS
  Worlds,       \* sets of exports and patterns: see World below
  Texts, Nums,  \* the contents of strings and complex values, and of numbers
  NarrowBound,  \* integers of 32 bits are below it
  Cells,        \* the cells of the memory
  HeapBase,     \* the first cell after the string data
  None

Kinds == {"str", "complex", "bool", "narrow", "wide"}

IsText(kind) == kind \in {"str", "complex"}

InCells(bytes) == (bytes + 7) \div 8

\* target_ret's size in bytes: each flat type of the result, 4 or 8 bytes, aligned to its size.
RetSize(flats) == FoldLeft(LAMBDA size, flat : ((size + flat - 1) \div flat) * flat + flat, 0, flats)

\* The cells of target_ret, for a signature [params |-> kinds, result |-> a kind or None,
\* flats |-> the sizes of the result's flat types, layout |-> its bytes in memory].
Area(s) == IF IsText(s.result) THEN InCells(RetSize(s.flats)) ELSE 0

\* External: the cells that the host writes there.
Extent(s) == IF IsText(s.result) THEN InCells(s.layout) ELSE 0

\* The lists of a world are lists, and a string is one cell.
ASSUME InterceptorAssumption ==
  /\ HeapBase \in Nat
  /\ NarrowBound \in Nat \ {0}
  /\ Nums \subseteq Nat
  /\ None \notin Kinds \cup ({"complex"} \X Texts)
  /\ \A w \in Worlds : w.exports \in Seq(Range(w.exports))
  /\ \A w \in Worlds : \A i \in 1..Len(w.exports) :
       /\ w.exports[i].functions \in Seq(Range(w.exports[i].functions))
       /\ \A f \in Range(w.exports[i].functions) :
            /\ f.signature.params \in Seq(Kinds) /\ f.signature.result \in Kinds \cup {None}
            /\ Area(f.signature) \in Nat /\ Extent(f.signature) \in Nat
            /\ IsText(f.signature.result) => Area(f.signature) > 0 /\ Extent(f.signature) > 0
            /\ f.signature.result = "str" => Extent(f.signature) = 1

VARIABLES
  world,    \* [exports |-> <<[iface, functions]>>, patterns]
  phase,    \* idle, ready, before, target, after, trapped
  export,   \* <<interface or None, function>> in progress
  mem, heap,
  frame,    \* the locals args_area, before_ret, after_ret, target_ret, watermark
  params,   \* the core parameters: pointers for strings and complex values
  handles,  \* invocation resources that are alive
  (* What was said, for the properties. *)
  called,   \* what the caller gave
  given,    \* the same, or what the advice gave in a repeat
  seen,     \* what the advice's constructor, or its after, was given
  said,     \* the args or the value that the advice answered with
  sent,     \* what the target was called with
  outcome,  \* what the target answered
  returned  \* what the caller got back

machine == <<mem, heap, frame, params, handles>>
ghosts == <<called, given, seen, said, sent, outcome, returned>>
intVars == <<world, phase, export, machine, ghosts>>

-----------------------------------------------------------------------------
(* Which functions are wrapped, and their wiring.                          *)

\* A pattern is [iface |-> the interfaces it names, or None for no qualifier,
\* function |-> the functions it matches].
Matches(p, iface, f) ==
  /\ f \in p.function
  /\ IF p.iface = None THEN TRUE ELSE iface # None /\ iface \in p.iface

IsIntercepted(w, iface, f) == w.patterns = {} \/ \E p \in w.patterns : Matches(p, iface, f)

\* Mutant: interfaces without a wrapped function are not counted, as their bags are not built.
ImportModule_Wrapped(w, i) ==
  IF w.exports[i].iface = None THEN 0
  ELSE Cardinality({j \in 1..(i - 1) : w.exports[j].iface # None /\ w.exports[j].iface = w.exports[i].iface})

\* The core module that export i's functions are imported from: target-<n>, 0 for target-func.
ImportModule(w, i) ==
  IF w.exports[i].iface = None THEN 0 ELSE Cardinality({j \in 1..i : w.exports[j].iface # None})

\* Function j of export i, if it is wrapped.
Entry(w, i, j) ==
  LET iface == w.exports[i].iface
      name  == w.exports[i].functions[j].name
  IN IF IsIntercepted(w, iface, name) THEN <<[iface |-> iface, name |-> name, module |-> ImportModule(w, i)]>>
     ELSE <<>>

\* collect_intercepted: the wrapped functions, in the order of the exports.
Wrapped(w) ==
  FlattenSeq([i \in 1..Len(w.exports) |->
    FlattenSeq([j \in 1..Len(w.exports[i].functions) |-> Entry(w, i, j)])])

\* The bags of the shim's entries: one for each run of functions of one import module.
Starts(w) ==
  {k \in 1..Len(Wrapped(w)) : k = 1 \/ Wrapped(w)[k - 1].module # Wrapped(w)[k].module}

Bag(w, s) ==
  {k \in s..Len(Wrapped(w)) : \A j \in s..k : Wrapped(w)[j].module = Wrapped(w)[s].module}

\* External: an instantiation that names an argument twice is not valid, and two bags of
\* one module would be that.
IsValid(w) == \A s, t \in Starts(w) : Wrapped(w)[s].module = Wrapped(w)[t].module => s = t

\* The shim's entry behind the wrapper's import of x.
ShimEntry(w, x) ==
  LET s == CHOOSE s \in Starts(w) : Wrapped(w)[s].module = x.module
  IN CHOOSE k \in Bag(w, s) : Wrapped(w)[k].name = x.name

\* alias_target_func: by the interface in the export's name.
AliasTarget(x) == <<x.iface, x.name>>

\* The fixup module fills the table in the order of the wrapped functions.
Fixup(w) == [k \in 1..Len(Wrapped(w)) |-> AliasTarget(Wrapped(w)[k])]

\* The function of the target that a call to export <<iface, f>> reaches.
Reached(w, e) ==
  IF ~IsIntercepted(w, e[1], e[2]) THEN e
  ELSE LET k == CHOOSE k \in 1..Len(Wrapped(w)) : Wrapped(w)[k].iface = e[1] /\ Wrapped(w)[k].name = e[2]
       IN Fixup(w)[ShimEntry(w, Wrapped(w)[k])]

Exported(w) == UNION {{<<w.exports[i].iface, w.exports[i].functions[j].name>> :
                         j \in 1..Len(w.exports[i].functions)} : i \in 1..Len(w.exports)}

\* The signature of an export.
Signature(w, e) ==
  (CHOOSE f \in UNION {Range(w.exports[i].functions) :
                         i \in {i \in 1..Len(w.exports) : w.exports[i].iface = e[1]}} : f.name = e[2]).signature

sig == Signature(world, export)
arity == Len(sig.params)

\* The page of memory holds what a call of these worlds takes. Beyond it an access traps, and
\* a trapped instance answers nothing more.
ASSUME MemoryAssumption ==
  \A w \in Worlds : \A e \in Exported(w) :
    LET s == Signature(w, e)
    IN 0..(HeapBase + 19 * Len(s.params) + 10 + Area(s) + Extent(s)) \subseteq Cells

-----------------------------------------------------------------------------
(* Memory.                                                                 *)

Disc(kind) == IF kind \in {"narrow", "wide"} THEN "num" ELSE kind

Values(kind) ==
  CASE IsText(kind)             -> {<<kind, t>> : t \in Texts}
    [] kind = "bool"            -> {<<"bool", b>> : b \in BOOLEAN}
    [] kind = "narrow"          -> {<<"num", n>> : n \in {n \in Nums : n < NarrowBound}}
    [] kind = "wide"            -> {<<"num", n>> : n \in Nums}

\* What an advice sees of a value, and what it may answer.
View(v) == IF v[1] = "complex" THEN <<"complex", "">> ELSE v
Answers == {View(v) : v \in UNION {Values(k) : k \in {"str", "complex", "bool", "wide"}}}

\* i32.wrap_i64
Fit(kind, v) == IF kind = "narrow" THEN <<"num", v[2] % NarrowBound>> ELSE v

\* A byte keeps the other seven bytes of its cell: what is left of a text is not zero.
Dirty(cell) == cell[1] \in {"text", "part"} \/ (cell[1] = "bool" /\ cell[3])

Stored(old, new) == IF new[1] = "byte" THEN <<"bool", new[2], Dirty(old)>> ELSE new

\* The memory after a set of writes <<cell, content>>, one for each cell.
Store(m, writes) ==
  [c \in Cells |-> IF \E w \in writes : w[1] = c
                   THEN Stored(m[c], (CHOOSE w \in writes : w[1] = c)[2])
                   ELSE m[c]]

\* How the host lowers a value's case and payload: its text, if any, is at `at`.
Lowered(a, v, at) ==
  {<<a, <<"disc", v[1]>>>>,
   <<a + 1, CASE v[1] = "str"  -> <<"ptr", at>>
              [] v[1] = "bool" -> <<"byte", v[2]>>
              [] v[1] = "num"  -> <<"num", v[2]>>
              [] OTHER         -> <<"ptr", 0>>>>} \cup
  (IF v[1] = "str" THEN {<<at, <<"text", v[2]>>>>} ELSE {})

\* The cells that the host takes for a list of args, with their names, type names and texts.
ListCells(vs) == 6 * Len(vs) + Cardinality({i \in 1..Len(vs) : vs[i][1] = "str"})

TextsBefore(vs, i) == Cardinality({j \in 1..(i - 1) : vs[j][1] = "str"})

LoweredList(base, vs) ==
  LET At(i) == base + 4 * Len(vs) + 2 * (i - 1) + TextsBefore(vs, i)
  IN UNION {{<<base + 4 * (i - 1), <<"ptr", At(i)>>>>, <<At(i), <<"text", "name">>>>,
             <<base + 4 * (i - 1) + 1, <<"ptr", At(i) + 1>>>>, <<At(i) + 1, <<"text", "type">>>>} \cup
            Lowered(base + 4 * (i - 1) + 2, vs[i], At(i) + 2) : i \in 1..Len(vs)}

Text(m, p) == IF m[p][1] = "text" THEN m[p][2] ELSE "corrupt"

\* The value whose disc is cell a, as the host lifts it.
HostRead(m, a) ==
  CASE m[a][2] = "str"     -> <<"str", Text(m, m[a + 1][2])>>
    [] m[a][2] = "complex" -> <<"complex", "">>
    [] OTHER               -> <<m[a][2], m[a + 1][2]>>

\* The same, of a kind, as the wrapper loads it: 64 bits for a bool.
WrapperRead(m, a, kind) ==
  CASE kind = "str"  -> <<"str", Text(m, m[a + 1][2])>>
    [] kind = "bool" -> <<"bool", m[a + 1][2] \/ m[a + 1][3]>>
    [] OTHER         -> Fit(kind, <<"num", m[a + 1][2]>>)

-----------------------------------------------------------------------------
(* A call. The component is one instance: its calls come one at a time, and*)
(* after a trap there are none.                                            *)

NoFrame == [args |-> 0, before |-> 0, after |-> 0, target |-> 0, watermark |-> 0]

Init ==
  /\ world \in {w \in Worlds : IsValid(w)}
  /\ phase = "idle" /\ export = None
  /\ mem = [c \in Cells |-> <<"zero", 0>>] /\ heap = HeapBase
  /\ frame = NoFrame /\ params = <<>> /\ handles = 0
  /\ called = <<>> /\ given = <<>> /\ seen = None /\ said = None /\ sent = <<>> /\ outcome = None /\ returned = None

\* The parameters that the caller's host passes: texts go through cabi_realloc.
Lifted(vs) ==
  LET At(i) == heap + Cardinality({j \in 1..(i - 1) : IsText(vs[j][1])})
  IN [i \in 1..Len(vs) |-> IF IsText(vs[i][1]) THEN At(i) ELSE vs[i][2]]

\* write_marshal_param: the payload of parameter i; complex ones are opaque.
Marshalled(vs, locals, i) ==
  CASE vs[i][1] = "str"  -> <<"ptr", locals[i]>>
    [] vs[i][1] = "num"  -> <<"num", locals[i]>>
    [] vs[i][1] = "bool" -> <<"bool", locals[i], FALSE>>
    [] OTHER             -> <<"ptr", 0>>

\* The caller calls a wrapped function: work areas, and the args in args_area.
Enter(e, vs) ==
  LET s      == Signature(world, e)
      locals == Lifted(vs)
      args   == heap + Cardinality({i \in 1..Len(vs) : IsText(vs[i][1])})
      before == args + 4 * Len(vs)
      target == before + 8
      top    == target + Area(s)
      texts  == {<<locals[i], <<"text", vs[i][2]>>>> : i \in {i \in 1..Len(vs) : IsText(vs[i][1])}}
      fields == UNION {{<<args + 4 * (i - 1) + 2, <<"disc", vs[i][1]>>>>,
                        <<args + 4 * (i - 1) + 3, Marshalled(vs, locals, i)>>} : i \in 1..Len(vs)}
  IN /\ phase = "idle"
     /\ IsIntercepted(world, e[1], e[2])
     /\ export' = e /\ called' = vs /\ given' = vs /\ params' = locals
     /\ mem' = Store(mem, texts \cup fields)
     /\ heap' = top
     /\ frame' = [args |-> args, before |-> before, after |-> before + 4, target |-> target, watermark |-> top]
     /\ phase' = "ready"
     /\ seen' = None /\ said' = None /\ sent' = <<>> /\ outcome' = None /\ returned' = None
     /\ UNCHANGED <<world, handles>>

\* A function that no pattern matches is the target's own.
Bypass(e, vs, r) ==
  /\ phase = "idle"
  /\ ~IsIntercepted(world, e[1], e[2])
  /\ export' = e /\ called' = vs /\ given' = vs /\ sent' = vs /\ outcome' = r /\ returned' = r
  /\ seen' = None /\ said' = None
  /\ UNCHANGED <<world, phase, machine>>

\* Mutant: a new round keeps what earlier rounds took.
RetryHeap_Kept == heap

\* Where the heap starts in every round.
RetryHeap == frame.watermark

\* $retry: the heap goes back to the watermark; the advice's constructor reads args_area.
Construct ==
  /\ phase = "ready"
  /\ heap' = RetryHeap
  /\ handles' = handles + 1
  /\ seen' = [i \in 1..arity |-> HostRead(mem, frame.args + 4 * (i - 1) + 2)]
  /\ phase' = "before"
  /\ UNCHANGED <<world, export, mem, frame, params, called, given, said, sent, outcome, returned>>

\* An error, or a guard that finds another variant, ends the instance.
Trap ==
  /\ phase \in {"before", "after"}
  /\ phase' = "trapped"
  /\ UNCHANGED <<world, export, machine, ghosts>>

\* The wrapper returns v, and the host calls cabi_post once it has read it.
Return(v) ==
  /\ returned' = v
  /\ phase' = "idle"
  /\ handles' = handles - 1
  /\ heap' = HeapBase
  /\ frame' = NoFrame /\ params' = <<>>
  /\ UNCHANGED <<world, export, called, given, seen, sent, outcome>>

\* An answer of none where there is a result leaves the value's cells as they were: the guard
\* on the disc there may trap, or the wrapper may return the payload there.
Stale == <<"stale", "">>

\* before() answers skip(v), v being None for skip(none).
Skip(v) ==
  /\ phase = "before"
  /\ said' = v
  /\ IF sig.result = None
     THEN mem' = mem /\ Return(None)
     ELSE IF v = None THEN mem' = mem /\ sig.result # "complex" /\ Return(Stale)
     ELSE /\ v[1] = Disc(sig.result) /\ sig.result # "complex"
          /\ mem' = Store(mem, Lowered(frame.before + 2, v, heap))
          /\ Return(WrapperRead(mem', frame.before + 2, sig.result))

\* Mutant: complex arguments come from the list too, where they are opaque.
Argument_FromList(m, i) == WrapperRead(m, m[frame.before + 1][2] + 4 * (i - 1) + 2, sig.params[i])

\* The target's argument i: from the list in before_ret, but complex ones are the caller's.
Argument(m, i) ==
  IF sig.params[i] = "complex" THEN <<"complex", Text(m, params[i])>>
  ELSE WrapperRead(m, m[frame.before + 1][2] + 4 * (i - 1) + 2, sig.params[i])

\* before() answers proceed(vs): the target is called with vs, and with the caller's own
\* complex values.
Proceed(vs) ==
  /\ phase = "before"
  /\ \A i \in 1..arity : vs[i][1] = Disc(sig.params[i])
  /\ said' = vs
  /\ mem' = Store(mem, LoweredList(heap, vs) \cup {<<frame.before + 1, <<"ptr", heap>>>>})
  /\ heap' = heap + ListCells(vs)
  /\ sent' = [i \in 1..arity |-> Argument(mem', i)]
  /\ phase' = "target"
  /\ UNCHANGED <<world, export, frame, params, handles, called, given, seen, outcome, returned>>

\* The cells of a complex value in target_ret, and behind it when its layout is larger.
Parts == (frame.target + 1)..(frame.target + Extent(sig) - 1)

\* The target's own value in target_ret.
OwnValue(m) ==
  LET t == Text(m, m[frame.target][2])
  IN <<"complex", IF \A c \in Parts : m[c] = <<"part", t>> THEN t ELSE "corrupt">>

\* The target answers r, and after() gets to see it. The host puts the text on the heap and
\* the rest where target_ret is; where the two overlap, one of them is lost.
Target(r) ==
  /\ phase = "target"
  /\ outcome' = r
  /\ IF r # None /\ IsText(r[1])
     THEN /\ mem' = Store(Store(mem, {<<heap, <<"text", r[2]>>>>}),
                          {<<frame.target, <<"ptr", heap>>>>} \cup {<<c, <<"part", r[2]>>>> : c \in Parts})
          /\ heap' = heap + 1
     ELSE UNCHANGED <<mem, heap>>
  /\ seen' = IF r = None THEN <<>>
             ELSE <<IF r[1] = "str" THEN <<"str", Text(mem', mem'[frame.target][2])>> ELSE View(r)>>
  /\ phase' = "after"
  /\ UNCHANGED <<world, export, frame, params, handles, called, given, said, sent, returned>>

\* Mutant: the next round has the args of the first one.
NextArgs_First(m) == frame.args

\* The args of the next round are the list in after_ret.
NextArgs(m) == m[frame.after + 1][2]

\* after() answers repeat(vs).
Repeat(vs) ==
  /\ phase = "after"
  /\ given' = vs
  /\ mem' = Store(mem, LoweredList(heap, vs) \cup {<<frame.after + 1, <<"ptr", heap>>>>})
  /\ heap' = heap + ListCells(vs)
  /\ frame' = [frame EXCEPT !.args = NextArgs(mem')]
  /\ handles' = handles - 1
  /\ phase' = "ready"
  /\ UNCHANGED <<world, export, params, called, seen, said, sent, outcome, returned>>

\* after() answers accept(v); a complex value stays the target's own.
Accept(v) ==
  /\ phase = "after"
  /\ said' = v
  /\ IF sig.result = None
     THEN mem' = mem /\ Return(None)
     ELSE IF v = None THEN mem' = mem /\ Return(IF sig.result = "complex" THEN OwnValue(mem) ELSE Stale)
     ELSE /\ v[1] = Disc(sig.result)
          /\ mem' = Store(mem, Lowered(frame.after + 2, v, heap))
          /\ Return(IF sig.result = "complex" THEN OwnValue(mem')
                    ELSE WrapperRead(mem', frame.after + 2, sig.result))

\* The lists that an advice answers with: the one it saw, with one value changed.
Lists(vs) == {vs} \cup {[vs EXCEPT ![i] = v] : i \in 1..Len(vs), v \in Answers}

Results(s) == IF s.result = None THEN {None} ELSE Values(s.result)

Next ==
  \/ \E e \in Exported(world) :
       LET s == Signature(world, e) IN
       \E vs \in {vs \in [1..Len(s.params) -> UNION {Values(s.params[i]) : i \in 1..Len(s.params)}] :
                    \A i \in 1..Len(s.params) : vs[i] \in Values(s.params[i])} :
         \/ Enter(e, vs)
         \/ \E r \in Results(s) : Bypass(e, vs, r)
  \/ Construct
  \/ Trap
  \/ \E v \in Answers \cup {None} : Skip(v) \/ Accept(v)
  \/ phase = "before" /\ \E vs \in Lists(seen) : Proceed(vs)
  \/ phase = "target" /\ \E r \in Results(sig) : Target(r)
  \/ phase = "after" /\ \E vs \in Lists([i \in 1..arity |-> View(given[i])]) : Repeat(vs)

InterceptorSpec == Init /\ [][Next]_intVars

-----------------------------------------------------------------------------
(* Properties.                                                             *)

\* Every function of the target that is called through the interceptor is the one of the
\* export: the imports of the wrapper, the shim and the table agree on an order.
CallsReachTheirFunction == \A e \in Exported(world) : Reached(world, e) = e

\* The advice is shown the arguments of this round, the caller's or those of its own repeat,
\* and the result of this round, whatever the memory was used for before.
AdviceSeesTheCall ==
  /\ phase = "before" => seen = [i \in 1..arity |-> View(given[i])]
  /\ phase = "after"  => seen = IF outcome = None THEN <<>> ELSE <<View(outcome)>>

\* The target's own value fits into target_ret and the records of the round's arguments
\* behind it, which are read by then. target_ret is sized by the flat types of the result
\* (generator.rs:585-599), and these may take less than its layout does: 24 bytes of 32 for
\* result<record { id: u8, name: string, ts: u64 }, string>, where a function without
\* parameters has its value overwrite itself.
Fits == Extent(sig) <= Area(sig) + 4 * arity

Obeyed(kinds) ==
  /\ phase = "target" =>
       \A i \in 1..arity : sig.params[i] \in kinds =>
         sent[i] = IF sig.params[i] = "complex" THEN called[i] ELSE Fit(sig.params[i], said[i])
  /\ phase = "idle" /\ said # None /\ sig.result \in kinds =>
       IF sig.result = "complex" THEN Fits => returned = outcome ELSE returned = Fit(sig.result, said)

\* The target gets the arguments that the advice proceeds with, and the caller's own complex
\* values in every round; the caller gets the value that the advice accepts or skips with,
\* and the target's own complex value where that fits.
AdviceIsObeyed == Obeyed({"str", "narrow", "wide", "complex"})

\* However often an advice repeats, a call takes a bounded part of the memory; after it the
\* memory is free and no invocation is left.
MemoryIsReclaimed ==
  /\ handles = IF phase \in {"before", "target", "after", "trapped"} THEN 1 ELSE 0
  /\ phase = "idle" => heap = HeapBase
  /\ phase # "idle" => heap <= HeapBase + 19 * arity + 9 + Area(sig)

=============================================================================
