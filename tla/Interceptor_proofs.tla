------------------------- MODULE Interceptor_proofs -------------------------
(***************************************************************************)
(* What the generated wrapper does, for every world, every number of       *)
(* parameters and every number of repeats.  A round ends at most 14 cells  *)
(* per parameter beyond the watermark that it started at; the cells hold   *)
(* what advice is shown and what its answers say; and the numbers in the   *)
(* generated code lead each export to the function of its name.            *)
(***************************************************************************)
EXTENDS Interceptor, FiniteSetTheorems, SequenceTheorems, WellFoundedInduction, TLAPS

\* Among the first n numbers there are at most n.
LEMMA AtMost ==
  ASSUME NEW n \in Nat, NEW S \in SUBSET (1..n)
  PROVE  Cardinality(S) \in Nat /\ Cardinality(S) <= n
<1>1. IsFiniteSet(1..n) /\ Cardinality(1..n) = n
  BY FS_Interval
<1> QED
  BY <1>1, FS_Subset, FS_CardinalityType

\* A function on 1..n is a list of n.
LEMMA ListOf ==
  ASSUME NEW n \in Nat, NEW s, DOMAIN s = 1..n, NEW S, s \in [1..n -> S]
  PROVE  s \in Seq(S) /\ Len(s) = n
<1>1. s \in Seq(S)
  OBVIOUS
<1> QED
  BY <1>1, LenProperties

\* The host takes six or seven cells for an argument.
LEMMA CellsOfList ==
  ASSUME NEW n \in Nat, NEW vs, Len(vs) = n
  PROVE  ListCells(vs) \in Nat /\ 6 * n <= ListCells(vs) /\ ListCells(vs) <= 7 * n
<1>1. {i \in 1..Len(vs) : vs[i][1] = "str"} \in SUBSET (1..n)
  OBVIOUS
<1> QED
  BY <1>1, AtMost DEF ListCells

\* An advice answers with as many arguments as it was given.
LEMMA AnswersAsMany ==
  ASSUME NEW n \in Nat, NEW seenArgs, seenArgs = [i \in 1..n |-> seenArgs[i]],
         NEW vs \in Lists(seenArgs)
  PROVE  Len(vs) = n
<1>1. DOMAIN seenArgs = 1..n
  OBVIOUS
<1>2. DOMAIN vs = 1..n /\ vs = [i \in 1..n |-> vs[i]]
  BY <1>1 DEF Lists
<1>3. vs \in [1..n -> {vs[i] : i \in 1..n}]
  BY <1>2
<1> QED
  BY <1>2, <1>3, ListOf

-----------------------------------------------------------------------------
area == Area(sig)

\* Where the heap may be in a phase, relative to HeapBase.
Bound ==
  CASE phase = "ready"  -> 19 * arity + 9 + area
    [] phase = "before" -> 5 * arity + 8 + area
    [] phase = "target" -> 12 * arity + 8 + area
    [] OTHER            -> 12 * arity + 9 + area

MemoryInv ==
  /\ world \in Worlds /\ IsValid(world)
  /\ phase \in {"idle", "ready", "before", "target", "after", "trapped"}
  /\ handles = IF phase \in {"before", "target", "after", "trapped"} THEN 1 ELSE 0
  /\ heap \in Nat
  /\ phase = "idle" => heap = HeapBase
  /\ phase # "idle" => /\ arity \in Nat /\ area \in Nat
                       /\ "watermark" \in DOMAIN frame
                       /\ frame.watermark \in Nat /\ frame.watermark <= HeapBase + 5 * arity + 8 + area
                       /\ heap <= HeapBase + Bound
  /\ phase = "before" => seen = [i \in 1..arity |-> seen[i]]

\* Every exported function has a list of parameters, and an area for its result.
LEMMA ArityIsNat ==
  ASSUME NEW w \in Worlds, NEW e \in Exported(w)
  PROVE  Len(Signature(w, e).params) \in Nat /\ Area(Signature(w, e)) \in Nat
<1> DEFINE functions == UNION {Range(w.exports[i].functions) :
                                 i \in {i \in 1..Len(w.exports) : w.exports[i].iface = e[1]}}
<1>1. \E f \in functions : f.name = e[2]
  <2>1. PICK i \in 1..Len(w.exports) : \E j \in 1..Len(w.exports[i].functions) :
               e = <<w.exports[i].iface, w.exports[i].functions[j].name>>
    BY DEF Exported
  <2>2. PICK j \in 1..Len(w.exports[i].functions) : e = <<w.exports[i].iface, w.exports[i].functions[j].name>>
    BY <2>1
  <2>3. w.exports[i].functions[j] \in Range(w.exports[i].functions)
    BY InterceptorAssumption, LenProperties DEF Range
  <2> QED
    BY <2>2, <2>3
<1>2. \A f \in functions : Len(f.signature.params) \in Nat /\ Area(f.signature) \in Nat
  BY InterceptorAssumption
<1>3. Signature(w, e) = (CHOOSE f \in functions : f.name = e[2]).signature
  BY DEF Signature
<1> HIDE DEF functions
<1> QED
  BY <1>1, <1>2, <1>3

\* At the start nothing is taken.
LEMMA MemoryInvInit == Init => MemoryInv
BY InterceptorAssumption DEF Init, MemoryInv

\* On entry the texts, the arguments and the work areas are taken.
LEMMA EnterStep ==
  ASSUME MemoryInv, NEW e \in Exported(world), NEW vs,
         DOMAIN vs = 1..Len(Signature(world, e).params), vs = [i \in DOMAIN vs |-> vs[i]], Enter(e, vs)
  PROVE  MemoryInv'
<1> DEFINE n == Len(Signature(world, e).params)
           a == Area(Signature(world, e))
           Pointers == {i \in 1..Len(vs) : IsText(vs[i][1])}
           top == frame'.watermark
<1>1. n \in Nat /\ world' = world /\ arity' = n /\ a \in Nat /\ area' = a
  BY ArityIsNat DEF MemoryInv, Enter, arity, area, sig
<1>2. Len(vs) = n
  <2>1. vs \in [1..n -> {vs[i] : i \in 1..n}]
    OBVIOUS
  <2> HIDE DEF n
  <2> QED
    BY <1>1, <2>1, ListOf
<1>3. Cardinality(Pointers) \in Nat /\ Cardinality(Pointers) <= n
  BY <1>1, <1>2, AtMost
<1>4. /\ phase = "idle" /\ phase' = "ready" /\ handles' = handles /\ heap' = top
      /\ top = heap + Cardinality(Pointers) + 4 * Len(vs) + 8 + a
  BY DEF Enter
<1>8. "watermark" \in DOMAIN frame'
  BY DEF Enter
<1> HIDE DEF n, a, Pointers, top
<1>5. heap = HeapBase /\ HeapBase \in Nat
  BY <1>4, InterceptorAssumption DEF MemoryInv
<1>6. top \in Nat /\ top <= HeapBase + 5 * n + 8 + a
  BY <1>1, <1>2, <1>3, <1>4, <1>5
<1>7. Bound' = 19 * n + 9 + a
  BY <1>1, <1>4 DEF Bound
<1> QED
  BY <1>1, <1>4, <1>5, <1>6, <1>7, <1>8 DEF MemoryInv, top

\* Returning to the caller frees the memory and the invocation.
LEMMA ReturnStep ==
  ASSUME MemoryInv, phase \in {"before", "after"}, NEW v, Return(v)
  PROVE  MemoryInv'
BY InterceptorAssumption DEF MemoryInv, Return

\* A list that an advice answers with takes its cells from the heap.
LEMMA ListStep ==
  ASSUME MemoryInv, NEW vs, Len(vs) = arity, phase # "idle"
  PROVE  /\ heap + ListCells(vs) \in Nat
         /\ heap <= HeapBase + 5 * arity + 8 + area => heap + ListCells(vs) <= HeapBase + 12 * arity + 8 + area
         /\ heap <= HeapBase + 12 * arity + 9 + area => heap + ListCells(vs) <= HeapBase + 19 * arity + 9 + area
<1>1. arity \in Nat /\ area \in Nat /\ heap \in Nat /\ HeapBase \in Nat
  BY InterceptorAssumption DEF MemoryInv
<1>2. ListCells(vs) \in Nat /\ ListCells(vs) <= 7 * arity
  BY <1>1, CellsOfList
<1> QED
  BY <1>1, <1>2

\* Every step keeps the bound of its phase.
LEMMA MemoryInvStep ==
  ASSUME MemoryInv, [Next]_intVars
  PROVE  MemoryInv'
<1>0. HeapBase \in Nat
  BY InterceptorAssumption
<1>1. ASSUME NEW e \in Exported(world), NEW vs, DOMAIN vs = 1..Len(Signature(world, e).params),
             vs = [i \in DOMAIN vs |-> vs[i]], Enter(e, vs)
      PROVE  MemoryInv'
  BY <1>1, EnterStep
<1>2. ASSUME NEW e, NEW vs, NEW r, Bypass(e, vs, r) PROVE MemoryInv'
  BY <1>2 DEF Bypass, machine, MemoryInv
<1>3. CASE Construct
  <2>1. /\ phase = "ready" /\ phase' = "before" /\ heap' = frame.watermark /\ handles' = handles + 1
        /\ UNCHANGED <<world, export, frame>>
        /\ seen' = [i \in 1..arity |-> HostRead(mem, frame.args + 4 * (i - 1) + 2)]
    BY <1>3 DEF Construct, RetryHeap
  <2>2. arity' = arity /\ area' = area
    BY <2>1 DEF arity, area, sig
  <2>3. seen' = [i \in 1..arity' |-> seen'[i]]
    BY <2>1, <2>2
  <2>4. Bound' = 5 * arity + 8 + area
    BY <2>1, <2>2 DEF Bound
  <2> QED
    BY <1>0, <2>1, <2>2, <2>3, <2>4 DEF MemoryInv
<1>4. CASE Trap
  <2>1. /\ phase \in {"before", "after"} /\ phase' = "trapped"
        /\ UNCHANGED <<world, export, heap, frame, handles>>
    BY <1>4 DEF Trap, machine
  <2>2. arity' = arity /\ area' = area
    BY <2>1 DEF arity, area, sig
  <2>3. /\ Bound' = 12 * arity + 9 + area
        /\ phase = "before" => Bound = 5 * arity + 8 + area
        /\ phase = "after" => Bound = 12 * arity + 9 + area
    BY <2>1, <2>2 DEF Bound
  <2>4. heap' <= HeapBase + Bound'
    BY <1>0, <2>1, <2>3 DEF MemoryInv
  <2> QED
    BY <2>1, <2>2, <2>4 DEF MemoryInv
<1>5. ASSUME NEW v, Skip(v) \/ Accept(v) PROVE MemoryInv'
  <2>1. phase \in {"before", "after"} /\ \E r : Return(r)
    BY <1>5 DEF Skip, Accept
  <2> QED
    BY <2>1, ReturnStep
<1>6. ASSUME NEW vs \in Lists(seen), Proceed(vs) PROVE MemoryInv'
  <2>1. /\ phase = "before" /\ phase' = "target" /\ heap' = heap + ListCells(vs)
        /\ UNCHANGED <<world, export, frame, handles>>
    BY <1>6 DEF Proceed
  <2>2. arity' = arity /\ area' = area /\ Len(vs) = arity
    BY <1>6, <2>1, AnswersAsMany DEF MemoryInv, arity, area, sig
  <2>3. Bound = 5 * arity + 8 + area /\ Bound' = 12 * arity + 8 + area
    BY <2>1, <2>2 DEF Bound
  <2>4. heap' \in Nat /\ heap' <= HeapBase + 12 * arity + 8 + area
    BY <1>0, <2>1, <2>2, <2>3, ListStep DEF MemoryInv
  <2> QED
    BY <1>0, <2>1, <2>2, <2>3, <2>4 DEF MemoryInv
<1>7. ASSUME NEW r, Target(r) PROVE MemoryInv'
  <2>1. /\ phase = "target" /\ phase' = "after" /\ heap' \in {heap, heap + 1}
        /\ UNCHANGED <<world, export, frame, handles>>
    BY <1>7 DEF Target
  <2>2. arity' = arity /\ area' = area
    BY <2>1 DEF arity, area, sig
  <2>3. Bound = 12 * arity + 8 + area /\ Bound' = 12 * arity + 9 + area
    BY <2>1, <2>2 DEF Bound
  <2> QED
    BY <1>0, <2>1, <2>2, <2>3 DEF MemoryInv
<1>8. ASSUME NEW vs \in Lists([i \in 1..arity |-> View(given[i])]), Repeat(vs) PROVE MemoryInv'
  <2> DEFINE shown == [i \in 1..arity |-> View(given[i])]
  <2>1. /\ phase = "after" /\ phase' = "ready" /\ heap' = heap + ListCells(vs)
        /\ handles' = handles - 1 /\ UNCHANGED <<world, export>>
        /\ frame' = [frame EXCEPT !.args = NextArgs(mem')]
    BY <1>8 DEF Repeat
  <2>2. "watermark" \in DOMAIN frame' /\ frame'.watermark = frame.watermark
    BY <2>1 DEF MemoryInv
  <2>3. shown = [i \in 1..arity |-> shown[i]] /\ vs \in Lists(shown)
    BY <1>8
  <2>4. arity' = arity /\ area' = area /\ Len(vs) = arity
    <3> HIDE DEF shown
    <3> QED
      BY <2>1, <2>3, AnswersAsMany DEF MemoryInv, arity, area, sig
  <2>5. Bound = 12 * arity + 9 + area /\ Bound' = 19 * arity + 9 + area
    BY <2>1, <2>4 DEF Bound
  <2>6. heap' \in Nat /\ heap' <= HeapBase + 19 * arity + 9 + area
    <3>1. heap <= HeapBase + 12 * arity + 9 + area /\ phase # "idle" /\ arity \in Nat /\ area \in Nat
      BY <1>0, <2>1, <2>5 DEF MemoryInv
    <3> QED
      BY <1>0, <2>1, <2>4, <3>1, ListStep
  <2>7. heap' <= HeapBase + Bound' /\ arity \in Nat /\ area \in Nat /\ handles' = 0
    <3>1. arity \in Nat /\ area \in Nat /\ HeapBase \in Nat
      BY <1>0, <2>1 DEF MemoryInv
    <3>2. handles = 1
      BY <2>1 DEF MemoryInv
    <3> QED
      BY <2>1, <2>5, <2>6, <3>1, <3>2
  <2> QED
    BY <2>1, <2>2, <2>4, <2>6, <2>7 DEF MemoryInv
<1>9. CASE UNCHANGED intVars
  <2>1. UNCHANGED <<world, phase, export, heap, frame, handles, seen>>
    BY <1>9 DEF intVars, machine, ghosts
  <2>2. arity' = arity /\ area' = area
    BY <2>1 DEF arity, area, sig
  <2>3. Bound' = Bound
    BY <2>1, <2>2 DEF Bound
  <2> QED
    BY <2>1, <2>2, <2>3 DEF MemoryInv
<1>10. CASE Next
  <2>1. ASSUME NEW e \in Exported(world),
               NEW vs \in [1..Len(Signature(world, e).params) ->
                             UNION {Values(Signature(world, e).params[i]) : i \in 1..Len(Signature(world, e).params)}],
               Enter(e, vs) \/ \E r \in Results(Signature(world, e)) : Bypass(e, vs, r)
        PROVE  MemoryInv'
    BY <1>1, <1>2, <2>1
  <2> QED
    BY <1>3, <1>4, <1>5, <1>6, <1>7, <1>8, <1>10, <2>1 DEF Next
<1> QED
  BY <1>9, <1>10

\* However often an advice repeats, a call takes at most 19 cells per parameter and nine
\* more beside target_ret, and leaves them empty, with no invocation alive (generator.rs:650).
THEOREM MemoryIsReclaimedHolds == InterceptorSpec => []MemoryIsReclaimed
<1>1. MemoryInv => MemoryIsReclaimed
  <2> SUFFICES ASSUME MemoryInv PROVE MemoryIsReclaimed
    OBVIOUS
  <2>1. ASSUME phase # "idle" PROVE heap <= HeapBase + 19 * arity + 9 + Area(sig)
    <3>1. HeapBase \in Nat /\ arity \in Nat /\ area \in Nat /\ heap \in Nat
      BY <2>1, InterceptorAssumption DEF MemoryInv
    <3>2. Bound \in {19 * arity + 9 + area, 5 * arity + 8 + area, 12 * arity + 8 + area, 12 * arity + 9 + area}
      BY DEF Bound
    <3>3. heap <= HeapBase + Bound
      BY <2>1 DEF MemoryInv
    <3>4. heap <= HeapBase + 19 * arity + 9 + area
      BY <3>1, <3>2, <3>3
    <3> QED
      BY <3>4 DEF area
  <2> QED
    BY <2>1 DEF MemoryInv, MemoryIsReclaimed
<1> QED
  BY <1>1, MemoryInvInit, MemoryInvStep, PTL DEF InterceptorSpec


-----------------------------------------------------------------------------
(* Where the host puts a list of arguments, and what is read there.        *)

\* A cell that is written once holds what was written.
LEMMA Wrote ==
  ASSUME NEW m, NEW writes, NEW c \in Cells, NEW x, <<c, x>> \in writes,
         \A w \in writes : w[1] = c => w[2] = x
  PROVE  Store(m, writes)[c] = Stored(m[c], x)
<1> DEFINE w == CHOOSE w \in writes : w[1] = c
<1>1. \E y \in writes : y[1] = c
  BY <<c, x>>[1] = c
<1>2. w \in writes /\ w[1] = c
  BY <1>1
<1>3. w[2] = x
  BY <1>2
<1>4. Store(m, writes)[c] = Stored(m[c], w[2])
  BY <1>1 DEF Store
<1> QED
  BY <1>3, <1>4

\* A cell that is not written keeps what it holds.
LEMMA Kept ==
  ASSUME NEW m, NEW writes, NEW c \in Cells, \A w \in writes : w[1] # c
  PROVE  Store(m, writes)[c] = m[c]
BY DEF Store

\* Members of a set of numbers are counted upwards.
LEMMA CountsUp ==
  ASSUME NEW n \in Nat, NEW T \in SUBSET (1..n), NEW i \in 1..n, NEW k \in 1..(n + 1), i < k
  PROVE  /\ Cardinality(T \cap 1..(i - 1)) \in Nat /\ Cardinality(T \cap 1..(i - 1)) <= i - 1
         /\ Cardinality(T \cap 1..(k - 1)) \in Nat
         /\ Cardinality(T \cap 1..(i - 1)) <= Cardinality(T \cap 1..(k - 1))
         /\ i \in T => Cardinality(T \cap 1..(i - 1)) + 1 <= Cardinality(T \cap 1..(k - 1))
<1> DEFINE A == T \cap 1..(i - 1)
           B == T \cap 1..(k - 1)
<1>1. i - 1 \in Nat /\ k - 1 \in Nat
  OBVIOUS
<1>2. Cardinality(A) \in Nat /\ Cardinality(A) <= i - 1 /\ Cardinality(B) \in Nat
  <2>1. A \in SUBSET (1..(i - 1)) /\ B \in SUBSET (1..(k - 1))
    OBVIOUS
  <2> QED
    BY <1>1, <2>1, AtMost
<1>3. A \subseteq B
  OBVIOUS
<1>4. IsFiniteSet(B) /\ IsFiniteSet(A)
  <2>1. IsFiniteSet(1..n)
    BY FS_Interval
  <2>2. A \subseteq 1..n /\ B \subseteq 1..n
    OBVIOUS
  <2> QED
    BY <2>1, <2>2, FS_Subset
<1>5. Cardinality(A) <= Cardinality(B)
  BY <1>3, <1>4, FS_Subset
<1>6. ASSUME i \in T PROVE Cardinality(A) + 1 <= Cardinality(B)
  <2>1. A \cup {i} \subseteq B /\ i \notin A
    BY <1>6
  <2>2. Cardinality(A \cup {i}) = Cardinality(A) + 1
    BY <1>4, <2>1, FS_AddElement
  <2>3. Cardinality(A \cup {i}) <= Cardinality(B)
    BY <1>4, <2>1, FS_Subset
  <2> QED
    BY <2>2, <2>3
<1> QED
  BY <1>2, <1>5, <1>6

\* A member counts itself.
LEMMA CountsBelowAll ==
  ASSUME NEW n \in Nat, NEW T \in SUBSET (1..n), NEW i \in 1..n
  PROVE  /\ Cardinality(T \cap 1..(i - 1)) \in Nat /\ Cardinality(T \cap 1..(i - 1)) <= i - 1
         /\ i \in T => Cardinality(T \cap 1..(i - 1)) + 1 <= Cardinality(T)
<1>1. n + 1 \in 1..(n + 1) /\ i < n + 1 /\ (n + 1) - 1 = n
  OBVIOUS
<1>2. T \cap 1..n = T
  OBVIOUS
<1>3. T \cap 1..((n + 1) - 1) = T
  BY <1>1, <1>2
<1> QED
  BY <1>1, <1>3, CountsUp

TextAt(base, vs, i) == base + 4 * Len(vs) + 2 * (i - 1) + TextsBefore(vs, i)

\* The texts of a list follow its records, one argument after the other.
LEMMA TextLayout ==
  ASSUME NEW n \in Nat, NEW vs, Len(vs) = n, NEW base \in Nat, NEW i \in 1..n
  PROVE  /\ TextAt(base, vs, i) \in Nat
         /\ base + 4 * n <= TextAt(base, vs, i) /\ TextAt(base, vs, i) <= base + 7 * n - 3
         /\ \A k \in 1..n : i < k =>
              /\ TextAt(base, vs, i) + 2 <= TextAt(base, vs, k)
              /\ vs[i][1] = "str" => TextAt(base, vs, i) + 3 <= TextAt(base, vs, k)
<1> DEFINE T == {j \in 1..n : vs[j][1] = "str"}
<1>1. \A k \in 1..n : TextsBefore(vs, k) = Cardinality(T \cap 1..(k - 1))
  <2> SUFFICES ASSUME NEW k \in 1..n PROVE TextsBefore(vs, k) = Cardinality(T \cap 1..(k - 1))
    OBVIOUS
  <2>1. {j \in 1..(k - 1) : vs[j][1] = "str"} = T \cap 1..(k - 1)
    OBVIOUS
  <2> QED
    BY <2>1 DEF TextsBefore
<1>2. T \in SUBSET (1..n) /\ (i \in T <=> vs[i][1] = "str")
  OBVIOUS
<1> HIDE DEF T
<1>3. TextsBefore(vs, i) \in Nat /\ TextsBefore(vs, i) <= i - 1
  BY <1>1, <1>2, CountsBelowAll
<1>4. \A k \in 1..n : i < k => /\ TextsBefore(vs, k) \in Nat
                               /\ TextsBefore(vs, i) <= TextsBefore(vs, k)
                               /\ vs[i][1] = "str" => TextsBefore(vs, i) + 1 <= TextsBefore(vs, k)
  <2> SUFFICES ASSUME NEW k \in 1..n, i < k
               PROVE  /\ TextsBefore(vs, k) \in Nat
                      /\ TextsBefore(vs, i) <= TextsBefore(vs, k)
                      /\ vs[i][1] = "str" => TextsBefore(vs, i) + 1 <= TextsBefore(vs, k)
    OBVIOUS
  <2>1. k \in 1..(n + 1)
    OBVIOUS
  <2>2. /\ Cardinality(T \cap 1..(k - 1)) \in Nat
        /\ Cardinality(T \cap 1..(i - 1)) <= Cardinality(T \cap 1..(k - 1))
        /\ i \in T => Cardinality(T \cap 1..(i - 1)) + 1 <= Cardinality(T \cap 1..(k - 1))
    BY <1>2, <2>1, CountsUp
  <2>3. /\ TextsBefore(vs, i) = Cardinality(T \cap 1..(i - 1))
        /\ TextsBefore(vs, k) = Cardinality(T \cap 1..(k - 1))
    BY <1>1
  <2> QED
    BY <1>2, <2>2, <2>3
<1> QED
  BY <1>3, <1>4 DEF TextAt

\* A value is <<disc, content>>.
WellFormed(v) == v = <<v[1], v[2]>> /\ v[1] \in {"str", "complex", "bool", "num"}

\* What the memory holds of a list of arguments whose records start at base.
RecordOf(m, base, vs, i) ==
  /\ m[base + 4 * (i - 1) + 2] = <<"disc", vs[i][1]>>
  /\ vs[i][1] = "str" => /\ m[base + 4 * (i - 1) + 3] = <<"ptr", TextAt(base, vs, i) + 2>>
                         /\ m[TextAt(base, vs, i) + 2] = <<"text", vs[i][2]>>
  /\ vs[i][1] = "num" => m[base + 4 * (i - 1) + 3] = <<"num", vs[i][2]>>
  /\ vs[i][1] = "bool" => m[base + 4 * (i - 1) + 3][2] = vs[i][2]

\* A write for argument k of a list.
WriteOf(w, base, vs, k) ==
  \/ w[1] \in {base + 4 * (k - 1), base + 4 * (k - 1) + 1, TextAt(base, vs, k), TextAt(base, vs, k) + 1}
  \/ w[1] = base + 4 * (k - 1) + 2 /\ w[2] = <<"disc", vs[k][1]>>
  \/ /\ w[1] = base + 4 * (k - 1) + 3
     /\ vs[k][1] = "str" => w[2] = <<"ptr", TextAt(base, vs, k) + 2>>
     /\ vs[k][1] = "num" => w[2] = <<"num", vs[k][2]>>
     /\ vs[k][1] = "bool" => w[2] = <<"byte", vs[k][2]>>
  \/ vs[k][1] = "str" /\ w[1] = TextAt(base, vs, k) + 2 /\ w[2] = <<"text", vs[k][2]>>

\* All that the host writes is for some argument.
LEMMA ListWrites ==
  ASSUME NEW vs, Len(vs) \in Nat, NEW base \in Nat, NEW w \in LoweredList(base, vs)
  PROVE  \E k \in 1..Len(vs) : WriteOf(w, base, vs, k)
<1> DEFINE Record(k) == {<<base + 4 * (k - 1), <<"ptr", TextAt(base, vs, k)>>>>,
                         <<TextAt(base, vs, k), <<"text", "name">>>>,
                         <<base + 4 * (k - 1) + 1, <<"ptr", TextAt(base, vs, k) + 1>>>>,
                         <<TextAt(base, vs, k) + 1, <<"text", "type">>>>} \cup
                        Lowered(base + 4 * (k - 1) + 2, vs[k], TextAt(base, vs, k) + 2)
<1>1. PICK k \in 1..Len(vs) : w \in Record(k)
  BY DEF LoweredList, TextAt
<1>2. CASE w \notin Lowered(base + 4 * (k - 1) + 2, vs[k], TextAt(base, vs, k) + 2)
  <2>1. w[1] \in {base + 4 * (k - 1), base + 4 * (k - 1) + 1, TextAt(base, vs, k), TextAt(base, vs, k) + 1}
    BY <1>1, <1>2
  <2> QED
    BY <2>1 DEF WriteOf
<1>3. CASE w \in Lowered(base + 4 * (k - 1) + 2, vs[k], TextAt(base, vs, k) + 2)
  <2>1. base + 4 * (k - 1) + 2 + 1 = base + 4 * (k - 1) + 3
    OBVIOUS
  <2>2. \A a, v, at : w \in Lowered(a, v, at) =>
          \/ w[1] = a /\ w[2] = <<"disc", v[1]>>
          \/ /\ w[1] = a + 1
             /\ v[1] = "str" => w[2] = <<"ptr", at>>
             /\ v[1] = "num" => w[2] = <<"num", v[2]>>
             /\ v[1] = "bool" => w[2] = <<"byte", v[2]>>
          \/ v[1] = "str" /\ w[1] = at /\ w[2] = <<"text", v[2]>>
    BY DEF Lowered
  <2>3. \/ w[1] = base + 4 * (k - 1) + 2 /\ w[2] = <<"disc", vs[k][1]>>
        \/ /\ w[1] = base + 4 * (k - 1) + 3
           /\ vs[k][1] = "str" => w[2] = <<"ptr", TextAt(base, vs, k) + 2>>
           /\ vs[k][1] = "num" => w[2] = <<"num", vs[k][2]>>
           /\ vs[k][1] = "bool" => w[2] = <<"byte", vs[k][2]>>
        \/ vs[k][1] = "str" /\ w[1] = TextAt(base, vs, k) + 2 /\ w[2] = <<"text", vs[k][2]>>
    BY <1>3, <2>1, <2>2
  <2> QED
    BY <2>3 DEF WriteOf
<1> QED
  BY <1>2, <1>3

\* A byte that is stored is read as it was.
LEMMA ByteStored ==
  ASSUME NEW old, NEW v
  PROVE  Stored(old, <<"byte", v>>)[2] = v
<1>1. <<"byte", v>>[1] = "byte" /\ <<"byte", v>>[2] = v
  OBVIOUS
<1>2. Stored(old, <<"byte", v>>) = <<"bool", v, Dirty(old)>>
  BY <1>1 DEF Stored
<1>3. \A x : <<"bool", v, x>>[2] = v
  OBVIOUS
<1> QED
  BY <1>2, <1>3

\* An argument's record and its text are among what the host writes.
LEMMA ListHas ==
  ASSUME NEW base, NEW vs, NEW i \in 1..Len(vs)
  PROVE  /\ <<base + 4 * (i - 1) + 2, <<"disc", vs[i][1]>>>> \in LoweredList(base, vs)
         /\ vs[i][1] = "str" =>
              /\ <<base + 4 * (i - 1) + 2 + 1, <<"ptr", TextAt(base, vs, i) + 2>>>> \in LoweredList(base, vs)
              /\ <<TextAt(base, vs, i) + 2, <<"text", vs[i][2]>>>> \in LoweredList(base, vs)
         /\ vs[i][1] = "num" => <<base + 4 * (i - 1) + 2 + 1, <<"num", vs[i][2]>>>> \in LoweredList(base, vs)
         /\ vs[i][1] = "bool" => <<base + 4 * (i - 1) + 2 + 1, <<"byte", vs[i][2]>>>> \in LoweredList(base, vs)
<1>1. Lowered(base + 4 * (i - 1) + 2, vs[i], TextAt(base, vs, i) + 2) \subseteq LoweredList(base, vs)
  BY DEF LoweredList, TextAt
<1>2. /\ <<base + 4 * (i - 1) + 2, <<"disc", vs[i][1]>>>>
           \in Lowered(base + 4 * (i - 1) + 2, vs[i], TextAt(base, vs, i) + 2)
      /\ vs[i][1] = "str" =>
           /\ <<base + 4 * (i - 1) + 2 + 1, <<"ptr", TextAt(base, vs, i) + 2>>>>
                \in Lowered(base + 4 * (i - 1) + 2, vs[i], TextAt(base, vs, i) + 2)
           /\ <<TextAt(base, vs, i) + 2, <<"text", vs[i][2]>>>>
                \in Lowered(base + 4 * (i - 1) + 2, vs[i], TextAt(base, vs, i) + 2)
      /\ vs[i][1] = "num" => <<base + 4 * (i - 1) + 2 + 1, <<"num", vs[i][2]>>>>
                               \in Lowered(base + 4 * (i - 1) + 2, vs[i], TextAt(base, vs, i) + 2)
      /\ vs[i][1] = "bool" => <<base + 4 * (i - 1) + 2 + 1, <<"byte", vs[i][2]>>>>
                                \in Lowered(base + 4 * (i - 1) + 2, vs[i], TextAt(base, vs, i) + 2)
  BY DEF Lowered
<1> QED
  BY <1>1, <1>2

\* There is room for the list at base, and x is a cell before it.
ListFits(vs, n, base, x) ==
  /\ n \in Nat /\ Len(vs) = n
  /\ base \in Nat /\ base..(base + 7 * n - 1) \subseteq Cells
  /\ x \in Cells /\ x \in Nat /\ x < base

\* The list is in m2 as it was given, its address in cell x, and the rest before it is as in m.
ListIn(m2, m, vs, n, base, x) ==
  /\ m2[x] = <<"ptr", base>>
  /\ \A c \in Cells : c \in Nat /\ c < base /\ c # x => m2[c] = m[c]
  /\ \A i \in 1..n : RecordOf(m2, base, vs, i)

\* That is so after an advice's answer.
LEMMA ListStored ==
  ASSUME NEW n, NEW vs, NEW base, NEW x, ListFits(vs, n, base, x),
         NEW m, NEW m2, m2 = Store(m, LoweredList(base, vs) \cup {<<x, <<"ptr", base>>>>})
  PROVE  ListIn(m2, m, vs, n, base, x)
<1> USE DEF ListFits
<1> DEFINE writes == LoweredList(base, vs) \cup {<<x, <<"ptr", base>>>>}
           At(k) == TextAt(base, vs, k)
<1>1. \A k \in 1..n : /\ At(k) \in Nat /\ base + 4 * n <= At(k) /\ At(k) <= base + 7 * n - 3
                      /\ \A l \in 1..n : k < l => At(k) + 2 <= At(l) /\ (vs[k][1] = "str" => At(k) + 3 <= At(l))
  BY TextLayout
<1>2. \A w \in LoweredList(base, vs) : \E k \in 1..n : WriteOf(w, base, vs, k)
  BY ListWrites
<1>0. /\ m2 = Store(m, writes) /\ LoweredList(base, vs) \subseteq writes /\ <<x, <<"ptr", base>>>> \in writes
      /\ \A w \in writes : w \in LoweredList(base, vs) \/ w = <<x, <<"ptr", base>>>>
  OBVIOUS
<1> HIDE DEF At, writes
<1>3. \A w \in LoweredList(base, vs) : w[1] \in Nat /\ base <= w[1]
  <2> SUFFICES ASSUME NEW w \in LoweredList(base, vs) PROVE w[1] \in Nat /\ base <= w[1]
    OBVIOUS
  <2>1. PICK k \in 1..n : WriteOf(w, base, vs, k)
    BY <1>2
  <2>2. At(k) \in Nat /\ base <= At(k)
    BY <1>1
  <2>3. w[1] \in {base + 4 * (k - 1), base + 4 * (k - 1) + 1, At(k), At(k) + 1,
                  base + 4 * (k - 1) + 2, base + 4 * (k - 1) + 3, At(k) + 2}
    BY <2>1 DEF WriteOf, At
  <2> QED
    BY <2>2, <2>3
<1>4. m2[x] = <<"ptr", base>>
  <2>1. \A w \in writes : w[1] = x => w[2] = <<"ptr", base>>
    BY <1>0, <1>3
  <2>2. m2[x] = Stored(m[x], <<"ptr", base>>)
    BY <1>0, <2>1, Wrote
  <2> QED
    BY <2>2 DEF Stored
<1>5. ASSUME NEW c \in Cells, c \in Nat, c < base, c # x PROVE m2[c] = m[c]
  <2>1. \A w \in writes : w[1] # c
    BY <1>0, <1>3, <1>5
  <2> QED
    BY <1>0, <2>1, Kept
\* A cell of the list holds what its only writes put there.
<1>6. ASSUME NEW c \in Cells, c \in Nat, base <= c, NEW y, <<c, y>> \in LoweredList(base, vs),
             \A w \in LoweredList(base, vs) : w[1] = c => w[2] = y
      PROVE  m2[c] = Stored(m[c], y)
  <2>1. <<c, y>> \in writes /\ \A w \in writes : w[1] = c => w[2] = y
    BY <1>0, <1>6
  <2> QED
    BY <1>0, <1>6, <2>1, Wrote
<1>7. ASSUME NEW i \in 1..n PROVE RecordOf(m2, base, vs, i)
  <2> DEFINE d == base + 4 * (i - 1) + 2
             p == base + 4 * (i - 1) + 3
             t == At(i) + 2
  <2>1. d \in Cells /\ d \in Nat /\ p \in Cells /\ p \in Nat /\ base <= d /\ base <= p
    OBVIOUS
  <2>2. t \in Cells /\ t \in Nat /\ base <= t
    BY <1>1
  <2>3. /\ <<d, <<"disc", vs[i][1]>>>> \in LoweredList(base, vs)
        /\ vs[i][1] = "str" => /\ <<p, <<"ptr", t>>>> \in LoweredList(base, vs)
                               /\ <<t, <<"text", vs[i][2]>>>> \in LoweredList(base, vs)
        /\ vs[i][1] = "num" => <<p, <<"num", vs[i][2]>>>> \in LoweredList(base, vs)
        /\ vs[i][1] = "bool" => <<p, <<"byte", vs[i][2]>>>> \in LoweredList(base, vs)
    <3>1. base + 4 * (i - 1) + 2 + 1 = p
      OBVIOUS
    <3> QED
      BY <3>1, ListHas DEF At
  <2>4. ASSUME NEW w \in LoweredList(base, vs), w[1] = d PROVE w[2] = <<"disc", vs[i][1]>>
    <3>1. PICK k \in 1..n : WriteOf(w, base, vs, k)
      BY <1>2
    <3>2. At(k) \in Nat /\ p < At(k)
      BY <1>1
    <3>3. d \notin {base + 4 * (k - 1), base + 4 * (k - 1) + 1, base + 4 * (k - 1) + 3, At(k), At(k) + 1, At(k) + 2}
      BY <3>2
    <3>4. w[1] = base + 4 * (k - 1) + 2 /\ w[2] = <<"disc", vs[k][1]>>
      <4> HIDE DEF d
      <4> QED
        BY <2>4, <3>1, <3>3 DEF WriteOf, At
    <3>5. k = i
      BY <2>4, <3>4
    <3> QED
      BY <3>4, <3>5
  <2>5. ASSUME NEW w \in LoweredList(base, vs), w[1] = p
        PROVE  /\ vs[i][1] = "str" => w[2] = <<"ptr", t>>
               /\ vs[i][1] = "num" => w[2] = <<"num", vs[i][2]>>
               /\ vs[i][1] = "bool" => w[2] = <<"byte", vs[i][2]>>
    <3>1. PICK k \in 1..n : WriteOf(w, base, vs, k)
      BY <1>2
    <3>2. At(k) \in Nat /\ p < At(k)
      BY <1>1
    <3>3. p # base + 4 * (k - 1) /\ p # base + 4 * (k - 1) + 1 /\ p # base + 4 * (k - 1) + 2
      OBVIOUS
    <3>4. /\ w[1] = base + 4 * (k - 1) + 3
          /\ vs[k][1] = "str" => w[2] = <<"ptr", At(k) + 2>>
          /\ vs[k][1] = "num" => w[2] = <<"num", vs[k][2]>>
          /\ vs[k][1] = "bool" => w[2] = <<"byte", vs[k][2]>>
      <4> HIDE DEF p
      <4> QED
        BY <2>5, <3>1, <3>2, <3>3 DEF WriteOf, At
    <3>5. k = i
      BY <2>5, <3>4
    <3> QED
      BY <3>4, <3>5
  <2>6. ASSUME vs[i][1] = "str", NEW w \in LoweredList(base, vs), w[1] = t PROVE w[2] = <<"text", vs[i][2]>>
    <3>1. PICK k \in 1..n : WriteOf(w, base, vs, k)
      BY <1>2
    <3>2. /\ At(i) \in Nat /\ At(k) \in Nat /\ base + 4 * n <= At(i)
          /\ i = k \/ At(i) + 3 <= At(k) \/ At(k) + 2 <= At(i)
          /\ vs[k][1] = "str" => i = k \/ At(i) + 3 <= At(k) \/ At(k) + 3 <= At(i)
      <4>1. At(i) \in Nat /\ At(k) \in Nat /\ base + 4 * n <= At(i)
        BY <1>1
      <4>2. CASE i < k
        BY <1>1, <2>6, <4>1, <4>2
      <4>3. CASE k < i
        BY <1>1, <4>1, <4>3
      <4>4. i = k \/ i < k \/ k < i
        <5>1. n \in Nat
          OBVIOUS
        <5> QED
          BY <5>1
      <4> QED
        BY <4>1, <4>2, <4>3, <4>4
    <3>3. t \notin {base + 4 * (k - 1), base + 4 * (k - 1) + 1, base + 4 * (k - 1) + 2, base + 4 * (k - 1) + 3,
                    At(k), At(k) + 1}
      <4>1. t = At(i) + 2 /\ base \in Nat /\ n \in Nat
        OBVIOUS
      <4> HIDE DEF t, At
      <4> QED
        BY <3>2, <4>1
    <3>4. vs[k][1] = "str" /\ w[1] = At(k) + 2 /\ w[2] = <<"text", vs[k][2]>>
      <4> HIDE DEF t
      <4> QED
        BY <2>6, <3>1, <3>3 DEF WriteOf, At
    <3>5. k = i
      BY <2>6, <3>2, <3>4
    <3> QED
      BY <3>4, <3>5
  <2> HIDE DEF d, p, t
  <2>7. m2[d] = <<"disc", vs[i][1]>>
    <3>1. m2[d] = Stored(m[d], <<"disc", vs[i][1]>>)
      BY <1>6, <2>1, <2>3, <2>4
    <3> QED
      BY <3>1 DEF Stored
  <2>8. ASSUME vs[i][1] = "str" PROVE m2[p] = <<"ptr", t>> /\ m2[t] = <<"text", vs[i][2]>>
    <3>1. m2[p] = Stored(m[p], <<"ptr", t>>)
      BY <1>6, <2>1, <2>3, <2>5, <2>8
    <3>2. m2[t] = Stored(m[t], <<"text", vs[i][2]>>)
      BY <1>6, <2>2, <2>3, <2>6, <2>8
    <3> QED
      BY <3>1, <3>2 DEF Stored
  <2>9. ASSUME vs[i][1] = "num" PROVE m2[p] = <<"num", vs[i][2]>>
    <3>1. m2[p] = Stored(m[p], <<"num", vs[i][2]>>)
      BY <1>6, <2>1, <2>3, <2>5, <2>9
    <3> QED
      BY <3>1 DEF Stored
  <2>10. ASSUME vs[i][1] = "bool" PROVE m2[p][2] = vs[i][2]
    <3>1. m2[p] = Stored(m[p], <<"byte", vs[i][2]>>)
      BY <1>6, <2>1, <2>3, <2>5, <2>10
    <3> QED
      BY <3>1, ByteStored
  <2> QED
    BY <2>7, <2>8, <2>9, <2>10 DEF RecordOf, d, p, t, At
<1> QED
  BY <1>4, <1>5, <1>7 DEF ListIn

\* The host lifts the value that the record holds, without the content of a complex value.
LEMMA HostReads ==
  ASSUME NEW m, NEW base \in Nat, NEW vs, NEW i \in Nat, RecordOf(m, base, vs, i), WellFormed(vs[i])
  PROVE  HostRead(m, base + 4 * (i - 1) + 2) = View(vs[i])
<1> DEFINE a == base + 4 * (i - 1) + 2
<1>1. a + 1 = base + 4 * (i - 1) + 3
  OBVIOUS
<1>2. /\ m[a] = <<"disc", vs[i][1]>>
      /\ vs[i][1] = "str" => Text(m, m[a + 1][2]) = vs[i][2]
      /\ vs[i][1] \in {"num", "bool"} => m[a + 1][2] = vs[i][2]
  BY <1>1 DEF RecordOf, Text
<1>3. vs[i] = <<vs[i][1], vs[i][2]>> /\ vs[i][1] \in {"str", "complex", "bool", "num"}
  BY DEF WellFormed
<1>4. m[a][2] = vs[i][1]
  BY <1>2
<1> HIDE DEF a
<1>5. HostRead(m, a) = View(vs[i])
  <2>1. CASE vs[i][1] = "complex"
    BY <1>4, <2>1 DEF HostRead, View
  <2>2. CASE vs[i][1] = "str"
    BY <1>2, <1>3, <1>4, <2>2 DEF HostRead, View
  <2>3. CASE vs[i][1] \in {"num", "bool"}
    BY <1>2, <1>3, <1>4, <2>3 DEF HostRead, View
  <2> QED
    BY <1>3, <2>1, <2>2, <2>3
<1> QED
  BY <1>5 DEF a

\* The wrapper loads the value that the record holds, of the width of its kind.
LEMMA WrapperReads ==
  ASSUME NEW m, NEW base \in Nat, NEW vs, NEW i \in Nat, RecordOf(m, base, vs, i), WellFormed(vs[i]),
         NEW kind \in {"str", "narrow", "wide"}, vs[i][1] = Disc(kind)
  PROVE  WrapperRead(m, base + 4 * (i - 1) + 2, kind) = Fit(kind, vs[i])
<1> DEFINE a == base + 4 * (i - 1) + 2
<1>1. a + 1 = base + 4 * (i - 1) + 3
  OBVIOUS
<1>2. /\ vs[i][1] = "str" => Text(m, m[a + 1][2]) = vs[i][2]
      /\ vs[i][1] = "num" => m[a + 1][2] = vs[i][2]
  BY <1>1 DEF RecordOf, Text
<1> HIDE DEF a
<1> QED
  BY <1>2 DEF WrapperRead, Fit, Disc, WellFormed, a

\* The values of a kind have its disc.
LEMMA ValuesOfKind ==
  ASSUME NEW kind \in Kinds, NEW v \in Values(kind)
  PROVE  WellFormed(v) /\ v[1] = Disc(kind)
BY DEF Values, Kinds, IsText, Disc, WellFormed

\* What an advice answers with are values.
LEMMA AnswersAreValues == \A v \in Answers : WellFormed(v)
<1>1. \A v : WellFormed(v) => WellFormed(View(v))
  BY DEF WellFormed, View
<1>2. \A k \in {"str", "complex", "bool", "wide"} : \A v \in Values(k) : WellFormed(v)
  BY ValuesOfKind DEF Kinds
<1>3. \A v \in UNION {Values(k) : k \in {"str", "complex", "bool", "wide"}} : WellFormed(v)
  BY <1>2
<1> QED
  BY <1>1, <1>3 DEF Answers

\* A list that an advice answers with is a list of values, as long as the one it saw.
LEMMA ListsOfValues ==
  ASSUME NEW n \in Nat, NEW s, s = [i \in 1..n |-> s[i]], \A i \in 1..n : WellFormed(s[i]),
         NEW vs \in Lists(s)
  PROVE  Len(vs) = n /\ \A i \in 1..n : WellFormed(vs[i])
<1>1. Len(vs) = n
  BY AnswersAsMany
<1>2. DOMAIN s = 1..n
  OBVIOUS
<1>3. \A i \in 1..n : vs[i] = s[i] \/ vs[i] \in Answers
  BY <1>2 DEF Lists
<1> QED
  BY <1>1, <1>3, AnswersAreValues

-----------------------------------------------------------------------------
(* A call in memory.                                                       *)

\* On entry each text has a cell of its own, below the work areas.
LEMMA EnterLayout ==
  ASSUME NEW n \in Nat, NEW vs, Len(vs) = n, heap \in Nat,
         NEW args, args = heap + Cardinality({i \in 1..Len(vs) : IsText(vs[i][1])})
  PROVE  /\ args \in Nat /\ heap <= args /\ args <= heap + n
         /\ \A i \in 1..n : ~IsText(vs[i][1]) => Lifted(vs)[i] = vs[i][2]
         /\ \A i \in 1..n : IsText(vs[i][1]) => Lifted(vs)[i] \in heap..(args - 1)
         /\ \A i, k \in 1..n : i < k /\ IsText(vs[i][1]) /\ IsText(vs[k][1]) => Lifted(vs)[i] < Lifted(vs)[k]
<1> DEFINE T == {j \in 1..n : IsText(vs[j][1])}
<1>0. T \in SUBSET (1..n)
  OBVIOUS
<1>1. \A i \in 1..n : i \in T <=> IsText(vs[i][1])
  OBVIOUS
<1>2. \A i \in T : Lifted(vs)[i] = heap + Cardinality(T \cap 1..(i - 1))
  <2> SUFFICES ASSUME NEW i \in T PROVE Lifted(vs)[i] = heap + Cardinality(T \cap 1..(i - 1))
    OBVIOUS
  <2>1. {j \in 1..(i - 1) : IsText(vs[j][1])} = T \cap 1..(i - 1)
    BY DEF IsText
  <2>2. i \in 1..Len(vs) /\ IsText(vs[i][1])
    BY DEF IsText
  <2>3. Lifted(vs)[i] = heap + Cardinality({j \in 1..(i - 1) : IsText(vs[j][1])})
    <3> HIDE DEF T
    <3> QED
      BY <2>2, ZenonT(30) DEF Lifted
  <2> QED
    BY <2>1, <2>3
<1>3. args = heap + Cardinality(T)
  OBVIOUS
<1>4. \A i \in 1..n : i \notin T => Lifted(vs)[i] = vs[i][2]
  BY DEF Lifted
<1> HIDE DEF T
<1>5. Cardinality(T) \in Nat /\ Cardinality(T) <= n
  BY <1>0, AtMost
<1>6. \A i \in T : Lifted(vs)[i] \in heap..(args - 1)
  <2> SUFFICES ASSUME NEW i \in T PROVE Lifted(vs)[i] \in heap..(args - 1)
    OBVIOUS
  <2>1. Cardinality(T \cap 1..(i - 1)) \in Nat /\ Cardinality(T \cap 1..(i - 1)) + 1 <= Cardinality(T)
    BY <1>0, CountsBelowAll
  <2> QED
    BY <1>2, <1>3, <1>5, <2>1
<1>7. \A i, k \in T : i < k => Lifted(vs)[i] < Lifted(vs)[k]
  <2> SUFFICES ASSUME NEW i \in T, NEW k \in T, i < k PROVE Lifted(vs)[i] < Lifted(vs)[k]
    OBVIOUS
  <2>1. i \in 1..n /\ k \in 1..(n + 1)
    BY <1>0
  <2>2. /\ Cardinality(T \cap 1..(i - 1)) \in Nat /\ Cardinality(T \cap 1..(k - 1)) \in Nat
        /\ Cardinality(T \cap 1..(i - 1)) + 1 <= Cardinality(T \cap 1..(k - 1))
    BY <1>0, <2>1, CountsUp
  <2> QED
    BY <1>2, <2>2
<1> QED
  BY <1>0, <1>1, <1>3, <1>4, <1>5, <1>6, <1>7

\* A write on entry: of a text, or of a disc or a payload in args_area.
EntryOf(w, vs, locals, args, i) ==
  \/ IsText(vs[i][1]) /\ w = <<locals[i], <<"text", vs[i][2]>>>>
  \/ w = <<args + 4 * (i - 1) + 2, <<"disc", vs[i][1]>>>>
  \/ w = <<args + 4 * (i - 1) + 3, Marshalled(vs, locals, i)>>

EntryWrites(writes, vs, locals, args, n) ==
  /\ n \in Nat /\ args \in Nat /\ 0..(args + 4 * n) \subseteq Cells
  /\ \A w : w \in writes <=> \E i \in 1..n : EntryOf(w, vs, locals, args, i)

\* The arguments are values, their texts have cells of their own, and the other locals are
\* the values.
TextsApart(vs, locals, args, n) ==
  /\ \A i \in 1..n : WellFormed(vs[i])
  /\ \A i \in 1..n : ~IsText(vs[i][1]) => locals[i] = vs[i][2]
  /\ \A i \in 1..n : IsText(vs[i][1]) => locals[i] \in 0..(args - 1)
  /\ \A i, k \in 1..n : i < k /\ IsText(vs[i][1]) /\ IsText(vs[k][1]) => locals[i] < locals[k]

\* The texts are in their cells, and args_area shows the arguments.
Entered(m, vs, locals, args, n) ==
  /\ \A i \in 1..n : IsText(vs[i][1]) => m[locals[i]] = <<"text", vs[i][2]>>
  /\ \A i \in 1..n : HostRead(m, args + 4 * (i - 1) + 2) = View(vs[i])

\* That is so after these writes.
LEMMA EnterStored ==
  ASSUME NEW n, NEW vs, NEW args, NEW locals, TextsApart(vs, locals, args, n),
         NEW writes, EntryWrites(writes, vs, locals, args, n), NEW m0
  PROVE  Entered(Store(m0, writes), vs, locals, args, n)
<1> DEFINE m == Store(m0, writes)
<1>3. m = Store(m0, writes)
  OBVIOUS
<1>4. /\ n \in Nat /\ args \in Nat /\ 0..(args + 4 * n) \subseteq Cells
      /\ \A w : w \in writes <=> \E i \in 1..n : EntryOf(w, vs, locals, args, i)
  BY DEF EntryWrites
<1>5. /\ \A i \in 1..n : WellFormed(vs[i])
      /\ \A i \in 1..n : ~IsText(vs[i][1]) => locals[i] = vs[i][2]
      /\ \A i \in 1..n : IsText(vs[i][1]) => locals[i] \in 0..(args - 1)
      /\ \A i, k \in 1..n : i < k /\ IsText(vs[i][1]) /\ IsText(vs[k][1]) => locals[i] < locals[k]
  BY DEF TextsApart
<1> HIDE DEF m
<1> USE <1>3, <1>4, <1>5
<1>1. ASSUME NEW i \in 1..n, IsText(vs[i][1]) PROVE m[locals[i]] = <<"text", vs[i][2]>>
  <2> DEFINE c == locals[i]
  <2>1. c \in Cells /\ c \in Nat /\ c < args
    BY <1>1
  <2>2. <<c, <<"text", vs[i][2]>>>> \in writes
    BY <1>1 DEF EntryOf
  <2>3. ASSUME NEW w \in writes, w[1] = c PROVE w[2] = <<"text", vs[i][2]>>
    <3>1. PICK k \in 1..n : EntryOf(w, vs, locals, args, k)
      OBVIOUS
    <3>2. IsText(vs[k][1]) /\ w[1] = locals[k] /\ w[2] = <<"text", vs[k][2]>>
      <4>1. w # <<args + 4 * (k - 1) + 2, <<"disc", vs[k][1]>>>>
        BY <2>1, <2>3
      <4>2. w # <<args + 4 * (k - 1) + 3, Marshalled(vs, locals, k)>>
        BY <2>1, <2>3
      <4>3. IsText(vs[k][1]) /\ w = <<locals[k], <<"text", vs[k][2]>>>>
        BY <3>1, <4>1, <4>2 DEF EntryOf
      <4>4. w[1] = locals[k]
        BY <4>3
      <4>5. w[2] = <<"text", vs[k][2]>>
        BY <4>3
      <4> QED
        BY <4>3, <4>4, <4>5
    <3>3. k = i
      <4>1. locals[k] = locals[i] /\ locals[i] \in Nat
        BY <2>1, <2>3, <3>2
      <4>2. ~(i < k) /\ ~(k < i)
        BY <1>1, <3>2, <4>1
      <4> QED
        BY <4>2
    <3> QED
      BY <3>2, <3>3
  <2> HIDE DEF c
  <2>4. m[c] = Stored(m0[c], <<"text", vs[i][2]>>)
    <3>1. Store(m0, writes)[c] = Stored(m0[c], <<"text", vs[i][2]>>)
      BY ONLY <2>1, <2>2, <2>3, Wrote
    <3> QED
      BY ONLY <1>3, <3>1
  <2> QED
    BY <2>4 DEF Stored, c
<1>2. ASSUME NEW i \in 1..n PROVE HostRead(m, args + 4 * (i - 1) + 2) = View(vs[i])
  <2> DEFINE d == args + 4 * (i - 1) + 2
             p == args + 4 * (i - 1) + 3
  <2>1. d \in Cells /\ d \in Nat /\ p \in Cells /\ p \in Nat /\ d + 1 = p /\ args <= d /\ d # p
    OBVIOUS
  <2>2. <<d, <<"disc", vs[i][1]>>>> \in writes /\ <<p, Marshalled(vs, locals, i)>> \in writes
    BY DEF EntryOf
  <2>3. ASSUME NEW w \in writes, w[1] \in {d, p}
        PROVE  (w[1] = d => w[2] = <<"disc", vs[i][1]>>) /\ (w[1] = p => w[2] = Marshalled(vs, locals, i))
    <3>1. PICK k \in 1..n : EntryOf(w, vs, locals, args, k)
      OBVIOUS
    <3>2. \/ w[1] = args + 4 * (k - 1) + 2 /\ w[2] = <<"disc", vs[k][1]>>
          \/ w[1] = args + 4 * (k - 1) + 3 /\ w[2] = Marshalled(vs, locals, k)
      BY <2>1, <2>3, <3>1 DEF EntryOf
    <3>3. k = i
      BY <2>3, <3>2
    <3> QED
      BY <2>1, <3>2, <3>3
  <2> HIDE DEF d, p
  <2>4. m[d] = Stored(m0[d], <<"disc", vs[i][1]>>)
    <3>1. Store(m0, writes)[d] = Stored(m0[d], <<"disc", vs[i][1]>>)
      BY ONLY <2>1, <2>2, <2>3, Wrote
    <3> QED
      BY ONLY <1>3, <3>1
  <2>5. m[p] = Stored(m0[p], Marshalled(vs, locals, i))
    <3>1. Store(m0, writes)[p] = Stored(m0[p], Marshalled(vs, locals, i))
      BY ONLY <2>1, <2>2, <2>3, Wrote
    <3> QED
      BY ONLY <1>3, <3>1
  <2>6. m[d] = <<"disc", vs[i][1]>>
    BY <2>4 DEF Stored
  <2>7. CASE vs[i][1] = "str"
    <3>1. m[p] = <<"ptr", locals[i]>>
      BY <2>5, <2>7 DEF Stored, Marshalled
    <3>2. IsText(vs[i][1])
      BY <2>7 DEF IsText
    <3>3. m[m[p][2]] = <<"text", vs[i][2]>>
      BY <1>1, <3>1, <3>2
    <3>4. Text(m, m[p][2]) = vs[i][2]
      BY <3>3 DEF Text
    <3> QED
      BY <2>1, <2>6, <2>7, <3>4 DEF HostRead, View, WellFormed, d
  <2>8. CASE vs[i][1] = "num"
    <3>1. m[p] = <<"num", vs[i][2]>>
      BY <2>5, <2>8 DEF Stored, Marshalled, IsText
    <3> QED
      BY <2>1, <2>6, <2>8, <3>1 DEF HostRead, View, WellFormed, d
  <2>9. CASE vs[i][1] = "bool"
    <3>1. m[p][2] = vs[i][2]
      BY <2>5, <2>9 DEF Stored, Marshalled, IsText
    <3> QED
      BY <2>1, <2>6, <2>9, <3>1 DEF HostRead, View, WellFormed, d
  <2>10. CASE vs[i][1] = "complex"
    <3>1. m[d][2] = "complex"
      BY <2>6, <2>10
    <3>2. HostRead(m, d) = <<"complex", "">>
      BY <3>1 DEF HostRead
    <3> QED
      BY <2>10, <3>2 DEF View, d
  <2> QED
    BY <2>7, <2>8, <2>9, <2>10 DEF WellFormed
<1> QED
  BY <1>1, <1>2 DEF Entered, m

-----------------------------------------------------------------------------
\* The work areas of a call: after the caller's texts and args_area, and before the heap of
\* every round.
HoldsFrame ==
  /\ frame \in [args : Nat, before : Nat, after : Nat, target : Nat, watermark : Nat]
  /\ HeapBase <= frame.before
  /\ frame.after = frame.before + 4 /\ frame.target = frame.before + 8
  /\ frame.watermark = frame.target + area /\ frame.watermark <= heap

\* From the call of the target on, the records of its arguments are behind the watermark.
HoldsRecords == frame.watermark + 4 * arity <= heap

\* The caller's complex values stay where the caller put them.
KeepsComplex ==
  \A i \in 1..arity : sig.params[i] = "complex" =>
    /\ called[i] = <<"complex", called[i][2]>>
    /\ params[i] \in 0..(frame.before - 1)
    /\ mem[params[i]] = <<"text", called[i][2]>>

\* What the advice's constructor is going to be shown.
ShowsArgs == \A i \in 1..arity : HostRead(mem, frame.args + 4 * (i - 1) + 2) = View(given[i])

\* The target's complex value, if it fits, stays where the target put it.
KeepsOutcome ==
  sig.result = "complex" /\ Fits =>
    /\ outcome = <<"complex", outcome[2]>>
    /\ \E p \in Nat : /\ frame.target < p /\ p < heap
                      /\ mem[frame.target] = <<"ptr", p>> /\ mem[p] = <<"text", outcome[2]>>
    /\ \A c \in Parts : mem[c] = <<"part", outcome[2]>>

CallInv ==
  /\ phase \notin {"idle", "trapped"} =>
       /\ export \in Exported(world)
       /\ HoldsFrame
       /\ \A i \in 1..arity : WellFormed(given[i])
       /\ KeepsComplex
  /\ phase = "ready" => ShowsArgs
  /\ phase = "target" => HoldsRecords
  /\ phase = "after" => KeepsOutcome
  /\ AdviceSeesTheCall
  /\ AdviceIsObeyed

\* The kinds of an export's parameters and of its result, and the cells of the result.
IsSignature(s) ==
  /\ s.params \in Seq(Kinds) /\ s.result \in Kinds \cup {None}
  /\ Area(s) \in Nat /\ Extent(s) \in Nat
  /\ IsText(s.result) => Area(s) > 0 /\ Extent(s) > 0
  /\ s.result = "str" => Extent(s) = 1

LEMMA SignatureOfKinds ==
  ASSUME NEW w \in Worlds, NEW e \in Exported(w)
  PROVE  IsSignature(Signature(w, e))
<1> DEFINE functions == UNION {Range(w.exports[i].functions) :
                                 i \in {i \in 1..Len(w.exports) : w.exports[i].iface = e[1]}}
<1>1. \E f \in functions : f.name = e[2]
  <2>1. PICK i \in 1..Len(w.exports) : \E j \in 1..Len(w.exports[i].functions) :
               e = <<w.exports[i].iface, w.exports[i].functions[j].name>>
    BY DEF Exported
  <2>2. PICK j \in 1..Len(w.exports[i].functions) : e = <<w.exports[i].iface, w.exports[i].functions[j].name>>
    BY <2>1
  <2>3. w.exports[i].functions[j] \in Range(w.exports[i].functions)
    BY InterceptorAssumption, LenProperties DEF Range
  <2> QED
    BY <2>2, <2>3
<1>2. \A f \in functions : IsSignature(f.signature)
  BY InterceptorAssumption DEF IsSignature
<1>3. Signature(w, e) = (CHOOSE f \in functions : f.name = e[2]).signature
  BY DEF Signature
<1> HIDE DEF functions
<1> QED
  BY <1>1, <1>2, <1>3

\* The cells of a call are in the memory.
LEMMA CellsOfCall ==
  ASSUME MemoryInv, CallInv, phase \notin {"idle", "trapped"}
  PROVE  /\ arity \in Nat /\ heap \in Nat /\ area \in Nat /\ Extent(sig) \in Nat /\ IsSignature(sig)
         /\ 0..(HeapBase + 19 * arity + 10 + area + Extent(sig)) \subseteq Cells
         /\ 0..(HeapBase + 19 * arity + 10 + area) \subseteq Cells
<1>1. /\ arity \in Nat /\ heap \in Nat /\ HeapBase \in Nat
      /\ 0..(HeapBase + 19 * arity + 10 + area + Extent(sig)) \subseteq Cells
  BY MemoryAssumption, InterceptorAssumption DEF MemoryInv, CallInv, arity, area, sig
<1>2. IsSignature(sig) /\ area \in Nat /\ Extent(sig) \in Nat
  BY SignatureOfKinds DEF MemoryInv, CallInv, sig, area, IsSignature
<1>3. \A c \in 0..(HeapBase + 19 * arity + 10 + area) : c \in 0..(HeapBase + 19 * arity + 10 + area + Extent(sig))
  BY <1>1, <1>2
<1> QED
  BY <1>1, <1>2, <1>3

\* A call starts with its arguments in args_area.
LEMMA EnterCall ==
  ASSUME MemoryInv, CallInv, NEW e \in Exported(world), NEW vs,
         DOMAIN vs = 1..Len(Signature(world, e).params), vs = [i \in DOMAIN vs |-> vs[i]],
         \A i \in DOMAIN vs : vs[i] \in Values(Signature(world, e).params[i]), Enter(e, vs)
  PROVE  CallInv'
<1> DEFINE s == Signature(world, e)
           n == Len(s.params)
           args == heap + Cardinality({i \in 1..Len(vs) : IsText(vs[i][1])})
           texts == {<<Lifted(vs)[i], <<"text", vs[i][2]>>>> : i \in {i \in 1..Len(vs) : IsText(vs[i][1])}}
           fields == UNION {{<<args + 4 * (i - 1) + 2, <<"disc", vs[i][1]>>>>,
                             <<args + 4 * (i - 1) + 3, Marshalled(vs, Lifted(vs), i)>>} : i \in 1..Len(vs)}
           before == args + 4 * Len(vs)
           top == before + 8 + Area(s)
<1>1. /\ phase = "idle" /\ phase' = "ready" /\ export' = e /\ world' = world
      /\ called' = vs /\ given' = vs /\ params' = Lifted(vs)
      /\ mem' = Store(mem, texts \cup fields) /\ heap' = top
      /\ frame' = [args |-> args, before |-> before, after |-> before + 4, target |-> before + 8, watermark |-> top]
  BY DEF Enter
<1>2. sig' = s /\ arity' = n /\ area' = Area(s)
  BY <1>1 DEF sig, arity, area
<1>3. n \in Nat /\ s.params \in Seq(Kinds) /\ Area(s) \in Nat /\ 0..(HeapBase + 19 * n + 10) \subseteq Cells
  <2>1. n \in Nat /\ HeapBase \in Nat /\ IsSignature(s)
    BY ArityIsNat, SignatureOfKinds, InterceptorAssumption DEF MemoryInv
  <2>2. 0..(HeapBase + 19 * n + 10 + Area(s) + Extent(s)) \subseteq Cells
    BY MemoryAssumption DEF MemoryInv
  <2> HIDE DEF n, s
  <2>3. Area(s) \in Nat /\ Extent(s) \in Nat /\ s.params \in Seq(Kinds)
    BY <2>1 DEF IsSignature
  <2>4. \A c \in 0..(HeapBase + 19 * n + 10) : c \in 0..(HeapBase + 19 * n + 10 + Area(s) + Extent(s))
    BY <2>1, <2>3
  <2> QED
    BY <2>1, <2>2, <2>3, <2>4
<1>4. Len(vs) = n
  <2>1. vs \in [1..n -> {vs[i] : i \in 1..n}]
    OBVIOUS
  <2> HIDE DEF n
  <2> QED
    BY <1>3, <2>1, ListOf
<1>5. heap \in Nat /\ heap = HeapBase /\ HeapBase \in Nat
  BY <1>1, InterceptorAssumption DEF MemoryInv
<1>6. \A i \in 1..n : s.params[i] \in Kinds /\ vs[i] \in Values(s.params[i])
  BY <1>3
<1>7. \A i \in 1..n : WellFormed(vs[i]) /\ vs[i][1] = Disc(s.params[i])
  BY <1>6, ValuesOfKind
<1>8. \A w : w \in texts \cup fields <=> \E i \in 1..n : EntryOf(w, vs, Lifted(vs), args, i)
  <2>1. \A w : w \in texts <=> \E i \in 1..n : IsText(vs[i][1]) /\ w = <<Lifted(vs)[i], <<"text", vs[i][2]>>>>
    BY <1>4, Zenon
  <2>2. \A w : w \in fields <=> \E i \in 1..n : \/ w = <<args + 4 * (i - 1) + 2, <<"disc", vs[i][1]>>>>
                                                \/ w = <<args + 4 * (i - 1) + 3, Marshalled(vs, Lifted(vs), i)>>
    <3> HIDE DEF args, n
    <3> QED
      BY <1>4
  <2> HIDE DEF texts, fields, args, n
  <2> QED
    BY <2>1, <2>2, Zenon DEF EntryOf
<1> HIDE DEF texts, fields
<1>9. /\ args \in Nat /\ heap <= args /\ args <= heap + n
      /\ \A i \in 1..n : ~IsText(vs[i][1]) => Lifted(vs)[i] = vs[i][2]
      /\ \A i \in 1..n : IsText(vs[i][1]) => Lifted(vs)[i] \in heap..(args - 1)
      /\ \A i, k \in 1..n : i < k /\ IsText(vs[i][1]) /\ IsText(vs[k][1]) => Lifted(vs)[i] < Lifted(vs)[k]
  <2> HIDE DEF n
  <2> QED
    BY <1>3, <1>4, <1>5, EnterLayout
<1> HIDE DEF args, n, s
<1>10. /\ \A i \in 1..n : IsText(vs[i][1]) => mem'[Lifted(vs)[i]] = <<"text", vs[i][2]>>
       /\ \A i \in 1..n : HostRead(mem', args + 4 * (i - 1) + 2) = View(vs[i])
  <2>1. 0..(args + 4 * n) \subseteq Cells
    BY <1>3, <1>5, <1>9
  <2>2. TextsApart(vs, Lifted(vs), args, n)
    <3>1. \A i \in 1..n : IsText(vs[i][1]) => Lifted(vs)[i] \in 0..(args - 1)
      BY <1>5, <1>9
    <3> QED
      BY <1>7, <1>9, <3>1 DEF TextsApart
  <2>3. EntryWrites(texts \cup fields, vs, Lifted(vs), args, n)
    BY <1>3, <1>8, <1>9, <2>1 DEF EntryWrites
  <2>4. Entered(Store(mem, texts \cup fields), vs, Lifted(vs), args, n)
    BY <2>2, <2>3, EnterStored
  <2> QED
    BY <1>1, <2>4 DEF Entered
<1>11. HoldsFrame'
  <2>1. before \in Nat /\ top \in Nat /\ HeapBase <= before
    BY <1>3, <1>4, <1>5, <1>9
  <2>2. top = before + 8 + Area(s)
    OBVIOUS
  <2> HIDE DEF before, top
  <2>3. frame' \in [args : Nat, before : Nat, after : Nat, target : Nat, watermark : Nat]
    BY <1>1, <1>9, <2>1
  <2>4. /\ frame'.before = before /\ frame'.after = before + 4 /\ frame'.target = before + 8
        /\ frame'.watermark = top /\ heap' = top
    BY <1>1
  <2>5. frame'.watermark = frame'.target + area' /\ frame'.watermark <= heap'
    BY <1>2, <2>1, <2>2, <2>4
  <2> QED
    BY <2>1, <2>3, <2>4, <2>5 DEF HoldsFrame
<1>12. KeepsComplex'
  <2> SUFFICES ASSUME NEW i \in 1..n, s.params[i] = "complex"
               PROVE  /\ vs[i] = <<"complex", vs[i][2]>>
                      /\ Lifted(vs)[i] \in 0..(before - 1)
                      /\ mem'[Lifted(vs)[i]] = <<"text", vs[i][2]>>
    BY <1>1, <1>2 DEF KeepsComplex
  <2>1. vs[i][1] = "complex" /\ vs[i] = <<vs[i][1], vs[i][2]>>
    BY <1>7 DEF Disc, WellFormed
  <2>2. IsText(vs[i][1])
    BY <2>1 DEF IsText
  <2>3. Lifted(vs)[i] \in heap..(args - 1)
    BY <1>9, <2>2
  <2>4. Lifted(vs)[i] \in 0..(before - 1)
    BY <1>3, <1>4, <1>5, <1>9, <2>3
  <2> QED
    BY <1>10, <2>1, <2>2, <2>4
<1>13. ShowsArgs'
  BY <1>1, <1>2, <1>10 DEF ShowsArgs
<1> QED
  BY <1>1, <1>2, <1>7, <1>11, <1>12, <1>13 DEF CallInv, AdviceSeesTheCall, AdviceIsObeyed, Obeyed

\* The list that an advice answers with is in memory behind all that the call holds there.
LEMMA AnswerStored ==
  ASSUME MemoryInv, CallInv, phase \in {"before", "after"}, NEW vs, Len(vs) = arity,
         NEW x, x = IF phase = "before" THEN frame.before + 1 ELSE frame.after + 1,
         mem' = Store(mem, LoweredList(heap, vs) \cup {<<x, <<"ptr", heap>>>>})
  PROVE  /\ mem'[x] = <<"ptr", heap>>
         /\ \A i \in 1..arity : RecordOf(mem', heap, vs, i)
         /\ \A c \in 0..(frame.before - 1) : mem'[c] = mem[c]
<1>1. /\ arity \in Nat /\ heap \in Nat /\ area \in Nat /\ HeapBase \in Nat
      /\ 0..(HeapBase + 19 * arity + 10 + area) \subseteq Cells
  BY CellsOfCall, InterceptorAssumption
<1>2. HoldsFrame
  BY DEF CallInv
<1>3. x \in Nat /\ frame.before < x /\ x < heap /\ frame.before \in Nat
  <2>1. /\ frame.before \in Nat /\ frame.after = frame.before + 4 /\ frame.target = frame.before + 8
        /\ frame.watermark = frame.target + area /\ frame.watermark <= heap
    BY <1>2 DEF HoldsFrame
  <2>2. frame.before + 8 <= heap
    BY <1>1, <2>1
  <2>3. x = frame.before + 1 \/ x = frame.before + 5
    BY <2>1
  <2> QED
    BY <1>1, <2>1, <2>2, <2>3
<1>4. heap <= HeapBase + 12 * arity + 9 + area
  <2>1. heap <= HeapBase + Bound /\ Bound \in {5 * arity + 8 + area, 12 * arity + 9 + area}
    BY DEF MemoryInv, Bound
  <2> QED
    BY <1>1, <2>1
<1>5. heap..(heap + 7 * arity - 1) \subseteq Cells /\ x \in Cells
  BY <1>1, <1>3, <1>4
<1>6. ListIn(mem', mem, vs, arity, heap, x)
  <2>1. ListFits(vs, arity, heap, x)
    BY <1>1, <1>3, <1>5 DEF ListFits
  <2> QED
    BY <2>1, ListStored
<1>7. ASSUME NEW c \in 0..(frame.before - 1) PROVE mem'[c] = mem[c]
  <2>1. c \in Cells /\ c \in Nat /\ c < heap /\ c # x
    BY <1>1, <1>3, <1>4, <1>5
  <2> QED
    BY <1>6, <2>1 DEF ListIn
<1> QED
  BY <1>6, <1>7 DEF ListIn

\* A round starts: the constructor is shown the arguments in args_area.
LEMMA ConstructCall ==
  ASSUME MemoryInv, CallInv, Construct
  PROVE  CallInv'
<1>1. /\ phase = "ready" /\ phase' = "before" /\ heap' = frame.watermark
      /\ UNCHANGED <<world, export, mem, frame, params, called, given>>
      /\ seen' = [i \in 1..arity |-> HostRead(mem, frame.args + 4 * (i - 1) + 2)]
  BY DEF Construct, RetryHeap
<1>2. arity' = arity /\ area' = area /\ sig' = sig
  BY <1>1 DEF arity, area, sig
<1>3. HoldsFrame'
  BY <1>1, <1>2 DEF CallInv, HoldsFrame
<1>4. KeepsComplex'
  BY <1>1, <1>2 DEF CallInv, KeepsComplex
<1>5. seen' = [i \in 1..arity |-> View(given[i])]
  BY <1>1 DEF CallInv, ShowsArgs
<1>6. AdviceSeesTheCall' /\ AdviceIsObeyed'
  BY <1>1, <1>2, <1>5 DEF AdviceSeesTheCall, AdviceIsObeyed, Obeyed
<1> QED
  BY <1>1, <1>2, <1>3, <1>4, <1>6 DEF CallInv

\* The target is called with what the advice proceeds with.
LEMMA ProceedCall ==
  ASSUME MemoryInv, CallInv, phase = "before", NEW vs \in Lists(seen), Proceed(vs)
  PROVE  CallInv'
<1>1. /\ phase' = "target" /\ said' = vs /\ heap' = heap + ListCells(vs)
      /\ \A i \in 1..arity : vs[i][1] = Disc(sig.params[i])
      /\ mem' = Store(mem, LoweredList(heap, vs) \cup {<<frame.before + 1, <<"ptr", heap>>>>})
      /\ sent' = [i \in 1..arity |-> Argument(mem', i)]
      /\ UNCHANGED <<world, export, frame, params, called, given>>
  BY DEF Proceed
<1>2. arity' = arity /\ area' = area /\ sig' = sig
  BY <1>1 DEF arity, area, sig
<1>3. /\ arity \in Nat /\ heap \in Nat /\ sig.params \in Seq(Kinds)
  BY CellsOfCall DEF IsSignature
<1>4. Len(vs) = arity /\ \A i \in 1..arity : WellFormed(vs[i])
  <2>1. seen = [i \in 1..arity |-> View(given[i])] /\ \A i \in 1..arity : WellFormed(given[i])
    BY DEF CallInv, AdviceSeesTheCall
  <2>2. seen = [i \in 1..arity |-> seen[i]] /\ \A i \in 1..arity : WellFormed(seen[i])
    BY <2>1 DEF WellFormed, View
  <2> QED
    BY <1>3, <2>2, ListsOfValues
<1>5. /\ mem'[frame.before + 1] = <<"ptr", heap>>
      /\ \A i \in 1..arity : RecordOf(mem', heap, vs, i)
      /\ \A c \in 0..(frame.before - 1) : mem'[c] = mem[c]
  BY <1>1, <1>4, AnswerStored
<1>6. HoldsFrame' /\ HoldsRecords'
  <2>1. ListCells(vs) \in Nat /\ 6 * arity <= ListCells(vs)
    BY <1>3, <1>4, CellsOfList
  <2>2. \A w \in Nat : w <= heap => w <= heap' /\ w + 4 * arity <= heap'
    BY <1>1, <1>3, <2>1
  <2>3. frame.watermark \in Nat /\ frame.watermark <= heap
    BY DEF CallInv, HoldsFrame
  <2> QED
    BY <1>1, <1>2, <2>2, <2>3 DEF CallInv, HoldsFrame, HoldsRecords
<1>7. KeepsComplex'
  BY <1>1, <1>2, <1>5 DEF CallInv, KeepsComplex
<1>8. ASSUME NEW i \in 1..arity, sig.params[i] \in {"str", "narrow", "wide", "complex"}
      PROVE  sent'[i] = IF sig.params[i] = "complex" THEN called[i] ELSE Fit(sig.params[i], vs[i])
  <2>1. sent'[i] = Argument(mem', i)
    BY <1>1
  <2>2. CASE sig.params[i] = "complex"
    <3>1. mem'[params[i]] = <<"text", called[i][2]>> /\ called[i] = <<"complex", called[i][2]>>
      BY <1>5, <2>2 DEF CallInv, KeepsComplex
    <3>2. Argument(mem', i) = <<"complex", called[i][2]>>
      BY <2>2, <3>1 DEF Argument, Text
    <3> QED
      BY <2>1, <2>2, <3>1, <3>2
  <2>3. CASE sig.params[i] # "complex"
    <3>1. Argument(mem', i) = WrapperRead(mem', heap + 4 * (i - 1) + 2, sig.params[i])
      BY <1>5, <2>3 DEF Argument
    <3>2. RecordOf(mem', heap, vs, i) /\ WellFormed(vs[i]) /\ vs[i][1] = Disc(sig.params[i])
      BY <1>1, <1>4, <1>5
    <3>3. sig.params[i] \in {"str", "narrow", "wide"}
      BY <1>8, <2>3
    <3>4. WrapperRead(mem', heap + 4 * (i - 1) + 2, sig.params[i]) = Fit(sig.params[i], vs[i])
      BY <1>3, <3>2, <3>3, WrapperReads
    <3> QED
      BY <2>1, <2>3, <3>1, <3>4
  <2> QED
    BY <2>2, <2>3
<1>9. AdviceSeesTheCall' /\ AdviceIsObeyed'
  BY <1>1, <1>2, <1>8 DEF AdviceSeesTheCall, AdviceIsObeyed, Obeyed
<1> QED
  BY <1>1, <1>2, <1>6, <1>7, <1>9 DEF CallInv

\* The next round starts with what the advice repeats with.
LEMMA RepeatCall ==
  ASSUME MemoryInv, CallInv, NEW vs \in Lists([i \in 1..arity |-> View(given[i])]), Repeat(vs)
  PROVE  CallInv'
<1>1. /\ phase = "after" /\ phase' = "ready" /\ given' = vs /\ heap' = heap + ListCells(vs)
      /\ mem' = Store(mem, LoweredList(heap, vs) \cup {<<frame.after + 1, <<"ptr", heap>>>>})
      /\ frame' = [frame EXCEPT !.args = NextArgs(mem')]
      /\ UNCHANGED <<world, export, params, called>>
  BY DEF Repeat
<1>2. arity' = arity /\ area' = area /\ sig' = sig
  BY <1>1 DEF arity, area, sig
<1>3. arity \in Nat /\ heap \in Nat
  BY <1>1, CellsOfCall
<1>4. Len(vs) = arity /\ \A i \in 1..arity : WellFormed(vs[i])
  <2> DEFINE shown == [i \in 1..arity |-> View(given[i])]
  <2>1. \A i \in 1..arity : WellFormed(given[i])
    BY <1>1 DEF CallInv
  <2>2. shown = [i \in 1..arity |-> shown[i]] /\ \A i \in 1..arity : WellFormed(shown[i])
    BY <2>1 DEF WellFormed, View
  <2>3. vs \in Lists(shown)
    OBVIOUS
  <2> HIDE DEF shown
  <2> QED
    BY <1>3, <2>2, <2>3, ListsOfValues
<1>5. /\ mem'[frame.after + 1] = <<"ptr", heap>>
      /\ \A i \in 1..arity : RecordOf(mem', heap, vs, i)
      /\ \A c \in 0..(frame.before - 1) : mem'[c] = mem[c]
  BY <1>1, <1>4, AnswerStored
<1>6. /\ frame \in [args : Nat, before : Nat, after : Nat, target : Nat, watermark : Nat]
      /\ frame' = [frame EXCEPT !.args = heap]
  <2>1. NextArgs(mem') = heap
    BY <1>5 DEF NextArgs
  <2> QED
    BY <1>1, <2>1 DEF CallInv, HoldsFrame
<1>7. /\ frame'.args = heap /\ frame'.before = frame.before /\ frame'.after = frame.after
      /\ frame'.target = frame.target /\ frame'.watermark = frame.watermark
      /\ frame' \in [args : Nat, before : Nat, after : Nat, target : Nat, watermark : Nat]
  BY <1>3, <1>6
<1>8. HoldsFrame'
  <2>1. ListCells(vs) \in Nat
    BY <1>3, <1>4, CellsOfList
  <2>2. \A w \in Nat : w <= heap => w <= heap'
    BY <1>1, <1>3, <2>1
  <2> QED
    BY <1>1, <1>2, <1>7, <2>2 DEF CallInv, HoldsFrame
<1>9. KeepsComplex'
  BY <1>1, <1>2, <1>5, <1>7 DEF CallInv, KeepsComplex
<1>10. ShowsArgs'
  <2>1. ASSUME NEW i \in 1..arity PROVE HostRead(mem', heap + 4 * (i - 1) + 2) = View(vs[i])
    <3>1. i \in Nat /\ RecordOf(mem', heap, vs, i) /\ WellFormed(vs[i])
      BY <1>3, <1>4, <1>5
    <3> QED
      BY <1>3, <3>1, HostReads
  <2> QED
    BY <1>1, <1>2, <1>7, <2>1 DEF ShowsArgs
<1>11. AdviceSeesTheCall' /\ AdviceIsObeyed'
  BY <1>1 DEF AdviceSeesTheCall, AdviceIsObeyed, Obeyed
<1> QED
  BY <1>1, <1>2, <1>4, <1>8, <1>9, <1>10, <1>11 DEF CallInv

\* The target answers: its text goes behind all that the call holds in memory.
LEMMA TargetCall ==
  ASSUME MemoryInv, CallInv, NEW r \in Results(sig), Target(r)
  PROVE  CallInv'
<1>1. /\ phase = "target" /\ phase' = "after" /\ outcome' = r
      /\ UNCHANGED <<world, export, frame, params, called, given>>
  BY DEF Target
<1>2. arity' = arity /\ area' = area /\ sig' = sig
  BY <1>1 DEF arity, area, sig
<1>3. /\ arity \in Nat /\ heap \in Nat /\ area \in Nat /\ HeapBase \in Nat /\ Extent(sig) \in Nat
      /\ sig.result \in Kinds \cup {None}
      /\ IsText(sig.result) => area > 0 /\ Extent(sig) > 0
      /\ sig.result = "str" => Extent(sig) = 1
      /\ 0..(HeapBase + 19 * arity + 10 + area + Extent(sig)) \subseteq Cells
  BY <1>1, CellsOfCall, InterceptorAssumption DEF IsSignature, area
<1>4. /\ frame.before \in Nat /\ frame.target = frame.before + 8
      /\ frame.watermark = frame.target + area /\ frame.watermark + 4 * arity <= heap
      /\ frame.target <= HeapBase + 5 * arity + 8 /\ heap <= HeapBase + 12 * arity + 8 + area
  <2>1. /\ frame.before \in Nat /\ frame.target = frame.before + 8
        /\ frame.watermark = frame.target + area /\ frame.watermark + 4 * arity <= heap
    BY <1>1 DEF CallInv, HoldsFrame, HoldsRecords
  <2>2. /\ frame.watermark <= HeapBase + 5 * arity + 8 + area
        /\ heap <= HeapBase + Bound /\ Bound = 12 * arity + 8 + area
    BY <1>1 DEF MemoryInv, Bound
  <2> QED
    BY <1>3, <2>1, <2>2
<1>5. ASSUME r # None PROVE /\ WellFormed(r) /\ r[1] = Disc(sig.result) /\ sig.result # None
                            /\ r[1] = "complex" <=> sig.result = "complex"
                            /\ IsText(r[1]) <=> IsText(sig.result)
  <2>1. sig.result \in Kinds /\ sig.result # None /\ r \in Values(sig.result)
    BY <1>3, <1>5 DEF Results
  <2>2. WellFormed(r) /\ r[1] = Disc(sig.result)
    BY <2>1, ValuesOfKind
  <2> QED
    BY <2>1, <2>2 DEF Disc, Kinds, IsText
<1>6. CASE r # None /\ IsText(r[1])
  <2> DEFINE t == frame.target
             lower == {<<heap, <<"text", r[2]>>>>}
             upper == {<<t, <<"ptr", heap>>>>} \cup {<<c, <<"part", r[2]>>>> : c \in Parts}
             m == Store(mem, lower)
  <2>1. /\ mem' = Store(m, upper) /\ heap' = heap + 1
    BY <1>6 DEF Target
  <2>2. /\ t \in Nat /\ frame.before < t /\ t < heap
        /\ \A c \in Parts : c \in Nat /\ t < c /\ c < t + Extent(sig)
    BY <1>3, <1>4, <1>5, <1>6 DEF Parts
  <2>3. heap \in Cells /\ t \in Cells /\ Parts \subseteq Cells
    <3>1. \A c \in Nat : c <= HeapBase + 19 * arity + 10 + area + Extent(sig) => c \in Cells
      BY <1>3
    <3>2. heap <= HeapBase + 19 * arity + 10 + area + Extent(sig)
      BY <1>3, <1>4
    <3>3. t <= HeapBase + 5 * arity + 8
      BY <1>4
    <3> HIDE DEF t
    <3>4. t <= HeapBase + 19 * arity + 10 + area + Extent(sig)
      BY <1>3, <2>2, <3>3
    <3>5. \A c \in Parts : c <= HeapBase + 19 * arity + 10 + area + Extent(sig)
      BY <1>3, <2>2, <3>3
    <3>6. heap \in Cells
      BY <1>3, <3>1, <3>2
    <3>7. t \in Cells
      BY <2>2, <3>1, <3>4
    <3>8. Parts \subseteq Cells
      BY <2>2, <3>1, <3>5
    <3> QED
      BY <3>6, <3>7, <3>8
  <2>4. /\ <<t, <<"ptr", heap>>>> \in upper
        /\ \A c \in Parts : <<c, <<"part", r[2]>>>> \in upper
        /\ \A w \in upper : \/ w[1] = t /\ w[2] = <<"ptr", heap>>
                            \/ w[1] \in Parts /\ w[2] = <<"part", r[2]>>
    OBVIOUS
  <2>5. m[heap] = <<"text", r[2]>>
    <3>1. <<heap, <<"text", r[2]>>>> \in lower /\ \A w \in lower : w[1] = heap => w[2] = <<"text", r[2]>>
      OBVIOUS
    <3> HIDE DEF lower
    <3>2. m[heap] = Stored(mem[heap], <<"text", r[2]>>)
      BY <2>3, <3>1, Wrote
    <3> QED
      BY <3>2 DEF Stored
  <2>6. \A c \in Cells : c # heap => m[c] = mem[c]
    <3> SUFFICES ASSUME NEW c \in Cells, c # heap PROVE m[c] = mem[c]
      OBVIOUS
    <3>1. \A w \in lower : w[1] # c
      OBVIOUS
    <3> QED
      BY <3>1, Kept
  <2> HIDE DEF lower, upper, m
  <2>7. mem'[t] = <<"ptr", heap>>
    <3>1. \A w \in upper : w[1] = t => w[2] = <<"ptr", heap>>
      BY <2>2, <2>4
    <3> HIDE DEF t
    <3>2. mem'[t] = Stored(m[t], <<"ptr", heap>>)
      BY <2>1, <2>3, <2>4, <3>1, Wrote
    <3> QED
      BY <3>2 DEF Stored
  <2>8. ASSUME NEW c \in Parts PROVE mem'[c] = <<"part", r[2]>>
    <3>1. \A w \in upper : w[1] = c => w[2] = <<"part", r[2]>>
      BY <2>2, <2>4
    <3>2. c \in Cells /\ <<c, <<"part", r[2]>>>> \in upper
      BY <2>3, <2>4
    <3>3. mem'[c] = Stored(m[c], <<"part", r[2]>>)
      BY <2>1, <3>1, <3>2, Wrote
    <3> QED
      BY <3>3 DEF Stored
  <2>9. \A c \in Cells : c # t /\ c \notin Parts => mem'[c] = m[c]
    <3> SUFFICES ASSUME NEW c \in Cells, c # t, c \notin Parts PROVE mem'[c] = m[c]
      OBVIOUS
    <3>1. \A w \in upper : w[1] # c
      BY <2>4
    <3> QED
      BY <2>1, <3>1, Kept
  <2>10. heap \notin Parts => mem'[heap] = <<"text", r[2]>>
    BY <2>2, <2>3, <2>5, <2>9
  <2>11. \A c \in 0..(frame.before - 1) : mem'[c] = mem[c]
    <3> SUFFICES ASSUME NEW c \in 0..(frame.before - 1) PROVE mem'[c] = mem[c]
      OBVIOUS
    <3>1. c \in Cells
      BY <1>3, <1>4
    <3>2. c < t /\ c \in Nat
      BY <1>4
    <3>3. c # t /\ c # heap /\ c \notin Parts
      BY <1>3, <2>2, <3>2
    <3> QED
      BY <2>6, <2>9, <3>1, <3>3
  <2>12. HoldsFrame'
    <3>1. \A w \in Nat : w <= heap => w <= heap'
      BY <1>3, <2>1
    <3> QED
      BY <1>1, <1>2, <3>1 DEF CallInv, HoldsFrame
  <2>13. KeepsComplex'
    BY <1>1, <1>2, <2>11 DEF CallInv, KeepsComplex
  <2>14. KeepsOutcome'
    <3>1. Parts' = Parts /\ Fits' = Fits
      BY <1>1, <1>2 DEF Parts, Fits, area
    <3> SUFFICES ASSUME sig.result = "complex", Fits
                 PROVE  /\ r = <<"complex", r[2]>>
                        /\ \E p \in Nat : /\ frame.target < p /\ p < heap'
                                          /\ mem'[frame.target] = <<"ptr", p>> /\ mem'[p] = <<"text", r[2]>>
                        /\ \A c \in Parts : mem'[c] = <<"part", r[2]>>
      BY <1>1, <1>2, <3>1 DEF KeepsOutcome
    <3>2. r = <<"complex", r[2]>>
      BY <1>5, <1>6 DEF WellFormed
    <3>3. heap < heap'
      BY <1>3, <2>1
    <3>4. heap \notin Parts
      <4>1. Extent(sig) <= area + 4 * arity
        BY DEF Fits, area
      <4>2. t + Extent(sig) <= heap
        <5> HIDE DEF t
        <5>1. t + area + 4 * arity <= heap
          BY <1>4 DEF t
        <5> QED
          BY <1>3, <2>2, <4>1, <5>1
      <4> HIDE DEF t
      <4> QED
        BY <1>3, <2>2, <4>2
    <3> QED
      BY <1>3, <2>2, <2>7, <2>8, <2>10, <3>2, <3>3, <3>4
  <2>15. seen' = <<View(r)>>
    <3>1. seen' = <<IF r[1] = "str" THEN <<"str", Text(mem', mem'[frame.target][2])>> ELSE View(r)>>
      BY <1>6 DEF Target
    <3>2. ASSUME r[1] = "str" PROVE Text(mem', mem'[frame.target][2]) = r[2]
      <4>1. sig.result = "str"
        BY <1>3, <1>5, <1>6, <3>2 DEF Disc, Kinds
      <4>2. heap \notin Parts
        BY <1>3, <2>2, <4>1
      <4> QED
        BY <2>7, <2>10, <4>2 DEF Text
    <3>3. r = <<r[1], r[2]>>
      BY <1>5, <1>6 DEF WellFormed
    <3>4. r[1] = "str" => <<"str", r[2]>> = View(r)
      BY <3>3 DEF View
    <3> QED
      BY <3>1, <3>2, <3>4
  <2>16. AdviceSeesTheCall' /\ AdviceIsObeyed'
    BY <1>1, <1>6, <2>15 DEF AdviceSeesTheCall, AdviceIsObeyed, Obeyed
  <2> QED
    BY <1>1, <1>2, <2>12, <2>13, <2>14, <2>16 DEF CallInv
<1>7. CASE ~(r # None /\ IsText(r[1]))
  <2>1. UNCHANGED <<mem, heap>>
    BY <1>7 DEF Target
  <2>2. HoldsFrame' /\ KeepsComplex'
    BY <1>1, <1>2, <2>1 DEF CallInv, HoldsFrame, KeepsComplex
  <2>3. sig.result # "complex"
    <3> SUFFICES ASSUME sig.result = "complex" PROVE FALSE
      OBVIOUS
    <3>1. "complex" # None /\ IsText("complex")
      BY InterceptorAssumption DEF Kinds, IsText
    <3>2. r \in Values("complex")
      BY <3>1 DEF Results
    <3>3. r \in {"complex"} \X Texts
      BY <3>2 DEF Values, IsText
    <3>4. r # None /\ r[1] = "complex"
      BY <3>3, InterceptorAssumption
    <3> QED
      BY <1>7, <3>1, <3>4
  <2>4. KeepsOutcome'
    BY <1>2, <2>3, Zenon DEF KeepsOutcome
  <2>5. seen' = IF r = None THEN <<>> ELSE <<View(r)>>
    <3>1. r # None => r[1] # "str"
      BY <1>7 DEF IsText
    <3> QED
      BY <3>1 DEF Target
  <2>6. AdviceSeesTheCall' /\ AdviceIsObeyed'
    BY <1>1, <2>5 DEF AdviceSeesTheCall, AdviceIsObeyed, Obeyed
  <2> QED
    BY <1>1, <1>2, <2>2, <2>4, <2>6 DEF CallInv
<1> QED
  BY <1>6, <1>7

\* A single value that the host lowers: what is read back, and what is kept.
LEMMA ValueStored ==
  ASSUME NEW a \in Nat, NEW at \in Nat, a + 1 < at, a \in Cells, a + 1 \in Cells, at \in Cells,
         NEW v, NEW m, NEW m2, m2 = Store(m, Lowered(a, v, at))
  PROVE  /\ v[1] = "str" => m2[a + 1] = <<"ptr", at>> /\ m2[at] = <<"text", v[2]>>
         /\ v[1] = "num" => m2[a + 1] = <<"num", v[2]>>
         /\ v[1] = "complex" => \A c \in Cells : c # a /\ c # a + 1 => m2[c] = m[c]
<1> DEFINE p == a + 1
           writes == Lowered(a, v, at)
<1>1. p \in Cells /\ p # a /\ at # p /\ at # a
  OBVIOUS
<1>2. \A w \in writes : /\ w[1] = a \/ w[1] = p \/ (v[1] = "str" /\ w[1] = at)
                        /\ w[1] = p /\ v[1] = "str" => w[2] = <<"ptr", at>>
                        /\ w[1] = p /\ v[1] = "num" => w[2] = <<"num", v[2]>>
                        /\ w[1] = at => w[2] = <<"text", v[2]>>
  BY <1>1 DEF Lowered
<1>3. /\ v[1] = "str" => <<p, <<"ptr", at>>>> \in writes /\ <<at, <<"text", v[2]>>>> \in writes
      /\ v[1] = "num" => <<p, <<"num", v[2]>>>> \in writes
  BY DEF Lowered
<1> HIDE DEF p, writes
<1>4. m2 = Store(m, writes)
  BY DEF writes
<1>5. ASSUME v[1] = "str" PROVE m2[p] = <<"ptr", at>> /\ m2[at] = <<"text", v[2]>>
  <2>1. /\ \A w \in writes : w[1] = p => w[2] = <<"ptr", at>>
        /\ \A w \in writes : w[1] = at => w[2] = <<"text", v[2]>>
    BY <1>2, <1>5
  <2>2. <<p, <<"ptr", at>>>> \in writes /\ <<at, <<"text", v[2]>>>> \in writes
    BY <1>3, <1>5
  <2>3. m2[p] = Stored(m[p], <<"ptr", at>>)
    BY <1>1, <1>4, <2>1, <2>2, Wrote
  <2>4. m2[at] = Stored(m[at], <<"text", v[2]>>)
    BY <1>4, <2>1, <2>2, Wrote
  <2> QED
    BY <2>3, <2>4 DEF Stored
<1>6. ASSUME v[1] = "num" PROVE m2[p] = <<"num", v[2]>>
  <2>1. \A w \in writes : w[1] = p => w[2] = <<"num", v[2]>>
    BY <1>2, <1>6
  <2>2. <<p, <<"num", v[2]>>>> \in writes
    BY <1>3, <1>6
  <2>3. m2[p] = Stored(m[p], <<"num", v[2]>>)
    BY <1>1, <1>4, <2>1, <2>2, Wrote
  <2> QED
    BY <2>3 DEF Stored
<1>7. ASSUME v[1] = "complex", NEW c \in Cells, c # a, c # p PROVE m2[c] = m[c]
  <2>1. v[1] # "str"
    BY <1>7
  <2>2. \A w \in writes : w[1] # c
    BY <1>2, <1>7, <2>1
  <2> QED
    BY <1>4, <2>2, Kept
<1> QED
  BY <1>5, <1>6, <1>7 DEF p

\* What the wrapper loads of a single value.
LEMMA ValueReads ==
  ASSUME NEW a, NEW at, NEW v, WellFormed(v), NEW m,
         v[1] = "str" => m[a + 1] = <<"ptr", at>> /\ m[at] = <<"text", v[2]>>,
         v[1] = "num" => m[a + 1] = <<"num", v[2]>>,
         NEW kind \in {"str", "narrow", "wide"}, v[1] = Disc(kind)
  PROVE  WrapperRead(m, a, kind) = Fit(kind, v)
<1>1. /\ v[1] = "str" => Text(m, m[a + 1][2]) = v[2]
      /\ v[1] = "num" => m[a + 1][2] = v[2]
  BY DEF Text
<1>2. v = <<v[1], v[2]>>
  BY DEF WellFormed
<1>3. CASE kind = "str"
  BY <1>1, <1>2, <1>3 DEF WrapperRead, Fit, Disc
<1>4. CASE kind \in {"narrow", "wide"}
  BY <1>1, <1>2, <1>4 DEF WrapperRead, Fit, Disc
<1> QED
  BY <1>3, <1>4

\* The caller gets the value that the advice skips or accepts with, or the target's own
\* complex value.
LEMMA AnswerCall ==
  ASSUME MemoryInv, CallInv, NEW v \in Answers \cup {None}, Skip(v) \/ Accept(v)
  PROVE  CallInv'
<1>1. /\ phase \in {"before", "after"} /\ phase' = "idle" /\ said' = v
      /\ UNCHANGED <<world, export, outcome>>
  BY DEF Skip, Accept, Return
<1>2. sig' = sig /\ Fits' = Fits
  BY <1>1 DEF sig, arity, Fits
<1>3. SUFFICES ASSUME v # None, sig.result \in {"str", "narrow", "wide", "complex"}
               PROVE  IF sig.result = "complex" THEN Fits => returned' = outcome
                      ELSE returned' = Fit(sig.result, v)
  BY <1>1, <1>2 DEF CallInv, AdviceSeesTheCall, AdviceIsObeyed, Obeyed
<1>4. sig.result # None /\ WellFormed(v)
  <2>1. v \in Answers
    BY <1>3
  <2>2. None \notin {"str", "narrow", "wide", "complex"}
    BY InterceptorAssumption DEF Kinds
  <2> QED
    BY <1>3, <2>1, <2>2, AnswersAreValues
<1>5. /\ arity \in Nat /\ heap \in Nat /\ area \in Nat /\ HeapBase \in Nat /\ Extent(sig) \in Nat
      /\ heap <= HeapBase + 12 * arity + 9 + area
      /\ 0..(HeapBase + 19 * arity + 10 + area) \subseteq Cells
      /\ 0..(HeapBase + 19 * arity + 10 + area + Extent(sig)) \subseteq Cells
  <2>1. /\ arity \in Nat /\ heap \in Nat /\ area \in Nat /\ HeapBase \in Nat /\ Extent(sig) \in Nat
        /\ 0..(HeapBase + 19 * arity + 10 + area) \subseteq Cells
        /\ 0..(HeapBase + 19 * arity + 10 + area + Extent(sig)) \subseteq Cells
    BY <1>1, CellsOfCall, InterceptorAssumption
  <2>2. heap <= HeapBase + Bound /\ Bound \in {5 * arity + 8 + area, 12 * arity + 9 + area}
    BY <1>1 DEF MemoryInv, Bound
  <2>3. heap <= HeapBase + 12 * arity + 9 + area
    BY <2>1, <2>2
  <2> QED
    BY <2>1, <2>3
<1>6. /\ frame.before \in Nat /\ frame.after = frame.before + 4 /\ frame.target = frame.before + 8
      /\ frame.watermark = frame.target + area /\ frame.watermark <= heap
      /\ frame.target <= HeapBase + 5 * arity + 8
  <2>1. /\ frame.before \in Nat /\ frame.after = frame.before + 4 /\ frame.target = frame.before + 8
        /\ frame.watermark = frame.target + area /\ frame.watermark <= heap
    BY <1>1 DEF CallInv, HoldsFrame
  <2>2. frame.watermark <= HeapBase + 5 * arity + 8 + area
    BY <1>1 DEF MemoryInv
  <2> QED
    BY <1>5, <2>1, <2>2
<1>7. CASE Skip(v)
  <2> DEFINE a == frame.before + 2
  <2>1. /\ v[1] = Disc(sig.result) /\ sig.result # "complex" /\ mem' = Store(mem, Lowered(a, v, heap))
        /\ returned' = WrapperRead(mem', a, sig.result)
    BY <1>3, <1>4, <1>7 DEF Skip, Return
  <2>2. a \in Nat /\ a + 1 < heap /\ a \in Cells /\ a + 1 \in Cells /\ heap \in Cells
    BY <1>5, <1>6
  <2> HIDE DEF a
  <2>3. /\ v[1] = "str" => mem'[a + 1] = <<"ptr", heap>> /\ mem'[heap] = <<"text", v[2]>>
        /\ v[1] = "num" => mem'[a + 1] = <<"num", v[2]>>
    BY <1>5, <2>1, <2>2, ValueStored
  <2>4. WrapperRead(mem', a, sig.result) = Fit(sig.result, v)
    BY <1>3, <1>4, <2>1, <2>3, ValueReads
  <2> QED
    BY <2>1, <2>4
<1>8. CASE Accept(v)
  <2> DEFINE a == frame.after + 2
  <2>1. /\ phase = "after" /\ v[1] = Disc(sig.result) /\ mem' = Store(mem, Lowered(a, v, heap))
        /\ returned' = IF sig.result = "complex" THEN OwnValue(mem') ELSE WrapperRead(mem', a, sig.result)
    BY <1>3, <1>4, <1>8 DEF Accept, Return
  <2>2. /\ a \in Nat /\ a + 1 < heap /\ a \in Cells /\ a + 1 \in Cells /\ heap \in Cells
        /\ a + 1 < frame.target /\ frame.target \in Cells /\ frame.target \in Nat /\ a + 1 \in Nat
    BY <1>5, <1>6
  <2>3. /\ v[1] = "str" => mem'[a + 1] = <<"ptr", heap>> /\ mem'[heap] = <<"text", v[2]>>
        /\ v[1] = "num" => mem'[a + 1] = <<"num", v[2]>>
        /\ v[1] = "complex" => \A c \in Cells : c # a /\ c # a + 1 => mem'[c] = mem[c]
    <3> HIDE DEF a
    <3>1. a \in Nat /\ heap \in Nat /\ a + 1 < heap /\ a \in Cells /\ a + 1 \in Cells /\ heap \in Cells
      BY <1>5, <2>2
    <3>2. mem' = Store(mem, Lowered(a, v, heap))
      BY <2>1
    <3> QED
      BY <3>1, <3>2, ValueStored
  <2>4. CASE sig.result = "complex"
    <3> SUFFICES ASSUME Fits PROVE returned' = outcome
      BY <2>4
    <3>0. KeepsOutcome
      BY <2>1 DEF CallInv
    <3>1. PICK p \in Nat : /\ frame.target < p /\ p < heap
                           /\ mem[frame.target] = <<"ptr", p>> /\ mem[p] = <<"text", outcome[2]>>
      BY <2>4, <3>0 DEF KeepsOutcome
    <3>2. outcome = <<"complex", outcome[2]>> /\ \A c \in Parts : mem[c] = <<"part", outcome[2]>>
      BY <2>4, <3>0 DEF KeepsOutcome
    <3>3. p \in Cells /\ a + 1 < p
      BY <1>5, <1>6, <2>2, <3>1
    <3>4. v[1] = "complex"
      BY <2>1, <2>4 DEF Disc
    <3>5. mem'[frame.target] = mem[frame.target] /\ mem'[p] = mem[p]
      <4>1. frame.target # a /\ frame.target # a + 1 /\ p # a /\ p # a + 1
        BY <2>2, <3>3
      <4> HIDE DEF a
      <4> QED
        BY <2>2, <2>3, <3>3, <3>4, <4>1
    <3>6. Text(mem', mem'[frame.target][2]) = outcome[2]
      BY <3>1, <3>5 DEF Text
    <3>7. ASSUME NEW c \in Parts PROVE mem'[c] = <<"part", outcome[2]>>
      <4>1. c \in Nat /\ frame.target < c /\ c < frame.target + Extent(sig)
        BY <1>5, <2>2 DEF Parts
      <4>2. c \in Cells
        BY <1>5, <1>6, <4>1
      <4>3. c # a /\ c # a + 1
        BY <2>2, <4>1
      <4> HIDE DEF a
      <4> QED
        BY <2>3, <3>2, <3>4, <4>2, <4>3
    <3>8. OwnValue(mem') = <<"complex", outcome[2]>>
      BY <3>6, <3>7 DEF OwnValue
    <3> QED
      BY <2>1, <2>4, <3>2, <3>8
  <2>5. CASE sig.result # "complex"
    <3> HIDE DEF a
    <3>1. WrapperRead(mem', a, sig.result) = Fit(sig.result, v)
      BY <1>3, <1>4, <2>1, <2>3, <2>5, ValueReads
    <3> QED
      BY <2>1, <2>5, <3>1
  <2> QED
    BY <2>4, <2>5
<1> QED
  BY <1>7, <1>8

\* Every step keeps what the memory holds of a call.
LEMMA CallInvStep ==
  ASSUME MemoryInv, CallInv, [Next]_intVars
  PROVE  CallInv'
<1>1. ASSUME NEW e \in Exported(world),
             NEW vs \in [1..Len(Signature(world, e).params) ->
                           UNION {Values(Signature(world, e).params[i]) : i \in 1..Len(Signature(world, e).params)}],
             \A i \in 1..Len(Signature(world, e).params) : vs[i] \in Values(Signature(world, e).params[i]),
             Enter(e, vs)
      PROVE  CallInv'
  BY <1>1, EnterCall
<1>2. ASSUME NEW e, NEW vs, NEW r, Bypass(e, vs, r) PROVE CallInv'
  BY <1>2 DEF Bypass, CallInv, AdviceSeesTheCall, AdviceIsObeyed, Obeyed
<1>3. CASE Trap
  BY <1>3 DEF Trap, CallInv, AdviceSeesTheCall, AdviceIsObeyed, Obeyed
<1>4. CASE UNCHANGED intVars
  <2>1. UNCHANGED <<sig, arity, area, Fits, Parts>>
    <3>1. UNCHANGED <<world, export, frame>>
      BY <1>4 DEF intVars, machine
    <3> QED
      BY <3>1 DEF sig, arity, area, Fits, Parts
  <2>2. /\ HoldsFrame' <=> HoldsFrame
        /\ HoldsRecords' <=> HoldsRecords
        /\ KeepsComplex' <=> KeepsComplex
        /\ ShowsArgs' <=> ShowsArgs
        /\ KeepsOutcome' <=> KeepsOutcome
    BY <1>4, <2>1 DEF intVars, machine, ghosts, HoldsFrame, HoldsRecords, KeepsComplex, ShowsArgs, KeepsOutcome
  <2>3. /\ AdviceSeesTheCall' <=> AdviceSeesTheCall
        /\ AdviceIsObeyed' <=> AdviceIsObeyed
    BY <1>4, <2>1 DEF intVars, machine, ghosts, AdviceSeesTheCall, AdviceIsObeyed, Obeyed
  <2> QED
    BY <1>4, <2>1, <2>2, <2>3 DEF CallInv, intVars, ghosts
<1>5. CASE Next
  <2>1. ASSUME NEW e \in Exported(world),
               NEW vs \in {vs \in [1..Len(Signature(world, e).params) ->
                             UNION {Values(Signature(world, e).params[i]) : i \in 1..Len(Signature(world, e).params)}] :
                           \A i \in 1..Len(Signature(world, e).params) : vs[i] \in Values(Signature(world, e).params[i])},
               Enter(e, vs) \/ \E r \in Results(Signature(world, e)) : Bypass(e, vs, r)
        PROVE  CallInv'
    BY <1>1, <1>2, <2>1
  <2> QED
    BY <1>3, <1>5, <2>1, ConstructCall, AnswerCall, ProceedCall, TargetCall, RepeatCall DEF Next
<1> QED
  BY <1>4, <1>5

\* At the start nothing has been said.
LEMMA CallInvInit == Init => CallInv
BY DEF Init, CallInv, AdviceSeesTheCall, AdviceIsObeyed, Obeyed

\* The advice is shown the arguments and the result of its own round, whatever the memory
\* was used for before, in every world, for every number of repeats (generator.rs:647).
THEOREM AdviceSeesTheCallHolds == InterceptorSpec => []AdviceSeesTheCall
<1>1. CallInv => AdviceSeesTheCall
  BY DEF CallInv
<1> QED
  BY <1>1, MemoryInvInit, MemoryInvStep, CallInvInit, CallInvStep, PTL DEF InterceptorSpec

\* The target and the caller get what the advice says, and each other's own complex values,
\* the target's where it fits, in every world, for every number of repeats (generator.rs:585,
\* generator.rs:908, generator.rs:1030).
THEOREM AdviceIsObeyedHolds == InterceptorSpec => []AdviceIsObeyed
<1>1. CallInv => AdviceIsObeyed
  BY DEF CallInv
<1> QED
  BY <1>1, MemoryInvInit, MemoryInvStep, CallInvInit, CallInvStep, PTL DEF InterceptorSpec

-----------------------------------------------------------------------------
(***************************************************************************)
(* The wiring.  What is in a flattened list, by induction on its length    *)
(* (the set of lengths without the property has no least element), and     *)
(* that an import module belongs to one interface.                         *)
(***************************************************************************)
\* A set of numbers has a least one.
LEMMA Least ==
  ASSUME NEW T, T \subseteq Nat, T # {}
  PROVE  \E m \in T : \A k \in T : m <= k
<1>1. PICK m \in T : \A k \in T : <<k, m>> \notin OpToRel(<, Nat)
  BY WFMin, NatLessThanWellFounded, Zenon
<1>2. ASSUME NEW k \in T PROVE m <= k
  <2>1. ~(k < m)
    BY <1>1 DEF OpToRel
  <2> QED
    BY <2>1
<1> QED
  BY <1>2

\* The function by which FlattenSeq is defined.
Flattens(f, ss, n) == f = [i \in 1..n |-> IF i = 1 THEN ss[i] ELSE f[i - 1] \o ss[i]]

\* There is one for the first n lists, whatever they are.
LEMMA FlattenExists ==
  ASSUME NEW ss
  PROVE  \A n \in Nat : \E f : Flattens(f, ss, n)
<1> DEFINE T == {n \in Nat : ~\E f : Flattens(f, ss, n)}
<1> SUFFICES ASSUME T # {} PROVE FALSE
  OBVIOUS
<1>1. PICK m \in T : \A k \in T : m <= k
  <2>1. T \subseteq Nat
    OBVIOUS
  <2> HIDE DEF T
  <2> QED
    BY <2>1, Least
<1>2. m # 0
  <2> DEFINE none == [i \in 1..0 |-> 0]
  <2>1. none = [i \in 1..0 |-> IF i = 1 THEN ss[i] ELSE none[i - 1] \o ss[i]]
    OBVIOUS
  <2>2. Flattens(none, ss, 0)
    BY <2>1 DEF Flattens
  <2> QED
    BY <2>2
<1>3. m - 1 \in Nat /\ m - 1 \notin T
  BY <1>1, <1>2
<1>4. PICK f : Flattens(f, ss, m - 1)
  BY <1>3
<1> DEFINE g == [i \in 1..m |-> IF i = 1 THEN ss[i] ELSE f[i - 1] \o ss[i]]
<1>5. ASSUME NEW i \in 1..m, i # 1 PROVE g[i - 1] = f[i - 1]
  <2>1. i - 1 \in 1..(m - 1) /\ i - 1 \in 1..m
    BY <1>3, <1>5
  <2>2. f[i - 1] = IF i - 1 = 1 THEN ss[i - 1] ELSE f[i - 1 - 1] \o ss[i - 1]
    BY <1>4, <2>1 DEF Flattens
  <2> QED
    BY <2>1, <2>2
<1>6. g = [i \in 1..m |-> IF i = 1 THEN ss[i] ELSE g[i - 1] \o ss[i]]
  BY <1>5
<1>7. Flattens(g, ss, m)
  BY <1>6 DEF Flattens
<1> QED
  BY <1>7

\* A flattened list has the elements of the lists, and no others.
LEMMA FlattenElements ==
  ASSUME NEW S, NEW n \in Nat, NEW ss \in [1..n -> Seq(S)]
  PROVE  /\ FlattenSeq(ss) \in Seq(S)
         /\ Range(FlattenSeq(ss)) = UNION {Range(ss[i]) : i \in 1..n}
<1>0. ss \in Seq(Seq(S)) /\ Len(ss) = n
  BY LenProperties
<1>1. CASE n = 0
  <2>1. ss = <<>> /\ FlattenSeq(ss) = ss
    BY <1>0, <1>1 DEF FlattenSeq
  <2>2. <<>> \in Seq(S) /\ Range(<<>>) = {}
    BY DEF Range
  <2>3. UNION {Range(ss[i]) : i \in 1..n} = {}
    BY <1>1
  <2> QED
    BY <2>1, <2>2, <2>3
<1>2. CASE n # 0
  <2>1. PICK f : Flattens(f, ss, n) /\ FlattenSeq(ss) = f[n]
    <3> DEFINE flatten == CHOOSE f : Flattens(f, ss, n)
    <3>1. Flattens(flatten, ss, n)
      BY FlattenExists
    <3>2. FlattenSeq(ss) = flatten[n]
      BY <1>0, <1>2 DEF FlattenSeq, Flattens
    <3> QED
      BY <3>1, <3>2
  <2> DEFINE Good(k) == f[k] \in Seq(S) /\ Range(f[k]) = UNION {Range(ss[i]) : i \in 1..k}
             T == {k \in 1..n : ~Good(k)}
  <2>2. T = {}
    <3> SUFFICES ASSUME T # {} PROVE FALSE
      OBVIOUS
    <3>1. PICK k \in T : \A j \in T : k <= j
      <4>1. T \subseteq Nat
        OBVIOUS
      <4> HIDE DEF T
      <4> QED
        BY <4>1, Least
    <3>2. k \in 1..n /\ f[k] = IF k = 1 THEN ss[k] ELSE f[k - 1] \o ss[k]
      BY <2>1, <3>1 DEF Flattens
    <3>3. CASE k = 1
      <4>1. f[1] = ss[1] /\ 1..1 = {1}
        BY <3>2, <3>3
      <4> QED
        BY <3>1, <3>3, <4>1
    <3>4. CASE k # 1
      <4>1. k - 1 \in 1..n /\ Good(k - 1)
        <5>1. k - 1 \in 1..n /\ ~(k <= k - 1)
          BY <3>2, <3>4
        <5> QED
          BY <3>1, <5>1
      <4>2. f[k] = f[k - 1] \o ss[k] /\ f[k - 1] \in Seq(S) /\ ss[k] \in Seq(S)
        BY <3>2, <3>4, <4>1
      <4>3. f[k] \in Seq(S) /\ Range(f[k]) = Range(f[k - 1]) \cup Range(ss[k])
        BY <4>2, RangeConcatenation
      <4>4. 1..k = 1..(k - 1) \cup {k}
        BY <3>2
      <4>5. Range(f[k]) = UNION {Range(ss[i]) : i \in 1..k}
        BY <4>1, <4>3, <4>4
      <4> QED
        BY <3>1, <4>3, <4>5
    <3> QED
      BY <3>3, <3>4
  <2>3. n \in 1..n
    BY <1>2
  <2> QED
    BY <2>1, <2>2, <2>3
<1> QED
  BY <1>1, <1>2

\* An import module is that of one interface, or of the functions without one.
LEMMA ModuleOfInterface ==
  ASSUME NEW w \in Worlds, NEW i \in 1..Len(w.exports), NEW k \in 1..Len(w.exports),
         ImportModule(w, i) = ImportModule(w, k)
  PROVE  w.exports[i].iface = w.exports[k].iface
<1> DEFINE Named(x) == {j \in 1..x : w.exports[j].iface # None}
<1>0. i \in Nat /\ k \in Nat
  BY InterceptorAssumption, LenProperties
<1>1. ASSUME NEW x \in Nat, NEW y \in Nat, 1 <= y, x < y, w.exports[y].iface # None
      PROVE  Cardinality(Named(x)) # Cardinality(Named(y)) /\ Cardinality(Named(y)) # 0
  <2>1. y \in Named(y) /\ y \notin Named(x) /\ Named(x) \subseteq Named(y)
    BY <1>1
  <2>2. IsFiniteSet(Named(y))
    <3>1. IsFiniteSet(1..y) /\ Named(y) \subseteq 1..y
      BY <1>1, FS_Interval
    <3> HIDE DEF Named
    <3> QED
      BY <3>1, FS_Subset
  <2> HIDE DEF Named
  <2> QED
    BY <2>1, <2>2, FS_Subset, FS_EmptySet
<1>2. ASSUME NEW x \in 1..Len(w.exports)
      PROVE  ImportModule(w, x) = IF w.exports[x].iface = None THEN 0 ELSE Cardinality(Named(x))
  BY DEF ImportModule
<1>3. ASSUME NEW x \in {i, k}, w.exports[x].iface # None PROVE ImportModule(w, x) # 0
  <2>1. x \in Nat /\ 1 <= x /\ 0 < x /\ x \in 1..Len(w.exports)
    BY <1>0
  <2>2. Cardinality(Named(x)) # 0
    BY <1>1, <1>3, <2>1
  <2> QED
    BY <1>2, <1>3, <2>1, <2>2
<1>4. CASE w.exports[i].iface = None \/ w.exports[k].iface = None
  <2>1. ImportModule(w, i) = 0 \/ ImportModule(w, k) = 0
    BY <1>2, <1>4
  <2> QED
    BY <1>3, <2>1
<1>5. CASE w.exports[i].iface # None /\ w.exports[k].iface # None
  <2>1. Cardinality(Named(i)) = Cardinality(Named(k))
    BY <1>2, <1>5
  <2>2. 1 <= i /\ 1 <= k
    BY <1>0
  <2>3. ~(i < k) /\ ~(k < i)
    <3> HIDE DEF Named
    <3> QED
      BY <1>0, <1>1, <1>5, <2>1, <2>2
  <2>4. i = k
    BY <1>0, <2>3
  <2> QED
    BY <2>4
<1> QED
  BY <1>4, <1>5

\* The wrapped functions are the exported ones that a pattern matches, each imported from
\* the module of its export.
LEMMA WrappedHas ==
  ASSUME NEW w \in Worlds
  PROVE  /\ Len(Wrapped(w)) \in Nat
         /\ \A k \in 1..Len(Wrapped(w)) : \E i \in 1..Len(w.exports) :
              Wrapped(w)[k].iface = w.exports[i].iface /\ Wrapped(w)[k].module = ImportModule(w, i)
         /\ \A e \in Exported(w) : IsIntercepted(w, e[1], e[2]) =>
              \E k \in 1..Len(Wrapped(w)) : Wrapped(w)[k].iface = e[1] /\ Wrapped(w)[k].name = e[2]
<1> DEFINE n      == Len(w.exports)
           m(i)   == Len(w.exports[i].functions)
           Part(i) == [j \in 1..m(i) |-> Entry(w, i, j)]
           S      == UNION {UNION {Range(Entry(w, i, j)) : j \in 1..m(i)} : i \in 1..n}
<1>1. n \in Nat /\ \A i \in 1..n : m(i) \in Nat
  BY InterceptorAssumption, LenProperties
<1>2. ASSUME NEW i \in 1..n, NEW j \in 1..m(i)
      PROVE  Entry(w, i, j) \in Seq(S)
  <2>1. Range(Entry(w, i, j)) \subseteq S
    OBVIOUS
  <2> HIDE DEF S
  <2>2. Entry(w, i, j) = <<>> \/ \E x : Entry(w, i, j) = <<x>>
    BY DEF Entry
  <2>3. CASE Entry(w, i, j) = <<>>
    BY <2>3
  <2>4. ASSUME NEW x, Entry(w, i, j) = <<x>> PROVE Entry(w, i, j) \in Seq(S)
    <3>1. x \in Range(<<x>>)
      BY DEF Range
    <3> QED
      BY <2>1, <2>4, <3>1
  <2> QED
    BY <2>2, <2>3, <2>4
<1> HIDE DEF S
<1>3. ASSUME NEW i \in 1..n
      PROVE  FlattenSeq(Part(i)) \in Seq(S)
             /\ Range(FlattenSeq(Part(i))) = UNION {Range(Entry(w, i, j)) : j \in 1..m(i)}
  <2>1. Part(i) \in [1..m(i) -> Seq(S)] /\ m(i) \in Nat
    BY <1>1, <1>2
  <2>2. \A j \in 1..m(i) : Part(i)[j] = Entry(w, i, j)
    OBVIOUS
  <2> HIDE DEF Part, m
  <2>3. /\ FlattenSeq(Part(i)) \in Seq(S)
        /\ Range(FlattenSeq(Part(i))) = UNION {Range(Part(i)[j]) : j \in 1..m(i)}
    BY <2>1, FlattenElements
  <2> QED
    BY <2>2, <2>3
<1> DEFINE all == [i \in 1..n |-> FlattenSeq(Part(i))]
<1>4. Wrapped(w) = FlattenSeq(all)
  BY DEF Wrapped
<1>5. all \in [1..n -> Seq(S)] /\ \A i \in 1..n : all[i] = FlattenSeq(Part(i))
  BY <1>3
<1> HIDE DEF all, Part
<1>6. /\ Wrapped(w) \in Seq(S)
      /\ Range(Wrapped(w)) = UNION {Range(all[i]) : i \in 1..n}
  <2>1. n \in Nat /\ all \in [1..n -> Seq(S)]
    BY <1>1, <1>5
  <2> HIDE DEF n
  <2>2. FlattenSeq(all) \in Seq(S) /\ Range(FlattenSeq(all)) = UNION {Range(all[i]) : i \in 1..n}
    BY <2>1, FlattenElements
  <2> QED
    BY <1>4, <2>2
<1>7. Len(Wrapped(w)) \in Nat /\ Range(Wrapped(w)) = {Wrapped(w)[k] : k \in 1..Len(Wrapped(w))}
  BY <1>6, RangeEquality, LenProperties
<1>8. ASSUME NEW x
      PROVE  x \in Range(Wrapped(w)) <=> \E i \in 1..n : \E j \in 1..m(i) : x \in Range(Entry(w, i, j))
  BY <1>3, <1>5, <1>6
<1>9. ASSUME NEW k \in 1..Len(Wrapped(w))
      PROVE  \E i \in 1..n : Wrapped(w)[k].iface = w.exports[i].iface /\ Wrapped(w)[k].module = ImportModule(w, i)
  <2>0. PICK i \in 1..n : \E j \in 1..m(i) : Wrapped(w)[k] \in Range(Entry(w, i, j))
    BY <1>7, <1>8
  <2>1. PICK j \in 1..m(i) : Wrapped(w)[k] \in Range(Entry(w, i, j))
    BY <2>0
  <2>2. Wrapped(w)[k] = [iface |-> w.exports[i].iface, name |-> w.exports[i].functions[j].name,
                         module |-> ImportModule(w, i)]
    BY <2>1 DEF Entry, Range
  <2> QED
    BY <2>2
<1>10. ASSUME NEW e \in Exported(w), IsIntercepted(w, e[1], e[2])
       PROVE  \E k \in 1..Len(Wrapped(w)) : Wrapped(w)[k].iface = e[1] /\ Wrapped(w)[k].name = e[2]
  <2>0. PICK i \in 1..n : \E j \in 1..m(i) : e = <<w.exports[i].iface, w.exports[i].functions[j].name>>
    BY DEF Exported
  <2>1. PICK j \in 1..m(i) : e = <<w.exports[i].iface, w.exports[i].functions[j].name>>
    BY <2>0
  <2> DEFINE x == [iface |-> e[1], name |-> e[2], module |-> ImportModule(w, i)]
  <2>2. Entry(w, i, j) = <<x>>
    BY <1>10, <2>1 DEF Entry
  <2>3. x \in Range(Entry(w, i, j))
    BY <2>2 DEF Range
  <2>4. PICK k \in 1..Len(Wrapped(w)) : Wrapped(w)[k] = x
    BY <1>7, <1>8, <2>3
  <2> QED
    BY <2>4
<1> QED
  BY <1>7, <1>9, <1>10

\* Each shim entry is in the bag of a run of functions of its module.
LEMMA InARun ==
  ASSUME NEW w \in Worlds, NEW k \in 1..Len(Wrapped(w))
  PROVE  \E s \in Starts(w) : Wrapped(w)[s].module = Wrapped(w)[k].module /\ k \in Bag(w, s)
<1> DEFINE W == Wrapped(w)
           T == {s \in 1..k : \A j \in s..k : W[j].module = W[k].module}
<1>1. Len(W) \in Nat /\ k \in Nat
  BY WrappedHas
<1>2. k \in T /\ T \subseteq Nat
  BY <1>1
<1>3. PICK m \in T : \A s \in T : m <= s
  <2> HIDE DEF T
  <2> QED
    BY <1>2, Least
<1>4. m \in 1..Len(W) /\ m <= k /\ \A j \in m..k : W[j].module = W[k].module
  BY <1>1
<1>5. W[m].module = W[k].module
  BY <1>1, <1>4
<1>6. m \in Starts(w)
  <2> SUFFICES ASSUME m # 1, W[m - 1].module = W[m].module PROVE FALSE
    BY <1>4 DEF Starts
  <2>1. m - 1 \in 1..k /\ ~(m <= m - 1) /\ \A j \in (m - 1)..k : j = m - 1 \/ j \in m..k
    BY <1>1, <1>4
  <2>2. m - 1 \in T
    BY <1>4, <1>5, <2>1
  <2> QED
    BY <1>3, <2>1, <2>2
<1>7. k \in Bag(w, m)
  BY <1>1, <1>4, <1>5 DEF Bag
<1> QED
  BY <1>5, <1>6, <1>7

\* A call through the wrapper, the shim and the table reaches the function of the export,
\* in every world whose component is valid.
THEOREM CallsReachTheirFunctionHolds == InterceptorSpec => []CallsReachTheirFunction
<1>1. ASSUME NEW w \in Worlds, IsValid(w), NEW e \in Exported(w) PROVE Reached(w, e) = e
  <2>1. e = <<e[1], e[2]>>
    BY DEF Exported
  <2>2. CASE ~IsIntercepted(w, e[1], e[2])
    BY <2>2 DEF Reached
  <2>3. CASE IsIntercepted(w, e[1], e[2])
    <3> DEFINE W == Wrapped(w)
               k == CHOOSE k \in 1..Len(W) : W[k].iface = e[1] /\ W[k].name = e[2]
               s == ShimEntry(w, W[k])
    <3>1. k \in 1..Len(W) /\ W[k].iface = e[1] /\ W[k].name = e[2]
      BY <2>3, WrappedHas
    <3> HIDE DEF k
    <3>2. s \in 1..Len(W) /\ W[s].module = W[k].module /\ W[s].name = W[k].name
      <4> DEFINE b == CHOOSE b \in Starts(w) : W[b].module = W[k].module
      <4>1. PICK t \in Starts(w) : W[t].module = W[k].module /\ k \in Bag(w, t)
        BY <3>1, InARun
      <4>2. b \in Starts(w) /\ W[b].module = W[k].module
        BY <4>1
      <4>3. k \in Bag(w, b)
        BY <1>1, <4>1, <4>2 DEF IsValid
      <4> HIDE DEF b
      <4>4. s = CHOOSE j \in Bag(w, b) : W[j].name = W[k].name
        BY DEF ShimEntry, b
      <4>5. s \in Bag(w, b) /\ W[s].name = W[k].name
        BY <4>3, <4>4
      <4>6. b \in 1..Len(W) /\ Len(W) \in Nat
        BY <4>2, WrappedHas DEF Starts
      <4> QED
        BY <4>2, <4>5, <4>6 DEF Bag
    <3>3. W[s].iface = W[k].iface
      <4>1. PICK i \in 1..Len(w.exports) : W[s].iface = w.exports[i].iface /\ W[s].module = ImportModule(w, i)
        BY <3>2, WrappedHas
      <4>2. PICK j \in 1..Len(w.exports) : W[k].iface = w.exports[j].iface /\ W[k].module = ImportModule(w, j)
        BY <3>1, WrappedHas
      <4> QED
        BY <3>2, <4>1, <4>2, ModuleOfInterface
    <3>4. Reached(w, e) = Fixup(w)[s]
      BY <2>3 DEF Reached, k
    <3>5. Fixup(w)[s] = <<W[s].iface, W[s].name>>
      BY <3>2 DEF Fixup, AliasTarget
    <3> QED
      BY <2>1, <3>1, <3>2, <3>3, <3>4, <3>5
  <2> QED
    BY <2>2, <2>3
<1>2. MemoryInv => CallsReachTheirFunction
  BY <1>1 DEF MemoryInv, CallsReachTheirFunction
<1> QED
  BY <1>2, MemoryInvInit, MemoryInvStep, PTL DEF InterceptorSpec

=============================================================================
