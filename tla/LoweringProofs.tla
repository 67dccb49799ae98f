---------------------------- MODULE LoweringProofs ----------------------------
(***************************************************************************)
(* What the lowering keeps, for every function it may be called with, and  *)
(* every word arithmetic, seed and limit: no lookup in its maps fails      *)
(* (LookupsSucceed), and the origins it gives are in order, so that none   *)
(* is given twice (OriginsInOrder).  The first sections say what joined    *)
(* sequences have at which place: the function's values, edges and origins *)
(* are joined of those of its blocks.                                      *)
(*                                                                         *)
(* The second half says what the emitter does to a draft, operation by     *)
(* operation: unless its ids run out, a draft that is good stays good, and *)
(* its carrier writes grow by the carriers named.  PlanProofs takes these  *)
(* lemmas to the actions of the lowering.                                  *)
(***************************************************************************)
EXTENDS Lowering, SharedLemmas

(***************************************************************************)
(* Flattened sequences.                                                    *)
(***************************************************************************)

\* flatten gives, for each number of sequences, what they are joined.
IsFlattened(flatten, seqs) ==
    flatten = [i \in 1 .. Len(seqs) |-> IF i = 1 THEN seqs[i] ELSE flatten[i - 1] \o seqs[i]]

Flatten(seqs) == CHOOSE flatten : IsFlattened(flatten, seqs)

\* There is such a function.
LEMMA FlattenExists ==
    ASSUME NEW seqs, Len(seqs) \in Nat
    PROVE  \E flatten : IsFlattened(flatten, seqs)
<1> DEFINE N == Len(seqs)
           Body(g, i) == IF i = 1 THEN seqs[i] ELSE g[i - 1] \o seqs[i]
           Solves(g, k) == g = [i \in 1 .. k |-> Body(g, i)]
           Solved == {k \in 0 .. N : \E g : Solves(g, k)}
<1>1. 0 \in Solved
  <2> DEFINE g == << >>
  <2>1. Solves(g, 0)
    OBVIOUS
  <2> HIDE DEF g, Solves
  <2> QED
    BY <2>1
<1>2. ASSUME NEW k \in 1 .. N, k - 1 \in Solved PROVE k \in Solved
  <2>1. PICK g : Solves(g, k - 1)
    BY <1>2
  <2> DEFINE h == [i \in 1 .. k |-> Body(g, i)]
  <2>2. ASSUME NEW i \in 1 .. (k - 1) PROVE h[i] = g[i]
    <3> HIDE DEF Body
    <3> QED
      BY <2>1
  <2>3. ASSUME NEW i \in 1 .. k PROVE Body(h, i) = Body(g, i)
    <3> HIDE DEF h
    <3>1. i = 1 \/ h[i - 1] = g[i - 1]
      BY <2>2
    <3> QED
      BY <3>1
  <2>4. Solves(h, k)
    <3> HIDE DEF Body
    <3> QED
      BY <2>3
  <2> HIDE DEF h, Solves
  <2> QED
    BY <2>4
<1> HIDE DEF Solves
<1>3. Solved \in SUBSET (0 .. N)
  OBVIOUS
<1>4. N \in Solved
  <2> HIDE DEF Solved
  <2> QED
    BY <1>1, <1>2, <1>3, UpTo
<1>5. PICK g : Solves(g, N)
  BY <1>4
<1> QED
  BY <1>5 DEF IsFlattened, Solves

\* The place where each sequence starts in what they are joined.
Starts(seqs) == Running(0, [b \in 1 .. Len(seqs) |-> Len(seqs[b])], Len(seqs))

\* Joining one more sequence appends it.
LEMMA FlattenSteps ==
    ASSUME NEW T, NEW seqs \in Seq(Seq(T)), Len(seqs) # 0
    PROVE  /\ Seqs!FlattenSeq(seqs) = Flatten(seqs)[Len(seqs)]
           /\ Flatten(seqs)[1] = seqs[1]
           /\ \A i \in 2 .. Len(seqs) : Flatten(seqs)[i] = Flatten(seqs)[i - 1] \o seqs[i]
<1>1. IsFlattened(Flatten(seqs), seqs)
  BY FlattenExists, SMTT(30) DEF Flatten
<1>2. Seqs!FlattenSeq(seqs) = Flatten(seqs)[Len(seqs)]
  BY Zenon DEF Seqs!FlattenSeq, Flatten, IsFlattened
<1>3. 1 \in 1 .. Len(seqs)
  OBVIOUS
<1>4. \A i \in 1 .. Len(seqs) :
          Flatten(seqs)[i] = IF i = 1 THEN seqs[i] ELSE Flatten(seqs)[i - 1] \o seqs[i]
  BY <1>1, Zenon DEF IsFlattened
<1>5. ASSUME NEW i \in 2 .. Len(seqs)
      PROVE  Flatten(seqs)[i] = Flatten(seqs)[i - 1] \o seqs[i]
  <2>1. i \in 1 .. Len(seqs) /\ i # 1
    OBVIOUS
  <2> QED
    BY <1>4, <2>1, Zenon
<1> QED
  BY <1>2, <1>3, <1>4, <1>5, Zenon

\* Each sequence starts where the one before it ends.
LEMMA StartsSteps ==
    ASSUME NEW T, NEW seqs \in Seq(Seq(T))
    PROVE  /\ Starts(seqs)[0] = 0
           /\ \A b \in 1 .. Len(seqs) : Starts(seqs)[b] = Starts(seqs)[b - 1] + Len(seqs[b])
           /\ \A b \in 0 .. Len(seqs) : Starts(seqs)[b] \in Nat
<1> DEFINE sizes == [b \in 1 .. Len(seqs) |-> Len(seqs[b])]
<1>1. /\ Len(seqs) \in Nat
      /\ \A b \in 1 .. Len(seqs) : sizes[b] = Len(seqs[b]) /\ sizes[b] \in Nat
  OBVIOUS
<1>2. Starts(seqs) = Running(0, sizes, Len(seqs))
  BY DEF Starts
<1> HIDE DEF sizes
<1> QED
  BY <1>1, <1>2, RunningSteps

\* A sequence of length zero is the empty one.
LEMMA EmptyOfLength ==
    ASSUME NEW T, NEW s \in Seq(T), Len(s) = 0
    PROVE  s = << >>
OBVIOUS

\* Two sequences in one, by their places.
LEMMA Concatenated ==
    ASSUME NEW T, NEW s \in Seq(T), NEW t \in Seq(T)
    PROVE  /\ s \o t \in Seq(T)
           /\ Len(s \o t) = Len(s) + Len(t)
           /\ \A k \in 1 .. Len(s) : (s \o t)[k] = s[k]
           /\ \A e \in 1 .. Len(t) : (s \o t)[Len(s) + e] = t[e]
<1>1. s \o t \in Seq(T) /\ Len(s \o t) = Len(s) + Len(t)
  OBVIOUS
<1>2. \A k \in 1 .. Len(s) : (s \o t)[k] = s[k]
  OBVIOUS
<1>3. \A e \in 1 .. Len(t) : (s \o t)[Len(s) + e] = t[e]
  OBVIOUS
<1> QED
  BY <1>1, <1>2, <1>3

\* joined is the first sequences of seqs, one after the other.
Joined(joined, T, seqs, start, count) ==
    /\ joined \in Seq(T)
    /\ Len(joined) = start[count]
    /\ \A b \in 1 .. count : \A e \in 1 .. Len(seqs[b]) :
           /\ start[b - 1] + e \in 1 .. start[count]
           /\ joined[start[b - 1] + e] = seqs[b][e]
    /\ \A k \in 1 .. start[count] :
           \E b \in 1 .. count : \E e \in 1 .. Len(seqs[b]) : k = start[b - 1] + e

\* What is joined of some sequences is, with one more, joined of all of them.
LEMMA JoinedStep ==
    ASSUME NEW T, NEW seqs, NEW start, NEW before \in Seq(T), NEW i \in Nat \ {0},
           NEW length \in Nat, NEW base \in Nat, seqs[i] \in Seq(T), length = Len(seqs[i]),
           base = start[i - 1], start[i] = base + length,
           Joined(before, T, seqs, start, i - 1)
    PROVE  Joined(before \o seqs[i], T, seqs, start, i)
<1>1. PICK after : after = before \o seqs[i]
  OBVIOUS
<1>2. Len(before) = base
  BY DEF Joined
<1>3. /\ after \in Seq(T) /\ Len(after) = base + length
      /\ \A k \in 1 .. base : after[k] = before[k]
      /\ \A e \in 1 .. length : after[base + e] = seqs[i][e]
  <2>1. /\ before \o seqs[i] \in Seq(T)
        /\ Len(before \o seqs[i]) = Len(before) + Len(seqs[i])
        /\ \A k \in 1 .. Len(before) : (before \o seqs[i])[k] = before[k]
        /\ \A e \in 1 .. Len(seqs[i]) : (before \o seqs[i])[Len(before) + e] = seqs[i][e]
    BY Concatenated
  <2> QED
    BY <1>1, <1>2, <2>1, Zenon
<1>4. \A b \in 1 .. (i - 1) : \A e \in 1 .. Len(seqs[b]) :
          start[b - 1] + e \in 1 .. base /\ before[start[b - 1] + e] = seqs[b][e]
  BY Zenon DEF Joined
<1>5. \A k \in 1 .. base :
          \E b \in 1 .. (i - 1) : \E e \in 1 .. Len(seqs[b]) : k = start[b - 1] + e
  BY Zenon DEF Joined
<1>6. ASSUME NEW b \in 1 .. i, NEW e \in 1 .. Len(seqs[b])
      PROVE  start[b - 1] + e \in 1 .. start[i] /\ after[start[b - 1] + e] = seqs[b][e]
  <2>1. CASE b = i
    <3>1. e \in 1 .. length /\ start[b - 1] = base
      BY <2>1
    <3>2. base + e \in 1 .. (base + length)
      BY <3>1, SMTT(30)
    <3> QED
      BY <1>3, <2>1, <3>1, <3>2, Zenon
  <2>2. CASE b # i
    <3>1. b \in 1 .. (i - 1)
      BY <2>2
    <3>2. start[b - 1] + e \in 1 .. base /\ before[start[b - 1] + e] = seqs[b][e]
      BY <1>4, <3>1, Zenon
    <3>3. \A k \in 1 .. base : k \in 1 .. (base + length)
      OBVIOUS
    <3> QED
      BY <1>3, <3>2, <3>3, Zenon
  <2> QED
    BY <2>1, <2>2
<1>7. ASSUME NEW k \in 1 .. start[i]
      PROVE  \E b \in 1 .. i : \E e \in 1 .. Len(seqs[b]) : k = start[b - 1] + e
  <2>1. CASE k <= base
    <3>1. k \in 1 .. base
      BY <2>1
    <3>2. PICK b \in 1 .. (i - 1) : \E e \in 1 .. Len(seqs[b]) : k = start[b - 1] + e
      BY <1>5, <3>1, Zenon
    <3>3. b \in 1 .. i
      OBVIOUS
    <3> QED
      BY <3>2, <3>3, Zenon
  <2>2. CASE ~ (k <= base)
    <3>1. i \in 1 .. i /\ k - base \in 1 .. length /\ k = base + (k - base)
      BY <2>2, SMTT(30)
    <3> QED
      BY <3>1, Zenon
  <2> QED
    BY <2>1, <2>2
<1> QED
  BY <1>1, <1>3, <1>6, <1>7, Zenon DEF Joined

\* Joined sequences hold what each of them holds, at its place.
LEMMA Flattened ==
    ASSUME NEW T, NEW seqs \in Seq(Seq(T))
    PROVE  Joined(Seqs!FlattenSeq(seqs), T, seqs, Starts(seqs), Len(seqs))
<1>1. PICK N \in Nat : N = Len(seqs)
  OBVIOUS
<1>2. PICK start : start = Starts(seqs)
  OBVIOUS
<1>3. /\ start[0] = 0
      /\ \A b \in 1 .. N : start[b] = start[b - 1] + Len(seqs[b])
      /\ \A b \in 0 .. N : start[b] \in Nat
  BY <1>1, <1>2, StartsSteps, Zenon
<1>4. ASSUME NEW b \in 1 .. N PROVE seqs[b] \in Seq(T) /\ Len(seqs[b]) \in Nat
  BY <1>1
<1>5. Joined(<< >>, T, seqs, start, 0)
  BY <1>3 DEF Joined
<1>6. CASE N = 0
  <2>1. seqs = << >>
    <3> HIDE DEF Starts
    <3>1. Len(seqs) = 0
      BY <1>1, <1>6, Zenon
    <3> QED
      BY <3>1, EmptyOfLength
  <2>2. Seqs!FlattenSeq(seqs) = seqs
    BY <1>1, <1>6, Zenon DEF Seqs!FlattenSeq
  <2> QED
    BY <1>1, <1>2, <1>5, <1>6, <2>1, <2>2, Zenon
<1>7. CASE N # 0
  <2>1. PICK f : /\ Seqs!FlattenSeq(seqs) = f[N]
                 /\ f[1] = seqs[1]
                 /\ \A i \in 2 .. N : f[i] = f[i - 1] \o seqs[i]
    BY <1>1, <1>7, FlattenSteps, Zenon
  <2> DEFINE Holding == {i \in 0 .. N : i = 0 \/ Joined(f[i], T, seqs, start, i)}
  <2>2. ASSUME NEW i \in 1 .. N, NEW before \in Seq(T), Joined(before, T, seqs, start, i - 1)
        PROVE  Joined(before \o seqs[i], T, seqs, start, i)
    <3>1. i \in Nat \ {0} /\ i - 1 \in 0 .. N
      OBVIOUS
    <3> QED
      BY <1>3, <1>4, <2>2, <3>1, JoinedStep, Zenon
  <2>3. Joined(f[1], T, seqs, start, 1)
    <3>1. 1 \in 1 .. N /\ 1 - 1 = 0 /\ << >> \in Seq(T)
      BY <1>7
    <3>2. << >> \o seqs[1] = f[1]
      BY <1>4, <2>1, <3>1
    <3> QED
      BY <1>5, <2>2, <3>1, <3>2, Zenon
  <2>4. /\ Holding \in SUBSET (0 .. N) /\ 0 \in Holding
    OBVIOUS
  <2>5. ASSUME NEW i \in 1 .. N, i - 1 \in Holding PROVE i \in Holding
    <3>1. i = 1 \/ (i \in 2 .. N /\ Joined(f[i - 1], T, seqs, start, i - 1))
      BY <2>5
    <3>2. f[i - 1] \in Seq(T) \/ i = 1
      BY <3>1 DEF Joined
    <3>3. Joined(f[i], T, seqs, start, i)
      BY <2>1, <2>2, <2>3, <3>1, <3>2, Zenon
    <3>4. i \in 0 .. N
      OBVIOUS
    <3> QED
      BY <3>3, <3>4
  <2>6. N \in Holding
    <3> HIDE DEF Holding
    <3>1. Holding = 0 .. N
      BY <2>4, <2>5, UpTo, Zenon
    <3>2. N \in 0 .. N
      OBVIOUS
    <3> QED
      BY <3>1, <3>2, Zenon
  <2> QED
    BY <1>1, <1>2, <1>7, <2>1, <2>6, Zenon
<1> QED
  BY <1>6, <1>7

\* start is where items of these sizes start, and end.
Placing(start, size, N) ==
    /\ \A n \in 1 .. N : start[n] = start[n - 1] + size[n] /\ size[n] \in Nat
    /\ \A n \in 0 .. N : start[n] \in Nat

\* What takes a place of its own in a running total shares no place.
LEMMA PlacesApart ==
    ASSUME NEW N \in Nat, NEW start, NEW size, Placing(start, size, N)
    PROVE  \A b \in 1 .. N, c \in 1 .. N : \A e \in 1 .. size[b], f \in 1 .. size[c] :
               start[b - 1] + e = start[c - 1] + f => b = c /\ e = f
<1> USE DEF Placing
<1>1. ASSUME NEW from \in 0 .. N, NEW to \in from .. N PROVE start[from] <= start[to]
  <2> DEFINE Holding == {k \in 0 .. (N - from) : start[from] <= start[from + k]}
  <2>1. Holding \in SUBSET (0 .. (N - from)) /\ 0 \in Holding /\ N - from \in Nat
    OBVIOUS
  <2>2. ASSUME NEW k \in 1 .. (N - from), k - 1 \in Holding PROVE k \in Holding
    <3>1. from + k \in 1 .. N /\ (from + k) - 1 = from + (k - 1) /\ from + (k - 1) \in 0 .. N
      OBVIOUS
    <3>2. start[from] <= start[from + (k - 1)]
      BY <2>2
    <3>3. start[from + k] = start[from + (k - 1)] + size[from + k] /\ size[from + k] \in Nat
      BY <3>1
    <3>4. start[from] \in Nat /\ start[from + (k - 1)] \in Nat /\ k \in 0 .. (N - from)
      BY <3>1
    <3>5. start[from] <= start[from + k]
      BY <3>2, <3>3, <3>4
    <3> QED
      BY <3>4, <3>5
  <2>3. Holding = 0 .. (N - from)
    <3> HIDE DEF Holding
    <3> QED
      BY <2>1, <2>2, UpTo, Zenon
  <2>4. to - from \in 0 .. (N - from) /\ from + (to - from) = to
    OBVIOUS
  <2>5. start[from] <= start[from + (to - from)]
    BY <2>3, <2>4
  <2> QED
    BY <2>4, <2>5
<1>2. ASSUME NEW x \in 1 .. N, NEW y \in 1 .. N, x < y,
             NEW k \in 1 .. size[x], NEW m \in 1 .. size[y]
      PROVE  start[x - 1] + k # start[y - 1] + m
  <2>1. x \in 0 .. N /\ y - 1 \in x .. N /\ y - 1 \in 0 .. N /\ x - 1 \in 0 .. N
    BY <1>2
  <2>2. start[x] <= start[y - 1]
    BY <1>1, <2>1
  <2>3. /\ start[x] = start[x - 1] + size[x] /\ size[x] \in Nat /\ start[x - 1] \in Nat
        /\ start[y - 1] \in Nat /\ size[y] \in Nat
    BY <2>1
  <2> QED
    BY <2>2, <2>3
<1>3. ASSUME NEW b \in 1 .. N, NEW c \in 1 .. N, NEW e \in 1 .. size[b],
             NEW f \in 1 .. size[c], start[b - 1] + e = start[c - 1] + f
      PROVE  b = c /\ e = f
  <2>1. ~ (b < c) /\ ~ (c < b)
    BY <1>2, <1>3
  <2>2. start[b - 1] \in Nat
    OBVIOUS
  <2> QED
    BY <1>3, <2>1, <2>2
<1> QED
  BY <1>3

\* The places of joined sequences do not overlap.
LEMMA PlacesUnique ==
    ASSUME NEW T, NEW seqs, seqs \in Seq(Seq(T))
    PROVE  \A b \in 1 .. Len(seqs), c \in 1 .. Len(seqs) :
               \A e \in 1 .. Len(seqs[b]), f \in 1 .. Len(seqs[c]) :
                   Starts(seqs)[b - 1] + e = Starts(seqs)[c - 1] + f => b = c /\ e = f
<1> DEFINE N == Len(seqs)
           start == Starts(seqs)
<1>1. PICK size : size = [n \in 1 .. Len(seqs) |-> Len(seqs[n])]
  OBVIOUS
<1>2. \A n \in 1 .. Len(seqs) : size[n] = Len(seqs[n]) /\ Len(seqs[n]) \in Nat
  BY <1>1
<1>3. N \in Nat
  OBVIOUS
<1>5. /\ \A n \in 1 .. N : start[n] = start[n - 1] + Len(seqs[n])
      /\ \A n \in 0 .. N : start[n] \in Nat
  BY StartsSteps, Zenon
<1>6. Placing(start, size, N)
  BY <1>2, <1>5, Zenon DEF Placing
<1>7. \A b \in 1 .. N, c \in 1 .. N : \A e \in 1 .. size[b], f \in 1 .. size[c] :
          start[b - 1] + e = start[c - 1] + f => b = c /\ e = f
  <2> HIDE DEF N, start
  <2> QED
    BY <1>3, <1>6, PlacesApart
<1>8. ASSUME NEW b \in 1 .. N, NEW c \in 1 .. N,
             NEW e \in 1 .. Len(seqs[b]), NEW f \in 1 .. Len(seqs[c]),
             start[b - 1] + e = start[c - 1] + f
      PROVE  b = c /\ e = f
  <2>1. e \in 1 .. size[b] /\ f \in 1 .. size[c]
    BY <1>2, Zenon
  <2> HIDE DEF N, start
  <2> QED
    BY <1>7, <1>8, <2>1
<1> QED
  BY <1>8, Zenon

-----------------------------------------------------------------------------
(***************************************************************************)
(* The invariant.                                                          *)
(***************************************************************************)

IsSequence(s) == s \in Seq({s[i] : i \in DOMAIN s})

EdgeType == [source : Nat, target : Nat, arguments : Seq(Nat)]
EdgeBuild == [source : Nat, target : Nat, arguments : Seq(Nat), origin : Nat]

DraftFields ==
    {"nodes", "carrier_writes", "memory_writes", "overflowed", "semantic", "history", "last",
     "fold", "items", "bindings"}

\* The loops after the verification, and after that of the values and the edges.
AfterVerify == {"values", "edges", "states", "islands", "lowered"}
AfterValues == AfterVerify \ {"values"}
AfterEdges == AfterValues \ {"edges"}

\* values has an entry for each of the values allocated so far.
ValuesNamed ==
    /\ IsSequence(allocated)
    /\ loop \in {"verify", "values"} =>
           /\ Len(allocated) <= Len(FunctionValues)
           /\ DOMAIN values = {FunctionValues[i].id : i \in 1 .. Len(allocated)}
    /\ loop \in AfterValues =>
           DOMAIN values = {FunctionValues[i].id : i \in 1 .. Len(FunctionValues)}

EdgesAgree ==
    /\ edges \in Seq(EdgeBuild)
    /\ Len(edges) <= Len(FunctionEdges)
    /\ \A k \in 1 .. Len(edges) :
           /\ edges[k].source = FunctionEdges[k].source
           /\ edges[k].target = FunctionEdges[k].target
           /\ edges[k].arguments = FunctionEdges[k].arguments
    /\ loop \in AfterEdges => Len(edges) = Len(FunctionEdges)

\* A block's island has the nodes of exactly the values that the verifier found
\* available to its next action.
DraftBound ==
    draft # NoDraft =>
        /\ DOMAIN draft = DraftFields
        /\ loop \in {"islands", "refused"}
        /\ Index <= IslandCount
        /\ IsBlock =>
               /\ draft.items \in 0 .. Len(Block.actions)
               /\ DOMAIN draft.bindings = DOMAIN Available(Block, draft.items + 1)
        /\ ~ IsBlock => draft.items \in 0 .. Len(Edge.arguments)

LookupsSucceed ==
    /\ source \in Sources
    /\ loop \in AfterVerify \cup {"verify", "refused"}
    /\ loop \in AfterVerify => Verified(function_)
    /\ next_origin \in 0 .. MaxOrigin
    /\ ValuesNamed
    /\ EdgesAgree
    /\ IsSequence(plans)
    /\ DraftBound

-----------------------------------------------------------------------------
(***************************************************************************)
(* The values, the edges and the origins of a function, by their places.   *)
(***************************************************************************)

\* The parts of the typed functions.
LEMMA BlockParts ==
    ASSUME NEW function \in MachineFunction, NEW b \in 1 .. Len(function.blocks)
    PROVE  function.blocks[b] \in MachineBlock
BY DEF MachineFunction

\* A block has an id, an origin, its values and a terminator.
LEMMA PartsOfBlock ==
    ASSUME NEW block \in MachineBlock
    PROVE  /\ block.id \in Nat /\ block.origin \in Nat
           /\ block.parameters \in Seq(IrValue)
           /\ block.actions \in Seq(TypedAction)
           /\ block.terminator \in BlockTerminator
BY DEF MachineBlock

\* An action has the operands of its kind, and an origin.
LEMMA PartsOfAction ==
    ASSUME NEW action \in TypedAction
    PROVE  /\ action.kind \in DOMAIN OperandCount
           /\ action.operands \in Seq(Nat)
           /\ Len(action.operands) = OperandCount[action.kind]
           /\ action_origin(action) \in Nat
           /\ Produces(action) => action.output \in IrValue
<1>1. /\ action.kind \in DOMAIN OperandCount
      /\ action.operands \in Seq(Nat)
      /\ Len(action.operands) = OperandCount[action.kind]
      /\ action.output \in IrValue \cup [origin : Nat]
      /\ Produces(action) => action.output \in IrValue
  BY DEF TypedAction
<1>2. action.output.origin \in Nat
  BY <1>1 DEF IrValue
<1> QED
  BY <1>1, <1>2 DEF action_origin

\* A terminator has the edges of its kind.
LEMMA PartsOfTerminator ==
    ASSUME NEW terminator \in BlockTerminator
    PROVE  /\ terminator.kind \in DOMAIN EdgeCount /\ terminator.value \in Nat
           /\ terminator.edges \in Seq(BlockEdge)
           /\ Len(terminator.edges) = EdgeCount[terminator.kind]
BY DEF BlockTerminator

\* Edges lead to an id with values by their ids.
LEMMA EdgesTyped ==
    ASSUME NEW block \in MachineBlock
    PROVE  /\ EdgesOf(block) \in Seq(BlockEdge)
           /\ \A e \in 1 .. Len(EdgesOf(block)) :
                  /\ EdgesOf(block)[e].target \in Nat
                  /\ EdgesOf(block)[e].arguments \in Seq(Nat)
<1>1. EdgesOf(block) \in Seq(BlockEdge)
  BY PartsOfBlock, PartsOfTerminator, Zenon DEF EdgesOf
<1>2. \A e \in 1 .. Len(EdgesOf(block)) : EdgesOf(block)[e] \in BlockEdge
  BY <1>1
<1> QED
  BY <1>1, <1>2 DEF BlockEdge

OutputsOf(block) == [n \in 1 .. Len(block.actions) |-> produced_value(block.actions[n])]

PlaceOfOutput(block, n) == Len(block.parameters) + (Starts(OutputsOf(block))[n - 1] + 1)

\* The optional values of the actions.
LEMMA OutputsTyped ==
    ASSUME NEW block \in MachineBlock
    PROVE  /\ OutputsOf(block) \in Seq(Seq(IrValue))
           /\ Len(OutputsOf(block)) = Len(block.actions)
           /\ \A n \in 1 .. Len(block.actions) :
                  /\ OutputsOf(block)[n] = produced_value(block.actions[n])
                  /\ Produces(block.actions[n]) =>
                         /\ Len(OutputsOf(block)[n]) = 1
                         /\ OutputsOf(block)[n][1] = block.actions[n].output
                  /\ ~ Produces(block.actions[n]) => Len(OutputsOf(block)[n]) = 0
<1>1. Len(block.actions) \in Nat
  BY PartsOfBlock
<1>2. ASSUME NEW n \in 1 .. Len(block.actions) PROVE block.actions[n] \in TypedAction
  BY PartsOfBlock
<1>3. ASSUME NEW action \in TypedAction
      PROVE  /\ produced_value(action) \in Seq(IrValue)
             /\ Produces(action) =>
                    Len(produced_value(action)) = 1 /\ produced_value(action)[1] = action.output
             /\ ~ Produces(action) => Len(produced_value(action)) = 0
  <2>1. CASE Produces(action)
    <3>1. produced_value(action) = <<action.output>> /\ action.output \in IrValue
      BY <2>1, PartsOfAction DEF produced_value
    <3> HIDE DEF IrValue
    <3> QED
      BY <2>1, <3>1
  <2>2. CASE ~ Produces(action)
    BY <2>2 DEF produced_value
  <2> QED
    BY <2>1, <2>2
<1>4. \A n \in 1 .. Len(block.actions) : produced_value(block.actions[n]) \in Seq(IrValue)
  BY <1>2, <1>3, Zenon
<1>5. OutputsOf(block) \in Seq(Seq(IrValue)) /\ Len(OutputsOf(block)) = Len(block.actions)
  BY <1>1, <1>4 DEF OutputsOf
<1>6. \A n \in 1 .. Len(block.actions) :
          OutputsOf(block)[n] = produced_value(block.actions[n])
  BY DEF OutputsOf
<1> QED
  BY <1>2, <1>3, <1>5, <1>6, Zenon

\* A block's values are its parameters and what its actions produce.
LEMMA ValuesAt ==
    ASSUME NEW block \in MachineBlock
    PROVE  /\ ValuesOf(block) \in Seq(IrValue)
           /\ \A i \in 1 .. Len(block.parameters) :
                  i \in 1 .. Len(ValuesOf(block)) /\ ValuesOf(block)[i] = block.parameters[i]
           /\ \A n \in 1 .. Len(block.actions) :
                  Produces(block.actions[n]) =>
                      /\ PlaceOfOutput(block, n) \in 1 .. Len(ValuesOf(block))
                      /\ ValuesOf(block)[PlaceOfOutput(block, n)] = block.actions[n].output
           /\ \A k \in 1 .. Len(ValuesOf(block)) :
                  \/ k \in 1 .. Len(block.parameters)
                  \/ \E n \in 1 .. Len(block.actions) :
                         Produces(block.actions[n]) /\ k = PlaceOfOutput(block, n)
<1> DEFINE parameters == block.parameters
           outputs == OutputsOf(block)
           flat == Seqs!FlattenSeq(outputs)
           start == Starts(outputs)
           count == Len(block.actions)
<1>1. /\ outputs \in Seq(Seq(IrValue)) /\ Len(outputs) = count
      /\ \A n \in 1 .. count : Produces(block.actions[n]) =>
             Len(outputs[n]) = 1 /\ outputs[n][1] = block.actions[n].output
      /\ \A n \in 1 .. count : ~ Produces(block.actions[n]) => Len(outputs[n]) = 0
  BY OutputsTyped, Zenon
<1>2. Joined(flat, IrValue, outputs, start, count)
  BY <1>1, Flattened, Zenon
<1>3. ValuesOf(block) = parameters \o flat
  BY Zenon DEF ValuesOf, OutputsOf
<1>4. parameters \in Seq(IrValue)
  BY PartsOfBlock
<1>5. /\ flat \in Seq(IrValue) /\ Len(flat) = start[count]
      /\ \A b \in 1 .. count : \A e \in 1 .. Len(outputs[b]) :
             /\ start[b - 1] + e \in 1 .. start[count]
             /\ flat[start[b - 1] + e] = outputs[b][e]
      /\ \A k \in 1 .. start[count] :
             \E b \in 1 .. count : \E e \in 1 .. Len(outputs[b]) : k = start[b - 1] + e
  BY <1>2, Zenon DEF Joined
<1>6. /\ ValuesOf(block) \in Seq(IrValue)
      /\ Len(ValuesOf(block)) = Len(parameters) + Len(flat)
      /\ \A k \in 1 .. Len(parameters) : ValuesOf(block)[k] = parameters[k]
      /\ \A e \in 1 .. Len(flat) : ValuesOf(block)[Len(parameters) + e] = flat[e]
  <2> HIDE DEF parameters, flat, start, outputs, count
  <2>1. /\ parameters \o flat \in Seq(IrValue)
        /\ Len(parameters \o flat) = Len(parameters) + Len(flat)
        /\ \A k \in 1 .. Len(parameters) : (parameters \o flat)[k] = parameters[k]
        /\ \A e \in 1 .. Len(flat) : (parameters \o flat)[Len(parameters) + e] = flat[e]
    BY <1>4, <1>5, Concatenated, SMTT(30)
  <2> QED
    BY <1>3, <2>1, Zenon
<1>7. Len(parameters) \in Nat /\ Len(flat) \in Nat
  BY <1>4, <1>5
<1> HIDE DEF parameters, flat, start, outputs, count
<1>8. \A i \in 1 .. Len(parameters) : i \in 1 .. Len(ValuesOf(block))
  BY <1>6, <1>7
<1>9. ASSUME NEW n \in 1 .. count, Produces(block.actions[n])
      PROVE  /\ PlaceOfOutput(block, n) \in 1 .. Len(ValuesOf(block))
             /\ ValuesOf(block)[PlaceOfOutput(block, n)] = block.actions[n].output
  <2>1. 1 \in 1 .. Len(outputs[n]) /\ outputs[n][1] = block.actions[n].output
    BY <1>1, <1>9
  <2>2. start[n - 1] + 1 \in 1 .. start[count] /\ flat[start[n - 1] + 1] = outputs[n][1]
    BY <1>5, <2>1, Zenon
  <2>3. PlaceOfOutput(block, n) = Len(parameters) + (start[n - 1] + 1)
    BY DEF PlaceOfOutput, parameters, start, outputs
  <2>4. start[n - 1] + 1 \in 1 .. Len(flat)
    BY <1>5, <2>2
  <2>5. PlaceOfOutput(block, n) \in 1 .. Len(ValuesOf(block))
    BY <1>6, <1>7, <2>3, <2>4
  <2> QED
    BY <1>6, <2>1, <2>2, <2>3, <2>4, <2>5, Zenon
<1>10. ASSUME NEW k \in 1 .. Len(ValuesOf(block)), k \notin 1 .. Len(parameters)
       PROVE  \E n \in 1 .. count : Produces(block.actions[n]) /\ k = PlaceOfOutput(block, n)
  <2>1. k - Len(parameters) \in 1 .. start[count] /\ k = Len(parameters) + (k - Len(parameters))
    BY <1>5, <1>6, <1>7, <1>10
  <2>2. PICK n \in 1 .. count : \E e \in 1 .. Len(outputs[n]) :
                k - Len(parameters) = start[n - 1] + e
    BY <1>5, <2>1, Zenon
  <2>3. PICK e \in 1 .. Len(outputs[n]) : k - Len(parameters) = start[n - 1] + e
    BY <2>2
  <2>4. Produces(block.actions[n]) /\ e = 1
    <3>1. CASE ~ Produces(block.actions[n])
      <4>1. Len(outputs[n]) = 0
        BY <1>1, <3>1, Zenon
      <4> QED
        BY <4>1
    <3>2. CASE Produces(block.actions[n])
      <4>1. Len(outputs[n]) = 1
        BY <1>1, <3>2, Zenon
      <4> QED
        BY <3>2, <4>1
    <3> QED
      BY <3>1, <3>2
  <2>5. PlaceOfOutput(block, n) = Len(parameters) + (start[n - 1] + 1)
    BY DEF PlaceOfOutput, parameters, start, outputs
  <2>6. k = PlaceOfOutput(block, n)
    BY <2>1, <2>3, <2>4, <2>5
  <2> QED
    BY <2>4, <2>6
<1> QED
  BY <1>6, <1>8, <1>9, <1>10, Zenon DEF parameters, count

ValuesByBlock(function) ==
    [b \in 1 .. Len(function.blocks) |-> ValuesOf(function.blocks[b])]

PlaceOfValue(function, b, k) == Starts(ValuesByBlock(function))[b - 1] + k

\* A function's values are those of its blocks.
LEMMA AllValuesAt ==
    ASSUME NEW function \in MachineFunction
    PROVE  /\ AllValues(function) \in Seq(IrValue)
           /\ \A b \in 1 .. Len(function.blocks) :
                  \A k \in 1 .. Len(ValuesOf(function.blocks[b])) :
                      /\ PlaceOfValue(function, b, k) \in 1 .. Len(AllValues(function))
                      /\ AllValues(function)[PlaceOfValue(function, b, k)]
                             = ValuesOf(function.blocks[b])[k]
           /\ \A i \in 1 .. Len(AllValues(function)) :
                  \E b \in 1 .. Len(function.blocks) :
                      \E k \in 1 .. Len(ValuesOf(function.blocks[b])) :
                          i = PlaceOfValue(function, b, k)
<1> DEFINE byBlock == ValuesByBlock(function)
           count == Len(function.blocks)
<1>1. count \in Nat
  BY DEF MachineFunction
<1>2. \A b \in 1 .. count : ValuesOf(function.blocks[b]) \in Seq(IrValue)
  BY BlockParts, ValuesAt, Zenon
<1>3. /\ byBlock \in Seq(Seq(IrValue)) /\ Len(byBlock) = count
      /\ \A b \in 1 .. count : byBlock[b] = ValuesOf(function.blocks[b])
  <2> HIDE DEF count
  <2> QED
    BY <1>1, <1>2 DEF ValuesByBlock, count
<1>4. AllValues(function) = Seqs!FlattenSeq(byBlock)
  BY Zenon DEF AllValues, ValuesByBlock
<1>5. Joined(AllValues(function), IrValue, byBlock, Starts(byBlock), count)
  BY <1>3, <1>4, Flattened, Zenon
<1> QED
  BY <1>3, <1>5, ZenonT(40) DEF Joined, PlaceOfValue

-----------------------------------------------------------------------------
(***************************************************************************)
(* What the verifier settles.                                              *)
(***************************************************************************)

\* What verify_machine_ir says of each block.
LEMMA VerifiedBlocks ==
    ASSUME NEW function \in MachineFunction, Verified(function),
           NEW b \in 1 .. Len(function.blocks)
    PROVE  /\ \A n \in 1 .. Len(function.blocks[b].actions) :
                  ActionValid(function, function.blocks[b], n)
           /\ TerminatorValid(function, function.blocks[b])
<1>1. b \in DOMAIN function.blocks
  BY DEF MachineFunction
<1>2. DOMAIN function.blocks[b].actions = 1 .. Len(function.blocks[b].actions)
  <2>1. function.blocks[b].actions \in Seq(TypedAction)
    BY BlockParts, PartsOfBlock, Zenon
  <2> QED
    BY <2>1
<1> QED
  BY <1>1, <1>2, Zenon DEF Verified

\* Every operand of an accepted action is available to it.
LEMMA OperandsAvailable ==
    ASSUME NEW function \in MachineFunction, Verified(function),
           NEW b \in 1 .. Len(function.blocks),
           NEW n \in 1 .. Len(function.blocks[b].actions)
    PROVE  \A i \in DOMAIN function.blocks[b].actions[n].operands :
               function.blocks[b].actions[n].operands[i]
                   \in DOMAIN Available(function.blocks[b], n)
<1> DEFINE action == function.blocks[b].actions[n]
           available == Available(function.blocks[b], n)
<1>1. ActionValid(function, function.blocks[b], n)
  BY VerifiedBlocks, Zenon
<1>2. action \in TypedAction
  <2>1. function.blocks[b].actions \in Seq(TypedAction)
    BY BlockParts, PartsOfBlock, Zenon
  <2> QED
    BY <2>1
<1>3. /\ action.kind \in DOMAIN OperandCount
      /\ DOMAIN action.operands = 1 .. OperandCount[action.kind]
  <2>1. /\ action.kind \in DOMAIN OperandCount /\ action.operands \in Seq(Nat)
        /\ Len(action.operands) = OperandCount[action.kind]
    BY <1>2, PartsOfAction, Zenon
  <2> QED
    BY <2>1
<1>4. /\ action.kind \in {"Binary", "Unary"} =>
             \A i \in DOMAIN action.operands : Requires(available, action.operands[i], "Integer")
      /\ action.kind = "Compare" =>
             \E domain \in {"Integer", "Address"} :
                 \A i \in 1 .. 2 : Requires(available, action.operands[i], domain)
      /\ action.kind = "Load" => Requires(available, action.operands[1], "Address")
      /\ action.kind = "Store" =>
             /\ Requires(available, action.operands[1], "Address")
             /\ Requires(available, action.operands[2], "Integer")
  BY <1>1 DEF ActionValid
<1>5. \A id, domain : Requires(available, id, domain) => id \in DOMAIN available
  BY DEF Requires
<1> HIDE DEF action, available
<1>6. action.kind \in {"Argument", "Constant", "Binary", "Unary", "Compare", "Load", "Store"}
  BY <1>3 DEF OperandCount
<1>7. ASSUME NEW i \in DOMAIN action.operands PROVE action.operands[i] \in DOMAIN available
  <2>1. CASE action.kind \in {"Argument", "Constant"}
    BY <1>3, <2>1 DEF OperandCount
  <2>2. CASE action.kind \in {"Binary", "Unary"}
    BY <1>4, <1>5, <2>2, Zenon
  <2>3. CASE action.kind = "Compare"
    <3>1. i \in 1 .. 2
      BY <1>3, <2>3 DEF OperandCount
    <3> QED
      BY <1>4, <1>5, <2>3, <3>1, Zenon
  <2>4. CASE action.kind = "Load"
    <3>1. i = 1
      BY <1>3, <2>4 DEF OperandCount
    <3> QED
      BY <1>4, <1>5, <2>4, <3>1, Zenon
  <2>5. CASE action.kind = "Store"
    <3>1. i = 1 \/ i = 2
      BY <1>3, <2>5 DEF OperandCount
    <3> QED
      BY <1>4, <1>5, <2>5, <3>1, Zenon
  <2> QED
    BY <1>6, <2>1, <2>2, <2>3, <2>4, <2>5
<1> QED
  BY <1>7, Zenon DEF action, available

\* The value an accepted terminator tests or returns is available.
LEMMA TerminatorBound ==
    ASSUME NEW function \in MachineFunction, Verified(function),
           NEW b \in 1 .. Len(function.blocks),
           function.blocks[b].terminator.kind \in {"Branch", "Return"}
    PROVE  function.blocks[b].terminator.value
               \in DOMAIN Available(function.blocks[b], AtTerminator(function.blocks[b]))
<1>1. TerminatorValid(function, function.blocks[b])
  BY VerifiedBlocks, Zenon
<1> DEFINE available == Available(function.blocks[b], AtTerminator(function.blocks[b]))
           value == function.blocks[b].terminator.value
<1>2. \E domain \in {"Boolean", "Integer"} : Requires(available, value, domain)
  <2> HIDE DEF available, value
  <2> QED
    BY <1>1 DEF TerminatorValid, available, value
<1> QED
  BY <1>2, Zenon DEF Requires

\* An accepted edge has a target, and an available value for each parameter.
LEMMA EdgeBound ==
    ASSUME NEW function \in MachineFunction, Verified(function),
           NEW b \in 1 .. Len(function.blocks),
           NEW e \in 1 .. Len(EdgesOf(function.blocks[b]))
    PROVE  LET block == function.blocks[b]
               edge == EdgesOf(block)[e]
           IN  /\ edge.target \in BlockIds(function)
               /\ Len(edge.arguments)
                      = Len(function.blocks[BlockIndex(function, edge.target)].parameters)
               /\ \A i \in 1 .. Len(edge.arguments) :
                      edge.arguments[i] \in DOMAIN Available(block, AtTerminator(block))
<1> DEFINE block == function.blocks[b]
           edge == EdgesOf(block)[e]
<1>1. block \in MachineBlock
  BY BlockParts, Zenon
<1>2. EdgesOf(block) \in Seq(BlockEdge) /\ edge.arguments \in Seq(Nat)
  BY <1>1, EdgesTyped, Zenon
<1>3. e \in DOMAIN EdgesOf(block) /\ DOMAIN edge.arguments = 1 .. Len(edge.arguments)
  <2> HIDE DEF edge, block
  <2> QED
    BY <1>2 DEF block
<1>4. EdgeValid(function, block, edge)
  BY VerifiedBlocks, <1>3, Zenon DEF TerminatorValid
<1>5. /\ edge.target \in BlockIds(function)
      /\ Len(edge.arguments)
             = Len(function.blocks[BlockIndex(function, edge.target)].parameters)
      /\ \A i \in 1 .. Len(edge.arguments) :
             \E domain : Requires(Available(block, AtTerminator(block)), edge.arguments[i], domain)
  BY <1>3, <1>4, Zenon DEF EdgeValid
<1> QED
  BY <1>5, Zenon DEF Requires

\* An id in BlockIds is that of the block at its index.
LEMMA TargetExists ==
    ASSUME NEW function \in MachineFunction, NEW id \in BlockIds(function)
    PROVE  /\ BlockIndex(function, id) \in 1 .. Len(function.blocks)
           /\ function.blocks[BlockIndex(function, id)].id = id
<1>1. DOMAIN function.blocks = 1 .. Len(function.blocks)
  BY DEF MachineFunction
<1>2. \E b \in DOMAIN function.blocks : function.blocks[b].id = id
  BY Zenon DEF BlockIds
<1> QED
  BY <1>1, <1>2, Zenon DEF BlockIndex

-----------------------------------------------------------------------------
\* What is available, by its ids.
LEMMA AvailableDomain ==
    ASSUME NEW block, NEW n
    PROVE  DOMAIN Available(block, n) = {value.id : value \in FirstValues(block, n - 1)}
BY Zenon DEF Available, DomainsById

\* The values of a block that its first actions may use.
LEMMA FirstValuesIn ==
    ASSUME NEW block \in MachineBlock, NEW count \in 0 .. Len(block.actions),
           NEW value \in FirstValues(block, count)
    PROVE  \E k \in 1 .. Len(ValuesOf(block)) : ValuesOf(block)[k] = value
<1>1. CASE \E i \in DOMAIN block.parameters : value = block.parameters[i]
  <2>1. PICK i \in DOMAIN block.parameters : value = block.parameters[i]
    BY <1>1
  <2>2. i \in 1 .. Len(block.parameters)
    BY <2>1, PartsOfBlock
  <2> QED
    BY <2>1, <2>2, ValuesAt, Zenon
<1>2. CASE \E m \in 1 .. count : Produces(block.actions[m]) /\ value = block.actions[m].output
  <2>1. PICK m \in 1 .. count : Produces(block.actions[m]) /\ value = block.actions[m].output
    BY <1>2
  <2>2. m \in 1 .. Len(block.actions)
    BY PartsOfBlock
  <2> QED
    BY <2>1, <2>2, ValuesAt, Zenon
<1> QED
  BY <1>1, <1>2, Zenon DEF FirstValues

\* Every name the verifier finds available is one of the function's values.
LEMMA AvailableNamed ==
    ASSUME NEW function \in MachineFunction, NEW b \in 1 .. Len(function.blocks),
           NEW n \in 1 .. (Len(function.blocks[b].actions) + 1),
           NEW id \in DOMAIN Available(function.blocks[b], n)
    PROVE  \E i \in 1 .. Len(AllValues(function)) : AllValues(function)[i].id = id
<1>1. function.blocks[b] \in MachineBlock
  BY BlockParts
<1>2. n - 1 \in 0 .. Len(function.blocks[b].actions)
  BY <1>1, PartsOfBlock
<1>3. PICK value \in FirstValues(function.blocks[b], n - 1) : value.id = id
  <2>1. DOMAIN Available(function.blocks[b], n)
            = {value.id : value \in FirstValues(function.blocks[b], n - 1)}
    BY AvailableDomain
  <2> QED
    BY <2>1
<1>4. PICK k \in 1 .. Len(ValuesOf(function.blocks[b])) :
              ValuesOf(function.blocks[b])[k] = value
  BY <1>1, <1>2, <1>3, FirstValuesIn, Zenon
<1>5. /\ PlaceOfValue(function, b, k) \in 1 .. Len(AllValues(function))
      /\ AllValues(function)[PlaceOfValue(function, b, k)] = value
  BY <1>4, AllValuesAt, Zenon
<1> QED
  BY <1>3, <1>5, Zenon

-----------------------------------------------------------------------------
(***************************************************************************)
(* Drafts: what the emitter changes, and what it leaves alone.             *)
(***************************************************************************)

\* The draft has the same names, and the same items emitted, as another.
Keeps(before, after) ==
    /\ DOMAIN after = DraftFields
    /\ after.items = before.items
    /\ after.bindings = before.bindings

\* Emission adds nodes and may overflow, no more.
LEMMA EmitKeeps ==
    ASSUME NEW d, DOMAIN d = DraftFields, NEW nodes
    PROVE  Keeps(d, Emit(d, nodes))
<1>1. \/ \E more : Emit(d, nodes) = [d EXCEPT !.nodes = more]
      \/ \E more : Emit(d, nodes) = [d EXCEPT !.nodes = more, !.overflowed = TRUE]
  BY DEF Emit
<1>2. ASSUME NEW more PROVE Keeps(d, [d EXCEPT !.nodes = more])
  BY DEF Keeps, DraftFields
<1>3. ASSUME NEW more PROVE Keeps(d, [d EXCEPT !.nodes = more, !.overflowed = TRUE])
  BY DEF Keeps, DraftFields
<1> QED
  BY <1>1, <1>2, <1>3, Zenon

\* Reading a value adds nodes only.
LEMMA ReconstructKeeps ==
    ASSUME NEW d, DOMAIN d = DraftFields, NEW value
    PROVE  Keeps(d, Reconstruct(d, value))
<1>1. \E nodes : Reconstruct(d, value) = Emit(d, nodes)
  BY Zenon DEF Reconstruct
<1> QED
  BY <1>1, EmitKeeps, Zenon

\* Staging a value adds nodes and writes only.
LEMMA StageWriteKeeps ==
    ASSUME NEW d, DOMAIN d = DraftFields, NEW value, NEW logical, NEW semantic, NEW history,
           NEW salt
    PROVE  Keeps(d, StageWrite(d, value, logical, semantic, history, salt))
<1>1. PICK nodes, writes :
          StageWrite(d, value, logical, semantic, history, salt)
              = [Emit(d, nodes) EXCEPT !.carrier_writes = Emit(d, nodes).carrier_writes \o writes]
  BY ZenonT(40) DEF StageWrite
<1>2. PICK emitted, more :
          /\ Keeps(d, emitted)
          /\ StageWrite(d, value, logical, semantic, history, salt)
                 = [emitted EXCEPT !.carrier_writes = more]
  BY <1>1, EmitKeeps, Zenon
<1> QED
  BY <1>2 DEF Keeps, DraftFields

\* emplace binds its key, and drops none.
LEMMA EmplacedDomain ==
    ASSUME NEW map, NEW key, NEW value
    PROVE  DOMAIN Emplaced(map, key, value) = DOMAIN map \cup {key}
BY DEF Emplaced

\* Folding counts the item.
LEMMA FoldedCounts ==
    ASSUME NEW d, DOMAIN d = DraftFields, NEW logical, NEW salt
    PROVE  /\ DOMAIN Folded(d, logical, salt) = DraftFields
           /\ Folded(d, logical, salt).items = d.items + 1
           /\ Folded(d, logical, salt).bindings = d.bindings
<1>1. PICK nodes, fold :
          Folded(d, logical, salt)
              = [Emit(d, nodes) EXCEPT !.last = logical, !.fold = fold, !.items = @ + 1]
  BY Zenon DEF Folded
<1>2. PICK emitted :
          /\ Keeps(d, emitted)
          /\ Folded(d, logical, salt)
                 = [emitted EXCEPT !.last = logical, !.fold = fold, !.items = @ + 1]
  BY <1>1, EmitKeeps, Zenon
<1> QED
  BY <1>2 DEF Keeps, DraftFields

\* An action that produces a value binds its name, a store binds nothing.
LEMMA LoweredBinds ==
    ASSUME NEW d, DOMAIN d = DraftFields, NEW action
    PROVE  /\ DOMAIN Lowered(d, action) = DraftFields
           /\ Lowered(d, action).items = d.items + 1
           /\ DOMAIN Lowered(d, action).bindings
                  = DOMAIN d.bindings
                        \cup (IF Produces(action) THEN {action.output.id} ELSE {})
<1> DEFINE nodes == ActionNodes(d, action)
           logical == IdAt(d, Len(nodes) - 1)
           emitted == Emit(d, nodes)
           bound == [emitted EXCEPT !.bindings = Emplaced(@, action.output.id, logical)]
           stored == [emitted EXCEPT !.memory_writes =
                         Append(@, WriteM(action.immediate, d.bindings[action.operands[1]],
                                          d.bindings[action.operands[2]]))]
<1>1. Keeps(d, emitted)
  BY EmitKeeps, Zenon
<1>2. /\ DOMAIN bound = DraftFields /\ bound.items = d.items
      /\ DOMAIN bound.bindings = DOMAIN d.bindings \cup {action.output.id}
  <2> HIDE DEF emitted, logical
  <2>1. bound.bindings = Emplaced(d.bindings, action.output.id, logical)
    BY <1>1 DEF Keeps, DraftFields
  <2>2. DOMAIN bound = DraftFields /\ bound.items = d.items
    BY <1>1 DEF Keeps, DraftFields
  <2>3. DOMAIN Emplaced(d.bindings, action.output.id, logical)
            = DOMAIN d.bindings \cup {action.output.id}
    BY EmplacedDomain
  <2> HIDE DEF bound
  <2> QED
    BY <2>1, <2>2, <2>3
<1>3. Keeps(d, stored)
  <2> HIDE DEF emitted
  <2> QED
    BY <1>1 DEF Keeps, DraftFields
<1>4. PICK salt, writing :
          Lowered(d, action) =
              Folded(IF Produces(action)
                     THEN StageWrite(bound, values[action.output.id], logical, d.semantic,
                                     d.history, writing)
                     ELSE stored, logical, salt)
  BY Zenon DEF Lowered
<1> HIDE DEF bound, stored, emitted, logical
<1>5. CASE Produces(action)
  <2>1. PICK staged : /\ Keeps(bound, staged)
                      /\ Lowered(d, action) = Folded(staged, logical, salt)
    BY <1>2, <1>4, <1>5, StageWriteKeeps, Zenon
  <2>2. DOMAIN staged = DraftFields
    BY <2>1, Zenon DEF Keeps
  <2>3. /\ DOMAIN Folded(staged, logical, salt) = DraftFields
        /\ Folded(staged, logical, salt).items = staged.items + 1
        /\ Folded(staged, logical, salt).bindings = staged.bindings
    BY <2>2, FoldedCounts
  <2> QED
    BY <1>2, <1>5, <2>1, <2>3 DEF Keeps
<1>6. CASE ~ Produces(action)
  <2>1. Lowered(d, action) = Folded(stored, logical, salt)
    BY <1>4, <1>6, Zenon
  <2>2. DOMAIN stored = DraftFields
    BY <1>3, Zenon DEF Keeps
  <2>3. /\ DOMAIN Folded(stored, logical, salt) = DraftFields
        /\ Folded(stored, logical, salt).items = stored.items + 1
        /\ Folded(stored, logical, salt).bindings = stored.bindings
    BY <2>2, FoldedCounts
  <2> QED
    BY <1>3, <1>6, <2>1, <2>3 DEF Keeps
<1> QED
  BY <1>5, <1>6

\* upTo gives the draft after each number of parameters.
IsReading(upTo, d, parameters) ==
    upTo = [n \in 0 .. Len(parameters) |->
               IF n = 0 THEN d ELSE WithParameter(upTo[n - 1], parameters[n])]

Reading(d, parameters) == CHOOSE upTo : IsReading(upTo, d, parameters)

\* There is such a function, by the number of parameters read.
LEMMA ReadingExists ==
    ASSUME NEW d, NEW parameters, Len(parameters) \in Nat
    PROVE  \E upTo : IsReading(upTo, d, parameters)
<1> DEFINE N == Len(parameters)
           Body(g, n) == IF n = 0 THEN d ELSE WithParameter(g[n - 1], parameters[n])
           Solves(g, k) == g = [n \in 0 .. k |-> Body(g, n)]
           Solved == {k \in 0 .. N : \E g : Solves(g, k)}
<1>1. 0 \in Solved
  <2> DEFINE g == [n \in 0 .. 0 |-> d]
  <2>1. \A n \in 0 .. 0 : Body(g, n) = d
    OBVIOUS
  <2>2. Solves(g, 0)
    <3> HIDE DEF Body
    <3> QED
      BY <2>1
  <2> HIDE DEF g, Solves
  <2> QED
    BY <2>2
<1>2. ASSUME NEW k \in 1 .. N, k - 1 \in Solved PROVE k \in Solved
  <2>1. PICK g : Solves(g, k - 1)
    BY <1>2
  <2> DEFINE h == [n \in 0 .. k |-> Body(g, n)]
  <2>2. ASSUME NEW n \in 0 .. (k - 1) PROVE h[n] = g[n]
    <3> HIDE DEF Body
    <3> QED
      BY <2>1
  <2>3. ASSUME NEW n \in 0 .. k PROVE Body(h, n) = Body(g, n)
    <3> HIDE DEF h
    <3>1. n = 0 \/ h[n - 1] = g[n - 1]
      BY <2>2
    <3> QED
      BY <3>1
  <2>4. Solves(h, k)
    <3> HIDE DEF Body
    <3> QED
      BY <2>3
  <2> HIDE DEF h, Solves
  <2> QED
    BY <2>4
<1> HIDE DEF Solves
<1>3. Solved \in SUBSET (0 .. N)
  OBVIOUS
<1>4. N \in Solved
  <2> HIDE DEF Solved
  <2> QED
    BY <1>1, <1>2, <1>3, UpTo
<1>5. PICK g : Solves(g, N)
  BY <1>4
<1> QED
  BY <1>5 DEF IsReading, Solves

\* An island that starts has the names of its block's parameters.
LEMMA ParametersBound ==
    ASSUME NEW d, DOMAIN d = DraftFields, DOMAIN d.bindings = {},
           NEW parameters \in Seq(IrValue)
    PROVE  /\ DOMAIN WithParameters(d, parameters) = DraftFields
           /\ WithParameters(d, parameters).items = d.items
           /\ DOMAIN WithParameters(d, parameters).bindings
                  = {parameters[i].id : i \in 1 .. Len(parameters)}
<1>1. PICK N \in Nat : N = Len(parameters)
  OBVIOUS
<1>2. IsReading(Reading(d, parameters), d, parameters)
  <2>1. Len(parameters) \in Nat
    OBVIOUS
  <2>2. \E upTo : IsReading(upTo, d, parameters)
    BY <2>1, ReadingExists, Zenon
  <2> QED
    BY <2>2, Zenon DEF Reading
<1>3. WithParameters(d, parameters) = Reading(d, parameters)[Len(parameters)]
  BY Zenon DEF WithParameters, Reading, IsReading
<1>4. PICK upTo : upTo = Reading(d, parameters)
  OBVIOUS
<1>5. \A n \in 0 .. N :
          upTo[n] = IF n = 0 THEN d ELSE WithParameter(upTo[n - 1], parameters[n])
  BY <1>1, <1>2, <1>4, Zenon DEF IsReading
<1> DEFINE Good(n) == /\ DOMAIN upTo[n] = DraftFields
                      /\ upTo[n].items = d.items
                      /\ DOMAIN upTo[n].bindings = {parameters[i].id : i \in 1 .. n}
           Holding == {n \in 0 .. N : Good(n)}
<1>6. Good(0)
  <2>1. upTo[0] = d
    BY <1>5
  <2>2. {parameters[i].id : i \in 1 .. 0} = {}
    OBVIOUS
  <2> QED
    BY <2>1, <2>2
<1>7. ASSUME NEW n \in 1 .. N, Good(n - 1) PROVE Good(n)
  <2>1. PICK before : before = upTo[n - 1]
    OBVIOUS
  <2>2. n \in 0 .. N /\ n # 0
    OBVIOUS
  <2>3. upTo[n] = WithParameter(before, parameters[n])
    BY <1>5, <2>1, <2>2, Zenon
  <2>4. DOMAIN before = DraftFields
    BY <1>7, <2>1
  <2>5. Keeps(before, Reconstruct(before, values[parameters[n].id]))
    BY <2>4, ReconstructKeeps
  <2>6. PICK read, node : /\ Keeps(before, read)
                          /\ upTo[n] = [read EXCEPT
                                 !.bindings = Emplaced(@, parameters[n].id, node)]
    BY <2>3, <2>5, Zenon DEF WithParameter
  <2>7. /\ DOMAIN upTo[n] = DraftFields /\ upTo[n].items = before.items
        /\ upTo[n].bindings = Emplaced(before.bindings, parameters[n].id, node)
    BY <2>6 DEF Keeps, DraftFields
  <2>8. DOMAIN Emplaced(before.bindings, parameters[n].id, node)
            = DOMAIN before.bindings \cup {parameters[n].id}
    BY EmplacedDomain
  <2>9. {parameters[i].id : i \in 1 .. n}
            = {parameters[i].id : i \in 1 .. (n - 1)} \cup {parameters[n].id}
    <3>1. 1 .. n = (1 .. (n - 1)) \cup {n}
      OBVIOUS
    <3> QED
      BY <3>1
  <2> QED
    BY <1>7, <2>1, <2>7, <2>8, <2>9
<1>8. Holding \in SUBSET (0 .. N) /\ 0 \in Holding
  BY <1>6
<1>9. ASSUME NEW n \in 1 .. N, n - 1 \in Holding PROVE n \in Holding
  <2> HIDE DEF Good
  <2> QED
    BY <1>7, <1>9
<1>10. N \in Holding
  <2> HIDE DEF Holding
  <2>1. Holding = 0 .. N
    BY <1>8, <1>9, UpTo, Zenon
  <2> QED
    BY <2>1
<1>11. Good(N)
  <2> HIDE DEF Good
  <2> QED
    BY <1>10
<1> QED
  BY <1>1, <1>3, <1>4, <1>11

\* What the first action may use is what the island starts with.
LEMMA AvailableFirst ==
    ASSUME NEW block \in MachineBlock
    PROVE  DOMAIN Available(block, 1) = {block.parameters[i].id : i \in 1 .. Len(block.parameters)}
<1>1. DOMAIN block.parameters = 1 .. Len(block.parameters)
  BY PartsOfBlock
<1>2. FirstValues(block, 0) = {block.parameters[i] : i \in 1 .. Len(block.parameters)}
  <2>1. {m \in 1 .. 0 : Produces(block.actions[m])} = {}
    OBVIOUS
  <2> QED
    BY <1>1, <2>1 DEF FirstValues
<1>3. DOMAIN Available(block, 1) = {value.id : value \in FirstValues(block, 0)}
  <2>1. 1 - 1 = 0
    OBVIOUS
  <2> QED
    BY <2>1, AvailableDomain, Zenon
<1> QED
  BY <1>2, <1>3

\* What the next action may use is what this one might, and what it produces.
LEMMA AvailableNext ==
    ASSUME NEW block \in MachineBlock, NEW n \in 1 .. Len(block.actions)
    PROVE  DOMAIN Available(block, n + 1)
               = DOMAIN Available(block, n)
                     \cup (IF Produces(block.actions[n]) THEN {block.actions[n].output.id} ELSE {})
<1>1. n \in Nat \ {0}
  BY PartsOfBlock
<1>2. 1 .. n = (1 .. (n - 1)) \cup {n} /\ (n + 1) - 1 = n
  BY <1>1
<1> DEFINE produced == IF Produces(block.actions[n]) THEN {block.actions[n].output} ELSE {}
<1>3. FirstValues(block, n) = FirstValues(block, n - 1) \cup produced
  <2>1. {m \in 1 .. n : Produces(block.actions[m])}
            = {m \in 1 .. (n - 1) : Produces(block.actions[m])}
                  \cup (IF Produces(block.actions[n]) THEN {n} ELSE {})
    BY <1>2
  <2>2. CASE Produces(block.actions[n])
    BY <2>1, <2>2 DEF FirstValues
  <2>3. CASE ~ Produces(block.actions[n])
    BY <2>1, <2>3 DEF FirstValues
  <2> QED
    BY <2>2, <2>3
<1>4. /\ DOMAIN Available(block, n + 1) = {value.id : value \in FirstValues(block, n)}
      /\ DOMAIN Available(block, n) = {value.id : value \in FirstValues(block, n - 1)}
  BY <1>2, AvailableDomain, Zenon
<1>5. CASE Produces(block.actions[n])
  BY <1>3, <1>4, <1>5
<1>6. CASE ~ Produces(block.actions[n])
  BY <1>3, <1>4, <1>6
<1> QED
  BY <1>5, <1>6

-----------------------------------------------------------------------------
\* Every edge is one of a block, in its place.
LEMMA FunctionEdgesAt ==
    ASSUME function_ \in MachineFunction
    PROVE  /\ FunctionEdges \in Seq(EdgeType)
           /\ \A k \in 1 .. Len(FunctionEdges) :
                  \E b \in 1 .. BlockCount : \E e \in 1 .. Len(EdgesOf(Blocks[b])) :
                      /\ FunctionEdges[k].source = b
                      /\ FunctionEdges[k].target = EdgesOf(Blocks[b])[e].target
                      /\ FunctionEdges[k].arguments = EdgesOf(Blocks[b])[e].arguments
<1> DEFINE edge(b, e) == [source |-> b, target |-> EdgesOf(Blocks[b])[e].target,
                          arguments |-> EdgesOf(Blocks[b])[e].arguments]
           ofBlock(b) == [e \in 1 .. Len(EdgesOf(Blocks[b])) |-> edge(b, e)]
           byBlock == [b \in 1 .. BlockCount |-> ofBlock(b)]
<1>1. BlockCount \in Nat
  BY DEF MachineFunction, BlockCount, Blocks
<1>2. ASSUME NEW b \in 1 .. BlockCount
      PROVE  /\ Len(EdgesOf(Blocks[b])) \in Nat
             /\ \A e \in 1 .. Len(EdgesOf(Blocks[b])) : edge(b, e) \in EdgeType
  <2>1. Blocks[b] \in MachineBlock
    BY BlockParts, Zenon DEF Blocks, BlockCount
  <2>2. /\ EdgesOf(Blocks[b]) \in Seq(BlockEdge)
        /\ \A e \in 1 .. Len(EdgesOf(Blocks[b])) :
               /\ EdgesOf(Blocks[b])[e].target \in Nat
               /\ EdgesOf(Blocks[b])[e].arguments \in Seq(Nat)
    BY <2>1, EdgesTyped
  <2>3. Len(EdgesOf(Blocks[b])) \in Nat /\ b \in Nat
    BY <1>1, <2>2
  <2> QED
    BY <2>2, <2>3 DEF EdgeType
<1>3. ASSUME NEW b \in 1 .. BlockCount PROVE ofBlock(b) \in Seq(EdgeType)
  <2> HIDE DEF edge
  <2> QED
    BY <1>2
<1>4. /\ byBlock \in Seq(Seq(EdgeType)) /\ Len(byBlock) = BlockCount
      /\ \A b \in 1 .. BlockCount : byBlock[b] = ofBlock(b)
  <2> HIDE DEF ofBlock
  <2> QED
    BY <1>1, <1>3
<1>5. FunctionEdges = Seqs!FlattenSeq(byBlock)
  BY Zenon DEF FunctionEdges
<1>6. Joined(FunctionEdges, EdgeType, byBlock, Starts(byBlock), BlockCount)
  <2> HIDE DEF byBlock
  <2> QED
    BY <1>4, <1>5, Flattened, Zenon
<1>7. ASSUME NEW k \in 1 .. Len(FunctionEdges)
      PROVE  \E b \in 1 .. BlockCount : \E e \in 1 .. Len(EdgesOf(Blocks[b])) :
                 FunctionEdges[k] = edge(b, e)
  <2>1. PICK b \in 1 .. BlockCount : \E e \in 1 .. Len(byBlock[b]) :
                /\ k = Starts(byBlock)[b - 1] + e
                /\ FunctionEdges[k] = byBlock[b][e]
    <3> HIDE DEF byBlock
    <3>1. /\ Len(FunctionEdges) = Starts(byBlock)[BlockCount]
          /\ \A b \in 1 .. BlockCount : \A e \in 1 .. Len(byBlock[b]) :
                 FunctionEdges[Starts(byBlock)[b - 1] + e] = byBlock[b][e]
          /\ \A i \in 1 .. Starts(byBlock)[BlockCount] :
                 \E b \in 1 .. BlockCount : \E e \in 1 .. Len(byBlock[b]) :
                     i = Starts(byBlock)[b - 1] + e
      BY <1>6, Zenon DEF Joined
    <3>2. PICK b \in 1 .. BlockCount : \E e \in 1 .. Len(byBlock[b]) :
                  k = Starts(byBlock)[b - 1] + e
      BY <3>1, Zenon
    <3> QED
      BY <3>1, <3>2, Zenon
  <2>2. PICK e \in 1 .. Len(byBlock[b]) : FunctionEdges[k] = byBlock[b][e]
    BY <2>1
  <2>3. Len(byBlock[b]) = Len(EdgesOf(Blocks[b]))
    <3> HIDE DEF byBlock, edge
    <3> QED
      BY <1>2, <1>4
  <2>4. e \in 1 .. Len(EdgesOf(Blocks[b]))
    BY <2>2, <2>3, Zenon
  <2>5. byBlock[b][e] = edge(b, e)
    <3> HIDE DEF byBlock, edge
    <3> QED
      BY <1>4, <2>4
  <2> QED
    BY <2>2, <2>4, <2>5, Zenon
<1>8. ASSUME NEW k \in 1 .. Len(FunctionEdges)
      PROVE  \E b \in 1 .. BlockCount : \E e \in 1 .. Len(EdgesOf(Blocks[b])) :
                 /\ FunctionEdges[k].source = b
                 /\ FunctionEdges[k].target = EdgesOf(Blocks[b])[e].target
                 /\ FunctionEdges[k].arguments = EdgesOf(Blocks[b])[e].arguments
  <2>1. PICK b \in 1 .. BlockCount : \E e \in 1 .. Len(EdgesOf(Blocks[b])) :
                FunctionEdges[k] = edge(b, e)
    BY <1>7, Zenon
  <2>2. PICK e \in 1 .. Len(EdgesOf(Blocks[b])) : FunctionEdges[k] = edge(b, e)
    BY <2>1, Zenon
  <2>3. /\ edge(b, e).source = b
        /\ edge(b, e).target = EdgesOf(Blocks[b])[e].target
        /\ edge(b, e).arguments = EdgesOf(Blocks[b])[e].arguments
    OBVIOUS
  <2> HIDE DEF edge
  <2> QED
    BY <2>2, <2>3, Zenon
<1> QED
  BY <1>6, <1>8, Zenon DEF Joined

-----------------------------------------------------------------------------
(***************************************************************************)
(* The origins of a function, by their places.                             *)
(***************************************************************************)

OriginsInBlock(block) ==
    <<block.origin>>
        \o [n \in 1 .. Len(block.parameters) |-> block.parameters[n].origin]
        \o [n \in 1 .. Len(block.actions) |-> action_origin(block.actions[n])]

OriginsByBlock(function) ==
    [b \in 1 .. Len(function.blocks) |-> OriginsInBlock(function.blocks[b])]

\* The block's origin is the first, its parameters' and its actions' follow.
LEMMA OriginsInBlockAt ==
    ASSUME NEW block \in MachineBlock
    PROVE  /\ OriginsInBlock(block) \in Seq(Nat)
           /\ Len(block.parameters) \in Nat /\ Len(block.actions) \in Nat
           /\ Len(OriginsInBlock(block)) = 1 + Len(block.parameters) + Len(block.actions)
           /\ OriginsInBlock(block)[1] = block.origin
           /\ \A i \in 1 .. Len(block.parameters) :
                  OriginsInBlock(block)[1 + i] = block.parameters[i].origin
           /\ \A n \in 1 .. Len(block.actions) :
                  OriginsInBlock(block)[1 + Len(block.parameters) + n]
                      = action_origin(block.actions[n])
<1> DEFINE P == Len(block.parameters)
           A == Len(block.actions)
           parameters == [n \in 1 .. P |-> block.parameters[n].origin]
           actions == [n \in 1 .. A |-> action_origin(block.actions[n])]
           first == <<block.origin>>
<1>1. P \in Nat /\ A \in Nat /\ block.origin \in Nat
  BY PartsOfBlock
<1>2. ASSUME NEW n \in 1 .. P PROVE block.parameters[n].origin \in Nat
  <2>1. block.parameters[n] \in IrValue
    BY PartsOfBlock
  <2> QED
    BY <2>1 DEF IrValue
<1>3. ASSUME NEW n \in 1 .. A PROVE action_origin(block.actions[n]) \in Nat
  <2>1. block.actions[n] \in TypedAction
    BY PartsOfBlock
  <2> QED
    BY <2>1, PartsOfAction, Zenon
<1>4. OriginsInBlock(block) = (first \o parameters) \o actions
  BY Zenon DEF OriginsInBlock
<1>5. first \in Seq(Nat) /\ Len(first) = 1 /\ first[1] = block.origin
  BY <1>1
<1>6. /\ parameters \in Seq(Nat) /\ Len(parameters) = P
      /\ \A n \in 1 .. P : parameters[n] = block.parameters[n].origin
  <2> HIDE DEF P
  <2> QED
    BY <1>1, <1>2
<1>7. /\ actions \in Seq(Nat) /\ Len(actions) = A
      /\ \A n \in 1 .. A : actions[n] = action_origin(block.actions[n])
  <2> HIDE DEF A
  <2> QED
    BY <1>1, <1>3
<1> HIDE DEF parameters, actions, first, P, A
<1>8. /\ first \o parameters \in Seq(Nat)
      /\ Len(first \o parameters) = 1 + P
      /\ \A k \in 1 .. 1 : (first \o parameters)[k] = first[k]
      /\ \A e \in 1 .. P : (first \o parameters)[1 + e] = parameters[e]
  <2>1. first \in Seq(Nat) /\ parameters \in Seq(Nat)
    BY <1>5, <1>6
  <2>2. /\ first \o parameters \in Seq(Nat)
        /\ Len(first \o parameters) = Len(first) + Len(parameters)
        /\ \A k \in 1 .. Len(first) : (first \o parameters)[k] = first[k]
        /\ \A e \in 1 .. Len(parameters) :
               (first \o parameters)[Len(first) + e] = parameters[e]
    BY <2>1, Concatenated
  <2> QED
    BY <1>5, <1>6, <2>2, Zenon
<1>9. PICK front \in Seq(Nat) : front = first \o parameters
  BY <1>8
<1>10. /\ OriginsInBlock(block) \in Seq(Nat)
       /\ Len(OriginsInBlock(block)) = Len(front) + A
       /\ \A k \in 1 .. Len(front) : OriginsInBlock(block)[k] = front[k]
       /\ \A e \in 1 .. A : OriginsInBlock(block)[Len(front) + e] = actions[e]
  <2>1. /\ front \o actions \in Seq(Nat)
        /\ Len(front \o actions) = Len(front) + Len(actions)
        /\ \A k \in 1 .. Len(front) : (front \o actions)[k] = front[k]
        /\ \A e \in 1 .. Len(actions) : (front \o actions)[Len(front) + e] = actions[e]
    <3>1. actions \in Seq(Nat)
      BY <1>7
    <3> QED
      BY <3>1, Concatenated
  <2> QED
    BY <1>4, <1>7, <1>9, <2>1, Zenon
<1>11. Len(front) = 1 + P
  BY <1>8, <1>9
<1>12. OriginsInBlock(block)[1] = block.origin
  <2>1. 1 \in 1 .. Len(front) /\ 1 \in 1 .. 1
    BY <1>1, <1>11
  <2> QED
    BY <1>5, <1>8, <1>9, <1>10, <2>1, Zenon
<1>13. ASSUME NEW i \in 1 .. P PROVE OriginsInBlock(block)[1 + i] = block.parameters[i].origin
  <2>1. 1 + i \in 1 .. Len(front)
    BY <1>1, <1>11
  <2> QED
    BY <1>6, <1>8, <1>9, <1>10, <2>1, Zenon
<1>14. \A n \in 1 .. A : OriginsInBlock(block)[1 + P + n] = action_origin(block.actions[n])
  BY <1>7, <1>10, <1>11, Zenon
<1>15. Len(OriginsInBlock(block)) = 1 + P + A
  BY <1>10, <1>11
<1> QED
  BY <1>1, <1>10, <1>12, <1>13, <1>14, <1>15, Zenon DEF P, A

\* The origins of a function are those of its blocks, joined.
LEMMA OriginsAt ==
    ASSUME NEW function \in MachineFunction
    PROVE  /\ Len(function.blocks) \in Nat
           /\ OriginsByBlock(function) \in Seq(Seq(Nat))
           /\ Len(OriginsByBlock(function)) = Len(function.blocks)
           /\ \A b \in 1 .. Len(function.blocks) :
                  OriginsByBlock(function)[b] = OriginsInBlock(function.blocks[b])
           /\ Joined(OriginsOf(function), Nat, OriginsByBlock(function),
                     Starts(OriginsByBlock(function)), Len(function.blocks))
<1> DEFINE count == Len(function.blocks)
           byBlock == OriginsByBlock(function)
<1>1. count \in Nat
  BY DEF MachineFunction
<1>2. \A b \in 1 .. count : OriginsInBlock(function.blocks[b]) \in Seq(Nat)
  BY BlockParts, OriginsInBlockAt, Zenon
<1>3. /\ byBlock \in Seq(Seq(Nat)) /\ Len(byBlock) = count
      /\ \A b \in 1 .. count : byBlock[b] = OriginsInBlock(function.blocks[b])
  <2> HIDE DEF count
  <2> QED
    BY <1>1, <1>2 DEF OriginsByBlock, count
<1>4. OriginsOf(function) = Seqs!FlattenSeq(byBlock)
  BY Zenon DEF OriginsOf, OriginsByBlock, OriginsInBlock
<1>5. Joined(OriginsOf(function), Nat, byBlock, Starts(byBlock), count)
  BY <1>3, <1>4, Flattened, Zenon
<1> QED
  BY <1>1, <1>3, <1>5

\* The origin of a block, a parameter or an action is at its place among them.
PlaceOfOrigin(function, b, n) == Starts(OriginsByBlock(function))[b - 1] + n

\* Each origin is found at its place.
LEMMA OriginAtPlace ==
    ASSUME NEW function \in MachineFunction, NEW b \in 1 .. Len(function.blocks),
           NEW n \in 1 .. Len(OriginsInBlock(function.blocks[b]))
    PROVE  /\ PlaceOfOrigin(function, b, n) \in 1 .. Len(OriginsOf(function))
           /\ OriginsOf(function)[PlaceOfOrigin(function, b, n)]
                  = OriginsInBlock(function.blocks[b])[n]
<1> DEFINE byBlock == OriginsByBlock(function)
           start == Starts(byBlock)
<1>1. byBlock[b] = OriginsInBlock(function.blocks[b])
  BY OriginsAt
<1>2. Joined(OriginsOf(function), Nat, byBlock, start, Len(function.blocks))
  BY OriginsAt
<1>3. /\ Len(OriginsOf(function)) = start[Len(function.blocks)]
      /\ \A c \in 1 .. Len(function.blocks) : \A e \in 1 .. Len(byBlock[c]) :
             /\ start[c - 1] + e \in 1 .. start[Len(function.blocks)]
             /\ OriginsOf(function)[start[c - 1] + e] = byBlock[c][e]
  BY <1>2, Zenon DEF Joined
<1> QED
  BY <1>1, <1>3, Zenon DEF PlaceOfOrigin

\* The greatest origin is greater than none.
LEMMA MaximumIsGreatest ==
    ASSUME function_ \in MachineFunction, function_.blocks # << >>
    PROVE  /\ MaximumOrigin \in {OriginsOf(function_)[n] : n \in DOMAIN OriginsOf(function_)}
           /\ \A n \in 1 .. Len(OriginsOf(function_)) :
                  OriginsOf(function_)[n] \in Nat /\ OriginsOf(function_)[n] <= MaximumOrigin
<1> DEFINE origins == OriginsOf(function_)
           set == {origins[n] : n \in DOMAIN origins}
<1>1. origins \in Seq(Nat) /\ Len(origins) \in Nat /\ DOMAIN origins = 1 .. Len(origins)
  <2>1. origins \in Seq(Nat)
    BY OriginsAt, Zenon DEF Joined
  <2> HIDE DEF origins
  <2> QED
    BY <2>1
<1>2. set \in SUBSET Nat
  BY <1>1
<1>3. \E n \in DOMAIN origins : TRUE
  <2>1. 1 \in 1 .. Len(function_.blocks)
    BY DEF MachineFunction
  <2>2. function_.blocks[1] \in MachineBlock
    BY <2>1, BlockParts
  <2>3. 1 \in 1 .. Len(OriginsInBlock(function_.blocks[1]))
    <3>1. PICK P \in Nat, A \in Nat :
              Len(OriginsInBlock(function_.blocks[1])) = 1 + P + A
      BY <2>2, OriginsInBlockAt, Zenon
    <3> QED
      BY <3>1
  <2> QED
    BY <1>1, <2>1, <2>3, OriginAtPlace, Zenon
<1>4. set # {}
  BY <1>3
<1>5. \E m \in set : \A n \in set : n <= m
  <2>1. ASSUME NEW k \in 0 .. Len(origins)
        PROVE  k = 0 \/ \E m \in 1 .. k : \A n \in 1 .. k : origins[n] <= origins[m]
    <3> DEFINE Holding == {i \in 0 .. Len(origins) :
                              i = 0 \/ \E m \in 1 .. i : \A n \in 1 .. i : origins[n] <= origins[m]}
    <3>1. Holding \in SUBSET (0 .. Len(origins)) /\ 0 \in Holding
      BY <1>1
    <3>2. ASSUME NEW i \in 1 .. Len(origins), i - 1 \in Holding PROVE i \in Holding
      <4> HIDE DEF origins
      <4>0. \A n \in 1 .. Len(origins) : origins[n] \in Nat
        BY <1>1
      <4>1. CASE i = 1
        <5>1. \A n \in 1 .. 1 : origins[n] <= origins[1]
          BY <4>0, <4>1
        <5> QED
          BY <4>1, <5>1
      <4>2. CASE i # 1
        <5>1. PICK m \in 1 .. (i - 1) : \A n \in 1 .. (i - 1) : origins[n] <= origins[m]
          BY <3>2, <4>2
        <5>2. CASE origins[i] <= origins[m]
          <6>1. \A n \in 1 .. i : origins[n] <= origins[m]
            BY <5>1, <5>2
          <6> QED
            BY <6>1
        <5>3. CASE ~ (origins[i] <= origins[m])
          <6>1. \A n \in 1 .. i : origins[n] <= origins[i]
            BY <4>0, <5>1, <5>3
          <6> QED
            BY <6>1
        <5> QED
          BY <5>2, <5>3
      <4> QED
        BY <4>1, <4>2
    <3>3. Holding = 0 .. Len(origins)
      <4> HIDE DEF Holding
      <4> QED
        BY <1>1, <3>1, <3>2, UpTo, Zenon
    <3> QED
      BY <3>3
  <2>2. Len(origins) # 0
    BY <1>1, <1>3
  <2>3. PICK m \in 1 .. Len(origins) : \A n \in 1 .. Len(origins) : origins[n] <= origins[m]
    <3>1. Len(origins) \in 0 .. Len(origins)
      BY <1>1
    <3> QED
      BY <2>1, <2>2, <3>1, Zenon
  <2> HIDE DEF origins
  <2> QED
    BY <1>1, <2>3
<1>6. MaximumOrigin \in set /\ \A n \in set : n <= MaximumOrigin
  <2>1. MaximumOrigin = CHOOSE m \in set : \A n \in set : n <= m
    BY Zenon DEF MaximumOrigin
  <2> HIDE DEF set
  <2> QED
    BY <1>5, <2>1, Zenon
<1> QED
  BY <1>1, <1>6

-----------------------------------------------------------------------------
(***************************************************************************)
(* The invariant holds at the start, and every step keeps it.              *)
(***************************************************************************)

\* Sequences of anything.
LEMMA EmptyIsSequence == IsSequence(<< >>) /\ Len(<< >>) = 0
BY DEF IsSequence

\* A sequence with one more element is one.
LEMMA AppendIsSequence ==
    ASSUME NEW s, IsSequence(s), NEW e
    PROVE  IsSequence(Append(s, e)) /\ Len(s) \in Nat /\ Len(Append(s, e)) = Len(s) + 1
<1> DEFINE T == {s[i] : i \in DOMAIN s} \cup {e}
           longer == Append(s, e)
<1>1. s \in Seq(T) /\ e \in T
  BY DEF IsSequence
<1> HIDE DEF T
<1>2. /\ longer \in Seq(T) /\ Len(longer) = Len(s) + 1 /\ Len(s) \in Nat
      /\ DOMAIN longer = 1 .. Len(longer)
  BY <1>1
<1> HIDE DEF longer
<1>3. longer \in Seq({longer[i] : i \in DOMAIN longer})
  BY <1>2
<1> QED
  BY <1>2, <1>3 DEF IsSequence, longer

\* Two sequences in one are one.
LEMMA ConcatenationIsSequence ==
    ASSUME NEW s, IsSequence(s), NEW t, IsSequence(t)
    PROVE  IsSequence(s \o t)
<1> DEFINE T == {s[i] : i \in DOMAIN s} \cup {t[i] : i \in DOMAIN t}
           longer == s \o t
<1>1. s \in Seq(T) /\ t \in Seq(T)
  BY DEF IsSequence
<1> HIDE DEF T
<1>2. longer \in Seq(T) /\ DOMAIN longer = 1 .. Len(longer)
  BY <1>1
<1> HIDE DEF longer
<1>3. longer \in Seq({longer[i] : i \in DOMAIN longer})
  BY <1>2
<1> QED
  BY <1>3 DEF IsSequence, longer

\* What depends on the function alone stays.
LEMMA SameFunction ==
    ASSUME source' = source
    PROVE  /\ function_' = function_ /\ Blocks' = Blocks /\ BlockCount' = BlockCount
           /\ FunctionValues' = FunctionValues /\ FunctionEdges' = FunctionEdges
<1>1. function_' = function_ /\ Blocks' = Blocks /\ BlockCount' = BlockCount
  BY DEF function_, Blocks, BlockCount
<1>2. FunctionValues' = FunctionValues
  BY <1>1 DEF FunctionValues
<1>3. FunctionEdges' = FunctionEdges
  BY <1>1, Zenon DEF FunctionEdges
<1> QED
  BY <1>1, <1>2, <1>3

\* Where the emission stands depends on the plans and the edges.
LEMMA SamePlace ==
    ASSUME source' = source, edges' = edges, plans' = plans
    PROVE  /\ Index' = Index /\ (IsBlock' <=> IsBlock) /\ Block' = Block /\ Edge' = Edge
           /\ IslandCount' = IslandCount
<1>1. Blocks' = Blocks /\ BlockCount' = BlockCount
  BY SameFunction
<1>2. Index' = Index
  BY DEF Index
<1> QED
  BY <1>1, <1>2 DEF IsBlock, Block, Edge, IslandCount

\* What the invariant's parts rest on.
LEMMA TypedSource ==
    ASSUME LookupsSucceed
    PROVE  /\ function_ \in MachineFunction
           /\ BlockCount \in Nat
           /\ FunctionValues \in Seq(IrValue) /\ Len(FunctionValues) \in Nat
           /\ FunctionEdges \in Seq(EdgeType) /\ Len(FunctionEdges) \in Nat
           /\ \A n \in 1 .. Len(OriginsOf(function_)) : OriginsOf(function_)[n] <= MaxOrigin
<1>1. source \in Sources
  BY DEF LookupsSucceed
<1>2. /\ function_ \in MachineFunction
      /\ \A n \in DOMAIN OriginsOf(function_) : OriginsOf(function_)[n] <= MaxOrigin
  BY <1>1, SourcesAssumption DEF function_
<1>3. FunctionValues \in Seq(IrValue)
  BY <1>2, AllValuesAt, Zenon DEF FunctionValues
<1>4. FunctionEdges \in Seq(EdgeType)
  BY <1>2, FunctionEdgesAt
<1>5. Len(FunctionValues) \in Nat /\ Len(FunctionEdges) \in Nat
  <2> HIDE DEF EdgeType, IrValue, FunctionEdges, FunctionValues
  <2> QED
    BY <1>3, <1>4
<1>6. DOMAIN OriginsOf(function_) = 1 .. Len(OriginsOf(function_))
  <2>1. OriginsOf(function_) \in Seq(Nat)
    BY <1>2, OriginsAt, Zenon DEF Joined
  <2> QED
    BY <2>1
<1>7. BlockCount \in Nat
  BY <1>2, OriginsAt DEF BlockCount, Blocks
<1> QED
  BY <1>2, <1>3, <1>4, <1>5, <1>6, <1>7

\* Nothing is bound yet, and nothing has to be.
LEMMA LookupsInit == LoweringInit => LookupsSucceed
<1> SUFFICES ASSUME LoweringInit PROVE LookupsSucceed
  OBVIOUS
<1>1. /\ source \in Sources /\ loop = "verify" /\ allocated = << >> /\ values = << >>
      /\ next_origin = 0 /\ edges = << >> /\ draft = NoDraft /\ plans = << >>
  BY DEF LoweringInit
<1>2. function_ \in MachineFunction
  BY <1>1, SourcesAssumption DEF function_
<1>3. Len(FunctionValues) \in Nat /\ Len(FunctionEdges) \in Nat
  <2>1. FunctionValues \in Seq(IrValue) /\ FunctionEdges \in Seq(EdgeType)
    BY <1>2, AllValuesAt, FunctionEdgesAt, Zenon DEF FunctionValues
  <2> HIDE DEF EdgeType, IrValue, FunctionEdges, FunctionValues
  <2> QED
    BY <2>1
<1>4. ValuesNamed
  BY <1>1, <1>3, EmptyIsSequence DEF ValuesNamed, AfterValues, AfterVerify
<1>5. EdgesAgree
  <2> HIDE DEF EdgeBuild
  <2> QED
    BY <1>1, <1>3 DEF EdgesAgree, AfterEdges, AfterValues, AfterVerify
<1> QED
  BY <1>1, <1>4, <1>5, EmptyIsSequence, LimitsAssumption
     DEF LookupsSucceed, DraftBound, AfterVerify

\* A refusal at any point changes nothing but the loop.
LEMMA RefusalKeeps ==
    ASSUME LookupsSucceed, loop' = "refused",
           UNCHANGED <<source, allocated, values, next_origin, edges, draft, plans>>,
           loop = "islands" \/ draft = NoDraft
    PROVE  LookupsSucceed'
<1>1. /\ source' = source /\ allocated' = allocated /\ edges' = edges /\ draft' = draft
      /\ plans' = plans /\ next_origin' = next_origin
  OBVIOUS
<1>2. ValuesNamed'
  BY <1>1 DEF LookupsSucceed, ValuesNamed, AfterValues, AfterVerify
<1>3. EdgesAgree'
  BY <1>1, SameFunction DEF LookupsSucceed, EdgesAgree, AfterEdges, AfterValues, AfterVerify
<1>4. DraftBound'
  <2>1. CASE draft = NoDraft
    BY <1>1, <2>1 DEF DraftBound, NoDraft
  <2>2. CASE draft # NoDraft
    <3>1. DraftBound
      BY DEF LookupsSucceed
    <3> QED
      BY <1>1, <2>2, <3>1, SamePlace DEF DraftBound, NoDraft
  <2> QED
    BY <2>1, <2>2
<1> QED
  BY <1>1, <1>2, <1>3, <1>4 DEF LookupsSucceed, AfterVerify

\* No island is begun before the islands.
LEMMA NoDraftBefore ==
    ASSUME LookupsSucceed, loop \notin {"islands", "refused"}
    PROVE  draft = NoDraft
BY DEF LookupsSucceed, DraftBound

\* The function's verification: an origin is left above the greatest one.
LEMMA VerifyKeeps == LookupsSucceed /\ Verify => LookupsSucceed'
<1> SUFFICES ASSUME LookupsSucceed, Verify PROVE LookupsSucceed'
  OBVIOUS
<1>1. /\ loop = "verify" /\ source' = source /\ allocated' = allocated /\ values' = values
      /\ edges' = edges /\ draft' = draft /\ plans' = plans
  BY DEF Verify
<1>2. draft = NoDraft
  BY <1>1, NoDraftBefore
<1>3. CASE loop' = "refused"
  <2>1. next_origin' = next_origin
    BY <1>3 DEF Verify
  <2> QED
    BY <1>1, <1>2, <1>3, <2>1, RefusalKeeps
<1>4. CASE loop' # "refused"
  <2>1. /\ Verified(function_) /\ loop' = "values" /\ MaximumOrigin # MaxOrigin
        /\ next_origin' = MaximumOrigin + 1
    BY <1>4 DEF Verify, Admissible
  <2>2. next_origin' \in 0 .. MaxOrigin
    <3>1. function_ \in MachineFunction /\ function_.blocks # << >>
      BY <2>1, TypedSource DEF Verified
    <3>2. PICK n \in DOMAIN OriginsOf(function_) : MaximumOrigin = OriginsOf(function_)[n]
      BY <3>1, MaximumIsGreatest
    <3>3. n \in 1 .. Len(OriginsOf(function_))
      <4>1. OriginsOf(function_) \in Seq(Nat)
        BY <3>1, OriginsAt, Zenon DEF Joined
      <4> QED
        BY <4>1
    <3>4. MaximumOrigin \in Nat /\ MaximumOrigin <= MaxOrigin
      BY <3>1, <3>2, <3>3, MaximumIsGreatest, TypedSource
    <3> QED
      BY <2>1, <3>4, LimitsAssumption
  <2>3. /\ function_' = function_ /\ FunctionValues' = FunctionValues
        /\ FunctionEdges' = FunctionEdges
    BY <1>1, SameFunction
  <2>4. ValuesNamed'
    BY <1>1, <2>1, <2>3 DEF LookupsSucceed, ValuesNamed, AfterValues, AfterVerify
  <2>5. EdgesAgree'
    BY <1>1, <2>1, <2>3 DEF LookupsSucceed, EdgesAgree, AfterEdges, AfterValues, AfterVerify
  <2>6. DraftBound'
    BY <1>1, <1>2 DEF DraftBound, NoDraft
  <2> QED
    BY <1>1, <2>1, <2>2, <2>3, <2>4, <2>5, <2>6 DEF LookupsSucceed, AfterVerify
<1> QED
  BY <1>3, <1>4

\* One more value is allocated and named.
LEMMA AllocateValueKeeps == LookupsSucceed /\ AllocateValue => LookupsSucceed'
<1> SUFFICES ASSUME LookupsSucceed, AllocateValue PROVE LookupsSucceed'
  OBVIOUS
<1>1. /\ loop = "values" /\ Len(allocated) < Len(FunctionValues) /\ source' = source
      /\ next_origin' = next_origin /\ edges' = edges /\ draft' = draft /\ plans' = plans
  BY DEF AllocateValue
<1>2. draft = NoDraft
  BY <1>1, NoDraftBefore
<1>3. CASE loop' = "refused"
  <2>1. allocated' = allocated /\ values' = values
    BY <1>1, <1>3 DEF AllocateValue
  <2> QED
    BY <1>1, <1>2, <1>3, <2>1, RefusalKeeps
<1>4. CASE loop' # "refused"
  <2>1. PICK physical : /\ allocated' = Append(allocated, physical)
                        /\ values' = Emplaced(values, FunctionValues[Len(allocated) + 1].id,
                                              physical)
                        /\ loop' = "values"
    BY <1>1, <1>4 DEF AllocateValue
  <2>2. /\ IsSequence(allocated)
        /\ DOMAIN values = {FunctionValues[i].id : i \in 1 .. Len(allocated)}
    BY <1>1 DEF LookupsSucceed, ValuesNamed
  <2>3. IsSequence(allocated') /\ Len(allocated') = Len(allocated) + 1 /\ Len(allocated) \in Nat
    BY <2>1, <2>2, AppendIsSequence
  <2>4. /\ function_' = function_ /\ FunctionValues' = FunctionValues
        /\ FunctionEdges' = FunctionEdges
    BY <1>1, SameFunction
  <2>5. DOMAIN values' = {FunctionValues[i].id : i \in 1 .. Len(allocated')}
    <3>1. DOMAIN values' = DOMAIN values \cup {FunctionValues[Len(allocated) + 1].id}
      BY <2>1, EmplacedDomain
    <3>2. 1 .. Len(allocated') = (1 .. Len(allocated)) \cup {Len(allocated) + 1}
      BY <2>3
    <3> QED
      BY <2>2, <3>1, <3>2
  <2>6. Len(allocated') <= Len(FunctionValues)
    BY <1>1, <2>3, TypedSource
  <2>7. ValuesNamed'
    BY <2>1, <2>3, <2>4, <2>5, <2>6 DEF ValuesNamed, AfterValues, AfterVerify
  <2>8. EdgesAgree'
    BY <1>1, <2>1, <2>4 DEF LookupsSucceed, EdgesAgree, AfterEdges, AfterValues, AfterVerify
  <2>9. DraftBound'
    BY <1>1, <1>2 DEF DraftBound, NoDraft
  <2> QED
    BY <1>1, <2>1, <2>4, <2>7, <2>8, <2>9 DEF LookupsSucceed, AfterVerify
<1> QED
  BY <1>3, <1>4

\* A loop that ends hands over to the next one.
LEMMA HandOver ==
    ASSUME LookupsSucceed,
           UNCHANGED <<source, allocated, values, next_origin, edges, draft, plans>>,
           \/ loop = "values" /\ Len(allocated) = Len(FunctionValues) /\ loop' = "edges"
           \/ loop = "edges" /\ Len(edges) = Len(FunctionEdges) /\ loop' = "states"
           \/ loop = "states" /\ loop' = "islands"
           \/ loop = "islands" /\ draft = NoDraft /\ loop' = "lowered"
    PROVE  LookupsSucceed'
<1>1. draft = NoDraft /\ draft' = draft
  BY NoDraftBefore
<1>2. /\ function_' = function_ /\ FunctionValues' = FunctionValues
      /\ FunctionEdges' = FunctionEdges
  BY SameFunction
<1>3. allocated' = allocated /\ values' = values /\ edges' = edges /\ source' = source
      /\ next_origin' = next_origin /\ plans' = plans
  OBVIOUS
<1>4. ValuesNamed'
  BY <1>2, <1>3 DEF LookupsSucceed, ValuesNamed, AfterValues, AfterVerify
<1>5. EdgesAgree'
  BY <1>2, <1>3 DEF LookupsSucceed, EdgesAgree, AfterEdges, AfterValues, AfterVerify
<1>6. DraftBound'
  BY <1>1 DEF DraftBound, NoDraft
<1> QED
  BY <1>2, <1>3, <1>4, <1>5, <1>6 DEF LookupsSucceed, AfterVerify

\* ++ stops short of the last origin, or wraps.
LEMMA OriginAfterInRange ==
    ASSUME NEW origin \in 0 .. MaxOrigin
    PROVE  /\ OriginAfter(origin) \in 0 .. MaxOrigin
           /\ origin < MaxOrigin => OriginAfter(origin) = origin + 1
           /\ origin = MaxOrigin => OriginAfter(origin) = 0
<1>1. MaxOrigin \in Nat
  BY LimitsAssumption
<1>2. CASE origin < MaxOrigin
  <2>1. (origin + 1) % (MaxOrigin + 1) = origin + 1
    BY <1>1, <1>2
  <2> QED
    BY <1>1, <1>2, <2>1 DEF OriginAfter
<1>3. CASE origin = MaxOrigin
  <2>1. (MaxOrigin + 1) % (MaxOrigin + 1) = 0
    BY <1>1
  <2> QED
    BY <1>1, <1>3, <2>1 DEF OriginAfter
<1> QED
  BY <1>1, <1>2, <1>3

\* The verifier has seen where each edge goes, and what it takes.
LEMMA EdgesBound ==
    ASSUME LookupsSucceed, Verified(function_), NEW k \in 1 .. Len(FunctionEdges)
    PROVE  /\ FunctionEdges[k].target \in BlockIds(function_)
           /\ FunctionEdges[k].arguments \in Seq(Nat)
           /\ Len(FunctionEdges[k].arguments)
                  = Len(Blocks[BlockIndex(function_, FunctionEdges[k].target)].parameters)
           /\ \A n \in 1 .. Len(FunctionEdges[k].arguments) :
                  \E i \in 1 .. Len(FunctionValues) :
                      FunctionValues[i].id = FunctionEdges[k].arguments[n]
<1>1. function_ \in MachineFunction
  BY TypedSource
<1>2. PICK b \in 1 .. BlockCount : \E e \in 1 .. Len(EdgesOf(Blocks[b])) :
              /\ FunctionEdges[k].target = EdgesOf(Blocks[b])[e].target
              /\ FunctionEdges[k].arguments = EdgesOf(Blocks[b])[e].arguments
  BY <1>1, FunctionEdgesAt, Zenon
<1>3. PICK e \in 1 .. Len(EdgesOf(Blocks[b])) :
              /\ FunctionEdges[k].target = EdgesOf(Blocks[b])[e].target
              /\ FunctionEdges[k].arguments = EdgesOf(Blocks[b])[e].arguments
  BY <1>2, Zenon
<1> DEFINE edge == EdgesOf(Blocks[b])[e]
<1>4. b \in 1 .. Len(function_.blocks) /\ Blocks[b] = function_.blocks[b]
  BY DEF BlockCount, Blocks
<1>5. Blocks[b] \in MachineBlock
  BY <1>1, <1>4, BlockParts, Zenon
<1>6. edge.arguments \in Seq(Nat)
  BY <1>5, EdgesTyped, Zenon
<1>7. /\ edge.target \in BlockIds(function_)
      /\ Len(edge.arguments) = Len(Blocks[BlockIndex(function_, edge.target)].parameters)
      /\ \A n \in 1 .. Len(edge.arguments) :
             edge.arguments[n] \in DOMAIN Available(Blocks[b], AtTerminator(Blocks[b]))
  BY <1>1, <1>4, EdgeBound, Zenon DEF Blocks
<1>8. AtTerminator(Blocks[b]) \in 1 .. (Len(Blocks[b].actions) + 1)
  BY <1>5, PartsOfBlock DEF AtTerminator
<1>9. \A n \in 1 .. Len(edge.arguments) :
          \E i \in 1 .. Len(FunctionValues) : FunctionValues[i].id = edge.arguments[n]
  BY <1>1, <1>4, <1>7, <1>8, AvailableNamed, Zenon DEF FunctionValues, Blocks
<1> QED
  BY <1>3, <1>6, <1>7, <1>9, Zenon

\* The target of the next edge is a block, as verify_edge found.
LEMMA AddEdgeKeeps == LookupsSucceed /\ AddEdge => LookupsSucceed'
<1> SUFFICES ASSUME LookupsSucceed, AddEdge PROVE LookupsSucceed'
  OBVIOUS
<1>1. /\ loop = "edges" /\ Len(edges) < Len(FunctionEdges) /\ source' = source
      /\ allocated' = allocated /\ values' = values /\ draft' = draft /\ plans' = plans
  BY DEF AddEdge
<1>2. draft = NoDraft
  BY <1>1, NoDraftBefore
<1>3. Verified(function_) /\ edges \in Seq(EdgeBuild) /\ next_origin \in 0 .. MaxOrigin
  BY <1>1 DEF LookupsSucceed, EdgesAgree, AfterVerify
<1>4. Len(edges) \in Nat
  <2> HIDE DEF EdgeBuild
  <2> QED
    BY <1>3
<1>5. Len(edges) + 1 \in 1 .. Len(FunctionEdges)
  BY <1>1, <1>4, TypedSource
<1> DEFINE edge == FunctionEdges[Len(edges) + 1]
           added == [source |-> edge.source, target |-> edge.target,
                     arguments |-> edge.arguments, origin |-> next_origin]
<1>6. edge.target \in BlockIds(function_)
  BY <1>3, <1>5, EdgesBound, Zenon
<1>7. CASE loop' = "refused"
  <2>1. edges' = edges /\ next_origin' = next_origin
    BY <1>1, <1>7 DEF AddEdge
  <2> QED
    BY <1>1, <1>2, <1>7, <2>1, RefusalKeeps
<1>8. CASE loop' # "refused"
  <2>1. /\ edges' = Append(edges, added) /\ next_origin' = OriginAfter(next_origin)
        /\ loop' = "edges"
    <3>1. next_origin # 0
      BY <1>8 DEF AddEdge
    <3>2. AddEdge
      OBVIOUS
    <3> QED
      BY <1>1, <1>6, <3>1, <3>2, Zenon DEF AddEdge
  <2>2. added \in EdgeBuild
    <3>1. edge \in EdgeType
      <4> HIDE DEF EdgeType
      <4> QED
        BY <1>5, TypedSource
    <3>2. next_origin \in Nat
      BY <1>3, LimitsAssumption
    <3> HIDE DEF edge
    <3> QED
      BY <3>1, <3>2 DEF EdgeType, EdgeBuild
  <2>3. /\ edges' \in Seq(EdgeBuild) /\ Len(edges') = Len(edges) + 1
        /\ \A k \in 1 .. Len(edges) : edges'[k] = edges[k]
        /\ edges'[Len(edges) + 1] = added
    <3> HIDE DEF EdgeBuild, added
    <3> QED
      BY <1>3, <2>1, <2>2
  <2>4. /\ function_' = function_ /\ FunctionValues' = FunctionValues
        /\ FunctionEdges' = FunctionEdges
    BY <1>1, SameFunction
  <2>5. ASSUME NEW k \in 1 .. Len(edges')
        PROVE  /\ edges'[k].source = FunctionEdges[k].source
               /\ edges'[k].target = FunctionEdges[k].target
               /\ edges'[k].arguments = FunctionEdges[k].arguments
    <3>1. CASE k = Len(edges) + 1
      BY <2>3, <3>1
    <3>2. CASE k # Len(edges) + 1
      <4>1. k \in 1 .. Len(edges) /\ edges'[k] = edges[k]
        BY <1>4, <2>3, <3>2
      <4> QED
        BY <4>1, Zenon DEF LookupsSucceed, EdgesAgree
    <3> QED
      BY <3>1, <3>2
  <2>6. EdgesAgree'
    <3>1. Len(edges') <= Len(FunctionEdges)
      BY <1>5, <2>3
    <3> HIDE DEF EdgeBuild
    <3> QED
      BY <2>1, <2>3, <2>4, <2>5, <3>1 DEF EdgesAgree, AfterEdges, AfterValues, AfterVerify
  <2>7. ValuesNamed'
    BY <1>1, <2>1, <2>4 DEF LookupsSucceed, ValuesNamed, AfterValues, AfterVerify
  <2>8. DraftBound'
    BY <1>1, <1>2 DEF DraftBound, NoDraft
  <2>9. next_origin' \in 0 .. MaxOrigin
    BY <1>3, <2>1, OriginAfterInRange
  <2> QED
    BY <1>1, <2>1, <2>4, <2>6, <2>7, <2>8, <2>9 DEF LookupsSucceed, AfterVerify
<1> QED
  BY <1>7, <1>8

\* Two more values are allocated, under no name.
LEMMA AddStateKeeps == LookupsSucceed /\ AddState => LookupsSucceed'
<1> SUFFICES ASSUME LookupsSucceed, AddState PROVE LookupsSucceed'
  OBVIOUS
<1>1. /\ loop = "states" /\ source' = source /\ values' = values /\ edges' = edges
      /\ draft' = draft /\ plans' = plans
  BY DEF AddState
<1>2. draft = NoDraft /\ next_origin \in 0 .. MaxOrigin
  BY <1>1, NoDraftBefore DEF LookupsSucceed
<1>3. CASE loop' = "refused"
  <2>1. allocated' = allocated /\ next_origin' = next_origin
    BY <1>1, <1>3 DEF AddState
  <2> QED
    BY <1>1, <1>2, <1>3, <2>1, RefusalKeeps
<1>4. CASE loop' # "refused"
  <2>1. PICK semantic, history :
            /\ allocated' = allocated \o <<semantic, history>>
            /\ next_origin' = OriginAfter(OriginAfter(next_origin))
            /\ loop' = "states"
    BY <1>1, <1>4 DEF AddState
  <2>2. IsSequence(allocated')
    <3>1. IsSequence(<<semantic, history>>)
      BY DEF IsSequence
    <3>2. IsSequence(allocated)
      BY DEF LookupsSucceed, ValuesNamed
    <3> QED
      BY <2>1, <3>1, <3>2, ConcatenationIsSequence
  <2>3. /\ function_' = function_ /\ FunctionValues' = FunctionValues
        /\ FunctionEdges' = FunctionEdges
    BY <1>1, SameFunction
  <2>4. ValuesNamed'
    BY <1>1, <2>1, <2>2, <2>3 DEF LookupsSucceed, ValuesNamed, AfterValues, AfterVerify
  <2>5. EdgesAgree'
    BY <1>1, <2>1, <2>3 DEF LookupsSucceed, EdgesAgree, AfterEdges, AfterValues, AfterVerify
  <2>6. DraftBound'
    BY <1>1, <1>2 DEF DraftBound, NoDraft
  <2>7. next_origin' \in 0 .. MaxOrigin
    BY <1>2, <2>1, OriginAfterInRange
  <2> QED
    BY <1>1, <2>1, <2>3, <2>4, <2>5, <2>6, <2>7 DEF LookupsSucceed, AfterVerify
<1> QED
  BY <1>3, <1>4

\* What stays when an island is emitted.
LEMMA IslandsStable ==
    ASSUME LookupsSucceed,
           UNCHANGED <<source, allocated, values, next_origin, edges>>,
           loop = "islands", loop' = "islands"
    PROVE  /\ function_' = function_ /\ source' \in Sources /\ next_origin' \in 0 .. MaxOrigin
           /\ loop' \in AfterVerify /\ Verified(function_)
           /\ ValuesNamed' /\ EdgesAgree'
<1>1. /\ source' = source /\ allocated' = allocated /\ values' = values /\ edges' = edges
      /\ next_origin' = next_origin
  OBVIOUS
<1>2. /\ function_' = function_ /\ FunctionValues' = FunctionValues
      /\ FunctionEdges' = FunctionEdges
  BY SameFunction
<1>3. ValuesNamed'
  BY <1>1, <1>2 DEF LookupsSucceed, ValuesNamed, AfterValues, AfterVerify
<1>4. EdgesAgree'
  BY <1>1, <1>2 DEF LookupsSucceed, EdgesAgree, AfterEdges, AfterValues, AfterVerify
<1> QED
  BY <1>1, <1>2, <1>3, <1>4 DEF LookupsSucceed, AfterVerify

\* Where the lowering of the islands stands.
LEMMA AtAnIsland ==
    ASSUME LookupsSucceed, loop = "islands"
    PROVE  /\ function_ \in MachineFunction /\ Verified(function_)
           /\ Index \in Nat \ {0}
           /\ Len(edges) = Len(FunctionEdges) /\ Len(edges) \in Nat
           /\ DOMAIN values = {FunctionValues[i].id : i \in 1 .. Len(FunctionValues)}
           /\ IsBlock => /\ Index \in 1 .. Len(function_.blocks)
                         /\ Block = function_.blocks[Index]
                         /\ Block \in MachineBlock
           /\ ~ IsBlock /\ Index <= IslandCount =>
                  /\ Index - BlockCount \in 1 .. Len(FunctionEdges)
                  /\ Edge.target = FunctionEdges[Index - BlockCount].target
                  /\ Edge.arguments = FunctionEdges[Index - BlockCount].arguments
                  /\ Edge.arguments \in Seq(Nat) /\ Len(Edge.arguments) \in Nat
<1>1. function_ \in MachineFunction /\ Verified(function_) /\ BlockCount \in Nat
  BY TypedSource DEF LookupsSucceed, AfterVerify
<1>2. Index \in Nat \ {0}
  <2>1. Len(plans) \in Nat
    BY AppendIsSequence DEF LookupsSucceed
  <2> QED
    BY <2>1 DEF Index
<1>3. /\ Len(edges) = Len(FunctionEdges)
      /\ \A k \in 1 .. Len(edges) :
             /\ edges[k].target = FunctionEdges[k].target
             /\ edges[k].arguments = FunctionEdges[k].arguments
      /\ DOMAIN values = {FunctionValues[i].id : i \in 1 .. Len(FunctionValues)}
  BY DEF LookupsSucceed, EdgesAgree, ValuesNamed, AfterEdges, AfterValues, AfterVerify
<1>4. Len(edges) \in Nat
  BY <1>3, TypedSource
<1>5. ASSUME IsBlock
      PROVE  /\ Index \in 1 .. Len(function_.blocks) /\ Block = function_.blocks[Index]
             /\ Block \in MachineBlock
  <2>1. Index \in 1 .. Len(function_.blocks) /\ Block = function_.blocks[Index]
    BY <1>1, <1>2, <1>5 DEF IsBlock, BlockCount, Blocks, Block
  <2> QED
    BY <1>1, <2>1, BlockParts
<1>6. ASSUME ~ IsBlock, Index <= IslandCount
      PROVE  /\ Index - BlockCount \in 1 .. Len(FunctionEdges)
             /\ Edge.target = FunctionEdges[Index - BlockCount].target
             /\ Edge.arguments = FunctionEdges[Index - BlockCount].arguments
             /\ Edge.arguments \in Seq(Nat) /\ Len(Edge.arguments) \in Nat
  <2>1. Index - BlockCount \in 1 .. Len(FunctionEdges)
    BY <1>1, <1>2, <1>3, <1>4, <1>6 DEF IsBlock, IslandCount
  <2>2. /\ Edge.target = FunctionEdges[Index - BlockCount].target
        /\ Edge.arguments = FunctionEdges[Index - BlockCount].arguments
    BY <1>3, <2>1, Zenon DEF Edge
  <2>3. FunctionEdges[Index - BlockCount].arguments \in Seq(Nat)
    BY <1>1, <2>1, EdgesBound, Zenon
  <2>4. Edge.arguments \in Seq(Nat)
    BY <2>2, <2>3, Zenon
  <2>5. Len(Edge.arguments) \in Nat
    BY <2>4
  <2> QED
    BY <2>1, <2>2, <2>4, <2>5
<1> QED
  BY <1>1, <1>2, <1>3, <1>4, <1>5, <1>6

\* A block's island begins with its parameters bound.
LEMMA BeginIslandKeeps == LookupsSucceed /\ BeginIsland => LookupsSucceed'
<1> SUFFICES ASSUME LookupsSucceed, BeginIsland PROVE LookupsSucceed'
  OBVIOUS
<1>1. /\ loop = "islands" /\ loop' = "islands" /\ Index <= IslandCount /\ plans' = plans
      /\ source' = source /\ edges' = edges
      /\ UNCHANGED <<source, allocated, values, next_origin, edges>>
  BY DEF BeginIsland
<1>2. /\ Index' = Index /\ (IsBlock' <=> IsBlock) /\ Block' = Block /\ Edge' = Edge
      /\ IslandCount' = IslandCount
  BY <1>1, SamePlace
<1>3. PICK begun : /\ DOMAIN begun = DraftFields /\ begun.items = 0 /\ DOMAIN begun.bindings = {}
                   /\ draft' = IF IsBlock THEN WithParameters(begun, Block.parameters)
                               ELSE begun
  <2>1. PICK nodes, overflowed, semantic, history, last, fold :
            draft' = LET begun == [nodes |-> nodes, carrier_writes |-> << >>,
                                   memory_writes |-> << >>, overflowed |-> overflowed,
                                   semantic |-> semantic, history |-> history, last |-> last,
                                   fold |-> fold, items |-> 0, bindings |-> << >>]
                     IN  IF IsBlock THEN WithParameters(begun, Block.parameters) ELSE begun
    BY ZenonT(40) DEF BeginIsland
  <2> DEFINE begun == [nodes |-> nodes, carrier_writes |-> << >>,
                       memory_writes |-> << >>, overflowed |-> overflowed,
                       semantic |-> semantic, history |-> history, last |-> last,
                       fold |-> fold, items |-> 0, bindings |-> << >>]
  <2>2. DOMAIN begun = DraftFields /\ begun.items = 0 /\ DOMAIN begun.bindings = {}
    BY DEF DraftFields
  <2>3. draft' = IF IsBlock THEN WithParameters(begun, Block.parameters) ELSE begun
    BY <2>1, Zenon
  <2> HIDE DEF begun
  <2> QED
    BY <2>2, <2>3, Zenon
<1>4. CASE IsBlock
  <2>1. Block \in MachineBlock
    BY <1>1, <1>4, AtAnIsland
  <2>2. Block.parameters \in Seq(IrValue)
    BY <2>1, PartsOfBlock
  <2>3. draft' = WithParameters(begun, Block.parameters)
    BY <1>3, <1>4
  <2>4. /\ DOMAIN draft' = DraftFields /\ draft'.items = 0
        /\ DOMAIN draft'.bindings = {Block.parameters[i].id : i \in 1 .. Len(Block.parameters)}
    <3>1. /\ DOMAIN WithParameters(begun, Block.parameters) = DraftFields
          /\ WithParameters(begun, Block.parameters).items = begun.items
          /\ DOMAIN WithParameters(begun, Block.parameters).bindings
                 = {Block.parameters[i].id : i \in 1 .. Len(Block.parameters)}
      BY <1>3, <2>2, ParametersBound
    <3> QED
      BY <1>3, <2>3, <3>1
  <2>5. DOMAIN draft'.bindings = DOMAIN Available(Block, draft'.items + 1)
    <3>1. draft'.items + 1 = 1
      BY <2>4
    <3>2. DOMAIN Available(Block, 1)
              = {Block.parameters[i].id : i \in 1 .. Len(Block.parameters)}
      BY <2>1, AvailableFirst
    <3> QED
      BY <2>4, <3>1, <3>2
  <2>6. draft'.items \in 0 .. Len(Block.actions)
    BY <2>1, <2>4, PartsOfBlock
  <2>7. DraftBound'
    BY <1>1, <1>2, <1>4, <2>4, <2>5, <2>6 DEF DraftBound
  <2> QED
    BY <1>1, <2>7, IslandsStable DEF LookupsSucceed
<1>5. CASE ~ IsBlock
  <2>1. draft' = begun
    BY <1>3, <1>5
  <2>2. draft'.items \in 0 .. Len(Edge.arguments)
    BY <1>1, <1>3, <1>5, <2>1, AtAnIsland
  <2>3. DraftBound'
    BY <1>1, <1>2, <1>3, <1>5, <2>1, <2>2 DEF DraftBound
  <2> QED
    BY <1>1, <2>3, IslandsStable DEF LookupsSucceed
<1> QED
  BY <1>4, <1>5

\* The operands of the next action are bound, and its output is then.
LEMMA LowerActionKeeps == LookupsSucceed /\ LowerAction => LookupsSucceed'
<1> SUFFICES ASSUME LookupsSucceed, LowerAction PROVE LookupsSucceed'
  OBVIOUS
<1>1. /\ loop = "islands" /\ draft # NoDraft /\ IsBlock /\ draft.items < Len(Block.actions)
      /\ plans' = plans /\ source' = source /\ edges' = edges
      /\ UNCHANGED <<source, allocated, values, next_origin, edges>>
  BY DEF LowerAction
<1>2. /\ Index' = Index /\ (IsBlock' <=> IsBlock) /\ Block' = Block /\ Edge' = Edge
      /\ IslandCount' = IslandCount
  BY <1>1, SamePlace
<1>3. /\ function_ \in MachineFunction /\ Verified(function_)
      /\ Index \in 1 .. Len(function_.blocks) /\ Block = function_.blocks[Index]
      /\ Block \in MachineBlock
  BY <1>1, AtAnIsland
<1>4. /\ DOMAIN draft = DraftFields /\ Index <= IslandCount
      /\ draft.items \in 0 .. Len(Block.actions)
      /\ DOMAIN draft.bindings = DOMAIN Available(Block, draft.items + 1)
  BY <1>1 DEF LookupsSucceed, DraftBound
<1>5. Len(Block.actions) \in Nat
  BY <1>3, PartsOfBlock
<1>6. PICK n \in 1 .. Len(Block.actions) : n = draft.items + 1
  BY <1>1, <1>4, <1>5
<1> DEFINE action == Block.actions[n]
<1>7. \A i \in DOMAIN action.operands : action.operands[i] \in DOMAIN draft.bindings
  BY <1>3, <1>4, <1>6, OperandsAvailable, Zenon
<1>8. draft' = Lowered(draft, action) /\ loop' = "islands"
  <2>1. LowerAction
    OBVIOUS
  <2> QED
    BY <1>1, <1>6, <1>7, <2>1, Zenon DEF LowerAction
<1>9. /\ DOMAIN draft' = DraftFields /\ draft'.items = n
      /\ DOMAIN draft'.bindings = DOMAIN Available(Block, draft'.items + 1)
  <2>1. /\ DOMAIN Lowered(draft, action) = DraftFields
        /\ Lowered(draft, action).items = draft.items + 1
        /\ DOMAIN Lowered(draft, action).bindings
               = DOMAIN draft.bindings
                     \cup (IF Produces(action) THEN {action.output.id} ELSE {})
    BY <1>4, LoweredBinds
  <2>2. DOMAIN Available(Block, n + 1)
            = DOMAIN Available(Block, n)
                  \cup (IF Produces(action) THEN {action.output.id} ELSE {})
    BY <1>3, AvailableNext
  <2> HIDE DEF action
  <2> QED
    BY <1>4, <1>6, <1>8, <2>1, <2>2, Zenon
<1>10. draft'.items \in 0 .. Len(Block.actions)
  BY <1>5, <1>9
<1>11. DraftBound'
  BY <1>1, <1>2, <1>4, <1>8, <1>9, <1>10 DEF DraftBound
<1> QED
  BY <1>1, <1>8, <1>11, IslandsStable DEF LookupsSucceed

\* The values an edge hands over have carriers, as have the target's parameters.
LEMMA CopyArgumentKeeps == LookupsSucceed /\ CopyArgument => LookupsSucceed'
<1> SUFFICES ASSUME LookupsSucceed, CopyArgument PROVE LookupsSucceed'
  OBVIOUS
<1>1. /\ loop = "islands" /\ draft # NoDraft /\ ~ IsBlock /\ draft.items < Len(Edge.arguments)
      /\ plans' = plans /\ source' = source /\ edges' = edges
      /\ UNCHANGED <<source, allocated, values, next_origin, edges>>
  BY DEF CopyArgument
<1>2. /\ Index' = Index /\ (IsBlock' <=> IsBlock) /\ Block' = Block /\ Edge' = Edge
      /\ IslandCount' = IslandCount
  BY <1>1, SamePlace
<1>3. /\ DOMAIN draft = DraftFields /\ Index <= IslandCount
      /\ draft.items \in 0 .. Len(Edge.arguments)
  BY <1>1 DEF LookupsSucceed, DraftBound
<1>4. PICK k \in 1 .. Len(FunctionEdges) :
          /\ Edge.target = FunctionEdges[k].target
          /\ Edge.arguments = FunctionEdges[k].arguments
  BY <1>1, <1>3, AtAnIsland
<1>5. /\ Verified(function_) /\ Len(Edge.arguments) \in Nat
      /\ DOMAIN values = {FunctionValues[i].id : i \in 1 .. Len(FunctionValues)}
  BY <1>1, <1>3, AtAnIsland
<1>6. PICK n \in 1 .. Len(Edge.arguments) : n = draft.items + 1
  BY <1>1, <1>3, <1>5
<1> DEFINE parameters == Blocks[TargetOf(Edge)].parameters
<1>7. Edge.arguments[n] \in DOMAIN values /\ n <= Len(parameters)
  <2>1. /\ Len(Edge.arguments) = Len(parameters)
        /\ \E i \in 1 .. Len(FunctionValues) : FunctionValues[i].id = Edge.arguments[n]
    BY <1>4, <1>5, <1>6, EdgesBound, Zenon DEF TargetOf
  <2> HIDE DEF parameters
  <2> QED
    BY <1>5, <2>1
<1>8. PICK from, to, writing, folding :
          /\ from = ArgumentValue(draft, n)
          /\ draft' = Folded(StageWrite(from.draft, to, from.logical, draft.semantic,
                                        draft.history, writing), from.logical, folding)
          /\ loop' = "islands"
  <2>1. CopyArgument
    OBVIOUS
  <2> QED
    BY <1>1, <1>6, <1>7, <2>1, Zenon DEF CopyArgument
<1>9. Keeps(draft, from.draft)
  <2>1. from.draft = Reconstruct(draft, values[Edge.arguments[n]])
    BY <1>8 DEF ArgumentValue
  <2> QED
    BY <1>3, <2>1, ReconstructKeeps
<1>10. PICK staged : Keeps(from.draft, staged) /\ draft' = Folded(staged, from.logical, folding)
  <2>1. DOMAIN from.draft = DraftFields
    BY <1>9, Zenon DEF Keeps
  <2> QED
    BY <1>8, <2>1, StageWriteKeeps, Zenon
<1>11. DOMAIN draft' = DraftFields /\ draft'.items = draft.items + 1
  <2>1. DOMAIN staged = DraftFields /\ staged.items = draft.items
    BY <1>9, <1>10, Zenon DEF Keeps
  <2>2. /\ DOMAIN Folded(staged, from.logical, folding) = DraftFields
        /\ Folded(staged, from.logical, folding).items = staged.items + 1
    BY <2>1, FoldedCounts
  <2> QED
    BY <1>10, <2>1, <2>2
<1>12. draft'.items \in 0 .. Len(Edge.arguments)
  BY <1>5, <1>6, <1>11
<1>13. DraftBound'
  BY <1>1, <1>2, <1>3, <1>8, <1>11, <1>12 DEF DraftBound
<1> QED
  BY <1>1, <1>8, <1>13, IslandsStable DEF LookupsSucceed

\* An island ends as a plan, or is refused as a whole.
LEMMA FinishIslandKeeps ==
    ASSUME LookupsSucceed, loop = "islands",
           UNCHANGED <<source, allocated, values, next_origin, edges>>,
           NEW state, NEW origin, NEW salts, NEW targets, NEW condition,
           FinishIsland(state, origin, salts, targets, condition)
    PROVE  LookupsSucceed'
<1>1. PICK finished, placeholders :
          IF RoomSufficed(finished)
          THEN /\ plans' = Append(plans, Plan(finished))
               /\ relocations' = relocations \o placeholders
               /\ draft' = NoDraft
               /\ UNCHANGED loop
          ELSE loop' = "refused" /\ UNCHANGED <<plans, relocations, draft>>
  BY Zenon DEF FinishIsland
<1>2. CASE RoomSufficed(finished)
  <2>1. plans' = Append(plans, Plan(finished)) /\ draft' = NoDraft /\ loop' = "islands"
    BY <1>1, <1>2
  <2>2. IsSequence(plans')
    BY <2>1, AppendIsSequence DEF LookupsSucceed
  <2>3. DraftBound'
    BY <2>1 DEF DraftBound, NoDraft
  <2> QED
    BY <2>1, <2>2, <2>3, IslandsStable DEF LookupsSucceed
<1>3. CASE ~ RoomSufficed(finished)
  <2>1. loop' = "refused" /\ plans' = plans /\ draft' = draft
    BY <1>1, <1>3
  <2> QED
    BY <2>1, RefusalKeeps
<1> QED
  BY <1>2, <1>3

\* The value of the terminator is bound.
LEMMA FinishBlockKeeps == LookupsSucceed /\ FinishBlock => LookupsSucceed'
<1> SUFFICES ASSUME LookupsSucceed, FinishBlock PROVE LookupsSucceed'
  OBVIOUS
<1>1. /\ loop = "islands" /\ draft # NoDraft /\ IsBlock /\ draft.items = Len(Block.actions)
      /\ UNCHANGED <<source, allocated, values, next_origin, edges>>
  BY DEF FinishBlock
<1>2. /\ function_ \in MachineFunction /\ Verified(function_)
      /\ Index \in 1 .. Len(function_.blocks) /\ Block = function_.blocks[Index]
  BY <1>1, AtAnIsland
<1>3. DOMAIN draft.bindings = DOMAIN Available(Block, AtTerminator(Block))
  <2>1. DOMAIN draft.bindings = DOMAIN Available(Block, draft.items + 1)
    BY <1>1 DEF LookupsSucceed, DraftBound
  <2> QED
    BY <1>1, <2>1 DEF AtTerminator
<1>4. ~ (/\ Block.terminator.kind \in {"Branch", "Return"}
         /\ Block.terminator.value \notin DOMAIN draft.bindings)
  BY <1>2, <1>3, TerminatorBound
<1>5. PICK state, origin, salts, targets, condition :
          FinishIsland(state, origin, salts, targets, condition)
  <2>1. FinishBlock
    OBVIOUS
  <2> QED
    BY <1>4, <2>1, Zenon DEF FinishBlock
<1> QED
  BY <1>1, <1>5, FinishIslandKeeps

\* An edge's island looks nothing up that can fail.
LEMMA FinishEdgeKeeps == LookupsSucceed /\ FinishEdge => LookupsSucceed'
<1> SUFFICES ASSUME LookupsSucceed, FinishEdge PROVE LookupsSucceed'
  OBVIOUS
<1>1. /\ loop = "islands" /\ UNCHANGED <<source, allocated, values, next_origin, edges>>
  BY DEF FinishEdge
<1>2. PICK state, origin, salts, targets, condition :
          FinishIsland(state, origin, salts, targets, condition)
  <2>1. FinishEdge
    OBVIOUS
  <2> QED
    BY <2>1, Zenon DEF FinishEdge
<1> QED
  BY <1>1, <1>2, FinishIslandKeeps

\* A stuttering step keeps everything.
LEMMA LookupsStutter == LookupsSucceed /\ UNCHANGED loweringVars => LookupsSucceed'
<1> SUFFICES ASSUME LookupsSucceed, UNCHANGED loweringVars PROVE LookupsSucceed'
  OBVIOUS
<1>1. /\ source' = source /\ loop' = loop /\ allocated' = allocated /\ values' = values
      /\ next_origin' = next_origin /\ edges' = edges /\ draft' = draft /\ plans' = plans
  BY DEF loweringVars
<1>2. /\ function_' = function_ /\ FunctionValues' = FunctionValues
      /\ FunctionEdges' = FunctionEdges
  BY <1>1, SameFunction
<1>3. ValuesNamed'
  BY <1>1, <1>2 DEF LookupsSucceed, ValuesNamed
<1>4. EdgesAgree'
  BY <1>1, <1>2 DEF LookupsSucceed, EdgesAgree
<1>5. DraftBound'
  BY <1>1, SamePlace DEF LookupsSucceed, DraftBound
<1> QED
  BY <1>1, <1>2, <1>3, <1>4, <1>5 DEF LookupsSucceed

\* Whatever function it is called with, at every step of the lowering each loop has
\* bound what the verifier promised to the ones after it.
THEOREM LookupsHold == LoweringSpec => []LookupsSucceed
<1>1. LookupsSucceed /\ [LoweringNext]_loweringVars => LookupsSucceed'
  <2> SUFFICES ASSUME LookupsSucceed, [LoweringNext]_loweringVars PROVE LookupsSucceed'
    OBVIOUS
  <2>1. CASE Verify
    BY <2>1, VerifyKeeps
  <2>2. CASE AllocateValue
    BY <2>2, AllocateValueKeeps
  <2>3. CASE FinishValues
    BY <2>3, HandOver DEF FinishValues
  <2>4. CASE AddEdge
    BY <2>4, AddEdgeKeeps
  <2>5. CASE FinishEdges
    BY <2>5, HandOver DEF FinishEdges
  <2>6. CASE AddState
    BY <2>6, AddStateKeeps
  <2>7. CASE FinishStates
    BY <2>7, HandOver DEF FinishStates
  <2>8. CASE BeginIsland
    BY <2>8, BeginIslandKeeps
  <2>9. CASE LowerAction
    BY <2>9, LowerActionKeeps
  <2>10. CASE CopyArgument
    BY <2>10, CopyArgumentKeeps
  <2>11. CASE FinishBlock
    BY <2>11, FinishBlockKeeps
  <2>12. CASE FinishEdge
    BY <2>12, FinishEdgeKeeps
  <2>13. CASE FinishLowering
    BY <2>13, HandOver DEF FinishLowering
  <2>14. CASE UNCHANGED loweringVars
    BY <2>14, LookupsStutter
  <2> QED
    BY <2>1, <2>2, <2>3, <2>4, <2>5, <2>6, <2>7, <2>8, <2>9, <2>10, <2>11, <2>12, <2>13, <2>14
    DEF LoweringNext
<1> QED
  BY <1>1, LookupsInit, PTL DEF LoweringSpec

\* No lookup of compile_machine_ir fails: the values, the bindings and the blocks
\* that a verified function names are in its maps when it comes to them.
THEOREM NoLookupFails == LoweringSpec => []NothingThrows
<1>1. LookupsSucceed => NothingThrows
  BY DEF LookupsSucceed, AfterVerify, NothingThrows
<1> QED
  BY <1>1, LookupsHold, PTL

-----------------------------------------------------------------------------
(***************************************************************************)
(* Origins.  The function's own are at most MaximumOrigin; every edge and  *)
(* then both states of every block take the next one.                      *)
(***************************************************************************)

ValueCount == Len(FunctionValues)

\* The synthetic origins given so far, once the values are allocated.
Given == Len(edges) + (Len(allocated) - ValueCount)

ValueOriginsKept ==
    \A n \in 1 .. Len(allocated) :
        n <= ValueCount => allocated[n].origin = FunctionValues[n].origin

SyntheticInOrder ==
    /\ ValueCount <= Len(allocated)
    /\ \A e \in 1 .. Len(edges) : edges[e].origin = MaximumOrigin + e
    /\ \A n \in 1 .. Len(allocated) :
           n > ValueCount =>
               allocated[n].origin = MaximumOrigin + Len(edges) + (n - ValueCount)
    /\ MaximumOrigin + Given <= MaxOrigin
    /\ next_origin = IF MaximumOrigin + Given < MaxOrigin THEN MaximumOrigin + Given + 1 ELSE 0

OriginsInOrder ==
    /\ loop \in AfterVerify \cup {"verify"} => ValueOriginsKept
    /\ loop = "verify" => Len(edges) = 0
    /\ loop = "values" =>
           /\ Len(edges) = 0
           /\ MaximumOrigin < MaxOrigin
           /\ next_origin = MaximumOrigin + 1
    /\ loop = "edges" => Len(allocated) = ValueCount
    /\ loop \in AfterValues => SyntheticInOrder

\* Where the origin in a block stands that belongs to a value: after the block's.
ValuePlace(block, e) ==
    IF e <= 1 + Len(block.parameters) THEN e - 1
    ELSE PlaceOfOutput(block, e - 1 - Len(block.parameters))

\* The origin of a value is among those of its block, never the first of them.
LEMMA ValueOriginInBlock ==
    ASSUME NEW block \in MachineBlock, NEW k \in 1 .. Len(ValuesOf(block))
    PROVE  \E e \in 1 .. Len(OriginsInBlock(block)) :
               /\ e # 1
               /\ k = ValuePlace(block, e)
               /\ OriginsInBlock(block)[e] = ValuesOf(block)[k].origin
<1> DEFINE P == Len(block.parameters)
           A == Len(block.actions)
           count == Len(OriginsInBlock(block))
<1>1. /\ P \in Nat /\ A \in Nat /\ count = 1 + P + A
      /\ \A i \in 1 .. P : OriginsInBlock(block)[1 + i] = block.parameters[i].origin
      /\ \A n \in 1 .. A :
             OriginsInBlock(block)[1 + P + n] = action_origin(block.actions[n])
  BY OriginsInBlockAt
<1>0. P \in Nat /\ A \in Nat /\ count = 1 + P + A
  BY <1>1
<1>2. CASE k \in 1 .. P
  <2>1. ValuesOf(block)[k] = block.parameters[k]
    BY <1>2, ValuesAt
  <2>2. /\ 1 + k \in 1 .. Len(OriginsInBlock(block)) /\ 1 + k # 1
        /\ 1 + k <= 1 + P /\ (1 + k) - 1 = k
    <3> HIDE DEF P, A, count
    <3>1. 1 + k \in 1 .. count /\ 1 + k # 1 /\ 1 + k <= 1 + P /\ (1 + k) - 1 = k
      BY <1>0, <1>2
    <3> QED
      BY <3>1 DEF P, count
  <2>3. ValuePlace(block, 1 + k) = k
    BY <2>2 DEF ValuePlace
  <2>4. OriginsInBlock(block)[1 + k] = ValuesOf(block)[k].origin
    BY <1>1, <1>2, <2>1
  <2> QED
    BY <2>2, <2>3, <2>4
<1>3. CASE k \notin 1 .. P
  <2>1. PICK n \in 1 .. Len(block.actions) :
            Produces(block.actions[n]) /\ k = PlaceOfOutput(block, n)
    BY <1>3, ValuesAt
  <2>2. ValuesOf(block)[k] = block.actions[n].output
    BY <2>1, ValuesAt
  <2>3. /\ 1 + P + n \in 1 .. count /\ 1 + P + n # 1 /\ ~ (1 + P + n) <= 1 + P
        /\ ((1 + P + n) - 1) - P = n
    <3>1. n \in 1 .. A
      OBVIOUS
    <3> HIDE DEF P, A, count
    <3> QED
      BY <1>0, <3>1
  <2>4. PICK e \in 1 .. count : /\ e = 1 + P + n /\ e # 1 /\ ~ e <= 1 + P
                                /\ (e - 1) - P = n
    BY <2>3, Zenon
  <2>5. ValuePlace(block, e) = k
    BY <2>1, <2>4 DEF ValuePlace
  <2>6. OriginsInBlock(block)[e] = ValuesOf(block)[k].origin
    BY <1>1, <2>2, <2>4 DEF action_origin
  <2> QED
    BY <2>4, <2>5, <2>6
<1> QED
  BY <1>2, <1>3

\* A value of the function, with the place of its origin.
Originates(function, i, b, e) ==
    /\ b \in 1 .. Len(function.blocks)
    /\ e \in 1 .. Len(OriginsInBlock(function.blocks[b]))
    /\ e # 1
    /\ i = PlaceOfValue(function, b, ValuePlace(function.blocks[b], e))
    /\ AllValues(function)[i].origin = OriginsInBlock(function.blocks[b])[e]

\* Every value's origin is one of its block's.
LEMMA ValueOriginates ==
    ASSUME NEW function \in MachineFunction, NEW i \in 1 .. Len(AllValues(function))
    PROVE  \E b, e : Originates(function, i, b, e)
<1>1. PICK b \in 1 .. Len(function.blocks) :
          \E k \in 1 .. Len(ValuesOf(function.blocks[b])) : i = PlaceOfValue(function, b, k)
  BY AllValuesAt
<1>2. PICK k \in 1 .. Len(ValuesOf(function.blocks[b])) : i = PlaceOfValue(function, b, k)
  BY <1>1
<1>3. AllValues(function)[i] = ValuesOf(function.blocks[b])[k]
  BY <1>2, AllValuesAt
<1>4. PICK e \in 1 .. Len(OriginsInBlock(function.blocks[b])) :
          /\ e # 1
          /\ k = ValuePlace(function.blocks[b], e)
          /\ OriginsInBlock(function.blocks[b])[e] = ValuesOf(function.blocks[b])[k].origin
  BY BlockParts, ValueOriginInBlock
<1> QED
  BY <1>2, <1>3, <1>4, Zenon DEF Originates

\* Two origins of a verified function that are equal are at one place.
LEMMA OneOriginOnePlace ==
    ASSUME NEW function \in MachineFunction, Distinct(OriginsOf(function)),
           NEW b \in 1 .. Len(function.blocks), NEW c \in 1 .. Len(function.blocks),
           NEW e \in 1 .. Len(OriginsInBlock(function.blocks[b])),
           NEW f \in 1 .. Len(OriginsInBlock(function.blocks[c])),
           OriginsInBlock(function.blocks[b])[e] = OriginsInBlock(function.blocks[c])[f]
    PROVE  b = c /\ e = f
<1>1. /\ PlaceOfOrigin(function, b, e) \in 1 .. Len(OriginsOf(function))
      /\ PlaceOfOrigin(function, c, f) \in 1 .. Len(OriginsOf(function))
      /\ OriginsOf(function)[PlaceOfOrigin(function, b, e)]
             = OriginsOf(function)[PlaceOfOrigin(function, c, f)]
  BY OriginAtPlace
<1>2. DOMAIN OriginsOf(function) = 1 .. Len(OriginsOf(function))
  <2>1. OriginsOf(function) \in Seq(Nat)
    BY OriginsAt DEF Joined
  <2> QED
    BY <2>1
<1>3. PlaceOfOrigin(function, b, e) = PlaceOfOrigin(function, c, f)
  BY <1>1, <1>2, Zenon DEF Distinct
<1> DEFINE byBlock == OriginsByBlock(function)
<1>4. /\ byBlock \in Seq(Seq(Nat)) /\ Len(byBlock) = Len(function.blocks)
      /\ byBlock[b] = OriginsInBlock(function.blocks[b])
      /\ byBlock[c] = OriginsInBlock(function.blocks[c])
  BY OriginsAt
<1>5. Starts(byBlock)[b - 1] + e = Starts(byBlock)[c - 1] + f
  BY <1>3 DEF PlaceOfOrigin
<1> HIDE DEF byBlock
<1>6. \A m \in 1 .. Len(byBlock), n \in 1 .. Len(byBlock) :
          \A p \in 1 .. Len(byBlock[m]), q \in 1 .. Len(byBlock[n]) :
              Starts(byBlock)[m - 1] + p = Starts(byBlock)[n - 1] + q => m = n /\ p = q
  BY <1>4, PlacesUnique
<1>7. /\ b \in 1 .. Len(byBlock) /\ c \in 1 .. Len(byBlock)
      /\ e \in 1 .. Len(byBlock[b]) /\ f \in 1 .. Len(byBlock[c])
  BY <1>4, Zenon
<1> QED
  BY <1>5, <1>6, <1>7, ZenonT(40)

\* The first origin of a block is its own.
LEMMA BlockOriginFirst ==
    ASSUME NEW block \in MachineBlock
    PROVE  1 \in 1 .. Len(OriginsInBlock(block)) /\ OriginsInBlock(block)[1] = block.origin
<1> DEFINE P == Len(block.parameters)
           A == Len(block.actions)
           count == Len(OriginsInBlock(block))
<1>1. P \in Nat /\ A \in Nat /\ count = 1 + P + A /\ OriginsInBlock(block)[1] = block.origin
  BY OriginsInBlockAt
<1>2. P \in Nat /\ A \in Nat /\ count = 1 + P + A
  BY <1>1
<1>3. 1 \in 1 .. count
  <2> HIDE DEF P, A, count
  <2> QED
    BY <1>2
<1> QED
  BY <1>1, <1>3

\* Where the function's origins differ, so do those of its values and blocks.
LEMMA FunctionOriginsApart ==
    ASSUME function_ \in MachineFunction, Distinct(OriginsOf(function_))
    PROVE  /\ \A i, j \in 1 .. ValueCount :
                  FunctionValues[i].origin = FunctionValues[j].origin => i = j
           /\ \A b, c \in 1 .. BlockCount : Blocks[b].origin = Blocks[c].origin => b = c
           /\ \A i \in 1 .. ValueCount, b \in 1 .. BlockCount :
                  FunctionValues[i].origin # Blocks[b].origin
<1> USE DEF ValueCount, FunctionValues, BlockCount, Blocks
<1>1. \A b \in 1 .. BlockCount :
          /\ 1 \in 1 .. Len(OriginsInBlock(Blocks[b]))
          /\ OriginsInBlock(Blocks[b])[1] = Blocks[b].origin
  BY BlockParts, BlockOriginFirst
<1>5. \A b, c \in 1 .. BlockCount :
          \A e \in 1 .. Len(OriginsInBlock(Blocks[b])),
             f \in 1 .. Len(OriginsInBlock(Blocks[c])) :
              OriginsInBlock(Blocks[b])[e] = OriginsInBlock(Blocks[c])[f] => b = c /\ e = f
  BY OneOriginOnePlace
<1>2. ASSUME NEW i \in 1 .. ValueCount, NEW j \in 1 .. ValueCount,
             FunctionValues[i].origin = FunctionValues[j].origin
      PROVE  i = j
  <2>1. PICK b, e : Originates(function_, i, b, e)
    BY ValueOriginates
  <2>2. PICK c, f : Originates(function_, j, c, f)
    BY ValueOriginates
  <2>3. b = c /\ e = f
    BY <1>2, <2>1, <2>2, OneOriginOnePlace, Zenon DEF Originates
  <2> QED
    BY <2>1, <2>2, <2>3, Zenon DEF Originates
<1>3. ASSUME NEW b \in 1 .. BlockCount, NEW c \in 1 .. BlockCount,
             Blocks[b].origin = Blocks[c].origin
      PROVE  b = c
  <2> HIDE DEF Blocks, BlockCount
  <2>1. OriginsInBlock(Blocks[b])[1] = OriginsInBlock(Blocks[c])[1]
    BY <1>1, <1>3, Zenon
  <2> QED
    BY <1>1, <1>5, <2>1, Zenon
<1>4. ASSUME NEW i \in 1 .. ValueCount, NEW b \in 1 .. BlockCount
      PROVE  FunctionValues[i].origin # Blocks[b].origin
  <2>1. PICK c, f : Originates(function_, i, c, f)
    BY ValueOriginates
  <2>2. ASSUME FunctionValues[i].origin = Blocks[b].origin
        PROVE  FALSE
    <3>1. /\ c \in 1 .. BlockCount /\ f \in 1 .. Len(OriginsInBlock(Blocks[c]))
          /\ OriginsInBlock(Blocks[c])[f] = OriginsInBlock(Blocks[b])[1]
          /\ f # 1
      BY <1>1, <2>1, <2>2, Zenon DEF Originates
    <3> HIDE DEF Blocks, BlockCount
    <3>2. 1 \in 1 .. Len(OriginsInBlock(Blocks[b]))
      BY <1>1
    <3>3. f = 1
      BY <1>5, <3>1, <3>2
    <3> QED
      BY <3>1, <3>3
  <2> QED
    BY <2>2
<1> QED
  BY <1>2, <1>3, <1>4

\* No origin of the function's values or blocks is zero or above the greatest.
LEMMA FunctionOriginsBound ==
    ASSUME function_ \in MachineFunction, Verified(function_)
    PROVE  /\ MaximumOrigin \in Nat
           /\ \A i \in 1 .. ValueCount : FunctionValues[i].origin \in 1 .. MaximumOrigin
           /\ \A b \in 1 .. BlockCount : Blocks[b].origin \in 1 .. MaximumOrigin
<1>1. OriginsOf(function_) \in Seq(Nat)
  BY OriginsAt DEF Joined
<1>2. /\ MaximumOrigin \in {OriginsOf(function_)[n] : n \in DOMAIN OriginsOf(function_)}
      /\ \A n \in 1 .. Len(OriginsOf(function_)) :
             OriginsOf(function_)[n] \in Nat /\ OriginsOf(function_)[n] <= MaximumOrigin
  BY MaximumIsGreatest DEF Verified
<1>3. \A n \in 1 .. Len(OriginsOf(function_)) : OriginsOf(function_)[n] # 0
  <2>1. \A n \in DOMAIN OriginsOf(function_) : OriginsOf(function_)[n] # 0
    BY Zenon DEF Verified, NamesUnique
  <2> QED
    BY <1>1, <2>1
<1>4. MaximumOrigin \in Nat
  BY <1>1, <1>2
<1>5. \A n \in 1 .. Len(OriginsOf(function_)) : OriginsOf(function_)[n] \in 1 .. MaximumOrigin
  BY <1>2, <1>3, <1>4
<1>6. \A b \in 1 .. Len(function_.blocks) :
          \A e \in 1 .. Len(OriginsInBlock(function_.blocks[b])) :
              OriginsInBlock(function_.blocks[b])[e] \in 1 .. MaximumOrigin
  BY <1>5, OriginAtPlace, ZenonT(40)
<1>7. ASSUME NEW i \in 1 .. ValueCount PROVE FunctionValues[i].origin \in 1 .. MaximumOrigin
  <2>1. PICK b, e : Originates(function_, i, b, e)
    BY ValueOriginates DEF ValueCount, FunctionValues
  <2> QED
    BY <1>6, <2>1, Zenon DEF Originates, FunctionValues
<1>8. ASSUME NEW b \in 1 .. BlockCount PROVE Blocks[b].origin \in 1 .. MaximumOrigin
  <2>1. Blocks[b] \in MachineBlock /\ Blocks[b] = function_.blocks[b]
        /\ b \in 1 .. Len(function_.blocks)
    BY BlockParts DEF BlockCount, Blocks
  <2>2. /\ 1 \in 1 .. Len(OriginsInBlock(Blocks[b]))
        /\ OriginsInBlock(Blocks[b])[1] = Blocks[b].origin
    BY <2>1, BlockOriginFirst
  <2> QED
    BY <1>6, <2>1, <2>2
<1> QED
  BY <1>4, <1>7, <1>8

\* No origin is given yet.
LEMMA OriginsInit == LoweringInit => OriginsInOrder
BY EmptyIsSequence
DEF LoweringInit, OriginsInOrder, ValueOriginsKept, AfterVerify, AfterValues

\* The greatest origin depends on the function alone.
LEMMA SameMaximum ==
    ASSUME source' = source
    PROVE  MaximumOrigin' = MaximumOrigin /\ ValueCount' = ValueCount
<1>1. function_' = function_ /\ FunctionValues' = FunctionValues
  BY SameFunction
<1>2. MaximumOrigin' = MaximumOrigin
  BY <1>1, Zenon DEF MaximumOrigin
<1> QED
  BY <1>1, <1>2 DEF ValueCount

\* What gives no origin keeps their order.
LEMMA OriginsFrame ==
    ASSUME OriginsInOrder, UNCHANGED <<source, allocated, next_origin, edges>>,
           \/ loop' = loop
           \/ loop \in AfterValues /\ loop' \in AfterEdges
           \/ loop' \notin AfterVerify \cup {"verify"}
    PROVE  OriginsInOrder'
<1>1. /\ allocated' = allocated /\ next_origin' = next_origin /\ edges' = edges
      /\ FunctionValues' = FunctionValues
      /\ MaximumOrigin' = MaximumOrigin /\ ValueCount' = ValueCount
  BY SameFunction, SameMaximum
<1>2. ValueOriginsKept => ValueOriginsKept'
  BY <1>1 DEF ValueOriginsKept
<1>3. SyntheticInOrder => SyntheticInOrder'
  <2>1. Given' = Given
    BY <1>1 DEF Given
  <2> QED
    BY <1>1, <2>1 DEF SyntheticInOrder
<1> QED
  BY <1>1, <1>2, <1>3 DEF OriginsInOrder, AfterVerify, AfterValues, AfterEdges

\* The numbers the steps calculate with.
LEMMA OriginNumbers ==
    ASSUME LookupsSucceed
    PROVE  /\ ValueCount \in Nat /\ Len(allocated) \in Nat /\ Len(edges) \in Nat
           /\ MaxOrigin \in Nat /\ next_origin \in 0 .. MaxOrigin
           /\ loop \in AfterVerify => MaximumOrigin \in Nat /\ MaximumOrigin <= MaxOrigin
<1>1. ValueCount \in Nat /\ MaxOrigin \in Nat /\ next_origin \in 0 .. MaxOrigin
  BY TypedSource, LimitsAssumption DEF ValueCount, LookupsSucceed
<1>2. Len(allocated) \in Nat
  BY AppendIsSequence DEF LookupsSucceed, ValuesNamed
<1>3. Len(edges) \in Nat
  <2>1. edges \in Seq(EdgeBuild)
    BY DEF LookupsSucceed, EdgesAgree
  <2> HIDE DEF EdgeBuild
  <2> QED
    BY <2>1
<1>4. ASSUME function_.blocks # << >> PROVE MaximumOrigin \in Nat /\ MaximumOrigin <= MaxOrigin
  <2>1. function_ \in MachineFunction
    BY TypedSource
  <2>2. PICK n \in DOMAIN OriginsOf(function_) : MaximumOrigin = OriginsOf(function_)[n]
    BY <1>4, <2>1, MaximumIsGreatest
  <2>3. OriginsOf(function_) \in Seq(Nat)
    BY <2>1, OriginsAt DEF Joined
  <2>4. n \in 1 .. Len(OriginsOf(function_))
    BY <2>2, <2>3
  <2> QED
    BY <1>4, <2>1, <2>2, <2>4, MaximumIsGreatest, TypedSource
<1>5. loop \in AfterVerify => function_.blocks # << >>
  BY DEF LookupsSucceed, Verified
<1> QED
  BY <1>1, <1>2, <1>3, <1>4, <1>5

\* The first synthetic origin is the next after the function's.
LEMMA VerifyOrders ==
    ASSUME LookupsSucceed, LookupsSucceed', OriginsInOrder, Verify
    PROVE  OriginsInOrder'
<1>1. /\ loop = "verify" /\ UNCHANGED <<source, allocated, edges>>
      /\ loop' # "values" => loop' = "refused" /\ next_origin' = next_origin
      /\ loop' = "values" => MaximumOrigin # MaxOrigin /\ next_origin' = MaximumOrigin + 1
  BY DEF Verify
<1>2. CASE loop' # "values"
  BY <1>1, <1>2, OriginsFrame DEF AfterVerify
<1>3. CASE loop' = "values"
  <2>1. /\ allocated' = allocated /\ edges' = edges /\ FunctionValues' = FunctionValues
        /\ MaximumOrigin' = MaximumOrigin /\ ValueCount' = ValueCount
    BY <1>1, SameFunction, SameMaximum
  <2>2. MaximumOrigin \in Nat /\ MaximumOrigin <= MaxOrigin /\ MaxOrigin \in Nat
    <3>1. (loop \in AfterVerify)' => (MaximumOrigin \in Nat /\ MaximumOrigin <= MaxOrigin)'
      BY OriginNumbers, PTL
    <3> QED
      BY <1>3, <2>1, <3>1, OriginNumbers DEF AfterVerify
  <2>3. ValueOriginsKept'
    BY <1>1, <2>1 DEF OriginsInOrder, ValueOriginsKept
  <2> QED
    BY <1>1, <1>3, <2>1, <2>2, <2>3 DEF OriginsInOrder, AfterVerify, AfterValues
<1> QED
  BY <1>2, <1>3

\* A longer sequence, by its places.
LEMMA AppendedAt ==
    ASSUME NEW s, IsSequence(s), NEW e
    PROVE  /\ Len(Append(s, e)) = Len(s) + 1 /\ Len(s) \in Nat
           /\ \A n \in 1 .. Len(s) : Append(s, e)[n] = s[n]
           /\ Append(s, e)[Len(s) + 1] = e
<1> DEFINE T == {s[i] : i \in DOMAIN s} \cup {e}
<1>1. s \in Seq(T) /\ e \in T
  BY DEF IsSequence
<1> HIDE DEF T
<1> QED
  BY <1>1

\* The same for two more elements.
LEMMA PairAppendedAt ==
    ASSUME NEW s, IsSequence(s), NEW e, NEW f
    PROVE  /\ Len(s \o <<e, f>>) = Len(s) + 2 /\ Len(s) \in Nat
           /\ \A n \in 1 .. Len(s) : (s \o <<e, f>>)[n] = s[n]
           /\ (s \o <<e, f>>)[Len(s) + 1] = e
           /\ (s \o <<e, f>>)[Len(s) + 2] = f
<1> DEFINE T == {s[i] : i \in DOMAIN s} \cup {e, f}
<1>1. s \in Seq(T) /\ <<e, f>> \in Seq(T)
  BY DEF IsSequence
<1> HIDE DEF T
<1> QED
  BY <1>1

\* A value is allocated under its own origin.
LEMMA AllocateValueOrders ==
    ASSUME LookupsSucceed, OriginsInOrder, AllocateValue
    PROVE  OriginsInOrder'
<1>1. /\ loop = "values" /\ Len(allocated) < ValueCount
      /\ UNCHANGED <<source, next_origin, edges>>
  BY DEF AllocateValue, ValueCount
<1>2. CASE loop' = "refused"
  <2>1. allocated' = allocated
    BY <1>2 DEF AllocateValue
  <2> QED
    BY <1>1, <1>2, <2>1, OriginsFrame DEF AfterVerify
<1>3. CASE loop' # "refused"
  <2>1. PICK physical : /\ allocated' = Append(allocated, physical) /\ loop' = "values"
                        /\ physical.origin = FunctionValues[Len(allocated) + 1].origin
    <3>1. /\ allocated' = Append(allocated,
                  Allocated(next_carrier, FunctionValues[Len(allocated) + 1].domain,
                            FunctionValues[Len(allocated) + 1].origin))
          /\ loop' = "values"
      BY <1>1, <1>3, Zenon DEF AllocateValue
    <3>2. Allocated(next_carrier, FunctionValues[Len(allocated) + 1].domain,
                    FunctionValues[Len(allocated) + 1].origin).origin
              = FunctionValues[Len(allocated) + 1].origin
      BY DEF Allocated
    <3> QED
      BY <3>1, <3>2, Zenon
  <2>2. IsSequence(allocated)
    BY DEF LookupsSucceed, ValuesNamed
  <2>3. /\ edges' = edges /\ next_origin' = next_origin /\ FunctionValues' = FunctionValues
        /\ MaximumOrigin' = MaximumOrigin /\ ValueCount' = ValueCount
    BY <1>1, SameFunction, SameMaximum
  <2>4. /\ Len(allocated') = Len(allocated) + 1 /\ Len(allocated) \in Nat
        /\ \A n \in 1 .. Len(allocated) : allocated'[n] = allocated[n]
        /\ allocated'[Len(allocated) + 1] = physical
    BY <2>1, <2>2, AppendedAt
  <2>5. ASSUME NEW n \in 1 .. Len(allocated'), n <= ValueCount
        PROVE  allocated'[n].origin = FunctionValues[n].origin
    <3>1. CASE n = Len(allocated) + 1
      BY <2>1, <2>4, <3>1
    <3>2. CASE n # Len(allocated) + 1
      <4>1. n \in 1 .. Len(allocated) /\ allocated'[n] = allocated[n]
        BY <2>4, <2>5, <3>2
      <4>2. ValueOriginsKept
        BY <1>1 DEF OriginsInOrder, AfterVerify
      <4> QED
        BY <2>5, <4>1, <4>2 DEF ValueOriginsKept
    <3> QED
      BY <3>1, <3>2
  <2>6. ValueOriginsKept'
    BY <2>3, <2>5 DEF ValueOriginsKept
  <2> QED
    BY <1>1, <2>1, <2>3, <2>6 DEF OriginsInOrder, AfterVerify, AfterValues
<1> QED
  BY <1>2, <1>3

\* Between the values and the edges no synthetic origin is given.
LEMMA FinishValuesOrders ==
    ASSUME LookupsSucceed, OriginsInOrder, FinishValues
    PROVE  OriginsInOrder'
<1>1. /\ loop = "values" /\ loop' = "edges" /\ Len(allocated) = ValueCount
      /\ allocated' = allocated /\ next_origin' = next_origin /\ edges' = edges
      /\ source' = source
  BY DEF FinishValues, ValueCount
<1>2. /\ FunctionValues' = FunctionValues
      /\ MaximumOrigin' = MaximumOrigin /\ ValueCount' = ValueCount
  BY <1>1, SameFunction, SameMaximum
<1>3. /\ ValueCount \in Nat /\ MaxOrigin \in Nat /\ MaximumOrigin \in Nat
  BY <1>1, OriginNumbers DEF AfterVerify
<1>4. /\ ValueOriginsKept /\ Len(edges) = 0 /\ MaximumOrigin < MaxOrigin
      /\ next_origin = MaximumOrigin + 1
  BY <1>1 DEF OriginsInOrder, AfterVerify
<1>5. ValueOriginsKept'
  BY <1>1, <1>2, <1>4 DEF ValueOriginsKept
<1>6. SyntheticInOrder'
  <2>1. Given' = 0
    BY <1>1, <1>2, <1>3, <1>4 DEF Given
  <2> QED
    BY <1>1, <1>2, <1>3, <1>4, <2>1 DEF SyntheticInOrder
<1> QED
  BY <1>1, <1>2, <1>5, <1>6 DEF OriginsInOrder

\* The origin after one more is given.
LEMMA NextAfter ==
    ASSUME NEW m \in Nat, NEW g \in Nat, NEW origin \in 1 .. MaxOrigin, origin = m + g + 1
    PROVE  OriginAfter(origin) = IF m + (g + 1) < MaxOrigin THEN m + (g + 1) + 1 ELSE 0
<1>1. MaxOrigin \in Nat /\ origin \in 0 .. MaxOrigin
  BY LimitsAssumption
<1>2. /\ origin < MaxOrigin => OriginAfter(origin) = origin + 1
      /\ origin = MaxOrigin => OriginAfter(origin) = 0
  BY <1>1, OriginAfterInRange
<1> QED
  BY <1>1, <1>2

\* An edge takes the next origin, if there is one.
LEMMA AddEdgeOrders ==
    ASSUME LookupsSucceed, OriginsInOrder, AddEdge
    PROVE  OriginsInOrder'
<1>1. /\ loop = "edges" /\ UNCHANGED <<source, allocated>>
  BY DEF AddEdge
<1>2. CASE loop' # "edges"
  <2>1. loop' \in {"refused", "threw"} /\ edges' = edges /\ next_origin' = next_origin
    BY <1>1, <1>2, Zenon DEF AddEdge
  <2> QED
    BY <1>1, <2>1, OriginsFrame DEF AfterVerify
<1>3. CASE loop' = "edges"
  <2>1. PICK added : /\ edges' = Append(edges, added) /\ added.origin = next_origin
                     /\ next_origin # 0 /\ next_origin' = OriginAfter(next_origin)
    <3>1. /\ next_origin # 0 /\ next_origin' = OriginAfter(next_origin)
          /\ \E s, t, a : edges' = Append(edges, [source |-> s, target |-> t, arguments |-> a,
                                                  origin |-> next_origin])
      BY <1>1, <1>3, Zenon DEF AddEdge
    <3>2. PICK s, t, a : edges' = Append(edges, [source |-> s, target |-> t, arguments |-> a,
                                                 origin |-> next_origin])
      BY <3>1
    <3>3. [source |-> s, target |-> t, arguments |-> a, origin |-> next_origin].origin
              = next_origin
      OBVIOUS
    <3> QED
      BY <3>1, <3>2, <3>3, Zenon
  <2>2. /\ allocated' = allocated /\ FunctionValues' = FunctionValues
        /\ MaximumOrigin' = MaximumOrigin /\ ValueCount' = ValueCount
    BY <1>1, SameFunction, SameMaximum
  <2>3. /\ ValueCount \in Nat /\ MaxOrigin \in Nat /\ MaximumOrigin \in Nat
        /\ Len(edges) \in Nat /\ next_origin \in 0 .. MaxOrigin
    BY <1>1, OriginNumbers DEF AfterVerify
  <2>4. ValueOriginsKept /\ SyntheticInOrder /\ Len(allocated) = ValueCount
    BY <1>1 DEF OriginsInOrder, AfterVerify, AfterValues
  <2>5. /\ Len(edges') = Len(edges) + 1
        /\ \A e \in 1 .. Len(edges) : edges'[e] = edges[e]
        /\ edges'[Len(edges) + 1] = added
    <3>1. edges \in Seq(EdgeBuild)
      BY DEF LookupsSucceed, EdgesAgree
    <3>2. IsSequence(edges)
      <4> HIDE DEF EdgeBuild
      <4> QED
        BY <3>1 DEF IsSequence
    <3> QED
      BY <2>1, <3>2, AppendedAt
  <2>6. ValueOriginsKept'
    BY <2>2, <2>4 DEF ValueOriginsKept
  <2>7. Given = Len(edges) /\ Given' = Len(edges) + 1
    BY <2>2, <2>3, <2>4, <2>5 DEF Given
  <2>8. /\ MaximumOrigin + Len(edges) < MaxOrigin
        /\ next_origin = MaximumOrigin + Len(edges) + 1
    BY <2>1, <2>3, <2>4, <2>7 DEF SyntheticInOrder
  <2>9. ASSUME NEW e \in 1 .. Len(edges')
        PROVE  edges'[e].origin = MaximumOrigin + e
    <3>1. CASE e = Len(edges) + 1
      BY <2>1, <2>3, <2>5, <2>8, <3>1
    <3>2. CASE e # Len(edges) + 1
      <4>1. e \in 1 .. Len(edges) /\ edges'[e] = edges[e]
        BY <2>3, <2>5, <3>2
      <4> QED
        BY <2>4, <4>1 DEF SyntheticInOrder
    <3> QED
      BY <3>1, <3>2
  <2>10. next_origin' = IF MaximumOrigin + Given' < MaxOrigin
                        THEN MaximumOrigin + Given' + 1 ELSE 0
    <3>1. next_origin \in 1 .. MaxOrigin
      BY <2>1, <2>3
    <3>2. OriginAfter(next_origin) = IF MaximumOrigin + (Len(edges) + 1) < MaxOrigin
                                     THEN MaximumOrigin + (Len(edges) + 1) + 1 ELSE 0
      BY <2>3, <2>8, <3>1, NextAfter
    <3> QED
      BY <2>1, <2>7, <3>2, Zenon
  <2>11. SyntheticInOrder'
    BY <2>2, <2>3, <2>4, <2>7, <2>8, <2>9, <2>10 DEF SyntheticInOrder
  <2> QED
    BY <1>3, <2>2, <2>4, <2>6, <2>11 DEF OriginsInOrder
<1> QED
  BY <1>2, <1>3

\* The two states of a block take the next two, if there are two.
LEMMA AddStateOrders ==
    ASSUME LookupsSucceed, OriginsInOrder, AddState
    PROVE  OriginsInOrder'
<1>1. /\ loop = "states" /\ UNCHANGED <<source, edges>>
  BY DEF AddState
<1>2. CASE loop' # "states"
  <2>1. loop' = "refused" /\ allocated' = allocated /\ next_origin' = next_origin
    BY <1>1, <1>2, Zenon DEF AddState
  <2> QED
    BY <1>1, <2>1, OriginsFrame DEF AfterVerify
<1>3. CASE loop' = "states"
  <2>1. PICK semantic, history :
            /\ next_origin # 0 /\ OriginAfter(next_origin) # 0
            /\ allocated' = allocated \o <<semantic, history>>
            /\ semantic.origin = next_origin /\ history.origin = OriginAfter(next_origin)
            /\ next_origin' = OriginAfter(OriginAfter(next_origin))
    <3> DEFINE semantic == Allocated(next_carrier, "Semantic", next_origin)
               history == Allocated(next_carrier + kPhysicalShares, "History",
                                    OriginAfter(next_origin))
    <3>1. /\ next_origin # 0 /\ OriginAfter(next_origin) # 0
          /\ allocated' = allocated \o <<semantic, history>>
          /\ next_origin' = OriginAfter(OriginAfter(next_origin))
      BY <1>1, <1>3, Zenon DEF AddState
    <3>2. semantic.origin = next_origin /\ history.origin = OriginAfter(next_origin)
      BY DEF Allocated
    <3> HIDE DEF semantic, history
    <3> QED
      BY <3>1, <3>2, Zenon
  <2>2. /\ edges' = edges /\ FunctionValues' = FunctionValues
        /\ MaximumOrigin' = MaximumOrigin /\ ValueCount' = ValueCount
    BY <1>1, SameFunction, SameMaximum
  <2>3. /\ ValueCount \in Nat /\ MaxOrigin \in Nat /\ MaximumOrigin \in Nat
        /\ Len(edges) \in Nat /\ Len(allocated) \in Nat /\ next_origin \in 0 .. MaxOrigin
    BY <1>1, OriginNumbers DEF AfterVerify
  <2>4. ValueOriginsKept /\ SyntheticInOrder
    BY <1>1 DEF OriginsInOrder, AfterVerify, AfterValues
  <2>5. /\ Len(allocated') = Len(allocated) + 2
        /\ \A n \in 1 .. Len(allocated) : allocated'[n] = allocated[n]
        /\ allocated'[Len(allocated) + 1] = semantic
        /\ allocated'[Len(allocated) + 2] = history
    <3>1. IsSequence(allocated)
      BY DEF LookupsSucceed, ValuesNamed
    <3> QED
      BY <2>1, <3>1, PairAppendedAt
  <2>6. /\ Given \in Nat /\ Given' = Given + 2
        /\ Given = Len(edges) + (Len(allocated) - ValueCount) /\ ValueCount <= Len(allocated)
    <3>1. ValueCount <= Len(allocated)
      BY <2>4 DEF SyntheticInOrder
    <3>2. Len(allocated') = Len(allocated) + 2
      BY <2>5
    <3> QED
      BY <2>2, <2>3, <3>1, <3>2 DEF Given
  <2>7. /\ next_origin = MaximumOrigin + Given + 1 /\ next_origin \in 1 .. MaxOrigin
    BY <2>1, <2>3, <2>4 DEF SyntheticInOrder
  <2>8. /\ OriginAfter(next_origin) = next_origin + 1 /\ next_origin + 1 \in 0 .. MaxOrigin
    BY <2>1, <2>3, <2>7, OriginAfterInRange, SMTT(30)
  <2>9. next_origin' = IF MaximumOrigin + Given' < MaxOrigin
                       THEN MaximumOrigin + Given' + 1 ELSE 0
    <3>1. next_origin' = OriginAfter(next_origin + 1)
      BY <2>1, <2>8
    <3>2. /\ next_origin + 1 \in 1 .. MaxOrigin /\ Given + 1 \in Nat
          /\ next_origin + 1 = MaximumOrigin + (Given + 1) + 1
          /\ Given' = (Given + 1) + 1
      BY <2>3, <2>6, <2>7, <2>8
    <3>3. OriginAfter(next_origin + 1)
              = IF MaximumOrigin + ((Given + 1) + 1) < MaxOrigin
                THEN MaximumOrigin + ((Given + 1) + 1) + 1 ELSE 0
      BY <2>3, <3>2, NextAfter
    <3> QED
      BY <3>1, <3>2, <3>3, Zenon
  <2>10. ASSUME NEW n \in 1 .. Len(allocated')
         PROVE  /\ n <= ValueCount => allocated'[n].origin = FunctionValues[n].origin
                /\ n > ValueCount =>
                       allocated'[n].origin = MaximumOrigin + Len(edges) + (n - ValueCount)
    <3>1. CASE n = Len(allocated) + 1
      BY <2>1, <2>3, <2>5, <2>6, <2>7, <3>1, SMTT(30)
    <3>2. CASE n = Len(allocated) + 2
      BY <2>1, <2>3, <2>5, <2>6, <2>7, <2>8, <3>2, SMTT(30)
    <3>3. CASE n # Len(allocated) + 1 /\ n # Len(allocated) + 2
      <4>1. n \in 1 .. Len(allocated) /\ allocated'[n] = allocated[n]
        BY <2>3, <2>5, <3>3
      <4> QED
        BY <2>4, <4>1 DEF ValueOriginsKept, SyntheticInOrder
    <3> QED
      BY <3>1, <3>2, <3>3
  <2>11. ValueOriginsKept'
    BY <2>2, <2>10 DEF ValueOriginsKept
  <2>12. SyntheticInOrder'
    <3>1. ValueCount <= Len(allocated') /\ MaximumOrigin + Given' <= MaxOrigin
      BY <2>3, <2>5, <2>6, <2>7, <2>8
    <3> QED
      BY <2>2, <2>4, <2>9, <2>10, <3>1 DEF SyntheticInOrder
  <2> QED
    BY <1>3, <2>11, <2>12 DEF OriginsInOrder
<1> QED
  BY <1>2, <1>3

\* The islands are emitted when every origin is given.
LEMMA IslandsGiveNoOrigin ==
    ASSUME LoweringNext, ~ Verify, ~ AllocateValue, ~ FinishValues, ~ AddEdge, ~ AddState
    PROVE  /\ UNCHANGED <<source, allocated, next_origin, edges>>
           /\ \/ loop' = loop
              \/ loop \in AfterValues /\ loop' \in AfterEdges
              \/ loop' \notin AfterVerify \cup {"verify"}
<1>1. CASE FinishEdges \/ FinishStates \/ BeginIsland \/ FinishLowering
  BY <1>1 DEF FinishEdges, FinishStates, BeginIsland, FinishLowering,
              AfterEdges, AfterValues, AfterVerify
<1>2. CASE LowerAction
  BY <1>2 DEF LowerAction, AfterVerify
<1>3. CASE CopyArgument
  <2>1. /\ UNCHANGED <<source, allocated, next_origin, edges>>
        /\ loop' = loop \/ loop' = "threw"
    BY <1>3, Zenon DEF CopyArgument
  <2> QED
    BY <2>1 DEF AfterVerify
<1>4. ASSUME NEW state, NEW origin, NEW salts, NEW targets, NEW condition,
             FinishIsland(state, origin, salts, targets, condition)
      PROVE  loop' = loop \/ loop' = "refused"
  BY <1>4, Zenon DEF FinishIsland
<1>5. CASE FinishBlock
  <2>1. /\ UNCHANGED <<source, allocated, next_origin, edges>>
        /\ \/ loop' = "threw"
           \/ \E state, origin, salts, targets, condition :
                  FinishIsland(state, origin, salts, targets, condition)
    BY <1>5, Zenon DEF FinishBlock
  <2> QED
    BY <1>4, <2>1 DEF AfterVerify
<1>6. CASE FinishEdge
  <2>1. /\ UNCHANGED <<source, allocated, next_origin, edges>>
        /\ \E state, origin, salts, targets, condition :
               FinishIsland(state, origin, salts, targets, condition)
    BY <1>6, Zenon DEF FinishEdge
  <2> QED
    BY <1>4, <2>1 DEF AfterVerify
<1> QED
  BY <1>1, <1>2, <1>3, <1>5, <1>6 DEF LoweringNext

\* Every edge and every state takes the next origin after the function's own, and
\* none is taken once they have wrapped.
THEOREM OriginsKeepOrder == LoweringSpec => []OriginsInOrder
<1>1. LookupsSucceed /\ LookupsSucceed' /\ OriginsInOrder /\ [LoweringNext]_loweringVars
          => OriginsInOrder'
  <2> SUFFICES ASSUME LookupsSucceed, LookupsSucceed', OriginsInOrder,
                      [LoweringNext]_loweringVars
               PROVE  OriginsInOrder'
    OBVIOUS
  <2>1. CASE Verify
    BY <2>1, VerifyOrders
  <2>2. CASE AllocateValue
    BY <2>2, AllocateValueOrders
  <2>3. CASE FinishValues
    BY <2>3, FinishValuesOrders
  <2>4. CASE AddEdge
    BY <2>4, AddEdgeOrders
  <2>5. CASE AddState
    BY <2>5, AddStateOrders
  <2>6. CASE /\ LoweringNext /\ ~ Verify /\ ~ AllocateValue /\ ~ FinishValues /\ ~ AddEdge
             /\ ~ AddState
    BY <2>6, IslandsGiveNoOrigin, OriginsFrame
  <2>7. CASE UNCHANGED loweringVars
    BY <2>7, OriginsFrame DEF loweringVars
  <2> QED
    BY <2>1, <2>2, <2>3, <2>4, <2>5, <2>6, <2>7
<1> QED
  BY <1>1, OriginsInit, LookupsHold, PTL DEF LoweringSpec

\* Two sequences in one, by their places.
LEMMA InConcatenation ==
    ASSUME NEW s \in Seq(Nat), NEW t \in Seq(Nat), NEW i \in DOMAIN (s \o t)
    PROVE  \/ i \in DOMAIN s /\ (s \o t)[i] = s[i]
           \/ i - Len(s) \in DOMAIN t /\ (s \o t)[i] = t[i - Len(s)]
OBVIOUS

\* Nothing is twice in two sequences that have nothing in common.
LEMMA ConcatenationDistinct ==
    ASSUME NEW s \in Seq(Nat), NEW t \in Seq(Nat), Distinct(s), Distinct(t),
           \A i \in DOMAIN s, j \in DOMAIN t : s[i] # t[j]
    PROVE  Distinct(s \o t)
<1> SUFFICES ASSUME NEW i \in DOMAIN (s \o t), NEW j \in DOMAIN (s \o t),
                    (s \o t)[i] = (s \o t)[j]
             PROVE  i = j
  BY DEF Distinct
<1>1. Len(s) \in Nat /\ i \in Nat /\ j \in Nat
  OBVIOUS
<1>2. CASE i \in DOMAIN s /\ (s \o t)[i] = s[i]
  <2>1. j \in DOMAIN s /\ (s \o t)[j] = s[j]
    BY <1>2, InConcatenation, ZenonT(40)
  <2> QED
    BY <1>2, <2>1 DEF Distinct
<1>3. CASE i - Len(s) \in DOMAIN t /\ (s \o t)[i] = t[i - Len(s)]
  <2>1. j - Len(s) \in DOMAIN t /\ (s \o t)[j] = t[j - Len(s)]
    <3>1. ~ (j \in DOMAIN s /\ (s \o t)[j] = s[j])
      <4> SUFFICES ASSUME j \in DOMAIN s, (s \o t)[j] = s[j] PROVE FALSE
        OBVIOUS
      <4>1. s[j] = t[i - Len(s)]
        BY <1>3
      <4> QED
        BY <1>3, <4>1, Zenon
    <3> QED
      BY <3>1, InConcatenation
  <2>2. i - Len(s) = j - Len(s)
    BY <1>3, <2>1 DEF Distinct
  <2> QED
    BY <1>1, <2>2
<1> QED
  BY <1>2, <1>3, InConcatenation

\* Once the origins are given: the values have the function's own, all that is
\* synthetic one of its own above them.
LEMMA OrderIsUnique == LookupsSucceed /\ OriginsInOrder => OriginsUnique
<1> SUFFICES ASSUME LookupsSucceed, OriginsInOrder, loop \in {"islands", "lowered"}
             PROVE  OriginsUnique
  BY DEF OriginsUnique
<1> DEFINE physical == [n \in DOMAIN allocated |-> allocated[n].origin]
           synthetic == [e \in DOMAIN edges |-> edges[e].origin]
           blocks == [b \in 1 .. BlockCount |-> Blocks[b].origin]
           M == MaximumOrigin
           V == ValueCount
           E == Len(edges)
           N == Len(allocated)
<1>1. /\ function_ \in MachineFunction /\ Verified(function_) /\ BlockCount \in Nat
      /\ Distinct(OriginsOf(function_))
  BY TypedSource DEF LookupsSucceed, AfterVerify, Verified, NamesUnique
<1>2. V \in Nat /\ N \in Nat /\ E \in Nat /\ M \in Nat
  BY OriginNumbers DEF AfterVerify
<1>3. DOMAIN allocated = 1 .. N /\ DOMAIN edges = 1 .. E
  <2>1. edges \in Seq(EdgeBuild) /\ IsSequence(allocated)
    BY DEF LookupsSucceed, EdgesAgree, ValuesNamed
  <2>2. DOMAIN allocated = 1 .. N
    BY <2>1 DEF IsSequence
  <2>3. DOMAIN edges = 1 .. E
    <3> HIDE DEF EdgeBuild
    <3> QED
      BY <2>1
  <2> QED
    BY <2>2, <2>3
<1>4. /\ \A n \in 1 .. N : n <= V => physical[n] = FunctionValues[n].origin
      /\ \A n \in 1 .. N : n > V => physical[n] = M + E + (n - V)
      /\ \A e \in 1 .. E : synthetic[e] = M + e
  BY <1>3 DEF OriginsInOrder, ValueOriginsKept, SyntheticInOrder, AfterVerify, AfterValues
<1>5. /\ \A b \in 1 .. BlockCount : blocks[b] = Blocks[b].origin /\ blocks[b] \in 1 .. M
      /\ \A n \in 1 .. V : FunctionValues[n].origin \in 1 .. M
  BY <1>1, FunctionOriginsBound
<1>6. \A n \in 1 .. N : n <= V => n \in 1 .. V
  BY <1>2
<1>7. /\ \A n \in 1 .. N : n <= V => physical[n] \in 1 .. M
      /\ \A n \in 1 .. N : n > V => physical[n] \in Nat /\ physical[n] > M + E
      /\ \A e \in 1 .. E : synthetic[e] \in Nat /\ synthetic[e] > M /\ synthetic[e] <= M + E
  <2>1. ASSUME NEW n \in 1 .. N, n <= V PROVE physical[n] \in 1 .. M
    BY <1>4, <1>5, <1>6, <2>1, Zenon
  <2>2. ASSUME NEW n \in 1 .. N, n > V PROVE physical[n] \in Nat /\ physical[n] > M + E
    <3>1. physical[n] = M + E + (n - V)
      BY <1>4, <2>2
    <3> HIDE DEF physical, M, V, E, N
    <3> QED
      BY <1>2, <2>2, <3>1
  <2>3. ASSUME NEW e \in 1 .. E
        PROVE  synthetic[e] \in Nat /\ synthetic[e] > M /\ synthetic[e] <= M + E
    <3>1. synthetic[e] = M + e
      BY <1>4
    <3> HIDE DEF synthetic, M, E
    <3> QED
      BY <1>2, <3>1
  <2> HIDE DEF physical, synthetic, M, V, E, N
  <2> QED
    BY <2>1, <2>2, <2>3
<1> DOMAIN physical = 1 .. N /\ DOMAIN synthetic = 1 .. E /\ DOMAIN blocks = 1 .. BlockCount
  BY <1>3
<1>8. /\ physical \in Seq(Nat) /\ Len(physical) = N
      /\ synthetic \in Seq(Nat) /\ Len(synthetic) = E
      /\ blocks \in Seq(Nat) /\ Len(blocks) = BlockCount
  <2>1. \A n \in 1 .. N : physical[n] \in Nat
    BY <1>2, <1>7
  <2>2. physical \in [1 .. N -> Nat]
    BY <1>3, <2>1
  <2>3. synthetic \in [1 .. E -> Nat]
    BY <1>3, <1>7
  <2>4. blocks \in [1 .. BlockCount -> Nat]
    BY <1>5
  <2> HIDE DEF physical, synthetic, blocks, N, E
  <2> QED
    BY <1>1, <1>2, <2>2, <2>3, <2>4
<1>9. /\ \A i, j \in 1 .. V : FunctionValues[i].origin = FunctionValues[j].origin => i = j
      /\ \A b, c \in 1 .. BlockCount : Blocks[b].origin = Blocks[c].origin => b = c
      /\ \A i \in 1 .. V, b \in 1 .. BlockCount : FunctionValues[i].origin # Blocks[b].origin
  BY <1>1, FunctionOriginsApart
<1> HIDE DEF physical, synthetic, blocks, M, V, E, N
<1>10. Distinct(physical)
  <2> SUFFICES ASSUME NEW i \in 1 .. N, NEW j \in 1 .. N, physical[i] = physical[j]
               PROVE  i = j
    BY DEF Distinct
  <2>1. CASE i <= V /\ j <= V
    BY <1>4, <1>6, <1>9, <2>1
  <2>2. CASE i > V /\ j > V
    <3>1. physical[i] = M + E + (i - V) /\ physical[j] = M + E + (j - V)
      BY <1>4, <2>2
    <3>2. M + E + (i - V) = M + E + (j - V)
      BY <3>1, Zenon
    <3>3. i \in Nat /\ j \in Nat
      BY <1>2
    <3> QED
      BY <1>2, <3>2, <3>3
  <2>3. CASE i <= V /\ j > V
    BY <1>2, <1>7, <2>3
  <2>4. CASE i > V /\ j <= V
    BY <1>2, <1>7, <2>4
  <2> QED
    BY <1>2, <2>1, <2>2, <2>3, <2>4
<1>11. Distinct(synthetic)
  BY <1>2, <1>4 DEF Distinct
<1>12. Distinct(blocks)
  BY <1>5, <1>9 DEF Distinct
<1>13. Distinct(physical \o synthetic)
  <2>1. ASSUME NEW i \in 1 .. N, NEW j \in 1 .. E PROVE physical[i] # synthetic[j]
    BY <1>2, <1>7
  <2> QED
    BY <1>8, <1>10, <1>11, <2>1, ConcatenationDistinct
<1>14. Distinct(physical \o synthetic \o blocks)
  <2> DEFINE both == physical \o synthetic
  <2>1. both \in Seq(Nat)
    BY <1>8
  <2>2. ASSUME NEW i \in DOMAIN both, NEW b \in 1 .. BlockCount PROVE both[i] # blocks[b]
    <3>1. CASE i \in 1 .. N /\ both[i] = physical[i]
      <4>1. CASE i <= V
        BY <1>4, <1>5, <1>6, <1>9, <3>1, <4>1
      <4>2. CASE ~ i <= V
        <5>1. physical[i] > M + E /\ physical[i] \in Nat
          BY <1>2, <1>7, <3>1, <4>2
        <5>2. blocks[b] \in 1 .. M
          BY <1>5
        <5> QED
          BY <1>2, <3>1, <5>1, <5>2
      <4> QED
        BY <4>1, <4>2
    <3>2. CASE i - N \in 1 .. E /\ both[i] = synthetic[i - N]
      BY <1>2, <1>5, <1>7, <3>2
    <3> QED
      BY <1>8, <3>1, <3>2, InConcatenation
  <2> HIDE DEF both
  <2>3. Distinct(both \o blocks)
    BY <1>8, <1>12, <1>13, <2>1, <2>2, ConcatenationDistinct DEF both
  <2> QED
    BY <2>3 DEF both
<1>15. \A n \in 1 .. N : physical[n] # 0
  BY <1>2, <1>7
<1>16. ASSUME NEW e \in 1 .. E
       PROVE  /\ synthetic[e] # 0
              /\ \A n \in DOMAIN OriginsOf(function_) : synthetic[e] # OriginsOf(function_)[n]
  <2>1. \A n \in DOMAIN OriginsOf(function_) : OriginsOf(function_)[n] <= M
    <3>1. OriginsOf(function_) \in Seq(Nat)
      BY <1>1, OriginsAt DEF Joined
    <3>2. function_.blocks # << >>
      BY <1>1 DEF Verified
    <3>3. \A n \in 1 .. Len(OriginsOf(function_)) : OriginsOf(function_)[n] <= M
      BY <1>1, <3>2, MaximumIsGreatest DEF M
    <3> QED
      BY <3>1, <3>3
  <2>2. synthetic[e] \in Nat /\ synthetic[e] > M
    BY <1>7
  <2>3. \A n \in DOMAIN OriginsOf(function_) : OriginsOf(function_)[n] \in Nat
    BY <1>1, OriginsAt DEF Joined
  <2> QED
    BY <1>2, <2>1, <2>2, <2>3
<1>17. /\ Distinct(physical \o synthetic \o blocks)
       /\ \A n \in DOMAIN physical : physical[n] # 0
       /\ \A e \in DOMAIN synthetic :
              /\ synthetic[e] # 0
              /\ \A n \in DOMAIN OriginsOf(function_) :
                     synthetic[e] # OriginsOf(function_)[n]
  BY <1>14, <1>15, <1>16
<1> QED
  BY <1>17, Zenon DEF OriginsUnique, physical, synthetic, blocks

\* Every value, edge and block state of a lowered program has an origin that
\* nothing else in it has, and none has origin zero.
THEOREM NoOriginIsTakenTwice == LoweringSpec => []OriginsUnique
BY LookupsHold, OriginsKeepOrder, OrderIsUnique, PTL

-----------------------------------------------------------------------------
(***************************************************************************)
(* Words: salts, and the maps of physical values.                          *)
(***************************************************************************)

\* Arithmetic on words makes words.
LEMMA WordOperations ==
    /\ \A a \in Word : a \in Nat /\ MadeOdd(a) \in Word
    /\ \A a, b \in Word :
           /\ Add(a, b) \in Word /\ Sub(a, b) \in Word /\ Mul(a, b) \in Word
           /\ Xor(a, b) \in Word
           /\ MixWord(a, b, Tag("allocator")) \in Word
           /\ MixWord(a, b, Tag("compiler")) \in Word
BY WordsAssumption

\* Origins, carriers and small numbers are words.
LEMMA SmallWords ==
    /\ \A n \in 0 .. MaxOrigin : n \in Word
    /\ \A n \in 0 .. MaxCarriers : n \in Word
    /\ \A n \in 0 .. kFirstAllocatedCarrier : n \in Word
BY WordsAssumption

\* The constants salts are named for are words.
LEMMA SaltTagsAreWords ==
    /\ \A name \in SaltNames : Tag(name) \in Word
    /\ Tag("origin") \in Word /\ Tag("slot") \in Word
    /\ Tag("second") \in Word /\ Tag("lane shares") \in Word /\ Tag("proof shares") \in Word
    /\ Seed \in Word
BY WordsAssumption, Zenon

\* The salts of the nodes are words.
LEMMA CompilerSaltIsWord ==
    ASSUME NEW origin \in 0 .. MaxOrigin, NEW name \in SaltNames
    PROVE  CompilerSalt(origin, name) \in Word
<1>1. origin \in Word /\ Tag(name) \in Word
  BY SmallWords, SaltTagsAreWords, Zenon
<1>2. Xor(Seed, Mul(origin, Tag("origin"))) \in Word /\ Mul(Tag(name), Tag("slot")) \in Word
  BY <1>1, SaltTagsAreWords, WordOperations, Zenon
<1> QED
  BY <1>2, WordOperations, Zenon DEF CompilerSalt, Salt

\* The salts of the allocator are words.
LEMMA OriginSaltIsWord ==
    ASSUME NEW origin \in 0 .. MaxOrigin, NEW slot \in 0 .. 6
    PROVE  OriginSalt(origin, slot) \in Word
<1>1. origin \in Word /\ slot \in Word
  <2>1. slot \in 0 .. kFirstAllocatedCarrier
    BY DEF kFirstAllocatedCarrier
  <2> QED
    BY <2>1, SmallWords, Zenon
<1>2. Xor(Seed, Mul(origin, Tag("origin"))) \in Word /\ Mul(slot, Tag("slot")) \in Word
  BY <1>1, SaltTagsAreWords, WordOperations, Zenon
<1> QED
  BY <1>2, WordOperations, Zenon DEF OriginSalt, Salt

\* One turn of Newton's iteration.
LEMMA NewtonStepIsWord ==
    ASSUME NEW word \in Word, NEW inverse \in Word
    PROVE  NewtonStep(word, inverse) \in Word
<1>1. 2 \in Word
  <2>1. 2 \in 0 .. kFirstAllocatedCarrier
    BY DEF kFirstAllocatedCarrier
  <2> QED
    BY <2>1, SmallWords, Zenon
<1> QED
  BY <1>1, WordOperations, Zenon DEF NewtonStep

\* The inverse map of a share has words.
LEMMA InverseMapIsWords ==
    ASSUME NEW map, map.multiplier \in Word, map.addend \in Word
    PROVE  InverseMap(map).multiplier \in Word /\ InverseMap(map).addend \in Word
<1>1. inverse_odd(map.multiplier) \in Word
  <2> DEFINE next == [inverse \in Word |-> NewtonStep(map.multiplier, inverse)]
  <2>1. ASSUME NEW w \in Word PROVE next[w] \in Word
    BY NewtonStepIsWord
  <2> HIDE DEF next
  <2>2. next[next[next[next[next[next[map.multiplier]]]]]] \in Word
    BY <2>1
  <2> USE DEF next
  <2> QED
    BY <2>2, Zenon DEF inverse_odd
<1>2. 0 \in Word
  <2>1. 0 \in 0 .. kFirstAllocatedCarrier
    BY DEF kFirstAllocatedCarrier
  <2> QED
    BY <2>1, SmallWords, Zenon
<1>3. PICK multiplier : multiplier = inverse_odd(map.multiplier)
  OBVIOUS
<1>4. Sub(0, Mul(multiplier, map.addend)) \in Word
  BY <1>1, <1>2, <1>3, WordOperations, Zenon
<1>5. InverseMap(map) = [multiplier |-> multiplier,
                         addend |-> Sub(0, Mul(multiplier, map.addend))]
  BY <1>3, Zenon DEF InverseMap
<1> QED
  BY <1>1, <1>3, <1>4, <1>5

\* The value's shares are in the three carriers from one on, through maps of words.
Stored(value, at) ==
    \A i \in 1 .. 3 :
        /\ value.shares[i].carrier = at + i - 1
        /\ value.shares[i].storage.multiplier \in Word
        /\ value.shares[i].storage.addend \in Word

\* The carriers from one on that a value has.
Span(at) == at .. (at + 2)

\* What the allocator hands out.
LEMMA AllocatedStored ==
    ASSUME NEW next \in Nat, NEW domain, NEW origin \in 0 .. MaxOrigin
    PROVE  Stored(Allocated(next, domain, origin), next)
<1> DEFINE share(i) == [carrier |-> next + i - 1,
                        storage |-> [multiplier |-> MadeOdd(OriginSalt(origin, 2 * i - 1)),
                                     addend     |-> OriginSalt(origin, 2 * i)]]
<1>1. Allocated(next, domain, origin).shares = [i \in 1 .. 3 |-> share(i)]
  <2> HIDE DEF share
  <2>1. Allocated(next, domain, origin).shares = [i \in 1 .. kPhysicalShares |-> share(i)]
    BY DEF Allocated, share
  <2> QED
    BY <2>1 DEF kPhysicalShares
<1>2. ASSUME NEW i \in 1 .. 3
      PROVE  /\ share(i).carrier = next + i - 1
             /\ share(i).storage.multiplier \in Word /\ share(i).storage.addend \in Word
  <2>1. 2 * i - 1 \in 0 .. 6 /\ 2 * i \in 0 .. 6
    OBVIOUS
  <2>2. MadeOdd(OriginSalt(origin, 2 * i - 1)) \in Word /\ OriginSalt(origin, 2 * i) \in Word
    BY <2>1, OriginSaltIsWord, WordOperations, Zenon
  <2> QED
    BY <2>2
<1> HIDE DEF share
<1>3. \A i \in 1 .. 3 : Allocated(next, domain, origin).shares[i] = share(i)
  BY <1>1
<1> QED
  BY <1>2, <1>3, Zenon DEF Stored

\* The fixed values of the continuation and of the result.
LEMMA FixedStored ==
    ASSUME NEW domain, NEW first \in Nat
    PROVE  Stored(fixed_value(domain, first), first)
<1>1. 0 \in Word /\ 1 \in Word
  <2>1. 0 \in 0 .. kFirstAllocatedCarrier /\ 1 \in 0 .. kFirstAllocatedCarrier
    BY DEF kFirstAllocatedCarrier
  <2> QED
    BY <2>1, SmallWords, Zenon
<1>2. \A i \in 1 .. 3 : fixed_value(domain, first).shares[i]
                            = [carrier |-> first + i - 1, storage |-> Identity]
  BY DEF fixed_value, kPhysicalShares
<1> QED
  BY <1>1, <1>2 DEF Stored, Identity

-----------------------------------------------------------------------------
(***************************************************************************)
(* Nodes the plans' verifier accepts.                                      *)
(***************************************************************************)

\* A node that may stand at a place, in a program with so many carriers.
GoodNode(node, at, carriers) ==
    /\ node \in PrimitiveNode
    /\ \A i \in 1 .. Arity(node.kind) : node.operands[i] < at - 1
    /\ node.kind = "Compare" => node.immediate <= SignedLessEqual
    /\ node.kind = "ReadCarrier" => node.immediate < carriers

\* Nodes that may follow so many others.
GoodNodes(nodes, base, carriers) ==
    /\ IsSequence(nodes)
    /\ \A n \in 1 .. Len(nodes) : GoodNode(nodes[n], base + n, carriers)

\* The kinds of the constructors, and their node ids.
LEMMA KindArities ==
    /\ Arity("Literal") = 0 /\ Arity("ReadCarrier") = 0
    /\ Arity("Compare") = 2 /\ Arity("Mix") = 2 /\ Arity("Select") = 3
    /\ \A kind \in BinaryKind : Arity(kind) = 2 /\ kind \notin {"Compare", "ReadCarrier"}
    /\ \A kind \in UnaryKind \cup Loads : Arity(kind) = 1 /\ kind \notin {"Compare", "ReadCarrier"}
BY DEF Arity, BinaryKind, UnaryKind, Loads

\* A literal may stand anywhere.
LEMMA LiteralIsGood ==
    ASSUME NEW word \in Word, NEW at \in Nat, NEW carriers
    PROVE  GoodNode(Lit(word), at, carriers)
<1>1. Lit(word) \in PrimitiveNode
  BY DEF Lit, PrimitiveNode, PrimitiveKind
<1> QED
  BY <1>1, KindArities DEF GoodNode, Lit

\* A carrier that exists may be read anywhere.
LEMMA ReadIsGood ==
    ASSUME NEW carrier \in Word, NEW at \in Nat, NEW carriers, carrier < carriers
    PROVE  GoodNode(ReadC(carrier), at, carriers)
<1>1. ReadC(carrier) \in PrimitiveNode
  BY DEF ReadC, PrimitiveNode, PrimitiveKind
<1> QED
  BY <1>1, KindArities DEF GoodNode, ReadC

\* Zero is a word.
LEMMA ZeroIsWord == 0 \in Word /\ 1 \in Word
<1>1. 0 \in 0 .. kFirstAllocatedCarrier /\ 1 \in 0 .. kFirstAllocatedCarrier
  BY DEF kFirstAllocatedCarrier
<1> QED
  BY <1>1, SmallWords, Zenon

\* A node of one operand.
LEMMA UnaryIsGood ==
    ASSUME NEW kind \in UnaryKind \cup Loads, NEW at \in Nat, NEW x \in Nat, x < at - 1,
           NEW carriers
    PROVE  GoodNode(Unary(kind, x), at, carriers)
<1>1. Unary(kind, x) \in PrimitiveNode
  BY ZeroIsWord DEF Unary, PrimitiveNode, PrimitiveKind
<1>2. /\ Unary(kind, x).kind = kind /\ Unary(kind, x).operands = <<x>>
  BY DEF Unary
<1> QED
  BY <1>1, <1>2, KindArities DEF GoodNode

\* A node of two operands.
LEMMA BinaryIsGood ==
    ASSUME NEW kind \in BinaryKind, NEW at \in Nat,
           NEW x \in Nat, x < at - 1, NEW y \in Nat, y < at - 1, NEW carriers
    PROVE  GoodNode(Binary(kind, x, y), at, carriers)
<1>1. Binary(kind, x, y) \in PrimitiveNode
  BY ZeroIsWord DEF Binary, PrimitiveNode, PrimitiveKind
<1>2. /\ Binary(kind, x, y).kind = kind /\ Binary(kind, x, y).operands = <<x, y>>
  BY DEF Binary
<1> QED
  BY <1>1, <1>2, KindArities DEF GoodNode

\* A comparison under one of the six conditions.
LEMMA CompareIsGood ==
    ASSUME NEW condition \in 0 .. 5, NEW at \in Nat,
           NEW x \in Nat, x < at - 1, NEW y \in Nat, y < at - 1, NEW carriers
    PROVE  GoodNode(Cmp(condition, x, y), at, carriers)
<1>1. condition \in Word
  <2>1. condition \in 0 .. kFirstAllocatedCarrier
    BY DEF kFirstAllocatedCarrier
  <2> QED
    BY <2>1, SmallWords, Zenon
<1>2. Cmp(condition, x, y) \in PrimitiveNode
  BY <1>1 DEF Cmp, PrimitiveNode, PrimitiveKind
<1>3. /\ Cmp(condition, x, y).kind = "Compare" /\ Cmp(condition, x, y).operands = <<x, y>>
      /\ Cmp(condition, x, y).immediate = condition
  BY DEF Cmp
<1> QED
  BY <1>2, <1>3, KindArities DEF GoodNode, SignedLessEqual

\* A choice between two nodes.
LEMMA SelectIsGood ==
    ASSUME NEW at \in Nat, NEW x \in Nat, x < at - 1, NEW y \in Nat, y < at - 1,
           NEW z \in Nat, z < at - 1, NEW carriers
    PROVE  GoodNode(Sel(x, y, z), at, carriers)
<1>1. Sel(x, y, z) \in PrimitiveNode
  BY ZeroIsWord DEF Sel, PrimitiveNode, PrimitiveKind
<1>2. /\ Sel(x, y, z).kind = "Select" /\ Sel(x, y, z).operands = <<x, y, z>>
  BY DEF Sel
<1> QED
  BY <1>1, <1>2, KindArities DEF GoodNode

\* Two nodes mixed under a salt.
LEMMA MixedIsGood ==
    ASSUME NEW salt \in Word, NEW at \in Nat,
           NEW x \in Nat, x < at - 1, NEW y \in Nat, y < at - 1, NEW carriers
    PROVE  GoodNode(Mixed(x, y, salt), at, carriers)
<1>1. Mixed(x, y, salt) \in PrimitiveNode
  BY DEF Mixed, PrimitiveNode, PrimitiveKind
<1>2. /\ Mixed(x, y, salt).kind = "Mix" /\ Mixed(x, y, salt).operands = <<x, y>>
  BY DEF Mixed
<1> QED
  BY <1>1, <1>2, KindArities DEF GoodNode

\* Nodes that follow nodes.
LEMMA GoodNodesJoin ==
    ASSUME NEW base \in Nat, NEW carriers, NEW s, GoodNodes(s, base, carriers), NEW t,
           GoodNodes(t, base + Len(s), carriers)
    PROVE  GoodNodes(s \o t, base, carriers) /\ Len(s \o t) = Len(s) + Len(t)
<1>1. IsSequence(s) /\ IsSequence(t)
  BY Zenon DEF GoodNodes
<1> DEFINE T == {s[i] : i \in DOMAIN s} \cup {t[i] : i \in DOMAIN t}
<1>2. s \in Seq(T) /\ t \in Seq(T)
  BY <1>1 DEF IsSequence
<1> HIDE DEF T
<1>3. /\ Len(s \o t) = Len(s) + Len(t) /\ Len(s) \in Nat /\ Len(t) \in Nat
      /\ \A k \in 1 .. Len(s) : (s \o t)[k] = s[k]
      /\ \A e \in 1 .. Len(t) : (s \o t)[Len(s) + e] = t[e]
  BY <1>2, Concatenated
<1>4. IsSequence(s \o t)
  BY <1>1, ConcatenationIsSequence
<1>5. ASSUME NEW n \in 1 .. Len(s \o t) PROVE GoodNode((s \o t)[n], base + n, carriers)
  <2>1. CASE n \in 1 .. Len(s)
    BY <1>3, <2>1 DEF GoodNodes
  <2>2. CASE n \notin 1 .. Len(s)
    <3>1. PICK e : e = n - Len(s)
      OBVIOUS
    <3>0. e \in 1 .. Len(t) /\ n = Len(s) + e /\ base + n = base + Len(s) + e
      BY <1>3, <2>2, <3>1
    <3>2. GoodNode(t[e], base + Len(s) + e, carriers)
      BY <3>0, Zenon DEF GoodNodes
    <3> QED
      BY <1>3, <3>0, <3>2, Zenon
  <2> QED
    BY <2>1, <2>2
<1> QED
  BY <1>3, <1>4, <1>5, Zenon DEF GoodNodes

\* One node, two, and so on up to six.
LEMMA OneNode ==
    ASSUME NEW base \in Nat, NEW carriers, NEW a, GoodNode(a, base + 1, carriers)
    PROVE  GoodNodes(<<a>>, base, carriers) /\ Len(<<a>>) = 1
<1>1. <<a>> \in Seq({(<<a>>)[i] : i \in DOMAIN <<a>>}) /\ Len(<<a>>) = 1
  OBVIOUS
<1> QED
  BY <1>1 DEF GoodNodes, IsSequence

\* Two nodes.
LEMMA TwoNodes ==
    ASSUME NEW base \in Nat, NEW carriers, NEW a, GoodNode(a, base + 1, carriers),
           NEW b, GoodNode(b, base + 2, carriers)
    PROVE  GoodNodes(<<a, b>>, base, carriers) /\ Len(<<a, b>>) = 2
<1>1. <<a, b>> \in Seq({a, b}) /\ Len(<<a, b>>) = 2
  OBVIOUS
<1>2. IsSequence(<<a, b>>)
  BY DEF IsSequence
<1>3. \A n \in 1 .. 2 : GoodNode((<<a, b>>)[n], base + n, carriers)
  OBVIOUS
<1> QED
  BY <1>1, <1>2, <1>3 DEF GoodNodes

\* Four nodes.
LEMMA FourNodes ==
    ASSUME NEW base \in Nat, NEW carriers, NEW a, GoodNode(a, base + 1, carriers),
           NEW b, GoodNode(b, base + 2, carriers), NEW c, GoodNode(c, base + 3, carriers),
           NEW d, GoodNode(d, base + 4, carriers)
    PROVE  GoodNodes(<<a, b, c, d>>, base, carriers) /\ Len(<<a, b, c, d>>) = 4
<1>1. IsSequence(<<a, b, c, d>>) /\ Len(<<a, b, c, d>>) = 4
  BY DEF IsSequence
<1>3. \A n \in 1 .. 4 : GoodNode((<<a, b, c, d>>)[n], base + n, carriers)
  OBVIOUS
<1> QED
  BY <1>1, <1>3 DEF GoodNodes

\* Five nodes.
LEMMA FiveNodes ==
    ASSUME NEW base \in Nat, NEW carriers, NEW a, GoodNode(a, base + 1, carriers),
           NEW b, GoodNode(b, base + 2, carriers), NEW c, GoodNode(c, base + 3, carriers),
           NEW d, GoodNode(d, base + 4, carriers), NEW e, GoodNode(e, base + 5, carriers)
    PROVE  GoodNodes(<<a, b, c, d, e>>, base, carriers) /\ Len(<<a, b, c, d, e>>) = 5
<1>1. IsSequence(<<a, b, c, d, e>>) /\ Len(<<a, b, c, d, e>>) = 5
  BY DEF IsSequence
<1>3. \A n \in 1 .. 5 : GoodNode((<<a, b, c, d, e>>)[n], base + n, carriers)
  OBVIOUS
<1> QED
  BY <1>1, <1>3 DEF GoodNodes

\* Six nodes.
LEMMA SixNodes ==
    ASSUME NEW base \in Nat, NEW carriers, NEW a, GoodNode(a, base + 1, carriers),
           NEW b, GoodNode(b, base + 2, carriers), NEW c, GoodNode(c, base + 3, carriers),
           NEW d, GoodNode(d, base + 4, carriers), NEW e, GoodNode(e, base + 5, carriers),
           NEW f, GoodNode(f, base + 6, carriers)
    PROVE  GoodNodes(<<a, b, c, d, e, f>>, base, carriers) /\ Len(<<a, b, c, d, e, f>>) = 6
<1>1. IsSequence(<<a, b, c, d, e, f>>) /\ Len(<<a, b, c, d, e, f>>) = 6
  BY DEF IsSequence
<1>3. \A n \in 1 .. 6 : GoodNode((<<a, b, c, d, e, f>>)[n], base + n, carriers)
  OBVIOUS
<1> QED
  BY <1>1, <1>3 DEF GoodNodes

-----------------------------------------------------------------------------
(***************************************************************************)
(* Drafts the plans' verifier will accept.                                 *)
(***************************************************************************)

\* What the emitter works on, from an empty draft on.
IsDraft(d) ==
    /\ {"nodes", "carrier_writes", "memory_writes", "overflowed"} \subseteq DOMAIN d
    /\ d.overflowed \in BOOLEAN

\* Writes to distinct carriers there are, of nodes there are.
GoodWrites(writes, count, carriers) ==
    /\ IsSequence(writes) /\ Len(writes) <= count
    /\ \A n \in 1 .. Len(writes) :
           /\ writes[n] \in [carrier : Nat, value : Nat]
           /\ writes[n].carrier < carriers /\ writes[n].value < count
    /\ \A m, n \in 1 .. Len(writes) : writes[m].carrier = writes[n].carrier => m = n

\* Stores of one of the two widths, of nodes there are.
GoodStores(stores, count) ==
    /\ IsSequence(stores) /\ Len(stores) <= count
    /\ \A n \in 1 .. Len(stores) :
           /\ stores[n] \in [width : Nat, address : Nat, value : Nat]
           /\ stores[n].width \in {1, WordBytes}
           /\ stores[n].address < count /\ stores[n].value < count

Good(d, carriers) ==
    /\ GoodNodes(d.nodes, 0, carriers)
    /\ Len(d.nodes) <= MaxNodeId
    /\ GoodWrites(d.carrier_writes, Len(d.nodes), carriers)
    /\ GoodStores(d.memory_writes, Len(d.nodes))

NodeOf(d, node) == node \in 0 .. (Len(d.nodes) - 1)

WithNodes(d, nodes) == [d EXCEPT !.nodes = nodes]

\* Only the nodes change.
LEMMA NodesChanged ==
    ASSUME NEW d, IsDraft(d), NEW nodes
    PROVE  /\ DOMAIN WithNodes(d, nodes) = DOMAIN d
           /\ WithNodes(d, nodes).nodes = nodes
           /\ WithNodes(d, nodes).carrier_writes = d.carrier_writes
           /\ WithNodes(d, nodes).memory_writes = d.memory_writes
           /\ WithNodes(d, nodes).overflowed = d.overflowed
BY DEF IsDraft, WithNodes

\* What an island knows besides.
SameNames(d, e) ==
    /\ DOMAIN e = DraftFields
    /\ e.semantic = d.semantic /\ e.history = d.history /\ e.last = d.last /\ e.fold = d.fold
    /\ e.items = d.items /\ e.bindings = d.bindings

\* Emission fits, or the draft has overflowed; it overflows for good.
LEMMA EmitFits ==
    ASSUME NEW d, IsDraft(d), NEW nodes, ~ Emit(d, nodes).overflowed
    PROVE  /\ ~ d.overflowed /\ Len(nodes) <= MaxNodeId - Len(d.nodes)
           /\ Emit(d, nodes) = WithNodes(d, d.nodes \o nodes)
<1>1. CASE Len(nodes) <= MaxNodeId - Len(d.nodes)
  <2>1. Emit(d, nodes) = WithNodes(d, d.nodes \o nodes)
    BY <1>1, Zenon DEF Emit, WithNodes
  <2> QED
    BY <1>1, <2>1, NodesChanged
<1>2. CASE ~ Len(nodes) <= MaxNodeId - Len(d.nodes)
  <2>1. PICK more : Emit(d, nodes) = [d EXCEPT !.nodes = more, !.overflowed = TRUE]
    BY <1>2, Zenon DEF Emit
  <2> QED
    BY <2>1 DEF IsDraft
<1> QED
  BY <1>1, <1>2

\* Emission changes a draft to a draft.
LEMMA EmitIsDraft ==
    ASSUME NEW d, IsDraft(d), NEW nodes
    PROVE  IsDraft(Emit(d, nodes)) /\ DOMAIN Emit(d, nodes) = DOMAIN d
<1>1. \/ \E more : Emit(d, nodes) = [d EXCEPT !.nodes = more]
      \/ \E more : Emit(d, nodes) = [d EXCEPT !.nodes = more, !.overflowed = TRUE]
  BY DEF Emit
<1>2. ASSUME NEW more
      PROVE  IsDraft([d EXCEPT !.nodes = more]) /\ DOMAIN [d EXCEPT !.nodes = more] = DOMAIN d
  BY DEF IsDraft
<1>3. ASSUME NEW more
      PROVE  /\ IsDraft([d EXCEPT !.nodes = more, !.overflowed = TRUE])
             /\ DOMAIN [d EXCEPT !.nodes = more, !.overflowed = TRUE] = DOMAIN d
  BY DEF IsDraft
<1> QED
  BY <1>1, <1>2, <1>3, Zenon

\* Emission changes no name of an island.
LEMMA EmitSameNames ==
    ASSUME NEW d, DOMAIN d = DraftFields, NEW nodes
    PROVE  SameNames(d, Emit(d, nodes))
<1>1. \/ \E more : Emit(d, nodes) = [d EXCEPT !.nodes = more]
      \/ \E more : Emit(d, nodes) = [d EXCEPT !.nodes = more, !.overflowed = TRUE]
  BY DEF Emit
<1>2. ASSUME NEW more PROVE SameNames(d, [d EXCEPT !.nodes = more])
  BY DEF SameNames, DraftFields
<1>3. ASSUME NEW more PROVE SameNames(d, [d EXCEPT !.nodes = more, !.overflowed = TRUE])
  BY DEF SameNames, DraftFields
<1> QED
  BY <1>1, <1>2, <1>3, Zenon

\* More nodes do the writes no harm.
LEMMA MoreNodes ==
    ASSUME NEW count \in Nat, NEW more \in Nat, count <= more, NEW carriers,
           NEW writes, GoodWrites(writes, count, carriers), NEW stores, GoodStores(stores, count)
    PROVE  GoodWrites(writes, more, carriers) /\ GoodStores(stores, more)
<1>1. Len(writes) \in Nat /\ Len(stores) \in Nat
  BY AppendIsSequence DEF GoodWrites, GoodStores
<1>2. /\ Len(writes) <= more
      /\ \A n \in 1 .. Len(writes) : writes[n].value < more
  BY <1>1 DEF GoodWrites
<1>3. /\ Len(stores) <= more
      /\ \A n \in 1 .. Len(stores) : stores[n].address < more /\ stores[n].value < more
  BY <1>1 DEF GoodStores
<1>4. GoodWrites(writes, more, carriers)
  BY <1>2, Zenon DEF GoodWrites
<1>5. GoodStores(stores, more)
  BY <1>3, Zenon DEF GoodStores
<1> QED
  BY <1>4, <1>5

\* The ids of nodes that are emitted.
LEMMA IdAtIs ==
    ASSUME NEW d, Len(d.nodes) \in Nat, NEW count \in Nat, count <= MaxNodeId - Len(d.nodes)
    PROVE  \A k \in 0 .. (count - 1) : IdAt(d, k) = Len(d.nodes) + k
BY LimitsAssumption DEF IdAt

\* Good nodes emitted leave a good draft.
LEMMA EmitIsGood ==
    ASSUME NEW d, IsDraft(d), NEW carriers, Good(d, carriers), NEW nodes,
           ~ Emit(d, nodes).overflowed, GoodNodes(nodes, Len(d.nodes), carriers)
    PROVE  /\ Good(Emit(d, nodes), carriers)
           /\ Len(d.nodes) \in Nat /\ Len(nodes) \in Nat
           /\ Len(Emit(d, nodes).nodes) = Len(d.nodes) + Len(nodes)
           /\ Emit(d, nodes).carrier_writes = d.carrier_writes
           /\ Emit(d, nodes).memory_writes = d.memory_writes
<1>1. Len(nodes) <= MaxNodeId - Len(d.nodes) /\ Emit(d, nodes) = WithNodes(d, d.nodes \o nodes)
  BY EmitFits
<1>2. Len(d.nodes) \in Nat /\ Len(nodes) \in Nat
  BY AppendIsSequence DEF Good, GoodNodes
<1>3. /\ GoodNodes(d.nodes \o nodes, 0, carriers)
      /\ Len(d.nodes \o nodes) = Len(d.nodes) + Len(nodes)
  <2>1. GoodNodes(d.nodes, 0, carriers)
    BY Zenon DEF Good
  <2>2. GoodNodes(nodes, 0 + Len(d.nodes), carriers)
    <3>1. 0 + Len(d.nodes) = Len(d.nodes)
      BY <1>2
    <3> QED
      BY <3>1, Zenon
  <2>3. 0 \in Nat
    OBVIOUS
  <2> QED
    BY <2>1, <2>2, <2>3, GoodNodesJoin
<1>4. PICK e : e = Emit(d, nodes)
  OBVIOUS
<1>5. /\ e.nodes = d.nodes \o nodes /\ e.carrier_writes = d.carrier_writes
      /\ e.memory_writes = d.memory_writes
  <2>1. e = WithNodes(d, d.nodes \o nodes)
    BY <1>1, <1>4, Zenon
  <2>2. PICK more : more = d.nodes \o nodes
    OBVIOUS
  <2>3. e = WithNodes(d, more)
    BY <2>1, <2>2, Zenon
  <2>4. /\ WithNodes(d, more).nodes = more
        /\ WithNodes(d, more).carrier_writes = d.carrier_writes
        /\ WithNodes(d, more).memory_writes = d.memory_writes
    BY NodesChanged
  <2> QED
    BY <2>2, <2>3, <2>4, Zenon
<1>6. Len(e.nodes) = Len(d.nodes) + Len(nodes) /\ GoodNodes(e.nodes, 0, carriers)
  BY <1>3, <1>5, Zenon
<1>7. /\ Len(e.nodes) \in Nat /\ Len(d.nodes) <= Len(e.nodes) /\ Len(e.nodes) <= MaxNodeId
  BY <1>1, <1>2, <1>6, LimitsAssumption
<1>8. GoodWrites(e.carrier_writes, Len(e.nodes), carriers)
      /\ GoodStores(e.memory_writes, Len(e.nodes))
  BY <1>2, <1>5, <1>7, MoreNodes, Zenon DEF Good
<1> QED
  BY <1>2, <1>4, <1>5, <1>6, <1>7, <1>8, Zenon DEF Good

-----------------------------------------------------------------------------
(***************************************************************************)
(* Shares: rebuilding a value from its carriers, and splitting it over     *)
(* them.                                                                   *)
(***************************************************************************)

\* Two sequences in one, by their lengths.
LEMMA LengthsAdd ==
    ASSUME NEW s, IsSequence(s), NEW t, IsSequence(t)
    PROVE  IsSequence(s \o t) /\ Len(s \o t) = Len(s) + Len(t)
<1> DEFINE T == {s[i] : i \in DOMAIN s} \cup {t[i] : i \in DOMAIN t}
<1>2. s \in Seq(T) /\ t \in Seq(T)
  BY DEF IsSequence
<1> HIDE DEF T
<1>3. Len(s \o t) = Len(s) + Len(t)
  BY <1>2
<1> QED
  BY <1>3, ConcatenationIsSequence

\* Short sequences.
LEMMA TupleLengths ==
    /\ \A a, b : IsSequence(<<a, b>>) /\ Len(<<a, b>>) = 2
    /\ \A a, b, c, d : IsSequence(<<a, b, c, d>>) /\ Len(<<a, b, c, d>>) = 4
    /\ \A a, b, c, d, e : IsSequence(<<a, b, c, d, e>>) /\ Len(<<a, b, c, d, e>>) = 5
<1>1. ASSUME NEW a, NEW b PROVE IsSequence(<<a, b>>) /\ Len(<<a, b>>) = 2
  BY DEF IsSequence
<1>2. ASSUME NEW a, NEW b, NEW c, NEW d
      PROVE  IsSequence(<<a, b, c, d>>) /\ Len(<<a, b, c, d>>) = 4
  BY DEF IsSequence
<1>3. ASSUME NEW a, NEW b, NEW c, NEW d, NEW e
      PROVE  IsSequence(<<a, b, c, d, e>>) /\ Len(<<a, b, c, d, e>>) = 5
  BY DEF IsSequence
<1> QED
  BY <1>1, <1>2, <1>3, Zenon

\* A good draft that was extended by so many nodes.
Grown(d, e, count, carriers) ==
    /\ Good(d, carriers) => Good(e, carriers)
    /\ ~ d.overflowed
    /\ Len(d.nodes) \in Nat /\ Len(e.nodes) = Len(d.nodes) + count

\* Four sequences in one, by their lengths.
LEMMA FourLengths ==
    ASSUME NEW s, IsSequence(s), NEW t, IsSequence(t), NEW u, IsSequence(u), NEW v, IsSequence(v)
    PROVE  Len(s \o t \o u \o v) = Len(s) + Len(t) + Len(u) + Len(v)
<1>1. PICK st : st = s \o t
  OBVIOUS
<1>2. IsSequence(st) /\ Len(st) = Len(s) + Len(t)
  BY <1>1, LengthsAdd
<1>3. PICK stu : stu = st \o u
  OBVIOUS
<1>4. IsSequence(stu) /\ Len(stu) = Len(st) + Len(u)
  BY <1>2, <1>3, LengthsAdd
<1>5. Len(stu \o v) = Len(stu) + Len(v)
  BY <1>4, LengthsAdd
<1>6. Len(stu \o v) = Len(s) + Len(t) + Len(u) + Len(v)
  BY <1>2, <1>4, <1>5, Zenon
<1> QED
  BY <1>1, <1>3, <1>6, Zenon

\* Four sequences of nodes in one, each from where the one before it ends.
LEMMA FourGoodNodes ==
    ASSUME NEW carriers, NEW base \in Nat, NEW second \in Nat, NEW third \in Nat, NEW fourth,
           NEW s, GoodNodes(s, base, carriers), second = base + Len(s),
           NEW t, GoodNodes(t, second, carriers), third = second + Len(t),
           NEW u, GoodNodes(u, third, carriers), fourth = third + Len(u),
           NEW v, GoodNodes(v, fourth, carriers)
    PROVE  GoodNodes(s \o t \o u \o v, base, carriers)
<1>0. /\ IsSequence(s) /\ IsSequence(t) /\ IsSequence(u)
      /\ Len(s) \in Nat /\ Len(t) \in Nat /\ Len(u) \in Nat
  BY AppendIsSequence DEF GoodNodes
<1>1. PICK st : st = s \o t
  OBVIOUS
<1>2. GoodNodes(st, base, carriers) /\ Len(st) = Len(s) + Len(t)
  BY <1>1, GoodNodesJoin
<1>3. PICK stu : stu = st \o u
  OBVIOUS
<1>4. GoodNodes(stu, base, carriers) /\ Len(stu) = Len(st) + Len(u)
  <2>1. base + Len(st) = third
    BY <1>0, <1>2
  <2>2. GoodNodes(u, base + Len(st), carriers)
    BY <2>1, Zenon
  <2> QED
    <3>1. GoodNodes(st \o u, base, carriers) /\ Len(st \o u) = Len(st) + Len(u)
      BY <1>2, <2>2, GoodNodesJoin
    <3> QED
      BY <1>3, <3>1, Zenon
<1>5. GoodNodes(stu \o v, base, carriers)
  <2>1. base + Len(stu) = fourth
    BY <1>0, <1>2, <1>4
  <2>2. GoodNodes(v, base + Len(stu), carriers)
    BY <2>1, Zenon
  <2> QED
    BY <1>4, <2>2, GoodNodesJoin
<1> QED
  BY <1>1, <1>3, <1>5, Zenon

\* A share is read with nodes that refer to each other.
LEMMA ShareIsGood ==
    ASSUME NEW base \in Nat, NEW carriers \in 0 .. MaxCarriers, NEW value, NEW at \in Nat,
           at + 3 <= carriers, Stored(value, at), NEW i \in 1 .. 3
    PROVE  LET inverse == InverseMap(value.shares[i].storage)
               nodes == <<ReadC(value.shares[i].carrier), Lit(inverse.multiplier),
                          Binary("Mul", base, base + 1), Lit(inverse.addend),
                          Binary("Add", base + 2, base + 3)>>
           IN  GoodNodes(nodes, base, carriers) /\ Len(nodes) = 5
<1>1. PICK inverse : inverse = InverseMap(value.shares[i].storage)
  OBVIOUS
<1>2. inverse.multiplier \in Word /\ inverse.addend \in Word
  <2>1. /\ value.shares[i].storage.multiplier \in Word
        /\ value.shares[i].storage.addend \in Word
    BY Zenon DEF Stored
  <2> QED
    BY <1>1, <2>1, InverseMapIsWords, Zenon
<1>3. PICK carrier : carrier = value.shares[i].carrier
  OBVIOUS
<1>4. carrier \in Word /\ carrier < carriers
  <2>1. carrier = at + i - 1
    BY <1>3, Zenon DEF Stored
  <2>2. carrier \in 0 .. MaxCarriers /\ carrier < carriers
    BY <2>1, LimitsAssumption
  <2> QED
    BY <2>2, SmallWords, Zenon
<1>5. "Mul" \in BinaryKind /\ "Add" \in BinaryKind
  BY DEF BinaryKind
<1>6. /\ base + 1 \in Nat /\ base + 2 \in Nat /\ base + 3 \in Nat /\ base + 4 \in Nat
      /\ base + 5 \in Nat
  OBVIOUS
<1>7. GoodNode(ReadC(carrier), base + 1, carriers)
  BY <1>4, <1>6, ReadIsGood
<1>8. /\ GoodNode(Lit(inverse.multiplier), base + 2, carriers)
      /\ GoodNode(Lit(inverse.addend), base + 4, carriers)
  BY <1>2, <1>6, LiteralIsGood
<1>9. GoodNode(Binary("Mul", base, base + 1), base + 3, carriers)
  <2>1. base < (base + 3) - 1 /\ base + 1 < (base + 3) - 1
    OBVIOUS
  <2> QED
    BY <1>5, <1>6, <2>1, BinaryIsGood
<1>10. GoodNode(Binary("Add", base + 2, base + 3), base + 5, carriers)
  <2>1. base + 2 < (base + 5) - 1 /\ base + 3 < (base + 5) - 1
    OBVIOUS
  <2> QED
    BY <1>5, <1>6, <2>1, BinaryIsGood
<1> QED
  BY <1>1, <1>3, <1>7, <1>8, <1>9, <1>10, FiveNodes, Zenon

\* A value is read with seventeen nodes, the last of which has it.
LEMMA ReconstructIsGood ==
    ASSUME NEW d, IsDraft(d), NEW carriers \in 0 .. MaxCarriers, GoodNodes(d.nodes, 0, carriers),
           NEW value, NEW at \in Nat, at + 3 <= carriers, Stored(value, at),
           ~ Reconstruct(d, value).overflowed
    PROVE  /\ Grown(d, Reconstruct(d, value), 17, carriers)
           /\ ReconstructedAt(d) = Len(d.nodes) + 16
           /\ Reconstruct(d, value).carrier_writes = d.carrier_writes
<1> DEFINE inverse(i) == InverseMap(value.shares[i].storage)
           share(i) == <<ReadC(value.shares[i].carrier),
                         Lit(inverse(i).multiplier),
                         Binary("Mul", IdAt(d, 5 * i - 5), IdAt(d, 5 * i - 4)),
                         Lit(inverse(i).addend),
                         Binary("Add", IdAt(d, 5 * i - 3), IdAt(d, 5 * i - 2))>>
           join == IF value.family = "Xor" THEN "Xor" ELSE "Add"
           last == <<Binary(join, IdAt(d, 4), IdAt(d, 9)),
                     Binary(join, IdAt(d, 15), IdAt(d, 14))>>
           nodes == share(1) \o share(2) \o share(3) \o last
<1>1. Reconstruct(d, value) = Emit(d, nodes)
  BY Zenon DEF Reconstruct
<1>2. Len(nodes) = 17
  <2>1. \A i \in 1 .. 3 : IsSequence(share(i)) /\ Len(share(i)) = 5
    BY TupleLengths, Zenon
  <2>2. IsSequence(last) /\ Len(last) = 2
    BY TupleLengths, Zenon
  <2>3. PICK s : s = share(1)
    OBVIOUS
  <2>4. PICK t : t = share(2)
    OBVIOUS
  <2>5. PICK u : u = share(3)
    OBVIOUS
  <2>6. PICK v : v = last
    OBVIOUS
  <2>7. /\ IsSequence(s) /\ IsSequence(t) /\ IsSequence(u) /\ IsSequence(v)
        /\ Len(s) = 5 /\ Len(t) = 5 /\ Len(u) = 5 /\ Len(v) = 2
    <3>1. 1 \in 1 .. 3 /\ 2 \in 1 .. 3 /\ 3 \in 1 .. 3
      OBVIOUS
    <3> HIDE DEF share, last
    <3> QED
      BY <2>1, <2>2, <2>3, <2>4, <2>5, <2>6, <3>1, Zenon
  <2>8. Len(s \o t \o u \o v) = 17
    <3>1. Len(s \o t \o u \o v) = Len(s) + Len(t) + Len(u) + Len(v)
      <4>1. IsSequence(s) /\ IsSequence(t) /\ IsSequence(u) /\ IsSequence(v)
        BY <2>7
      <4> HIDE <2>7
      <4> QED
        BY <4>1, FourLengths, SMTT(30)
    <3> QED
      BY <2>7, <3>1
  <2>9. nodes = s \o t \o u \o v
    <3> HIDE DEF share, last
    <3> QED
      BY <2>3, <2>4, <2>5, <2>6, Zenon
  <2> QED
    BY <2>8, <2>9, Zenon
<1> HIDE DEF nodes
<1>3. ~ d.overflowed /\ 17 <= MaxNodeId - Len(d.nodes)
  BY <1>1, <1>2, EmitFits
<1>4. PICK base : base = Len(d.nodes)
  OBVIOUS
<1>5. base \in Nat
  BY <1>4, AppendIsSequence DEF GoodNodes
<1>6. \A k \in 0 .. 16 : IdAt(d, k) = base + k
  BY <1>3, <1>4, <1>5, IdAtIs, SMTT(30)
<1>7. ASSUME NEW i \in 1 .. 3
      PROVE  GoodNodes(share(i), base + (5 * i - 5), carriers) /\ Len(share(i)) = 5
  <2>1. PICK from \in Nat : from = base + (5 * i - 5)
    BY <1>5
  <2>2. /\ IdAt(d, 5 * i - 5) = from /\ IdAt(d, 5 * i - 4) = from + 1
        /\ IdAt(d, 5 * i - 3) = from + 2 /\ IdAt(d, 5 * i - 2) = from + 3
    BY <1>5, <1>6, <2>1
  <2>3. share(i) = <<ReadC(value.shares[i].carrier), Lit(inverse(i).multiplier),
                     Binary("Mul", from, from + 1), Lit(inverse(i).addend),
                     Binary("Add", from + 2, from + 3)>>
    BY <2>2, Zenon
  <2> HIDE DEF share
  <2> QED
    BY <2>1, <2>3, ShareIsGood
<1>8. GoodNodes(last, base + 15, carriers) /\ Len(last) = 2
  <2>1. join \in BinaryKind
    BY DEF BinaryKind
  <2> HIDE DEF join
  <2>2. last = <<Binary(join, base + 4, base + 9), Binary(join, base + 15, base + 14)>>
    BY <1>6
  <2>3. /\ GoodNode(Binary(join, base + 4, base + 9), (base + 15) + 1, carriers)
        /\ GoodNode(Binary(join, base + 15, base + 14), (base + 15) + 2, carriers)
    BY <1>5, <2>1, BinaryIsGood
  <2> HIDE DEF last
  <2>4. base + 15 \in Nat
    BY <1>5
  <2> QED
    BY <2>2, <2>3, <2>4, TwoNodes
<1> HIDE DEF share, last
<1>9. GoodNodes(nodes, base, carriers)
  <2>1. GoodNodes(share(1), base, carriers) /\ Len(share(1)) = 5
    <3>1. base + (5 * 1 - 5) = base
      BY <1>5
    <3> QED
      BY <1>7, <3>1
  <2>2. GoodNodes(share(2), base + 5, carriers) /\ Len(share(2)) = 5
    <3>1. base + (5 * 2 - 5) = base + 5
      BY <1>5
    <3> QED
      BY <1>7, <3>1
  <2>3. GoodNodes(share(3), base + 10, carriers) /\ Len(share(3)) = 5
    <3>1. base + (5 * 3 - 5) = base + 10
      BY <1>5
    <3> QED
      BY <1>7, <3>1
  <2>4. /\ base + 5 \in Nat /\ base + 10 \in Nat /\ base + 10 = (base + 5) + 5
        /\ base + 15 = (base + 10) + 5
    BY <1>5
  <2>5. GoodNodes(share(1) \o share(2) \o share(3) \o last, base, carriers)
    BY <1>5, <1>8, <2>1, <2>2, <2>3, <2>4, FourGoodNodes, Zenon
  <2> QED
    BY <2>5 DEF nodes
<1>10. PICK e : e = Emit(d, nodes)
  OBVIOUS
<1>11. ~ e.overflowed /\ e = Reconstruct(d, value)
  BY <1>1, <1>10, Zenon
<1>12. e = WithNodes(d, d.nodes \o nodes)
  BY <1>10, <1>11, EmitFits, Zenon
<1>13. /\ Len(e.nodes) = base + 17 /\ e.carrier_writes = d.carrier_writes
  <2>1. PICK more : more = d.nodes \o nodes
    OBVIOUS
  <2>2. Len(more) = base + 17
    <3>1. IsSequence(d.nodes) /\ IsSequence(nodes)
      BY <1>9 DEF GoodNodes
    <3> QED
      BY <1>2, <1>4, <2>1, <3>1, LengthsAdd
  <2>3. e = WithNodes(d, more)
    BY <1>12, <2>1, Zenon
  <2>4. WithNodes(d, more).nodes = more /\ WithNodes(d, more).carrier_writes = d.carrier_writes
    BY NodesChanged
  <2> QED
    BY <2>2, <2>3, <2>4, Zenon
<1>14. Good(d, carriers) => Good(e, carriers)
  BY <1>4, <1>9, <1>10, <1>11, EmitIsGood, Zenon
<1>15. Grown(d, e, 17, carriers)
  BY <1>3, <1>4, <1>5, <1>13, <1>14, Zenon DEF Grown
<1>16. ReconstructedAt(d) = base + 16
  BY <1>6 DEF ReconstructedAt
<1> QED
  BY <1>4, <1>11, <1>13, <1>15, <1>16, Zenon

CarriersWritten(writes) == {writes[n].carrier : n \in 1 .. Len(writes)}

\* Three writes, to the carriers from one on.
ThreeWrites(three, at, count) ==
    /\ IsSequence(three) /\ Len(three) = 3
    /\ \A i \in 1 .. 3 :
           /\ three[i] \in [carrier : Nat, value : Nat]
           /\ three[i].carrier = at + i - 1 /\ three[i].value < count

\* Writes to carriers that were not written yet.
LEMMA WritesJoin ==
    ASSUME NEW count \in Nat, NEW carriers \in Nat, NEW writes,
           GoodWrites(writes, count, carriers), Len(writes) + 3 <= count,
           NEW at \in Nat, at + 3 <= carriers, NEW three, ThreeWrites(three, at, count),
           \A n \in 1 .. Len(writes) : writes[n].carrier \notin Span(at)
    PROVE  /\ GoodWrites(writes \o three, count, carriers)
           /\ CarriersWritten(writes \o three) = CarriersWritten(writes) \cup Span(at)
<1>0. IsSequence(three) /\ Len(three) = 3
  BY Zenon DEF ThreeWrites
<1>1. PICK T : writes \in Seq(T) /\ three \in Seq(T)
  <2> DEFINE T == {writes[i] : i \in DOMAIN writes} \cup {three[i] : i \in DOMAIN three}
  <2>1. writes \in Seq(T) /\ three \in Seq(T)
    BY <1>0 DEF GoodWrites, IsSequence
  <2> HIDE DEF T
  <2> QED
    BY <2>1
<1>2. PICK all : all = writes \o three
  OBVIOUS
<1>3. PICK length \in Nat : length = Len(writes)
  BY <1>1
<1>4. /\ all \in Seq(T) /\ Len(all) = length + 3
      /\ \A k \in 1 .. length : all[k] = writes[k]
      /\ \A e \in 1 .. 3 : all[length + e] = three[e]
  <2>1. /\ writes \o three \in Seq(T) /\ Len(writes \o three) = Len(writes) + Len(three)
        /\ \A k \in 1 .. Len(writes) : (writes \o three)[k] = writes[k]
        /\ \A e \in 1 .. Len(three) : (writes \o three)[Len(writes) + e] = three[e]
    BY <1>1, Concatenated
  <2> QED
    BY <1>0, <1>2, <1>3, <2>1, Zenon
<1>5. IsSequence(all)
  <2>1. IsSequence(writes)
    BY Zenon DEF GoodWrites
  <2> QED
    BY <1>0, <1>2, <2>1, ConcatenationIsSequence
<1>6. ASSUME NEW n \in 1 .. (length + 3)
      PROVE  n \in 1 .. length \/ \E e \in 1 .. 3 : n = length + e
  <2>1. CASE n > length
    <3>1. n - length \in 1 .. 3 /\ n = length + (n - length)
      BY <2>1
    <3> QED
      BY <3>1, Zenon
  <2>2. CASE ~ n > length
    BY <2>2
  <2> QED
    BY <2>1, <2>2
<1>7. ASSUME NEW k \in 1 .. length
      PROVE  /\ all[k] \in [carrier : Nat, value : Nat]
             /\ all[k].carrier < carriers /\ all[k].value < count
             /\ all[k].carrier \notin Span(at)
  <2>1. all[k] = writes[k]
    BY <1>4
  <2>2. /\ writes[k] \in [carrier : Nat, value : Nat]
        /\ writes[k].carrier < carriers /\ writes[k].value < count
        /\ writes[k].carrier \notin Span(at)
    BY <1>3, Zenon DEF GoodWrites
  <2> QED
    BY <2>1, <2>2, Zenon
<1>8. ASSUME NEW e \in 1 .. 3
      PROVE  /\ all[length + e] \in [carrier : Nat, value : Nat]
             /\ all[length + e].carrier < carriers /\ all[length + e].value < count
             /\ all[length + e].carrier = at + e - 1
  <2>1. all[length + e] = three[e]
    BY <1>4
  <2>3. /\ three[e] \in [carrier : Nat, value : Nat]
        /\ three[e].carrier = at + e - 1 /\ three[e].value < count
    BY Zenon DEF ThreeWrites
  <2>4. three[e].carrier < carriers
    BY <2>3
  <2> QED
    BY <2>1, <2>3, <2>4, Zenon
<1>9. \A m, n \in 1 .. (length + 3) : all[m].carrier = all[n].carrier => m = n
  <2> SUFFICES ASSUME NEW m \in 1 .. (length + 3), NEW n \in 1 .. (length + 3),
                      all[m].carrier = all[n].carrier
               PROVE  m = n
    OBVIOUS
  <2>1. CASE m \in 1 .. length /\ n \in 1 .. length
    <3>1. all[m] = writes[m] /\ all[n] = writes[n]
      BY <1>4, <2>1
    <3>2. writes[m].carrier = writes[n].carrier
      BY <3>1, Zenon
    <3> QED
      BY <1>3, <2>1, <3>2, Zenon DEF GoodWrites
  <2>2. ASSUME NEW e \in 1 .. 3, NEW k \in 1 .. length PROVE all[length + e].carrier # all[k].carrier
    <3>1. all[length + e].carrier \in Span(at)
      <4>1. at + e - 1 \in Span(at)
        BY DEF Span
      <4> QED
        BY <1>8, <4>1, Zenon
    <3> QED
      BY <1>7, <3>1, Zenon
  <2>3. ASSUME NEW e \in 1 .. 3, NEW f \in 1 .. 3, m = length + e, n = length + f PROVE m = n
    <3>1. all[m].carrier = at + e - 1 /\ all[n].carrier = at + f - 1
      BY <1>8, <2>3, Zenon
    <3>2. at + e - 1 = at + f - 1
      BY <3>1, Zenon
    <3> QED
      BY <2>3, <3>2
  <2> QED
    BY <1>6, <2>1, <2>2, <2>3, Zenon
<1>10. GoodWrites(all, count, carriers)
  <2>1. Len(all) <= count
    BY <1>3, <1>4
  <2>2. \A n \in 1 .. Len(all) :
            /\ all[n] \in [carrier : Nat, value : Nat]
            /\ all[n].carrier < carriers /\ all[n].value < count
    <3>1. ASSUME NEW n \in 1 .. (length + 3)
          PROVE  /\ all[n] \in [carrier : Nat, value : Nat]
                 /\ all[n].carrier < carriers /\ all[n].value < count
      <4>1. CASE n \in 1 .. length
        BY <1>7, <4>1, Zenon
      <4>2. ASSUME NEW e \in 1 .. 3, n = length + e
            PROVE  /\ all[n] \in [carrier : Nat, value : Nat]
                   /\ all[n].carrier < carriers /\ all[n].value < count
        BY <1>8, <4>2, Zenon
      <4> QED
        BY <1>6, <4>1, <4>2, Zenon
    <3> QED
      BY <1>4, <3>1, Zenon
  <2>3. \A m, n \in 1 .. Len(all) : all[m].carrier = all[n].carrier => m = n
    BY <1>4, <1>9, Zenon
  <2> QED
    BY <1>5, <2>1, <2>2, <2>3, Zenon DEF GoodWrites
<1>11. CarriersWritten(all) = CarriersWritten(writes) \cup Span(at)
  <2>1. ASSUME NEW c \in CarriersWritten(all) PROVE c \in CarriersWritten(writes) \cup Span(at)
    <3>1. PICK n \in 1 .. (length + 3) : c = all[n].carrier
      BY <1>4, Zenon DEF CarriersWritten
    <3>2. CASE n \in 1 .. length
      BY <1>3, <1>4, <3>1, <3>2, Zenon DEF CarriersWritten
    <3>3. ASSUME NEW e \in 1 .. 3, n = length + e PROVE c \in Span(at)
      <4>1. c = at + e - 1
        BY <1>8, <3>1, <3>3, Zenon
      <4> QED
        BY <4>1 DEF Span
    <3> QED
      BY <1>6, <3>2, <3>3, Zenon
  <2>2. ASSUME NEW c \in CarriersWritten(writes) PROVE c \in CarriersWritten(all)
    <3>1. PICK k \in 1 .. length : c = writes[k].carrier
      BY <1>3, Zenon DEF CarriersWritten
    <3>2. k \in 1 .. Len(all) /\ all[k] = writes[k]
      BY <1>4
    <3> QED
      BY <3>1, <3>2, Zenon DEF CarriersWritten
  <2>3. ASSUME NEW c \in Span(at) PROVE c \in CarriersWritten(all)
    <3>1. PICK e \in 1 .. 3 : c = at + e - 1
      <4>1. c - at + 1 \in 1 .. 3 /\ c = at + (c - at + 1) - 1
        BY DEF Span
      <4> QED
        BY <4>1, Zenon
    <3>2. length + e \in 1 .. Len(all)
      BY <1>4
    <3>3. c = all[length + e].carrier
      BY <1>8, <3>1, Zenon
    <3> QED
      BY <3>2, <3>3, Zenon DEF CarriersWritten
  <2> QED
    BY <2>1, <2>2, <2>3, Zenon
<1> QED
  BY <1>2, <1>10, <1>11, Zenon

WithWrites(d, writes) == [d EXCEPT !.carrier_writes = writes]

\* Only the writes change.
LEMMA WritesChanged ==
    ASSUME NEW d, IsDraft(d), NEW writes
    PROVE  /\ DOMAIN WithWrites(d, writes) = DOMAIN d
           /\ WithWrites(d, writes).nodes = d.nodes
           /\ WithWrites(d, writes).carrier_writes = writes
           /\ WithWrites(d, writes).memory_writes = d.memory_writes
           /\ WithWrites(d, writes).overflowed = d.overflowed
BY DEF IsDraft, WithWrites

\* A share is stored with nodes that refer to it and to each other.
LEMMA StoredShareIsGood ==
    ASSUME NEW base \in Nat, NEW carriers, NEW storage, storage.multiplier \in Word,
           storage.addend \in Word, NEW share \in Nat, share < base
    PROVE  LET nodes == <<Lit(storage.multiplier), Binary("Mul", share, base),
                          Lit(storage.addend), Binary("Add", base + 1, base + 2)>>
           IN  GoodNodes(nodes, base, carriers) /\ Len(nodes) = 4
<1>1. "Mul" \in BinaryKind /\ "Add" \in BinaryKind
  BY DEF BinaryKind
<1>2. /\ base + 1 \in Nat /\ base + 2 \in Nat /\ base + 3 \in Nat /\ base + 4 \in Nat
  OBVIOUS
<1>3. /\ GoodNode(Lit(storage.multiplier), base + 1, carriers)
      /\ GoodNode(Lit(storage.addend), base + 3, carriers)
  BY <1>2, LiteralIsGood
<1>4. GoodNode(Binary("Mul", share, base), base + 2, carriers)
  <2>1. share < (base + 2) - 1 /\ base < (base + 2) - 1
    OBVIOUS
  <2> QED
    BY <1>1, <1>2, <2>1, BinaryIsGood
<1>5. GoodNode(Binary("Add", base + 1, base + 2), base + 4, carriers)
  <2>1. base + 1 < (base + 4) - 1 /\ base + 2 < (base + 4) - 1
    OBVIOUS
  <2> QED
    BY <1>1, <1>2, <2>1, BinaryIsGood
<1> QED
  BY <1>3, <1>4, <1>5, FourNodes, Zenon

\* The nodes of stage_physical_write, by the place of the first.
SplitNodes(split, base, logical, semantic, history, salt) ==
    <<Mixed(semantic, history, salt), Mixed(history, semantic, Xor(salt, Tag("second"))),
      Binary(split, logical, base), Binary(split, base + 2, base + 1)>>

\* The shares are mixed from the state, and the last is what is left.
LEMMA SplitNodesAreGood ==
    ASSUME NEW base \in Nat, NEW carriers, NEW split \in {"Xor", "Sub"}, NEW salt \in Word,
           NEW logical \in 0 .. (base - 1), NEW semantic \in 0 .. (base - 1),
           NEW history \in 0 .. (base - 1)
    PROVE  /\ GoodNodes(SplitNodes(split, base, logical, semantic, history, salt), base, carriers)
           /\ Len(SplitNodes(split, base, logical, semantic, history, salt)) = 4
<1>1. split \in BinaryKind
  BY DEF BinaryKind
<1>2. Xor(salt, Tag("second")) \in Word
  BY SaltTagsAreWords, WordOperations, Zenon
<1>3. /\ base + 1 \in Nat /\ base + 2 \in Nat /\ base + 3 \in Nat /\ base + 4 \in Nat
      /\ logical \in Nat /\ semantic \in Nat /\ history \in Nat
  OBVIOUS
<1>4. GoodNode(Mixed(semantic, history, salt), base + 1, carriers)
  <2>1. semantic < (base + 1) - 1 /\ history < (base + 1) - 1
    OBVIOUS
  <2> QED
    BY <1>3, <2>1, MixedIsGood
<1>5. GoodNode(Mixed(history, semantic, Xor(salt, Tag("second"))), base + 2, carriers)
  <2>1. semantic < (base + 2) - 1 /\ history < (base + 2) - 1
    OBVIOUS
  <2> QED
    BY <1>2, <1>3, <2>1, MixedIsGood
<1>6. GoodNode(Binary(split, logical, base), base + 3, carriers)
  <2>1. logical < (base + 3) - 1 /\ base < (base + 3) - 1
    OBVIOUS
  <2> QED
    BY <1>1, <1>3, <2>1, BinaryIsGood
<1>7. GoodNode(Binary(split, base + 2, base + 1), base + 4, carriers)
  <2>1. base + 2 < (base + 4) - 1 /\ base + 1 < (base + 4) - 1
    OBVIOUS
  <2> QED
    BY <1>1, <1>3, <2>1, BinaryIsGood
<1> QED
  BY <1>4, <1>5, <1>6, <1>7, FourNodes, Zenon DEF SplitNodes

\* Three sequences, each mapped value of its own place.
LEMMA ThreeOf ==
    ASSUME NEW a, NEW b, NEW c
    PROVE  IsSequence(<<a, b, c>>) /\ Len(<<a, b, c>>) = 3
BY DEF IsSequence

StageNodes(d, value, logical, semantic, history, salt) ==
    LET split == IF value.family = "Xor" THEN "Xor" ELSE "Sub"
        share == <<IdAt(d, 0), IdAt(d, 1), IdAt(d, 3)>>
        stored(i) == <<Lit(value.shares[i].storage.multiplier),
                       Binary("Mul", share[i], IdAt(d, 4 * i)),
                       Lit(value.shares[i].storage.addend),
                       Binary("Add", IdAt(d, 4 * i + 1), IdAt(d, 4 * i + 2))>>
    IN  <<Mixed(semantic, history, salt),
          Mixed(history, semantic, Xor(salt, Tag("second"))),
          Binary(split, logical, IdAt(d, 0)),
          Binary(split, IdAt(d, 2), IdAt(d, 1))>> \o stored(1) \o stored(2) \o stored(3)

StageWrites(d, value) ==
    [i \in 1 .. 3 |-> WriteC(value.shares[i].carrier, IdAt(d, 4 * i + 3))]

-----------------------------------------------------------------------------
(***************************************************************************)
(* Staging a value: its three shares are written to its carriers.          *)
(***************************************************************************)

\* What stage_physical_write does: nodes, then writes.
LEMMA StageWriteIs ==
    ASSUME NEW d, NEW value, NEW logical, NEW semantic, NEW history, NEW salt, NEW emitted,
           emitted = Emit(d, StageNodes(d, value, logical, semantic, history, salt))
    PROVE  StageWrite(d, value, logical, semantic, history, salt)
               = WithWrites(emitted, emitted.carrier_writes \o StageWrites(d, value))
BY ZenonT(40) DEF StageWrite, StageNodes, StageWrites, WithWrites

\* Sixteen nodes.
LEMMA StageNodesCount ==
    ASSUME NEW d, NEW value, NEW logical, NEW semantic, NEW history, NEW salt
    PROVE  /\ Len(StageNodes(d, value, logical, semantic, history, salt)) = 16
           /\ IsSequence(StageNodes(d, value, logical, semantic, history, salt))
<1> DEFINE split == IF value.family = "Xor" THEN "Xor" ELSE "Sub"
           share == <<IdAt(d, 0), IdAt(d, 1), IdAt(d, 3)>>
           stored(i) == <<Lit(value.shares[i].storage.multiplier),
                          Binary("Mul", share[i], IdAt(d, 4 * i)),
                          Lit(value.shares[i].storage.addend),
                          Binary("Add", IdAt(d, 4 * i + 1), IdAt(d, 4 * i + 2))>>
           first == <<Mixed(semantic, history, salt),
                      Mixed(history, semantic, Xor(salt, Tag("second"))),
                      Binary(split, logical, IdAt(d, 0)),
                      Binary(split, IdAt(d, 2), IdAt(d, 1))>>
<1>1. PICK s : s = first
  OBVIOUS
<1>2. PICK t : t = stored(1)
  OBVIOUS
<1>3. PICK u : u = stored(2)
  OBVIOUS
<1>4. PICK v : v = stored(3)
  OBVIOUS
<1>5. StageNodes(d, value, logical, semantic, history, salt) = s \o t \o u \o v
  BY <1>1, <1>2, <1>3, <1>4, Zenon DEF StageNodes
<1>6. /\ IsSequence(s) /\ IsSequence(t) /\ IsSequence(u) /\ IsSequence(v)
      /\ Len(s) = 4 /\ Len(t) = 4 /\ Len(u) = 4 /\ Len(v) = 4
  BY <1>1, <1>2, <1>3, <1>4, TupleLengths, Zenon
<1> HIDE DEF first, stored, share, split
<1>7. Len(s \o t \o u \o v) = Len(s) + Len(t) + Len(u) + Len(v)
  <2>1. IsSequence(s) /\ IsSequence(t) /\ IsSequence(u) /\ IsSequence(v)
    BY <1>6
  <2> HIDE <1>6
  <2> QED
    BY <2>1, FourLengths, SMTT(30)
<1>8. Len(s \o t \o u \o v) = 16
  BY <1>6, <1>7
<1>9. IsSequence(s \o t \o u \o v)
  BY <1>6, ConcatenationIsSequence, Zenon
<1> QED
  BY <1>5, <1>8, <1>9, Zenon

\* They refer to the logical value, the state and each other.
LEMMA StageNodesAreGood ==
    ASSUME NEW d, NEW base \in Nat, \A k \in 0 .. 15 : IdAt(d, k) = base + k, NEW carriers,
           NEW value, NEW at, Stored(value, at), NEW salt \in Word,
           NEW logical \in 0 .. (base - 1), NEW semantic \in 0 .. (base - 1),
           NEW history \in 0 .. (base - 1)
    PROVE  GoodNodes(StageNodes(d, value, logical, semantic, history, salt), base, carriers)
<1> DEFINE split == IF value.family = "Xor" THEN "Xor" ELSE "Sub"
           share == <<IdAt(d, 0), IdAt(d, 1), IdAt(d, 3)>>
           stored(i) == <<Lit(value.shares[i].storage.multiplier),
                          Binary("Mul", share[i], IdAt(d, 4 * i)),
                          Lit(value.shares[i].storage.addend),
                          Binary("Add", IdAt(d, 4 * i + 1), IdAt(d, 4 * i + 2))>>
           first == <<Mixed(semantic, history, salt),
                      Mixed(history, semantic, Xor(salt, Tag("second"))),
                      Binary(split, logical, IdAt(d, 0)),
                      Binary(split, IdAt(d, 2), IdAt(d, 1))>>
<1>1. GoodNodes(first, base, carriers) /\ Len(first) = 4
  <2>1. split \in {"Xor", "Sub"}
    OBVIOUS
  <2>2. IdAt(d, 0) = base /\ IdAt(d, 1) = base + 1 /\ IdAt(d, 2) = base + 2
    OBVIOUS
  <2> HIDE DEF split
  <2>3. first = SplitNodes(split, base, logical, semantic, history, salt)
    BY <2>2, Zenon DEF SplitNodes
  <2> HIDE DEF first
  <2> QED
    BY <2>1, <2>3, SplitNodesAreGood
<1>2. ASSUME NEW i \in 1 .. 3
      PROVE  GoodNodes(stored(i), base + 4 * i, carriers) /\ Len(stored(i)) = 4
  <2>1. share[i] \in Nat /\ share[i] < base + 4 * i
    <3>1. IdAt(d, 0) = base /\ IdAt(d, 1) = base + 1 /\ IdAt(d, 3) = base + 3
      OBVIOUS
    <3> QED
      BY <3>1
  <2>2. PICK shared \in Nat : shared = share[i]
    BY <2>1
  <2> HIDE DEF share
  <2>3. PICK from \in Nat : from = base + 4 * i
    OBVIOUS
  <2>4. IdAt(d, 4 * i) = from /\ IdAt(d, 4 * i + 1) = from + 1 /\ IdAt(d, 4 * i + 2) = from + 2
    BY <2>3
  <2>5. PICK storage : storage = value.shares[i].storage
    OBVIOUS
  <2>6. storage.multiplier \in Word /\ storage.addend \in Word
    BY <2>5, Zenon DEF Stored
  <2>7. stored(i) = <<Lit(storage.multiplier), Binary("Mul", shared, from),
                      Lit(storage.addend), Binary("Add", from + 1, from + 2)>>
    BY <2>2, <2>4, <2>5, Zenon
  <2>8. shared < from
    BY <2>1, <2>2, <2>3
  <2> HIDE DEF stored
  <2> QED
    BY <2>3, <2>6, <2>7, <2>8, StoredShareIsGood
<1>3. StageNodes(d, value, logical, semantic, history, salt)
          = first \o stored(1) \o stored(2) \o stored(3)
  BY Zenon DEF StageNodes
<1> HIDE DEF first, stored, share, split
<1>4. PICK second \in Nat : second = base + 4
  OBVIOUS
<1>5. PICK third \in Nat : third = base + 8
  OBVIOUS
<1>6. PICK fourth \in Nat : fourth = base + 12
  OBVIOUS
<1>7. /\ GoodNodes(stored(1), second, carriers) /\ Len(stored(1)) = 4
      /\ GoodNodes(stored(2), third, carriers) /\ Len(stored(2)) = 4
      /\ GoodNodes(stored(3), fourth, carriers) /\ Len(stored(3)) = 4
  <2>1. /\ 1 \in 1 .. 3 /\ 2 \in 1 .. 3 /\ 3 \in 1 .. 3
        /\ base + 4 * 1 = second /\ base + 4 * 2 = third /\ base + 4 * 3 = fourth
    BY <1>4, <1>5, <1>6
  <2> QED
    BY <1>2, <2>1, Zenon
<1>9. PICK s : s = first
  OBVIOUS
<1>10. PICK t : t = stored(1)
  OBVIOUS
<1>11. PICK u : u = stored(2)
  OBVIOUS
<1>12. PICK v : v = stored(3)
  OBVIOUS
<1>8. /\ GoodNodes(s, base, carriers) /\ Len(s) = 4
      /\ GoodNodes(t, second, carriers) /\ Len(t) = 4
      /\ GoodNodes(u, third, carriers) /\ Len(u) = 4
      /\ GoodNodes(v, fourth, carriers)
  BY <1>1, <1>7, <1>9, <1>10, <1>11, <1>12, Zenon
<1>13. GoodNodes(s \o t \o u \o v, base, carriers)
  <2>1. second = base + Len(s) /\ third = second + Len(t) /\ fourth = third + Len(u)
    BY <1>4, <1>5, <1>6, <1>8
  <2> QED
    BY <1>8, <2>1, FourGoodNodes
<1> QED
  BY <1>3, <1>9, <1>10, <1>11, <1>12, <1>13, Zenon

\* A write leaves a draft, of the same island.
LEMMA StageWriteIsDraft ==
    ASSUME NEW d, IsDraft(d), NEW value, NEW logical, NEW semantic, NEW history, NEW salt
    PROVE  LET e == StageWrite(d, value, logical, semantic, history, salt)
           IN  /\ IsDraft(e) /\ DOMAIN e = DOMAIN d
               /\ ~ e.overflowed => ~ d.overflowed
<1>1. PICK emitted :
          emitted = Emit(d, StageNodes(d, value, logical, semantic, history, salt))
  OBVIOUS
<1>2. PICK writes : writes = emitted.carrier_writes \o StageWrites(d, value)
  OBVIOUS
<1>3. PICK e : e = WithWrites(emitted, writes)
  OBVIOUS
<1>4. e = StageWrite(d, value, logical, semantic, history, salt)
  BY <1>1, <1>2, <1>3, StageWriteIs, ZenonT(40)
<1>5. IsDraft(emitted) /\ DOMAIN emitted = DOMAIN d
  BY <1>1, EmitIsDraft, Zenon
<1>6. DOMAIN e = DOMAIN emitted /\ e.overflowed = emitted.overflowed
  <2>1. /\ DOMAIN WithWrites(emitted, writes) = DOMAIN emitted
        /\ WithWrites(emitted, writes).overflowed = emitted.overflowed
    BY <1>5, WritesChanged
  <2> QED
    BY <1>3, <2>1, Zenon
<1>7. IsDraft(e)
  BY <1>5, <1>6, Zenon DEF IsDraft
<1>8. ~ emitted.overflowed => ~ d.overflowed
  <2>1. PICK nodes : nodes = StageNodes(d, value, logical, semantic, history, salt)
    OBVIOUS
  <2>2. ~ Emit(d, nodes).overflowed => ~ d.overflowed
    BY EmitFits, Zenon
  <2> QED
    BY <1>1, <2>1, <2>2, Zenon
<1> QED
  BY <1>4, <1>5, <1>6, <1>7, <1>8, Zenon

\* A write changes no name of an island.
LEMMA StageWriteSameNames ==
    ASSUME NEW d, DOMAIN d = DraftFields, NEW value, NEW logical, NEW semantic, NEW history,
           NEW salt
    PROVE  SameNames(d, StageWrite(d, value, logical, semantic, history, salt))
<1>1. PICK emitted :
          emitted = Emit(d, StageNodes(d, value, logical, semantic, history, salt))
  OBVIOUS
<1>2. PICK writes : writes = emitted.carrier_writes \o StageWrites(d, value)
  OBVIOUS
<1>3. PICK e : e = WithWrites(emitted, writes)
  OBVIOUS
<1>4. e = StageWrite(d, value, logical, semantic, history, salt)
  BY <1>1, <1>2, <1>3, StageWriteIs, ZenonT(40)
<1>5. SameNames(d, emitted)
  BY <1>1, EmitSameNames, Zenon
<1>6. DOMAIN emitted = DraftFields
  BY <1>5, Zenon DEF SameNames
<1>7. SameNames(emitted, e)
  BY <1>3, <1>6 DEF SameNames, WithWrites, DraftFields
<1> QED
  BY <1>4, <1>5, <1>7, Zenon DEF SameNames

\* The writes of the three shares.
LEMMA StageWritesAre ==
    ASSUME NEW d, NEW base \in Nat, \A k \in 0 .. 15 : IdAt(d, k) = base + k,
           NEW value, NEW at \in Nat, Stored(value, at)
    PROVE  ThreeWrites(StageWrites(d, value), at, base + 16)
<1> DEFINE write(i) == WriteC(value.shares[i].carrier, IdAt(d, 4 * i + 3))
<1>1. StageWrites(d, value) = [i \in 1 .. 3 |-> write(i)]
  BY Zenon DEF StageWrites
<1>2. ASSUME NEW i \in 1 .. 3
      PROVE  /\ write(i) \in [carrier : Nat, value : Nat]
             /\ write(i).carrier = at + i - 1 /\ write(i).value < base + 16
  <2>1. PICK carrier : carrier = value.shares[i].carrier
    OBVIOUS
  <2>2. carrier = at + i - 1
    BY <2>1, Zenon DEF Stored
  <2>3. PICK node : node = IdAt(d, 4 * i + 3)
    OBVIOUS
  <2>4. node = base + (4 * i + 3)
    BY <2>3
  <2>5. write(i) = [carrier |-> carrier, value |-> node]
    BY <2>1, <2>3, Zenon DEF WriteC
  <2> HIDE DEF write
  <2>6. carrier \in Nat /\ node \in Nat /\ node < base + 16
    BY <2>2, <2>4
  <2> QED
    BY <2>2, <2>5, <2>6
<1> HIDE DEF write
<1>3. PICK writes : writes = [i \in 1 .. 3 |-> write(i)]
  OBVIOUS
<1>4. IsSequence(writes) /\ Len(writes) = 3
  BY <1>3 DEF IsSequence
<1>5. \A i \in 1 .. 3 : writes[i] = write(i)
  BY <1>3
<1> QED
  BY <1>1, <1>2, <1>3, <1>4, <1>5, Zenon DEF ThreeWrites

\* A write leaves a good draft, with three more carriers written.
LEMMA StageWriteIsGood ==
    ASSUME NEW d, IsDraft(d), NEW carriers \in 0 .. MaxCarriers, Good(d, carriers),
           NEW value, NEW at \in Nat, at + 3 <= carriers, Stored(value, at),
           NEW logical, NodeOf(d, logical), NEW semantic, NodeOf(d, semantic),
           NEW history, NodeOf(d, history), NEW salt \in Word,
           CarriersWritten(d.carrier_writes) \cap Span(at) = {},
           ~ StageWrite(d, value, logical, semantic, history, salt).overflowed
    PROVE  LET e == StageWrite(d, value, logical, semantic, history, salt)
           IN  /\ Good(e, carriers)
               /\ Len(d.nodes) \in Nat /\ Len(e.nodes) = Len(d.nodes) + 16
               /\ CarriersWritten(e.carrier_writes)
                      = CarriersWritten(d.carrier_writes) \cup Span(at)
               /\ e.memory_writes = d.memory_writes
<1>1. PICK nodes : nodes = StageNodes(d, value, logical, semantic, history, salt)
  OBVIOUS
<1>2. PICK emitted : emitted = Emit(d, nodes)
  OBVIOUS
<1>3. PICK three : three = StageWrites(d, value)
  OBVIOUS
<1>4. PICK writes : writes = emitted.carrier_writes \o three
  OBVIOUS
<1>5. PICK e : e = WithWrites(emitted, writes)
  OBVIOUS
<1>6. e = StageWrite(d, value, logical, semantic, history, salt)
  BY <1>1, <1>2, <1>3, <1>4, <1>5, StageWriteIs, ZenonT(40)
<1>7. IsDraft(emitted)
  BY <1>2, EmitIsDraft, Zenon
<1>8. /\ e.nodes = emitted.nodes /\ e.carrier_writes = writes
      /\ e.memory_writes = emitted.memory_writes /\ e.overflowed = emitted.overflowed
  <2>1. /\ WithWrites(emitted, writes).nodes = emitted.nodes
        /\ WithWrites(emitted, writes).carrier_writes = writes
        /\ WithWrites(emitted, writes).memory_writes = emitted.memory_writes
        /\ WithWrites(emitted, writes).overflowed = emitted.overflowed
    BY <1>7, WritesChanged
  <2> QED
    BY <1>5, <2>1, Zenon
<1>9. ~ emitted.overflowed
  BY <1>6, <1>8, Zenon
<1>10. Len(nodes) = 16
  BY <1>1, StageNodesCount, Zenon
<1>11. PICK base : base = Len(d.nodes)
  OBVIOUS
<1>12. base \in Nat
  BY <1>11, AppendIsSequence DEF Good, GoodNodes
<1>13. Len(nodes) <= MaxNodeId - Len(d.nodes)
  BY <1>2, <1>9, EmitFits, Zenon
<1>14. \A k \in 0 .. 15 : IdAt(d, k) = base + k
  BY <1>10, <1>11, <1>12, <1>13, IdAtIs
<1>15. GoodNodes(nodes, base, carriers)
  <2>1. /\ logical \in 0 .. (base - 1) /\ semantic \in 0 .. (base - 1)
        /\ history \in 0 .. (base - 1)
    BY <1>11, Zenon DEF NodeOf
  <2> QED
    BY <1>1, <1>12, <1>14, <2>1, StageNodesAreGood, Zenon
<1>16. /\ Good(emitted, carriers) /\ Len(emitted.nodes) = base + 16
       /\ emitted.carrier_writes = d.carrier_writes
       /\ emitted.memory_writes = d.memory_writes
  <2>1. /\ Good(emitted, carriers) /\ Len(emitted.nodes) = Len(d.nodes) + Len(nodes)
        /\ emitted.carrier_writes = d.carrier_writes
        /\ emitted.memory_writes = d.memory_writes
    <3>1. GoodNodes(nodes, Len(d.nodes), carriers) /\ ~ Emit(d, nodes).overflowed
      BY <1>2, <1>9, <1>11, <1>15, Zenon
    <3> QED
      BY <1>2, <3>1, EmitIsGood, Zenon
  <2> QED
    BY <1>10, <1>11, <2>1
<1>17. ThreeWrites(three, at, base + 16)
  BY <1>3, <1>12, <1>14, StageWritesAre, Zenon
<1>18. /\ GoodWrites(d.carrier_writes, base + 16, carriers)
       /\ Len(d.carrier_writes) + 3 <= base + 16
  <2>1. GoodWrites(d.carrier_writes, Len(emitted.nodes), carriers)
    BY <1>16, Zenon DEF Good
  <2>2. GoodWrites(d.carrier_writes, base, carriers)
    BY <1>11, Zenon DEF Good
  <2>3. Len(d.carrier_writes) <= base /\ Len(d.carrier_writes) \in Nat
    <3>1. IsSequence(d.carrier_writes) /\ Len(d.carrier_writes) <= base
      BY <2>2, Zenon DEF GoodWrites
    <3> QED
      BY <3>1, AppendIsSequence, Zenon
  <2> QED
    BY <1>12, <1>16, <2>1, <2>3
<1>19. /\ GoodWrites(writes, base + 16, carriers)
       /\ CarriersWritten(writes) = CarriersWritten(d.carrier_writes) \cup Span(at)
  <2>1. PICK before : before = d.carrier_writes
    OBVIOUS
  <2>2. \A n \in 1 .. Len(before) : before[n].carrier \notin Span(at)
    BY <2>1, Zenon DEF CarriersWritten
  <2>3. writes = before \o three
    BY <1>4, <1>16, <2>1, Zenon
  <2>4. PICK count \in Nat : count = base + 16
    BY <1>12
  <2>5. carriers \in Nat
    OBVIOUS
  <2>6. /\ GoodWrites(before, count, carriers) /\ Len(before) + 3 <= count
        /\ ThreeWrites(three, at, count)
    BY <1>17, <1>18, <2>1, <2>4, Zenon
  <2>7. /\ GoodWrites(before \o three, count, carriers)
        /\ CarriersWritten(before \o three) = CarriersWritten(before) \cup Span(at)
    BY <2>2, <2>5, <2>6, WritesJoin
  <2> QED
    BY <2>1, <2>3, <2>4, <2>7, Zenon
<1>20. Good(e, carriers)
  <2>1. /\ GoodNodes(e.nodes, 0, carriers) /\ Len(e.nodes) <= MaxNodeId
        /\ GoodStores(e.memory_writes, Len(e.nodes))
    BY <1>8, <1>16, Zenon DEF Good
  <2>2. GoodWrites(e.carrier_writes, Len(e.nodes), carriers)
    BY <1>8, <1>16, <1>19, Zenon
  <2> QED
    BY <2>1, <2>2, Zenon DEF Good
<1> QED
  BY <1>6, <1>8, <1>11, <1>12, <1>16, <1>19, <1>20, Zenon

\* What a write needs.
Stageable(d, carriers, value, at, logical, semantic, history, salt) ==
    /\ IsDraft(d) /\ carriers \in 0 .. MaxCarriers /\ Good(d, carriers)
    /\ at \in Nat /\ at + 3 <= carriers /\ Stored(value, at)
    /\ NodeOf(d, logical) /\ NodeOf(d, semantic) /\ NodeOf(d, history) /\ salt \in Word
    /\ CarriersWritten(d.carrier_writes) \cap Span(at) = {}

\* What it leaves.
Staged(d, e, carriers, at) ==
    /\ Good(e, carriers)
    /\ Len(d.nodes) \in Nat /\ Len(e.nodes) = Len(d.nodes) + 16
    /\ CarriersWritten(e.carrier_writes) = CarriersWritten(d.carrier_writes) \cup Span(at)
    /\ e.memory_writes = d.memory_writes

\* The same in short.
LEMMA StageWriteStages ==
    ASSUME NEW d, NEW carriers, NEW value, NEW at, NEW logical, NEW semantic, NEW history,
           NEW salt, Stageable(d, carriers, value, at, logical, semantic, history, salt),
           ~ StageWrite(d, value, logical, semantic, history, salt).overflowed
    PROVE  Staged(d, StageWrite(d, value, logical, semantic, history, salt), carriers, at)
BY StageWriteIsGood DEF Stageable, Staged

\* What an island knows is in nodes it has.
Names(d) ==
    /\ NodeOf(d, d.semantic) /\ NodeOf(d, d.history) /\ NodeOf(d, d.last) /\ NodeOf(d, d.fold)
    /\ \A id \in DOMAIN d.bindings : NodeOf(d, d.bindings[id])

\* A node of a draft is one of a longer draft.
LEMMA NodeStays ==
    ASSUME NEW d, NEW e, Len(d.nodes) \in Nat, Len(e.nodes) \in Nat,
           Len(d.nodes) <= Len(e.nodes), NEW node, NodeOf(d, node)
    PROVE  NodeOf(e, node)
BY DEF NodeOf

\* So are those an island knows.
LEMMA NamesStay ==
    ASSUME NEW d, NEW e, Len(d.nodes) \in Nat, Len(e.nodes) \in Nat,
           Len(d.nodes) <= Len(e.nodes), SameNames(d, e), Names(d)
    PROVE  Names(e)
<1>1. ASSUME NEW node, NodeOf(d, node) PROVE NodeOf(e, node)
  BY <1>1, NodeStays
<1>2. /\ NodeOf(e, d.semantic) /\ NodeOf(e, d.history) /\ NodeOf(e, d.last) /\ NodeOf(e, d.fold)
      /\ \A id \in DOMAIN d.bindings : NodeOf(e, d.bindings[id])
  BY <1>1, Zenon DEF Names
<1>3. /\ e.semantic = d.semantic /\ e.history = d.history /\ e.last = d.last
      /\ e.fold = d.fold /\ e.bindings = d.bindings
  BY Zenon DEF SameNames
<1> QED
  BY <1>2, <1>3, Zenon DEF Names

\* The fold is one node.
FoldNodes(d, logical, salt) == <<Mixed(d.fold, logical, salt)>>

WithFold(d, logical, node) == [d EXCEPT !.last = logical, !.fold = node, !.items = @ + 1]

-----------------------------------------------------------------------------
(***************************************************************************)
(* Folds, and the continuation an island leaves.                           *)
(***************************************************************************)

\* What an island learns from an item.
LEMMA FoldChanged ==
    ASSUME NEW d, DOMAIN d = DraftFields, NEW logical, NEW node
    PROVE  /\ DOMAIN WithFold(d, logical, node) = DraftFields
           /\ WithFold(d, logical, node).nodes = d.nodes
           /\ WithFold(d, logical, node).carrier_writes = d.carrier_writes
           /\ WithFold(d, logical, node).memory_writes = d.memory_writes
           /\ WithFold(d, logical, node).overflowed = d.overflowed
           /\ WithFold(d, logical, node).semantic = d.semantic
           /\ WithFold(d, logical, node).history = d.history
           /\ WithFold(d, logical, node).bindings = d.bindings
           /\ WithFold(d, logical, node).last = logical
           /\ WithFold(d, logical, node).fold = node
BY DEF WithFold, DraftFields

\* Folding an item leaves a draft.
LEMMA FoldedIsDraft ==
    ASSUME NEW d, IsDraft(d), DOMAIN d = DraftFields, NEW logical, NEW salt
    PROVE  /\ IsDraft(Folded(d, logical, salt))
           /\ ~ Folded(d, logical, salt).overflowed => ~ d.overflowed
<1>1. PICK nodes : nodes = FoldNodes(d, logical, salt)
  OBVIOUS
<1>2. PICK emitted : emitted = Emit(d, nodes)
  OBVIOUS
<1>3. IsDraft(emitted) /\ DOMAIN emitted = DraftFields
  BY <1>2, EmitIsDraft, Zenon
<1>4. PICK e : e = WithFold(emitted, logical, IdAt(d, 0))
  OBVIOUS
<1>5. e = Folded(d, logical, salt)
  BY <1>1, <1>2, <1>4, Zenon DEF Folded, WithFold, FoldNodes
<1>6. DOMAIN e = DraftFields /\ e.overflowed = emitted.overflowed
  <2>1. PICK node : node = IdAt(d, 0)
    OBVIOUS
  <2>2. /\ DOMAIN WithFold(emitted, logical, node) = DraftFields
        /\ WithFold(emitted, logical, node).overflowed = emitted.overflowed
    BY <1>3, FoldChanged
  <2> QED
    BY <1>4, <2>1, <2>2, Zenon
<1>7. IsDraft(e)
  BY <1>3, <1>6, Zenon DEF IsDraft
<1>8. ~ emitted.overflowed => ~ d.overflowed
  BY <1>2, EmitFits, Zenon
<1> QED
  BY <1>5, <1>6, <1>7, <1>8, Zenon

\* Folding an item leaves a good draft, whose names are nodes it has.
LEMMA FoldedIsGood ==
    ASSUME NEW d, IsDraft(d), DOMAIN d = DraftFields, NEW carriers, Good(d, carriers), Names(d),
           NEW logical, NodeOf(d, logical), NEW salt \in Word,
           ~ Folded(d, logical, salt).overflowed
    PROVE  /\ Good(Folded(d, logical, salt), carriers) /\ Names(Folded(d, logical, salt))
           /\ Folded(d, logical, salt).carrier_writes = d.carrier_writes
<1>1. PICK nodes : nodes = FoldNodes(d, logical, salt)
  OBVIOUS
<1>2. PICK emitted : emitted = Emit(d, nodes)
  OBVIOUS
<1>3. IsDraft(emitted) /\ DOMAIN emitted = DraftFields /\ SameNames(d, emitted)
  BY <1>2, EmitIsDraft, EmitSameNames, Zenon
<1>4. PICK node : node = IdAt(d, 0)
  OBVIOUS
<1>5. PICK e : e = WithFold(emitted, logical, node)
  OBVIOUS
<1>6. e = Folded(d, logical, salt)
  BY <1>1, <1>2, <1>4, <1>5, Zenon DEF Folded, WithFold, FoldNodes
<1>7. /\ e.nodes = emitted.nodes /\ e.carrier_writes = emitted.carrier_writes
      /\ e.memory_writes = emitted.memory_writes /\ e.overflowed = emitted.overflowed
      /\ e.semantic = emitted.semantic /\ e.history = emitted.history
      /\ e.bindings = emitted.bindings /\ e.last = logical /\ e.fold = node
  <2>1. /\ WithFold(emitted, logical, node).nodes = emitted.nodes
        /\ WithFold(emitted, logical, node).carrier_writes = emitted.carrier_writes
        /\ WithFold(emitted, logical, node).memory_writes = emitted.memory_writes
        /\ WithFold(emitted, logical, node).overflowed = emitted.overflowed
        /\ WithFold(emitted, logical, node).semantic = emitted.semantic
        /\ WithFold(emitted, logical, node).history = emitted.history
        /\ WithFold(emitted, logical, node).bindings = emitted.bindings
        /\ WithFold(emitted, logical, node).last = logical
        /\ WithFold(emitted, logical, node).fold = node
    BY <1>3, FoldChanged
  <2> QED
    BY <1>5, <2>1, Zenon
<1>8. ~ Emit(d, nodes).overflowed
  BY <1>2, <1>6, <1>7, Zenon
<1>9. PICK base : base = Len(d.nodes)
  OBVIOUS
<1>10. base \in Nat
  BY <1>9, AppendIsSequence DEF Good, GoodNodes
<1>11. GoodNodes(nodes, base, carriers) /\ Len(nodes) = 1
  <2>1. d.fold \in 0 .. (base - 1) /\ logical \in 0 .. (base - 1)
    BY <1>9, Zenon DEF NodeOf, Names
  <2>2. PICK fold \in Nat : fold = d.fold
    BY <1>10, <2>1
  <2>3. /\ fold \in Nat /\ logical \in Nat /\ base + 1 \in Nat
        /\ fold < (base + 1) - 1 /\ logical < (base + 1) - 1
    BY <1>10, <2>1, <2>2
  <2>4. GoodNode(Mixed(fold, logical, salt), base + 1, carriers)
    BY <2>3, MixedIsGood
  <2>5. nodes = <<Mixed(fold, logical, salt)>>
    BY <1>1, <2>2, Zenon DEF FoldNodes
  <2> QED
    BY <1>10, <2>4, <2>5, OneNode, Zenon
<1>12. /\ Good(emitted, carriers) /\ Len(emitted.nodes) = base + 1
       /\ emitted.carrier_writes = d.carrier_writes
  <2>1. GoodNodes(nodes, Len(d.nodes), carriers)
    BY <1>9, <1>11, Zenon
  <2>2. /\ Good(emitted, carriers) /\ Len(emitted.nodes) = Len(d.nodes) + Len(nodes)
        /\ emitted.carrier_writes = d.carrier_writes
    BY <1>2, <1>8, <2>1, EmitIsGood, Zenon
  <2> QED
    BY <1>9, <1>11, <2>2, Zenon
<1>13. node = base
  <2>1. Len(nodes) <= MaxNodeId - Len(d.nodes)
    BY <1>8, EmitFits, Zenon
  <2>2. \A k \in 0 .. 0 : IdAt(d, k) = base + k
    BY <1>9, <1>10, <1>11, <2>1, IdAtIs
  <2> QED
    BY <1>4, <1>10, <2>2
<1>14. Good(e, carriers)
  BY <1>7, <1>12, Zenon DEF Good
<1>15. Names(e)
  <2>1. Len(d.nodes) \in Nat /\ Len(e.nodes) \in Nat /\ Len(d.nodes) <= Len(e.nodes)
    BY <1>7, <1>9, <1>10, <1>12
  <2>2. ASSUME NEW x, NodeOf(d, x) PROVE NodeOf(e, x)
    BY <2>1, <2>2, NodeStays
  <2>3. NodeOf(e, node)
    BY <1>7, <1>10, <1>12, <1>13 DEF NodeOf
  <2>4. /\ NodeOf(e, d.semantic) /\ NodeOf(e, d.history) /\ NodeOf(e, logical)
        /\ \A id \in DOMAIN d.bindings : NodeOf(e, d.bindings[id])
    BY <2>2, Zenon DEF Names
  <2>5. e.semantic = d.semantic /\ e.history = d.history /\ e.bindings = d.bindings
    BY <1>3, <1>7, Zenon DEF SameNames
  <2> QED
    BY <1>7, <2>3, <2>4, <2>5, Zenon DEF Names
<1> QED
  BY <1>6, <1>7, <1>12, <1>14, <1>15, Zenon

\* The continuation's writes leave a draft.
LEMMA StageContinuationIsDraft ==
    ASSUME NEW d, IsDraft(d), NEW lane, NEW proof, NEW semantic, NEW history, NEW salt
    PROVE  LET e == StageContinuation(d, lane, proof, semantic, history, salt)
           IN  IsDraft(e) /\ (~ e.overflowed => ~ d.overflowed)
<1>1. PICK first : first = StageWrite(d, continuation_lane, lane, semantic, history,
                                      Xor(salt, Tag("lane shares")))
  OBVIOUS
<1>2. IsDraft(first) /\ (~ first.overflowed => ~ d.overflowed)
  BY <1>1, StageWriteIsDraft, Zenon
<1>3. StageContinuation(d, lane, proof, semantic, history, salt)
          = StageWrite(first, continuation_proof, proof, history, semantic,
                       Xor(salt, Tag("proof shares")))
  BY <1>1, Zenon DEF StageContinuation
<1>4. PICK e : e = StageWrite(first, continuation_proof, proof, history, semantic,
                              Xor(salt, Tag("proof shares")))
  OBVIOUS
<1>5. IsDraft(e) /\ (~ e.overflowed => ~ first.overflowed)
  BY <1>2, <1>4, StageWriteIsDraft
<1> QED
  BY <1>2, <1>3, <1>4, <1>5, Zenon

\* What a draft needs for its continuation to be staged.
Continues(d, carriers, lane, proof, semantic, history, salt) ==
    /\ IsDraft(d) /\ Good(d, carriers) /\ carriers \in 0 .. MaxCarriers /\ 6 <= carriers
    /\ NodeOf(d, lane) /\ NodeOf(d, proof) /\ NodeOf(d, semantic) /\ NodeOf(d, history)
    /\ salt \in Word /\ CarriersWritten(d.carrier_writes) \cap (0 .. 5) = {}
    /\ ~ StageContinuation(d, lane, proof, semantic, history, salt).overflowed

\* The continuation's writes leave a good draft with its six carriers written.
LEMMA StageContinuationIsGood ==
    ASSUME NEW d, NEW carriers, NEW lane, NEW proof, NEW semantic, NEW history, NEW salt,
           Continues(d, carriers, lane, proof, semantic, history, salt)
    PROVE  LET e == StageContinuation(d, lane, proof, semantic, history, salt)
           IN  /\ Good(e, carriers)
               /\ CarriersWritten(e.carrier_writes)
                      = CarriersWritten(d.carrier_writes) \cup (0 .. 5)
               /\ e.memory_writes = d.memory_writes
               /\ Len(d.nodes) \in Nat /\ Len(e.nodes) = Len(d.nodes) + 32
<1> /\ IsDraft(d) /\ Good(d, carriers) /\ carriers \in 0 .. MaxCarriers /\ 6 <= carriers
    /\ NodeOf(d, lane) /\ NodeOf(d, proof) /\ NodeOf(d, semantic) /\ NodeOf(d, history)
    /\ salt \in Word /\ CarriersWritten(d.carrier_writes) \cap (0 .. 5) = {}
    /\ ~ StageContinuation(d, lane, proof, semantic, history, salt).overflowed
  BY Zenon DEF Continues
<1>1. PICK lane_salt : lane_salt = Xor(salt, Tag("lane shares"))
  OBVIOUS
<1>2. PICK proof_salt : proof_salt = Xor(salt, Tag("proof shares"))
  OBVIOUS
<1>3. lane_salt \in Word /\ proof_salt \in Word
  BY <1>1, <1>2, SaltTagsAreWords, WordOperations, Zenon
<1>4. PICK first : first = StageWrite(d, continuation_lane, lane, semantic, history, lane_salt)
  OBVIOUS
<1>5. PICK e : e = StageWrite(first, continuation_proof, proof, history, semantic, proof_salt)
  OBVIOUS
<1>6. e = StageContinuation(d, lane, proof, semantic, history, salt)
  BY <1>1, <1>2, <1>4, <1>5, Zenon DEF StageContinuation
<1>7. IsDraft(first)
  BY <1>4, StageWriteIsDraft, Zenon
<1>8. ~ first.overflowed
  <2>1. ~ e.overflowed
    BY <1>6, Zenon
  <2> QED
    BY <1>5, <1>7, <2>1, StageWriteIsDraft
<1>9. Stored(continuation_lane, 0) /\ Stored(continuation_proof, 3)
  BY FixedStored DEF continuation_lane, continuation_proof, kContinuationLaneCarrier,
                     kContinuationProofCarrier
<1>10. /\ Good(first, carriers) /\ Len(d.nodes) \in Nat /\ Len(first.nodes) = Len(d.nodes) + 16
       /\ CarriersWritten(first.carrier_writes) = CarriersWritten(d.carrier_writes) \cup Span(0)
       /\ first.memory_writes = d.memory_writes
  <2>1. 0 \in Nat /\ 0 + 3 <= carriers
    OBVIOUS
  <2>2. CarriersWritten(d.carrier_writes) \cap Span(0) = {}
    BY DEF Span
  <2>3. ~ StageWrite(d, continuation_lane, lane, semantic, history, lane_salt).overflowed
    BY <1>4, <1>8, Zenon
  <2>4. Stageable(d, carriers, continuation_lane, 0, lane, semantic, history, lane_salt)
    BY <1>3, <1>9, <2>1, <2>2, Zenon DEF Stageable
  <2>5. Staged(d, first, carriers, 0)
    BY <1>4, <2>3, <2>4, StageWriteStages, Zenon
  <2> QED
    BY <2>5, Zenon DEF Staged
<1>11. /\ NodeOf(first, proof) /\ NodeOf(first, semantic) /\ NodeOf(first, history)
  BY <1>10, NodeStays
<1>12. /\ Good(e, carriers) /\ Len(e.nodes) = Len(first.nodes) + 16
       /\ CarriersWritten(e.carrier_writes)
              = CarriersWritten(first.carrier_writes) \cup Span(3)
       /\ e.memory_writes = first.memory_writes
  <2>1. 3 \in Nat /\ 3 + 3 <= carriers
    OBVIOUS
  <2>2. CarriersWritten(first.carrier_writes) \cap Span(3) = {}
    BY <1>10 DEF Span
  <2>3. ~ StageWrite(first, continuation_proof, proof, history, semantic, proof_salt).overflowed
    BY <1>5, <1>6, Zenon
  <2>4. Stageable(first, carriers, continuation_proof, 3, proof, history, semantic, proof_salt)
    BY <1>3, <1>7, <1>9, <1>10, <1>11, <2>1, <2>2, Zenon DEF Stageable
  <2>5. Staged(first, e, carriers, 3)
    BY <1>5, <2>3, <2>4, StageWriteStages, Zenon
  <2> QED
    BY <2>5, Zenon DEF Staged
<1>13. CarriersWritten(e.carrier_writes) = CarriersWritten(d.carrier_writes) \cup (0 .. 5)
  <2>1. Span(0) \cup Span(3) = 0 .. 5
    BY DEF Span
  <2> QED
    BY <1>10, <1>12, <2>1
<1>14. Len(e.nodes) = Len(d.nodes) + 32
  BY <1>10, <1>12
<1> QED
  BY <1>6, <1>10, <1>12, <1>13, <1>14, Zenon

\* An action the verifier lets through, and whose operands are nodes there are.
Fit(d, action) ==
    /\ action.kind \in DOMAIN OperandCount
    /\ \A i \in 1 .. OperandCount[action.kind] : NodeOf(d, d.bindings[action.operands[i]])
    /\ action.kind = "Argument" => action.immediate \in 0 .. (kMaximumArguments - 1)
    /\ action.kind = "Constant" => action.immediate \in Word
    /\ action.kind = "Binary" => action.operation \in IntegerBinaryOperator
    /\ action.kind = "Compare" => action.immediate \in 0 .. 5
    /\ action.kind = "Store" => action.immediate \in {1, WordBytes}
    /\ action_origin(action) \in 0 .. MaxOrigin

-----------------------------------------------------------------------------
(***************************************************************************)
(* Actions: the nodes each kind emits.                                     *)
(***************************************************************************)

\* The nodes, kind by kind.
LEMMA ActionNodesAre ==
    ASSUME NEW d, NEW action
    PROVE  /\ action.kind = "Argument" => ActionNodes(d, action) = ArgumentNodes(d, action)
           /\ action.kind = "Constant" => ActionNodes(d, action) = <<Lit(action.immediate)>>
           /\ action.kind = "Binary" =>
                  ActionNodes(d, action)
                      = <<Binary(NodeKind(action.operation), d.bindings[action.operands[1]],
                                 d.bindings[action.operands[2]])>>
           /\ action.kind = "Unary" =>
                  ActionNodes(d, action)
                      = <<Unary(IF action.operation = "Negate" THEN "Neg" ELSE "Not",
                                d.bindings[action.operands[1]])>>
           /\ action.kind = "Compare" =>
                  ActionNodes(d, action)
                      = <<Cmp(action.immediate, d.bindings[action.operands[1]],
                              d.bindings[action.operands[2]])>>
           /\ action.kind = "Load" =>
                  ActionNodes(d, action)
                      = <<Unary(IF action.immediate = 1 THEN "ReadMemory8" ELSE "ReadMemory64",
                                d.bindings[action.operands[1]])>>
           /\ action.kind = "Store" =>
                  ActionNodes(d, action)
                      = <<Mixed(d.bindings[action.operands[1]], d.bindings[action.operands[2]],
                                CompilerSalt(action_origin(action), "STORE"))>>
BY DEF ActionNodes

\* The kinds there are.
LEMMA ActionKinds ==
    /\ DOMAIN OperandCount
           = {"Argument", "Constant", "Binary", "Unary", "Compare", "Load", "Store"}
    /\ OperandCount["Argument"] = 0 /\ OperandCount["Constant"] = 0
    /\ OperandCount["Binary"] = 2 /\ OperandCount["Unary"] = 1 /\ OperandCount["Compare"] = 2
    /\ OperandCount["Load"] = 1 /\ OperandCount["Store"] = 2
BY DEF OperandCount

\* Each operator of the source has a node of its own.
LEMMA NodeKindIsBinary ==
    ASSUME NEW operation \in IntegerBinaryOperator
    PROVE  NodeKind(operation) \in BinaryKind
BY DEF NodeKind, IntegerBinaryOperator, BinaryKind

\* An action is one node, or the three of a Boolean argument.
LEMMA ActionNodesCount ==
    ASSUME NEW d, NEW action, action.kind \in DOMAIN OperandCount
    PROVE  /\ action.kind # "Argument" => Len(ActionNodes(d, action)) = 1
           /\ Len(ActionNodes(d, action)) \in {1, 3}
<1>1. \A x : Len(<<x>>) = 1
  OBVIOUS
<1>2. \A x, y, z : Len(<<x, y, z>>) = 3
  OBVIOUS
<1>3. CASE action.kind = "Argument"
  <2>1. Len(ArgumentNodes(d, action)) \in {1, 3}
    BY <1>1, <1>2 DEF ArgumentNodes
  <2> QED
    BY <1>3, <2>1, ActionNodesAre
<1>4. CASE action.kind # "Argument"
  <2>1. action.kind \in {"Constant", "Binary", "Unary", "Compare", "Load", "Store"}
    BY <1>4, ActionKinds
  <2>2. \E x : ActionNodes(d, action) = <<x>>
    BY <2>1, ActionNodesAre
  <2> QED
    BY <1>1, <1>4, <2>2
<1> QED
  BY <1>3, <1>4

\* An argument is read from its carrier of the ABI.
LEMMA ArgumentNodesAreGood ==
    ASSUME NEW d, NEW base \in Nat, IdAt(d, 0) = base,
           NEW carriers \in Nat, kFirstAllocatedCarrier <= carriers,
           NEW action, action.immediate \in 0 .. (kMaximumArguments - 1),
           Len(ArgumentNodes(d, action)) = 3 => IdAt(d, 1) = base + 1
    PROVE  GoodNodes(ArgumentNodes(d, action), base, carriers)
<1>1. PICK carrier : carrier = kArgumentCarrierBase + action.immediate
  OBVIOUS
<1>2. carrier \in 0 .. kFirstAllocatedCarrier /\ carrier < kFirstAllocatedCarrier
  BY <1>1 DEF kArgumentCarrierBase, kFirstAllocatedCarrier, kMaximumArguments
<1>3. carrier \in Word /\ carrier < carriers
  <2>1. carrier \in Word
    BY <1>2, SmallWords, Zenon
  <2>2. kFirstAllocatedCarrier \in Nat /\ carrier \in Nat
    BY <1>2 DEF kFirstAllocatedCarrier
  <2> QED
    BY <1>2, <2>1, <2>2
<1>4. base + 1 \in Nat /\ base + 2 \in Nat /\ base + 3 \in Nat
  OBVIOUS
<1>5. GoodNode(ReadC(carrier), base + 1, carriers)
  BY <1>3, <1>4, ReadIsGood
<1>6. CASE action.output.domain = "Boolean"
  <2>1. ArgumentNodes(d, action) = <<ReadC(carrier), Lit(0), Cmp(1, IdAt(d, 0), IdAt(d, 1))>>
    BY <1>1, <1>6, Zenon DEF ArgumentNodes, ArgumentRead
  <2>2. IdAt(d, 1) = base + 1
    <3>1. \A x, y, z : Len(<<x, y, z>>) = 3
      OBVIOUS
    <3> QED
      BY <2>1, <3>1
  <2>3. GoodNode(Lit(0), base + 2, carriers)
    BY <1>4, ZeroIsWord, LiteralIsGood
  <2>4. GoodNode(Cmp(1, base, base + 1), base + 3, carriers)
    <3>1. 1 \in 0 .. 5 /\ base < (base + 3) - 1 /\ base + 1 < (base + 3) - 1
      OBVIOUS
    <3> QED
      BY <1>4, <3>1, CompareIsGood
  <2>5. PICK nodes : nodes = <<ReadC(carrier), Lit(0), Cmp(1, base, base + 1)>>
    OBVIOUS
  <2>6. nodes = ArgumentNodes(d, action)
    BY <2>1, <2>2, <2>5, Zenon
  <2>7. /\ GoodNode(nodes[1], base + 1, carriers) /\ GoodNode(nodes[2], base + 2, carriers)
        /\ GoodNode(nodes[3], base + 3, carriers)
    BY <1>5, <2>3, <2>4, <2>5
  <2>8. IsSequence(nodes) /\ Len(nodes) = 3
    BY <2>5, ThreeOf, Zenon
  <2>9. \A n \in 1 .. 3 : GoodNode(nodes[n], base + n, carriers)
    BY <2>7
  <2> QED
    BY <2>6, <2>8, <2>9, Zenon DEF GoodNodes
<1>7. CASE action.output.domain # "Boolean"
  <2>1. ArgumentNodes(d, action) = <<ReadC(carrier)>>
    BY <1>1, <1>7, Zenon DEF ArgumentNodes, ArgumentRead
  <2> QED
    BY <1>5, <2>1, OneNode, Zenon
<1> QED
  BY <1>6, <1>7

\* Every action is emitted as nodes the plans' verifier accepts.
LEMMA ActionNodesAreGood ==
    ASSUME NEW d, NEW base \in Nat, base = Len(d.nodes), NEW carriers \in Nat,
           kFirstAllocatedCarrier <= carriers, NEW action, Fit(d, action),
           \A k \in 0 .. (Len(ActionNodes(d, action)) - 1) : IdAt(d, k) = base + k
    PROVE  GoodNodes(ActionNodes(d, action), base, carriers)
<1> DEFINE operand(i) == d.bindings[action.operands[i]]
<1>1. action.kind \in {"Argument", "Constant", "Binary", "Unary", "Compare", "Load", "Store"}
  BY ActionKinds, Zenon DEF Fit
<1>2. ASSUME NEW i \in 1 .. OperandCount[action.kind]
      PROVE  operand(i) \in Nat /\ operand(i) < (base + 1) - 1
  <2>1. operand(i) \in 0 .. (base - 1)
    BY Zenon DEF Fit, NodeOf
  <2> HIDE DEF operand
  <2> QED
    BY <2>1
<1>3. base + 1 \in Nat
  OBVIOUS
<1>4. CASE action.kind = "Argument"
  <2>1. ActionNodes(d, action) = ArgumentNodes(d, action)
    BY <1>4, ActionNodesAre
  <2>2. Len(ActionNodes(d, action)) \in {1, 3}
    BY <1>1, ActionKinds, ActionNodesCount
  <2>3. IdAt(d, 0) = base
    <3>1. PICK length : length = Len(ActionNodes(d, action))
      OBVIOUS
    <3>2. 0 \in 0 .. (length - 1) /\ base + 0 = base
      BY <2>2, <3>1
    <3> QED
      BY <3>1, <3>2, Zenon
  <2>4. Len(ArgumentNodes(d, action)) = 3 => IdAt(d, 1) = base + 1
    <3>1. 1 \in 0 .. (3 - 1)
      OBVIOUS
    <3> QED
      BY <2>1, <3>1, Zenon
  <2>5. action.immediate \in 0 .. (kMaximumArguments - 1)
    BY <1>4, Zenon DEF Fit
  <2> QED
    BY <2>1, <2>3, <2>4, <2>5, ArgumentNodesAreGood, Zenon
<1>5. CASE action.kind = "Constant"
  <2>1. ActionNodes(d, action) = <<Lit(action.immediate)>>
    BY <1>5, ActionNodesAre
  <2>2. GoodNode(Lit(action.immediate), base + 1, carriers)
    BY <1>3, <1>5, LiteralIsGood, Zenon DEF Fit
  <2> QED
    BY <2>1, <2>2, OneNode, Zenon
<1>6. CASE action.kind = "Binary"
  <2>1. ActionNodes(d, action)
            = <<Binary(NodeKind(action.operation), operand(1), operand(2))>>
    BY <1>6, ActionNodesAre
  <2>2. NodeKind(action.operation) \in BinaryKind
    BY <1>6, NodeKindIsBinary, Zenon DEF Fit
  <2>3. /\ operand(1) \in Nat /\ operand(1) < (base + 1) - 1
        /\ operand(2) \in Nat /\ operand(2) < (base + 1) - 1
    <3>1. 1 \in 1 .. OperandCount[action.kind] /\ 2 \in 1 .. OperandCount[action.kind]
      BY <1>6, ActionKinds
    <3> QED
      BY <1>2, <3>1, Zenon
  <2>4. GoodNode(Binary(NodeKind(action.operation), operand(1), operand(2)), base + 1, carriers)
    BY <1>3, <2>2, <2>3, BinaryIsGood, Zenon
  <2> QED
    BY <2>1, <2>4, OneNode, Zenon
<1>7. CASE action.kind = "Unary"
  <2>1. PICK kind : kind = IF action.operation = "Negate" THEN "Neg" ELSE "Not"
    OBVIOUS
  <2>2. ActionNodes(d, action) = <<Unary(kind, operand(1))>>
    BY <1>7, <2>1, ActionNodesAre
  <2>3. kind \in UnaryKind \cup Loads
    BY <2>1 DEF UnaryKind
  <2>4. operand(1) \in Nat /\ operand(1) < (base + 1) - 1
    <3>1. 1 \in 1 .. OperandCount[action.kind]
      BY <1>7, ActionKinds
    <3> QED
      BY <1>2, <3>1, Zenon
  <2>5. GoodNode(Unary(kind, operand(1)), base + 1, carriers)
    BY <1>3, <2>3, <2>4, UnaryIsGood, Zenon
  <2> QED
    BY <2>2, <2>5, OneNode, Zenon
<1>8. CASE action.kind = "Compare"
  <2>1. ActionNodes(d, action) = <<Cmp(action.immediate, operand(1), operand(2))>>
    BY <1>8, ActionNodesAre
  <2>2. action.immediate \in 0 .. 5
    BY <1>8, Zenon DEF Fit
  <2>3. /\ operand(1) \in Nat /\ operand(1) < (base + 1) - 1
        /\ operand(2) \in Nat /\ operand(2) < (base + 1) - 1
    <3>1. 1 \in 1 .. OperandCount[action.kind] /\ 2 \in 1 .. OperandCount[action.kind]
      BY <1>8, ActionKinds
    <3> QED
      BY <1>2, <3>1, Zenon
  <2>4. GoodNode(Cmp(action.immediate, operand(1), operand(2)), base + 1, carriers)
    BY <1>3, <2>2, <2>3, CompareIsGood, Zenon
  <2> QED
    BY <2>1, <2>4, OneNode, Zenon
<1>9. CASE action.kind = "Load"
  <2>1. PICK kind : kind = IF action.immediate = 1 THEN "ReadMemory8" ELSE "ReadMemory64"
    OBVIOUS
  <2>2. ActionNodes(d, action) = <<Unary(kind, operand(1))>>
    BY <1>9, <2>1, ActionNodesAre
  <2>3. kind \in UnaryKind \cup Loads
    BY <2>1 DEF Loads
  <2>4. operand(1) \in Nat /\ operand(1) < (base + 1) - 1
    <3>1. 1 \in 1 .. OperandCount[action.kind]
      BY <1>9, ActionKinds
    <3> QED
      BY <1>2, <3>1, Zenon
  <2>5. GoodNode(Unary(kind, operand(1)), base + 1, carriers)
    BY <1>3, <2>3, <2>4, UnaryIsGood, Zenon
  <2> QED
    BY <2>2, <2>5, OneNode, Zenon
<1>10. CASE action.kind = "Store"
  <2>1. PICK salt : salt = CompilerSalt(action_origin(action), "STORE")
    OBVIOUS
  <2>2. ActionNodes(d, action) = <<Mixed(operand(1), operand(2), salt)>>
    BY <1>10, <2>1, ActionNodesAre
  <2>3. salt \in Word
    <3>1. "STORE" \in SaltNames
      BY DEF SaltNames
    <3>2. action_origin(action) \in 0 .. MaxOrigin
      BY Zenon DEF Fit
    <3> QED
      BY <2>1, <3>1, <3>2, CompilerSaltIsWord, Zenon
  <2>4. /\ operand(1) \in Nat /\ operand(1) < (base + 1) - 1
        /\ operand(2) \in Nat /\ operand(2) < (base + 1) - 1
    <3>1. 1 \in 1 .. OperandCount[action.kind] /\ 2 \in 1 .. OperandCount[action.kind]
      BY <1>10, ActionKinds
    <3> QED
      BY <1>2, <3>1, Zenon
  <2>5. GoodNode(Mixed(operand(1), operand(2), salt), base + 1, carriers)
    BY <1>3, <2>3, <2>4, MixedIsGood, Zenon
  <2> QED
    BY <2>2, <2>5, OneNode, Zenon
<1> QED
  BY <1>1, <1>4, <1>5, <1>6, <1>7, <1>8, <1>9, <1>10

WithBindings(d, bindings) == [d EXCEPT !.bindings = bindings]

-----------------------------------------------------------------------------
(***************************************************************************)
(* Actions: the result is bound, staged or stored.                         *)
(***************************************************************************)

\* Only the bindings change.
LEMMA BindingsChanged ==
    ASSUME NEW d, DOMAIN d = DraftFields, NEW bindings
    PROVE  /\ DOMAIN WithBindings(d, bindings) = DraftFields
           /\ WithBindings(d, bindings).nodes = d.nodes
           /\ WithBindings(d, bindings).carrier_writes = d.carrier_writes
           /\ WithBindings(d, bindings).memory_writes = d.memory_writes
           /\ WithBindings(d, bindings).overflowed = d.overflowed
           /\ WithBindings(d, bindings).semantic = d.semantic
           /\ WithBindings(d, bindings).history = d.history
           /\ WithBindings(d, bindings).last = d.last
           /\ WithBindings(d, bindings).fold = d.fold
           /\ WithBindings(d, bindings).items = d.items
           /\ WithBindings(d, bindings).bindings = bindings
BY DEF WithBindings, DraftFields

\* A value bound to a node there is leaves a good draft.
LEMMA BindIsGood ==
    ASSUME NEW d, IsDraft(d), DOMAIN d = DraftFields, NEW carriers, Good(d, carriers), Names(d),
           NEW id, NEW node, NodeOf(d, node)
    PROVE  LET e == WithBindings(d, Emplaced(d.bindings, id, node))
           IN  /\ IsDraft(e) /\ DOMAIN e = DraftFields /\ Good(e, carriers) /\ Names(e)
               /\ e.nodes = d.nodes /\ e.overflowed = d.overflowed
               /\ e.carrier_writes = d.carrier_writes /\ e.memory_writes = d.memory_writes
               /\ e.semantic = d.semantic /\ e.history = d.history
<1>1. PICK bindings : bindings = Emplaced(d.bindings, id, node)
  OBVIOUS
<1>2. PICK e : e = WithBindings(d, bindings)
  OBVIOUS
<1>3. /\ DOMAIN e = DraftFields
      /\ e.nodes = d.nodes /\ e.carrier_writes = d.carrier_writes
      /\ e.memory_writes = d.memory_writes /\ e.overflowed = d.overflowed
      /\ e.semantic = d.semantic /\ e.history = d.history /\ e.last = d.last
      /\ e.fold = d.fold /\ e.bindings = bindings
  BY <1>2, BindingsChanged
<1>4. IsDraft(e) /\ Good(e, carriers)
  BY <1>3, Zenon DEF IsDraft, Good
<1>5. \A k \in DOMAIN bindings : NodeOf(d, bindings[k])
  BY <1>1, Zenon DEF Emplaced, Names
<1>6. Names(e)
  BY <1>3, <1>5, Zenon DEF Names, NodeOf
<1> QED
  BY <1>1, <1>2, <1>3, <1>4, <1>6, Zenon

WithStores(d, stores) == [d EXCEPT !.memory_writes = stores]

\* Only the stores change.
LEMMA StoresChanged ==
    ASSUME NEW d, DOMAIN d = DraftFields, NEW stores
    PROVE  /\ DOMAIN WithStores(d, stores) = DraftFields
           /\ WithStores(d, stores).nodes = d.nodes
           /\ WithStores(d, stores).carrier_writes = d.carrier_writes
           /\ WithStores(d, stores).memory_writes = stores
           /\ WithStores(d, stores).overflowed = d.overflowed
           /\ WithStores(d, stores).semantic = d.semantic
           /\ WithStores(d, stores).history = d.history
           /\ WithStores(d, stores).last = d.last
           /\ WithStores(d, stores).fold = d.fold
           /\ WithStores(d, stores).items = d.items
           /\ WithStores(d, stores).bindings = d.bindings
BY DEF WithStores, DraftFields

\* One store more, of nodes there are, when there is a node more.
LEMMA StoreAppended ==
    ASSUME NEW stores, NEW count \in Nat, NEW more \in Nat, count < more,
           GoodStores(stores, count), NEW width \in {1, WordBytes},
           NEW address \in 0 .. (more - 1), NEW word \in 0 .. (more - 1)
    PROVE  GoodStores(Append(stores, WriteM(width, address, word)), more)
<1>1. PICK store : store = WriteM(width, address, word)
  OBVIOUS
<1>2. /\ store \in [width : Nat, address : Nat, value : Nat]
      /\ store.width \in {1, WordBytes} /\ store.address < more /\ store.value < more
  <2>1. width \in Nat /\ address \in Nat /\ word \in Nat /\ address < more /\ word < more
    BY WordBytesAssumption
  <2> QED
    BY <1>1, <2>1 DEF WriteM
<1>3. IsSequence(stores) /\ Len(stores) <= count
  BY Zenon DEF GoodStores
<1>4. PICK all : all = Append(stores, store)
  OBVIOUS
<1>5. PICK length : length = Len(stores)
  OBVIOUS
<1>6. /\ IsSequence(all) /\ length \in Nat /\ Len(all) = length + 1
      /\ \A n \in 1 .. length : all[n] = stores[n]
      /\ all[length + 1] = store
  BY <1>3, <1>4, <1>5, AppendIsSequence, AppendedAt, ZenonT(40)
<1>7. Len(all) <= more
  BY <1>3, <1>5, <1>6
<1>8. ASSUME NEW n \in 1 .. length
      PROVE  /\ all[n] \in [width : Nat, address : Nat, value : Nat]
             /\ all[n].width \in {1, WordBytes}
             /\ all[n].address < more /\ all[n].value < more
  <2>1. /\ stores[n] \in [width : Nat, address : Nat, value : Nat]
        /\ stores[n].width \in {1, WordBytes}
        /\ stores[n].address < count /\ stores[n].value < count
    BY <1>5, <1>8, Zenon DEF GoodStores
  <2>2. stores[n].address < more /\ stores[n].value < more
    <3>1. PICK a \in Nat : a = stores[n].address
      BY <2>1
    <3>2. PICK v \in Nat : v = stores[n].value
      BY <2>1
    <3> QED
      BY <2>1, <3>1, <3>2
  <2>3. all[n] = stores[n]
    BY <1>6, <1>8, Zenon
  <2> QED
    BY <2>1, <2>2, <2>3, Zenon
<1>9. ASSUME NEW n \in 1 .. Len(all) PROVE n \in 1 .. length \/ n = length + 1
  BY <1>6
<1> QED
  BY <1>1, <1>2, <1>4, <1>6, <1>7, <1>8, <1>9, Zenon DEF GoodStores

\* A store after its node leaves a good draft.
LEMMA StoreIsGood ==
    ASSUME NEW d, NEW e, IsDraft(e), DOMAIN e = DraftFields, NEW carriers,
           Good(d, carriers), Good(e, carriers), Names(e),
           Len(d.nodes) < Len(e.nodes), e.memory_writes = d.memory_writes,
           NEW width \in {1, WordBytes}, NEW address, NodeOf(e, address),
           NEW word, NodeOf(e, word)
    PROVE  LET f == WithStores(e, Append(e.memory_writes, WriteM(width, address, word)))
           IN  /\ IsDraft(f) /\ DOMAIN f = DraftFields /\ Good(f, carriers) /\ Names(f)
               /\ f.nodes = e.nodes /\ f.overflowed = e.overflowed
               /\ f.carrier_writes = e.carrier_writes
<1>1. PICK stores : stores = Append(e.memory_writes, WriteM(width, address, word))
  OBVIOUS
<1>2. PICK f : f = WithStores(e, stores)
  OBVIOUS
<1>3. /\ DOMAIN f = DraftFields
      /\ f.nodes = e.nodes /\ f.carrier_writes = e.carrier_writes
      /\ f.memory_writes = stores /\ f.overflowed = e.overflowed
      /\ f.semantic = e.semantic /\ f.history = e.history /\ f.last = e.last
      /\ f.fold = e.fold /\ f.bindings = e.bindings
  BY <1>2, StoresChanged
<1>4. IsDraft(f)
  BY <1>3, Zenon DEF IsDraft
<1>5. Names(f)
  BY <1>3, Zenon DEF Names, NodeOf
<1>6. GoodStores(stores, Len(e.nodes))
  <2>1. Len(d.nodes) \in Nat /\ Len(e.nodes) \in Nat
    BY AppendIsSequence DEF Good, GoodNodes
  <2>2. GoodStores(e.memory_writes, Len(d.nodes))
    BY Zenon DEF Good
  <2>3. address \in 0 .. (Len(e.nodes) - 1) /\ word \in 0 .. (Len(e.nodes) - 1)
    BY Zenon DEF NodeOf
  <2>4. PICK count \in Nat : count = Len(d.nodes)
    BY <2>1
  <2>5. PICK more \in Nat : more = Len(e.nodes)
    BY <2>1
  <2>6. GoodStores(e.memory_writes, count) /\ count < more
    BY <2>2, <2>4, <2>5, Zenon
  <2>7. address \in 0 .. (more - 1) /\ word \in 0 .. (more - 1)
    BY <2>3, <2>5, Zenon
  <2>8. GoodStores(Append(e.memory_writes, WriteM(width, address, word)), more)
    BY <2>6, <2>7, StoreAppended, Zenon
  <2> QED
    BY <1>1, <2>5, <2>8, Zenon
<1>7. Good(f, carriers)
  BY <1>3, <1>6, Zenon DEF Good
<1> QED
  BY <1>1, <1>2, <1>3, <1>4, <1>5, <1>7, Zenon

\* A draft of an island, good unless it will be refused.
Sound(d, carriers) ==
    /\ IsDraft(d) /\ DOMAIN d = DraftFields
    /\ ~ d.overflowed => Good(d, carriers) /\ Names(d)

\* What an island does with one item: it has the nodes, and maybe writes.
SoundStep(d, e, carriers, written) ==
    /\ Sound(e, carriers)
    /\ ~ e.overflowed =>
           /\ ~ d.overflowed
           /\ CarriersWritten(e.carrier_writes) = CarriersWritten(d.carrier_writes) \cup written

\* The value of an action, bound and written.
LoweredValue(d, action, logical) ==
    StageWrite(WithBindings(d, Emplaced(d.bindings, action.output.id, logical)),
               values[action.output.id], logical, d.semantic, d.history,
               CompilerSalt(action.output.origin, "VALUE"))

LoweredStore(d, action) ==
    WithStores(d, Append(d.memory_writes, WriteM(action.immediate, d.bindings[action.operands[1]],
                                                 d.bindings[action.operands[2]])))

\* The steps of an action.
LEMMA LoweredIs ==
    ASSUME NEW d, IsDraft(d), DOMAIN d = DraftFields, NEW action, NEW nodes,
           nodes = ActionNodes(d, action), NEW logical, logical = IdAt(d, Len(nodes) - 1),
           NEW emitted, emitted = Emit(d, nodes), NEW salt,
           salt = CompilerSalt(action_origin(action), "ACTIONFOLD")
    PROVE  /\ Produces(action) =>
                  Lowered(d, action) = Folded(LoweredValue(emitted, action, logical), logical, salt)
           /\ ~ Produces(action) =>
                  Lowered(d, action) = Folded(LoweredStore(emitted, action), logical, salt)
<1>1. SameNames(d, emitted)
  BY EmitSameNames, Zenon
<1>2. /\ emitted.semantic = d.semantic /\ emitted.history = d.history
      /\ emitted.bindings = d.bindings
  BY <1>1, Zenon DEF SameNames
<1>3. ASSUME Produces(action)
      PROVE  Lowered(d, action) = Folded(LoweredValue(emitted, action, logical), logical, salt)
  BY <1>2, <1>3, Zenon DEF Lowered, LoweredValue, WithBindings
<1>4. ASSUME ~ Produces(action)
      PROVE  Lowered(d, action) = Folded(LoweredStore(emitted, action), logical, salt)
  BY <1>2, <1>4, Zenon DEF Lowered, LoweredStore, WithStores
<1> QED
  BY <1>3, <1>4

\* A value bound and written leaves a draft.
LEMMA LoweredValueIsDraft ==
    ASSUME NEW d, IsDraft(d), DOMAIN d = DraftFields, NEW action, NEW logical
    PROVE  LET e == LoweredValue(d, action, logical)
           IN  /\ IsDraft(e) /\ DOMAIN e = DraftFields
               /\ ~ e.overflowed => ~ d.overflowed
<1>1. PICK bound : bound = WithBindings(d, Emplaced(d.bindings, action.output.id, logical))
  OBVIOUS
<1>2. /\ DOMAIN bound = DraftFields /\ bound.overflowed = d.overflowed
  BY <1>1, BindingsChanged
<1>3. IsDraft(bound)
  BY <1>2, Zenon DEF IsDraft
<1>4. PICK e : e = LoweredValue(d, action, logical)
  OBVIOUS
<1>5. e = StageWrite(bound, values[action.output.id], logical, d.semantic, d.history,
                     CompilerSalt(action.output.origin, "VALUE"))
  BY <1>1, <1>4, Zenon DEF LoweredValue
<1>6. IsDraft(e) /\ DOMAIN e = DOMAIN bound /\ (~ e.overflowed => ~ bound.overflowed)
  BY <1>3, <1>5, StageWriteIsDraft
<1> QED
  BY <1>2, <1>4, <1>6, Zenon

\* A value bound and written leaves a good draft.
LEMMA LoweredValueIsGood ==
    ASSUME NEW d, IsDraft(d), DOMAIN d = DraftFields, NEW carriers \in 0 .. MaxCarriers,
           Good(d, carriers), Names(d), NEW action, action.output.origin \in 0 .. MaxOrigin,
           NEW logical, NodeOf(d, logical), NEW at \in Nat, at + 3 <= carriers,
           Stored(values[action.output.id], at),
           CarriersWritten(d.carrier_writes) \cap Span(at) = {},
           ~ LoweredValue(d, action, logical).overflowed
    PROVE  LET e == LoweredValue(d, action, logical)
           IN  /\ Good(e, carriers) /\ Names(e) /\ NodeOf(e, logical)
               /\ CarriersWritten(e.carrier_writes)
                      = CarriersWritten(d.carrier_writes) \cup Span(at)
<1>1. PICK bound : bound = WithBindings(d, Emplaced(d.bindings, action.output.id, logical))
  OBVIOUS
<1>2. /\ IsDraft(bound) /\ DOMAIN bound = DraftFields /\ Good(bound, carriers) /\ Names(bound)
      /\ bound.nodes = d.nodes /\ bound.carrier_writes = d.carrier_writes
      /\ bound.semantic = d.semantic /\ bound.history = d.history
  BY <1>1, BindIsGood
<1>3. PICK salt : salt = CompilerSalt(action.output.origin, "VALUE")
  OBVIOUS
<1>4. salt \in Word
  <2>1. "VALUE" \in SaltNames
    BY DEF SaltNames
  <2> QED
    BY <1>3, <2>1, CompilerSaltIsWord, Zenon
<1>5. PICK e : e = StageWrite(bound, values[action.output.id], logical, bound.semantic,
                              bound.history, salt)
  OBVIOUS
<1>6. e = LoweredValue(d, action, logical)
  BY <1>1, <1>2, <1>3, <1>5, Zenon DEF LoweredValue
<1>7. NodeOf(bound, logical)
  BY <1>2, Zenon DEF NodeOf
<1>8. Stageable(bound, carriers, values[action.output.id], at, logical, bound.semantic,
                bound.history, salt)
  BY <1>2, <1>4, <1>7, Zenon DEF Stageable, Names
<1>9. Staged(bound, e, carriers, at)
  BY <1>5, <1>6, <1>8, StageWriteStages, Zenon
<1>10. /\ Good(e, carriers) /\ Len(bound.nodes) \in Nat /\ Len(e.nodes) = Len(bound.nodes) + 16
       /\ CarriersWritten(e.carrier_writes) = CarriersWritten(d.carrier_writes) \cup Span(at)
  BY <1>2, <1>9, Zenon DEF Staged
<1>11. Len(e.nodes) \in Nat /\ Len(bound.nodes) <= Len(e.nodes)
  BY <1>10
<1>12. Names(e)
  <2>1. SameNames(bound, e)
    BY <1>2, <1>5, StageWriteSameNames
  <2> QED
    BY <1>2, <1>10, <1>11, <2>1, NamesStay, Zenon
<1>13. NodeOf(e, logical)
  BY <1>7, <1>10, <1>11, NodeStays, Zenon
<1> QED
  BY <1>6, <1>10, <1>12, <1>13, Zenon

\* Lowering an action leaves a draft.
LEMMA LoweredIsDraft ==
    ASSUME NEW d, IsDraft(d), DOMAIN d = DraftFields, NEW action
    PROVE  /\ IsDraft(Lowered(d, action))
           /\ ~ Lowered(d, action).overflowed => ~ d.overflowed
<1>1. PICK nodes : nodes = ActionNodes(d, action)
  OBVIOUS
<1>2. PICK logical : logical = IdAt(d, Len(nodes) - 1)
  OBVIOUS
<1>3. PICK emitted : emitted = Emit(d, nodes)
  OBVIOUS
<1>4. PICK salt : salt = CompilerSalt(action_origin(action), "ACTIONFOLD")
  OBVIOUS
<1>5. IsDraft(emitted) /\ DOMAIN emitted = DraftFields
  BY <1>3, EmitIsDraft, Zenon
<1>6. ~ emitted.overflowed => ~ d.overflowed
  BY <1>3, EmitFits, Zenon
<1>7. PICK staged : staged = IF Produces(action) THEN LoweredValue(emitted, action, logical)
                             ELSE LoweredStore(emitted, action)
  OBVIOUS
<1>8. Lowered(d, action) = Folded(staged, logical, salt)
  <2>1. /\ Produces(action) =>
                Lowered(d, action) = Folded(LoweredValue(emitted, action, logical), logical, salt)
        /\ ~ Produces(action) =>
                Lowered(d, action) = Folded(LoweredStore(emitted, action), logical, salt)
    BY <1>1, <1>2, <1>3, <1>4, LoweredIs
  <2> QED
    BY <1>7, <2>1, Zenon
<1>9. IsDraft(staged) /\ DOMAIN staged = DraftFields /\ (~ staged.overflowed => ~ emitted.overflowed)
  <2>1. CASE Produces(action)
    BY <1>5, <1>7, <2>1, LoweredValueIsDraft, Zenon
  <2>2. CASE ~ Produces(action)
    <3>1. PICK stores : staged = WithStores(emitted, stores)
      BY <1>7, <2>2, Zenon DEF LoweredStore
    <3>2. DOMAIN WithStores(emitted, stores) = DraftFields
          /\ WithStores(emitted, stores).overflowed = emitted.overflowed
      BY <1>5, StoresChanged
    <3> QED
      BY <1>5, <3>1, <3>2, Zenon DEF IsDraft
  <2> QED
    BY <2>1, <2>2
<1>10. IsDraft(Folded(staged, logical, salt))
       /\ (~ Folded(staged, logical, salt).overflowed => ~ staged.overflowed)
  BY <1>9, FoldedIsDraft, Zenon
<1> QED
  BY <1>6, <1>8, <1>9, <1>10, Zenon

\* The nodes of an action are emitted, and its value is in the last of them.
LEMMA ActionEmitted ==
    ASSUME NEW d, IsDraft(d), DOMAIN d = DraftFields, NEW carriers \in 0 .. MaxCarriers,
           kFirstAllocatedCarrier <= carriers, Good(d, carriers), Names(d),
           NEW action, Fit(d, action), ~ Emit(d, ActionNodes(d, action)).overflowed
    PROVE  LET emitted == Emit(d, ActionNodes(d, action))
           IN  /\ IsDraft(emitted) /\ DOMAIN emitted = DraftFields
               /\ Good(emitted, carriers) /\ Names(emitted)
               /\ SameNames(d, emitted) /\ emitted.carrier_writes = d.carrier_writes
               /\ emitted.memory_writes = d.memory_writes
               /\ NodeOf(emitted, IdAt(d, Len(ActionNodes(d, action)) - 1))
               /\ Len(d.nodes) \in Nat /\ Len(emitted.nodes) \in Nat
               /\ Len(d.nodes) < Len(emitted.nodes)
<1>1. PICK nodes : nodes = ActionNodes(d, action)
  OBVIOUS
<1>2. PICK emitted : emitted = Emit(d, nodes)
  OBVIOUS
<1>3. ~ Emit(d, nodes).overflowed
  BY <1>1, Zenon
<1>4. IsDraft(emitted) /\ DOMAIN emitted = DraftFields /\ SameNames(d, emitted)
  BY <1>2, EmitIsDraft, EmitSameNames, Zenon
<1>5. PICK base : base = Len(d.nodes)
  OBVIOUS
<1>6. base \in Nat
  BY <1>5, AppendIsSequence DEF Good, GoodNodes
<1>7. PICK length : length = Len(nodes)
  OBVIOUS
<1>8. length \in {1, 3}
  <2>1. action.kind \in DOMAIN OperandCount
    BY Zenon DEF Fit
  <2> QED
    BY <1>1, <1>7, <2>1, ActionNodesCount, Zenon
<1>9. \A k \in 0 .. (length - 1) : IdAt(d, k) = base + k
  <2>1. Len(nodes) <= MaxNodeId - Len(d.nodes)
    BY <1>3, EmitFits, Zenon
  <2>2. length \in Nat /\ length <= MaxNodeId - Len(d.nodes) /\ Len(d.nodes) \in Nat
    BY <1>5, <1>6, <1>7, <1>8, <2>1
  <2>3. \A k \in 0 .. (length - 1) : IdAt(d, k) = Len(d.nodes) + k
    BY <2>2, IdAtIs
  <2> QED
    BY <1>5, <2>3, Zenon
<1>10. carriers \in Nat
  BY LimitsAssumption
<1>11. GoodNodes(nodes, base, carriers)
  BY <1>1, <1>5, <1>6, <1>7, <1>9, <1>10, ActionNodesAreGood, Zenon
<1>12. GoodNodes(nodes, Len(d.nodes), carriers)
  BY <1>5, <1>11, Zenon
<1>13. /\ Good(emitted, carriers) /\ Len(emitted.nodes) = Len(d.nodes) + Len(nodes)
       /\ emitted.carrier_writes = d.carrier_writes
       /\ emitted.memory_writes = d.memory_writes
  BY <1>2, <1>3, <1>12, EmitIsGood, Zenon
<1>14. Len(emitted.nodes) = base + length
  BY <1>5, <1>7, <1>13, Zenon
<1>15. Len(emitted.nodes) \in Nat /\ base < Len(emitted.nodes) /\ base <= Len(emitted.nodes)
  BY <1>6, <1>8, <1>14
<1>16. Names(emitted)
  BY <1>4, <1>5, <1>6, <1>15, NamesStay, Zenon
<1>17. NodeOf(emitted, IdAt(d, length - 1))
  <2>1. length - 1 \in 0 .. (length - 1)
    BY <1>8
  <2>2. IdAt(d, length - 1) = base + (length - 1)
    BY <1>9, <2>1
  <2> QED
    BY <1>6, <1>8, <1>14, <2>2 DEF NodeOf
<1> QED
  BY <1>1, <1>2, <1>4, <1>5, <1>6, <1>7, <1>13, <1>15, <1>16, <1>17, Zenon

\* Lowering an action leaves a draft, good unless it has overflowed.
LEMMA LoweredIsSound ==
    ASSUME NEW d, NEW carriers \in 0 .. MaxCarriers, kFirstAllocatedCarrier <= carriers,
           Sound(d, carriers), NEW action, ~ d.overflowed => Fit(d, action),
           action_origin(action) \in 0 .. MaxOrigin, NEW at \in Nat,
           Produces(action) =>
               /\ at + 3 <= carriers /\ Stored(values[action.output.id], at)
               /\ CarriersWritten(d.carrier_writes) \cap Span(at) = {},
           ~ Produces(action) => action.kind = "Store"
    PROVE  SoundStep(d, Lowered(d, action), carriers,
                     IF Produces(action) THEN Span(at) ELSE {})
<1>1. IsDraft(d) /\ DOMAIN d = DraftFields
  BY Zenon DEF Sound
<1>2. PICK e : e = Lowered(d, action)
  OBVIOUS
<1>3. IsDraft(e) /\ (~ e.overflowed => ~ d.overflowed) /\ DOMAIN e = DraftFields
  BY <1>1, <1>2, LoweredIsDraft, LoweredBinds
<1>4. PICK written : written = IF Produces(action) THEN Span(at) ELSE {}
  OBVIOUS
<1>5. ASSUME ~ e.overflowed
      PROVE  /\ Good(e, carriers) /\ Names(e)
             /\ CarriersWritten(e.carrier_writes) = CarriersWritten(d.carrier_writes) \cup written
  <2>1. Good(d, carriers) /\ Names(d) /\ Fit(d, action)
    BY <1>3, <1>5, Zenon DEF Sound
  <2>2. PICK nodes : nodes = ActionNodes(d, action)
    OBVIOUS
  <2>3. PICK logical : logical = IdAt(d, Len(nodes) - 1)
    OBVIOUS
  <2>4. PICK emitted : emitted = Emit(d, nodes)
    OBVIOUS
  <2>5. PICK salt : salt = CompilerSalt(action_origin(action), "ACTIONFOLD")
    OBVIOUS
  <2>6. salt \in Word
    <3>1. "ACTIONFOLD" \in SaltNames
      BY DEF SaltNames
    <3> QED
      BY <2>5, <3>1, CompilerSaltIsWord, Zenon
  <2>7. IsDraft(emitted) /\ DOMAIN emitted = DraftFields
    BY <1>1, <2>4, EmitIsDraft, Zenon
  <2>8. CASE Produces(action)
    <3>1. PICK staged : staged = LoweredValue(emitted, action, logical)
      OBVIOUS
    <3>2. e = Folded(staged, logical, salt)
      <4>1. Lowered(d, action) = Folded(LoweredValue(emitted, action, logical), logical, salt)
        BY <1>1, <2>2, <2>3, <2>4, <2>5, <2>8, LoweredIs
      <4> QED
        BY <1>2, <3>1, <4>1, Zenon
    <3>3. IsDraft(staged) /\ DOMAIN staged = DraftFields
          /\ (~ staged.overflowed => ~ emitted.overflowed)
      BY <2>7, <3>1, LoweredValueIsDraft, Zenon
    <3>4. ~ Folded(staged, logical, salt).overflowed
      BY <1>5, <3>2, Zenon
    <3>5. ~ staged.overflowed /\ ~ emitted.overflowed
      BY <3>3, <3>4, FoldedIsDraft, Zenon
    <3>6. /\ Good(emitted, carriers) /\ Names(emitted)
          /\ emitted.carrier_writes = d.carrier_writes /\ NodeOf(emitted, logical)
      <4>1. ~ Emit(d, ActionNodes(d, action)).overflowed
        BY <2>2, <2>4, <3>5, Zenon
      <4>2. LET f == Emit(d, ActionNodes(d, action))
            IN  /\ Good(f, carriers) /\ Names(f) /\ f.carrier_writes = d.carrier_writes
                /\ NodeOf(f, IdAt(d, Len(ActionNodes(d, action)) - 1))
        BY <1>1, <2>1, <4>1, ActionEmitted
      <4> QED
        BY <2>2, <2>3, <2>4, <4>2, Zenon
    <3>7. ~ LoweredValue(emitted, action, logical).overflowed
      BY <3>1, <3>5, Zenon
    <3>8. action.output.origin \in 0 .. MaxOrigin
      BY Zenon DEF action_origin
    <3>9. CarriersWritten(emitted.carrier_writes) \cap Span(at) = {}
      BY <2>8, <3>6, Zenon
    <3>10. /\ Good(staged, carriers) /\ Names(staged) /\ NodeOf(staged, logical)
           /\ CarriersWritten(staged.carrier_writes)
                  = CarriersWritten(emitted.carrier_writes) \cup Span(at)
      <4>1. LET f == LoweredValue(emitted, action, logical)
            IN  /\ Good(f, carriers) /\ Names(f) /\ NodeOf(f, logical)
                /\ CarriersWritten(f.carrier_writes)
                       = CarriersWritten(emitted.carrier_writes) \cup Span(at)
        BY <2>7, <2>8, <3>6, <3>7, <3>8, <3>9, LoweredValueIsGood
      <4> QED
        BY <3>1, <4>1, Zenon
    <3>11. /\ Good(e, carriers) /\ Names(e) /\ e.carrier_writes = staged.carrier_writes
      BY <2>6, <3>2, <3>3, <3>4, <3>10, FoldedIsGood
    <3> QED
      BY <1>4, <2>8, <3>6, <3>10, <3>11, Zenon
  <2>9. CASE ~ Produces(action)
    <3>1. PICK staged : staged = LoweredStore(emitted, action)
      OBVIOUS
    <3>2. e = Folded(staged, logical, salt)
      <4>1. Lowered(d, action) = Folded(LoweredStore(emitted, action), logical, salt)
        BY <1>1, <2>2, <2>3, <2>4, <2>5, <2>9, LoweredIs
      <4> QED
        BY <1>2, <3>1, <4>1, Zenon
    <3>3. /\ DOMAIN staged = DraftFields /\ staged.overflowed = emitted.overflowed
          /\ IsDraft(staged)
      <4>1. PICK stores : staged = WithStores(emitted, stores)
        BY <3>1, Zenon DEF LoweredStore
      <4>2. DOMAIN WithStores(emitted, stores) = DraftFields
            /\ WithStores(emitted, stores).overflowed = emitted.overflowed
        BY <2>7, StoresChanged
      <4> QED
        BY <2>7, <4>1, <4>2, Zenon DEF IsDraft
    <3>4. ~ Folded(staged, logical, salt).overflowed
      BY <1>5, <3>2, Zenon
    <3>5. ~ staged.overflowed /\ ~ emitted.overflowed
      BY <3>3, <3>4, FoldedIsDraft, Zenon
    <3>6. /\ Good(emitted, carriers) /\ Names(emitted) /\ SameNames(d, emitted)
          /\ emitted.carrier_writes = d.carrier_writes /\ NodeOf(emitted, logical)
          /\ emitted.memory_writes = d.memory_writes
          /\ Len(d.nodes) \in Nat /\ Len(emitted.nodes) \in Nat
          /\ Len(d.nodes) < Len(emitted.nodes)
      <4>1. ~ Emit(d, ActionNodes(d, action)).overflowed
        BY <2>2, <2>4, <3>5, Zenon
      <4>2. LET f == Emit(d, ActionNodes(d, action))
            IN  /\ Good(f, carriers) /\ Names(f) /\ SameNames(d, f)
                /\ f.carrier_writes = d.carrier_writes
                /\ f.memory_writes = d.memory_writes
                /\ NodeOf(f, IdAt(d, Len(ActionNodes(d, action)) - 1))
                /\ Len(d.nodes) \in Nat /\ Len(f.nodes) \in Nat /\ Len(d.nodes) < Len(f.nodes)
        BY <1>1, <2>1, <4>1, ActionEmitted
      <4> QED
        BY <2>2, <2>3, <2>4, <4>2, Zenon
    <3>7. PICK width : width = action.immediate
      OBVIOUS
    <3>8. PICK address : address = emitted.bindings[action.operands[1]]
      OBVIOUS
    <3>9. PICK word : word = emitted.bindings[action.operands[2]]
      OBVIOUS
    <3>10. width \in {1, WordBytes}
      BY <2>1, <2>9, <3>7, Zenon DEF Fit
    <3>11. NodeOf(d, d.bindings[action.operands[1]]) /\ NodeOf(d, d.bindings[action.operands[2]])
      <4>1. 1 \in 1 .. OperandCount[action.kind] /\ 2 \in 1 .. OperandCount[action.kind]
        BY <2>9, ActionKinds
      <4> QED
        BY <2>1, <4>1, Zenon DEF Fit
    <3>12. NodeOf(emitted, address) /\ NodeOf(emitted, word)
      <4>1. emitted.bindings = d.bindings
        BY <3>6, Zenon DEF SameNames
      <4>2. NodeOf(d, address) /\ NodeOf(d, word)
        BY <3>8, <3>9, <3>11, <4>1, Zenon
      <4>3. Len(d.nodes) <= Len(emitted.nodes)
        BY <3>6
      <4> QED
        BY <3>6, <4>2, <4>3, NodeStays, Zenon
    <3>13. staged = WithStores(emitted, Append(emitted.memory_writes, WriteM(width, address, word)))
      BY <3>1, <3>7, <3>8, <3>9, Zenon DEF LoweredStore
    <3>14. /\ Good(staged, carriers) /\ Names(staged) /\ staged.nodes = emitted.nodes
           /\ staged.carrier_writes = emitted.carrier_writes
      <4>1. LET f == WithStores(emitted,
                                Append(emitted.memory_writes, WriteM(width, address, word)))
            IN  /\ Good(f, carriers) /\ Names(f) /\ f.nodes = emitted.nodes
                /\ f.carrier_writes = emitted.carrier_writes
        BY <2>1, <2>7, <3>6, <3>10, <3>12, StoreIsGood
      <4> QED
        BY <3>13, <4>1, Zenon
    <3>15. NodeOf(staged, logical)
      BY <3>6, <3>14, Zenon DEF NodeOf
    <3>16. /\ Good(e, carriers) /\ Names(e) /\ e.carrier_writes = staged.carrier_writes
      BY <2>6, <3>2, <3>3, <3>4, <3>14, <3>15, FoldedIsGood
    <3>17. written = {}
      BY <1>4, <2>9, Zenon
    <3> QED
      BY <3>6, <3>14, <3>16, <3>17, Zenon
  <2> QED
    BY <2>8, <2>9
<1> QED
  BY <1>2, <1>3, <1>4, <1>5, Zenon DEF Sound, SoundStep

-----------------------------------------------------------------------------
(***************************************************************************)
(* What an island begins with, and the parameters of blocks and edges.     *)
(***************************************************************************)

\* Reading a value leaves a draft, of the same island.
LEMMA ReconstructIsDraft ==
    ASSUME NEW d, IsDraft(d), NEW value
    PROVE  /\ IsDraft(Reconstruct(d, value)) /\ DOMAIN Reconstruct(d, value) = DOMAIN d
           /\ ~ Reconstruct(d, value).overflowed => ~ d.overflowed
<1>1. \E nodes : Reconstruct(d, value) = Emit(d, nodes)
  BY Zenon DEF Reconstruct
<1> QED
  BY <1>1, EmitIsDraft, EmitFits, Zenon

\* It changes no name of the island.
LEMMA ReconstructSameNames ==
    ASSUME NEW d, DOMAIN d = DraftFields, NEW value
    PROVE  SameNames(d, Reconstruct(d, value))
<1>1. \E nodes : Reconstruct(d, value) = Emit(d, nodes)
  BY Zenon DEF Reconstruct
<1> QED
  BY <1>1, EmitSameNames, Zenon

\* A value is in the carriers from one on, all of which there are.
Placed(value, at, carriers) == at \in Nat /\ at + 3 <= carriers /\ Stored(value, at)

\* Reading a value leaves a draft that is as good, with the value in a node of it.
LEMMA ReconstructIsSound ==
    ASSUME NEW d, NEW carriers \in 0 .. MaxCarriers, Sound(d, carriers), NEW value, NEW at,
           Placed(value, at, carriers)
    PROVE  LET e == Reconstruct(d, value)
           IN  /\ SoundStep(d, e, carriers, {})
               /\ SameNames(d, e)
               /\ ~ e.overflowed => NodeOf(e, ReconstructedAt(d))
<1>1. IsDraft(d) /\ DOMAIN d = DraftFields
  BY Zenon DEF Sound
<1>2. PICK e : e = Reconstruct(d, value)
  OBVIOUS
<1>3. /\ IsDraft(e) /\ DOMAIN e = DraftFields /\ (~ e.overflowed => ~ d.overflowed)
      /\ SameNames(d, e)
  BY <1>1, <1>2, ReconstructIsDraft, ReconstructSameNames
<1>4. ASSUME ~ e.overflowed
      PROVE  /\ Good(e, carriers) /\ Names(e) /\ NodeOf(e, ReconstructedAt(d))
             /\ e.carrier_writes = d.carrier_writes
  <2>1. Good(d, carriers) /\ Names(d)
    BY <1>3, <1>4, Zenon DEF Sound
  <2>2. GoodNodes(d.nodes, 0, carriers)
    BY <2>1, Zenon DEF Good
  <2>3. at \in Nat /\ at + 3 <= carriers /\ Stored(value, at)
    BY Zenon DEF Placed
  <2>4. /\ Grown(d, e, 17, carriers) /\ ReconstructedAt(d) = Len(d.nodes) + 16
        /\ e.carrier_writes = d.carrier_writes
    BY <1>1, <1>2, <1>4, <2>2, <2>3, ReconstructIsGood
  <2>5. Good(e, carriers) /\ Len(d.nodes) \in Nat /\ Len(e.nodes) = Len(d.nodes) + 17
    BY <2>1, <2>4, Zenon DEF Grown
  <2>6. Len(e.nodes) \in Nat /\ Len(d.nodes) <= Len(e.nodes)
    BY <2>5
  <2>7. Names(e)
    BY <1>3, <2>1, <2>5, <2>6, NamesStay, Zenon
  <2>8. NodeOf(e, ReconstructedAt(d))
    BY <2>4, <2>5 DEF NodeOf
  <2> QED
    BY <2>4, <2>5, <2>7, <2>8, Zenon
<1>5. CarriersWritten(d.carrier_writes) \cup {} = CarriersWritten(d.carrier_writes)
  OBVIOUS
<1> QED
  BY <1>2, <1>3, <1>4, <1>5, Zenon DEF Sound, SoundStep

\* An argument of an edge, read and written to a value of the target.
Copied(d, value, to) ==
    Folded(StageWrite(Reconstruct(d, value), to, ReconstructedAt(d), d.semantic, d.history,
                      CompilerSalt(to.origin, "EDGEVAL")),
           ReconstructedAt(d), CompilerSalt(to.origin, "EDGEFOLD"))

\* Copying an argument leaves a draft, good unless it has overflowed.
LEMMA CopiedIsSound ==
    ASSUME NEW d, NEW carriers \in 0 .. MaxCarriers, Sound(d, carriers),
           NEW value, NEW from, Placed(value, from, carriers),
           NEW to, NEW at, Placed(to, at, carriers), to.origin \in 0 .. MaxOrigin,
           CarriersWritten(d.carrier_writes) \cap Span(at) = {}
    PROVE  SoundStep(d, Copied(d, value, to), carriers, Span(at))
<1>1. PICK read : read = Reconstruct(d, value)
  OBVIOUS
<1>2. PICK logical : logical = ReconstructedAt(d)
  OBVIOUS
<1>3. SoundStep(d, read, carriers, {}) /\ SameNames(d, read)
      /\ (~ read.overflowed => NodeOf(read, logical))
  BY <1>1, <1>2, ReconstructIsSound
<1>4. /\ IsDraft(read) /\ DOMAIN read = DraftFields
      /\ read.semantic = d.semantic /\ read.history = d.history
  BY <1>3, Zenon DEF Sound, SoundStep, SameNames
<1>5. PICK salt : salt = CompilerSalt(to.origin, "EDGEVAL")
  OBVIOUS
<1>6. PICK fold : fold = CompilerSalt(to.origin, "EDGEFOLD")
  OBVIOUS
<1>7. salt \in Word /\ fold \in Word
  <2>1. "EDGEVAL" \in SaltNames /\ "EDGEFOLD" \in SaltNames
    BY DEF SaltNames
  <2> QED
    BY <1>5, <1>6, <2>1, CompilerSaltIsWord, Zenon
<1>8. PICK staged : staged = StageWrite(read, to, logical, read.semantic, read.history, salt)
  OBVIOUS
<1>9. PICK e : e = Folded(staged, logical, fold)
  OBVIOUS
<1>10. e = Copied(d, value, to)
  BY <1>1, <1>2, <1>4, <1>5, <1>6, <1>8, <1>9, Zenon DEF Copied
<1>11. /\ IsDraft(staged) /\ DOMAIN staged = DraftFields
       /\ ~ staged.overflowed => ~ read.overflowed
  BY <1>4, <1>8, StageWriteIsDraft
<1>12. /\ IsDraft(e) /\ DOMAIN e = DraftFields /\ (~ e.overflowed => ~ staged.overflowed)
  BY <1>9, <1>11, FoldedIsDraft, FoldedCounts
<1>13. ASSUME ~ e.overflowed
       PROVE  /\ ~ d.overflowed /\ Good(e, carriers) /\ Names(e)
              /\ CarriersWritten(e.carrier_writes)
                     = CarriersWritten(d.carrier_writes) \cup Span(at)
  <2>1. ~ staged.overflowed /\ ~ read.overflowed
    BY <1>11, <1>12, <1>13, Zenon
  <2>2. /\ Good(read, carriers) /\ Names(read) /\ NodeOf(read, logical) /\ ~ d.overflowed
        /\ CarriersWritten(read.carrier_writes) = CarriersWritten(d.carrier_writes) \cup {}
    BY <1>3, <2>1, Zenon DEF Sound, SoundStep
  <2>3. CarriersWritten(read.carrier_writes) = CarriersWritten(d.carrier_writes)
    <3>1. PICK written : written = CarriersWritten(d.carrier_writes)
      OBVIOUS
    <3>2. written \cup {} = written
      OBVIOUS
    <3> QED
      BY <2>2, <3>1, <3>2, Zenon
  <2>4. NodeOf(read, read.semantic) /\ NodeOf(read, read.history)
    BY <2>2, Zenon DEF Names
  <2>5. at \in Nat /\ at + 3 <= carriers /\ Stored(to, at)
    BY Zenon DEF Placed
  <2>6. CarriersWritten(read.carrier_writes) \cap Span(at) = {}
    BY <2>3, Zenon
  <2>7. Stageable(read, carriers, to, at, logical, read.semantic, read.history, salt)
    BY <1>4, <1>7, <2>2, <2>4, <2>5, <2>6, Zenon DEF Stageable
  <2>8. Staged(read, staged, carriers, at)
    BY <1>8, <2>1, <2>7, StageWriteStages
  <2>9. /\ Good(staged, carriers)
        /\ Len(read.nodes) \in Nat /\ Len(staged.nodes) = Len(read.nodes) + 16
        /\ CarriersWritten(staged.carrier_writes)
               = CarriersWritten(d.carrier_writes) \cup Span(at)
    BY <2>3, <2>8, Zenon DEF Staged
  <2>10. Len(staged.nodes) \in Nat /\ Len(read.nodes) <= Len(staged.nodes)
    BY <2>9
  <2>11. SameNames(read, staged)
    BY <1>4, <1>8, StageWriteSameNames
  <2>12. Names(staged) /\ NodeOf(staged, logical)
    BY <2>2, <2>9, <2>10, <2>11, NamesStay, NodeStays, Zenon
  <2>13. Good(e, carriers) /\ Names(e) /\ e.carrier_writes = staged.carrier_writes
    BY <1>7, <1>9, <1>11, <1>13, <2>9, <2>12, FoldedIsGood
  <2> QED
    BY <2>2, <2>9, <2>13, Zenon
<1> QED
  BY <1>10, <1>12, <1>13, Zenon DEF Sound, SoundStep

\* Reading a parameter binds it.
LEMMA WithParameterIsSound ==
    ASSUME NEW d, NEW carriers \in 0 .. MaxCarriers, Sound(d, carriers), NEW parameter, NEW at,
           Placed(values[parameter.id], at, carriers)
    PROVE  SoundStep(d, WithParameter(d, parameter), carriers, {})
<1>1. PICK read : read = Reconstruct(d, values[parameter.id])
  OBVIOUS
<1>2. PICK logical : logical = ReconstructedAt(d)
  OBVIOUS
<1>3. SoundStep(d, read, carriers, {}) /\ (~ read.overflowed => NodeOf(read, logical))
  BY <1>1, <1>2, ReconstructIsSound
<1>4. IsDraft(read) /\ DOMAIN read = DraftFields
  BY <1>3, Zenon DEF Sound, SoundStep
<1>5. PICK bindings : bindings = Emplaced(read.bindings, parameter.id, logical)
  OBVIOUS
<1>6. PICK e : e = WithBindings(read, bindings)
  OBVIOUS
<1>7. e = WithParameter(d, parameter)
  BY <1>1, <1>2, <1>5, <1>6, Zenon DEF WithParameter, WithBindings
<1>8. /\ DOMAIN e = DraftFields /\ e.overflowed = read.overflowed
      /\ e.carrier_writes = read.carrier_writes
  BY <1>4, <1>6, BindingsChanged
<1>9. IsDraft(e)
  BY <1>4, <1>8, Zenon DEF IsDraft
<1>10. ASSUME ~ e.overflowed PROVE Good(e, carriers) /\ Names(e)
  <2>1. Good(read, carriers) /\ Names(read) /\ NodeOf(read, logical)
    BY <1>3, <1>8, <1>10, Zenon DEF Sound, SoundStep
  <2>2. LET f == WithBindings(read, Emplaced(read.bindings, parameter.id, logical))
        IN  Good(f, carriers) /\ Names(f)
    BY <1>4, <2>1, BindIsGood
  <2> QED
    BY <1>5, <1>6, <2>2, Zenon
<1> QED
  BY <1>3, <1>7, <1>8, <1>9, <1>10, Zenon DEF Sound, SoundStep

\* All parameters read, one after the other.
LEMMA WithParametersIsSound ==
    ASSUME NEW d, NEW carriers \in 0 .. MaxCarriers, Sound(d, carriers),
           NEW parameters \in Seq(IrValue),
           \A n \in 1 .. Len(parameters) :
               \E at : Placed(values[parameters[n].id], at, carriers)
    PROVE  SoundStep(d, WithParameters(d, parameters), carriers, {})
<1>1. PICK N \in Nat : N = Len(parameters)
  OBVIOUS
<1>2. IsReading(Reading(d, parameters), d, parameters)
  <2>1. Len(parameters) \in Nat
    OBVIOUS
  <2>2. \E upTo : IsReading(upTo, d, parameters)
    BY <2>1, ReadingExists, Zenon
  <2> QED
    BY <2>2, Zenon DEF Reading
<1>3. WithParameters(d, parameters) = Reading(d, parameters)[Len(parameters)]
  BY Zenon DEF WithParameters, Reading, IsReading
<1>4. PICK upTo : upTo = Reading(d, parameters)
  OBVIOUS
<1>5. \A n \in 0 .. N :
          upTo[n] = IF n = 0 THEN d ELSE WithParameter(upTo[n - 1], parameters[n])
  BY <1>1, <1>2, <1>4, Zenon DEF IsReading
<1>6. PICK written : written = CarriersWritten(d.carrier_writes)
  OBVIOUS
<1>7. written \cup {} = written
  OBVIOUS
<1> DEFINE Holds(n) == SoundStep(d, upTo[n], carriers, {})
           Holding == {n \in 0 .. N : Holds(n)}
<1>8. Holds(0)
  <2>1. upTo[0] = d
    BY <1>5
  <2>2. SoundStep(d, d, carriers, {})
    BY <1>6, <1>7, Zenon DEF SoundStep
  <2> QED
    BY <2>1, <2>2, Zenon
<1>9. ASSUME NEW n \in 1 .. N, Holds(n - 1) PROVE Holds(n)
  <2>1. PICK before : before = upTo[n - 1]
    OBVIOUS
  <2>2. n \in 0 .. N /\ n # 0
    OBVIOUS
  <2>3. upTo[n] = WithParameter(before, parameters[n])
    BY <1>5, <2>1, <2>2, Zenon
  <2>4. SoundStep(d, before, carriers, {})
    BY <1>9, <2>1, Zenon
  <2>5. Sound(before, carriers)
    BY <2>4, Zenon DEF SoundStep
  <2>6. PICK at : Placed(values[parameters[n].id], at, carriers)
    BY <1>1, Zenon
  <2>7. PICK after : after = WithParameter(before, parameters[n])
    OBVIOUS
  <2>8. SoundStep(before, after, carriers, {})
    <3>1. SoundStep(before, WithParameter(before, parameters[n]), carriers, {})
      BY <2>5, <2>6, WithParameterIsSound
    <3> QED
      BY <2>7, <3>1, Zenon
  <2>9. SoundStep(d, after, carriers, {})
    BY <1>6, <1>7, <2>4, <2>8, Zenon DEF SoundStep
  <2> QED
    BY <2>3, <2>7, <2>9, Zenon
<1>10. Holding \in SUBSET (0 .. N) /\ 0 \in Holding
  <2> HIDE DEF Holds
  <2> QED
    BY <1>8
<1>11. ASSUME NEW n \in 1 .. N, n - 1 \in Holding PROVE n \in Holding
  <2> HIDE DEF Holds
  <2> QED
    BY <1>9, <1>11
<1>12. Holds(N)
  <2> HIDE DEF Holding
  <2>1. Holding = 0 .. N
    BY <1>10, <1>11, UpTo, Zenon
  <2>2. N \in Holding
    BY <2>1
  <2> HIDE DEF Holds
  <2> QED
    BY <2>2 DEF Holding
<1> QED
  BY <1>1, <1>3, <1>4, <1>12, Zenon

\* A draft without nodes.
LEMMA EmptyDraftIsGood ==
    ASSUME NEW carriers
    PROVE  IsDraft(EmptyDraft) /\ Good(EmptyDraft, carriers) /\ Len(EmptyDraft.nodes) = 0
<1>1. /\ DOMAIN EmptyDraft = {"nodes", "carrier_writes", "memory_writes", "overflowed"}
      /\ EmptyDraft.nodes = << >> /\ EmptyDraft.carrier_writes = << >>
      /\ EmptyDraft.memory_writes = << >> /\ EmptyDraft.overflowed = FALSE
  BY DEF EmptyDraft
<1>2. IsDraft(EmptyDraft)
  BY <1>1, Zenon DEF IsDraft
<1>3. IsSequence(<< >>) /\ Len(<< >>) = 0
  BY EmptyIsSequence
<1>4. \A n \in 1 .. 0 : FALSE
  OBVIOUS
<1>5. GoodNodes(<< >>, 0, carriers)
  BY <1>3, <1>4, Zenon DEF GoodNodes
<1>6. 0 <= 0 /\ 0 <= MaxNodeId
  BY LimitsAssumption
<1>7. GoodWrites(<< >>, 0, carriers) /\ GoodStores(<< >>, 0)
  BY <1>3, <1>4, <1>6, Zenon DEF GoodWrites, GoodStores
<1> QED
  BY <1>1, <1>2, <1>3, <1>5, <1>6, <1>7, Zenon DEF Good

\* An island starts with the nodes of its state.
Begun(state) ==
    LET first == Reconstruct(EmptyDraft, state.semantic)
        semantic == ReconstructedAt(EmptyDraft)
        second == Reconstruct(first, state.history)
    IN  [nodes |-> second.nodes, carrier_writes |-> << >>, memory_writes |-> << >>,
         overflowed |-> second.overflowed,
         semantic |-> semantic, history |-> ReconstructedAt(first),
         last |-> semantic, fold |-> semantic, items |-> 0, bindings |-> << >>]

\* The parts of a draft that has begun.
LEMMA BegunIs ==
    ASSUME NEW state, NEW first, first = Reconstruct(EmptyDraft, state.semantic),
           NEW second, second = Reconstruct(first, state.history)
    PROVE  /\ DOMAIN Begun(state) = DraftFields
           /\ Begun(state).nodes = second.nodes /\ Begun(state).carrier_writes = << >>
           /\ Begun(state).memory_writes = << >> /\ Begun(state).overflowed = second.overflowed
           /\ Begun(state).semantic = ReconstructedAt(EmptyDraft)
           /\ Begun(state).last = ReconstructedAt(EmptyDraft)
           /\ Begun(state).fold = ReconstructedAt(EmptyDraft)
           /\ Begun(state).history = ReconstructedAt(first)
           /\ Begun(state).items = 0 /\ Begun(state).bindings = << >>
<1>1. PICK b : b = [nodes |-> second.nodes, carrier_writes |-> << >>, memory_writes |-> << >>,
                    overflowed |-> second.overflowed,
                    semantic |-> ReconstructedAt(EmptyDraft), history |-> ReconstructedAt(first),
                    last |-> ReconstructedAt(EmptyDraft), fold |-> ReconstructedAt(EmptyDraft),
                    items |-> 0, bindings |-> << >>]
  OBVIOUS
<1>2. b = Begun(state)
  BY <1>1, Zenon DEF Begun
<1>3. /\ DOMAIN b = DraftFields
      /\ b.nodes = second.nodes /\ b.carrier_writes = << >>
      /\ b.memory_writes = << >> /\ b.overflowed = second.overflowed
      /\ b.semantic = ReconstructedAt(EmptyDraft) /\ b.last = ReconstructedAt(EmptyDraft)
      /\ b.fold = ReconstructedAt(EmptyDraft) /\ b.history = ReconstructedAt(first)
      /\ b.items = 0 /\ b.bindings = << >>
  BY <1>1 DEF DraftFields
<1> QED
  BY <1>2, <1>3, Zenon

\* It is a good draft, unless it has overflowed already.
LEMMA BegunIsSound ==
    ASSUME NEW carriers \in 0 .. MaxCarriers, NEW state, NEW s, Placed(state.semantic, s, carriers),
           NEW h, Placed(state.history, h, carriers)
    PROVE  Sound(Begun(state), carriers) /\ CarriersWritten(Begun(state).carrier_writes) = {}
<1>1. PICK first : first = Reconstruct(EmptyDraft, state.semantic)
  OBVIOUS
<1>2. PICK second : second = Reconstruct(first, state.history)
  OBVIOUS
<1>3. PICK d : d = Begun(state)
  OBVIOUS
<1>4. /\ DOMAIN d = DraftFields
      /\ d.nodes = second.nodes /\ d.carrier_writes = << >>
      /\ d.memory_writes = << >> /\ d.overflowed = second.overflowed
      /\ d.semantic = ReconstructedAt(EmptyDraft) /\ d.last = ReconstructedAt(EmptyDraft)
      /\ d.fold = ReconstructedAt(EmptyDraft) /\ d.history = ReconstructedAt(first)
      /\ d.bindings = << >>
  BY <1>1, <1>2, <1>3, BegunIs, ZenonT(40)
<1>5. IsDraft(EmptyDraft) /\ Good(EmptyDraft, carriers) /\ Len(EmptyDraft.nodes) = 0
  BY EmptyDraftIsGood
<1>6. IsDraft(first) /\ IsDraft(second) /\ (~ second.overflowed => ~ first.overflowed)
  BY <1>1, <1>2, <1>5, ReconstructIsDraft
<1>7. IsDraft(d)
  <2>1. {"nodes", "carrier_writes", "memory_writes", "overflowed"} \subseteq DraftFields
    BY DEF DraftFields
  <2> QED
    BY <1>4, <1>6, <2>1, Zenon DEF IsDraft
<1>8. CarriersWritten(d.carrier_writes) = {}
  <2>1. Len(d.carrier_writes) = 0
    BY <1>4
  <2>2. 1 .. 0 = {}
    OBVIOUS
  <2> QED
    BY <2>1, <2>2 DEF CarriersWritten
<1>9. ASSUME ~ d.overflowed PROVE Good(d, carriers) /\ Names(d)
  <2>1. ~ second.overflowed /\ ~ first.overflowed
    BY <1>4, <1>6, <1>9, Zenon
  <2>2. /\ s \in Nat /\ s + 3 <= carriers /\ Stored(state.semantic, s)
        /\ h \in Nat /\ h + 3 <= carriers /\ Stored(state.history, h)
    BY Zenon DEF Placed
  <2>3. /\ Grown(EmptyDraft, first, 17, carriers)
        /\ ReconstructedAt(EmptyDraft) = Len(EmptyDraft.nodes) + 16
    <3>1. GoodNodes(EmptyDraft.nodes, 0, carriers)
      BY <1>5, Zenon DEF Good
    <3> QED
      BY <1>1, <1>5, <2>1, <2>2, <3>1, ReconstructIsGood
  <2>4. Good(first, carriers) /\ Len(first.nodes) = 0 + 17
    BY <1>5, <2>3, Zenon DEF Grown
  <2>5. /\ Grown(first, second, 17, carriers)
        /\ ReconstructedAt(first) = Len(first.nodes) + 16
    <3>1. GoodNodes(first.nodes, 0, carriers)
      BY <2>4, Zenon DEF Good
    <3> QED
      BY <1>2, <1>6, <2>1, <2>2, <3>1, ReconstructIsGood
  <2>6. Good(second, carriers) /\ Len(second.nodes) = Len(first.nodes) + 17
    BY <2>4, <2>5, Zenon DEF Grown
  <2>7. Len(d.nodes) = 34
    BY <1>4, <2>4, <2>6
  <2>8. d.semantic = 16 /\ d.last = 16 /\ d.fold = 16 /\ d.history = 33
    BY <1>4, <1>5, <2>3, <2>4, <2>5
  <2>9. 16 \in 0 .. (34 - 1) /\ 33 \in 0 .. (34 - 1)
    OBVIOUS
  <2>10. DOMAIN d.bindings = {}
    BY <1>4
  <2>11. Names(d)
    BY <2>7, <2>8, <2>9, <2>10, Zenon DEF Names, NodeOf
  <2>12. GoodNodes(d.nodes, 0, carriers) /\ Len(d.nodes) <= MaxNodeId
    BY <1>4, <2>6, Zenon DEF Good
  <2>13. GoodWrites(<< >>, 0, carriers) /\ GoodStores(<< >>, 0)
    <3>1. /\ EmptyDraft.carrier_writes = << >> /\ EmptyDraft.memory_writes = << >>
      BY DEF EmptyDraft
    <3> QED
      BY <1>5, <3>1, Zenon DEF Good
  <2>14. GoodWrites(<< >>, 34, carriers) /\ GoodStores(<< >>, 34)
    <3>1. 0 \in Nat /\ 34 \in Nat /\ 0 <= 34
      OBVIOUS
    <3> QED
      BY <2>13, <3>1, MoreNodes
  <2> QED
    BY <1>4, <2>7, <2>11, <2>12, <2>14, Zenon DEF Good
<1> QED
  BY <1>3, <1>4, <1>7, <1>8, <1>9, Zenon DEF Sound

\* A draft that goes on from another.
Extends(d, e) ==
    /\ Len(d.nodes) \in Nat /\ Len(e.nodes) \in Nat /\ Len(d.nodes) <= Len(e.nodes)
    /\ \A k \in 1 .. Len(d.nodes) : e.nodes[k] = d.nodes[k]

-----------------------------------------------------------------------------
(***************************************************************************)
(* What an island ends with: nodes are only added after those there are,   *)
(* so that the ids of literals handed out stay literals.                   *)
(***************************************************************************)

\* One that goes on from that goes on from the first.
LEMMA ExtendsFurther ==
    ASSUME NEW d, NEW e, NEW f, Extends(d, e), Extends(e, f)
    PROVE  Extends(d, f)
<1>1. /\ Len(d.nodes) \in Nat /\ Len(e.nodes) \in Nat /\ Len(f.nodes) \in Nat
      /\ Len(d.nodes) <= Len(e.nodes) /\ Len(e.nodes) <= Len(f.nodes)
  BY Zenon DEF Extends
<1>2. ASSUME NEW k \in 1 .. Len(d.nodes) PROVE k \in 1 .. Len(e.nodes)
  BY <1>1
<1>3. Len(d.nodes) <= Len(f.nodes)
  BY <1>1
<1> QED
  BY <1>1, <1>2, <1>3, Zenon DEF Extends

\* The names of the first are nodes of the second.
LEMMA ExtendsNodes ==
    ASSUME NEW d, NEW e, Extends(d, e), NEW node, NodeOf(d, node)
    PROVE  NodeOf(e, node)
BY NodeStays, Zenon DEF Extends

\* The beginning of two sequences in one is the first.
LEMMA BeginsWith ==
    ASSUME NEW s, IsSequence(s), NEW t, IsSequence(t)
    PROVE  \A k \in 1 .. Len(s) : (s \o t)[k] = s[k]
<1>1. PICK T : s \in Seq(T) /\ t \in Seq(T)
  <2> DEFINE T == {s[i] : i \in DOMAIN s} \cup {t[i] : i \in DOMAIN t}
  <2>1. s \in Seq(T) /\ t \in Seq(T)
    BY DEF IsSequence
  <2> QED
    BY <2>1, Zenon
<1> QED
  BY <1>1, Concatenated

\* Emission goes on from a draft.
LEMMA EmitExtends ==
    ASSUME NEW d, IsDraft(d), IsSequence(d.nodes), NEW nodes, IsSequence(nodes),
           ~ Emit(d, nodes).overflowed
    PROVE  Extends(d, Emit(d, nodes)) /\ Emit(d, nodes).carrier_writes = d.carrier_writes
<1>1. PICK more : more = d.nodes \o nodes
  OBVIOUS
<1>2. PICK e : e = Emit(d, nodes)
  OBVIOUS
<1>3. e = WithNodes(d, more)
  BY <1>1, <1>2, EmitFits
<1>4. e.nodes = more /\ e.carrier_writes = d.carrier_writes
  BY <1>3, NodesChanged
<1>5. \A k \in 1 .. Len(d.nodes) : more[k] = d.nodes[k]
  BY <1>1, BeginsWith
<1>6. Len(more) = Len(d.nodes) + Len(nodes)
  BY <1>1, LengthsAdd
<1>7. Len(d.nodes) \in Nat /\ Len(nodes) \in Nat
  BY AppendIsSequence
<1>8. Len(more) \in Nat /\ Len(d.nodes) <= Len(more)
  BY <1>6, <1>7
<1> QED
  BY <1>2, <1>4, <1>5, <1>7, <1>8, Zenon DEF Extends

\* So does a write.
LEMMA StageWriteExtends ==
    ASSUME NEW d, IsDraft(d), IsSequence(d.nodes), NEW value, NEW logical, NEW semantic,
           NEW history, NEW salt, ~ StageWrite(d, value, logical, semantic, history, salt).overflowed
    PROVE  Extends(d, StageWrite(d, value, logical, semantic, history, salt))
<1>1. PICK nodes : nodes = StageNodes(d, value, logical, semantic, history, salt)
  OBVIOUS
<1>2. PICK emitted : emitted = Emit(d, nodes)
  OBVIOUS
<1>3. PICK writes : writes = emitted.carrier_writes \o StageWrites(d, value)
  OBVIOUS
<1>4. PICK e : e = WithWrites(emitted, writes)
  OBVIOUS
<1>5. e = StageWrite(d, value, logical, semantic, history, salt)
  BY <1>1, <1>2, <1>3, <1>4, StageWriteIs
<1>6. IsDraft(emitted)
  BY <1>2, EmitIsDraft
<1>7. e.nodes = emitted.nodes /\ e.overflowed = emitted.overflowed
  BY <1>4, <1>6, WritesChanged
<1>8. IsSequence(nodes)
  BY <1>1, StageNodesCount
<1>9. ~ Emit(d, nodes).overflowed
  BY <1>2, <1>5, <1>7, Zenon
<1>10. Extends(d, emitted)
  BY <1>2, <1>8, <1>9, EmitExtends
<1> QED
  BY <1>5, <1>7, <1>10, Zenon DEF Extends

\* The same of the draft a write is good for.
LEMMA StagedExtends ==
    ASSUME NEW d, NEW carriers, NEW value, NEW at, NEW logical, NEW semantic, NEW history,
           NEW salt, Stageable(d, carriers, value, at, logical, semantic, history, salt),
           ~ StageWrite(d, value, logical, semantic, history, salt).overflowed
    PROVE  Extends(d, StageWrite(d, value, logical, semantic, history, salt))
<1>1. IsDraft(d) /\ IsSequence(d.nodes)
  BY Zenon DEF Stageable, Good, GoodNodes
<1> QED
  BY <1>1, StageWriteExtends

\* The names of the salts an island ends with.
LEMMA SaltsAreNamed ==
    ASSUME NEW salts \in {BlockSalts, EdgeSalts}
    PROVE  /\ salts.semantic \in SaltNames /\ salts.history \in SaltNames
           /\ salts.semantic_shares \in SaltNames /\ salts.history_shares \in SaltNames
           /\ salts.continuation \in SaltNames
BY DEF BlockSalts, EdgeSalts, SaltNames

\* The nodes of the new states.
AdvancedNodes(d, origin, salts) ==
    <<Mixed(d.fold, d.history, CompilerSalt(origin, salts.semantic)),
      Mixed(d.history, IdAt(d, 0), CompilerSalt(origin, salts.history))>>

\* The draft when the first of the new states is written.
HalfAdvanced(d, state, origin, salts) ==
    StageWrite(Emit(d, AdvancedNodes(d, origin, salts)), state.semantic, IdAt(d, 0), d.history,
               d.last, CompilerSalt(origin, salts.semantic_shares))

\* The second write follows the first.
LEMMA AdvancedIs ==
    ASSUME NEW d, NEW state, NEW origin, NEW salts
    PROVE  Advanced(d, state, origin, salts)
               = StageWrite(HalfAdvanced(d, state, origin, salts), state.history, IdAt(d, 1),
                            d.semantic, IdAt(d, 0), CompilerSalt(origin, salts.history_shares))
BY Zenon DEF Advanced, HalfAdvanced, AdvancedNodes

\* Advancing the state leaves a draft.
LEMMA AdvancedIsDraft ==
    ASSUME NEW d, IsDraft(d), DOMAIN d = DraftFields, NEW state, NEW origin, NEW salts
    PROVE  LET e == Advanced(d, state, origin, salts)
           IN  IsDraft(e) /\ DOMAIN e = DraftFields /\ (~ e.overflowed => ~ d.overflowed)
<1>1. PICK mixed : mixed = Emit(d, AdvancedNodes(d, origin, salts))
  OBVIOUS
<1>2. IsDraft(mixed) /\ DOMAIN mixed = DraftFields /\ (~ mixed.overflowed => ~ d.overflowed)
  BY <1>1, EmitIsDraft, EmitFits
<1>3. PICK half : half = HalfAdvanced(d, state, origin, salts)
  OBVIOUS
<1>4. IsDraft(half) /\ DOMAIN half = DraftFields /\ (~ half.overflowed => ~ mixed.overflowed)
  BY <1>1, <1>2, <1>3, StageWriteIsDraft DEF HalfAdvanced
<1>5. PICK e : e = Advanced(d, state, origin, salts)
  OBVIOUS
<1>6. IsDraft(e) /\ DOMAIN e = DraftFields /\ (~ e.overflowed => ~ half.overflowed)
  BY <1>3, <1>4, <1>5, AdvancedIs, StageWriteIsDraft
<1> QED
  BY <1>2, <1>4, <1>5, <1>6, Zenon

\* The new states are two nodes.
LEMMA AdvancedNodesEmitted ==
    ASSUME NEW d, IsDraft(d), DOMAIN d = DraftFields, NEW carriers, Good(d, carriers), Names(d),
           NEW origin \in 0 .. MaxOrigin, NEW salts \in {BlockSalts, EdgeSalts},
           ~ Emit(d, AdvancedNodes(d, origin, salts)).overflowed
    PROVE  LET mixed == Emit(d, AdvancedNodes(d, origin, salts))
           IN  /\ Good(mixed, carriers) /\ SameNames(d, mixed) /\ Extends(d, mixed)
               /\ mixed.carrier_writes = d.carrier_writes
               /\ NodeOf(mixed, IdAt(d, 0)) /\ NodeOf(mixed, IdAt(d, 1))
<1>1. PICK nodes : nodes = AdvancedNodes(d, origin, salts)
  OBVIOUS
<1>2. PICK mixed : mixed = Emit(d, nodes)
  OBVIOUS
<1>3. ~ Emit(d, nodes).overflowed
  BY <1>1, Zenon
<1>4. PICK base : base = Len(d.nodes)
  OBVIOUS
<1>5. base \in Nat
  BY <1>4, AppendIsSequence DEF Good, GoodNodes
<1>6. Len(nodes) = 2 /\ IsSequence(nodes)
  BY <1>1, TupleLengths, Zenon DEF AdvancedNodes
<1>7. IdAt(d, 0) = base /\ IdAt(d, 1) = base + 1
  <2>1. Len(nodes) <= MaxNodeId - Len(d.nodes)
    BY <1>3, EmitFits, Zenon
  <2>2. \A k \in 0 .. 1 : IdAt(d, k) = Len(d.nodes) + k
    BY <1>4, <1>5, <1>6, <2>1, IdAtIs
  <2> QED
    BY <1>4, <1>5, <2>2
<1>8. PICK salt : salt = CompilerSalt(origin, salts.semantic)
  OBVIOUS
<1>9. PICK second : second = CompilerSalt(origin, salts.history)
  OBVIOUS
<1>10. salt \in Word /\ second \in Word
  BY <1>8, <1>9, SaltsAreNamed, CompilerSaltIsWord, Zenon
<1>11. PICK fold : fold = d.fold
  OBVIOUS
<1>12. PICK history : history = d.history
  OBVIOUS
<1>13. fold \in 0 .. (base - 1) /\ history \in 0 .. (base - 1)
  BY <1>4, <1>11, <1>12, Zenon DEF NodeOf, Names
<1>14. nodes = <<Mixed(fold, history, salt), Mixed(history, base, second)>>
  BY <1>1, <1>7, <1>8, <1>9, <1>11, <1>12, Zenon DEF AdvancedNodes
<1>15. /\ fold \in Nat /\ history \in Nat /\ base + 1 \in Nat /\ base + 2 \in Nat
       /\ fold < (base + 1) - 1 /\ history < (base + 1) - 1
       /\ history < (base + 2) - 1 /\ base < (base + 2) - 1
  BY <1>5, <1>13
<1>16. GoodNode(Mixed(fold, history, salt), base + 1, carriers)
  BY <1>10, <1>15, MixedIsGood
<1>17. GoodNode(Mixed(history, base, second), base + 2, carriers)
  BY <1>5, <1>10, <1>15, MixedIsGood
<1>18. GoodNodes(nodes, base, carriers)
  BY <1>5, <1>14, <1>16, <1>17, TwoNodes, Zenon
<1>19. GoodNodes(nodes, Len(d.nodes), carriers)
  BY <1>4, <1>18, Zenon
<1>20. /\ Good(mixed, carriers) /\ Len(mixed.nodes) = base + 2
       /\ mixed.carrier_writes = d.carrier_writes
  <2>1. /\ Good(mixed, carriers) /\ Len(mixed.nodes) = Len(d.nodes) + Len(nodes)
        /\ mixed.carrier_writes = d.carrier_writes
    BY <1>2, <1>3, <1>19, EmitIsGood, Zenon
  <2> QED
    BY <1>4, <1>6, <2>1, Zenon
<1>21. SameNames(d, mixed)
  BY <1>2, EmitSameNames
<1>22. Extends(d, mixed)
  <2>1. IsSequence(d.nodes)
    BY Zenon DEF Good, GoodNodes
  <2> QED
    BY <1>2, <1>3, <1>6, <2>1, EmitExtends
<1>23. NodeOf(mixed, IdAt(d, 0)) /\ NodeOf(mixed, IdAt(d, 1))
  BY <1>5, <1>7, <1>20 DEF NodeOf
<1> QED
  BY <1>1, <1>2, <1>20, <1>21, <1>22, <1>23, Zenon

\* Advancing the state leaves a good draft, with the state written.
LEMMA AdvancedIsGood ==
    ASSUME NEW d, IsDraft(d), DOMAIN d = DraftFields, NEW carriers \in 0 .. MaxCarriers,
           Good(d, carriers), Names(d), NEW state,
           NEW s, Placed(state.semantic, s, carriers), NEW h, Placed(state.history, h, carriers),
           Span(s) \cap Span(h) = {},
           CarriersWritten(d.carrier_writes) \cap (Span(s) \cup Span(h)) = {},
           NEW origin \in 0 .. MaxOrigin, NEW salts \in {BlockSalts, EdgeSalts},
           ~ Advanced(d, state, origin, salts).overflowed
    PROVE  LET e == Advanced(d, state, origin, salts)
           IN  /\ Good(e, carriers) /\ SameNames(d, e) /\ Extends(d, e)
               /\ NodeOf(e, IdAt(d, 0)) /\ NodeOf(e, IdAt(d, 1))
               /\ CarriersWritten(e.carrier_writes)
                      = CarriersWritten(d.carrier_writes) \cup (Span(s) \cup Span(h))
<1>1. PICK mixed : mixed = Emit(d, AdvancedNodes(d, origin, salts))
  OBVIOUS
<1>2. PICK half : half = HalfAdvanced(d, state, origin, salts)
  OBVIOUS
<1>3. PICK e : e = Advanced(d, state, origin, salts)
  OBVIOUS
<1>4. PICK first_salt : first_salt = CompilerSalt(origin, salts.semantic_shares)
  OBVIOUS
<1>5. PICK second_salt : second_salt = CompilerSalt(origin, salts.history_shares)
  OBVIOUS
<1>6. first_salt \in Word /\ second_salt \in Word
  BY <1>4, <1>5, SaltsAreNamed, CompilerSaltIsWord, Zenon
<1>7. PICK semantic : semantic = IdAt(d, 0)
  OBVIOUS
<1>8. PICK history : history = IdAt(d, 1)
  OBVIOUS
<1>9. half = StageWrite(mixed, state.semantic, semantic, d.history, d.last, first_salt)
  BY <1>1, <1>2, <1>4, <1>7, Zenon DEF HalfAdvanced
<1>10. e = StageWrite(half, state.history, history, d.semantic, semantic, second_salt)
  <2>1. Advanced(d, state, origin, salts)
            = StageWrite(HalfAdvanced(d, state, origin, salts), state.history, IdAt(d, 1),
                         d.semantic, IdAt(d, 0), CompilerSalt(origin, salts.history_shares))
    BY AdvancedIs
  <2> QED
    BY <1>2, <1>3, <1>5, <1>7, <1>8, <2>1, Zenon
<1>11. IsDraft(mixed) /\ DOMAIN mixed = DraftFields
  BY <1>1, EmitIsDraft
<1>12. IsDraft(half) /\ DOMAIN half = DraftFields /\ (~ half.overflowed => ~ mixed.overflowed)
  BY <1>9, <1>11, StageWriteIsDraft
<1>13. ~ e.overflowed /\ ~ half.overflowed
  <2>1. ~ e.overflowed
    BY <1>3, Zenon
  <2> QED
    BY <1>10, <1>12, <2>1, StageWriteIsDraft
<1>14. /\ Good(mixed, carriers) /\ SameNames(d, mixed) /\ Extends(d, mixed)
       /\ mixed.carrier_writes = d.carrier_writes
       /\ NodeOf(mixed, semantic) /\ NodeOf(mixed, history)
  <2>1. ~ Emit(d, AdvancedNodes(d, origin, salts)).overflowed
    BY <1>1, <1>12, <1>13, Zenon
  <2>2. LET f == Emit(d, AdvancedNodes(d, origin, salts))
        IN  /\ Good(f, carriers) /\ SameNames(d, f) /\ Extends(d, f)
            /\ f.carrier_writes = d.carrier_writes
            /\ NodeOf(f, IdAt(d, 0)) /\ NodeOf(f, IdAt(d, 1))
    BY <2>1, AdvancedNodesEmitted
  <2> QED
    BY <1>1, <1>7, <1>8, <2>2, Zenon
<1>15. NodeOf(mixed, d.history) /\ NodeOf(mixed, d.last) /\ NodeOf(mixed, d.semantic)
  <2>1. NodeOf(d, d.history) /\ NodeOf(d, d.last) /\ NodeOf(d, d.semantic)
    BY Zenon DEF Names
  <2> QED
    BY <1>14, <2>1, ExtendsNodes, Zenon
<1>16. PICK written : written = CarriersWritten(d.carrier_writes)
  OBVIOUS
<1>17. PICK first : first = Span(s)
  OBVIOUS
<1>18. PICK second : second = Span(h)
  OBVIOUS
<1>19. written \cap first = {} /\ (written \cup first) \cap second = {}
  <2>1. first \cap second = {} /\ written \cap (first \cup second) = {}
    BY <1>16, <1>17, <1>18, Zenon
  <2> QED
    BY <2>1
<1>20. Stageable(mixed, carriers, state.semantic, s, semantic, d.history, d.last, first_salt)
  <2>1. s \in Nat /\ s + 3 <= carriers /\ Stored(state.semantic, s)
    BY Zenon DEF Placed
  <2>2. CarriersWritten(mixed.carrier_writes) \cap Span(s) = {}
    BY <1>14, <1>16, <1>17, <1>19, Zenon
  <2> QED
    BY <1>6, <1>11, <1>14, <1>15, <2>1, <2>2, Zenon DEF Stageable
<1>21. Staged(mixed, half, carriers, s) /\ Extends(mixed, half)
  <2>1. ~ StageWrite(mixed, state.semantic, semantic, d.history, d.last, first_salt).overflowed
    BY <1>9, <1>13, Zenon
  <2> QED
    BY <1>9, <1>20, <2>1, StageWriteStages, StagedExtends
<1>22. Good(half, carriers) /\ CarriersWritten(half.carrier_writes) = written \cup first
  BY <1>14, <1>16, <1>17, <1>21, Zenon DEF Staged
<1>23. Stageable(half, carriers, state.history, h, history, d.semantic, semantic, second_salt)
  <2>1. h \in Nat /\ h + 3 <= carriers /\ Stored(state.history, h)
    BY Zenon DEF Placed
  <2>2. CarriersWritten(half.carrier_writes) \cap Span(h) = {}
    BY <1>18, <1>19, <1>22, Zenon
  <2>3. NodeOf(half, history) /\ NodeOf(half, d.semantic) /\ NodeOf(half, semantic)
    BY <1>14, <1>15, <1>21, ExtendsNodes, Zenon
  <2> QED
    BY <1>6, <1>12, <1>22, <2>1, <2>2, <2>3, Zenon DEF Stageable
<1>24. Staged(half, e, carriers, h) /\ Extends(half, e)
  <2>1. ~ StageWrite(half, state.history, history, d.semantic, semantic, second_salt).overflowed
    BY <1>10, <1>13, Zenon
  <2> QED
    BY <1>10, <1>23, <2>1, StageWriteStages, StagedExtends
<1>25. /\ Good(e, carriers)
       /\ CarriersWritten(e.carrier_writes) = (written \cup first) \cup second
  BY <1>18, <1>22, <1>24, Zenon DEF Staged
<1>26. (written \cup first) \cup second = written \cup (first \cup second)
  OBVIOUS
<1>27. Extends(mixed, e) /\ Extends(d, e)
  BY <1>14, <1>21, <1>24, ExtendsFurther, Zenon
<1>28. NodeOf(e, semantic) /\ NodeOf(e, history)
  BY <1>14, <1>27, ExtendsNodes, Zenon
<1>29. SameNames(d, e)
  <2>1. SameNames(mixed, half)
    BY <1>9, <1>11, StageWriteSameNames
  <2>2. SameNames(half, e)
    BY <1>10, <1>12, StageWriteSameNames
  <2> QED
    BY <1>14, <2>1, <2>2, Zenon DEF SameNames
<1> QED
  BY <1>3, <1>7, <1>8, <1>16, <1>17, <1>18, <1>25, <1>26, <1>27, <1>28, <1>29, Zenon

\* The literals of the continuations of one or two targets, and their choice.
HandedNodes(d, targets, condition) ==
    IF Len(targets) = 1
    THEN <<Lit(0), Lit(0)>>
    ELSE <<Lit(0), Lit(0), Lit(0), Lit(0), Sel(condition, IdAt(d, 0), IdAt(d, 1)),
           Sel(condition, IdAt(d, 2), IdAt(d, 3))>>

\* The number of literals.
Literals(targets) == 2 * Len(targets)

\* Handing over leaves a draft, of the same island.
LEMMA HandedIsDraft ==
    ASSUME NEW d, IsDraft(d), DOMAIN d = DraftFields, NEW targets, NEW condition
    PROVE  LET e == ContinuationEmitted(d, targets, condition)
           IN  /\ IsDraft(e) /\ DOMAIN e = DraftFields /\ (~ e.overflowed => ~ d.overflowed)
               /\ SameNames(d, e)
<1>1. ContinuationEmitted(d, targets, condition) = Emit(d, HandedNodes(d, targets, condition))
  BY Zenon DEF ContinuationEmitted, HandedNodes
<1> QED
  BY <1>1, EmitIsDraft, EmitFits, EmitSameNames, Zenon

\* Two words of zero.
LEMMA TwoLiterals ==
    ASSUME NEW base \in Nat, NEW carriers, NEW nodes, nodes = <<Lit(0), Lit(0)>>
    PROVE  /\ GoodNodes(nodes, base, carriers) /\ Len(nodes) = 2
           /\ \A k \in 0 .. 1 : nodes[k + 1].kind = "Literal"
<1>1. GoodNode(Lit(0), base + 1, carriers) /\ GoodNode(Lit(0), base + 2, carriers)
  <2>1. base + 1 \in Nat /\ base + 2 \in Nat
    OBVIOUS
  <2> QED
    BY <2>1, ZeroIsWord, LiteralIsGood
<1>2. Lit(0).kind = "Literal"
  BY DEF Lit
<1>3. PICK l : l = Lit(0)
  OBVIOUS
<1>4. nodes = <<l, l>>
  BY <1>3, Zenon
<1>5. \A k \in 0 .. 1 : nodes[k + 1] = l
  BY <1>4
<1> QED
  BY <1>1, <1>2, <1>3, <1>4, <1>5, TwoNodes, Zenon

\* Four words of zero, and two choices.
LEMMA FourLiterals ==
    ASSUME NEW base \in Nat, NEW carriers, NEW condition \in 0 .. (base - 1), NEW nodes,
           nodes = <<Lit(0), Lit(0), Lit(0), Lit(0), Sel(condition, base, base + 1),
                     Sel(condition, base + 2, base + 3)>>
    PROVE  /\ GoodNodes(nodes, base, carriers) /\ Len(nodes) = 6
           /\ \A k \in 0 .. 3 : nodes[k + 1].kind = "Literal"
<1>1. /\ base + 1 \in Nat /\ base + 2 \in Nat /\ base + 3 \in Nat /\ base + 4 \in Nat
      /\ base + 5 \in Nat /\ base + 6 \in Nat
  OBVIOUS
<1>2. PICK l : l = Lit(0)
  OBVIOUS
<1>3. /\ GoodNode(l, base + 1, carriers) /\ GoodNode(l, base + 2, carriers)
      /\ GoodNode(l, base + 3, carriers) /\ GoodNode(l, base + 4, carriers)
  BY <1>1, <1>2, ZeroIsWord, LiteralIsGood
<1>4. l.kind = "Literal"
  BY <1>2 DEF Lit
<1>5. PICK lane : lane = Sel(condition, base, base + 1)
  OBVIOUS
<1>6. PICK proof : proof = Sel(condition, base + 2, base + 3)
  OBVIOUS
<1>7. condition \in Nat
  OBVIOUS
<1>8. GoodNode(lane, base + 5, carriers)
  <2>1. /\ condition < (base + 5) - 1 /\ base < (base + 5) - 1 /\ base + 1 < (base + 5) - 1
    OBVIOUS
  <2> QED
    BY <1>1, <1>5, <1>7, <2>1, SelectIsGood
<1>9. GoodNode(proof, base + 6, carriers)
  <2>1. /\ condition < (base + 6) - 1 /\ base + 2 < (base + 6) - 1 /\ base + 3 < (base + 6) - 1
    OBVIOUS
  <2> QED
    BY <1>1, <1>6, <1>7, <2>1, SelectIsGood
<1>10. nodes = <<l, l, l, l, lane, proof>>
  BY <1>2, <1>5, <1>6, Zenon
<1>11. GoodNodes(nodes, base, carriers) /\ Len(nodes) = 6
  BY <1>3, <1>8, <1>9, <1>10, SixNodes
<1>12. \A k \in 0 .. 3 : nodes[k + 1] = l
  BY <1>10
<1> QED
  BY <1>4, <1>11, <1>12, Zenon

\* The end of two sequences in one is the second.
LEMMA EndsWith ==
    ASSUME NEW s, IsSequence(s), NEW t, IsSequence(t)
    PROVE  \A k \in 1 .. Len(t) : (s \o t)[Len(s) + k] = t[k]
<1>1. PICK T : s \in Seq(T) /\ t \in Seq(T)
  <2> DEFINE T == {s[i] : i \in DOMAIN s} \cup {t[i] : i \in DOMAIN t}
  <2>1. s \in Seq(T) /\ t \in Seq(T)
    BY DEF IsSequence
  <2> QED
    BY <2>1, Zenon
<1> QED
  BY <1>1, Concatenated

\* Handing over leaves a good draft, and the literals are where they are patched.
LEMMA HandedIsGood ==
    ASSUME NEW d, IsDraft(d), NEW carriers, Good(d, carriers),
           NEW targets, Len(targets) \in {1, 2}, NEW condition,
           Len(targets) # 1 => NodeOf(d, condition),
           ~ ContinuationEmitted(d, targets, condition).overflowed
    PROVE  LET e == ContinuationEmitted(d, targets, condition)
           IN  /\ Good(e, carriers) /\ Extends(d, e) /\ e.carrier_writes = d.carrier_writes
               /\ NodeOf(e, IdAt(d, ContinuationAt(targets)))
               /\ NodeOf(e, IdAt(d, ContinuationAt(targets) + 1))
               /\ \A k \in 0 .. (Literals(targets) - 1) :
                      /\ IdAt(d, k) = Len(d.nodes) + k /\ NodeOf(e, IdAt(d, k))
                      /\ e.nodes[IdAt(d, k) + 1].kind = "Literal"
<1>1. PICK nodes : nodes = HandedNodes(d, targets, condition)
  OBVIOUS
<1>2. PICK e : e = Emit(d, nodes)
  OBVIOUS
<1>3. e = ContinuationEmitted(d, targets, condition)
  BY <1>1, <1>2, Zenon DEF ContinuationEmitted, HandedNodes
<1>4. ~ Emit(d, nodes).overflowed
  BY <1>2, <1>3, Zenon
<1>5. PICK base : base = Len(d.nodes)
  OBVIOUS
<1>6. base \in Nat
  BY <1>5, AppendIsSequence DEF Good, GoodNodes
<1>7. PICK count : count = Len(targets)
  OBVIOUS
<1>8. PICK size : size = Len(nodes)
  OBVIOUS
<1>9. /\ count = 1 => nodes = <<Lit(0), Lit(0)>>
      /\ count # 1 => nodes = <<Lit(0), Lit(0), Lit(0), Lit(0),
                                Sel(condition, IdAt(d, 0), IdAt(d, 1)),
                                Sel(condition, IdAt(d, 2), IdAt(d, 3))>>
  BY <1>1, <1>7, Zenon DEF HandedNodes
<1>10. (count = 1 => size = 2) /\ (count # 1 => size = 6)
  <2>1. \A x, y : Len(<<x, y>>) = 2
    OBVIOUS
  <2>2. \A u, v, w, x, y, z : Len(<<u, v, w, x, y, z>>) = 6
    OBVIOUS
  <2> QED
    BY <1>8, <1>9, <2>1, <2>2, Zenon
<1>11. \A k \in 0 .. (size - 1) : IdAt(d, k) = base + k
  <2>1. Len(nodes) <= MaxNodeId - Len(d.nodes)
    BY <1>4, EmitFits, Zenon
  <2>2. size \in Nat
    BY <1>10
  <2> QED
    BY <1>5, <1>6, <1>8, <2>1, <2>2, IdAtIs
<1>12. /\ GoodNodes(nodes, base, carriers)
       /\ \A k \in 0 .. (2 * count - 1) : nodes[k + 1].kind = "Literal"
  <2>1. CASE count = 1
    <3>1. /\ GoodNodes(nodes, base, carriers)
          /\ \A k \in 0 .. 1 : nodes[k + 1].kind = "Literal"
      BY <1>6, <1>9, <2>1, TwoLiterals, Zenon
    <3>2. 0 .. (2 * count - 1) = 0 .. 1
      BY <2>1
    <3> QED
      BY <3>1, <3>2, Zenon
  <2>2. CASE count # 1
    <3>1. IdAt(d, 0) = base /\ IdAt(d, 1) = base + 1 /\ IdAt(d, 2) = base + 2 /\ IdAt(d, 3) = base + 3
      BY <1>6, <1>10, <1>11, <2>2
    <3>2. nodes = <<Lit(0), Lit(0), Lit(0), Lit(0), Sel(condition, base, base + 1),
                    Sel(condition, base + 2, base + 3)>>
      BY <1>9, <2>2, <3>1, Zenon
    <3>3. condition \in 0 .. (base - 1)
      BY <1>5, <1>7, <2>2, Zenon DEF NodeOf
    <3>4. /\ GoodNodes(nodes, base, carriers)
          /\ \A k \in 0 .. 3 : nodes[k + 1].kind = "Literal"
      BY <1>6, <3>2, <3>3, FourLiterals, Zenon
    <3>5. 0 .. (2 * count - 1) = 0 .. 3
      BY <1>7, <2>2
    <3> QED
      BY <3>4, <3>5, Zenon
  <2> QED
    BY <2>1, <2>2
<1>13. IsSequence(nodes) /\ IsSequence(d.nodes)
  BY <1>12, Zenon DEF GoodNodes, Good
<1>14. /\ Good(e, carriers) /\ Len(e.nodes) = base + size
       /\ e.carrier_writes = d.carrier_writes
  <2>1. GoodNodes(nodes, Len(d.nodes), carriers)
    BY <1>5, <1>12, Zenon
  <2>2. /\ Good(e, carriers) /\ Len(e.nodes) = Len(d.nodes) + Len(nodes)
        /\ e.carrier_writes = d.carrier_writes
    BY <1>2, <1>4, <2>1, EmitIsGood, Zenon
  <2> QED
    BY <1>5, <1>8, <2>2, Zenon
<1>15. Extends(d, e)
  BY <1>2, <1>4, <1>13, EmitExtends, Zenon
<1>16. \A k \in 0 .. (size - 1) : NodeOf(e, IdAt(d, k))
  BY <1>6, <1>10, <1>11, <1>14 DEF NodeOf
<1>17. ContinuationAt(targets) \in 0 .. (size - 1) /\ ContinuationAt(targets) + 1 \in 0 .. (size - 1)
  BY <1>7, <1>10 DEF ContinuationAt
<1>18. 2 * count - 1 <= size - 1 /\ 2 * count - 1 \in Nat
  BY <1>7, <1>10
<1>19. ASSUME NEW k \in 0 .. (2 * count - 1)
       PROVE  /\ IdAt(d, k) = Len(d.nodes) + k /\ NodeOf(e, IdAt(d, k))
              /\ e.nodes[IdAt(d, k) + 1].kind = "Literal"
  <2>1. k \in 0 .. (size - 1)
    BY <1>10, <1>18
  <2>2. IdAt(d, k) = base + k /\ NodeOf(e, IdAt(d, k))
    BY <1>11, <1>16, <2>1, Zenon
  <2>3. e.nodes[IdAt(d, k) + 1] = nodes[k + 1]
    <3>1. e = WithNodes(d, d.nodes \o nodes)
      BY <1>2, <1>4, EmitFits, Zenon
    <3>2. PICK more : more = d.nodes \o nodes
      OBVIOUS
    <3>3. e.nodes = more
      <4>1. WithNodes(d, more).nodes = more
        BY NodesChanged
      <4> QED
        BY <3>1, <3>2, <4>1, Zenon
    <3>5. \A n \in 1 .. size : more[base + n] = nodes[n]
      <4>1. \A n \in 1 .. Len(nodes) : (d.nodes \o nodes)[Len(d.nodes) + n] = nodes[n]
        BY <1>13, EndsWith
      <4> QED
        BY <1>5, <1>8, <3>2, <4>1, Zenon
    <3>6. k + 1 \in 1 .. size /\ (base + k) + 1 = base + (k + 1)
      BY <1>6, <1>10, <2>1
    <3>7. more[base + (k + 1)] = nodes[k + 1]
      BY <3>5, <3>6, Zenon
    <3>8. IdAt(d, k) + 1 = base + (k + 1)
      BY <2>2, <3>6, Zenon
    <3> QED
      BY <3>3, <3>7, <3>8, Zenon
  <2> QED
    BY <1>5, <1>12, <2>2, <2>3, Zenon
<1> QED
  BY <1>3, <1>7, <1>14, <1>15, <1>16, <1>17, <1>19, Zenon DEF Literals

\* The end of an island, step by step (FinishIsland).
Handed(d, state, origin, salts, targets, condition) ==
    ContinuationEmitted(Advanced(d, state, origin, salts), targets, condition)

Finished(d, state, origin, salts, targets, condition) ==
    StageContinuation(ReturnStaged(Handed(d, state, origin, salts, targets, condition),
                                   IdAt(d, 0), IdAt(d, 1)),
                      IdAt(Advanced(d, state, origin, salts), ContinuationAt(targets)),
                      IdAt(Advanced(d, state, origin, salts), ContinuationAt(targets) + 1),
                      IdAt(d, 0), IdAt(d, 1), CompilerSalt(origin, salts.continuation))

\* Staging the result leaves a draft.
LEMMA ReturnStagedIsDraft ==
    ASSUME NEW d, IsDraft(d), NEW semantic, NEW history
    PROVE  LET e == ReturnStaged(d, semantic, history)
           IN  IsDraft(e) /\ DOMAIN e = DOMAIN d /\ (~ e.overflowed => ~ d.overflowed)
<1>1. CASE IsBlock /\ Block.terminator.kind = "Return"
  <2>1. PICK value, salt :
            ReturnStaged(d, semantic, history)
                = StageWrite(d, return_value, value, semantic, history, salt)
    BY <1>1, Zenon DEF ReturnStaged
  <2> QED
    BY <2>1, StageWriteIsDraft
<1>2. CASE ~ (IsBlock /\ Block.terminator.kind = "Return")
  BY <1>2, Zenon DEF ReturnStaged
<1> QED
  BY <1>1, <1>2

\* Staging the result leaves a good draft.
LEMMA ReturnStagedIsGood ==
    ASSUME NEW d, IsDraft(d), NEW carriers \in 0 .. MaxCarriers, kFirstAllocatedCarrier <= carriers,
           Good(d, carriers), NEW semantic, NodeOf(d, semantic), NEW history, NodeOf(d, history),
           IsBlock /\ Block.terminator.kind = "Return" =>
               /\ NodeOf(d, draft.bindings[Block.terminator.value])
               /\ Block.origin \in 0 .. MaxOrigin,
           CarriersWritten(d.carrier_writes) \cap Span(6) = {},
           ~ ReturnStaged(d, semantic, history).overflowed
    PROVE  LET e == ReturnStaged(d, semantic, history)
           IN  /\ Good(e, carriers) /\ Extends(d, e)
               /\ CarriersWritten(e.carrier_writes)
                      \in {CarriersWritten(d.carrier_writes),
                           CarriersWritten(d.carrier_writes) \cup Span(6)}
<1>1. CASE IsBlock /\ Block.terminator.kind = "Return"
  <2>1. PICK value : value = draft.bindings[Block.terminator.value]
    OBVIOUS
  <2>2. PICK salt : salt = CompilerSalt(Block.origin, "RETURN")
    OBVIOUS
  <2>3. PICK e : e = StageWrite(d, return_value, value, semantic, history, salt)
    OBVIOUS
  <2>4. e = ReturnStaged(d, semantic, history)
    BY <1>1, <2>1, <2>2, <2>3, Zenon DEF ReturnStaged
  <2>5. salt \in Word
    <3>1. "RETURN" \in SaltNames
      BY DEF SaltNames
    <3> QED
      BY <1>1, <2>2, <3>1, CompilerSaltIsWord, Zenon
  <2>6. 6 \in Nat /\ 6 + 3 <= carriers /\ Stored(return_value, 6)
    <3>1. Stored(return_value, 6)
      BY FixedStored DEF return_value, kReturnValueCarrier
    <3> QED
      BY <3>1 DEF kFirstAllocatedCarrier
  <2>7. Stageable(d, carriers, return_value, 6, value, semantic, history, salt)
    BY <1>1, <2>1, <2>5, <2>6, Zenon DEF Stageable
  <2>8. ~ StageWrite(d, return_value, value, semantic, history, salt).overflowed
    BY <2>3, <2>4, Zenon
  <2>9. Staged(d, e, carriers, 6) /\ Extends(d, e)
    BY <2>3, <2>7, <2>8, StageWriteStages, StagedExtends
  <2> QED
    BY <2>4, <2>9, Zenon DEF Staged
<1>2. CASE ~ (IsBlock /\ Block.terminator.kind = "Return")
  <2>1. ReturnStaged(d, semantic, history) = d
    BY <1>2, Zenon DEF ReturnStaged
  <2>2. Len(d.nodes) \in Nat /\ Len(d.nodes) <= Len(d.nodes)
    BY AppendIsSequence DEF Good, GoodNodes
  <2>3. Extends(d, d)
    BY <2>2, Zenon DEF Extends
  <2> QED
    BY <2>1, <2>3, Zenon
<1> QED
  BY <1>1, <1>2

\* Staging the continuation goes on from a draft.
LEMMA StageContinuationExtends ==
    ASSUME NEW d, IsDraft(d), IsSequence(d.nodes), NEW lane, NEW proof, NEW semantic,
           NEW history, NEW salt,
           ~ StageContinuation(d, lane, proof, semantic, history, salt).overflowed
    PROVE  Extends(d, StageContinuation(d, lane, proof, semantic, history, salt))
<1>1. PICK lane_salt : lane_salt = Xor(salt, Tag("lane shares"))
  OBVIOUS
<1>2. PICK proof_salt : proof_salt = Xor(salt, Tag("proof shares"))
  OBVIOUS
<1>3. PICK first : first = StageWrite(d, continuation_lane, lane, semantic, history, lane_salt)
  OBVIOUS
<1>4. PICK e : e = StageWrite(first, continuation_proof, proof, history, semantic, proof_salt)
  OBVIOUS
<1>5. e = StageContinuation(d, lane, proof, semantic, history, salt)
  BY <1>1, <1>2, <1>3, <1>4, Zenon DEF StageContinuation
<1>6. IsDraft(first)
  BY <1>3, StageWriteIsDraft
<1>7. ~ first.overflowed /\ ~ e.overflowed
  <2>1. ~ e.overflowed
    BY <1>5, Zenon
  <2> QED
    BY <1>4, <1>6, <2>1, StageWriteIsDraft
<1>8. Extends(d, first)
  BY <1>3, <1>7, StageWriteExtends
<1>9. IsSequence(first.nodes)
  <2>1. PICK nodes : nodes = StageNodes(d, continuation_lane, lane, semantic, history, lane_salt)
    OBVIOUS
  <2>2. PICK emitted : emitted = Emit(d, nodes)
    OBVIOUS
  <2>3. PICK writes : first = WithWrites(emitted, writes)
    BY <1>3, <2>1, <2>2, StageWriteIs
  <2>4. IsDraft(emitted)
    BY <2>2, EmitIsDraft
  <2>5. first.nodes = emitted.nodes /\ first.overflowed = emitted.overflowed
    BY <2>3, <2>4, WritesChanged
  <2>6. ~ Emit(d, nodes).overflowed
    BY <1>7, <2>2, <2>5, Zenon
  <2>7. emitted = WithNodes(d, d.nodes \o nodes)
    BY <2>2, <2>6, EmitFits, Zenon
  <2>8. PICK more : more = d.nodes \o nodes
    OBVIOUS
  <2>9. WithNodes(d, more).nodes = more
    BY NodesChanged
  <2>10. IsSequence(nodes)
    BY <2>1, StageNodesCount
  <2>11. IsSequence(more)
    BY <2>8, <2>10, ConcatenationIsSequence
  <2> QED
    BY <2>5, <2>7, <2>8, <2>9, <2>11, Zenon
<1>10. Extends(first, e)
  BY <1>4, <1>6, <1>7, <1>9, StageWriteExtends
<1> QED
  BY <1>5, <1>8, <1>10, ExtendsFurther, Zenon

\* Whatever the island ends with, it does not overflow and have room again.
LEMMA FinishedIsDraft ==
    ASSUME NEW d, IsDraft(d), DOMAIN d = DraftFields, NEW state, NEW origin, NEW salts,
           NEW targets, NEW condition,
           ~ Finished(d, state, origin, salts, targets, condition).overflowed
    PROVE  /\ ~ d.overflowed
           /\ ~ Advanced(d, state, origin, salts).overflowed
           /\ ~ Handed(d, state, origin, salts, targets, condition).overflowed
           /\ ~ ReturnStaged(Handed(d, state, origin, salts, targets, condition),
                             IdAt(d, 0), IdAt(d, 1)).overflowed
<1>1. PICK advanced : advanced = Advanced(d, state, origin, salts)
  OBVIOUS
<1>2. PICK handed : handed = ContinuationEmitted(advanced, targets, condition)
  OBVIOUS
<1>3. PICK staged : staged = ReturnStaged(handed, IdAt(d, 0), IdAt(d, 1))
  OBVIOUS
<1>4. handed = Handed(d, state, origin, salts, targets, condition)
  BY <1>1, <1>2, Zenon DEF Handed
<1>5. PICK lane, proof, salt :
          Finished(d, state, origin, salts, targets, condition)
              = StageContinuation(staged, lane, proof, IdAt(d, 0), IdAt(d, 1), salt)
  BY <1>3, <1>4, Zenon DEF Finished
<1>6. IsDraft(advanced) /\ DOMAIN advanced = DraftFields
      /\ (~ advanced.overflowed => ~ d.overflowed)
  BY <1>1, AdvancedIsDraft
<1>7. IsDraft(handed) /\ (~ handed.overflowed => ~ advanced.overflowed)
  BY <1>2, <1>6, HandedIsDraft
<1>8. IsDraft(staged) /\ (~ staged.overflowed => ~ handed.overflowed)
  BY <1>3, <1>7, ReturnStagedIsDraft
<1>9. ~ staged.overflowed
  BY <1>5, <1>8, StageContinuationIsDraft
<1> QED
  BY <1>1, <1>3, <1>4, <1>6, <1>7, <1>8, <1>9, Zenon

\* The state an island ends with: in carriers above the ABI's, not written yet.
Ending(d, state, s, h, carriers) ==
    /\ Placed(state.semantic, s, carriers) /\ Placed(state.history, h, carriers)
    /\ Span(s) \cap Span(h) = {}
    /\ CarriersWritten(d.carrier_writes) \cap (Span(s) \cup Span(h)) = {}
    /\ (CarriersWritten(d.carrier_writes) \cup (Span(s) \cup Span(h))) \cap (0 .. 31) = {}

\* The nodes that a draft's terminator names are nodes it has.
Ends(d, targets, condition) ==
    /\ Len(targets) \in {1, 2}
    /\ Len(targets) # 1 => NodeOf(d, condition)
    /\ IsBlock /\ Block.terminator.kind = "Return" =>
           /\ NodeOf(d, draft.bindings[Block.terminator.value])
           /\ Block.origin \in 0 .. MaxOrigin

\* A draft all of whose items are emitted, and what it ends as.
Finishable(d, carriers, state, s, h, targets, condition) ==
    /\ IsDraft(d) /\ DOMAIN d = DraftFields /\ carriers \in 0 .. MaxCarriers
    /\ kFirstAllocatedCarrier <= carriers /\ Good(d, carriers) /\ Names(d)
    /\ Ending(d, state, s, h, carriers) /\ Ends(d, targets, condition)

EndsWell(e, advanced, d, carriers, s, h, targets) ==
    /\ Good(e, carriers)
    /\ 0 .. 5 \subseteq CarriersWritten(e.carrier_writes)
    /\ CarriersWritten(e.carrier_writes)
           \subseteq CarriersWritten(d.carrier_writes) \cup (Span(s) \cup Span(h)) \cup (0 .. 8)
    /\ Len(advanced.nodes) \in Nat
    /\ \A k \in 0 .. (Literals(targets) - 1) :
           /\ IdAt(advanced, k) = Len(advanced.nodes) + k /\ NodeOf(e, IdAt(advanced, k))
           /\ e.nodes[IdAt(advanced, k) + 1].kind = "Literal"

\* A finished draft is good, writes the continuation, and writes of the ABI only it and
\* the result; its placeholders are literals.
LEMMA FinishedIsGood ==
    ASSUME NEW d, NEW carriers, NEW state, NEW s, NEW h, NEW targets, NEW condition,
           Finishable(d, carriers, state, s, h, targets, condition),
           NEW origin \in 0 .. MaxOrigin, NEW salts \in {BlockSalts, EdgeSalts},
           ~ Finished(d, state, origin, salts, targets, condition).overflowed
    PROVE  EndsWell(Finished(d, state, origin, salts, targets, condition),
                    Advanced(d, state, origin, salts), d, carriers, s, h, targets)
<1> SUFFICES ASSUME IsDraft(d), DOMAIN d = DraftFields, carriers \in 0 .. MaxCarriers,
                    kFirstAllocatedCarrier <= carriers, Good(d, carriers), Names(d),
                    Ending(d, state, s, h, carriers), Ends(d, targets, condition)
             PROVE  EndsWell(Finished(d, state, origin, salts, targets, condition),
                             Advanced(d, state, origin, salts), d, carriers, s, h, targets)
  BY Zenon DEF Finishable
<1>1. PICK advanced : advanced = Advanced(d, state, origin, salts)
  OBVIOUS
<1>2. PICK handed : handed = ContinuationEmitted(advanced, targets, condition)
  OBVIOUS
<1>3. PICK semantic : semantic = IdAt(d, 0)
  OBVIOUS
<1>4. PICK history : history = IdAt(d, 1)
  OBVIOUS
<1>5. PICK staged : staged = ReturnStaged(handed, semantic, history)
  OBVIOUS
<1>6. handed = Handed(d, state, origin, salts, targets, condition)
  BY <1>1, <1>2, Zenon DEF Handed
<1>7. PICK lane : lane = IdAt(advanced, ContinuationAt(targets))
  OBVIOUS
<1>8. PICK proof : proof = IdAt(advanced, ContinuationAt(targets) + 1)
  OBVIOUS
<1>9. PICK salt : salt = CompilerSalt(origin, salts.continuation)
  OBVIOUS
<1>10. salt \in Word
  BY <1>9, SaltsAreNamed, CompilerSaltIsWord, Zenon
<1>11. PICK e : e = StageContinuation(staged, lane, proof, semantic, history, salt)
  OBVIOUS
<1>12. e = Finished(d, state, origin, salts, targets, condition)
  BY <1>1, <1>3, <1>4, <1>5, <1>6, <1>7, <1>8, <1>9, <1>11, Zenon DEF Finished
<1>13. ~ advanced.overflowed /\ ~ handed.overflowed /\ ~ staged.overflowed /\ ~ e.overflowed
  <2>1. /\ ~ Advanced(d, state, origin, salts).overflowed
        /\ ~ Handed(d, state, origin, salts, targets, condition).overflowed
        /\ ~ ReturnStaged(Handed(d, state, origin, salts, targets, condition),
                          IdAt(d, 0), IdAt(d, 1)).overflowed
    BY FinishedIsDraft
  <2> QED
    BY <1>1, <1>3, <1>4, <1>5, <1>6, <1>12, <2>1, Zenon
<1>14. IsDraft(advanced) /\ DOMAIN advanced = DraftFields
  BY <1>1, AdvancedIsDraft
<1>15. IsDraft(handed)
  BY <1>2, <1>14, HandedIsDraft
<1>16. IsDraft(staged)
  BY <1>5, <1>15, ReturnStagedIsDraft
<1>17. PICK written : written = CarriersWritten(d.carrier_writes)
  OBVIOUS
<1>18. PICK places : places = Span(s) \cup Span(h)
  OBVIOUS
<1>19. /\ Placed(state.semantic, s, carriers) /\ Placed(state.history, h, carriers)
       /\ Span(s) \cap Span(h) = {}
       /\ written \cap places = {} /\ (written \cup places) \cap (0 .. 31) = {}
  BY <1>17, <1>18, Zenon DEF Ending
<1>20. /\ Good(advanced, carriers) /\ Extends(d, advanced)
       /\ NodeOf(advanced, semantic) /\ NodeOf(advanced, history)
       /\ CarriersWritten(advanced.carrier_writes) = written \cup places
  <2>1. CarriersWritten(d.carrier_writes) \cap (Span(s) \cup Span(h)) = {}
    BY <1>17, <1>18, <1>19, Zenon
  <2>2. ~ Advanced(d, state, origin, salts).overflowed
    BY <1>1, <1>13, Zenon
  <2>3. LET f == Advanced(d, state, origin, salts)
        IN  /\ Good(f, carriers) /\ Extends(d, f)
            /\ NodeOf(f, IdAt(d, 0)) /\ NodeOf(f, IdAt(d, 1))
            /\ CarriersWritten(f.carrier_writes)
                   = CarriersWritten(d.carrier_writes) \cup (Span(s) \cup Span(h))
    BY <1>19, <2>1, <2>2, AdvancedIsGood
  <2> QED
    BY <1>1, <1>3, <1>4, <1>17, <1>18, <2>3, Zenon
<1>21. /\ Good(handed, carriers) /\ Extends(advanced, handed)
       /\ handed.carrier_writes = advanced.carrier_writes
       /\ NodeOf(handed, lane) /\ NodeOf(handed, proof)
       /\ \A k \in 0 .. (Literals(targets) - 1) :
              /\ IdAt(advanced, k) = Len(advanced.nodes) + k /\ NodeOf(handed, IdAt(advanced, k))
              /\ handed.nodes[IdAt(advanced, k) + 1].kind = "Literal"
  <2>1. Len(targets) \in {1, 2}
    BY Zenon DEF Ends
  <2>2. Len(targets) # 1 => NodeOf(advanced, condition)
    BY <1>20, ExtendsNodes, Zenon DEF Ends
  <2>3. ~ ContinuationEmitted(advanced, targets, condition).overflowed
    BY <1>2, <1>13, Zenon
  <2>4. LET f == ContinuationEmitted(advanced, targets, condition)
        IN  /\ Good(f, carriers) /\ Extends(advanced, f)
            /\ f.carrier_writes = advanced.carrier_writes
            /\ NodeOf(f, IdAt(advanced, ContinuationAt(targets)))
            /\ NodeOf(f, IdAt(advanced, ContinuationAt(targets) + 1))
            /\ \A k \in 0 .. (Literals(targets) - 1) :
                   /\ IdAt(advanced, k) = Len(advanced.nodes) + k /\ NodeOf(f, IdAt(advanced, k))
                   /\ f.nodes[IdAt(advanced, k) + 1].kind = "Literal"
    BY <1>14, <1>20, <2>1, <2>2, <2>3, HandedIsGood
  <2> QED
    BY <1>2, <1>7, <1>8, <2>4, Zenon
<1>22. CarriersWritten(handed.carrier_writes) = written \cup places
  BY <1>20, <1>21, Zenon
<1>23. NodeOf(handed, semantic) /\ NodeOf(handed, history)
  BY <1>20, <1>21, ExtendsNodes, Zenon
<1>24. PICK now : now = CarriersWritten(staged.carrier_writes)
  OBVIOUS
<1>25. /\ Good(staged, carriers) /\ Extends(handed, staged)
       /\ now \in {written \cup places, (written \cup places) \cup Span(6)}
  <2>1. IsBlock /\ Block.terminator.kind = "Return" =>
            /\ NodeOf(handed, draft.bindings[Block.terminator.value])
            /\ Block.origin \in 0 .. MaxOrigin
    <3>1. PICK value : value = draft.bindings[Block.terminator.value]
      OBVIOUS
    <3>2. ASSUME IsBlock, Block.terminator.kind = "Return"
          PROVE  NodeOf(handed, value) /\ Block.origin \in 0 .. MaxOrigin
      <4>1. NodeOf(d, value) /\ Block.origin \in 0 .. MaxOrigin
        BY <3>1, <3>2, Zenon DEF Ends
      <4>2. NodeOf(advanced, value)
        BY <1>20, <4>1, ExtendsNodes, Zenon
      <4> QED
        BY <1>21, <4>1, <4>2, ExtendsNodes, Zenon
    <3> QED
      BY <3>1, <3>2, Zenon
  <2>2. CarriersWritten(handed.carrier_writes) \cap Span(6) = {}
    <3>1. Span(6) \subseteq 0 .. 31
      BY DEF Span
    <3> QED
      BY <1>19, <1>22, <3>1
  <2>3. ~ ReturnStaged(handed, semantic, history).overflowed
    BY <1>5, <1>13, Zenon
  <2>4. LET f == ReturnStaged(handed, semantic, history)
        IN  /\ Good(f, carriers) /\ Extends(handed, f)
            /\ CarriersWritten(f.carrier_writes)
                   \in {CarriersWritten(handed.carrier_writes),
                        CarriersWritten(handed.carrier_writes) \cup Span(6)}
    BY <1>15, <1>21, <1>23, <2>1, <2>2, <2>3, ReturnStagedIsGood
  <2> QED
    BY <1>5, <1>22, <1>24, <2>4, Zenon
<1>26. /\ NodeOf(staged, lane) /\ NodeOf(staged, proof)
       /\ NodeOf(staged, semantic) /\ NodeOf(staged, history)
  BY <1>21, <1>23, <1>25, ExtendsNodes, Zenon
<1>27. now \cap (0 .. 5) = {} /\ now \subseteq (written \cup places) \cup (0 .. 8)
  <2>1. Span(6) \cap (0 .. 5) = {} /\ Span(6) \subseteq 0 .. 8 /\ 0 .. 5 \subseteq 0 .. 31
    BY DEF Span
  <2> QED
    BY <1>19, <1>25, <2>1
<1>28. /\ Good(e, carriers)
       /\ CarriersWritten(e.carrier_writes) = now \cup (0 .. 5)
  <2>1. 6 <= carriers
    BY DEF kFirstAllocatedCarrier
  <2>2. ~ StageContinuation(staged, lane, proof, semantic, history, salt).overflowed
    BY <1>11, <1>13, Zenon
  <2>3. CarriersWritten(staged.carrier_writes) \cap (0 .. 5) = {}
    BY <1>24, <1>27, Zenon
  <2>5. Good(staged, carriers)
    BY <1>25, Zenon
  <2>6. carriers \in 0 .. MaxCarriers
    OBVIOUS
  <2>7. Continues(staged, carriers, lane, proof, semantic, history, salt)
    BY <1>10, <1>16, <2>5, <2>6, <1>26, <2>1, <2>2, <2>3, Zenon DEF Continues
  <2>4. LET f == StageContinuation(staged, lane, proof, semantic, history, salt)
        IN  /\ Good(f, carriers)
            /\ CarriersWritten(f.carrier_writes)
                   = CarriersWritten(staged.carrier_writes) \cup (0 .. 5)
    BY <2>7, StageContinuationIsGood
  <2> QED
    BY <1>11, <1>24, <2>4, Zenon
<1>29. /\ 0 .. 5 \subseteq CarriersWritten(e.carrier_writes)
       /\ CarriersWritten(e.carrier_writes) \subseteq (written \cup places) \cup (0 .. 8)
  <2>1. 0 .. 5 \subseteq 0 .. 8
    OBVIOUS
  <2> QED
    BY <1>27, <1>28, <2>1
<1>30. Extends(staged, e) /\ Extends(handed, e)
  <2>1. IsSequence(staged.nodes)
    BY <1>25, Zenon DEF Good, GoodNodes
  <2>2. ~ StageContinuation(staged, lane, proof, semantic, history, salt).overflowed
    BY <1>11, <1>13, Zenon
  <2>3. Extends(staged, e)
    BY <1>11, <1>16, <2>1, <2>2, StageContinuationExtends
  <2> QED
    BY <1>25, <2>3, ExtendsFurther, Zenon
<1>31. ASSUME NEW k \in 0 .. (Literals(targets) - 1)
       PROVE  /\ IdAt(advanced, k) = Len(advanced.nodes) + k /\ NodeOf(e, IdAt(advanced, k))
              /\ e.nodes[IdAt(advanced, k) + 1].kind = "Literal"
  <2>1. PICK id : id = IdAt(advanced, k)
    OBVIOUS
  <2>2. /\ id = Len(advanced.nodes) + k /\ NodeOf(handed, id)
        /\ handed.nodes[id + 1].kind = "Literal"
    BY <1>21, <2>1, Zenon
  <2>3. NodeOf(e, id)
    BY <1>30, <2>2, ExtendsNodes, ZenonT(40)
  <2>4. id + 1 \in 1 .. Len(handed.nodes)
    <3>1. Len(handed.nodes) \in Nat /\ id \in 0 .. (Len(handed.nodes) - 1)
      BY <1>30, <2>2, Zenon DEF Extends, NodeOf
    <3> QED
      BY <3>1
  <2>5. e.nodes[id + 1] = handed.nodes[id + 1]
    BY <1>30, <2>4, Zenon DEF Extends
  <2> QED
    BY <2>1, <2>2, <2>3, <2>5, Zenon
<1>32. Len(advanced.nodes) \in Nat
  BY <1>20, Zenon DEF Extends
<1> QED
  BY <1>1, <1>12, <1>17, <1>18, <1>28, <1>29, <1>31, <1>32, Zenon DEF EndsWell
=============================================================================
