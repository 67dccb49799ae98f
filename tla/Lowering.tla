------------------------------- MODULE Lowering -------------------------------
(***************************************************************************)
(* compile_machine_ir up to the layout (compiler.cpp): the function is     *)
(* verified, every value is given three carriers, every edge an origin and *)
(* an island of its own, every block a semantic and a history state, and   *)
(* then each block and each edge is emitted as a plan.  The islands of the *)
(* blocks come first, in order, then those of the edges.                   *)
(***************************************************************************)
EXTENDS MachineIR, PhysicalValues, PrimitivePlans

CONSTANTS
    Sources,     \* functions with a memory size and initial data
    MaxOrigin,   \* the largest OriginId
    MaxNodeId,   \* the largest NodeId, the number of nodes an island may have
    MaxCarriers  \* the allocator's limit

\* A function is any value of its type: that it is one the verifier accepts is
\* what compile_machine_ir finds out.
ASSUME SourcesAssumption ==
    \A called \in Sources :
        /\ called.function \in MachineFunction
        /\ \A n \in DOMAIN OriginsOf(called.function) :
               OriginsOf(called.function)[n] <= MaxOrigin

ASSUME LimitsAssumption == MaxOrigin \in Nat /\ MaxNodeId \in Nat /\ MaxCarriers \in Nat

\* NodeId is the format's sixteen-bit count.
ASSUME NodeIdAssumption == MaxNodeId <= kFormatCount

\* The constant of an action is a word.
ASSUME ConstantsAssumption ==
    \A called \in Sources :
        \A b \in DOMAIN called.function.blocks :
            \A n \in DOMAIN called.function.blocks[b].actions :
                called.function.blocks[b].actions[n].immediate \in Word

\* The names of the salts below.
SaltNames ==
    {"STORE", "VALUE", "ACTIONFOLD", "EDGEVAL", "EDGEFOLD", "RETURN",
     "SEMANTIC", "HISTORY", "SEMDSHR", "HISTSHR", "CONTINUE",
     "EDGESEM", "EDGEHIS", "ESEMSHR", "EHISSHR", "EDGECONT"}

\* Origins and carriers have fewer bits than a word, and arithmetic stays in words.
ASSUME WordsAssumption ==
    /\ Word \subseteq Nat /\ Seed \in Word
    /\ (0 .. MaxOrigin) \cup (0 .. MaxCarriers) \cup (0 .. kFirstAllocatedCarrier) \subseteq Word
    /\ \A name \in SaltNames \cup {"origin", "slot", "allocator", "compiler", "second",
                                    "lane shares", "proof shares"} : Tag(name) \in Word
    /\ \A a \in Word : MadeOdd(a) \in Word
    /\ \A a, b \in Word :
           /\ Add(a, b) \in Word /\ Sub(a, b) \in Word /\ Mul(a, b) \in Word
           /\ Xor(a, b) \in Word
           /\ MixWord(a, b, Tag("allocator")) \in Word
           /\ MixWord(a, b, Tag("compiler")) \in Word

VARIABLES
    source,       \* what compile_machine_ir was called with
    loop,         \* the loop reached: verify, values, edges, states, islands,
                  \* lowered; or refused, or threw when a lookup failed
    next_carrier, \* CarrierAllocator::next_
    allocated,    \* CarrierAllocator::allocated_
    values,       \* the physical values of the function's values, by their ids
    next_origin,  \* the next synthetic origin, 0 when there is none
    edges,        \* the EdgeBuilds so far
    states,       \* the IslandStates so far
    draft,        \* the island being emitted
    plans,        \* the islands emitted
    relocations   \* the continuation literals to be patched

loweringVars == <<source, loop, next_carrier, allocated, values, next_origin, edges, states,
                  draft, plans, relocations>>

function_ == source.function
Blocks == function_.blocks
BlockCount == Len(Blocks)

-----------------------------------------------------------------------------
(***************************************************************************)
(* PlanEmitter.  A draft has the nodes and writes of a plan, and whether   *)
(* an id was refused.                                                      *)
(***************************************************************************)

NoDraft == << >>
EmptyDraft == [nodes |-> << >>, carrier_writes |-> << >>, memory_writes |-> << >>,
               overflowed |-> FALSE]

\* The id of the k-th node emitted from here on, 0 once the ids are used up.
IdAt(d, k) == IF Len(d.nodes) + k < MaxNodeId THEN Len(d.nodes) + k ELSE 0

Emit(d, nodes) ==
    LET room == MaxNodeId - Len(d.nodes)
    IN  IF Len(nodes) <= room
        THEN [d EXCEPT !.nodes = @ \o nodes]
        ELSE [d EXCEPT !.nodes = @ \o SubSeq(nodes, 1, room), !.overflowed = TRUE]

\* reconstruct: five nodes for each share, two to join them.  The value is in
\* the last.
ReconstructedAt(d) == IdAt(d, 16)

Reconstruct(d, value) ==
    LET inverse(i) == InverseMap(value.shares[i].storage)
        share(i) == <<ReadC(value.shares[i].carrier),
                      Lit(inverse(i).multiplier),
                      Binary("Mul", IdAt(d, 5 * i - 5), IdAt(d, 5 * i - 4)),
                      Lit(inverse(i).addend),
                      Binary("Add", IdAt(d, 5 * i - 3), IdAt(d, 5 * i - 2))>>
        join == IF value.family = "Xor" THEN "Xor" ELSE "Add"
    IN  Emit(d, share(1) \o share(2) \o share(3)
                  \o <<Binary(join, IdAt(d, 4), IdAt(d, 9)),
                       Binary(join, IdAt(d, 15), IdAt(d, 14))>>)

\* stage_physical_write: two shares mixed from the state, the third what is left
\* of the logical value, each through the map of its carrier.
StageWrite(d, value, logical, semantic, history, salt) ==
    LET split == IF value.family = "Xor" THEN "Xor" ELSE "Sub"
        share == <<IdAt(d, 0), IdAt(d, 1), IdAt(d, 3)>>
        stored(i) == <<Lit(value.shares[i].storage.multiplier),
                       Binary("Mul", share[i], IdAt(d, 4 * i)),
                       Lit(value.shares[i].storage.addend),
                       Binary("Add", IdAt(d, 4 * i + 1), IdAt(d, 4 * i + 2))>>
        emitted == Emit(d, <<Mixed(semantic, history, salt),
                             Mixed(history, semantic, Xor(salt, Tag("second"))),
                             Binary(split, logical, IdAt(d, 0)),
                             Binary(split, IdAt(d, 2), IdAt(d, 1))>>
                               \o stored(1) \o stored(2) \o stored(3))
    IN  [emitted EXCEPT !.carrier_writes =
             @ \o [i \in 1 .. 3 |-> WriteC(value.shares[i].carrier, IdAt(d, 4 * i + 3))]]

continuation_lane == fixed_value("ContinuationLane", kContinuationLaneCarrier)
continuation_proof == fixed_value("ContinuationProof", kContinuationProofCarrier)
return_value == fixed_value("Integer", kReturnValueCarrier)

StageContinuation(d, lane, proof, semantic, history, salt) ==
    StageWrite(StageWrite(d, continuation_lane, lane, semantic, history,
                          Xor(salt, Tag("lane shares"))),
               continuation_proof, proof, history, semantic, Xor(salt, Tag("proof shares")))

-----------------------------------------------------------------------------
(***************************************************************************)
(* Verification, origins and carriers.                                     *)
(***************************************************************************)

LoweringInit ==
    /\ source \in Sources
    /\ loop = "verify"
    /\ next_carrier = kFirstAllocatedCarrier
    /\ allocated = << >>
    /\ values = << >>
    /\ next_origin = 0
    /\ edges = << >>
    /\ states = << >>
    /\ draft = NoDraft
    /\ plans = << >>
    /\ relocations = << >>

\* The three early returns that look at the input alone.
Admissible ==
    /\ Verified(function_)
    /\ Len(function_.argument_domains) <= kMaximumArguments
    /\ Len(source.initial_data) <= source.memory_size

MaximumOrigin ==
    LET origins == {OriginsOf(function_)[n] : n \in DOMAIN OriginsOf(function_)}
    IN  CHOOSE origin \in origins : \A other \in origins : other <= origin

Verify ==
    /\ loop = "verify"
    /\ IF Admissible /\ MaximumOrigin # MaxOrigin
       THEN loop' = "values" /\ next_origin' = MaximumOrigin + 1
       ELSE loop' = "refused" /\ UNCHANGED next_origin
    /\ UNCHANGED <<source, next_carrier, allocated, values, edges, states, draft, plans,
                   relocations>>

FunctionValues == AllValues(function_)

\* unordered_map::emplace: a key that is there already keeps its value.
Emplaced(map, key, value) ==
    [k \in DOMAIN map \cup {key} |-> IF k \in DOMAIN map THEN map[k] ELSE value]

AllocateValue ==
    /\ loop = "values"
    /\ Len(allocated) < Len(FunctionValues)
    /\ LET value == FunctionValues[Len(allocated) + 1]
           physical == Allocated(next_carrier, value.domain, value.origin)
       IN  IF HasRoom(next_carrier, MaxCarriers)
           THEN /\ allocated' = Append(allocated, physical)
                /\ values' = Emplaced(values, value.id, physical)
                /\ next_carrier' = next_carrier + kPhysicalShares
                /\ UNCHANGED loop
           ELSE loop' = "refused" /\ UNCHANGED <<next_carrier, allocated, values>>
    /\ UNCHANGED <<source, next_origin, edges, states, draft, plans, relocations>>

FinishValues ==
    /\ loop = "values"
    /\ Len(allocated) = Len(FunctionValues)
    /\ loop' = "edges"
    /\ UNCHANGED <<source, next_carrier, allocated, values, next_origin, edges, states, draft,
                   plans, relocations>>

\* Mutant: the origins start over at one.
OriginAfterFromOne(origin) == (origin % MaxOrigin) + 1

\* What ++ makes of an origin: it wraps, to 0.
OriginAfter(origin) == (origin + 1) % (MaxOrigin + 1)

\* The edges of the function with their source blocks, in order.
FunctionEdges ==
    Seqs!FlattenSeq([b \in 1 .. BlockCount |->
        [e \in 1 .. Len(EdgesOf(Blocks[b])) |->
            [source |-> b, target |-> EdgesOf(Blocks[b])[e].target,
             arguments |-> EdgesOf(Blocks[b])[e].arguments]]])

AddEdge ==
    /\ loop = "edges"
    /\ Len(edges) < Len(FunctionEdges)
    /\ LET edge == FunctionEdges[Len(edges) + 1]
       IN  IF next_origin = 0
           THEN loop' = "refused" /\ UNCHANGED <<edges, next_origin>>
           ELSE IF edge.target \notin BlockIds(function_)
           THEN loop' = "threw" /\ UNCHANGED <<edges, next_origin>>
           ELSE /\ edges' = Append(edges, [source |-> edge.source, target |-> edge.target,
                                           arguments |-> edge.arguments,
                                           origin |-> next_origin])
                /\ next_origin' = OriginAfter(next_origin)
                /\ UNCHANGED loop
    /\ UNCHANGED <<source, next_carrier, allocated, values, states, draft, plans, relocations>>

FinishEdges ==
    /\ loop = "edges"
    /\ Len(edges) = Len(FunctionEdges)
    /\ loop' = "states"
    /\ UNCHANGED <<source, next_carrier, allocated, values, next_origin, edges, states, draft,
                   plans, relocations>>

\* Both origins are taken before either is looked at, then both allocations are
\* made before either is looked at.
AddState ==
    /\ loop = "states"
    /\ Len(states) < BlockCount
    /\ LET second == OriginAfter(next_origin)
           semantic == Allocated(next_carrier, "Semantic", next_origin)
           history == Allocated(next_carrier + kPhysicalShares, "History", second)
       IN  IF /\ next_origin # 0 /\ second # 0
              /\ HasRoom(next_carrier + kPhysicalShares, MaxCarriers)
           THEN /\ states' = Append(states, [semantic |-> semantic, history |-> history])
                /\ allocated' = allocated \o <<semantic, history>>
                /\ next_carrier' = next_carrier + 2 * kPhysicalShares
                /\ next_origin' = OriginAfter(second)
                /\ UNCHANGED loop
           ELSE loop' = "refused" /\ UNCHANGED <<states, allocated, next_carrier, next_origin>>
    /\ UNCHANGED <<source, values, edges, draft, plans, relocations>>

FinishStates ==
    /\ loop = "states"
    /\ Len(states) = BlockCount
    /\ loop' = "islands"
    /\ UNCHANGED <<source, next_carrier, allocated, values, next_origin, edges, states, draft,
                   plans, relocations>>

-----------------------------------------------------------------------------
(***************************************************************************)
(* Islands.  A draft in progress also has what its island knows: the nodes *)
(* of its state and of its values, and how many of its items are emitted.  *)
(***************************************************************************)

IslandCount == BlockCount + Len(edges)
Index == Len(plans) + 1
IsBlock == Index <= BlockCount
Block == Blocks[Index]
Edge == edges[Index - BlockCount]
TargetOf(edge) == BlockIndex(function_, edge.target)

\* The edges of the blocks before a block.
EdgesBefore(b) == Total([c \in 1 .. (b - 1) |-> Len(EdgesOf(Blocks[c]))])

\* Mutant: the last edge comes first.
OutgoingReversed(b) ==
    [e \in 1 .. Len(EdgesOf(Blocks[b])) |->
        BlockCount + EdgesBefore(b) + Len(EdgesOf(Blocks[b])) + 1 - e]

\* The islands a block's edges became, in order.
Outgoing(b) ==
    [e \in 1 .. Len(EdgesOf(Blocks[b])) |-> BlockCount + EdgesBefore(b) + e]

\* The values of a block's parameters, read one after the other.
WithParameter(d, parameter) ==
    [Reconstruct(d, values[parameter.id]) EXCEPT
        !.bindings = Emplaced(@, parameter.id, ReconstructedAt(d))]

WithParameters(d, parameters) ==
    LET upTo[n \in 0 .. Len(parameters)] ==
            IF n = 0 THEN d ELSE WithParameter(upTo[n - 1], parameters[n])
    IN  upTo[Len(parameters)]

BeginIsland ==
    /\ loop = "islands"
    /\ draft = NoDraft
    /\ Index <= IslandCount
    /\ LET state == states[IF IsBlock THEN Index ELSE Edge.source]
           first == Reconstruct(EmptyDraft, state.semantic)
           semantic == ReconstructedAt(EmptyDraft)
           second == Reconstruct(first, state.history)
           begun == [nodes |-> second.nodes, carrier_writes |-> << >>, memory_writes |-> << >>,
                     overflowed |-> second.overflowed,
                     semantic |-> semantic, history |-> ReconstructedAt(first),
                     last |-> semantic, fold |-> semantic, items |-> 0, bindings |-> << >>]
       IN  draft' = IF IsBlock THEN WithParameters(begun, Block.parameters) ELSE begun
    /\ UNCHANGED <<source, loop, next_carrier, allocated, values, next_origin, edges, states,
                   plans, relocations>>

\* The value becomes the last, and is folded into the state.
Folded(d, logical, salt) ==
    [Emit(d, <<Mixed(d.fold, logical, salt)>>) EXCEPT
        !.last = logical, !.fold = IdAt(d, 0), !.items = @ + 1]

\* emit_integer_binary
NodeKind(operation) ==
    CASE operation = "Add" -> "Add"
      [] operation = "Subtract" -> "Sub"
      [] operation = "Multiply" -> "Mul"
      [] operation = "Xor" -> "Xor"
      [] operation = "And" -> "And"
      [] operation = "Or" -> "Or"
      [] operation = "ShiftLeft" -> "Shl"
      [] operation = "ShiftRightLogical" -> "Shr"
      [] operation = "ShiftRightArithmetic" -> "Sar"
      [] operation = "RotateLeft" -> "Rol"
      [] operation = "RotateRight" -> "Ror"

ArgumentRead(index) == ReadC(kArgumentCarrierBase + index)

\* Mutant: a Boolean argument is taken as the caller passed it.
ArgumentNodesRaw(d, action) == <<ArgumentRead(action.immediate)>>

\* A Boolean argument may be any word: what counts is whether it is zero.
ArgumentNodes(d, action) ==
    IF action.output.domain = "Boolean"
    THEN <<ArgumentRead(action.immediate), Lit(0), Cmp(1, IdAt(d, 0), IdAt(d, 1))>>
    ELSE <<ArgumentRead(action.immediate)>>

\* The nodes of an action, the last of which has its value.
ActionNodes(d, action) ==
    LET operand(i) == d.bindings[action.operands[i]]
    IN  CASE action.kind = "Argument" -> ArgumentNodes(d, action)
          [] action.kind = "Constant" -> <<Lit(action.immediate)>>
          [] action.kind = "Binary" ->
                <<Binary(NodeKind(action.operation), operand(1), operand(2))>>
          [] action.kind = "Unary" ->
                <<Unary(IF action.operation = "Negate" THEN "Neg" ELSE "Not", operand(1))>>
          [] action.kind = "Compare" -> <<Cmp(action.immediate, operand(1), operand(2))>>
          [] action.kind = "Load" ->
                <<Unary(IF action.immediate = 1 THEN "ReadMemory8" ELSE "ReadMemory64",
                        operand(1))>>
          [] action.kind = "Store" ->
                <<Mixed(operand(1), operand(2), CompilerSalt(action_origin(action), "STORE"))>>

Lowered(d, action) ==
    LET nodes == ActionNodes(d, action)
        logical == IdAt(d, Len(nodes) - 1)
        emitted == Emit(d, nodes)
        staged ==
            IF Produces(action)
            THEN StageWrite([emitted EXCEPT !.bindings = Emplaced(@, action.output.id, logical)],
                            values[action.output.id], logical, d.semantic, d.history,
                            CompilerSalt(action.output.origin, "VALUE"))
            ELSE [emitted EXCEPT !.memory_writes =
                      Append(@, WriteM(action.immediate, d.bindings[action.operands[1]],
                                       d.bindings[action.operands[2]]))]
    IN  Folded(staged, logical, CompilerSalt(action_origin(action), "ACTIONFOLD"))

LowerAction ==
    /\ loop = "islands"
    /\ draft # NoDraft
    /\ IsBlock
    /\ draft.items < Len(Block.actions)
    /\ LET action == Block.actions[draft.items + 1]
       IN  IF \A i \in DOMAIN action.operands : action.operands[i] \in DOMAIN draft.bindings
           THEN draft' = Lowered(draft, action) /\ UNCHANGED loop
           ELSE loop' = "threw" /\ UNCHANGED draft
    /\ UNCHANGED <<source, next_carrier, allocated, values, next_origin, edges, states, plans,
                   relocations>>

\* Mutant: a source that is a parameter copied before it on the same edge is taken
\* from the copy (each copy is 34 nodes, and the first 17 are the value).
ArgumentReadInOrder(d, n) ==
    LET parameters == Blocks[TargetOf(Edge)].parameters
        copied == {m \in 1 .. (n - 1) : parameters[m].id = Edge.arguments[n]}
    IN  IF copied = {}
        THEN [draft |-> Reconstruct(d, values[Edge.arguments[n]]),
              logical |-> ReconstructedAt(d)]
        ELSE [draft |-> d, logical |-> 34 * (CHOOSE m \in copied : TRUE) + 16]

\* An edge's argument, as the carriers held it before the edge.
ArgumentValue(d, n) ==
    [draft |-> Reconstruct(d, values[Edge.arguments[n]]), logical |-> ReconstructedAt(d)]

\* Written to the carriers of the target's parameter.
CopyArgument ==
    /\ loop = "islands"
    /\ draft # NoDraft
    /\ ~ IsBlock
    /\ draft.items < Len(Edge.arguments)
    /\ LET n == draft.items + 1
           parameters == Blocks[TargetOf(Edge)].parameters
       IN  IF /\ Edge.arguments[n] \in DOMAIN values
              /\ n <= Len(parameters)
           THEN LET to == values[parameters[n].id]
                    from == ArgumentValue(draft, n)
                IN  /\ draft' = Folded(
                           StageWrite(from.draft, to, from.logical, draft.semantic,
                                      draft.history, CompilerSalt(to.origin, "EDGEVAL")),
                           from.logical, CompilerSalt(to.origin, "EDGEFOLD"))
                    /\ UNCHANGED loop
           ELSE loop' = "threw" /\ UNCHANGED draft
    /\ UNCHANGED <<source, next_carrier, allocated, values, next_origin, edges, states, plans,
                   relocations>>

-----------------------------------------------------------------------------
(***************************************************************************)
(* The end of an island: the state moves on, and control with it.          *)
(***************************************************************************)

BlockSalts ==
    [semantic |-> "SEMANTIC", history |-> "HISTORY",
     semantic_shares |-> "SEMDSHR", history_shares |-> "HISTSHR", continuation |-> "CONTINUE"]
EdgeSalts ==
    [semantic |-> "EDGESEM", history |-> "EDGEHIS",
     semantic_shares |-> "ESEMSHR", history_shares |-> "EHISSHR", continuation |-> "EDGECONT"]

\* The new states, in the draft's next two nodes, and their write to the state
\* of a block.
Advanced(d, state, origin, salts) ==
    LET new_semantic == IdAt(d, 0)
        new_history == IdAt(d, 1)
        mixed == Emit(d, <<Mixed(d.fold, d.history, CompilerSalt(origin, salts.semantic)),
                           Mixed(d.history, new_semantic, CompilerSalt(origin, salts.history))>>)
    IN  StageWrite(StageWrite(mixed, state.semantic, new_semantic, d.history, d.last,
                              CompilerSalt(origin, salts.semantic_shares)),
                   state.history, new_history, d.semantic, new_semantic,
                   CompilerSalt(origin, salts.history_shares))

Placeholder(node, target, part) ==
    [island |-> Index, node |-> node, target |-> target, part |-> part]

\* Mutant: the words of a branch are paired by target, not by kind.
PlaceholdersByTarget(d, targets) ==
    [n \in 1 .. 2 * Len(targets) |->
        Placeholder(IdAt(d, n - 1), targets[(n + 1) \div 2],
                    IF n % 2 = 1 THEN "lane" ELSE "proof")]

\* add_relocation: the literals of the continuations of one or two targets.
Placeholders(d, targets) ==
    IF Len(targets) = 1
    THEN <<Placeholder(IdAt(d, 0), targets[1], "lane"),
           Placeholder(IdAt(d, 1), targets[1], "proof")>>
    ELSE <<Placeholder(IdAt(d, 0), targets[1], "lane"),
           Placeholder(IdAt(d, 1), targets[2], "lane"),
           Placeholder(IdAt(d, 2), targets[1], "proof"),
           Placeholder(IdAt(d, 3), targets[2], "proof")>>

\* The literals, and the choice between two targets.  The lane is in the last
\* node but one, the proof in the last.
ContinuationEmitted(d, targets, condition) ==
    Emit(d, IF Len(targets) = 1
            THEN <<Lit(0), Lit(0)>>
            ELSE <<Lit(0), Lit(0), Lit(0), Lit(0), Sel(condition, IdAt(d, 0), IdAt(d, 1)),
                   Sel(condition, IdAt(d, 2), IdAt(d, 3))>>)

ContinuationAt(targets) == IF Len(targets) = 1 THEN 0 ELSE 4

\* Mutant: a full island is handed over.
RoomSufficedAlways(d) == TRUE

RoomSufficed(d) == ~ d.overflowed

Plan(d) ==
    [nodes |-> d.nodes, carrier_writes |-> d.carrier_writes, memory_writes |-> d.memory_writes]

\* The block of a return stages its value.
ReturnStaged(d, semantic, history) ==
    IF IsBlock /\ Block.terminator.kind = "Return"
    THEN StageWrite(d, return_value, draft.bindings[Block.terminator.value], semantic, history,
                    CompilerSalt(Block.origin, "RETURN"))
    ELSE d

\* What both kinds of island end with.
FinishIsland(state, origin, salts, targets, condition) ==
    LET advanced == Advanced(draft, state, origin, salts)
        new_semantic == IdAt(draft, 0)
        new_history == IdAt(draft, 1)
        handed == ContinuationEmitted(advanced, targets, condition)
        lane == IdAt(advanced, ContinuationAt(targets))
        proof == IdAt(advanced, ContinuationAt(targets) + 1)
        finished == StageContinuation(ReturnStaged(handed, new_semantic, new_history),
                                      lane, proof, new_semantic, new_history,
                                      CompilerSalt(origin, salts.continuation))
    IN  IF RoomSufficed(finished)
        THEN /\ plans' = Append(plans, Plan(finished))
             /\ relocations' = relocations \o Placeholders(advanced, targets)
             /\ draft' = NoDraft
             /\ UNCHANGED loop
        ELSE loop' = "refused" /\ UNCHANGED <<plans, relocations, draft>>

FinishBlock ==
    /\ loop = "islands"
    /\ draft # NoDraft
    /\ IsBlock
    /\ draft.items = Len(Block.actions)
    /\ LET terminator == Block.terminator
           value == terminator.value
       IN  IF terminator.kind \in {"Branch", "Return"} /\ value \notin DOMAIN draft.bindings
           THEN loop' = "threw" /\ UNCHANGED <<plans, relocations, draft>>
           ELSE FinishIsland(states[Index], Block.origin, BlockSalts,
                             IF terminator.kind = "Return" THEN <<0>> ELSE Outgoing(Index),
                             IF terminator.kind = "Branch" THEN draft.bindings[value] ELSE 0)
    /\ UNCHANGED <<source, next_carrier, allocated, values, next_origin, edges, states>>

FinishEdge ==
    /\ loop = "islands"
    /\ draft # NoDraft
    /\ ~ IsBlock
    /\ draft.items = Len(Edge.arguments)
    /\ FinishIsland(states[TargetOf(Edge)], Edge.origin, EdgeSalts, <<TargetOf(Edge)>>, 0)
    /\ UNCHANGED <<source, next_carrier, allocated, values, next_origin, edges, states>>

FinishLowering ==
    /\ loop = "islands"
    /\ draft = NoDraft
    /\ Index > IslandCount
    /\ loop' = "lowered"
    /\ UNCHANGED <<source, next_carrier, allocated, values, next_origin, edges, states, draft,
                   plans, relocations>>

LoweringNext ==
    \/ Verify
    \/ AllocateValue
    \/ FinishValues
    \/ AddEdge
    \/ FinishEdges
    \/ AddState
    \/ FinishStates
    \/ BeginIsland
    \/ LowerAction
    \/ CopyArgument
    \/ FinishBlock
    \/ FinishEdge
    \/ FinishLowering

LoweringSpec == LoweringInit /\ [][LoweringNext]_loweringVars

-----------------------------------------------------------------------------
(***************************************************************************)
(* The sidecar's records: what an analyst reads a module's carriers with.  *)
(***************************************************************************)

Record(origin, kind, named, island) ==
    [origin |-> origin, kind |-> kind, values |-> named, island |-> island]

BlockRecords(b) ==
    LET block == Blocks[b]
    IN  <<Record(block.origin, "physical-island", <<states[b].semantic, states[b].history>>, b)>>
            \o [n \in DOMAIN block.parameters |->
                   Record(block.parameters[n].origin, "block-parameter",
                          <<values[block.parameters[n].id]>>, b)]
            \o [n \in DOMAIN block.actions |->
                   LET output == block.actions[n].output
                   IN  IF Produces(block.actions[n])
                       THEN Record(output.origin, "typed-action", <<values[output.id]>>, b)
                       ELSE Record(output.origin, "typed-effect", << >>, b)]

\* Mutant: an edge's record names the state it reads twice.
EdgeRecordOfSource(e) ==
    LET from == states[edges[e].source]
    IN  Record(edges[e].origin, "edge-island",
               <<from.semantic, from.history, from.semantic, from.history>>, BlockCount + e)

EdgeRecord(e) ==
    LET from == states[edges[e].source]
        to == states[TargetOf(edges[e])]
    IN  Record(edges[e].origin, "edge-island",
               <<from.semantic, from.history, to.semantic, to.history>>, BlockCount + e)

SidecarRecords ==
    Seqs!FlattenSeq([b \in 1 .. BlockCount |-> BlockRecords(b)])
        \o [e \in 1 .. Len(edges) |-> EdgeRecord(e)]

-----------------------------------------------------------------------------
\* A function the verifier accepts is lowered without a lookup that fails: every
\* name a block or an edge uses was bound when the lowering came to it, although
\* verifier and lowering keep their maps independently (verify_machine_ir's
\* available and blocks, compile_machine_ir's bindings, values and blocks).
NothingThrows == loop # "threw"

\* Every lowered program satisfies what the back end relies on and the plans'
\* own verifier accepts each of its plans, also when an island fills up to the
\* last node id; each placeholder of a continuation is patched exactly once.
LoweredIsAcceptable ==
    loop = "lowered" =>
        /\ LoweringPromises([plans |-> plans, relocations |-> relocations,
                             entry |-> BlockIndex(function_, function_.entry),
                             carrier_count |-> next_carrier])
        /\ \A i \in DOMAIN plans :
               PlanVerified(plans[i], next_carrier,
                            [max_nodes |-> kFormatCount, max_carrier_writes |-> kFormatCount,
                             max_memory_writes |-> kFormatCount])

\* No two values, edges or states share an origin, none has origin zero: origins
\* key every salt, and a synthetic one never runs into the function's own, even
\* where OriginId ends (synthetic_origin).
OriginsUnique ==
    LET function_origins == OriginsOf(function_)
        physical == [n \in DOMAIN allocated |-> allocated[n].origin]
        synthetic == [e \in DOMAIN edges |-> edges[e].origin]
        blocks == [b \in 1 .. BlockCount |-> Blocks[b].origin]
    IN  loop \in {"islands", "lowered"} =>
            /\ Distinct(physical \o synthetic \o blocks)
            /\ \A n \in DOMAIN physical : physical[n] # 0
            /\ \A e \in DOMAIN synthetic :
                   synthetic[e] # 0
                   /\ \A n \in DOMAIN function_origins : synthetic[e] # function_origins[n]

\* The sidecar accounts for the module: each origin has one record, and every
\* carrier an island writes, outside the ABI window, belongs to a value that a
\* record of that island names or, on an edge, that is a parameter of the target.
SidecarAccountsForWrites ==
    loop = "lowered" =>
        LET records == SidecarRecords
            carriersOf(physical) == UNION {{v.shares[i].carrier : i \in 1 .. 3} : v \in physical}
            named(island) ==
                UNION {carriersOf({records[r].values[v] : v \in DOMAIN records[r].values}) :
                       r \in {r \in DOMAIN records : records[r].island = island}}
            passed(island) ==
                IF island <= BlockCount THEN {}
                ELSE LET parameters == Blocks[TargetOf(edges[island - BlockCount])].parameters
                     IN  carriersOf({values[parameters[n].id] : n \in DOMAIN parameters})
            written(island) ==
                {plans[island].carrier_writes[n].carrier :
                     n \in DOMAIN plans[island].carrier_writes}
        IN  /\ Distinct([r \in DOMAIN records |-> records[r].origin])
            /\ \A i \in DOMAIN plans :
                   \A carrier \in written(i) \ (named(i) \cup passed(i)) :
                       carrier < kFirstAllocatedCarrier
=============================================================================
