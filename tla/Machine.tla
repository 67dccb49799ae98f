------------------------------- MODULE Machine -------------------------------
(***************************************************************************)
(* Machine::run and execute_island of runtime.cpp.  A run copies the       *)
(* module's initial state, places the arguments, and then opens the        *)
(* continuation in the carriers, executes the island it names, and repeats *)
(* until a continuation opens to the halt offset or something fails.       *)
(* Executing an island decodes it again, item by item: nodes are evaluated *)
(* against the carriers and the memory the island started with, the writes *)
(* are staged, and only after the last item has been checked are they all  *)
(* committed.  An error at any item abandons the island and ends the run.  *)
(* The machine keeps nothing between runs but the module, its profile, the *)
(* limits and the verified boundaries.                                     *)
(***************************************************************************)
EXTENDS PhysicalVerifier

CONSTANTS
    ByteBase,         \* the number of values of a memory byte
    Compute(_, _, _), \* the arithmetic of the computing nodes
    Arguments,        \* the argument vectors a caller may pass
    IslandBudgets     \* the values a caller may give RunOptions::max_islands

ASSUME BudgetsAssumption == IslandBudgets \subseteq Nat

ASSUME ArgumentsAssumption == Arguments \subseteq Seq(Word)

\* A word is WordBytes bytes (the second conjunct is arithmetic, said here for
\* the provers, which know nothing of powers).
ASSUME ByteAssumption ==
    /\ ByteBase \in Nat \ {0}
    /\ ByteBase ^ 0 = 1 /\ \A n \in 1 .. WordBytes : ByteBase ^ n = ByteBase * ByteBase ^ (n - 1)
    /\ Word = 0 .. (ByteBase ^ WordBytes - 1)

\* A parsed module's carriers hold words and its data bytes.
HoldsWords(module) ==
    /\ \A c \in DOMAIN module.initial_carriers : module.initial_carriers[c] \in Word
    /\ module.data \in Seq(0 .. (ByteBase - 1))

ASSUME ContentsAssumption == \A module \in Modules : HoldsWords(module)

\* RunOptions::plan_limits left empty.
NoOverride == [max_nodes |-> -1, max_carrier_writes |-> -1, max_memory_writes |-> -1]

VARIABLES
    phase,            \* where the run stands
    arguments,        \* the arguments of this run
    max_islands,      \* RunOptions::max_islands
    run_limits,       \* the plan limits in force: the override, or create's
    carriers,         \* MachineState::carriers
    memory,           \* MachineState::memory
    islands_executed, \* MachineState::islands_executed
    opened,           \* the offset the current island was opened at
    index,            \* items of the current loop already taken
    nodes,            \* values of the island's evaluated nodes, from 0
    carrier_writes,   \* the staged carrier writes, from carriers to values
    memory_writes,    \* the staged memory writes, in stream order
    fault,            \* the RuntimeFault of the result and where it arose
    value,            \* the value of the result
    trace             \* the IslandTraceEvents delivered

optionVars == <<arguments, max_islands, run_limits>>
stateVars == <<carriers, memory, islands_executed>>
islandVars == <<opened, index, nodes, carrier_writes, memory_writes>>
resultVars == <<fault, value, trace>>
machineVars == <<phase, optionVars, stateVars, islandVars, resultVars>>
vars == <<verifierVars, machineVars>>

\* The phases inside execute_island, and those of a run that has not returned.
IslandPhase == {"header", "nodes", "carriers", "memory"}
RunPhase == {"dispatch"} \cup IslandPhase

NoFault == [code |-> "none", site |-> "none"]
NoValue == -1

Island == IslandAt(module_, opened)

\* Mutant: the stored byte is not truncated.
ByteOfUntruncated(word, i) == word \div ByteBase ^ i

ByteOf(word, i) == (word \div ByteBase ^ i) % ByteBase

LoadWord(address) ==
    LET from[i \in 0 .. WordBytes] ==
            IF i = WordBytes THEN 0 ELSE memory[address + i] + ByteBase * from[i + 1]
    IN  from[0]

InitialMemory(module) ==
    [i \in 0 .. (module.memory_size - 1) |->
        IF i < Len(module.data) THEN module.data[i + 1] ELSE 0]

ArgumentCarriers(values) ==
    kArgumentCarrierBase .. (kArgumentCarrierBase + Len(values) - 1)

\* The function with an empty domain.
Nothing == [x \in {} |-> 0]

\* A function with one more argument, or another value for one it has.
Extended(f, x, y) == [z \in DOMAIN f \cup {x} |-> IF z = x THEN y ELSE f[z]]

\* Nothing staged, no node evaluated: what leaving execute_island leaves behind.
IslandLeft ==
    /\ opened' = Refused
    /\ index' = 0
    /\ nodes' = Nothing
    /\ carrier_writes' = Nothing
    /\ memory_writes' = << >>

Fail(code, site) ==
    /\ fault' = [code |-> code, site |-> site]
    /\ phase' = "done"
    /\ UNCHANGED <<value, trace>>

\* Mutant: an override stays in force for the runs after it.
StartRunKeepingOverride(override) ==
    /\ verdict = "verified"
    /\ phase \in {"idle", "done"}
    /\ arguments' \in Arguments
    /\ max_islands' \in IslandBudgets
    /\ run_limits' = IF override # NoOverride THEN override
                     ELSE IF phase = "idle" THEN plan_limits ELSE run_limits
    /\ carriers' = module_.initial_carriers
    /\ memory' = InitialMemory(module_)
    /\ islands_executed' = 0
    /\ phase' = "arguments"
    /\ fault' = NoFault
    /\ value' = NoValue
    /\ trace' = << >>
    /\ UNCHANGED <<verifierVars, islandVars>>

(***************************************************************************)
(* Machine::run up to the loop.  The override is RunOptions::plan_limits.  *)
(***************************************************************************)
LimitsOf(override) == IF override = NoOverride THEN plan_limits ELSE override

StartRunWith(override) ==
    /\ verdict = "verified"
    /\ phase \in {"idle", "done"}
    /\ arguments' \in Arguments
    /\ max_islands' \in IslandBudgets
    /\ run_limits' = LimitsOf(override)
    /\ carriers' = module_.initial_carriers
    /\ memory' = InitialMemory(module_)
    /\ islands_executed' = 0
    /\ phase' = "arguments"
    /\ fault' = NoFault
    /\ value' = NoValue
    /\ trace' = << >>
    /\ UNCHANGED <<verifierVars, islandVars>>

Overrides == PlanLimits \cup {NoOverride}

StartRun == \E override \in Overrides : StartRunWith(override)

RefuseArguments ==
    /\ phase = "arguments"
    /\ Len(arguments) # module_.argument_count
    /\ Fail("ArgumentWindow", "arguments")
    /\ UNCHANGED <<verifierVars, optionVars, stateVars, islandVars>>

\* Mutant: the arguments land one carrier late.
PlaceArgumentsLate ==
    /\ phase = "arguments"
    /\ Len(arguments) = module_.argument_count
    /\ carriers' = [c \in DOMAIN carriers |->
                       IF c - 1 \in ArgumentCarriers(arguments)
                       THEN arguments[c - kArgumentCarrierBase]
                       ELSE carriers[c]]
    /\ phase' = "dispatch"
    /\ UNCHANGED <<verifierVars, optionVars, memory, islands_executed, islandVars, resultVars>>

PlaceArguments ==
    /\ phase = "arguments"
    /\ Len(arguments) = module_.argument_count
    /\ carriers' = [c \in DOMAIN carriers |->
                       IF c \in ArgumentCarriers(arguments)
                       THEN arguments[c - kArgumentCarrierBase + 1]
                       ELSE carriers[c]]
    /\ phase' = "dispatch"
    /\ UNCHANGED <<verifierVars, optionVars, memory, islands_executed, islandVars, resultVars>>

(***************************************************************************)
(* The dispatch loop.  The tests come in this order: a bad proof, the halt *)
(* offset, the budget, the boundary.                                       *)
(***************************************************************************)
Target == OpenCarriers(carriers)

ReturnValue ==
    JoinXor(carriers[kReturnValueCarrier], carriers[kReturnValueCarrier + 1],
            carriers[kReturnValueCarrier + 2])

\* Mutants: one island too many; one too few.
BudgetSpentLate == islands_executed > max_islands
BudgetSpentEarly == islands_executed + 1 >= max_islands

BudgetSpent == islands_executed >= max_islands

RejectContinuation ==
    /\ phase = "dispatch"
    /\ Target = Refused
    /\ Fail("ContinuationProof", "dispatch")
    /\ UNCHANGED <<verifierVars, optionVars, stateVars, islandVars>>

Halt ==
    /\ phase = "dispatch"
    /\ Target = kHaltContinuation
    /\ value' = ReturnValue
    /\ phase' = "done"
    /\ UNCHANGED <<verifierVars, optionVars, stateVars, islandVars, fault, trace>>

ExhaustBudget ==
    /\ phase = "dispatch"
    /\ Target \notin {Refused, kHaltContinuation}
    /\ BudgetSpent
    /\ Fail("ResourceLimit", "dispatch")
    /\ UNCHANGED <<verifierVars, optionVars, stateVars, islandVars>>

RejectBoundary ==
    /\ phase = "dispatch"
    /\ Target \notin {Refused, kHaltContinuation}
    /\ ~ BudgetSpent
    /\ Target \notin Boundaries
    /\ Fail("IslandBounds", "dispatch")
    /\ UNCHANGED <<verifierVars, optionVars, stateVars, islandVars>>

\* Mutant: any offset inside the code section is entered.
EnterIslandAnywhere ==
    /\ phase = "dispatch"
    /\ Target \notin {Refused, kHaltContinuation}
    /\ ~ BudgetSpent
    /\ opened' = Target
    /\ phase' = "header"
    /\ UNCHANGED <<verifierVars, optionVars, stateVars, resultVars,
                   index, nodes, carrier_writes, memory_writes>>

EnterIsland ==
    /\ phase = "dispatch"
    /\ Target \notin {Refused, kHaltContinuation}
    /\ ~ BudgetSpent
    /\ Target \in Boundaries
    /\ opened' = Target
    /\ phase' = "header"
    /\ UNCHANGED <<verifierVars, optionVars, stateVars, resultVars,
                   index, nodes, carrier_writes, memory_writes>>

(***************************************************************************)
(* execute_island.  Each fault operator lists the tests of one loop body   *)
(* in the order the code makes them.                                       *)
(***************************************************************************)
HeaderFault ==
    IF \/ opened + kIslandHeaderSize > module_.code_size
       \/ Island.reserved # 0
       \/ Island.size < kIslandHeaderSize
       \/ Island.size > module_.code_size - opened
    THEN "IslandBounds"
    ELSE IF \/ NodeCount(Island) = 0
            \/ NodeCount(Island) > run_limits.max_nodes
            \/ CarrierWriteCount(Island) > run_limits.max_carrier_writes
            \/ MemoryWriteCount(Island) > run_limits.max_memory_writes
         THEN "ResourceLimit"
         ELSE "none"

\* The node about to be evaluated, and its i-th operand's value.
Node == Island.nodes[index + 1]
Operand(i) == nodes[Node.operands[i]]
IsEvaluated(i) == Node.operands[i] \in DOMAIN nodes

\* A select looks up its condition and then only the operand it chooses.
Chosen == IF Operand(1) # 0 THEN 2 ELSE 3
OperandsEvaluated ==
    IF Node.kind = "Select"
    THEN IsEvaluated(1) /\ IsEvaluated(Chosen)
    ELSE \A i \in 1 .. Arity(Node.kind) : IsEvaluated(i)

MemorySize == module_.memory_size

\* Mutant: the end of the access is computed, and wraps.
InMemoryBySum(address, width) == (address + width) % (ByteBase ^ WordBytes) <= MemorySize

\* Bytes [address, address + width) lie inside the VM's memory.  The unsigned
\* difference is taken only where it cannot wrap.
InMemory(address, width) == address <= MemorySize /\ MemorySize - address >= width

LoadWidth(kind) == IF kind = "ReadMemory8" THEN 1 ELSE WordBytes

NodeFault ==
    IF ~ Readable(Island, index + 1) THEN "IslandBounds"
    ELSE IF Node.kind \notin PrimitiveKind THEN "InvalidSchema"
    ELSE IF Node.kind = "ReadCarrier" /\ Node.immediate \notin DOMAIN carriers
         THEN "CarrierBounds"
    ELSE IF Node.kind = "Compare" /\ Node.immediate > SignedLessEqual
         THEN "InvalidOperand"
    ELSE IF ~ OperandsEvaluated THEN "InvalidOperand"
    ELSE IF Node.kind \in Loads /\ ~ InMemory(Operand(1), LoadWidth(Node.kind))
         THEN "MemoryBounds"
    ELSE "none"

\* What the handler of a node's kind makes of the values of earlier nodes.
ValueFrom(node, earlier) ==
    LET operand(i) == earlier[node.operands[i]]
    IN  CASE node.kind = "Literal"      -> node.immediate
          [] node.kind = "ReadCarrier"  -> carriers[node.immediate]
          [] node.kind = "ReadMemory8"  -> memory[operand(1)]
          [] node.kind = "ReadMemory64" -> LoadWord(operand(1))
          [] node.kind = "Select"       -> IF operand(1) # 0 THEN operand(2) ELSE operand(3)
          [] OTHER -> Compute(node.kind, node.immediate,
                              [i \in 1 .. Arity(node.kind) |-> operand(i)])

NodeValue == ValueFrom(Node, nodes)

CarrierWrite == Island.carrier_writes[index + 1]

CarrierWriteFault ==
    IF ~ Readable(Island, CarrierItem(Island, index + 1)) THEN "IslandBounds"
    ELSE IF CarrierWrite.carrier \notin DOMAIN carriers THEN "CarrierBounds"
    ELSE IF CarrierWrite.value \notin DOMAIN nodes THEN "InvalidOperand"
    ELSE IF CarrierWrite.carrier \in ReadOnlyAbi THEN "CarrierBounds"
    ELSE IF CarrierWrite.carrier \in DOMAIN carrier_writes THEN "WriteConflict"
    ELSE "none"

CoverageFault ==
    IF ContinuationCarriers \subseteq DOMAIN carrier_writes THEN "none" ELSE "InvalidOperand"

MemoryWrite == Island.memory_writes[index + 1]

StoreWidths == {1, WordBytes}

Overlap(write, other) ==
    /\ write.address < other.address + other.width
    /\ other.address < write.address + write.width

\* The write with its operands looked up.
Staged == [address |-> nodes[MemoryWrite.address],
           width   |-> MemoryWrite.width,
           value   |-> nodes[MemoryWrite.value]]

MemoryWriteFault ==
    IF ~ Readable(Island, MemoryItem(Island, index + 1)) THEN "IslandBounds"
    ELSE IF \/ MemoryWrite.width \notin StoreWidths
            \/ MemoryWrite.address \notin DOMAIN nodes
            \/ MemoryWrite.value \notin DOMAIN nodes
         THEN "InvalidOperand"
    ELSE IF ~ InMemory(Staged.address, Staged.width) THEN "MemoryBounds"
    ELSE IF \E i \in 1 .. Len(memory_writes) : Overlap(Staged, memory_writes[i])
         THEN "WriteConflict"
    ELSE "none"

TrailingFault == IF StreamEnd(Island) = Island.size THEN "none" ELSE "IslandBounds"

MoreCarrierWrites == index < CarrierWriteCount(Island)
MoreMemoryWrites == index < MemoryWriteCount(Island)

\* What stops the step the island would take next.
IslandFault ==
    CASE phase = "header"   -> HeaderFault
      [] phase = "nodes"    -> NodeFault
      [] phase = "carriers" -> IF MoreCarrierWrites THEN CarrierWriteFault ELSE CoverageFault
      [] phase = "memory"   -> IF MoreMemoryWrites THEN MemoryWriteFault ELSE TrailingFault

ReadHeader ==
    /\ phase = "header"
    /\ HeaderFault = "none"
    /\ phase' = "nodes"
    /\ UNCHANGED <<verifierVars, optionVars, stateVars, islandVars, resultVars>>

\* Mutant: the carrier writes start where the nodes ended.
EvaluateNodeKeepingIndex ==
    /\ phase = "nodes"
    /\ NodeFault = "none"
    /\ nodes' = Extended(nodes, index, NodeValue)
    /\ IF index + 1 < NodeCount(Island)
       THEN index' = index + 1 /\ UNCHANGED phase
       ELSE UNCHANGED index /\ phase' = "carriers"
    /\ UNCHANGED <<verifierVars, optionVars, stateVars, resultVars,
                   opened, carrier_writes, memory_writes>>

EvaluateNode ==
    /\ phase = "nodes"
    /\ NodeFault = "none"
    /\ nodes' = Extended(nodes, index, NodeValue)
    /\ IF index + 1 < NodeCount(Island)
       THEN index' = index + 1 /\ UNCHANGED phase
       ELSE index' = 0 /\ phase' = "carriers"
    /\ UNCHANGED <<verifierVars, optionVars, stateVars, resultVars,
                   opened, carrier_writes, memory_writes>>

StageCarrierWrite ==
    /\ phase = "carriers"
    /\ MoreCarrierWrites
    /\ CarrierWriteFault = "none"
    /\ carrier_writes' = Extended(carrier_writes, CarrierWrite.carrier,
                                  nodes[CarrierWrite.value])
    /\ index' = index + 1
    /\ UNCHANGED <<verifierVars, phase, optionVars, stateVars, resultVars,
                   opened, nodes, memory_writes>>

CheckContinuationReplaced ==
    /\ phase = "carriers"
    /\ ~ MoreCarrierWrites
    /\ CoverageFault = "none"
    /\ phase' = "memory"
    /\ index' = 0
    /\ UNCHANGED <<verifierVars, optionVars, stateVars, resultVars,
                   opened, nodes, carrier_writes, memory_writes>>

StageMemoryWrite ==
    /\ phase = "memory"
    /\ MoreMemoryWrites
    /\ MemoryWriteFault = "none"
    /\ memory_writes' = Append(memory_writes, Staged)
    /\ index' = index + 1
    /\ UNCHANGED <<verifierVars, phase, optionVars, stateVars, resultVars,
                   opened, nodes, carrier_writes>>

\* The staged writes are applied in order: a later one wins a byte or a
\* carrier an earlier one also wrote.
Covering(address) ==
    {i \in 1 .. Len(memory_writes) :
        address \in memory_writes[i].address ..
                       (memory_writes[i].address + memory_writes[i].width - 1)}

CommittedCarriers ==
    [c \in DOMAIN carriers |->
        IF c \in DOMAIN carrier_writes THEN carrier_writes[c] ELSE carriers[c]]

CommittedMemory ==
    [a \in DOMAIN memory |->
        IF Covering(a) = {} THEN memory[a]
        ELSE LET last == memory_writes[CHOOSE i \in Covering(a) :
                                          \A j \in Covering(a) : j <= i]
             IN  ByteOf(last.value, a - last.address)]

\* Mutant: the island is not counted.
CommitIslandUncounted ==
    /\ phase = "memory"
    /\ ~ MoreMemoryWrites
    /\ TrailingFault = "none"
    /\ carriers' = CommittedCarriers
    /\ memory' = CommittedMemory
    /\ phase' = "dispatch"
    /\ IslandLeft
    /\ UNCHANGED <<verifierVars, optionVars, islands_executed, resultVars>>

CommitIsland ==
    /\ phase = "memory"
    /\ ~ MoreMemoryWrites
    /\ TrailingFault = "none"
    /\ carriers' = CommittedCarriers
    /\ memory' = CommittedMemory
    /\ islands_executed' = islands_executed + 1
    /\ trace' = Append(trace, [ordinal         |-> islands_executed + 1,
                               opened_offset   |-> opened,
                               primitive_nodes |-> NodeCount(Island),
                               carrier_writes  |-> CarrierWriteCount(Island),
                               memory_writes   |-> MemoryWriteCount(Island)])
    /\ phase' = "dispatch"
    /\ IslandLeft
    /\ UNCHANGED <<verifierVars, optionVars, fault, value>>

FailIsland ==
    /\ phase \in IslandPhase
    /\ IslandFault # "none"
    /\ Fail(IslandFault, "island")
    /\ IslandLeft
    /\ UNCHANGED <<verifierVars, optionVars, stateVars>>

-----------------------------------------------------------------------------
Init ==
    /\ VerifierInit
    /\ phase = "idle"
    /\ arguments = << >>
    /\ max_islands = 0
    /\ run_limits = NoOverride
    /\ carriers = Nothing
    /\ memory = Nothing
    /\ islands_executed = 0
    /\ opened = Refused
    /\ index = 0
    /\ nodes = Nothing
    /\ carrier_writes = Nothing
    /\ memory_writes = << >>
    /\ fault = NoFault
    /\ value = NoValue
    /\ trace = << >>

Dispatch ==
    \/ RejectContinuation
    \/ Halt
    \/ ExhaustBudget
    \/ RejectBoundary
    \/ EnterIsland

ExecuteIsland ==
    \/ ReadHeader
    \/ EvaluateNode
    \/ StageCarrierWrite
    \/ CheckContinuationReplaced
    \/ StageMemoryWrite
    \/ CommitIsland
    \/ FailIsland

\* The steps of a run once it has been called.
RunStep ==
    \/ RefuseArguments
    \/ PlaceArguments
    \/ Dispatch
    \/ ExecuteIsland

Verify == VerifierNext /\ UNCHANGED machineVars

Next == Verify \/ StartRun \/ RunStep

\* create and run are ordinary calls that keep taking their next step; nothing
\* obliges a caller to start a run.
Fairness == WF_vars(Verify) /\ WF_vars(RunStep)

Spec == Init /\ [][Next]_vars /\ Fairness
=============================================================================
