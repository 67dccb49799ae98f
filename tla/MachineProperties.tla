-------------------------- MODULE MachineProperties --------------------------
(***************************************************************************)
(* What Machine::run must guarantee for every module that create accepts,  *)
(* and the abstract specification it implements.                           *)
(***************************************************************************)
EXTENDS Machine

Fields == {"max_nodes", "max_carrier_writes", "max_memory_writes"}

\* The limits of the run let through whatever create's limits let through.
LimitsCovered == \A f \in Fields : plan_limits[f] <= run_limits[f]

\* The types of the run's variables.
TypeOK ==
    /\ VerifierTypeOK
    /\ HoldsWords(module_)
    /\ phase \in {"idle", "arguments", "done"} \cup RunPhase
    /\ arguments \in Arguments \cup {<< >>}
    /\ max_islands \in IslandBudgets \cup {0}
    /\ run_limits \in PlanLimits \cup {NoOverride}
    /\ islands_executed \in Nat
    /\ opened \in Offset \cup {Refused}
    /\ index \in Nat
    /\ \A c \in DOMAIN carriers : carriers[c] \in Word
    /\ \A a \in DOMAIN memory : memory[a] \in 0 .. (ByteBase - 1)
    /\ \A n \in DOMAIN nodes : nodes[n] \in Word
    /\ \A c \in DOMAIN carrier_writes : carrier_writes[c] \in Word
    /\ value = NoValue \/ value \in Word
    /\ fault.site \in {"none", "arguments", "dispatch", "island"}

\* The verifier and the runtime decode the same stream with code of their own.
\* In an island the verifier accepted, the runtime can only fail for what
\* depends on the values of the run (an address out of memory, two stores to
\* one byte) or because the caller passed the run tighter limits than create.
\* It never meets a bad header, a truncated item, an unknown opcode, a missing
\* node or carrier, a write to the ABI window, a duplicate carrier write, an
\* unreplaced continuation share or trailing bytes.
VerifierSound ==
    fault.site = "island" =>
        fault.code \in {"MemoryBounds", "WriteConflict"}
                           \cup IF LimitsCovered THEN {} ELSE {"ResourceLimit"}

\* No island can write the argument window or the rest of the read-only ABI
\* carriers: in every run they hold the module's values and the caller's
\* arguments from the first island to the last.
ReadOnlyAbiIntact ==
    phase \in RunPhase \/ (phase = "done" /\ fault.site # "arguments") =>
        \A c \in ReadOnlyAbi :
            carriers[c] = IF c \in ArgumentCarriers(arguments)
                          THEN arguments[c - kArgumentCarrierBase + 1]
                          ELSE module_.initial_carriers[c]

\* The budget is spent to the last island and not beyond it: a run is refused
\* for its budget exactly when it has executed that many islands and still has
\* a well-formed continuation to follow (the order of the tests in run's loop).
BudgetExact ==
    /\ islands_executed <= max_islands
    /\ (fault.code = "ResourceLimit" /\ fault.site = "dispatch") =>
           islands_executed = max_islands /\ Target \notin {Refused, kHaltContinuation}
    /\ value # NoValue => fault = NoFault /\ Target = kHaltContinuation

\* The trace tells the run: one event for each committed island and none for a
\* failed one, numbered from one, each naming a boundary the verifier accepted
\* and the counts of the island there.
TraceTellsTheRun ==
    /\ Len(trace) = islands_executed
    /\ \A i \in 1 .. Len(trace) :
           /\ trace[i].ordinal = i
           /\ trace[i].opened_offset \in Boundaries
           /\ LET island == IslandAt(module_, trace[i].opened_offset)
              IN  /\ trace[i].primitive_nodes = NodeCount(island)
                  /\ trace[i].carrier_writes = CarrierWriteCount(island)
                  /\ trace[i].memory_writes = MemoryWriteCount(island)

\* A call of run returns: the island budget bounds the loop, and every island
\* is finite.
RunEnds == phase = "arguments" ~> phase = "done"

-----------------------------------------------------------------------------
(***************************************************************************)
(* The inductive invariant from which MachineProofs derives the safety     *)
(* properties.  The three parts are about the scan, about where a run      *)
(* stands in the island it executes, and about what it has done so far.    *)
(***************************************************************************)
ScanInvariant ==
    /\ IsModule(module_)
    /\ plan_limits \in PlanLimits
    /\ verdict \in {"created", "scanning", "verified", "rejected"}
    /\ scan_offset \in Nat
    /\ island_offsets \in Seq(Nat)
    /\ verdict = "created" => island_offsets = << >> /\ scan_offset = 0
    /\ verdict \in {"scanning", "verified"} =>
           /\ ModuleAccepted(module_)
           /\ \A i \in 1 .. Len(island_offsets) :
                  /\ IslandAccepted(module_, island_offsets[i], plan_limits)
                  /\ island_offsets[i] = IF i = 1 THEN 0 ELSE TileEnd(i - 1)
           /\ scan_offset = IF Len(island_offsets) = 0 THEN 0 ELSE TileEnd(Len(island_offsets))
    /\ verdict = "verified" => scan_offset = module_.code_size

IslandInvariant ==
    /\ phase \in {"idle", "arguments", "done"} \cup RunPhase
    /\ phase # "idle" =>
           /\ verdict = "verified"
           /\ run_limits \in PlanLimits \cup {NoOverride}
           /\ DOMAIN carriers = 0 .. (module_.carrier_count - 1)
    /\ phase \notin IslandPhase \cup {"done"} => fault = NoFault
    /\ phase \in {"dispatch", "header"} \cup {"idle", "arguments", "done"} => index = 0
    /\ phase \in {"idle", "arguments", "done", "dispatch", "header"} => DOMAIN nodes = {}
    /\ phase \notin {"carriers", "memory"} => DOMAIN carrier_writes = {}
    /\ phase \in IslandPhase => fault = NoFault /\ opened \in Boundaries
    /\ phase = "nodes" => index \in 0 .. (NodeCount(Island) - 1) /\ DOMAIN nodes = 0 .. (index - 1)
    /\ phase \in {"carriers", "memory"} => DOMAIN nodes = 0 .. (NodeCount(Island) - 1)
    /\ phase = "carriers" =>
           /\ index \in 0 .. CarrierWriteCount(Island)
           /\ DOMAIN carrier_writes = {Island.carrier_writes[n].carrier : n \in 1 .. index}
    /\ phase = "memory" => index \in 0 .. MemoryWriteCount(Island)

RunInvariant ==
    /\ max_islands \in Nat
    /\ islands_executed \in Nat
    /\ phase = "idle" => islands_executed = 0
    /\ phase = "arguments" => carriers = module_.initial_carriers
    /\ phase \in IslandPhase => islands_executed < max_islands
    /\ DOMAIN carrier_writes \cap ReadOnlyAbi = {}
    /\ phase # "done" => value = NoValue
    /\ trace \in Seq([ordinal : Nat, opened_offset : Nat, primitive_nodes : Nat,
                      carrier_writes : Nat, memory_writes : Nat])

CoreInvariant ==
    /\ ScanInvariant
    /\ IslandInvariant
    /\ RunInvariant
    /\ VerifierSound
    /\ ReadOnlyAbiIntact
    /\ BudgetExact
    /\ TraceTellsTheRun

-----------------------------------------------------------------------------
(***************************************************************************)
(* The runtime implements atomic islands: whatever fails inside an island, *)
(* at whichever item, leaves the carriers, the memory and the island count *)
(* of the last boundary, and an island that completes has evaluated every  *)
(* node against the state it started from.                                 *)
(***************************************************************************)
Status ==
    CASE phase = "idle"      -> "idle"
      [] phase = "arguments" -> "called"
      [] phase \in RunPhase  -> "running"
      [] phase = "done"      -> "stopped"

Atomic == INSTANCE AtomicIslands WITH status <- Status, executed <- islands_executed

ImplementsAtomicIslands == Atomic!AtomicSpec

-----------------------------------------------------------------------------
(***************************************************************************)
(* What makes an island atomic: everything evaluated or staged so far is   *)
(* what the island at the opened offset makes of the carriers and the      *)
(* memory of the last boundary, which no step has touched.                 *)
(***************************************************************************)

NodesEvaluated ==
    \A n \in DOMAIN nodes :
        LET node == Island.nodes[n + 1]
        IN  /\ nodes[n] = ValueFrom(node, nodes)
            /\ node.kind \in Loads => InMemory(nodes[node.operands[1]], LoadWidth(node.kind))

CarriersStaged ==
    /\ \A n \in 1 .. CarrierWriteCount(Island) :
           LET write == Island.carrier_writes[n]
           IN  write.carrier \in DOMAIN carrier_writes =>
                   carrier_writes[write.carrier] = nodes[write.value]
    /\ phase = "memory" => DOMAIN carrier_writes = WrittenCarriers(Island)

MemoryWriteRecord == [address : Word, width : {1, WordBytes}, value : Word]

StoresStaged ==
    /\ Len(memory_writes) = IF phase = "memory" THEN index ELSE 0
    /\ \A n \in 1 .. Len(memory_writes) :
           LET write == Island.memory_writes[n]
           IN  /\ memory_writes[n] = [address |-> nodes[write.address], width |-> write.width,
                                      value |-> nodes[write.value]]
               /\ InMemory(memory_writes[n].address, memory_writes[n].width)
               /\ \A m \in 1 .. (n - 1) : ~ Overlap(memory_writes[n], memory_writes[m])

StagingInvariant ==
    /\ phase # "idle" =>
           /\ arguments \in Arguments
           /\ DOMAIN memory = 0 .. (module_.memory_size - 1)
    /\ phase \in IslandPhase => opened = Target
    /\ NodesEvaluated
    /\ CarriersStaged
    /\ memory_writes \in Seq(MemoryWriteRecord)
    /\ StoresStaged

Invariant == CoreInvariant /\ TypeOK /\ StagingInvariant
=============================================================================
