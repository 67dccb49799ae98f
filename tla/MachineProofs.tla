---------------------------- MODULE MachineProofs ----------------------------
(***************************************************************************)
(* Proofs about the verifier and the runtime, for every set of modules,    *)
(* every plan limits, every profile and every word size.  The first part   *)
(* says where a scan and a run can be (CoreInvariant); the second that the *)
(* runtime keeps its types, stages what the island asks for and nothing    *)
(* else, and implements AtomicIslands; the third compares two runs.        *)
(***************************************************************************)
EXTENDS RepeatedRuns, SharedLemmas, TLAPS

(***************************************************************************)
(* The scan.                                                               *)
(***************************************************************************)

\* What decodes at any offset of a module has unsigned fields (the cursors of
\* both decoders read nothing else).
LEMMA IslandsTyped ==
    ASSUME NEW module, IsModule(module), NEW offset
    PROVE  IsIsland(IslandAt(module, offset))
BY DEF IsModule, IslandAt

\* An accepted island's size is positive and keeps the scan inside the code
\* section (the header test of scan_island).
LEMMA AcceptedSize ==
    ASSUME NEW module, IsModule(module), NEW offset \in Nat, NEW limits,
           IslandAccepted(module, offset, limits)
    PROVE  /\ IslandAt(module, offset).size \in Nat
           /\ IslandAt(module, offset).size >= kIslandHeaderSize
           /\ offset + IslandAt(module, offset).size \in Nat
<1>1. IsIsland(IslandAt(module, offset))
  BY IslandsTyped
<1>2. IslandAt(module, offset).size \in kIslandHeaderSize .. (module.code_size - offset)
  BY DEF IslandAccepted, HeaderAccepted
<1> QED
  BY <1>1, <1>2 DEF IsIsland, kIslandHeaderSize

LEMMA ScanInit == VerifierInit => ScanInvariant
BY ModulesAssumption DEF VerifierInit, ScanInvariant

\* Every step of create preserves what is known of the boundaries found so far.
LEMMA ScanStep == ScanInvariant /\ [VerifierNext]_verifierVars => ScanInvariant'
<1> SUFFICES ASSUME ScanInvariant, [VerifierNext]_verifierVars
             PROVE  ScanInvariant'
  OBVIOUS
<1>1. CASE CheckModule
  BY <1>1 DEF CheckModule, ScanInvariant, TileEnd
<1>2. CASE ScanIsland
  <2>1. CASE IslandAccepted(module_, scan_offset, plan_limits)
    <3> DEFINE n == Len(island_offsets)
               next == Append(island_offsets, scan_offset)
    <3>1. /\ island_offsets' = next
          /\ scan_offset' = scan_offset + IslandAt(module_, scan_offset).size
          /\ UNCHANGED <<module_, plan_limits, verdict>>
          /\ verdict = "scanning"
      BY <1>2, <2>1 DEF ScanIsland
    <3>2. /\ n \in Nat
          /\ next \in Seq(Nat)
          /\ Len(next) = n + 1
          /\ next[n + 1] = scan_offset
          /\ \A i \in 1 .. n : next[i] = island_offsets[i]
      BY DEF ScanInvariant
    <3>3. scan_offset' \in Nat
      BY <3>1, <2>1, AcceptedSize DEF ScanInvariant
    <3>4. scan_offset' = IF Len(next) = 0 THEN 0 ELSE TileEnd(Len(island_offsets))'
      BY <3>1, <3>2 DEF TileEnd
    <3>5. \A i \in 1 .. n : TileEnd(i)' = TileEnd(i)
      BY <3>1, <3>2 DEF TileEnd
    <3>6. ASSUME NEW i \in 1 .. Len(next)
          PROVE  /\ IslandAccepted(module_, next[i], plan_limits)
                 /\ next[i] = IF i = 1 THEN 0 ELSE TileEnd(i - 1)'
      <4>1. CASE i = n + 1
        BY <4>1, <3>1, <3>2, <3>5, <2>1 DEF ScanInvariant
      <4>2. CASE i \in 1 .. n
        <5>1. i = 1 \/ i - 1 \in 1 .. n
          BY <4>2, <3>2
        <5> QED
          BY <4>2, <5>1, <3>1, <3>2, <3>5 DEF ScanInvariant
      <4> QED
        BY <4>1, <4>2, <3>2
    <3> QED
      BY <3>1, <3>2, <3>3, <3>4, <3>6 DEF ScanInvariant
  <2>2. CASE ~ IslandAccepted(module_, scan_offset, plan_limits)
    BY <1>2, <2>2 DEF ScanIsland, ScanInvariant
  <2> QED
    BY <2>1, <2>2
<1>3. CASE CheckEntry
  <2>1. verdict' \in {"verified", "rejected"}
    BY <1>3 DEF CheckEntry
  <2>2. verdict' = "verified" => scan_offset = module_.code_size
    BY <1>3 DEF CheckEntry
  <2>3. verdict = "scanning" /\ UNCHANGED <<module_, plan_limits, scan_offset, island_offsets>>
    BY <1>3 DEF CheckEntry
  <2> QED
    BY <2>1, <2>2, <2>3 DEF ScanInvariant, TileEnd
<1>4. CASE UNCHANGED verifierVars
  BY <1>4 DEF verifierVars, ScanInvariant, TileEnd
<1> QED
  BY <1>1, <1>2, <1>3, <1>4 DEF VerifierNext

(***************************************************************************)
(* The agreement of the two decoders: what the verifier accepted, no loop  *)
(* of execute_island refuses.                                              *)
(***************************************************************************)

\* A boundary of a verified module holds an accepted island.
LEMMA BoundaryAccepted ==
    ASSUME ScanInvariant, verdict = "verified", NEW o \in Boundaries
    PROVE  /\ o \in Nat
           /\ IslandAccepted(module_, o, plan_limits)
           /\ IsIsland(IslandAt(module_, o))
<1>1. PICK i \in 1 .. Len(island_offsets) : o = island_offsets[i]
  BY DEF Boundaries
<1>2. o \in Nat
  BY <1>1 DEF ScanInvariant
<1> QED
  BY <1>1, <1>2, IslandsTyped DEF ScanInvariant

\* The island a run is in was accepted, and the run has not failed.
LEMMA InAcceptedIsland ==
    ASSUME ScanInvariant, IslandInvariant, phase \in IslandPhase
    PROVE  /\ opened \in Nat
           /\ IslandAccepted(module_, opened, plan_limits)
           /\ IsIsland(Island)
           /\ verdict = "verified"
           /\ DOMAIN carriers = 0 .. (module_.carrier_count - 1)
           /\ module_.carrier_count \in Nat
           /\ module_.code_size \in Nat
<1>1. phase # "idle"
  BY DEF IslandPhase
<1> QED
  BY <1>1, BoundaryAccepted DEF IslandInvariant, Island, ScanInvariant, IsModule

\* The header passes again, unless the caller tightened the limits.
LEMMA HeaderAgrees ==
    ASSUME ScanInvariant, IslandInvariant, phase = "header"
    PROVE  HeaderFault \in {"none"} \cup IF LimitsCovered THEN {} ELSE {"ResourceLimit"}
<1> DEFINE isl == Island
<1>1. /\ opened \in Nat
      /\ HeaderAccepted(module_, opened, Island, plan_limits)
      /\ IsIsland(Island)
      /\ module_.code_size \in Nat
  BY InAcceptedIsland DEF IslandPhase, IslandAccepted, Island
<1>2. ~ (\/ opened + kIslandHeaderSize > module_.code_size
         \/ Island.reserved # 0
         \/ Island.size < kIslandHeaderSize
         \/ Island.size > module_.code_size - opened)
  BY <1>1 DEF HeaderAccepted, IsIsland, kIslandHeaderSize
<1>3. ASSUME LimitsCovered
      PROVE  ~ (\/ NodeCount(Island) = 0
                \/ NodeCount(Island) > run_limits.max_nodes
                \/ CarrierWriteCount(Island) > run_limits.max_carrier_writes
                \/ MemoryWriteCount(Island) > run_limits.max_memory_writes)
  <2>1. /\ plan_limits.max_nodes <= run_limits.max_nodes
        /\ plan_limits.max_carrier_writes <= run_limits.max_carrier_writes
        /\ plan_limits.max_memory_writes <= run_limits.max_memory_writes
    BY <1>3 DEF LimitsCovered, Fields
  <2>2. /\ plan_limits.max_nodes \in Int /\ run_limits.max_nodes \in Int
        /\ plan_limits.max_carrier_writes \in Int /\ run_limits.max_carrier_writes \in Int
        /\ plan_limits.max_memory_writes \in Int /\ run_limits.max_memory_writes \in Int
    <3>1. plan_limits \in PlanLimits /\ run_limits \in PlanLimits \cup {NoOverride}
      BY DEF ScanInvariant, IslandInvariant
    <3> QED
      BY <3>1, PlanLimitsAssumption DEF NoOverride
  <2> QED
    BY <1>1, <2>1, <2>2 DEF HeaderAccepted, IsIsland
<1> QED
  BY <1>2, <1>3 DEF HeaderFault

LEMMA WordsAreNumbers == Word \subseteq Nat
BY ByteAssumption

\* A node that passed the verifier can be evaluated, but for the address it
\* loads from.
LEMMA NodeAgrees ==
    ASSUME ScanInvariant, IslandInvariant, phase = "nodes"
    PROVE  NodeFault \in {"none", "MemoryBounds"}
<1> DEFINE n == index + 1
<1>1. /\ IsIsland(Island)
      /\ n \in 1 .. NodeCount(Island)
      /\ index \in Nat
      /\ NodeAccepted(module_, Island, n)
      /\ DOMAIN nodes = 0 .. (index - 1)
      /\ DOMAIN carriers = 0 .. (module_.carrier_count - 1)
      /\ module_.carrier_count \in Nat
  BY InAcceptedIsland DEF IslandPhase, IslandInvariant, IslandAccepted, IsIsland, Island
<1>8. Node.immediate \in Nat
  BY <1>1, WordsAreNumbers DEF IsIsland, Node
<1>2. Readable(Island, index + 1)
  BY <1>1 DEF NodeAccepted
<1>3. Node.kind \in PrimitiveKind
  BY <1>1 DEF NodeAccepted, Node
<1>4. ~ (Node.kind = "ReadCarrier" /\ Node.immediate \notin DOMAIN carriers)
  BY <1>1, <1>8 DEF NodeAccepted, Node
<1>5. ~ (Node.kind = "Compare" /\ Node.immediate > SignedLessEqual)
  BY <1>1, <1>8 DEF NodeAccepted, Node, SignedLessEqual
<1>6. ASSUME NEW i \in 1 .. Arity(Node.kind)
      PROVE  IsEvaluated(i)
  <2>1. Node.operands[i] \in Nat
    BY <1>1 DEF Node, IsIsland
  <2>2. Node.operands[i] < n - 1
    BY <1>1 DEF NodeAccepted, Node
  <2>3. Node.operands[i] \in 0 .. (index - 1)
    BY <1>1, <2>1, <2>2
  <2> QED
    BY <1>1, <2>3 DEF IsEvaluated
<1>7. OperandsEvaluated
  <2>1. Node.kind = "Select" => Arity(Node.kind) = 3
    BY DEF Arity, Loads, UnaryKind, BinaryKind
  <2>2. Chosen \in {2, 3}
    BY DEF Chosen
  <2> QED
    BY <1>6, <2>1, <2>2 DEF OperandsEvaluated
<1> QED
  BY <1>2, <1>3, <1>4, <1>5, <1>7 DEF NodeFault

\* No carrier write the verifier accepted is refused.
LEMMA CarrierWriteAgrees ==
    ASSUME ScanInvariant, IslandInvariant, phase = "carriers", MoreCarrierWrites
    PROVE  CarrierWriteFault = "none"
<1> DEFINE n == index + 1
<1>1. /\ IsIsland(Island)
      /\ n \in 1 .. CarrierWriteCount(Island)
      /\ index \in Nat
      /\ CarrierWriteAccepted(module_, Island, n)
      /\ DOMAIN nodes = 0 .. (NodeCount(Island) - 1)
      /\ DOMAIN carrier_writes = {Island.carrier_writes[m].carrier : m \in 1 .. index}
      /\ DOMAIN carriers = 0 .. (module_.carrier_count - 1)
      /\ module_.carrier_count \in Nat
  BY InAcceptedIsland DEF IslandPhase, IslandInvariant, IslandAccepted, IsIsland, Island,
                          MoreCarrierWrites
<1>2. Readable(Island, CarrierItem(Island, index + 1))
  BY <1>1 DEF CarrierWriteAccepted
<1>3. CarrierWrite.carrier \in DOMAIN carriers /\ CarrierWrite.value \in DOMAIN nodes
  BY <1>1 DEF CarrierWriteAccepted, CarrierWrite, IsIsland
<1>4. CarrierWrite.carrier \notin ReadOnlyAbi
  BY <1>1 DEF CarrierWriteAccepted, CarrierWrite
<1>5. CarrierWrite.carrier \notin DOMAIN carrier_writes
  BY <1>1 DEF CarrierWriteAccepted, CarrierWrite
<1> QED
  BY <1>2, <1>3, <1>4, <1>5 DEF CarrierWriteFault

\* After the carrier writes all six continuation shares have been replaced.
LEMMA CoverageAgrees ==
    ASSUME ScanInvariant, IslandInvariant, phase = "carriers", ~ MoreCarrierWrites
    PROVE  CoverageFault = "none"
<1>1. /\ IsIsland(Island)
      /\ index = CarrierWriteCount(Island)
      /\ ContinuationCarriers \subseteq WrittenCarriers(Island)
      /\ DOMAIN carrier_writes = {Island.carrier_writes[m].carrier : m \in 1 .. index}
  BY InAcceptedIsland DEF IslandPhase, IslandInvariant, IslandAccepted, IsIsland, Island,
                          MoreCarrierWrites
<1> QED
  BY <1>1 DEF WrittenCarriers, CoverageFault

\* A store can fail only for its address.
LEMMA MemoryWriteAgrees ==
    ASSUME ScanInvariant, IslandInvariant, phase = "memory", MoreMemoryWrites
    PROVE  MemoryWriteFault \in {"none", "MemoryBounds", "WriteConflict"}
<1> DEFINE n == index + 1
<1>1. /\ IsIsland(Island)
      /\ n \in 1 .. MemoryWriteCount(Island)
      /\ MemoryWriteAccepted(Island, n)
      /\ DOMAIN nodes = 0 .. (NodeCount(Island) - 1)
  BY InAcceptedIsland DEF IslandPhase, IslandInvariant, IslandAccepted, IsIsland, Island,
                          MoreMemoryWrites
<1>2. Readable(Island, MemoryItem(Island, index + 1))
  BY <1>1 DEF MemoryWriteAccepted
<1>3. /\ MemoryWrite.width \in StoreWidths
      /\ MemoryWrite.address \in DOMAIN nodes
      /\ MemoryWrite.value \in DOMAIN nodes
  BY <1>1 DEF MemoryWriteAccepted, MemoryWrite, StoreWidths, IsIsland
<1> QED
  BY <1>2, <1>3 DEF MemoryWriteFault

\* The stream ends where the header said.
LEMMA TrailingAgrees ==
    ASSUME ScanInvariant, IslandInvariant, phase = "memory"
    PROVE  TrailingFault = "none"
BY InAcceptedIsland DEF IslandPhase, IslandAccepted, Island, TrailingFault

\* Whatever stops an accepted island depends on the values of the run or on
\* limits tightened by the caller.
LEMMA IslandFaultAgrees ==
    ASSUME ScanInvariant, IslandInvariant, phase \in IslandPhase
    PROVE  IslandFault \in {"none", "MemoryBounds", "WriteConflict"}
                               \cup IF LimitsCovered THEN {} ELSE {"ResourceLimit"}
<1>1. CASE phase = "header"
  BY <1>1, HeaderAgrees DEF IslandFault
<1>2. CASE phase = "nodes"
  BY <1>2, NodeAgrees DEF IslandFault
<1>3. CASE phase = "carriers"
  <2>1. CASE MoreCarrierWrites
    BY <1>3, <2>1, CarrierWriteAgrees DEF IslandFault
  <2>2. CASE ~ MoreCarrierWrites
    BY <1>3, <2>2, CoverageAgrees DEF IslandFault
  <2> QED
    BY <2>1, <2>2
<1>4. CASE phase = "memory"
  <2>1. CASE MoreMemoryWrites
    BY <1>4, <2>1, MemoryWriteAgrees DEF IslandFault
  <2>2. CASE ~ MoreMemoryWrites
    BY <1>4, <2>2, TrailingAgrees DEF IslandFault
  <2> QED
    BY <2>1, <2>2
<1> QED
  BY <1>1, <1>2, <1>3, <1>4 DEF IslandPhase

(***************************************************************************)
(* The steps of a run, one lemma for each part of the invariant.           *)
(***************************************************************************)

\* create takes no step once a run has been called.
LEMMA VerifyIsFirst ==
    ASSUME ScanInvariant, IslandInvariant, Verify
    PROVE  /\ phase = "idle"
           /\ UNCHANGED machineVars
           /\ UNCHANGED plan_limits
<1>1. verdict # "verified"
  BY DEF Verify, VerifierNext, CheckModule, ScanIsland, CheckEntry
<1>2. UNCHANGED plan_limits
  BY DEF Verify, VerifierNext, CheckModule, ScanIsland, CheckEntry
<1> QED
  BY <1>1, <1>2 DEF IslandInvariant, Verify

\* A run and everything in it leaves what create established.
LEMMA RunKeepsModule == StartRun \/ RunStep => UNCHANGED verifierVars
BY DEF StartRun, StartRunWith, RunStep, RefuseArguments, PlaceArguments, Dispatch, RejectContinuation,
       Halt, ExhaustBudget, RejectBoundary, EnterIsland, ExecuteIsland, ReadHeader,
       EvaluateNode, StageCarrierWrite, CheckContinuationReplaced, StageMemoryWrite,
       CommitIsland, FailIsland

LEMMA IslandStepOutside ==
    ASSUME ScanInvariant, IslandInvariant,
           StartRun \/ RefuseArguments \/ PlaceArguments \/ Dispatch
    PROVE  IslandInvariant'
<1>1. CASE StartRun
  <2>1. /\ phase' = "arguments" /\ verdict' = "verified" /\ fault' = NoFault
        /\ run_limits' \in PlanLimits \cup {NoOverride}
        /\ UNCHANGED <<verifierVars, islandVars>>
    BY <1>1 DEF StartRun, StartRunWith, LimitsOf, Overrides, ScanInvariant, verifierVars
  <2>2. DOMAIN carriers' = 0 .. (module_.carrier_count - 1)
    BY <1>1 DEF StartRun, StartRunWith, ScanInvariant, ModuleAccepted, ModuleShapeValid
  <2>3. index = 0 /\ DOMAIN nodes = {} /\ DOMAIN carrier_writes = {}
    BY <1>1 DEF StartRun, StartRunWith, IslandInvariant
  <2> QED
    BY <2>1, <2>2, <2>3 DEF IslandInvariant, verifierVars, islandVars, IslandPhase, RunPhase
<1>2. CASE RefuseArguments
  BY <1>2 DEF RefuseArguments, Fail, IslandInvariant, IslandPhase, RunPhase, verifierVars,
              optionVars, stateVars, islandVars
<1>3. CASE PlaceArguments
  BY <1>3 DEF PlaceArguments, IslandInvariant, IslandPhase, RunPhase, verifierVars,
              optionVars, islandVars, resultVars
<1>4. CASE RejectContinuation \/ Halt \/ ExhaustBudget \/ RejectBoundary
  <2>1. /\ phase = "dispatch" /\ phase' = "done"
        /\ UNCHANGED <<verifierVars, optionVars, stateVars, islandVars>>
    BY <1>4 DEF RejectContinuation, Halt, ExhaustBudget, RejectBoundary, Fail
  <2> QED
    BY <2>1 DEF IslandInvariant, IslandPhase, RunPhase, verifierVars, optionVars,
                stateVars, islandVars
<1>5. CASE EnterIsland
  BY <1>5 DEF EnterIsland, IslandInvariant, IslandPhase, RunPhase, verifierVars, optionVars,
              stateVars, resultVars, Boundaries
<1> QED
  BY <1>1, <1>2, <1>3, <1>4, <1>5 DEF Dispatch

LEMMA IslandStepInside ==
    ASSUME ScanInvariant, IslandInvariant, ExecuteIsland
    PROVE  IslandInvariant'
<1>0. /\ phase \in IslandPhase
      /\ UNCHANGED <<verifierVars, optionVars>>
  BY DEF ExecuteIsland, ReadHeader, EvaluateNode, StageCarrierWrite, IslandPhase,
         CheckContinuationReplaced, StageMemoryWrite, CommitIsland, FailIsland
<1>1. /\ IsIsland(Island)
      /\ NodeCount(Island) \in Nat \ {0}
      /\ CarrierWriteCount(Island) \in Nat
      /\ MemoryWriteCount(Island) \in Nat
  BY <1>0, InAcceptedIsland DEF IslandAccepted, HeaderAccepted, IsIsland, Island
<1>2. CASE ReadHeader
  BY <1>1, <1>2 DEF ReadHeader, IslandInvariant, IslandPhase, RunPhase, verifierVars,
              optionVars, stateVars, islandVars, resultVars, Boundaries, Island
<1>3. CASE EvaluateNode
  <2>1. /\ index \in 0 .. (NodeCount(Island) - 1)
        /\ DOMAIN nodes = 0 .. (index - 1)
        /\ DOMAIN carrier_writes = {}
    BY <1>3 DEF EvaluateNode, IslandInvariant
  <2>2. DOMAIN nodes' = 0 .. index
    BY <1>3, <2>1, <1>1 DEF EvaluateNode, Extended
  <2>3. UNCHANGED <<Island, Boundaries, opened, carrier_writes, carriers, fault, verdict,
                    module_, run_limits>>
    BY <1>3 DEF EvaluateNode, Island, Boundaries, verifierVars, optionVars, stateVars, resultVars
  <2>4. CASE index + 1 < NodeCount(Island)
    <3>1. index' = index + 1 /\ phase' = "nodes"
      BY <1>3, <2>4 DEF EvaluateNode
    <3> QED
      BY <1>1, <1>3, <2>1, <2>2, <2>3, <2>4, <3>1
         DEF EvaluateNode, IslandInvariant, IslandPhase, RunPhase
  <2>5. CASE ~ (index + 1 < NodeCount(Island))
    <3>1. index' = 0 /\ phase' = "carriers"
      BY <1>3, <2>5 DEF EvaluateNode
    <3>2. index = NodeCount(Island) - 1
      BY <1>1, <2>1, <2>5
    <3> QED
      BY <1>1, <1>3, <2>1, <2>2, <2>3, <3>1, <3>2
         DEF EvaluateNode, IslandInvariant, IslandPhase, RunPhase
  <2> QED
    BY <2>4, <2>5
<1>4. CASE StageCarrierWrite
  <2>1. /\ index \in 0 .. CarrierWriteCount(Island)
        /\ DOMAIN carrier_writes = {Island.carrier_writes[n].carrier : n \in 1 .. index}
        /\ index < CarrierWriteCount(Island)
    BY <1>4 DEF StageCarrierWrite, MoreCarrierWrites, IslandInvariant
  <2>2. DOMAIN carrier_writes' = {Island.carrier_writes[n].carrier : n \in 1 .. (index + 1)}
    BY <1>1, <1>4, <2>1 DEF StageCarrierWrite, Extended, CarrierWrite
  <2>3. /\ index' = index + 1 /\ phase' = "carriers" /\ phase = "carriers"
        /\ UNCHANGED <<Island, Boundaries, opened, nodes, carriers, fault, verdict, module_,
                       run_limits>>
    BY <1>4 DEF StageCarrierWrite, Island, Boundaries, verifierVars, optionVars, stateVars,
                resultVars
  <2> QED
    BY <1>1, <2>1, <2>2, <2>3 DEF IslandInvariant, IslandPhase, RunPhase
<1>5. CASE CheckContinuationReplaced
  BY <1>1, <1>5 DEF CheckContinuationReplaced, IslandInvariant, IslandPhase, RunPhase,
                    verifierVars, optionVars, stateVars, resultVars, Boundaries, Island
<1>6. CASE StageMemoryWrite
  <2>1. index \in 0 .. MemoryWriteCount(Island) /\ index < MemoryWriteCount(Island)
    BY <1>6 DEF StageMemoryWrite, MoreMemoryWrites, IslandInvariant
  <2>2. /\ index' = index + 1 /\ phase' = "memory" /\ phase = "memory"
        /\ UNCHANGED <<Island, Boundaries, opened, nodes, carriers, carrier_writes, fault,
                       verdict, module_, run_limits>>
    BY <1>6 DEF StageMemoryWrite, Island, Boundaries, verifierVars, optionVars, stateVars,
                resultVars
  <2> QED
    BY <1>1, <2>1, <2>2 DEF IslandInvariant, IslandPhase, RunPhase
<1>7. CASE CommitIsland
  <2>1. /\ DOMAIN carriers' = DOMAIN carriers
        /\ phase' = "dispatch" /\ phase = "memory" /\ fault' = fault
        /\ index' = 0 /\ DOMAIN nodes' = {} /\ DOMAIN carrier_writes' = {}
    BY <1>7 DEF CommitIsland, CommittedCarriers, IslandLeft, Nothing
  <2> QED
    BY <1>0, <2>1 DEF IslandInvariant, IslandPhase, RunPhase, verifierVars, optionVars
<1>8. CASE FailIsland
  <2>1. /\ phase' = "done" /\ phase \in IslandPhase /\ UNCHANGED stateVars
        /\ index' = 0 /\ DOMAIN nodes' = {} /\ DOMAIN carrier_writes' = {}
    BY <1>8 DEF FailIsland, Fail, IslandLeft, Nothing
  <2> QED
    BY <1>0, <2>1 DEF IslandInvariant, IslandPhase, RunPhase, verifierVars, optionVars,
                      stateVars
<1> QED
  BY <1>2, <1>3, <1>4, <1>5, <1>6, <1>7, <1>8 DEF ExecuteIsland

\* Where a run stands: every step keeps it in an accepted island, with the
\* nodes and the carrier writes taken so far.
LEMMA IslandStep == ScanInvariant /\ IslandInvariant /\ [Next]_vars => IslandInvariant'
<1> SUFFICES ASSUME ScanInvariant, IslandInvariant, [Next]_vars
             PROVE  IslandInvariant'
  OBVIOUS
<1>1. CASE Verify
  <2>1. phase = "idle" /\ UNCHANGED machineVars
    BY <1>1, VerifyIsFirst
  <2> QED
    BY <2>1 DEF IslandInvariant, IslandPhase, RunPhase, machineVars, optionVars, stateVars,
                islandVars, resultVars
<1>2. CASE UNCHANGED vars
  BY <1>2 DEF vars, machineVars, verifierVars, optionVars, stateVars, islandVars, resultVars,
              IslandInvariant, IslandPhase, RunPhase, Boundaries, Island
<1> QED
  BY <1>1, <1>2, IslandStepOutside, IslandStepInside DEF Next, RunStep

(***************************************************************************)
(* What a run has done so far.                                             *)
(***************************************************************************)

\* A staged carrier write is never to a read-only ABI carrier.
LEMMA StagedOutsideAbi ==
    ASSUME RunInvariant, StageCarrierWrite
    PROVE  DOMAIN carrier_writes' \cap ReadOnlyAbi = {}
<1>1. CarrierWrite.carrier \notin ReadOnlyAbi
  BY DEF StageCarrierWrite, CarrierWriteFault
<1>2. DOMAIN carrier_writes' = DOMAIN carrier_writes \cup {CarrierWrite.carrier}
  BY DEF StageCarrierWrite, Extended
<1> QED
  BY <1>1, <1>2 DEF RunInvariant

\* The event of a committed island.
LEMMA EventTyped ==
    ASSUME ScanInvariant, IslandInvariant, RunInvariant, CommitIsland
    PROVE  /\ opened \in Nat /\ opened \in Boundaries
           /\ trace \in Seq([ordinal : Nat, opened_offset : Nat, primitive_nodes : Nat,
                             carrier_writes : Nat, memory_writes : Nat])
           /\ trace' \in Seq([ordinal : Nat, opened_offset : Nat, primitive_nodes : Nat,
                              carrier_writes : Nat, memory_writes : Nat])
<1>1. phase \in IslandPhase
  BY DEF CommitIsland, IslandPhase
<1>2. /\ opened \in Nat
      /\ NodeCount(Island) \in Nat
      /\ CarrierWriteCount(Island) \in Nat
      /\ MemoryWriteCount(Island) \in Nat
  BY <1>1, InAcceptedIsland DEF IsIsland
<1> QED
  BY <1>1, <1>2 DEF CommitIsland, RunInvariant, IslandInvariant

LEMMA RunInvariantStep ==
    ScanInvariant /\ IslandInvariant /\ RunInvariant /\ [Next]_vars => RunInvariant'
<1> SUFFICES ASSUME ScanInvariant, IslandInvariant, RunInvariant, [Next]_vars
             PROVE  RunInvariant'
  OBVIOUS
<1>1. CASE Verify
  BY <1>1, VerifyIsFirst DEF RunInvariant, IslandPhase, machineVars, optionVars, stateVars,
                             islandVars, resultVars
<1>2. CASE StartRun
  <2>1. max_islands' \in Nat
    BY <1>2, BudgetsAssumption DEF StartRun, StartRunWith
  <2> QED
    BY <1>2, <2>1 DEF StartRun, StartRunWith, RunInvariant, IslandPhase, verifierVars, islandVars
<1>3. CASE RefuseArguments
  BY <1>3 DEF RefuseArguments, Fail, RunInvariant, IslandPhase, verifierVars, optionVars,
              stateVars, islandVars
<1>4. CASE PlaceArguments
  BY <1>4 DEF PlaceArguments, RunInvariant, IslandPhase, verifierVars, optionVars, islandVars,
              resultVars
<1>5. CASE RejectContinuation \/ Halt \/ ExhaustBudget \/ RejectBoundary
  <2>1. /\ phase = "dispatch" /\ phase' = "done" /\ UNCHANGED trace
        /\ UNCHANGED <<verifierVars, optionVars, stateVars, islandVars>>
    BY <1>5 DEF RejectContinuation, Halt, ExhaustBudget, RejectBoundary, Fail
  <2> QED
    BY <2>1 DEF RunInvariant, IslandPhase, verifierVars, optionVars, stateVars, islandVars
<1>6. CASE EnterIsland
  BY <1>6 DEF EnterIsland, BudgetSpent, RunInvariant, verifierVars, optionVars, stateVars,
              resultVars
<1>7. CASE ReadHeader
  BY <1>7 DEF ReadHeader, RunInvariant, IslandPhase, verifierVars, optionVars, stateVars,
              islandVars, resultVars
<1>8. CASE EvaluateNode
  <2>1. /\ phase = "nodes" /\ phase' \in {"nodes", "carriers"}
        /\ UNCHANGED <<verifierVars, optionVars, stateVars, resultVars, carrier_writes>>
    BY <1>8 DEF EvaluateNode
  <2> QED
    BY <2>1 DEF RunInvariant, IslandPhase, verifierVars, optionVars, stateVars, resultVars
<1>9. CASE StageCarrierWrite
  <2>1. /\ phase = "carriers" /\ phase' = "carriers"
        /\ UNCHANGED <<verifierVars, optionVars, stateVars, resultVars>>
    BY <1>9 DEF StageCarrierWrite
  <2> QED
    BY <1>9, <2>1, StagedOutsideAbi
       DEF RunInvariant, IslandPhase, verifierVars, optionVars, stateVars, resultVars
<1>10. CASE CheckContinuationReplaced
  BY <1>10 DEF CheckContinuationReplaced, RunInvariant, IslandPhase, verifierVars, optionVars,
               stateVars, resultVars
<1>11. CASE StageMemoryWrite
  BY <1>11 DEF StageMemoryWrite, RunInvariant, IslandPhase, verifierVars, optionVars,
               stateVars, resultVars
<1>12. CASE CommitIsland
  <2>1. /\ phase = "memory" /\ phase' = "dispatch" /\ DOMAIN carrier_writes' = {}
        /\ islands_executed' = islands_executed + 1
        /\ UNCHANGED <<verifierVars, optionVars, fault, value>>
    BY <1>12 DEF CommitIsland, IslandLeft, Nothing
  <2> QED
    BY <1>12, <2>1, EventTyped DEF RunInvariant, IslandPhase, verifierVars, optionVars
<1>13. CASE FailIsland
  <2>1. /\ phase \in IslandPhase /\ phase' = "done" /\ DOMAIN carrier_writes' = {}
        /\ UNCHANGED <<verifierVars, optionVars, stateVars, value, trace>>
    BY <1>13 DEF FailIsland, Fail, IslandLeft, Nothing
  <2> QED
    BY <2>1 DEF RunInvariant, IslandPhase, verifierVars, optionVars, stateVars
<1>14. CASE UNCHANGED vars
  BY <1>14 DEF vars, machineVars, verifierVars, optionVars, stateVars, islandVars, resultVars,
               RunInvariant, IslandPhase
<1> QED
  BY <1>1, <1>2, <1>3, <1>4, <1>5, <1>6, <1>7, <1>8, <1>9, <1>10, <1>11, <1>12, <1>13, <1>14
     DEF Next, RunStep, Dispatch, ExecuteIsland

\* A run fails inside an island only for its values or its tightened limits.
LEMMA VerifierSoundStep ==
    ScanInvariant /\ IslandInvariant /\ VerifierSound /\ [Next]_vars => VerifierSound'
<1> SUFFICES ASSUME ScanInvariant, IslandInvariant, VerifierSound, [Next]_vars
             PROVE  VerifierSound'
  OBVIOUS
<1>1. CASE FailIsland
  <2>1. /\ phase \in IslandPhase /\ IslandFault # "none"
        /\ fault'.code = IslandFault
        /\ UNCHANGED <<plan_limits, run_limits>>
    BY <1>1 DEF FailIsland, Fail, verifierVars, optionVars
  <2>2. LimitsCovered' <=> LimitsCovered
    BY <2>1 DEF LimitsCovered
  <2> QED
    BY <2>1, <2>2, IslandFaultAgrees DEF VerifierSound
<1>2. CASE RefuseArguments \/ RejectContinuation \/ ExhaustBudget \/ RejectBoundary
  BY <1>2 DEF RefuseArguments, RejectContinuation, ExhaustBudget, RejectBoundary, Fail,
              VerifierSound
<1>3. CASE StartRun
  BY <1>3 DEF StartRun, StartRunWith, NoFault, VerifierSound
<1>4. CASE Verify \/ UNCHANGED vars
  <2>1. UNCHANGED <<plan_limits, run_limits, fault>>
    BY <1>4, VerifyIsFirst DEF vars, verifierVars, machineVars, optionVars, resultVars
  <2> QED
    BY <2>1 DEF VerifierSound, LimitsCovered
<1>5. ASSUME UNCHANGED <<verifierVars, optionVars, fault>>
      PROVE  VerifierSound'
  BY <1>5 DEF VerifierSound, LimitsCovered, verifierVars, optionVars
<1>6. CASE PlaceArguments \/ Halt \/ EnterIsland
  <2>1. UNCHANGED <<verifierVars, optionVars, fault>>
    BY <1>6 DEF PlaceArguments, Halt, EnterIsland, resultVars
  <2> QED
    BY <2>1, <1>5
<1>7. CASE \/ ReadHeader \/ EvaluateNode \/ StageCarrierWrite \/ CheckContinuationReplaced
           \/ StageMemoryWrite \/ CommitIsland
  <2>1. UNCHANGED <<verifierVars, optionVars, fault>>
    BY <1>7 DEF ReadHeader, EvaluateNode, StageCarrierWrite, CheckContinuationReplaced,
                StageMemoryWrite, CommitIsland, resultVars
  <2> QED
    BY <2>1, <1>5
<1> QED
  BY <1>1, <1>2, <1>3, <1>4, <1>6, <1>7 DEF Next, RunStep, Dispatch, ExecuteIsland

\* Everything between two commits leaves the state of the last boundary.
LEMMA OnlyCommitsChangeState ==
    RunStep /\ ~ PlaceArguments /\ ~ CommitIsland => UNCHANGED stateVars
BY DEF RunStep, RefuseArguments, Dispatch, RejectContinuation, Halt, ExhaustBudget,
       RejectBoundary, EnterIsland, ExecuteIsland, ReadHeader, EvaluateNode,
       StageCarrierWrite, CheckContinuationReplaced, StageMemoryWrite, FailIsland

\* The loop tests the budget after the continuation and before the island.
LEMMA BudgetExactStep ==
    ScanInvariant /\ IslandInvariant /\ RunInvariant /\ BudgetExact /\ [Next]_vars => BudgetExact'
<1> SUFFICES ASSUME ScanInvariant, IslandInvariant, RunInvariant, BudgetExact, [Next]_vars
             PROVE  BudgetExact'
  OBVIOUS
<1>1. ASSUME UNCHANGED <<max_islands, stateVars, fault, value>>
      PROVE  BudgetExact'
  BY <1>1 DEF BudgetExact, Target, stateVars
<1>2. CASE Verify \/ UNCHANGED vars
  <2>1. UNCHANGED <<max_islands, stateVars, fault, value>>
    BY <1>2, VerifyIsFirst DEF vars, machineVars, optionVars, stateVars, resultVars
  <2> QED
    BY <2>1, <1>1
<1>3. CASE StartRun
  <2>1. max_islands' \in Nat
    BY <1>3, BudgetsAssumption DEF StartRun, StartRunWith
  <2> QED
    BY <1>3, <2>1 DEF StartRun, StartRunWith, NoFault, NoValue, BudgetExact
<1>4. CASE \/ EnterIsland \/ ReadHeader \/ EvaluateNode \/ StageCarrierWrite
           \/ CheckContinuationReplaced \/ StageMemoryWrite
  <2>1. UNCHANGED <<max_islands, stateVars, fault, value>>
    BY <1>4 DEF EnterIsland, ReadHeader, EvaluateNode, StageCarrierWrite, optionVars,
                CheckContinuationReplaced, StageMemoryWrite, resultVars
  <2> QED
    BY <2>1, <1>1
<1>5. CASE RefuseArguments \/ RejectContinuation \/ RejectBoundary \/ FailIsland
  <2>1. /\ fault'.code # "ResourceLimit" \/ fault'.site # "dispatch"
        /\ UNCHANGED <<max_islands, stateVars, value>>
        /\ phase # "done"
    BY <1>5 DEF RefuseArguments, RejectContinuation, RejectBoundary, FailIsland, Fail,
                optionVars, IslandPhase
  <2>2. value' = NoValue
    BY <2>1 DEF RunInvariant
  <2> QED
    BY <2>1, <2>2 DEF BudgetExact, stateVars
<1>6. CASE ExhaustBudget
  <2>1. /\ UNCHANGED <<max_islands, stateVars, value>>
        /\ phase = "dispatch" /\ islands_executed >= max_islands
        /\ Target \notin {Refused, kHaltContinuation}
    BY <1>6 DEF ExhaustBudget, Fail, BudgetSpent, optionVars
  <2>2. value' = NoValue
    BY <2>1 DEF RunInvariant
  <2>3. islands_executed = max_islands
    BY <2>1 DEF BudgetExact, RunInvariant
  <2> QED
    BY <2>1, <2>2, <2>3 DEF BudgetExact, Target, stateVars
<1>7. CASE Halt
  <2>1. /\ UNCHANGED <<max_islands, stateVars, fault>>
        /\ phase = "dispatch" /\ Target = kHaltContinuation
    BY <1>7 DEF Halt, optionVars
  <2>2. fault = NoFault
    BY <2>1 DEF IslandInvariant, IslandPhase
  <2> QED
    BY <2>1, <2>2 DEF BudgetExact, Target, stateVars, NoFault
<1>8. CASE PlaceArguments
  <2>1. /\ UNCHANGED <<max_islands, islands_executed, fault, value>>
        /\ phase = "arguments"
    BY <1>8 DEF PlaceArguments, optionVars, resultVars
  <2>2. value = NoValue /\ fault = NoFault
    BY <2>1 DEF RunInvariant, IslandInvariant, IslandPhase
  <2> QED
    BY <2>1, <2>2 DEF BudgetExact, NoFault
<1>9. CASE CommitIsland
  <2>1. /\ UNCHANGED <<max_islands, fault, value>>
        /\ islands_executed' = islands_executed + 1
        /\ phase = "memory"
    BY <1>9 DEF CommitIsland, optionVars
  <2>2. value = NoValue /\ fault = NoFault /\ islands_executed + 1 <= max_islands
    BY <2>1 DEF RunInvariant, IslandInvariant, IslandPhase
  <2> QED
    BY <2>1, <2>2 DEF BudgetExact, NoFault
<1> QED
  BY <1>2, <1>3, <1>4, <1>5, <1>6, <1>7, <1>8, <1>9 DEF Next, RunStep, Dispatch, ExecuteIsland

\* Every machine has the read-only carriers: a module without them is refused.
LEMMA ReadOnlyAbiFits ==
    ASSUME NEW count \in Nat, count >= kFirstAllocatedCarrier
    PROVE  ReadOnlyAbi \subseteq 0 .. (count - 1)
<1>1. ReadOnlyAbi = 9 .. 31 /\ count >= 32
  BY DEF ReadOnlyAbi, kReturnValueCarrier, kFirstAllocatedCarrier
<1> QED
  BY <1>1

\* The read-only carriers are placed once and then left alone.
LEMMA ReadOnlyAbiStep ==
    ScanInvariant /\ IslandInvariant /\ RunInvariant /\ ReadOnlyAbiIntact /\ [Next]_vars
        => ReadOnlyAbiIntact'
<1> SUFFICES ASSUME ScanInvariant, IslandInvariant, RunInvariant, ReadOnlyAbiIntact, [Next]_vars
             PROVE  ReadOnlyAbiIntact'
  OBVIOUS
<1>1. CASE Verify
  BY <1>1, VerifyIsFirst DEF ReadOnlyAbiIntact, machineVars, RunPhase, IslandPhase
<1>2. CASE UNCHANGED vars
  BY <1>2 DEF ReadOnlyAbiIntact, ArgumentCarriers, vars, verifierVars, machineVars, optionVars,
              stateVars, resultVars
<1>3. CASE StartRun
  BY <1>3 DEF StartRun, StartRunWith, ReadOnlyAbiIntact, RunPhase, IslandPhase
<1>4. CASE RefuseArguments
  BY <1>4 DEF RefuseArguments, Fail, ReadOnlyAbiIntact, RunPhase, IslandPhase
<1>5. CASE PlaceArguments
  <2>1. /\ phase = "arguments"
        /\ carriers' = [c \in DOMAIN carriers |->
                           IF c \in ArgumentCarriers(arguments)
                           THEN arguments[c - kArgumentCarrierBase + 1]
                           ELSE carriers[c]]
        /\ UNCHANGED <<module_, arguments>>
    BY <1>5 DEF PlaceArguments, verifierVars, optionVars
  <2>2. carriers = module_.initial_carriers
    BY <2>1 DEF RunInvariant
  <2>3. ReadOnlyAbi \subseteq DOMAIN carriers
    <3>1. verdict = "verified"
      BY <2>1 DEF IslandInvariant
    <3>2. /\ DOMAIN carriers = 0 .. (module_.carrier_count - 1)
          /\ module_.carrier_count \in Nat
          /\ module_.carrier_count >= kFirstAllocatedCarrier
      BY <2>1, <3>1 DEF IslandInvariant, ScanInvariant, ModuleAccepted, IsModule
    <3> QED
      BY <3>2, ReadOnlyAbiFits
  <2> QED
    BY <2>1, <2>2, <2>3 DEF ReadOnlyAbiIntact, ArgumentCarriers
<1>6. CASE CommitIsland
  <2>1. /\ phase = "memory"
        /\ carriers' = CommittedCarriers
        /\ UNCHANGED <<module_, arguments>>
    BY <1>6 DEF CommitIsland, verifierVars, optionVars
  <2>2. ReadOnlyAbi \subseteq DOMAIN carriers
    <3>1. /\ DOMAIN carriers = 0 .. (module_.carrier_count - 1)
          /\ module_.carrier_count \in Nat
          /\ verdict = "verified"
      BY <2>1, InAcceptedIsland DEF IslandPhase
    <3>2. module_.carrier_count >= kFirstAllocatedCarrier
      BY <3>1 DEF ScanInvariant, ModuleAccepted
    <3> QED
      BY <3>1, <3>2, ReadOnlyAbiFits
  <2>3. \A c \in ReadOnlyAbi : carriers'[c] = carriers[c]
    BY <2>1, <2>2 DEF CommittedCarriers, RunInvariant
  <2> QED
    BY <2>1, <2>3 DEF ReadOnlyAbiIntact, ArgumentCarriers, RunPhase, IslandPhase
<1>7. CASE RunStep /\ ~ RefuseArguments /\ ~ PlaceArguments /\ ~ CommitIsland
  <2>1. /\ phase \in RunPhase
        /\ UNCHANGED <<module_, arguments>>
    BY <1>7 DEF RunStep, Dispatch, RejectContinuation, Halt, ExhaustBudget, RejectBoundary,
                EnterIsland, ExecuteIsland, ReadHeader, EvaluateNode, StageCarrierWrite,
                CheckContinuationReplaced, StageMemoryWrite, FailIsland, verifierVars,
                optionVars, RunPhase, IslandPhase
  <2>2. UNCHANGED carriers
    BY <1>7, OnlyCommitsChangeState DEF stateVars
  <2> QED
    BY <2>1, <2>2 DEF ReadOnlyAbiIntact, ArgumentCarriers
<1> QED
  BY <1>1, <1>2, <1>3, <1>4, <1>5, <1>6, <1>7 DEF Next

\* One event for each commit.
LEMMA TraceStep ==
    ScanInvariant /\ IslandInvariant /\ RunInvariant /\ TraceTellsTheRun /\ [Next]_vars
        => TraceTellsTheRun'
<1> SUFFICES ASSUME ScanInvariant, IslandInvariant, RunInvariant, TraceTellsTheRun, [Next]_vars
             PROVE  TraceTellsTheRun'
  OBVIOUS
<1>1. CASE Verify
  <2>1. phase = "idle" /\ UNCHANGED <<trace, islands_executed>>
    BY <1>1, VerifyIsFirst DEF machineVars, stateVars, resultVars
  <2>2. islands_executed = 0 /\ Len(trace) = 0
    BY <2>1 DEF RunInvariant, TraceTellsTheRun
  <2> QED
    BY <2>1, <2>2 DEF TraceTellsTheRun
<1>2. CASE StartRun
  BY <1>2 DEF StartRun, StartRunWith, TraceTellsTheRun
<1>3. CASE CommitIsland
  <2> DEFINE event == [ordinal         |-> islands_executed + 1,
                       opened_offset   |-> opened,
                       primitive_nodes |-> NodeCount(Island),
                       carrier_writes  |-> CarrierWriteCount(Island),
                       memory_writes   |-> MemoryWriteCount(Island)]
  <2>1. /\ trace' = Append(trace, event)
        /\ islands_executed' = islands_executed + 1
        /\ UNCHANGED <<module_, Boundaries>>
    BY <1>3 DEF CommitIsland, verifierVars, Boundaries
  <2>2. /\ Len(trace) = islands_executed
        /\ Len(trace) \in Nat
        /\ Len(trace') = Len(trace) + 1
        /\ trace'[Len(trace) + 1] = event
        /\ \A i \in 1 .. Len(trace) : trace'[i] = trace[i]
    BY <1>3, <2>1, EventTyped, SMTT(30) DEF TraceTellsTheRun
  <2>3. opened \in Boundaries
    BY <1>3, EventTyped
  <2>4. ASSUME NEW i \in 1 .. Len(trace')
        PROVE  /\ trace'[i].ordinal = i
               /\ trace'[i].opened_offset \in Boundaries
               /\ LET island == IslandAt(module_, trace'[i].opened_offset)
                  IN  /\ trace'[i].primitive_nodes = NodeCount(island)
                      /\ trace'[i].carrier_writes = CarrierWriteCount(island)
                      /\ trace'[i].memory_writes = MemoryWriteCount(island)
    <3>1. CASE i \in 1 .. Len(trace)
      BY <3>1, <2>2 DEF TraceTellsTheRun
    <3>2. CASE i = Len(trace) + 1
      BY <3>2, <2>2, <2>3 DEF Island
    <3> QED
      BY <3>1, <3>2, <2>2
  <2> QED
    BY <2>1, <2>2, <2>4 DEF TraceTellsTheRun
<1>4. CASE UNCHANGED vars
  BY <1>4 DEF TraceTellsTheRun, Boundaries, vars, verifierVars, machineVars, stateVars,
              resultVars
<1>5. CASE RunStep /\ ~ CommitIsland
  <2>1. UNCHANGED <<trace, islands_executed>>
    BY <1>5 DEF RunStep, RefuseArguments, PlaceArguments, Dispatch, RejectContinuation, Halt,
                ExhaustBudget, RejectBoundary, EnterIsland, ExecuteIsland, ReadHeader,
                EvaluateNode, StageCarrierWrite, CheckContinuationReplaced, StageMemoryWrite,
                FailIsland, Fail, stateVars, resultVars
  <2>2. UNCHANGED verifierVars
    BY <1>5, RunKeepsModule
  <2> QED
    BY <2>1, <2>2 DEF TraceTellsTheRun, Boundaries, verifierVars
<1> QED
  BY <1>1, <1>2, <1>3, <1>4, <1>5 DEF Next

(***************************************************************************)
(* The theorems.                                                           *)
(***************************************************************************)

LEMMA CoreInvariantInit == Init => CoreInvariant
<1> SUFFICES ASSUME Init PROVE CoreInvariant
  OBVIOUS
<1>1. ScanInvariant
  BY ScanInit DEF Init
<1>2. /\ phase = "idle" /\ max_islands = 0 /\ islands_executed = 0
      /\ index = 0 /\ DOMAIN nodes = {} /\ DOMAIN carrier_writes = {}
      /\ fault = NoFault /\ value = NoValue /\ trace = << >>
  BY DEF Init, Nothing
<1>3. IslandInvariant
  BY <1>2 DEF IslandInvariant, IslandPhase, RunPhase
<1>4. RunInvariant
  BY <1>2 DEF RunInvariant, IslandPhase
<1>5. VerifierSound /\ ReadOnlyAbiIntact /\ BudgetExact /\ TraceTellsTheRun
  BY <1>2 DEF VerifierSound, ReadOnlyAbiIntact, BudgetExact, TraceTellsTheRun, NoFault,
              RunPhase, IslandPhase
<1> QED
  BY <1>1, <1>3, <1>4, <1>5 DEF CoreInvariant

LEMMA CoreInvariantStep == CoreInvariant /\ [Next]_vars => CoreInvariant'
<1> SUFFICES ASSUME CoreInvariant, [Next]_vars PROVE CoreInvariant'
  OBVIOUS
<1>1. [VerifierNext]_verifierVars
  BY RunKeepsModule DEF Next, Verify, vars
<1> QED
  BY <1>1, ScanStep, IslandStep, RunInvariantStep, VerifierSoundStep, ReadOnlyAbiStep,
     BudgetExactStep, TraceStep DEF CoreInvariant

\* The inductive invariant holds of every machine: for every set of parsed
\* modules, every limits, profile, arguments and island budgets.
THEOREM CoreInvariantHolds == Spec => []CoreInvariant
BY CoreInvariantInit, CoreInvariantStep, PTL DEF Spec

\* In an island the verifier accepted, the runtime fails only for an address,
\* a store conflict, or limits the caller tightened (scan_island against
\* execute_island).
THEOREM RuntimeTrustsVerifier == Spec => []VerifierSound
<1>1. CoreInvariant => VerifierSound
  BY DEF CoreInvariant
<1> QED
  BY <1>1, CoreInvariantHolds, PTL

\* No island of any module writes the argument window or the rest of the
\* read-only ABI carriers.
THEOREM AbiIsReadOnly == Spec => []ReadOnlyAbiIntact
<1>1. CoreInvariant => ReadOnlyAbiIntact
  BY DEF CoreInvariant
<1> QED
  BY <1>1, CoreInvariantHolds, PTL

\* The island budget is spent to the last island, never beyond it, and never
\* charged to a run that has reached the halt continuation.
THEOREM BudgetIsExact == Spec => []BudgetExact
<1>1. CoreInvariant => BudgetExact
  BY DEF CoreInvariant
<1> QED
  BY <1>1, CoreInvariantHolds, PTL

\* The trace delivered is the sequence of committed islands, each at a
\* boundary the verifier accepted.
THEOREM TraceIsFaithful == Spec => []TraceTellsTheRun
<1>1. CoreInvariant => TraceTellsTheRun
  BY DEF CoreInvariant
<1> QED
  BY <1>1, CoreInvariantHolds, PTL

(***************************************************************************)
(* create by itself.                                                       *)
(***************************************************************************)

LEMMA ScanInvariantHolds == VerifierSpec => []ScanInvariant
BY ScanInit, ScanStep, PTL DEF VerifierSpec

\* The verifier's variables keep their types for every set of modules.
THEOREM VerifierTypes == VerifierSpec => []VerifierTypeOK
<1>1. ScanInvariant => VerifierTypeOK
  BY DEF ScanInvariant, VerifierTypeOK
<1> QED
  BY <1>1, ScanInvariantHolds, PTL

\* Every continuation target a verified machine accepts was decoded and
\* accepted by scan_island.
THEOREM BoundariesAreAccepted == VerifierSpec => []BoundariesAccepted
<1>1. ScanInvariant => BoundariesAccepted
  BY BoundaryAccepted DEF BoundariesAccepted
<1> QED
  BY <1>1, ScanInvariantHolds, PTL

\* The islands of a verified module tile its code section.
THEOREM BoundariesTileCode == VerifierSpec => []BoundariesTile
<1>1. ScanInvariant => BoundariesTile
  <2> SUFFICES ASSUME ScanInvariant, verdict = "verified"
               PROVE  /\ island_offsets[1] = 0
                      /\ \A i \in 2 .. Len(island_offsets) : island_offsets[i] = TileEnd(i - 1)
                      /\ TileEnd(Len(island_offsets)) = module_.code_size
    BY DEF BoundariesTile
  <2>1. Len(island_offsets) \in Nat
    BY DEF ScanInvariant
  <2>2. Len(island_offsets) # 0
    BY DEF ScanInvariant, ModuleAccepted, ModuleShapeValid
  <2>3. 1 \in 1 .. Len(island_offsets)
    BY <2>1, <2>2
  <2>4. \A i \in 2 .. Len(island_offsets) : i \in 1 .. Len(island_offsets) /\ i # 1
    BY <2>1
  <2> QED
    BY <2>2, <2>3, <2>4 DEF ScanInvariant
<1> QED
  BY <1>1, ScanInvariantHolds, PTL

-----------------------------------------------------------------------------
(***************************************************************************)
(* What a run holds: every node evaluated so far has the value its         *)
(* equation asks for, and the staged writes are those of the items passed, *)
(* so that committing them is one whole island.                            *)
(***************************************************************************)

\* The word operations give words (the executor's registers are 64-bit
\* unsigned integers), compare for the conditions the verifier lets through.
ArithmeticClosed ==
    /\ \A a, b \in Word : Xor(a, b) \in Word
    /\ \A kind \in UnaryKind \cup BinaryKind \cup {"Compare", "Mix"}, immediate \in Word :
           \A operands \in [1 .. Arity(kind) -> Word] :
               (kind = "Compare" => immediate <= SignedLessEqual)
                   => Compute(kind, immediate, operands) \in Word

(***************************************************************************)
(* What a load reads.                                                      *)
(***************************************************************************)

\* from gives, for each byte of the access, the number its byte and those
\* after it make.
IsLoad(from, address, width) ==
    from = [i \in 0 .. width |->
               IF i = width THEN 0 ELSE memory[address + i] + ByteBase * from[i + 1]]

LEMMA LoadExists ==
    ASSUME NEW address, NEW width \in Nat
    PROVE  \E from : IsLoad(from, address, width)
<1> DEFINE Body(g, i) == IF i = width THEN 0 ELSE memory[address + i] + ByteBase * g[i + 1]
           Solves(g, k) == g = [i \in (width - k) .. width |-> Body(g, i)]
           Solved == {k \in 0 .. width : \E g : Solves(g, k)}
<1>1. 0 \in Solved
  <2> DEFINE g == [i \in width .. width |-> 0]
  <2>1. g = [i \in (width - 0) .. width |-> Body(g, i)]
    OBVIOUS
  <2> HIDE DEF g, Body
  <2> QED
    BY <2>1
<1>2. ASSUME NEW k \in 1 .. width, k - 1 \in Solved PROVE k \in Solved
  <2> HIDE DEF Body
  <2>1. PICK g : Solves(g, k - 1)
    BY <1>2
  <2> DEFINE h == [i \in (width - k) .. width |-> Body(g, i)]
  <2>2. ASSUME NEW i \in (width - (k - 1)) .. width PROVE h[i] = g[i]
    <3>1. i \in (width - k) .. width
      OBVIOUS
    <3>2. g[i] = Body(g, i)
      BY <2>1
    <3> QED
      BY <3>1, <3>2
  <2>3. ASSUME NEW i \in (width - k) .. width PROVE Body(h, i) = Body(g, i)
    <3> HIDE DEF h
    <3>1. i = width \/ i + 1 \in (width - (k - 1)) .. width
      OBVIOUS
    <3> QED
      BY <3>1, <2>2 DEF Body
  <2>4. Solves(h, k)
    BY <2>3
  <2> HIDE DEF h, Solves
  <2> QED
    BY <2>4
<1> HIDE DEF Solves
<1>3. Solved \in SUBSET (0 .. width)
  OBVIOUS
<1>4. width \in Solved
  <2> HIDE DEF Solved
  <2> QED
    BY <1>1, <1>2, <1>3, UpTo
<1>5. PICK g : Solves(g, width)
  BY <1>4
<1>6. width - width = 0
  OBVIOUS
<1> QED
  BY <1>5, <1>6 DEF IsLoad, Solves

LEMMA DigitsBound ==
    ASSUME NEW base \in Nat, NEW digit \in 0 .. (base - 1), NEW power \in Nat,
           NEW rest \in 0 .. (power - 1)
    PROVE  digit + base * rest \in 0 .. (base * power - 1)
<1>1. PICK slack \in Nat : power = rest + 1 + slack
  <2>1. power - rest - 1 \in Nat /\ power = rest + 1 + (power - rest - 1)
    OBVIOUS
  <2> QED
    BY <2>1
<1>2. base * power = base * rest + base + base * slack
  BY <1>1
<1>3. base * rest \in Nat /\ base * slack \in Nat
  OBVIOUS
<1> QED
  BY <1>2, <1>3

\* What a whole word of bytes makes is a word.
LEMMA LoadTyped ==
    ASSUME NEW address, NEW from, IsLoad(from, address, WordBytes),
           \A i \in 0 .. (WordBytes - 1) : memory[address + i] \in 0 .. (ByteBase - 1)
    PROVE  from[0] \in Word
<1> DEFINE Bounded == {k \in 0 .. WordBytes :
                          /\ ByteBase ^ k \in Nat
                          /\ from[WordBytes - k] \in 0 .. (ByteBase ^ k - 1)}
<1>1. WordBytes \in Nat
  BY WordBytesAssumption
<1>2. 0 \in Bounded
  BY <1>1, ByteAssumption DEF IsLoad
<1>3. ASSUME NEW k \in 1 .. WordBytes, k - 1 \in Bounded PROVE k \in Bounded
  <2> DEFINE i == WordBytes - k
             power == ByteBase ^ (k - 1)
  <2>1. i \in 0 .. (WordBytes - 1) /\ i + 1 = WordBytes - (k - 1)
    BY <1>1
  <2>2. from[i] = memory[address + i] + ByteBase * from[i + 1]
    BY <1>1, <2>1 DEF IsLoad
  <2>3. power \in Nat /\ from[i + 1] \in 0 .. (power - 1)
    BY <1>3, <2>1
  <2>4. memory[address + i] \in 0 .. (ByteBase - 1)
    BY <2>1
  <2>5. ByteBase ^ k = ByteBase * power
    BY ByteAssumption
  <2> HIDE DEF i, power
  <2>6. memory[address + i] + ByteBase * from[i + 1] \in 0 .. (ByteBase * power - 1)
    BY <2>3, <2>4, ByteAssumption, DigitsBound
  <2>7. ByteBase * power \in Nat
    BY <2>3, ByteAssumption
  <2>8. ByteBase ^ k \in Nat /\ from[i] \in 0 .. (ByteBase ^ k - 1)
    BY <2>2, <2>5, <2>6, <2>7, Zenon
  <2> QED
    BY <2>8 DEF i
<1>4. Bounded \in SUBSET (0 .. WordBytes)
  OBVIOUS
<1>5. WordBytes \in Bounded
  <2> HIDE DEF Bounded
  <2> QED
    BY <1>1, <1>2, <1>3, <1>4, UpTo
<1>6. from[WordBytes - WordBytes] \in 0 .. (ByteBase ^ WordBytes - 1) /\ WordBytes - WordBytes = 0
  BY <1>5, <1>1
<1> QED
  BY <1>6, ByteAssumption

\* The recursive functions of the two specifications, unfolded.
LEMMA LoadWordIs ==
    ASSUME NEW address
    PROVE  \E from : IsLoad(from, address, WordBytes) /\ LoadWord(address) = from[0]
<1> DEFINE from == CHOOSE f : IsLoad(f, address, WordBytes)
<1>1. IsLoad(from, address, WordBytes)
  BY LoadExists, WordBytesAssumption
<1>2. LoadWord(address) = from[0]
  BY Zenon DEF LoadWord, IsLoad
<1> QED
  BY <1>1, <1>2

LEMMA AtomicLoadIs ==
    ASSUME NEW address, NEW width \in Nat
    PROVE  \E from : /\ IsLoad(from, address, width)
                     /\ Atomic!Load(address, width) =
                            IF Atomic!InMemory(address, width) THEN from[0] ELSE 0
<1> DEFINE from == CHOOSE f : IsLoad(f, address, width)
<1>1. IsLoad(from, address, width)
  BY LoadExists
<1>2. Atomic!Load(address, width) = IF Atomic!InMemory(address, width) THEN from[0] ELSE 0
  BY Zenon DEF Atomic!Load, IsLoad
<1> QED
  BY <1>1, <1>2

(***************************************************************************)
(* Everything the run computes with is a word.                             *)
(***************************************************************************)

LEMMA BytesAreWords == 0 .. (ByteBase - 1) \subseteq Word
<1> DEFINE Large == {k \in 0 .. WordBytes :
                        k # 0 => ByteBase ^ k \in Nat /\ ByteBase <= ByteBase ^ k}
<1>1. WordBytes \in Nat /\ WordBytes # 0
  BY WordBytesAssumption
<1>2. ASSUME NEW k \in 1 .. WordBytes, k - 1 \in Large PROVE k \in Large
  <2> DEFINE power == ByteBase ^ (k - 1)
  <2>1. power \in Nat /\ 1 <= power
    <3>1. CASE k = 1
      BY <3>1, ByteAssumption
    <3>2. CASE k # 1
      BY <3>2, <1>2, ByteAssumption
    <3> QED
      BY <3>1, <3>2
  <2>2. ByteBase ^ k = ByteBase * power
    BY ByteAssumption
  <2> HIDE DEF power
  <2>3. PICK slack \in Nat : power = 1 + slack
    <3>1. power - 1 \in Nat /\ power = 1 + (power - 1)
      BY <2>1
    <3> QED
      BY <3>1
  <2>4. ByteBase * power = ByteBase + ByteBase * slack /\ ByteBase * slack \in Nat
    BY <2>3, ByteAssumption
  <2>5. ByteBase ^ k \in Nat /\ ByteBase <= ByteBase ^ k
    BY <2>2, <2>4, ByteAssumption
  <2> QED
    BY <2>5
<1>3. 0 \in Large /\ Large \in SUBSET (0 .. WordBytes)
  BY <1>1
<1>4. WordBytes \in Large
  <2> HIDE DEF Large
  <2> QED
    BY <1>1, <1>2, <1>3, UpTo
<1>5. ByteBase ^ WordBytes \in Nat /\ ByteBase <= ByteBase ^ WordBytes
  BY <1>1, <1>4
<1> QED
  BY <1>5, ByteAssumption

\* The test of an access, which avoids a sum that could wrap, is that of its range.
LEMMA InMemoryIs ==
    ASSUME NEW address \in Word, NEW width \in Nat, MemorySize \in Nat
    PROVE  InMemory(address, width) <=> address \in 0 .. (MemorySize - width)
<1>1. address \in Nat
  <2>1. address \in 0 .. (ByteBase ^ WordBytes - 1)
    BY ByteAssumption
  <2> QED
    BY <2>1
<1> QED
  BY <1>1 DEF InMemory

\* A node's value is a word whichever of its twenty kinds it has.
LEMMA NodeValueTyped ==
    ASSUME ArithmeticClosed, CoreInvariant, TypeOK, StagingInvariant,
           phase = "nodes", NodeFault = "none"
    PROVE  NodeValue \in Word
<1>1. /\ Node.kind \in PrimitiveKind
      /\ Node.kind = "ReadCarrier" => Node.immediate \in DOMAIN carriers
      /\ Node.kind = "Compare" => ~ (Node.immediate > SignedLessEqual)
      /\ OperandsEvaluated
      /\ Node.kind \in Loads => InMemory(Operand(1), LoadWidth(Node.kind))
  BY DEF NodeFault
<1>2. /\ \A c \in DOMAIN carriers : carriers[c] \in Word
      /\ \A a \in DOMAIN memory : memory[a] \in 0 .. (ByteBase - 1)
      /\ \A n \in DOMAIN nodes : nodes[n] \in Word
      /\ DOMAIN memory = 0 .. (MemorySize - 1)
      /\ MemorySize \in Nat
  BY DEF TypeOK, StagingInvariant, CoreInvariant, ScanInvariant, IsModule, MemorySize
<1>3. Node.immediate \in Word
  BY InAcceptedIsland, SMTT(30)
     DEF CoreInvariant, IslandInvariant, IslandPhase, IsIsland, Node, NodeCount
<1>4. CASE Node.kind = "Literal"
  BY <1>3, <1>4 DEF NodeValue, ValueFrom
<1>5. CASE Node.kind = "ReadCarrier"
  BY <1>1, <1>2, <1>5 DEF NodeValue, ValueFrom
<1>6. CASE Node.kind = "ReadMemory8"
  <2>0. Operand(1) \in Word
    BY <1>1, <1>2, <1>6
       DEF OperandsEvaluated, IsEvaluated, Operand, Arity, Loads, UnaryKind, BinaryKind
  <2>1. Operand(1) \in 0 .. (MemorySize - 1)
    BY <1>1, <1>2, <1>6, <2>0, InMemoryIs DEF LoadWidth, Loads
  <2>2. memory[Operand(1)] \in Word
    BY <1>2, <2>1, BytesAreWords
  <2> QED
    BY <1>6, <2>2 DEF NodeValue, ValueFrom, Operand
<1>7. CASE Node.kind = "ReadMemory64"
  <2>0. Operand(1) \in Word
    BY <1>1, <1>2, <1>7
       DEF OperandsEvaluated, IsEvaluated, Operand, Arity, Loads, UnaryKind, BinaryKind
  <2>1. Operand(1) \in 0 .. (MemorySize - WordBytes)
    BY <1>1, <1>2, <1>7, <2>0, WordBytesAssumption, InMemoryIs DEF LoadWidth, Loads
  <2>2. \A i \in 0 .. (WordBytes - 1) : Operand(1) + i \in 0 .. (MemorySize - 1)
    BY <1>2, <2>1, WordBytesAssumption
  <2>3. LoadWord(Operand(1)) \in Word
    BY <1>2, <2>2, LoadWordIs, LoadTyped
  <2> QED
    BY <1>7, <2>3 DEF NodeValue, ValueFrom, Operand
<1>8. CASE Node.kind = "Select"
  <2>1. IsEvaluated(Chosen)
    BY <1>1, <1>8 DEF OperandsEvaluated
  <2>2. NodeValue = Operand(Chosen)
    BY <1>8 DEF NodeValue, ValueFrom, Operand, Chosen
  <2> QED
    BY <1>2, <2>1, <2>2 DEF IsEvaluated, Operand
<1>9. CASE Node.kind \in UnaryKind \cup BinaryKind \cup {"Compare", "Mix"}
  <2> DEFINE operands == [i \in 1 .. Arity(Node.kind) |-> Operand(i)]
  <2>1. Node.kind \notin {"Literal", "ReadCarrier", "ReadMemory8", "ReadMemory64", "Select"}
    BY <1>9 DEF UnaryKind, BinaryKind
  <2>2. \A i \in 1 .. Arity(Node.kind) : Operand(i) \in Word
    BY <1>1, <1>2, <2>1 DEF OperandsEvaluated, IsEvaluated, Operand
  <2>3. operands \in [1 .. Arity(Node.kind) -> Word]
    BY <2>2
  <2>4. Node.kind = "Compare" => Node.immediate <= SignedLessEqual
    <3>1. Node.immediate \in Nat
      BY <1>3, WordsAreNumbers
    <3> QED
      BY <1>1, <3>1 DEF SignedLessEqual
  <2>5. Compute(Node.kind, Node.immediate, operands) \in Word
    <3> HIDE DEF operands
    <3> QED
      BY <1>3, <1>9, <2>3, <2>4 DEF ArithmeticClosed
  <2> QED
    BY <2>1, <2>5 DEF NodeValue, ValueFrom, Operand
<1> QED
  BY <1>1, <1>4, <1>5, <1>6, <1>7, <1>8, <1>9 DEF PrimitiveKind, Loads

LEMMA ExtendedTyped ==
    ASSUME NEW f, NEW x, NEW y, NEW S, y \in S, \A z \in DOMAIN f : f[z] \in S
    PROVE  \A z \in DOMAIN Extended(f, x, y) : Extended(f, x, y)[z] \in S
BY DEF Extended

LEMMA TargetTyped == Target \in Offset \cup {Refused}
BY DEF Target, OpenCarriers, Open

LEMMA ByteOfTyped ==
    ASSUME NEW word \in Nat, NEW i \in Int
    PROVE  ByteOf(word, i) \in 0 .. (ByteBase - 1)
<1> DEFINE power == ByteBase ^ i
<1>1. power \in Int
  BY ByteAssumption
<1> HIDE DEF power
<1>2. (word \div power) % ByteBase \in 0 .. (ByteBase - 1)
  BY <1>1, ByteAssumption
<1> QED
  BY <1>2 DEF ByteOf, power

LEMMA ReturnValueTyped ==
    ASSUME ArithmeticClosed, CoreInvariant, TypeOK, phase = "dispatch"
    PROVE  ReturnValue \in Word
<1>1. {kReturnValueCarrier, kReturnValueCarrier + 1, kReturnValueCarrier + 2} \subseteq DOMAIN carriers
  <2>1. /\ DOMAIN carriers = 0 .. (module_.carrier_count - 1)
        /\ module_.carrier_count \in Nat
        /\ module_.carrier_count >= kFirstAllocatedCarrier
    BY DEF CoreInvariant, IslandInvariant, ScanInvariant, ModuleAccepted, IsModule
  <2> QED
    BY <2>1 DEF kReturnValueCarrier, kFirstAllocatedCarrier
<1>2. \A c \in DOMAIN carriers : carriers[c] \in Word
  BY DEF TypeOK
<1> QED
  BY <1>1, <1>2 DEF ReturnValue, JoinXor, ArithmeticClosed

\* The staged write that decides a byte is the last one that covers it.
LEMMA LastCovering ==
    ASSUME memory_writes \in Seq(MemoryWriteRecord),
           NEW a, Covering(a) # {}
    PROVE  \E i \in Covering(a) :
               /\ i = CHOOSE k \in Covering(a) : \A j \in Covering(a) : j <= k
               /\ \A j \in Covering(a) : j <= i
               /\ memory_writes[i] \in MemoryWriteRecord
<1>1. Len(memory_writes) \in Nat /\ Covering(a) \in SUBSET (0 .. Len(memory_writes))
  BY DEF Covering
<1>2. \E i \in Covering(a) : \A j \in Covering(a) : j <= i
  BY <1>1, GreatestExists
<1> DEFINE last == CHOOSE k \in Covering(a) : \A j \in Covering(a) : j <= k
<1>3. last \in Covering(a) /\ \A j \in Covering(a) : j <= last
  BY <1>2, Zenon
<1>4. last \in 1 .. Len(memory_writes)
  BY <1>3 DEF Covering
<1>5. memory_writes[last] \in MemoryWriteRecord
  <2> HIDE DEF last
  <2> QED
    BY <1>4
<1> QED
  BY <1>3, <1>5, Zenon

LEMMA CommittedTyped ==
    ASSUME CoreInvariant, TypeOK, StagingInvariant, phase = "memory"
    PROVE  /\ \A c \in DOMAIN CommittedCarriers : CommittedCarriers[c] \in Word
           /\ \A a \in DOMAIN CommittedMemory : CommittedMemory[a] \in 0 .. (ByteBase - 1)
<1>1. \A c \in DOMAIN CommittedCarriers : CommittedCarriers[c] \in Word
  BY DEF TypeOK, CommittedCarriers
<1>2. ASSUME NEW a \in DOMAIN CommittedMemory
      PROVE  CommittedMemory[a] \in 0 .. (ByteBase - 1)
  <2>0. a \in DOMAIN memory
    BY <1>2 DEF CommittedMemory
  <2>1. CASE Covering(a) = {}
    BY <2>0, <2>1 DEF CommittedMemory, TypeOK
  <2>2. CASE Covering(a) # {}
    <3>1. PICK i \in Covering(a) :
              /\ i = CHOOSE k \in Covering(a) : \A j \in Covering(a) : j <= k
              /\ memory_writes[i] \in MemoryWriteRecord
      BY <2>2, LastCovering DEF StagingInvariant
    <3>2. CommittedMemory[a] = ByteOf(memory_writes[i].value, a - memory_writes[i].address)
      BY <2>0, <2>2, <3>1, Zenon DEF CommittedMemory
    <3>3. memory_writes[i].value \in Nat /\ memory_writes[i].address \in Nat
      BY <3>1, WordsAreNumbers DEF MemoryWriteRecord
    <3>4. a \in Nat
      BY <1>2 DEF StagingInvariant, CommittedMemory
    <3>5. a - memory_writes[i].address \in Int
      BY <3>3, <3>4
    <3>6. ByteOf(memory_writes[i].value, a - memory_writes[i].address) \in 0 .. (ByteBase - 1)
      BY <3>3, <3>5, ByteOfTyped
    <3> QED
      BY <3>2, <3>6
  <2> QED
    BY <2>1, <2>2
<1> QED
  BY <1>1, <1>2

LEMMA PlacedTyped ==
    ASSUME TypeOK, StagingInvariant, phase = "arguments", PlaceArguments
    PROVE  \A c \in DOMAIN carriers' : carriers'[c] \in Word
<1>1. arguments \in Seq(Word)
  BY ArgumentsAssumption DEF StagingInvariant
<1>2. ASSUME NEW c \in DOMAIN carriers, c \in ArgumentCarriers(arguments)
      PROVE  arguments[c - kArgumentCarrierBase + 1] \in Word
  <2>1. c - kArgumentCarrierBase + 1 \in 1 .. Len(arguments)
    BY <1>1, <1>2 DEF ArgumentCarriers, kArgumentCarrierBase
  <2> QED
    BY <1>1, <2>1
<1> QED
  BY <1>2 DEF PlaceArguments, TypeOK

LEMMA TypeOKInit == Init => TypeOK
<1> SUFFICES ASSUME Init PROVE TypeOK
  OBVIOUS
<1>1. VerifierTypeOK /\ HoldsWords(module_)
  BY ContentsAssumption DEF Init, VerifierInit, VerifierTypeOK
<1> QED
  BY <1>1 DEF Init, TypeOK, Nothing, NoFault, RunPhase

\* Every variable keeps its type: what arithmetic, loads, stores, arguments and
\* commits leave in carriers and memory are words and bytes.
LEMMA TypeOKStep ==
    ASSUME ArithmeticClosed, CoreInvariant, TypeOK, StagingInvariant, [Next]_vars
    PROVE  TypeOK'
<1>1. VerifierTypeOK' /\ HoldsWords(module_)'
  <2>1. [VerifierNext]_verifierVars
    BY RunKeepsModule DEF Next, Verify, vars
  <2>2. ScanInvariant'
    BY <2>1, ScanStep DEF CoreInvariant
  <2>3. VerifierTypeOK'
    BY <2>2 DEF ScanInvariant, VerifierTypeOK
  <2>4. UNCHANGED module_
    BY <2>1 DEF VerifierNext, CheckModule, ScanIsland, CheckEntry, verifierVars
  <2> QED
    BY <2>3, <2>4 DEF TypeOK, HoldsWords
<1>2. CASE Verify \/ UNCHANGED vars
  <2>1. UNCHANGED machineVars
    BY <1>2 DEF Verify, vars
  <2> QED
    BY <1>1, <2>1 DEF TypeOK, machineVars, optionVars, stateVars, islandVars, resultVars
<1>3. CASE StartRun
  <2>1. \A c \in DOMAIN carriers' : carriers'[c] \in Word
    BY <1>3 DEF StartRun, StartRunWith, TypeOK, HoldsWords
  <2>2. \A a \in DOMAIN memory' : memory'[a] \in 0 .. (ByteBase - 1)
    <3>1. module_.data \in Seq(0 .. (ByteBase - 1))
      BY DEF TypeOK, HoldsWords
    <3>2. memory' = InitialMemory(module_)
      BY <1>3 DEF StartRun, StartRunWith
    <3>3. ASSUME NEW a \in DOMAIN InitialMemory(module_)
          PROVE  InitialMemory(module_)[a] \in 0 .. (ByteBase - 1)
      <4>1. a \in Nat
        BY <3>3 DEF InitialMemory
      <4>2. a < Len(module_.data) => a + 1 \in 1 .. Len(module_.data)
        BY <3>1, <4>1
      <4>3. 0 \in 0 .. (ByteBase - 1)
        BY ByteAssumption
      <4>4. a < Len(module_.data) => module_.data[a + 1] \in 0 .. (ByteBase - 1)
        <5> DEFINE Byte == 0 .. (ByteBase - 1)
        <5>1. module_.data \in Seq(Byte)
          BY <3>1
        <5> HIDE DEF Byte
        <5>2. a < Len(module_.data) => module_.data[a + 1] \in Byte
          BY <4>2, <5>1
        <5> QED
          BY <5>2 DEF Byte
      <4>5. InitialMemory(module_)[a] = IF a < Len(module_.data) THEN module_.data[a + 1] ELSE 0
        BY <3>3 DEF InitialMemory
      <4> QED
        BY <4>3, <4>4, <4>5
    <3> QED
      BY <3>2, <3>3
  <2>3. /\ phase' = "arguments" /\ fault' = NoFault /\ value' = NoValue
        /\ islands_executed' = 0
        /\ arguments' \in Arguments /\ max_islands' \in IslandBudgets
        /\ run_limits' \in PlanLimits \cup {NoOverride}
        /\ UNCHANGED islandVars
    BY <1>3 DEF StartRun, StartRunWith, LimitsOf, Overrides, TypeOK, VerifierTypeOK
  <2> QED
    BY <1>1, <2>1, <2>2, <2>3 DEF TypeOK, islandVars, NoFault
<1>4. CASE PlaceArguments
  <2>1. \A c \in DOMAIN carriers' : carriers'[c] \in Word
    BY <1>4, PlacedTyped DEF PlaceArguments
  <2>2. /\ phase' = "dispatch"
        /\ UNCHANGED <<optionVars, memory, islands_executed, islandVars, resultVars>>
    BY <1>4 DEF PlaceArguments
  <2> QED
    BY <1>1, <2>1, <2>2 DEF TypeOK, optionVars, islandVars, resultVars, RunPhase
<1>5. CASE RefuseArguments \/ RejectContinuation \/ ExhaustBudget \/ RejectBoundary
  <2>1. /\ phase' = "done" /\ fault'.site \in {"arguments", "dispatch"}
        /\ UNCHANGED <<optionVars, stateVars, islandVars, value>>
    BY <1>5 DEF RefuseArguments, RejectContinuation, ExhaustBudget, RejectBoundary, Fail
  <2> QED
    BY <1>1, <2>1 DEF TypeOK, optionVars, stateVars, islandVars
<1>6. CASE Halt
  <2>1. /\ phase' = "done" /\ value' = ReturnValue
        /\ UNCHANGED <<optionVars, stateVars, islandVars, fault>>
    BY <1>6 DEF Halt
  <2>2. value' \in Word
    BY <1>6, <2>1, ReturnValueTyped DEF Halt
  <2> QED
    BY <1>1, <2>1, <2>2 DEF TypeOK, optionVars, stateVars, islandVars
<1>7. CASE EnterIsland
  <2>1. /\ phase' = "header" /\ opened' = Target
        /\ UNCHANGED <<optionVars, stateVars, resultVars, index, nodes, carrier_writes,
                       memory_writes>>
    BY <1>7 DEF EnterIsland
  <2>2. opened' \in Offset \cup {Refused}
    BY <2>1, TargetTyped
  <2> QED
    BY <1>1, <2>1, <2>2 DEF TypeOK, optionVars, stateVars, resultVars, RunPhase, IslandPhase
<1>8. CASE ReadHeader
  <2>1. phase' = "nodes" /\ UNCHANGED <<optionVars, stateVars, islandVars, resultVars>>
    BY <1>8 DEF ReadHeader
  <2> QED
    BY <1>1, <2>1
       DEF TypeOK, optionVars, stateVars, islandVars, resultVars, RunPhase, IslandPhase
<1>9. CASE EvaluateNode
  <2>1. NodeValue \in Word
    BY <1>9, NodeValueTyped DEF EvaluateNode
  <2>2. /\ nodes' = Extended(nodes, index, NodeValue)
        /\ index' \in {0, index + 1} /\ phase' \in {"nodes", "carriers"}
        /\ UNCHANGED <<optionVars, stateVars, resultVars, opened, carrier_writes, memory_writes>>
    BY <1>9 DEF EvaluateNode
  <2>3. \A n \in DOMAIN nodes' : nodes'[n] \in Word
    BY <2>1, <2>2, ExtendedTyped DEF TypeOK
  <2>4. index' \in Nat
    BY <2>2 DEF TypeOK
  <2> QED
    BY <1>1, <2>2, <2>3, <2>4
       DEF TypeOK, optionVars, stateVars, resultVars, RunPhase, IslandPhase
<1>10. CASE StageCarrierWrite
  <2>1. nodes[CarrierWrite.value] \in Word
    BY <1>10 DEF StageCarrierWrite, CarrierWriteFault, TypeOK
  <2>2. /\ carrier_writes' = Extended(carrier_writes, CarrierWrite.carrier,
                                      nodes[CarrierWrite.value])
        /\ index' = index + 1
        /\ UNCHANGED <<phase, optionVars, stateVars, resultVars, opened, nodes, memory_writes>>
    BY <1>10 DEF StageCarrierWrite
  <2>3. \A c \in DOMAIN carrier_writes' : carrier_writes'[c] \in Word
    BY <2>1, <2>2, ExtendedTyped DEF TypeOK
  <2> QED
    BY <1>1, <2>2, <2>3 DEF TypeOK, optionVars, stateVars, resultVars
<1>11. CASE CheckContinuationReplaced \/ StageMemoryWrite
  <2>1. /\ index' \in {0, index + 1} /\ phase' = "memory"
        /\ UNCHANGED <<optionVars, stateVars, resultVars, opened, nodes, carrier_writes>>
    BY <1>11 DEF CheckContinuationReplaced, StageMemoryWrite
  <2> QED
    BY <1>1, <2>1 DEF TypeOK, optionVars, stateVars, resultVars, RunPhase, IslandPhase
<1>12. CASE CommitIsland
  <2>1. /\ carriers' = CommittedCarriers /\ memory' = CommittedMemory
        /\ phase' = "dispatch" /\ phase = "memory"
        /\ islands_executed' = islands_executed + 1
        /\ IslandLeft
        /\ UNCHANGED <<optionVars, fault, value>>
    BY <1>12 DEF CommitIsland
  <2>2. /\ \A c \in DOMAIN carriers' : carriers'[c] \in Word
        /\ \A a \in DOMAIN memory' : memory'[a] \in 0 .. (ByteBase - 1)
    BY <2>1, CommittedTyped
  <2> QED
    BY <1>1, <2>1, <2>2 DEF TypeOK, optionVars, IslandLeft, Nothing, RunPhase
<1>13. CASE FailIsland
  <2>1. /\ phase' = "done" /\ fault'.site = "island"
        /\ IslandLeft
        /\ UNCHANGED <<optionVars, stateVars, value>>
    BY <1>13 DEF FailIsland, Fail
  <2> QED
    BY <1>1, <2>1 DEF TypeOK, optionVars, stateVars, IslandLeft, Nothing
<1> QED
  BY <1>2, <1>3, <1>4, <1>5, <1>6, <1>7, <1>8, <1>9, <1>10, <1>11, <1>12, <1>13
     DEF Next, RunStep, Dispatch, ExecuteIsland

(***************************************************************************)
(* The abstract specification reads the same stream.                       *)
(***************************************************************************)

LEMMA SameCode ==
    /\ \A program, offset : Atomic!IslandAt(program, offset) = IslandAt(program, offset)
    /\ \A island : /\ Atomic!NodeCount(island) = NodeCount(island)
                   /\ Atomic!CarrierWriteCount(island) = CarrierWriteCount(island)
                   /\ Atomic!MemoryWriteCount(island) = MemoryWriteCount(island)
    /\ \A kind : Atomic!Arity(kind) = Arity(kind) /\ Atomic!LoadWidth(kind) = LoadWidth(kind)
    /\ Atomic!Loads = Loads
    /\ Atomic!kArgumentCarrierBase = kArgumentCarrierBase
<1>1. \A kind : Atomic!Arity(kind) = Arity(kind)
  BY DEF Atomic!Arity, Arity, Atomic!Loads, Loads, Atomic!UnaryKind, UnaryKind,
         Atomic!BinaryKind, BinaryKind
<1> QED
  BY <1>1
     DEF Atomic!IslandAt, IslandAt, Atomic!NodeCount, NodeCount, Atomic!CarrierWriteCount,
         CarrierWriteCount, Atomic!MemoryWriteCount, MemoryWriteCount, Atomic!LoadWidth,
         LoadWidth, Atomic!Loads, Loads, Atomic!kArgumentCarrierBase, kArgumentCarrierBase

\* A word in memory for the runtime is in memory for the abstract island.
LEMMA SameBounds ==
    ASSUME CoreInvariant, NEW address \in Word, NEW width \in Nat,
           InMemory(address, width)
    PROVE  /\ Atomic!InMemory(address, width)
           /\ address \in 0 .. (MemorySize - width)
<1>1. MemorySize \in Nat
  BY DEF CoreInvariant, ScanInvariant, IsModule, MemorySize
<1>2. address \in 0 .. (MemorySize - width)
  BY <1>1, InMemoryIs
<1> QED
  BY <1>2 DEF Atomic!InMemory, MemorySize

LEMMA SameTarget == Atomic!OpenCarriers(carriers) = Target
BY DEF Target, OpenCarriers, Atomic!OpenCarriers, JoinXor, Atomic!JoinXor, Open, Atomic!Open,
       Seal, Atomic!Seal, Proof, Atomic!Proof, LaneMask, Atomic!LaneMask, HighHalf,
       Atomic!HighHalf, Offset, Atomic!Offset, Refused, Atomic!Refused,
       kContinuationLaneCarrier, Atomic!kContinuationLaneCarrier,
       kContinuationProofCarrier, Atomic!kContinuationProofCarrier

\* A node's value depends on nothing but the values its operands name.
LEMMA ValueDepends ==
    ASSUME NEW node, node.kind \in PrimitiveKind, NEW e, NEW f,
           \A i \in 1 .. Arity(node.kind) : e[node.operands[i] + 1] = f[node.operands[i] + 1]
    PROVE  Atomic!ValueOf(node, e) = Atomic!ValueOf(node, f)
<1>1. CASE node.kind \in {"Literal", "ReadCarrier"}
  BY <1>1, SameCode DEF Atomic!ValueOf, Loads
<1>2. CASE node.kind \in Loads
  <2>1. e[node.operands[1] + 1] = f[node.operands[1] + 1]
    BY <1>2 DEF Arity
  <2> QED
    BY <1>2, <2>1, SameCode DEF Atomic!ValueOf, Loads
<1>3. CASE node.kind = "Select"
  <2>1. Arity(node.kind) = 3
    BY <1>3 DEF Arity, Loads, UnaryKind, BinaryKind
  <2>2. \A i \in {1, 2, 3} : e[node.operands[i] + 1] = f[node.operands[i] + 1]
    BY <2>1
  <2> QED
    BY <1>3, <2>2, SameCode DEF Atomic!ValueOf, Loads
<1>4. CASE node.kind \notin {"Literal", "ReadCarrier", "Select"} \cup Loads
  <2> DEFINE operands(g) == [i \in 1 .. Arity(node.kind) |-> g[node.operands[i] + 1]]
  <2>1. operands(e) = operands(f)
    OBVIOUS
  <2>2. \A g : Atomic!ValueOf(node, g) = Compute(node.kind, node.immediate, operands(g))
    BY <1>4, SameCode DEF Atomic!ValueOf
  <2> HIDE DEF operands
  <2> QED
    BY <2>1, <2>2
<1> QED
  BY <1>1, <1>2, <1>3, <1>4

LEMMA FromDepends ==
    ASSUME NEW node, node.kind \in PrimitiveKind, NEW e, NEW f,
           \A i \in 1 .. Arity(node.kind) : e[node.operands[i]] = f[node.operands[i]]
    PROVE  ValueFrom(node, e) = ValueFrom(node, f)
<1>1. CASE node.kind \in {"Literal", "ReadCarrier"}
  BY <1>1 DEF ValueFrom
<1>2. CASE node.kind \in Loads
  <2>1. e[node.operands[1]] = f[node.operands[1]]
    BY <1>2 DEF Arity
  <2> QED
    BY <1>2, <2>1 DEF ValueFrom, Loads
<1>3. CASE node.kind = "Select"
  <2>1. Arity(node.kind) = 3
    BY <1>3 DEF Arity, Loads, UnaryKind, BinaryKind
  <2>2. \A i \in {1, 2, 3} : e[node.operands[i]] = f[node.operands[i]]
    BY <2>1
  <2> QED
    BY <1>3, <2>2 DEF ValueFrom
<1>4. CASE node.kind \notin {"Literal", "ReadCarrier", "Select"} \cup Loads
  <2> DEFINE operands(g) == [i \in 1 .. Arity(node.kind) |-> g[node.operands[i]]]
  <2>1. operands(e) = operands(f)
    OBVIOUS
  <2>2. \A g : ValueFrom(node, g) = Compute(node.kind, node.immediate, operands(g))
    BY <1>4 DEF ValueFrom, Loads
  <2> HIDE DEF operands
  <2> QED
    BY <2>1, <2>2
<1> QED
  BY <1>1, <1>2, <1>3, <1>4

\* ... and on the state it is evaluated in.
LEMMA ValueKept ==
    ASSUME UNCHANGED <<carriers, memory>>, NEW node, NEW e
    PROVE  ValueFrom(node, e)' = ValueFrom(node, e)
BY DEF ValueFrom, LoadWord

(***************************************************************************)
(* Everything evaluated or staged is what the island makes of the state of *)
(* the last boundary.                                                      *)
(***************************************************************************)

\* The values so far as AtomicIslands counts them: node n's at position n + 1.
Evaluated == [i \in {n + 1 : n \in DOMAIN nodes} |-> nodes[i - 1]]

LEMMA EvaluatedIs ==
    ASSUME NEW n \in DOMAIN nodes, DOMAIN nodes \subseteq Nat
    PROVE  Evaluated[n + 1] = nodes[n]
BY DEF Evaluated

\* The operands of a node that was evaluated were evaluated before it.
LEMMA OperandsBefore ==
    ASSUME CoreInvariant, NEW n \in DOMAIN nodes
    PROVE  /\ Island.nodes[n + 1].kind \in PrimitiveKind
           /\ DOMAIN nodes \subseteq Nat
           /\ \A i \in 1 .. Arity(Island.nodes[n + 1].kind) :
                  Island.nodes[n + 1].operands[i] \in DOMAIN nodes
<1>1. phase \in IslandPhase
  BY DEF CoreInvariant, IslandInvariant, RunPhase, IslandPhase
<1>2. /\ IsIsland(Island)
      /\ n + 1 \in 1 .. NodeCount(Island)
      /\ DOMAIN nodes \subseteq Nat /\ \A m \in 0 .. n : m \in DOMAIN nodes
      /\ NodeAccepted(module_, Island, n + 1)
  BY <1>1, InAcceptedIsland, SMTT(30)
     DEF CoreInvariant, IslandInvariant, IslandPhase, IslandAccepted, Island, IsIsland
<1> QED
  BY <1>2 DEF NodeAccepted, IsIsland

\* The value execute_island gave a node is the one its equation asks for.
LEMMA ValueAgrees ==
    ASSUME CoreInvariant, TypeOK, StagingInvariant, NEW n \in DOMAIN nodes
    PROVE  LET node == Island.nodes[n + 1]
           IN  /\ nodes[n] = Atomic!ValueOf(node, Evaluated)
               /\ node.kind \in Loads =>
                      Atomic!InMemory(Evaluated[node.operands[1] + 1], LoadWidth(node.kind))
<1> DEFINE node == Island.nodes[n + 1]
           operand(i) == nodes[node.operands[i]]
<1>1. /\ nodes[n] = ValueFrom(node, nodes)
      /\ node.kind \in Loads => InMemory(operand(1), LoadWidth(node.kind))
  BY DEF StagingInvariant, NodesEvaluated
<1>2. /\ node.kind \in PrimitiveKind
      /\ \A i \in 1 .. Arity(node.kind) : Evaluated[node.operands[i] + 1] = operand(i)
  BY OperandsBefore, EvaluatedIs
<1>3. CASE node.kind \in {"Literal", "ReadCarrier"}
  BY <1>1, <1>3, SameCode DEF ValueFrom, Atomic!ValueOf, Loads
<1>4. CASE node.kind \in Loads
  <2>1. /\ Evaluated[node.operands[1] + 1] = operand(1)
        /\ InMemory(operand(1), LoadWidth(node.kind))
        /\ Atomic!InMemory(operand(1), LoadWidth(node.kind))
        /\ operand(1) \in 0 .. (MemorySize - LoadWidth(node.kind))
    <3>1. /\ Evaluated[node.operands[1] + 1] = operand(1)
          /\ InMemory(operand(1), LoadWidth(node.kind))
      BY <1>1, <1>2, <1>4 DEF Arity
    <3>2. operand(1) \in Word
      BY <1>4, OperandsBefore DEF TypeOK, Arity, Loads
    <3>3. LoadWidth(node.kind) \in Nat
      BY WordBytesAssumption DEF LoadWidth
    <3> QED
      BY <3>1, <3>2, <3>3, SameBounds
  <2>2. Atomic!ValueOf(node, Evaluated) = Atomic!Load(operand(1), LoadWidth(node.kind))
    BY <1>4, <2>1, SameCode DEF Atomic!ValueOf, Loads
  <2>3. nodes[n] = Atomic!Load(operand(1), LoadWidth(node.kind))
    <3>1. CASE node.kind = "ReadMemory8"
      <4>1. PICK from : /\ IsLoad(from, operand(1), 1)
                        /\ Atomic!Load(operand(1), 1) =
                               IF Atomic!InMemory(operand(1), 1) THEN from[0] ELSE 0
        BY AtomicLoadIs
      <4>2. from[0] = memory[operand(1) + 0] + ByteBase * from[1] /\ from[1] = 0
        <5>1. \A i \in 0 .. 1 : from[i] = IF i = 1 THEN 0
                                         ELSE memory[operand(1) + i] + ByteBase * from[i + 1]
          BY <4>1, Zenon DEF IsLoad
        <5>2. 0 \in 0 .. 1 /\ 1 \in 0 .. 1 /\ 0 # 1 /\ 0 + 1 = 1
          OBVIOUS
        <5> QED
          BY <5>1, <5>2, Zenon
      <4>3. operand(1) \in 0 .. (MemorySize - 1)
        BY <2>1, <3>1 DEF LoadWidth
      <4>4. memory[operand(1)] \in Int
        <5>1. phase # "idle"
          BY DEF CoreInvariant, IslandInvariant, RunPhase, IslandPhase
        <5> QED
          BY <4>3, <5>1 DEF TypeOK, StagingInvariant, MemorySize
      <4>5. from[0] = memory[operand(1)]
        BY <4>2, <4>3, <4>4, ByteAssumption
      <4> QED
        BY <1>1, <2>1, <3>1, <4>1, <4>5 DEF ValueFrom, LoadWidth
    <3>2. CASE node.kind = "ReadMemory64"
      <4>1. Atomic!Load(operand(1), WordBytes) =
                IF Atomic!InMemory(operand(1), WordBytes) THEN LoadWord(operand(1)) ELSE 0
        BY Zenon DEF Atomic!Load, LoadWord
      <4> QED
        BY <1>1, <2>1, <3>2, <4>1 DEF ValueFrom, LoadWidth
    <3> QED
      BY <1>4, <3>1, <3>2 DEF Loads
  <2> QED
    BY <2>1, <2>2, <2>3
<1>5. CASE node.kind = "Select"
  <2>1. Arity(node.kind) = 3
    BY <1>5 DEF Arity, Loads, UnaryKind, BinaryKind
  <2>2. \A i \in {1, 2, 3} : Evaluated[node.operands[i] + 1] = operand(i)
    BY <1>2, <2>1
  <2>3. nodes[n] = IF operand(1) # 0 THEN operand(2) ELSE operand(3)
    BY <1>1, <1>5 DEF ValueFrom
  <2> QED
    BY <1>5, <2>2, <2>3, SameCode DEF Atomic!ValueOf, Loads
<1>6. CASE node.kind \notin {"Literal", "ReadCarrier", "Select"} \cup Loads
  <2> DEFINE here == [i \in 1 .. Arity(node.kind) |-> operand(i)]
             there == [i \in 1 .. Arity(node.kind) |-> Evaluated[node.operands[i] + 1]]
  <2>1. here = there
    BY <1>2
  <2>2. nodes[n] = Compute(node.kind, node.immediate, here)
    BY <1>1, <1>6 DEF ValueFrom, Loads
  <2>3. Atomic!ValueOf(node, Evaluated) = Compute(node.kind, node.immediate, there)
    BY <1>6, SameCode DEF Atomic!ValueOf
  <2> HIDE DEF here, there
  <2> QED
    BY <1>6, <2>1, <2>2, <2>3
<1> QED
  BY <1>3, <1>4, <1>5, <1>6

\* Outside the loops of execute_island there is nothing evaluated or staged.
LEMMA NothingStaged ==
    ASSUME DOMAIN nodes' = {}, DOMAIN carrier_writes' = {},
           memory_writes' \in Seq(MemoryWriteRecord), Len(memory_writes') = 0,
           phase' # "memory",
           phase' # "idle" => /\ arguments' \in Arguments
                              /\ DOMAIN memory' = 0 .. (module_'.memory_size - 1),
           phase' \in IslandPhase => opened' = Target'
    PROVE  StagingInvariant'
<1>1. NodesEvaluated'
  BY DEF NodesEvaluated
<1>2. CarriersStaged'
  BY DEF CarriersStaged
<1>3. StoresStaged'
  BY DEF StoresStaged
<1> QED
  BY <1>1, <1>2, <1>3 DEF StagingInvariant

LEMMA NodesKept ==
    ASSUME NodesEvaluated, UNCHANGED <<module_, carriers, memory, nodes, opened>>
    PROVE  NodesEvaluated'
<1>1. \A node, e : ValueFrom(node, e)' = ValueFrom(node, e)
  BY ValueKept
<1>2. \A address, width : InMemory(address, width)' = InMemory(address, width)
  BY DEF InMemory, MemorySize
<1> QED
  BY <1>1, <1>2 DEF NodesEvaluated, Island

\* create, and calls of run that have not begun, stage nothing.
LEMMA StagedOutside ==
    ASSUME CoreInvariant, StagingInvariant, phase \notin {"nodes", "carriers", "memory"}
    PROVE  /\ DOMAIN nodes = {} /\ DOMAIN carrier_writes = {}
           /\ memory_writes \in Seq(MemoryWriteRecord) /\ Len(memory_writes) = 0
<1>1. phase \in {"idle", "arguments", "done", "dispatch", "header"}
  BY DEF CoreInvariant, IslandInvariant, RunPhase, IslandPhase
<1> QED
  BY <1>1 DEF CoreInvariant, IslandInvariant, StagingInvariant, StoresStaged

LEMMA StagingInit == Init => StagingInvariant
<1> SUFFICES ASSUME Init PROVE StagingInvariant
  OBVIOUS
<1>1. DOMAIN nodes = {} /\ DOMAIN carrier_writes = {} /\ memory_writes = << >> /\ phase = "idle"
  BY DEF Init, Nothing
<1> QED
  BY <1>1 DEF StagingInvariant, NodesEvaluated, CarriersStaged, StoresStaged, IslandPhase

LEMMA StagingStepOutside ==
    ASSUME CoreInvariant, StagingInvariant,
           \/ Verify \/ StartRun \/ RefuseArguments \/ PlaceArguments \/ Dispatch
           \/ UNCHANGED vars
    PROVE  StagingInvariant'
<1>1. CASE UNCHANGED vars
  <2>1. UNCHANGED <<module_, phase, arguments, carriers, memory, opened, index, nodes,
                    carrier_writes, memory_writes>>
    BY <1>1 DEF vars, verifierVars, machineVars, optionVars, stateVars, islandVars
  <2>2. NodesEvaluated'
    BY <2>1, NodesKept DEF StagingInvariant
  <2>3. CarriersStaged'
    BY <2>1 DEF StagingInvariant, CarriersStaged, Island
  <2>4. StoresStaged'
    BY <2>1 DEF StagingInvariant, StoresStaged, Island, InMemory, MemorySize
  <2> QED
    BY <2>1, <2>2, <2>3, <2>4 DEF StagingInvariant, Target
<1>2. CASE ~ UNCHANGED vars
  <2>1. phase \notin {"nodes", "carriers", "memory"}
    <3>1. Verify => phase = "idle"
      BY VerifyIsFirst DEF CoreInvariant
    <3> QED
      BY <1>2, <3>1 DEF StartRun, StartRunWith, RefuseArguments, PlaceArguments, Dispatch,
                        RejectContinuation, Halt, ExhaustBudget, RejectBoundary, EnterIsland
  <2>2. /\ DOMAIN nodes = {} /\ DOMAIN carrier_writes = {}
        /\ memory_writes \in Seq(MemoryWriteRecord) /\ Len(memory_writes) = 0
    BY <2>1, StagedOutside
  <2>3. UNCHANGED <<nodes, carrier_writes, memory_writes>>
    BY <1>2 DEF Verify, machineVars, StartRun, StartRunWith, RefuseArguments, PlaceArguments, Dispatch,
                RejectContinuation, Halt, ExhaustBudget, RejectBoundary, EnterIsland, islandVars
  <2>4. CASE Verify
    <3>1. phase = "idle" /\ phase' = "idle"
      BY <2>4, VerifyIsFirst DEF CoreInvariant, machineVars
    <3> QED
      BY <2>2, <2>3, <3>1, NothingStaged DEF IslandPhase
  <2>5. CASE StartRun
    <3>1. /\ phase' = "arguments" /\ arguments' \in Arguments
          /\ memory' = InitialMemory(module_) /\ UNCHANGED module_
      BY <2>5 DEF StartRun, StartRunWith, verifierVars
    <3>2. DOMAIN memory' = 0 .. (module_'.memory_size - 1)
      BY <3>1 DEF InitialMemory
    <3> QED
      BY <2>2, <2>3, <3>1, <3>2, NothingStaged DEF IslandPhase
  <2>6. CASE RefuseArguments \/ PlaceArguments \/ Dispatch
    <3>1. /\ phase # "idle" /\ phase' # "memory"
          /\ UNCHANGED <<module_, arguments, memory>>
      BY <2>6 DEF RefuseArguments, Fail, PlaceArguments, Dispatch, RejectContinuation, Halt,
                  ExhaustBudget, RejectBoundary, EnterIsland, verifierVars, optionVars, stateVars
    <3>2. phase' \in IslandPhase => opened' = Target'
      BY <2>6 DEF RefuseArguments, Fail, PlaceArguments, Dispatch, RejectContinuation, Halt,
                  ExhaustBudget, RejectBoundary, EnterIsland, stateVars, IslandPhase, Target
    <3>3. arguments \in Arguments /\ DOMAIN memory = 0 .. (module_.memory_size - 1)
      BY <3>1 DEF StagingInvariant
    <3> QED
      BY <2>2, <2>3, <3>1, <3>2, <3>3, NothingStaged
  <2> QED
    BY <1>2, <2>4, <2>5, <2>6
<1> QED
  BY <1>1, <1>2

\* The island's equations hold of the values so far, and still do when a node
\* has been added: it refers to nodes before it only.
LEMMA NodesEvaluatedStep ==
    ASSUME CoreInvariant, TypeOK, StagingInvariant, EvaluateNode
    PROVE  NodesEvaluated'
<1>1. /\ phase = "nodes" /\ NodeFault = "none"
      /\ nodes' = Extended(nodes, index, NodeValue)
      /\ UNCHANGED <<module_, carriers, memory, opened>>
  BY DEF EvaluateNode, verifierVars, stateVars
<1>2. /\ IsIsland(Island)
      /\ index \in 0 .. (NodeCount(Island) - 1)
      /\ DOMAIN nodes = 0 .. (index - 1)
      /\ \A n \in 1 .. NodeCount(Island) : NodeAccepted(module_, Island, n)
      /\ NodeCount(Island) \in Nat
  BY <1>1, InAcceptedIsland
     DEF CoreInvariant, IslandInvariant, IslandPhase, IslandAccepted, Island, IsIsland
<1>3. /\ DOMAIN nodes' = 0 .. index
      /\ nodes'[index] = NodeValue
      /\ \A n \in 0 .. (index - 1) : nodes'[n] = nodes[n]
  BY <1>1, <1>2 DEF Extended
<1>4. ASSUME NEW n \in 0 .. index, NEW i \in 1 .. Arity(Island.nodes[n + 1].kind)
      PROVE  nodes'[Island.nodes[n + 1].operands[i]] = nodes[Island.nodes[n + 1].operands[i]]
  <2> DEFINE node == Island.nodes[n + 1]
  <2>1. n + 1 \in 1 .. NodeCount(Island)
    BY <1>2
  <2>2. node.operands[i] \in Nat /\ node.operands[i] < n
    BY <1>2, <2>1 DEF NodeAccepted, IsIsland
  <2>3. node.operands[i] \in 0 .. (index - 1)
    BY <1>2, <2>2
  <2> QED
    BY <1>3, <2>3
<1>5. \A node, e : ValueFrom(node, e)' = ValueFrom(node, e)
  BY <1>1, ValueKept
<1>6. \A address, width : InMemory(address, width)' = InMemory(address, width)
  BY <1>1 DEF InMemory, MemorySize
<1>7. ASSUME NEW n \in 0 .. index
      PROVE  /\ nodes'[n] = ValueFrom(Island.nodes[n + 1], nodes')
             /\ Island.nodes[n + 1].kind \in Loads =>
                    InMemory(nodes'[Island.nodes[n + 1].operands[1]],
                             LoadWidth(Island.nodes[n + 1].kind))
  <2> DEFINE node == Island.nodes[n + 1]
  <2>1. /\ nodes'[n] = ValueFrom(node, nodes)
        /\ node.kind \in Loads => InMemory(nodes[node.operands[1]], LoadWidth(node.kind))
    <3>1. CASE n = index
      BY <1>1, <1>3, <3>1 DEF Node, NodeValue, NodeFault, Operand
    <3>2. CASE n \in 0 .. (index - 1)
      BY <1>2, <1>3, <3>2 DEF StagingInvariant, NodesEvaluated
    <3> QED
      BY <1>2, <3>1, <3>2
  <2>2. node.kind \in PrimitiveKind
    BY <1>2 DEF NodeAccepted
  <2>3. ValueFrom(node, nodes') = ValueFrom(node, nodes)
    BY <1>4, <2>2, FromDepends
  <2>4. node.kind \in Loads => nodes'[node.operands[1]] = nodes[node.operands[1]]
    BY <1>4 DEF Arity
  <2> QED
    BY <2>1, <2>3, <2>4
<1>8. Island' = Island
  BY <1>1 DEF Island
<1> QED
  BY <1>3, <1>5, <1>6, <1>7, <1>8 DEF NodesEvaluated

LEMMA CarriersStagedStep ==
    ASSUME CoreInvariant, StagingInvariant, StageCarrierWrite
    PROVE  CarriersStaged'
<1>1. /\ phase = "carriers" /\ phase' = "carriers"
      /\ carrier_writes' = Extended(carrier_writes, CarrierWrite.carrier, nodes[CarrierWrite.value])
      /\ UNCHANGED <<Island, nodes>>
  BY DEF StageCarrierWrite, verifierVars, Island
<1>2. /\ IsIsland(Island)
      /\ index + 1 \in 1 .. CarrierWriteCount(Island)
      /\ DOMAIN carrier_writes = {Island.carrier_writes[m].carrier : m \in 1 .. index}
      /\ CarrierWriteCount(Island) \in Nat
      /\ \A n \in 1 .. CarrierWriteCount(Island) : CarrierWriteAccepted(module_, Island, n)
  BY <1>1, InAcceptedIsland
     DEF CoreInvariant, IslandInvariant, IslandPhase, IslandAccepted, Island, IsIsland,
         StageCarrierWrite, MoreCarrierWrites
<1>3. \A n, m \in 1 .. CarrierWriteCount(Island) :
          Island.carrier_writes[n].carrier = Island.carrier_writes[m].carrier => n = m
  <2>1. \A n \in 1 .. CarrierWriteCount(Island) : \A m \in 1 .. (n - 1) :
            Island.carrier_writes[m].carrier # Island.carrier_writes[n].carrier
    BY <1>2 DEF CarrierWriteAccepted
  <2>2. \A n, m \in 1 .. CarrierWriteCount(Island) : n = m \/ n \in 1 .. (m - 1) \/ m \in 1 .. (n - 1)
    BY <1>2
  <2> QED
    BY <2>1, <2>2
<1>4. ASSUME NEW n \in 1 .. CarrierWriteCount(Island),
             Island.carrier_writes[n].carrier \in DOMAIN carrier_writes'
      PROVE  carrier_writes'[Island.carrier_writes[n].carrier] = nodes[Island.carrier_writes[n].value]
  <2>1. CASE n = index + 1
    BY <1>1, <2>1 DEF Extended, CarrierWrite
  <2>2. CASE n # index + 1
    <3>1. Island.carrier_writes[n].carrier # CarrierWrite.carrier
      BY <1>2, <1>3, <2>2 DEF CarrierWrite
    <3>2. Island.carrier_writes[n].carrier \in DOMAIN carrier_writes
      BY <1>1, <1>4, <3>1 DEF Extended
    <3>3. carrier_writes'[Island.carrier_writes[n].carrier]
              = carrier_writes[Island.carrier_writes[n].carrier]
      BY <1>1, <3>1, <3>2 DEF Extended
    <3> QED
      BY <3>2, <3>3 DEF StagingInvariant, CarriersStaged
  <2> QED
    BY <2>1, <2>2
<1> QED
  BY <1>1, <1>4 DEF CarriersStaged

LEMMA StoresStagedStep ==
    ASSUME CoreInvariant, TypeOK, StagingInvariant, StageMemoryWrite
    PROVE  StoresStaged' /\ memory_writes' \in Seq(MemoryWriteRecord)
<1> DEFINE n == Len(memory_writes) + 1
<1>1. /\ phase = "memory" /\ phase' = "memory" /\ MemoryWriteFault = "none"
      /\ memory_writes' = Append(memory_writes, Staged)
      /\ index' = index + 1
      /\ UNCHANGED <<module_, Island, nodes>>
  BY DEF StageMemoryWrite, verifierVars, Island
<1>2. /\ MemoryWrite.width \in StoreWidths
      /\ MemoryWrite.address \in DOMAIN nodes
      /\ MemoryWrite.value \in DOMAIN nodes
      /\ InMemory(Staged.address, Staged.width)
      /\ \A i \in 1 .. Len(memory_writes) : ~ Overlap(Staged, memory_writes[i])
  BY <1>1 DEF MemoryWriteFault
<1>3. Staged \in MemoryWriteRecord
  BY <1>2 DEF Staged, StoreWidths, MemoryWriteRecord, TypeOK
<1>4. memory_writes \in Seq(MemoryWriteRecord) /\ Len(memory_writes) = index
  BY <1>1 DEF StagingInvariant, StoresStaged
<1>5. /\ memory_writes' \in Seq(MemoryWriteRecord)
      /\ Len(memory_writes') = n /\ n \in Nat
      /\ memory_writes'[n] = Staged
      /\ \A i \in 1 .. (n - 1) : memory_writes'[i] = memory_writes[i]
  BY <1>1, <1>3, <1>4
<1>6. \A address, width : InMemory(address, width)' = InMemory(address, width)
  BY <1>1 DEF InMemory, MemorySize
<1>7. ASSUME NEW i \in 1 .. n
      PROVE  LET write == Island.memory_writes[i]
             IN  /\ memory_writes'[i] = [address |-> nodes[write.address], width |-> write.width,
                                         value |-> nodes[write.value]]
                 /\ InMemory(memory_writes'[i].address, memory_writes'[i].width)
                 /\ \A m \in 1 .. (i - 1) : ~ Overlap(memory_writes'[i], memory_writes'[m])
  <2>1. CASE i = n
    <3>1. Staged = [address |-> nodes[Island.memory_writes[i].address],
                    width |-> Island.memory_writes[i].width,
                    value |-> nodes[Island.memory_writes[i].value]]
      BY <1>4, <2>1 DEF Staged, MemoryWrite
    <3>2. \A m \in 1 .. (i - 1) : ~ Overlap(memory_writes'[i], memory_writes'[m])
      BY <1>2, <1>5, <2>1
    <3> QED
      BY <1>2, <1>5, <2>1, <3>1, <3>2
  <2>2. CASE i # n
    <3>1. i \in 1 .. Len(memory_writes)
      BY <1>4, <1>5, <2>2
    <3>2. \A m \in 1 .. (i - 1) : memory_writes'[m] = memory_writes[m]
      BY <1>5, <3>1
    <3>3. memory_writes'[i] = memory_writes[i]
      BY <1>5, <3>1
    <3> QED
      BY <3>1, <3>2, <3>3 DEF StagingInvariant, StoresStaged
  <2> QED
    BY <2>1, <2>2
<1> QED
  BY <1>1, <1>4, <1>5, <1>6, <1>7 DEF StoresStaged

LEMMA StagingStepInside ==
    ASSUME CoreInvariant, TypeOK, StagingInvariant, ExecuteIsland
    PROVE  StagingInvariant'
<1>1. /\ phase \in IslandPhase /\ phase # "idle"
      /\ arguments \in Arguments
      /\ DOMAIN memory = 0 .. (module_.memory_size - 1)
      /\ opened = Target
      /\ UNCHANGED <<module_, arguments>>
  BY DEF ExecuteIsland, ReadHeader, EvaluateNode, StageCarrierWrite, CheckContinuationReplaced,
         StageMemoryWrite, CommitIsland, FailIsland, IslandPhase, StagingInvariant, verifierVars,
         optionVars
<1>2. CASE ReadHeader
  <2>1. phase = "header" /\ phase' = "nodes" /\ UNCHANGED <<stateVars, islandVars>>
    BY <1>2 DEF ReadHeader
  <2>2. /\ DOMAIN nodes = {} /\ DOMAIN carrier_writes = {}
        /\ memory_writes \in Seq(MemoryWriteRecord) /\ Len(memory_writes) = 0
    BY <2>1, StagedOutside
  <2>3. opened' = Target'
    BY <1>1, <2>1 DEF Target, stateVars, islandVars
  <2> QED
    BY <1>1, <2>1, <2>2, <2>3, NothingStaged DEF stateVars, islandVars
<1>3. CASE CommitIsland \/ FailIsland
  <2>1. /\ phase' \in {"dispatch", "done"} /\ IslandLeft
        /\ DOMAIN memory' = DOMAIN memory
    BY <1>3 DEF CommitIsland, CommittedMemory, FailIsland, Fail, stateVars
  <2> QED
    BY <1>1, <2>1, NothingStaged DEF IslandLeft, Nothing, IslandPhase
<1>4. ASSUME UNCHANGED <<carriers, memory, opened>>, phase' \in IslandPhase, NodesEvaluated',
             CarriersStaged', StoresStaged', memory_writes' \in Seq(MemoryWriteRecord)
      PROVE  StagingInvariant'
  BY <1>1, <1>4 DEF StagingInvariant, Target
<1>5. CASE EvaluateNode
  <2>1. /\ phase = "nodes" /\ phase' \in {"nodes", "carriers"}
        /\ UNCHANGED <<carriers, memory, opened, carrier_writes, memory_writes>>
    BY <1>5 DEF EvaluateNode, stateVars
  <2>2. DOMAIN carrier_writes = {} /\ Len(memory_writes) = 0
    BY <2>1 DEF CoreInvariant, IslandInvariant, StagingInvariant, StoresStaged
  <2>3. CarriersStaged' /\ StoresStaged'
    BY <2>1, <2>2 DEF CarriersStaged, StoresStaged
  <2>4. memory_writes' \in Seq(MemoryWriteRecord)
    BY <2>1 DEF StagingInvariant
  <2> QED
    BY <1>4, <1>5, <2>1, <2>3, <2>4, NodesEvaluatedStep DEF IslandPhase
<1>6. CASE StageCarrierWrite
  <2>1. /\ phase = "carriers" /\ phase' = "carriers"
        /\ UNCHANGED <<carriers, memory, opened, nodes, memory_writes>>
    BY <1>6 DEF StageCarrierWrite, stateVars
  <2>2. StoresStaged' /\ memory_writes' \in Seq(MemoryWriteRecord)
    BY <2>1 DEF StagingInvariant, StoresStaged
  <2>3. NodesEvaluated'
    BY <1>1, <2>1, NodesKept DEF StagingInvariant
  <2> QED
    BY <1>4, <1>6, <2>1, <2>2, <2>3, CarriersStagedStep DEF IslandPhase
<1>7. CASE CheckContinuationReplaced
  <2>1. /\ phase = "carriers" /\ phase' = "memory" /\ index' = 0 /\ ~ MoreCarrierWrites
        /\ UNCHANGED <<carriers, memory, opened, nodes, carrier_writes, memory_writes>>
    BY <1>7 DEF CheckContinuationReplaced, stateVars
  <2>2. StoresStaged' /\ memory_writes' \in Seq(MemoryWriteRecord)
    BY <2>1 DEF StagingInvariant, StoresStaged
  <2>3. NodesEvaluated'
    BY <1>1, <2>1, NodesKept DEF StagingInvariant
  <2>4. Island' = Island
    BY <1>1, <2>1 DEF Island
  <2>5. DOMAIN carrier_writes = WrittenCarriers(Island)
    <3>1. /\ CarrierWriteCount(Island) \in Nat
          /\ index \in 0 .. CarrierWriteCount(Island)
          /\ DOMAIN carrier_writes = {Island.carrier_writes[n].carrier : n \in 1 .. index}
      BY <1>1, <2>1, InAcceptedIsland DEF CoreInvariant, IslandInvariant, IsIsland
    <3>2. index = CarrierWriteCount(Island)
      BY <2>1, <3>1 DEF MoreCarrierWrites
    <3> QED
      BY <3>1, <3>2 DEF WrittenCarriers
  <2>6. CarriersStaged'
    BY <2>1, <2>4, <2>5 DEF StagingInvariant, CarriersStaged
  <2> QED
    BY <1>4, <2>1, <2>2, <2>3, <2>6 DEF IslandPhase
<1>8. CASE StageMemoryWrite
  <2>1. /\ phase = "memory" /\ phase' = "memory"
        /\ UNCHANGED <<carriers, memory, opened, nodes, carrier_writes>>
    BY <1>8 DEF StageMemoryWrite, stateVars
  <2>2. NodesEvaluated'
    BY <1>1, <2>1, NodesKept DEF StagingInvariant
  <2>3. CarriersStaged'
    BY <1>1, <2>1 DEF StagingInvariant, CarriersStaged, Island
  <2> QED
    BY <1>4, <1>8, <2>1, <2>2, <2>3, StoresStagedStep DEF IslandPhase
<1> QED
  BY <1>2, <1>3, <1>5, <1>6, <1>7, <1>8 DEF ExecuteIsland

LEMMA InvariantInit == Init => Invariant
BY CoreInvariantInit, TypeOKInit, StagingInit DEF Invariant

LEMMA InvariantStep == ArithmeticClosed => (Invariant /\ [Next]_vars => Invariant')
<1> SUFFICES ASSUME ArithmeticClosed, Invariant, [Next]_vars PROVE Invariant'
  OBVIOUS
<1>1. CoreInvariant /\ TypeOK /\ StagingInvariant
  BY DEF Invariant
<1>2. CoreInvariant'
  BY <1>1, CoreInvariantStep
<1>3. TypeOK'
  BY <1>1, TypeOKStep
<1>4. StagingInvariant'
  BY <1>1, StagingStepOutside, StagingStepInside DEF Next, RunStep
<1> QED
  BY <1>2, <1>3, <1>4 DEF Invariant

\* The whole inductive invariant, the one the run checks.
THEOREM InvariantHolds == ASSUME ArithmeticClosed PROVE Spec => []Invariant
<1>1. Invariant /\ [Next]_vars => Invariant'
  BY InvariantStep
<1> QED
  BY <1>1, InvariantInit, PTL DEF Spec

\* Every variable of a run keeps its type.
THEOREM TypesHold == ASSUME ArithmeticClosed PROVE Spec => []TypeOK
<1>1. Invariant => TypeOK
  BY DEF Invariant
<1> QED
  BY <1>1, InvariantHolds, PTL

(***************************************************************************)
(* The refinement.                                                         *)
(***************************************************************************)

\* tile[q]: q is reached by laying islands end to end.
IsTiling(tile, offset) ==
    tile = [q \in 0 .. offset |->
               \/ q = 0
               \/ \E p \in 0 .. (q - 1) : p + IslandAt(module_, p).size = q /\ tile[p]]

LEMMA TilingExists ==
    ASSUME NEW offset \in Nat
    PROVE  \E tile : IsTiling(tile, offset)
<1> DEFINE Body(g, q) == \/ q = 0
                         \/ \E p \in 0 .. (q - 1) : p + IslandAt(module_, p).size = q /\ g[p]
           Solves(g, k) == g = [q \in 0 .. k |-> Body(g, q)]
           Solved == {k \in 0 .. offset : \E g : Solves(g, k)}
<1>1. 0 \in Solved
  <2> DEFINE g == [q \in 0 .. 0 |-> TRUE]
  <2>1. \A q \in 0 .. 0 : q = 0
    OBVIOUS
  <2>2. \A q \in 0 .. 0 : Body(g, q) = TRUE
    BY <2>1, Zenon
  <2>3. Solves(g, 0)
    <3> HIDE DEF Body
    <3> QED
      BY <2>2
  <2> HIDE DEF g, Solves
  <2> QED
    BY <2>3
<1>2. ASSUME NEW k \in 1 .. offset, k - 1 \in Solved PROVE k \in Solved
  <2>1. PICK g : Solves(g, k - 1)
    BY <1>2
  <2> DEFINE h == [q \in 0 .. k |-> Body(g, q)]
  <2>2. ASSUME NEW p \in 0 .. (k - 1) PROVE h[p] = g[p]
    <3> HIDE DEF Body
    <3> QED
      BY <2>1
  <2>3. ASSUME NEW q \in 0 .. k PROVE Body(h, q) = Body(g, q)
    <3> HIDE DEF h
    <3>1. \A p \in 0 .. (q - 1) : h[p] = g[p]
      BY <2>2
    <3> QED
      BY <3>1, Zenon
  <2>4. Solves(h, k)
    <3> HIDE DEF Body
    <3> QED
      BY <2>3
  <2> HIDE DEF h, Solves
  <2> QED
    BY <2>4
<1> HIDE DEF Solves
<1>3. Solved \in SUBSET (0 .. offset)
  OBVIOUS
<1>4. offset \in Solved
  <2> HIDE DEF Solved
  <2> QED
    BY <1>1, <1>2, <1>3, UpTo
<1>5. PICK g : Solves(g, offset)
  BY <1>4
<1> QED
  BY <1>5, Zenon DEF IsTiling, Solves

\* Every boundary the scan found is reached by laying islands end to end.
LEMMA BoundaryIsTiled ==
    ASSUME ScanInvariant, verdict = "verified", NEW offset \in Boundaries
    PROVE  Atomic!IsBoundary(offset)
<1> DEFINE tile == CHOOSE t : IsTiling(t, offset)
<1>1. offset \in Nat
  BY BoundaryAccepted
<1>2. IsTiling(tile, offset)
  BY <1>1, TilingExists, Zenon
<1>3. Atomic!IsBoundary(offset) = tile[offset]
  BY SameCode, Zenon DEF Atomic!IsBoundary, IsTiling, Atomic!IslandAt, IslandAt
<1> HIDE DEF tile
<1> DEFINE n == Len(island_offsets)
           Reached == {k \in 0 .. n : k = 0 \/ (island_offsets[k] <= offset => tile[island_offsets[k]])}
<1>4. n \in Nat
  BY DEF ScanInvariant
<1>5. \A q \in 0 .. offset : tile[q] <=> \/ q = 0
                                         \/ \E p \in 0 .. (q - 1) :
                                                p + IslandAt(module_, p).size = q /\ tile[p]
  BY <1>2, Zenon DEF IsTiling
<1>6. ASSUME NEW k \in 1 .. n, k - 1 \in Reached PROVE k \in Reached
  <2> SUFFICES ASSUME island_offsets[k] <= offset PROVE tile[island_offsets[k]]
    OBVIOUS
  <2>1. island_offsets[k] \in 0 .. offset
    BY <1>1, <1>4 DEF ScanInvariant
  <2>2. CASE k = 1
    <3>1. island_offsets[k] = 0
      BY <2>2 DEF ScanInvariant
    <3> QED
      BY <1>5, <2>1, <3>1
  <2>3. CASE k # 1
    <3> DEFINE p == island_offsets[k - 1]
    <3>1. k - 1 \in 1 .. n
      BY <1>4, <2>3
    <3>2. p \in Nat /\ IslandAccepted(module_, p, plan_limits) /\ IsModule(module_)
      BY <3>1, SMTT(30) DEF ScanInvariant
    <3>3. IslandAt(module_, p).size \in Nat /\ IslandAt(module_, p).size >= kIslandHeaderSize
      BY <3>2, AcceptedSize
    <3>4. p + IslandAt(module_, p).size = island_offsets[k]
      BY <2>3, <3>1 DEF ScanInvariant, TileEnd
    <3>5. p \in 0 .. (island_offsets[k] - 1) /\ p <= offset
      <4> DEFINE size == IslandAt(module_, p).size
                 end == island_offsets[k]
      <4>1. /\ p \in Nat /\ size \in Nat /\ size >= 12
            /\ p + size = end /\ end \in 0 .. offset
        BY <2>1, <3>2, <3>3, <3>4 DEF kIslandHeaderSize
      <4> HIDE DEF size, end, p
      <4>2. p \in 0 .. (end - 1) /\ p <= offset
        BY <1>1, <4>1
      <4> QED
        BY <4>2 DEF end
    <3>6. tile[p]
      BY <1>6, <3>1, <3>5
    <3> HIDE DEF p
    <3> QED
      BY <1>5, <2>1, <3>4, <3>5, <3>6, Zenon
  <2> QED
    BY <2>2, <2>3
<1>7. 0 \in Reached /\ Reached \in SUBSET (0 .. n)
  BY <1>4
<1>8. Reached = 0 .. n
  <2> HIDE DEF Reached, n
  <2> QED
    BY <1>4, <1>6, <1>7, UpTo
<1>9. PICK i \in 1 .. n : offset = island_offsets[i]
  BY DEF Boundaries
<1>10. i \in Reached /\ i # 0
  BY <1>4, <1>8
<1>11. tile[offset]
  BY <1>1, <1>9, <1>10
<1> QED
  BY <1>3, <1>11, Zenon

(***************************************************************************)
(* A commit is a whole island.                                             *)
(***************************************************************************)

LEMMA CommitFacts ==
    ASSUME CoreInvariant, TypeOK, StagingInvariant, CommitIsland
    PROVE  /\ phase = "memory" /\ ScanInvariant /\ verdict = "verified"
           /\ IsIsland(Island)
           /\ opened = Target /\ opened \in Boundaries
           /\ opened \in 0 .. (module_.code_size - 1)
           /\ \A n \in 1 .. NodeCount(Island) : NodeAccepted(module_, Island, n)
           /\ \A n \in 1 .. CarrierWriteCount(Island) : CarrierWriteAccepted(module_, Island, n)
           /\ \A n \in 1 .. MemoryWriteCount(Island) : MemoryWriteAccepted(Island, n)
           /\ DOMAIN nodes = 0 .. (NodeCount(Island) - 1)
           /\ DOMAIN carrier_writes = WrittenCarriers(Island)
           /\ Len(memory_writes) = MemoryWriteCount(Island)
<1>1. phase = "memory" /\ ~ MoreMemoryWrites
  BY DEF CommitIsland
<1>2. /\ opened \in Nat /\ IslandAccepted(module_, opened, plan_limits)
      /\ IsIsland(Island) /\ verdict = "verified" /\ module_.code_size \in Nat
  BY <1>1, InAcceptedIsland DEF CoreInvariant, IslandPhase
<1>3. opened + kIslandHeaderSize <= module_.code_size
  BY <1>2 DEF IslandAccepted, HeaderAccepted
<1>4. opened \in 0 .. (module_.code_size - 1)
  BY <1>2, <1>3 DEF kIslandHeaderSize
<1>5. Len(memory_writes) = MemoryWriteCount(Island)
  BY <1>1, <1>2 DEF CoreInvariant, IslandInvariant, StagingInvariant, StoresStaged,
                    MoreMemoryWrites, IsIsland
<1> QED
  BY <1>1, <1>2, <1>4, <1>5
     DEF CoreInvariant, IslandInvariant, StagingInvariant, CarriersStaged, IslandAccepted,
         IslandPhase, Island

\* The recursion of NodeValues gives the values the nodes were evaluated to.
LEMMA NodeValuesAre ==
    ASSUME CoreInvariant, TypeOK, StagingInvariant, CommitIsland
    PROVE  Atomic!NodeValues(Island) = Evaluated
<1> DEFINE count == NodeCount(Island)
           next == [earlier \in Seq(Int) |->
                       Append(earlier, Atomic!ValueOf(Island.nodes[Len(earlier) + 1], earlier))]
           Solves(f) == f = [k \in 0 .. count |-> IF k = 0 THEN << >> ELSE next[f[k - 1]]]
           upTo(k) == [i \in 1 .. k |-> nodes[i - 1]]
           first == [k \in 0 .. count |-> upTo(k)]
<1>1. /\ count \in Nat /\ DOMAIN nodes = 0 .. (count - 1)
      /\ \A n \in 1 .. count : NodeAccepted(module_, Island, n)
      /\ IsIsland(Island)
  BY CommitFacts DEF IsIsland
<1>2. \A n \in 0 .. (count - 1) : nodes[n] \in Int
  BY <1>1, WordsAreNumbers DEF TypeOK
<1>3. ASSUME NEW k \in 0 .. count PROVE upTo(k) \in Seq(Int) /\ Len(upTo(k)) = k
  BY <1>1, <1>2
<1>4. ASSUME NEW k \in 1 .. count PROVE next[upTo(k - 1)] = upTo(k)
  <2> DEFINE node == Island.nodes[k]
  <2>1. /\ k - 1 \in 0 .. count /\ k - 1 \in DOMAIN nodes
        /\ upTo(k - 1) \in Seq(Int) /\ Len(upTo(k - 1)) = k - 1 /\ k - 1 + 1 = k
    BY <1>1, <1>3
  <2>2. next[upTo(k - 1)] = Append(upTo(k - 1), Atomic!ValueOf(node, upTo(k - 1)))
    BY <2>1
  <2>3. nodes[k - 1] = Atomic!ValueOf(node, Evaluated)
    BY <2>1, ValueAgrees
  <2>4. ASSUME NEW i \in 1 .. Arity(node.kind)
        PROVE  Evaluated[node.operands[i] + 1] = upTo(k - 1)[node.operands[i] + 1]
    <3>1. node.operands[i] \in Nat /\ node.operands[i] < k - 1
      BY <1>1 DEF NodeAccepted, IsIsland
    <3>2. node.operands[i] + 1 \in 1 .. (k - 1) /\ node.operands[i] \in DOMAIN nodes
      BY <1>1, <3>1, SMTT(30)
    <3> QED
      BY <3>1, <3>2, <1>1, EvaluatedIs, SMTT(30)
  <2>5. node.kind \in PrimitiveKind
    BY <1>1 DEF NodeAccepted
  <2>6. Atomic!ValueOf(node, upTo(k - 1)) = nodes[k - 1]
    BY <2>3, <2>4, <2>5, ValueDepends
  <2>7. Append(upTo(k - 1), nodes[k - 1]) = upTo(k)
    <3> DEFINE s == upTo(k - 1)
               t == upTo(k)
               v == nodes[k - 1]
    <3>1. /\ s \in Seq(Int) /\ Len(s) = k - 1 /\ t \in Seq(Int) /\ Len(t) = k
          /\ \A i \in 1 .. (k - 1) : t[i] = s[i]
          /\ t[k] = v /\ v \in Int
      BY <1>2, <1>3, <2>1
    <3> HIDE DEF s, t, v
    <3> QED
      BY <3>1
  <2> QED
    BY <2>2, <2>6, <2>7
<1>5. Solves(first)
  <2> HIDE DEF next, upTo
  <2>1. upTo(0) = << >>
    BY DEF upTo
  <2>2. \A k \in 0 .. count : first[k] = IF k = 0 THEN << >> ELSE next[first[k - 1]]
    BY <1>1, <1>4, <2>1
  <2> QED
    BY <2>2
<1>6. ASSUME NEW f, Solves(f) PROVE f[count] = upTo(count)
  <2> HIDE DEF next, upTo
  <2> DEFINE Agreeing == {k \in 0 .. count : f[k] = upTo(k)}
  <2>1. 0 \in Agreeing
    BY <1>1, <1>6 DEF upTo
  <2>2. ASSUME NEW k \in 1 .. count, k - 1 \in Agreeing PROVE k \in Agreeing
    BY <1>1, <1>4, <1>6, <2>2
  <2>3. Agreeing \in SUBSET (0 .. count)
    OBVIOUS
  <2>4. Agreeing = 0 .. count
    <3> HIDE DEF Agreeing, count
    <3> QED
      BY <1>1, <2>1, <2>2, <2>3, UpTo
  <2> QED
    BY <1>1, <2>4
<1>7. Atomic!NodeValues(Island) = (CHOOSE f : Solves(f))[count]
  BY SameCode, Zenon DEF Atomic!NodeValues, Atomic!NodeCount, NodeCount
<1>8. Solves(CHOOSE f : Solves(f))
  <2> HIDE DEF Solves, first
  <2> QED
    BY <1>5, Zenon
<1>9. Atomic!NodeValues(Island) = upTo(count)
  <2> HIDE DEF Solves, first, upTo, count
  <2> QED
    BY <1>6, <1>7, <1>8, Zenon
<1>10. Evaluated = upTo(count)
  <2>1. {n + 1 : n \in DOMAIN nodes} = 1 .. count
    <3>1. \A m \in 1 .. count : m - 1 \in DOMAIN nodes /\ m = (m - 1) + 1
      BY <1>1
    <3>2. \A n \in DOMAIN nodes : n + 1 \in 1 .. count
      BY <1>1
    <3> HIDE DEF count
    <3> QED
      BY <3>1, <3>2
  <2> HIDE DEF count
  <2> QED
    BY <2>1 DEF Evaluated
<1> QED
  BY <1>9, <1>10

\* The bytes of the abstract stores are those the staged writes cover.
LEMMA BytesAre ==
    ASSUME CoreInvariant, TypeOK, StagingInvariant, CommitIsland,
           NEW n \in 1 .. MemoryWriteCount(Island)
    PROVE  LET write == Island.memory_writes[n]
               bytes == Atomic!Bytes(write, Evaluated)
           IN  /\ memory_writes[n] \in MemoryWriteRecord
               /\ Evaluated[write.address + 1] = memory_writes[n].address
               /\ memory_writes[n].width = write.width
               /\ DOMAIN bytes = memory_writes[n].address ..
                                     (memory_writes[n].address + memory_writes[n].width - 1)
               /\ \A a \in DOMAIN bytes :
                      bytes[a] = ByteOf(memory_writes[n].value, a - memory_writes[n].address)
<1> DEFINE write == Island.memory_writes[n]
<1>1. /\ n \in 1 .. Len(memory_writes)
      /\ IsIsland(Island)
      /\ MemoryWriteAccepted(Island, n)
      /\ DOMAIN nodes = 0 .. (NodeCount(Island) - 1)
  BY CommitFacts
<1>2. memory_writes[n] \in MemoryWriteRecord
  BY <1>1 DEF StagingInvariant
<1>3. memory_writes[n] = [address |-> nodes[write.address], width |-> write.width,
                          value |-> nodes[write.value]]
  BY <1>1 DEF StagingInvariant, StoresStaged
<1>4. write.address \in DOMAIN nodes /\ write.value \in DOMAIN nodes /\ DOMAIN nodes \subseteq Nat
  BY <1>1, SMTT(30) DEF MemoryWriteAccepted, IsIsland
<1>5. /\ Evaluated[write.address + 1] = memory_writes[n].address
      /\ Evaluated[write.value + 1] = memory_writes[n].value
      /\ memory_writes[n].width = write.width
  BY <1>3, <1>4, EvaluatedIs
<1>6. Atomic!Bytes(write, Evaluated) =
          [a \in memory_writes[n].address ..
                    (memory_writes[n].address + memory_writes[n].width - 1) |->
              ByteOf(memory_writes[n].value, a - memory_writes[n].address)]
  BY <1>5, Zenon DEF Atomic!Bytes, ByteOf
<1> QED
  BY <1>2, <1>5, <1>6

\* A carrier is written once.
LEMMA CarriersDistinct ==
    ASSUME IsIsland(Island),
           \A n \in 1 .. CarrierWriteCount(Island) : CarrierWriteAccepted(module_, Island, n)
    PROVE  \A n, m \in 1 .. CarrierWriteCount(Island) :
               Island.carrier_writes[n].carrier = Island.carrier_writes[m].carrier => n = m
<1>1. \A n \in 1 .. CarrierWriteCount(Island) : \A m \in 1 .. (n - 1) :
          Island.carrier_writes[m].carrier # Island.carrier_writes[n].carrier
  BY DEF CarrierWriteAccepted
<1>2. \A n, m \in 1 .. CarrierWriteCount(Island) : n = m \/ n \in 1 .. (m - 1) \/ m \in 1 .. (n - 1)
  BY DEF IsIsland
<1> QED
  BY <1>1, <1>2

LEMMA RecordTyped ==
    ASSUME NEW write \in MemoryWriteRecord
    PROVE  write.address \in Nat /\ write.width \in Nat /\ write.value \in Nat
<1>1. write.address \in Word /\ write.value \in Word /\ write.width \in {1, WordBytes}
  BY DEF MemoryWriteRecord
<1>2. write.address \in Nat /\ write.value \in Nat
  BY <1>1, WordsAreNumbers, Zenon
<1>3. write.width \in Nat
  BY <1>1, WordBytesAssumption
<1> QED
  BY <1>2, <1>3

LEMMA ApartIsDisjoint ==
    ASSUME NEW write \in MemoryWriteRecord, NEW other \in MemoryWriteRecord,
           ~ Overlap(write, other)
    PROVE  (write.address .. (write.address + write.width - 1))
               \cap (other.address .. (other.address + other.width - 1)) = {}
<1>1. /\ write.address \in Nat /\ write.width \in Nat
      /\ other.address \in Nat /\ other.width \in Nat
  BY RecordTyped
<1> QED
  BY <1>1 DEF Overlap

LEMMA StagedBytesDisjoint ==
    ASSUME CoreInvariant, TypeOK, StagingInvariant, CommitIsland,
           NEW n \in 1 .. MemoryWriteCount(Island), NEW m \in 1 .. (n - 1)
    PROVE  DOMAIN Atomic!Bytes(Island.memory_writes[n], Evaluated)
               \cap DOMAIN Atomic!Bytes(Island.memory_writes[m], Evaluated) = {}
<1>1. m \in 1 .. MemoryWriteCount(Island) /\ n \in 1 .. Len(memory_writes)
  BY CommitFacts DEF IsIsland
<1>2. ~ Overlap(memory_writes[n], memory_writes[m])
  BY <1>1 DEF StagingInvariant, StoresStaged
<1>3. \A i \in 1 .. MemoryWriteCount(Island) :
          /\ memory_writes[i] \in MemoryWriteRecord
          /\ DOMAIN Atomic!Bytes(Island.memory_writes[i], Evaluated) =
                 memory_writes[i].address .. (memory_writes[i].address + memory_writes[i].width - 1)
  BY BytesAre, Zenon
<1>4. memory_writes[n] \in MemoryWriteRecord /\ memory_writes[m] \in MemoryWriteRecord
  BY <1>1, <1>3
<1>5. (memory_writes[n].address .. (memory_writes[n].address + memory_writes[n].width - 1))
         \cap (memory_writes[m].address .. (memory_writes[m].address + memory_writes[m].width - 1)) = {}
  BY <1>2, <1>4, ApartIsDisjoint, Zenon
<1> QED
  BY <1>1, <1>3, <1>5, Zenon

LEMMA CommitTakesEffect ==
    ASSUME CoreInvariant, TypeOK, StagingInvariant, CommitIsland
    PROVE  Atomic!TakesEffect(Island, Evaluated)
<1>1. ASSUME NEW n \in 1 .. NodeCount(Island), Island.nodes[n].kind \in Loads
      PROVE  Atomic!InMemory(Evaluated[Island.nodes[n].operands[1] + 1],
                             LoadWidth(Island.nodes[n].kind))
  <2>1. n - 1 \in DOMAIN nodes /\ n - 1 + 1 = n
    BY CommitFacts DEF IsIsland
  <2> QED
    BY <1>1, <2>1, ValueAgrees
<1>2. ASSUME NEW n \in 1 .. MemoryWriteCount(Island)
      PROVE  Atomic!InMemory(Evaluated[Island.memory_writes[n].address + 1],
                             Island.memory_writes[n].width)
  <2>1. n \in 1 .. Len(memory_writes)
    BY CommitFacts
  <2>2. InMemory(memory_writes[n].address, memory_writes[n].width)
    BY <2>1 DEF StagingInvariant, StoresStaged
  <2>3. memory_writes[n].address \in Word /\ memory_writes[n].width \in Nat
    BY BytesAre, WordBytesAssumption DEF MemoryWriteRecord
  <2> QED
    BY <2>2, <2>3, BytesAre, SameBounds
<1>3. \A n, m \in 1 .. CarrierWriteCount(Island) :
          Island.carrier_writes[n].carrier = Island.carrier_writes[m].carrier => n = m
  BY CommitFacts, CarriersDistinct
<1> QED
  BY <1>1, <1>2, <1>3, StagedBytesDisjoint, SameCode DEF Atomic!TakesEffect

LEMMA CommitCarriers ==
    ASSUME CoreInvariant, TypeOK, StagingInvariant, CommitIsland
    PROVE  carriers' = [c \in DOMAIN carriers |->
               IF \E n \in 1 .. CarrierWriteCount(Island) : Island.carrier_writes[n].carrier = c
               THEN LET n == CHOOSE n \in 1 .. CarrierWriteCount(Island) :
                                 Island.carrier_writes[n].carrier = c
                    IN  Evaluated[Island.carrier_writes[n].value + 1]
               ELSE carriers[c]]
<1>1. /\ DOMAIN carrier_writes = WrittenCarriers(Island)
      /\ DOMAIN nodes = 0 .. (NodeCount(Island) - 1)
      /\ IsIsland(Island)
      /\ \A n \in 1 .. CarrierWriteCount(Island) : CarrierWriteAccepted(module_, Island, n)
  BY CommitFacts
<1>2. ASSUME NEW n \in 1 .. CarrierWriteCount(Island)
      PROVE  /\ Island.carrier_writes[n].carrier \in DOMAIN carrier_writes
             /\ carrier_writes[Island.carrier_writes[n].carrier] =
                    Evaluated[Island.carrier_writes[n].value + 1]
  <2>1. Island.carrier_writes[n].carrier \in DOMAIN carrier_writes
    BY <1>1 DEF WrittenCarriers
  <2>2. carrier_writes[Island.carrier_writes[n].carrier] = nodes[Island.carrier_writes[n].value]
    BY <2>1 DEF StagingInvariant, CarriersStaged
  <2>3. Island.carrier_writes[n].value \in DOMAIN nodes /\ DOMAIN nodes \subseteq Nat
    BY <1>1 DEF CarrierWriteAccepted, IsIsland
  <2> QED
    BY <2>1, <2>2, <2>3, EvaluatedIs
<1>3. ASSUME NEW c \in DOMAIN carriers
      PROVE  CommittedCarriers[c] =
               IF \E n \in 1 .. CarrierWriteCount(Island) : Island.carrier_writes[n].carrier = c
               THEN LET n == CHOOSE n \in 1 .. CarrierWriteCount(Island) :
                                 Island.carrier_writes[n].carrier = c
                    IN  Evaluated[Island.carrier_writes[n].value + 1]
               ELSE carriers[c]
  <2>1. CASE c \in DOMAIN carrier_writes
    <3> DEFINE n == CHOOSE n \in 1 .. CarrierWriteCount(Island) :
                        Island.carrier_writes[n].carrier = c
    <3>1. \E m \in 1 .. CarrierWriteCount(Island) : Island.carrier_writes[m].carrier = c
      BY <1>1, <2>1 DEF WrittenCarriers
    <3>2. n \in 1 .. CarrierWriteCount(Island) /\ Island.carrier_writes[n].carrier = c
      BY <3>1, Zenon
    <3>3. CommittedCarriers[c] = carrier_writes[c]
      BY <2>1 DEF CommittedCarriers
    <3> HIDE DEF n
    <3>4. CommittedCarriers[c] = Evaluated[Island.carrier_writes[n].value + 1]
      BY <1>2, <3>2, <3>3
    <3> QED
      BY <3>1, <3>4, Zenon DEF n
  <2>2. CASE c \notin DOMAIN carrier_writes
    <3>1. ~ \E n \in 1 .. CarrierWriteCount(Island) : Island.carrier_writes[n].carrier = c
      BY <1>2, <2>2
    <3>2. CommittedCarriers[c] = carriers[c]
      BY <2>2 DEF CommittedCarriers
    <3> QED
      BY <3>1, <3>2, Zenon
  <2> QED
    BY <2>1, <2>2
<1>4. carriers' = CommittedCarriers
  BY DEF CommitIsland
<1>5. CommittedCarriers = [c \in DOMAIN carriers |-> CommittedCarriers[c]]
  BY DEF CommittedCarriers
<1> HIDE DEF CommittedCarriers
<1> QED
  BY <1>3, <1>4, <1>5, Zenon

LEMMA CommitMemory ==
    ASSUME CoreInvariant, TypeOK, StagingInvariant, CommitIsland
    PROVE  memory' = [a \in DOMAIN memory |->
               IF \E store \in Atomic!Stores(Island, Evaluated) : a \in DOMAIN store
               THEN (CHOOSE store \in Atomic!Stores(Island, Evaluated) : a \in DOMAIN store)[a]
               ELSE memory[a]]
<1> DEFINE count == MemoryWriteCount(Island)
           bytes(n) == Atomic!Bytes(Island.memory_writes[n], Evaluated)
           stores == Atomic!Stores(Island, Evaluated)
<1>1. Len(memory_writes) = count /\ count \in Nat
  BY CommitFacts DEF IsIsland
<1>2. stores = {bytes(n) : n \in 1 .. count}
  BY SameCode DEF Atomic!Stores
<1>3. \A n \in 1 .. count :
          /\ DOMAIN bytes(n) = memory_writes[n].address ..
                                   (memory_writes[n].address + memory_writes[n].width - 1)
          /\ \A a \in DOMAIN bytes(n) :
                 bytes(n)[a] = ByteOf(memory_writes[n].value, a - memory_writes[n].address)
  BY BytesAre, Zenon
<1>4. \A n \in 1 .. count : \A m \in 1 .. (n - 1) : DOMAIN bytes(n) \cap DOMAIN bytes(m) = {}
  BY StagedBytesDisjoint, Zenon
<1>5. \A a : Covering(a) = {n \in 1 .. count : a \in DOMAIN bytes(n)}
  <2> HIDE DEF bytes, count
  <2> QED
    BY <1>1, <1>3 DEF Covering
<1>6. ASSUME NEW a, NEW n \in 1 .. count, NEW m \in 1 .. count,
             a \in DOMAIN bytes(n), a \in DOMAIN bytes(m)
      PROVE  n = m
  <2> HIDE DEF bytes, count
  <2>1. n = m \/ n \in 1 .. (m - 1) \/ m \in 1 .. (n - 1)
    BY <1>1
  <2>2. n \notin 1 .. (m - 1) /\ m \notin 1 .. (n - 1)
    BY <1>4, <1>6
  <2> QED
    BY <2>1, <2>2
<1> HIDE DEF bytes, count
<1>7. ASSUME NEW a \in DOMAIN memory
      PROVE  CommittedMemory[a] =
               IF \E store \in stores : a \in DOMAIN store
               THEN (CHOOSE store \in stores : a \in DOMAIN store)[a]
               ELSE memory[a]
  <2> HIDE DEF stores
  <2>1. CASE Covering(a) = {}
    <3>1. ~ \E store \in stores : a \in DOMAIN store
      BY <1>2, <1>5, <2>1
    <3>2. CommittedMemory[a] = memory[a]
      BY <2>1 DEF CommittedMemory
    <3> QED
      BY <3>1, <3>2, Zenon
  <2>2. CASE Covering(a) # {}
    <3>1. PICK i \in Covering(a) : i = CHOOSE k \in Covering(a) : \A j \in Covering(a) : j <= k
      BY <2>2, LastCovering DEF StagingInvariant
    <3>2. i \in 1 .. count /\ a \in DOMAIN bytes(i)
      BY <1>5
    <3>3. CommittedMemory[a] = ByteOf(memory_writes[i].value, a - memory_writes[i].address)
      BY <2>2, <3>1, Zenon DEF CommittedMemory
    <3>4. CommittedMemory[a] = bytes(i)[a]
      BY <1>3, <3>2, <3>3, Zenon
    <3>5. \E store \in stores : a \in DOMAIN store
      BY <1>2, <3>2
    <3> DEFINE chosen == CHOOSE store \in stores : a \in DOMAIN store
    <3>6. chosen \in stores /\ a \in DOMAIN chosen
      BY <3>5, Zenon
    <3>7. chosen = bytes(i)
      <4> HIDE DEF chosen
      <4>1. PICK n \in 1 .. count : chosen = bytes(n)
        BY <1>2, <3>6
      <4>2. n = i
        BY <1>6, <3>2, <3>6, <4>1
      <4> QED
        BY <4>1, <4>2
    <3> QED
      BY <3>4, <3>5, <3>7, Zenon
  <2> QED
    BY <2>1, <2>2
<1>8. memory' = CommittedMemory
  BY DEF CommitIsland
<1>9. CommittedMemory = [a \in DOMAIN memory |-> CommittedMemory[a]]
  BY DEF CommittedMemory
<1> HIDE DEF CommittedMemory
<1> QED
  BY <1>7, <1>8, <1>9, Zenon

\* Committing the staged writes takes all of the island's effects at once.
LEMMA CommitRunsIsland ==
    ASSUME CoreInvariant, TypeOK, StagingInvariant, CommitIsland
    PROVE  Atomic!RunIsland
<1>1. /\ phase = "memory" /\ ScanInvariant /\ verdict = "verified"
      /\ opened = Target /\ opened \in Boundaries
      /\ opened \in 0 .. (module_.code_size - 1)
  BY CommitFacts
<1>2. Status = "running" /\ Status' = "running"
  <2>1. phase' = "dispatch"
    BY DEF CommitIsland
  <2> QED
    BY <1>1, <2>1 DEF Status, RunPhase, IslandPhase
<1>3. opened \in {Atomic!OpenCarriers(carriers)} \cap (0 .. (module_.code_size - 1))
  BY <1>1, SameTarget
<1>4. Atomic!IsBoundary(opened)
  BY <1>1, BoundaryIsTiled
<1>5. Island \in {Atomic!IslandAt(module_, opened)}
  BY SameCode DEF Island
<1>6. Evaluated \in {Atomic!NodeValues(Island)}
  BY NodeValuesAre
<1>7. Atomic!TakesEffect(Island, Evaluated)
  BY CommitTakesEffect
<1>8. Atomic!Committed(Island, Evaluated)
  BY CommitCarriers, CommitMemory, SameCode, Zenon
     DEF Atomic!Committed, Atomic!CarrierWriteCount, CarrierWriteCount
<1>9. islands_executed' = islands_executed + 1 /\ UNCHANGED module_
  BY DEF CommitIsland, verifierVars
<1> QED
  BY <1>2, <1>3, <1>4, <1>5, <1>6, <1>7, <1>8, <1>9, Zenon DEF Atomic!RunIsland

LEMMA RefinementInit == Init => Atomic!AtomicInit
<1> SUFFICES ASSUME Init PROVE Atomic!AtomicInit
  OBVIOUS
<1>1. Status = "idle"
  BY DEF Init, Status, RunPhase, IslandPhase
<1> QED
  BY <1>1, Zenon DEF Init, VerifierInit, Nothing, Atomic!AtomicInit

\* Every step of create or run is a step of the abstract specification or
\* changes nothing that it speaks of.
LEMMA RefinementStep ==
    Invariant /\ [Next]_vars => [Atomic!AtomicNext]_Atomic!atomicVars
<1> SUFFICES ASSUME Invariant, [Next]_vars PROVE [Atomic!AtomicNext]_Atomic!atomicVars
  OBVIOUS
<1>0. CoreInvariant /\ TypeOK /\ StagingInvariant
  BY DEF Invariant
<1>1. ASSUME UNCHANGED <<module_, stateVars>>, Status' = Status
      PROVE  UNCHANGED Atomic!atomicVars
  BY <1>1 DEF stateVars, Atomic!atomicVars
<1>2. CASE Verify \/ UNCHANGED vars
  <2>1. UNCHANGED <<phase, stateVars>>
    BY <1>2 DEF Verify, vars, machineVars
  <2>2. UNCHANGED module_
    BY <1>2 DEF Verify, VerifierNext, CheckModule, ScanIsland, CheckEntry, vars, verifierVars
  <2> QED
    BY <1>1, <2>1, <2>2 DEF Status
<1>3. CASE StartRun
  <2>1. Status \in {"idle", "stopped"} /\ Status' = "called"
    BY <1>3 DEF StartRun, StartRunWith, Status, RunPhase, IslandPhase
  <2>2. Atomic!Call
    BY <1>3, <2>1 DEF StartRun, StartRunWith, InitialMemory, verifierVars, Atomic!Call
  <2> QED
    BY <2>2 DEF Atomic!AtomicNext
<1>4. CASE PlaceArguments
  <2>1. Status = "called" /\ Status' = "running"
    BY <1>4 DEF PlaceArguments, Status, RunPhase, IslandPhase
  <2>2. phase # "idle" /\ arguments \in Arguments /\ arguments \in Seq(Word)
    BY <1>0, <1>4, ArgumentsAssumption DEF PlaceArguments, StagingInvariant
  <2>3. DOMAIN carriers \subseteq Int
    BY <1>0, <2>2 DEF CoreInvariant, IslandInvariant
  <2>4. \A c \in DOMAIN carriers :
            c \in ArgumentCarriers(arguments) <=> c - kArgumentCarrierBase + 1 \in DOMAIN arguments
    BY <2>2, <2>3 DEF ArgumentCarriers, kArgumentCarrierBase
  <2>5. carriers' = [c \in DOMAIN carriers |->
                        IF c - kArgumentCarrierBase + 1 \in DOMAIN arguments
                        THEN arguments[c - kArgumentCarrierBase + 1]
                        ELSE carriers[c]]
    BY <1>4, <2>4 DEF PlaceArguments
  <2>6. /\ Len(arguments) = module_.argument_count
        /\ UNCHANGED <<module_, memory, islands_executed>>
    BY <1>4 DEF PlaceArguments, verifierVars
  <2>7. Atomic!Begin
    BY <2>1, <2>2, <2>5, <2>6, SameCode DEF Atomic!Begin
  <2> QED
    BY <2>7 DEF Atomic!AtomicNext
<1>5. CASE \/ RefuseArguments \/ RejectContinuation \/ Halt \/ ExhaustBudget
           \/ RejectBoundary \/ FailIsland
  <2>1. /\ phase \in {"arguments"} \cup RunPhase /\ phase' = "done"
        /\ UNCHANGED <<module_, stateVars>>
    BY <1>5 DEF RefuseArguments, RejectContinuation, Halt, ExhaustBudget, RejectBoundary,
                FailIsland, Fail, verifierVars, RunPhase
  <2>2. Status \in {"called", "running"} /\ Status' = "stopped"
    BY <2>1 DEF Status, RunPhase, IslandPhase
  <2>3. Atomic!Stop
    BY <2>1, <2>2 DEF stateVars, Atomic!Stop
  <2> QED
    BY <2>3 DEF Atomic!AtomicNext
<1>6. CASE \/ EnterIsland \/ ReadHeader \/ EvaluateNode \/ StageCarrierWrite
           \/ CheckContinuationReplaced \/ StageMemoryWrite
  <2>1. /\ phase \in RunPhase /\ phase' \in RunPhase
        /\ UNCHANGED <<module_, stateVars>>
    BY <1>6 DEF EnterIsland, ReadHeader, EvaluateNode, StageCarrierWrite,
                CheckContinuationReplaced, StageMemoryWrite, verifierVars, RunPhase, IslandPhase
  <2>2. Status = "running" /\ Status' = "running"
    BY <2>1 DEF Status, RunPhase, IslandPhase
  <2> QED
    BY <1>1, <2>1, <2>2
<1>7. CASE CommitIsland
  BY <1>0, <1>7, CommitRunsIsland DEF Atomic!AtomicNext
<1> QED
  BY <1>2, <1>3, <1>4, <1>5, <1>6, <1>7 DEF Next, RunStep, Dispatch, ExecuteIsland

\* The runtime with its cursor, its staging and its errors at any item
\* implements runs of whole islands.
THEOREM RunsAreWholeIslands == ASSUME ArithmeticClosed PROVE Spec => ImplementsAtomicIslands
<1>1. Invariant /\ [Next]_vars => [Atomic!AtomicNext]_Atomic!atomicVars
  BY RefinementStep
<1> QED
  BY <1>1, RefinementInit, InvariantHolds, PTL
     DEF Spec, ImplementsAtomicIslands, Atomic!AtomicSpec

-----------------------------------------------------------------------------
(***************************************************************************)
(* Two runs of one machine.  The state of a run is a record (Moment), what *)
(* a call works with another (CallWith), and every step of a run makes the *)
(* next record from the present one and the call alone (Successor).  A     *)
(* finished run is therefore the last moment of a history that the call    *)
(* determines, and two runs are compared by comparing their histories.     *)
(***************************************************************************)

CallWith(values, limits) ==
    [module |-> module_, offsets |-> island_offsets, arguments |-> values, limits |-> limits]

\* What the current run works with, and what the caller of a run gave.
ThisCall == CallWith(arguments, run_limits)
CallOf(inputs) == CallWith(inputs.arguments, LimitsOf(inputs.override))

Moment ==
    [phase |-> phase, carriers |-> carriers, memory |-> memory,
     islands_executed |-> islands_executed, opened |-> opened, index |-> index,
     nodes |-> nodes, carrier_writes |-> carrier_writes, memory_writes |-> memory_writes,
     fault |-> fault, value |-> value]

OutcomeAt(m) ==
    [fault |-> m.fault, value |-> m.value, carriers |-> m.carriers, memory |-> m.memory,
     islands_executed |-> m.islands_executed]

\* The operators of Machine at one moment of a call.
At(call, m) == INSTANCE Machine WITH
    module_ <- call.module, island_offsets <- call.offsets, plan_limits <- call.limits,
    verdict <- "verified", scan_offset <- 0,
    arguments <- call.arguments, run_limits <- call.limits, max_islands <- 0,
    phase <- m.phase, carriers <- m.carriers, memory <- m.memory,
    islands_executed <- m.islands_executed, opened <- m.opened, index <- m.index,
    nodes <- m.nodes, carrier_writes <- m.carrier_writes,
    memory_writes <- m.memory_writes, fault <- m.fault, value <- m.value, trace <- << >>

\* Between two islands, or after the last.
Outside(m, atPhase, itsFault, itsValue) ==
    [phase |-> atPhase, carriers |-> m.carriers, memory |-> m.memory,
     islands_executed |-> m.islands_executed, opened |-> Refused, index |-> 0,
     nodes |-> Nothing, carrier_writes |-> Nothing, memory_writes |-> << >>,
     fault |-> itsFault, value |-> itsValue]

FirstMoment(call) ==
    Outside([carriers |-> call.module.initial_carriers, memory |-> InitialMemory(call.module),
             islands_executed |-> 0], "arguments", NoFault, NoValue)

Failed(m, code, site) == Outside(m, "done", [code |-> code, site |-> site], m.value)

AfterArguments(call, m) ==
    IF Len(call.arguments) # call.module.argument_count
    THEN Failed(m, "ArgumentWindow", "arguments")
    ELSE [m EXCEPT !.phase = "dispatch",
              !.carriers = [c \in DOMAIN m.carriers |->
                               IF c \in ArgumentCarriers(call.arguments)
                               THEN call.arguments[c - kArgumentCarrierBase + 1]
                               ELSE m.carriers[c]]]

AfterDispatch(call, budget, m) ==
    IF At(call, m)!Target = Refused THEN Failed(m, "ContinuationProof", "dispatch")
    ELSE IF At(call, m)!Target = kHaltContinuation
         THEN Outside(m, "done", m.fault, At(call, m)!ReturnValue)
    ELSE IF m.islands_executed >= budget THEN Failed(m, "ResourceLimit", "dispatch")
    ELSE IF At(call, m)!Target \notin At(call, m)!Boundaries
         THEN Failed(m, "IslandBounds", "dispatch")
    ELSE [m EXCEPT !.phase = "header", !.opened = At(call, m)!Target]

AfterNode(call, m) ==
    LET more == m.index + 1 < NodeCount(At(call, m)!Island)
    IN  [m EXCEPT !.nodes = Extended(m.nodes, m.index, At(call, m)!NodeValue),
                  !.index = IF more THEN m.index + 1 ELSE 0,
                  !.phase = IF more THEN "nodes" ELSE "carriers"]

AfterCarriers(call, m) ==
    IF At(call, m)!MoreCarrierWrites
    THEN [m EXCEPT !.carrier_writes = Extended(m.carrier_writes,
                                               At(call, m)!CarrierWrite.carrier,
                                               m.nodes[At(call, m)!CarrierWrite.value]),
                   !.index = m.index + 1]
    ELSE [m EXCEPT !.index = 0, !.phase = "memory"]

AfterMemory(call, m) ==
    IF At(call, m)!MoreMemoryWrites
    THEN [m EXCEPT !.memory_writes = Append(m.memory_writes, At(call, m)!Staged),
                   !.index = m.index + 1]
    ELSE Outside([carriers |-> At(call, m)!CommittedCarriers,
                  memory |-> At(call, m)!CommittedMemory,
                  islands_executed |-> m.islands_executed + 1],
                 "dispatch", m.fault, m.value)

Successor(call, budget, m) ==
    IF m.phase = "arguments" THEN AfterArguments(call, m)
    ELSE IF m.phase = "dispatch" THEN AfterDispatch(call, budget, m)
    ELSE IF At(call, m)!IslandFault # "none" THEN Failed(m, At(call, m)!IslandFault, "island")
    ELSE IF m.phase = "header" THEN [m EXCEPT !.phase = "nodes"]
    ELSE IF m.phase = "nodes" THEN AfterNode(call, m)
    ELSE IF m.phase = "carriers" THEN AfterCarriers(call, m)
    ELSE AfterMemory(call, m)

\* The dispatch loop enters an island.
Enters(call, budget, m) ==
    /\ m.phase = "dispatch"
    /\ At(call, m)!Target \notin {Refused, kHaltContinuation}
    /\ m.islands_executed < budget
    /\ At(call, m)!Target \in At(call, m)!Boundaries

\* An island entered when count islands had run has since been counted, is still
\* being executed, or has ended the run without a value.
Accounted(count, m) ==
    \/ m.islands_executed > count
    \/ m.phase \in IslandPhase /\ m.islands_executed = count
    \/ m.phase = "done" /\ m.value = NoValue

IsHistory(moments, length, call, budget) ==
    /\ moments[0] = FirstMoment(call)
    /\ \A i \in 0 .. length : moments[i].islands_executed \in Nat
    /\ \A i \in 0 .. (length - 1) :
           /\ moments[i].phase # "done"
           /\ moments[i].value = NoValue
           /\ moments[i + 1] = Successor(call, budget, moments[i])
           /\ Enters(call, budget, moments[i]) =>
                  Accounted(moments[i].islands_executed, moments[length])

\* The moment is the last of a history of the call.
Reached(call, budget, m) ==
    \E length \in Nat : \E moments :
        IsHistory(moments, length, call, budget) /\ moments[length] = m

\* Outside an island nothing is opened, evaluated or staged.
Cleared == islandVars = <<Refused, 0, Nothing, Nothing, << >> >>

RunsInvariant ==
    /\ max_islands \in Nat
    /\ islands_executed \in Nat
    /\ phase \in {"idle", "arguments", "done"} \cup RunPhase
    /\ phase \notin IslandPhase => Cleared
    /\ phase # "done" => value = NoValue
    /\ phase # "idle" =>
           /\ verdict = "verified"
           /\ run_limits = LimitsOf(asked)
           /\ Reached(ThisCall, max_islands, Moment)
    /\ phase = "idle" => noted = NoRun
    /\ noted.finished =>
           /\ noted.budget \in Nat
           /\ \E last :
                  /\ Reached(CallOf(noted.inputs), noted.budget, last)
                  /\ last.phase = "done"
                  /\ noted.outcome = OutcomeAt(last)

\* What depends on the island alone is the same at every moment of every call.
LEMMA DecodingAt ==
    ASSUME NEW call, NEW m
    PROVE  /\ \A program, offset :
                  At(call, m)!IslandAt(program, offset) = IslandAt(program, offset)
           /\ \A island : /\ At(call, m)!NodeCount(island) = NodeCount(island)
                          /\ At(call, m)!CarrierWriteCount(island) = CarrierWriteCount(island)
                          /\ At(call, m)!MemoryWriteCount(island) = MemoryWriteCount(island)
                          /\ At(call, m)!StreamEnd(island) = StreamEnd(island)
           /\ \A island, item :
                  /\ At(call, m)!Readable(island, item) = Readable(island, item)
                  /\ At(call, m)!CarrierItem(island, item) = CarrierItem(island, item)
                  /\ At(call, m)!MemoryItem(island, item) = MemoryItem(island, item)
           /\ \A kind : At(call, m)!Arity(kind) = Arity(kind)
           /\ \A values : At(call, m)!OpenCarriers(values) = OpenCarriers(values)
<1>1. \A program, offset :
                  At(call, m)!IslandAt(program, offset) = IslandAt(program, offset)
  BY DEF At!IslandAt, IslandAt
<1>2. \A island : /\ At(call, m)!NodeCount(island) = NodeCount(island)
                          /\ At(call, m)!CarrierWriteCount(island) = CarrierWriteCount(island)
                          /\ At(call, m)!MemoryWriteCount(island) = MemoryWriteCount(island)
  BY DEF At!NodeCount, NodeCount, At!CarrierWriteCount, CarrierWriteCount,
         At!MemoryWriteCount, MemoryWriteCount
<1>3. \A kind : At(call, m)!Arity(kind) = Arity(kind)
  BY DEF At!Arity, Arity, At!Loads, Loads, At!UnaryKind, UnaryKind, At!BinaryKind, BinaryKind
<1>4. \A island : At(call, m)!ItemEnds(island) = ItemEnds(island)
  BY DEF At!ItemEnds, ItemEnds, At!ItemCount, ItemCount, At!NodeCount, NodeCount,
         At!CarrierWriteCount, CarrierWriteCount, At!MemoryWriteCount, MemoryWriteCount,
         At!kIslandHeaderSize, kIslandHeaderSize, At!ItemSize, ItemSize, At!PayloadSize,
         PayloadSize, At!CarrierWriteSize, CarrierWriteSize, At!MemoryWriteSize,
         MemoryWriteSize, At!Arity, Arity, At!Loads, Loads, At!UnaryKind, UnaryKind,
         At!BinaryKind, BinaryKind
<1>5. \A island, item : At(call, m)!Readable(island, item) = Readable(island, item)
  BY <1>4 DEF At!Readable, Readable
<1>6. \A island, item : /\ At(call, m)!CarrierItem(island, item) = CarrierItem(island, item)
                        /\ At(call, m)!MemoryItem(island, item) = MemoryItem(island, item)
  BY DEF At!CarrierItem, CarrierItem, At!MemoryItem, MemoryItem, At!NodeCount, NodeCount,
         At!CarrierWriteCount, CarrierWriteCount
<1>7. \A island : At(call, m)!StreamEnd(island) = StreamEnd(island)
  BY <1>4 DEF At!StreamEnd, StreamEnd, At!ItemCount, ItemCount, At!NodeCount, NodeCount,
         At!CarrierWriteCount, CarrierWriteCount, At!MemoryWriteCount, MemoryWriteCount
<1>8. \A values : At(call, m)!OpenCarriers(values) = OpenCarriers(values)
  BY DEF OpenCarriers, At!OpenCarriers, At!JoinXor, JoinXor, At!Open, Open,
         At!kContinuationLaneCarrier, kContinuationLaneCarrier,
         At!kContinuationProofCarrier, kContinuationProofCarrier, At!Offset, Offset,
         At!Refused, Refused, At!Seal, Seal, At!Proof, Proof, At!LaneMask, LaneMask,
         At!HighHalf, HighHalf
<1> QED
  BY <1>1, <1>2, <1>3, <1>5, <1>6, <1>7, <1>8

\* At the present moment, the operators at a moment are those of the machine:
\* first what dispatch looks at.
LEMMA DispatchAt ==
    /\ At(ThisCall, Moment)!Target = Target
    /\ At(ThisCall, Moment)!ReturnValue = ReturnValue
    /\ At(ThisCall, Moment)!Boundaries = Boundaries
<1>1. At(ThisCall, Moment)!Target = Target
  BY DecodingAt DEF At!Target, Target, Moment
<1>2. At(ThisCall, Moment)!ReturnValue = ReturnValue
  BY DEF At!ReturnValue, ReturnValue, At!JoinXor, JoinXor, At!kReturnValueCarrier,
         kReturnValueCarrier, Moment
<1>3. At(ThisCall, Moment)!Boundaries = Boundaries
  BY DEF At!Boundaries, Boundaries, ThisCall, CallWith
<1> QED
  BY <1>1, <1>2, <1>3

\* The island being executed.
LEMMA IslandIsAt == At(ThisCall, Moment)!Island = Island
BY DecodingAt DEF At!Island, Island, Moment, ThisCall, CallWith

\* The value of its next node.
LEMMA NodeAt == At(ThisCall, Moment)!NodeValue = NodeValue
<1> DEFINE call == ThisCall
<1>1. \A address : At(call, Moment)!LoadWord(address) = LoadWord(address)
  BY DEF At!LoadWord, LoadWord, Moment
<1>2. At(call, Moment)!Node = Node
  BY IslandIsAt DEF At!Node, Node, Moment
<1>3. Moment.carriers = carriers /\ Moment.memory = memory /\ Moment.nodes = nodes
  BY DEF Moment
<1>4. \A kind : 1 .. At(call, Moment)!Arity(kind) = 1 .. Arity(kind)
  BY DecodingAt
<1> HIDE DEF call
<1>5. \A node, earlier :
          At(call, Moment)!ValueFrom(node, earlier) = ValueFrom(node, earlier)
  BY <1>1, <1>3, <1>4 DEF At!ValueFrom, ValueFrom
<1> QED
  BY <1>2, <1>3, <1>5 DEF At!NodeValue, NodeValue, call

\* What committing writes makes of a memory.
Committed(content, writes) ==
    [a \in DOMAIN content |->
        LET covering == {i \in 1 .. Len(writes) :
                            a \in writes[i].address ..
                                     (writes[i].address + writes[i].width - 1)}
            last == writes[CHOOSE i \in covering : \A j \in covering : j <= i]
        IN  IF covering = {} THEN content[a]
            ELSE (last.value \div ByteBase ^ (a - last.address)) % ByteBase]

\* Its staged writes and what committing them makes.
LEMMA WritesAt ==
    /\ At(ThisCall, Moment)!CarrierWrite = CarrierWrite
    /\ At(ThisCall, Moment)!MoreCarrierWrites = MoreCarrierWrites
    /\ At(ThisCall, Moment)!MemoryWrite = MemoryWrite
    /\ At(ThisCall, Moment)!MoreMemoryWrites = MoreMemoryWrites
    /\ At(ThisCall, Moment)!Staged = Staged
    /\ At(ThisCall, Moment)!CommittedCarriers = CommittedCarriers
    /\ At(ThisCall, Moment)!CommittedMemory = CommittedMemory
<1>1. At(ThisCall, Moment)!CarrierWrite = CarrierWrite
  BY IslandIsAt DEF At!CarrierWrite, CarrierWrite, Moment
<1>2. At(ThisCall, Moment)!MoreCarrierWrites = MoreCarrierWrites
  BY IslandIsAt, DecodingAt DEF At!MoreCarrierWrites, MoreCarrierWrites, Moment
<1>3. At(ThisCall, Moment)!MemoryWrite = MemoryWrite
  BY IslandIsAt DEF At!MemoryWrite, MemoryWrite, Moment
<1>4. At(ThisCall, Moment)!MoreMemoryWrites = MoreMemoryWrites
  BY IslandIsAt, DecodingAt DEF At!MoreMemoryWrites, MoreMemoryWrites, Moment
<1>5. At(ThisCall, Moment)!Staged = Staged
  BY <1>3 DEF At!Staged, Staged, Moment
<1>6. At(ThisCall, Moment)!CommittedCarriers = CommittedCarriers
  BY DEF At!CommittedCarriers, CommittedCarriers, Moment
<1>7. At(ThisCall, Moment)!CommittedMemory = CommittedMemory
  <2>1. At(ThisCall, Moment)!CommittedMemory
            = Committed(Moment.memory, Moment.memory_writes)
    BY Zenon DEF At!CommittedMemory, At!Covering, At!ByteOf, Committed
  <2>2. CommittedMemory = Committed(memory, memory_writes)
    BY Zenon DEF CommittedMemory, Covering, ByteOf, Committed
  <2>3. Moment.memory = memory /\ Moment.memory_writes = memory_writes
    BY DEF Moment
  <2> QED
    BY <2>1, <2>2, <2>3, Zenon
<1> QED
  BY <1>1, <1>2, <1>3, <1>4, <1>5, <1>6, <1>7

\* What stops its next step.
LEMMA FaultAt == At(ThisCall, Moment)!IslandFault = IslandFault
<1> DEFINE call == ThisCall
<1>1. At(call, Moment)!HeaderFault = HeaderFault
  BY IslandIsAt, DecodingAt
     DEF At!HeaderFault, HeaderFault, Moment, ThisCall, CallWith, At!kIslandHeaderSize, kIslandHeaderSize
<1>2. At(call, Moment)!NodeFault = NodeFault
  <2>1. At(call, Moment)!Node = Node
    BY IslandIsAt DEF At!Node, Node, Moment
  <2>2. \A i : /\ At(call, Moment)!Operand(i) = Operand(i)
               /\ At(call, Moment)!IsEvaluated(i) = IsEvaluated(i)
    BY <2>1 DEF At!Operand, Operand, At!IsEvaluated, IsEvaluated, Moment
  <2>3. At(call, Moment)!Chosen = Chosen
    BY <2>2 DEF At!Chosen, Chosen
  <2>4. At(call, Moment)!OperandsEvaluated = OperandsEvaluated
    BY <2>1, <2>2, <2>3, DecodingAt DEF At!OperandsEvaluated, OperandsEvaluated
  <2>5. \A address, width : At(call, Moment)!InMemory(address, width) = InMemory(address, width)
    BY DEF At!InMemory, InMemory, At!MemorySize, MemorySize, ThisCall, CallWith
  <2>6. \A kind : At(call, Moment)!LoadWidth(kind) = LoadWidth(kind)
    BY DEF At!LoadWidth, LoadWidth
  <2>7. At(call, Moment)!PrimitiveKind = PrimitiveKind /\ At(call, Moment)!Loads = Loads
    BY DEF At!PrimitiveKind, PrimitiveKind, At!Loads, Loads, At!UnaryKind, UnaryKind,
           At!BinaryKind, BinaryKind
  <2>8. Moment.index = index /\ Moment.carriers = carriers
    BY DEF Moment
  <2>9. At(call, Moment)!SignedLessEqual = SignedLessEqual
    BY DEF At!SignedLessEqual, SignedLessEqual
  <2> HIDE DEF call
  <2> QED
    BY <2>1, <2>2, <2>4, <2>5, <2>6, <2>7, <2>8, <2>9, IslandIsAt, DecodingAt
       DEF At!NodeFault, NodeFault, call
<1>3. At(call, Moment)!CarrierWriteFault = CarrierWriteFault
  BY IslandIsAt, DecodingAt, WritesAt
     DEF At!CarrierWriteFault, CarrierWriteFault, Moment, At!ReadOnlyAbi, ReadOnlyAbi,
         At!kReturnValueCarrier, kReturnValueCarrier, At!kFirstAllocatedCarrier,
         kFirstAllocatedCarrier
<1>4. At(call, Moment)!CoverageFault = CoverageFault
  BY DEF At!CoverageFault, CoverageFault, Moment, At!ContinuationCarriers, ContinuationCarriers,
         At!kContinuationLaneCarrier, kContinuationLaneCarrier,
         At!kContinuationProofCarrier, kContinuationProofCarrier
<1>5. At(call, Moment)!MemoryWriteFault = MemoryWriteFault
  <2>1. \A address, width :
            At(call, Moment)!InMemory(address, width) = InMemory(address, width)
    BY DEF Moment, ThisCall, CallWith, At!InMemory, InMemory, At!MemorySize, MemorySize
  <2>2. \A write, other : At(call, Moment)!Overlap(write, other) = Overlap(write, other)
    BY DEF At!Overlap, Overlap
  <2>3. At(call, Moment)!StoreWidths = StoreWidths
    BY DEF At!StoreWidths, StoreWidths
  <2>4. Moment.memory_writes = memory_writes /\ Moment.nodes = nodes /\ Moment.index = index
    BY DEF Moment
  <2> HIDE DEF call
  <2> QED
    BY <2>1, <2>2, <2>3, <2>4, IslandIsAt, DecodingAt, WritesAt
       DEF At!MemoryWriteFault, MemoryWriteFault, call
<1>6. At(call, Moment)!TrailingFault = TrailingFault
  BY IslandIsAt, DecodingAt DEF At!TrailingFault, TrailingFault
<1>7. Moment.phase = phase
  BY DEF Moment
<1> HIDE DEF call
<1> QED
  BY <1>1, <1>2, <1>3, <1>4, <1>5, <1>6, <1>7, WritesAt DEF At!IslandFault, IslandFault, call

\* Successor, phase by phase.
LEMMA SuccessorAt ==
    ASSUME NEW budget
    PROVE  /\ phase = "arguments" =>
                  Successor(ThisCall, budget, Moment) = AfterArguments(ThisCall, Moment)
           /\ phase = "dispatch" =>
                  Successor(ThisCall, budget, Moment)
                      = AfterDispatch(ThisCall, budget, Moment)
           /\ phase \in IslandPhase /\ IslandFault # "none" =>
                  Successor(ThisCall, budget, Moment) = Failed(Moment, IslandFault, "island")
           /\ IslandFault = "none" =>
                  /\ phase = "header" =>
                         Successor(ThisCall, budget, Moment)
                             = [Moment EXCEPT !.phase = "nodes"]
                  /\ phase = "nodes" =>
                         Successor(ThisCall, budget, Moment)
                             = AfterNode(ThisCall, Moment)
                  /\ phase = "carriers" =>
                         Successor(ThisCall, budget, Moment)
                             = AfterCarriers(ThisCall, Moment)
                  /\ phase = "memory" =>
                         Successor(ThisCall, budget, Moment)
                             = AfterMemory(ThisCall, Moment)
<1>1. Moment.phase = phase
  BY DEF Moment
<1>2. At(ThisCall, Moment)!IslandFault = IslandFault
  BY FaultAt
<1> QED
  BY <1>1, <1>2 DEF Successor, IslandPhase

\* The steps of a run make the successor of the present moment: those before the
\* loop, those of the loop, those of execute_island.
LEMMA ArgumentsStep ==
    ASSUME RefuseArguments \/ PlaceArguments, Cleared
    PROVE  Moment' = Successor(ThisCall, max_islands, Moment)
<1>1. Successor(ThisCall, max_islands, Moment) = AfterArguments(ThisCall, Moment)
  BY SuccessorAt DEF RefuseArguments, PlaceArguments
<1>2. CASE RefuseArguments
  BY <1>1, <1>2
     DEF RefuseArguments, AfterArguments, ThisCall, CallWith, Failed, Outside, Fail, Moment, Cleared,
         islandVars, stateVars
<1>3. CASE PlaceArguments
  <2>1. AfterArguments(ThisCall, Moment)
            = [Moment EXCEPT !.phase = "dispatch",
                   !.carriers = [c \in DOMAIN carriers |->
                                    IF c \in ArgumentCarriers(arguments)
                                    THEN arguments[c - kArgumentCarrierBase + 1]
                                    ELSE carriers[c]]]
    BY <1>3, Zenon DEF PlaceArguments, AfterArguments, ThisCall, CallWith, Moment
  <2>2. @ = [Moment EXCEPT !.phase = phase', !.carriers = carriers']
    BY <1>3, Zenon DEF PlaceArguments
  <2>3. ASSUME NEW p, NEW c, NEW next,
               next = [Moment EXCEPT !.phase = p, !.carriers = c]
        PROVE  next = [phase |-> p, carriers |-> c, memory |-> memory,
                       islands_executed |-> islands_executed, opened |-> opened, index |-> index,
                       nodes |-> nodes, carrier_writes |-> carrier_writes,
                       memory_writes |-> memory_writes, fault |-> fault, value |-> value]
    BY <2>3, ZenonT(40) DEF Moment
  <2>4. UNCHANGED <<memory, islands_executed, opened, index, nodes, carrier_writes,
                    memory_writes, fault, value>>
    BY <1>3 DEF PlaceArguments, islandVars, resultVars
  <2>5. Moment' = [phase |-> phase', carriers |-> carriers', memory |-> memory,
                   islands_executed |-> islands_executed, opened |-> opened, index |-> index,
                   nodes |-> nodes, carrier_writes |-> carrier_writes,
                   memory_writes |-> memory_writes, fault |-> fault, value |-> value]
    BY <2>4 DEF Moment
  <2> QED
    BY <1>1, <2>1, <2>2, <2>3, <2>5, Zenon
<1> QED
  BY <1>2, <1>3

\* The dispatch loop.
LEMMA DispatchStep ==
    ASSUME Dispatch, Cleared
    PROVE  Moment' = Successor(ThisCall, max_islands, Moment)
<1>1. Successor(ThisCall, max_islands, Moment)
          = AfterDispatch(ThisCall, max_islands, Moment)
  BY SuccessorAt
     DEF Dispatch, RejectContinuation, Halt, ExhaustBudget, RejectBoundary, EnterIsland
<1>2. /\ Moment.islands_executed = islands_executed
      /\ Moment.fault = fault
      /\ Moment.value = value
  BY DEF Moment
<1>3. CASE RejectContinuation
  <2>1. AfterDispatch(ThisCall, max_islands, Moment)
            = Failed(Moment, "ContinuationProof", "dispatch")
    BY <1>3, DispatchAt DEF AfterDispatch, RejectContinuation
  <2> QED
    BY <1>1, <1>3, <2>1
       DEF RejectContinuation, Failed, Outside, Fail, Moment, Cleared, islandVars, stateVars
<1>4. CASE Halt
  <2>1. AfterDispatch(ThisCall, max_islands, Moment)
            = Outside(Moment, "done", Moment.fault, ReturnValue)
    BY <1>4, DispatchAt, HaltAssumption DEF AfterDispatch, Halt, Refused
  <2> QED
    BY <1>1, <1>4, <2>1 DEF Halt, Outside, Moment, Cleared, islandVars, stateVars
<1>5. CASE ExhaustBudget
  <2>1. AfterDispatch(ThisCall, max_islands, Moment)
            = Failed(Moment, "ResourceLimit", "dispatch")
    BY <1>2, <1>5, DispatchAt DEF AfterDispatch, ExhaustBudget, BudgetSpent
  <2> QED
    BY <1>1, <1>5, <2>1
       DEF ExhaustBudget, Failed, Outside, Fail, Moment, Cleared, islandVars, stateVars
<1>6. CASE RejectBoundary
  <2>1. AfterDispatch(ThisCall, max_islands, Moment)
            = Failed(Moment, "IslandBounds", "dispatch")
    BY <1>2, <1>6, DispatchAt DEF AfterDispatch, RejectBoundary, BudgetSpent
  <2> QED
    BY <1>1, <1>6, <2>1
       DEF RejectBoundary, Failed, Outside, Fail, Moment, Cleared, islandVars, stateVars
<1>7. CASE EnterIsland
  <2>1. AfterDispatch(ThisCall, max_islands, Moment)
            = [Moment EXCEPT !.phase = "header", !.opened = Target]
    BY <1>2, <1>7, DispatchAt DEF AfterDispatch, EnterIsland, BudgetSpent
  <2> QED
    BY <1>1, <1>7, <2>1, ZenonT(40) DEF EnterIsland, Moment, stateVars, resultVars
<1> QED
  BY <1>3, <1>4, <1>5, <1>6, <1>7 DEF Dispatch

\* execute_island.
LEMMA IslandStepAt ==
    ASSUME ExecuteIsland
    PROVE  Moment' = Successor(ThisCall, max_islands, Moment)
<1> DEFINE next == Successor(ThisCall, max_islands, Moment)
<1>1. Moment.index = index /\ Moment.nodes = nodes /\ Moment.carrier_writes = carrier_writes
      /\ Moment.memory_writes = memory_writes /\ Moment.islands_executed = islands_executed
      /\ Moment.fault = fault /\ Moment.value = value
  BY DEF Moment
<1>2. CASE ReadHeader
  <2>1. next = [Moment EXCEPT !.phase = "nodes"]
    BY <1>2, SuccessorAt DEF ReadHeader, IslandFault
  <2> QED
    BY <1>2, <2>1 DEF ReadHeader, Moment, stateVars, islandVars, resultVars
<1>3. CASE EvaluateNode
  <2>1. next = AfterNode(ThisCall, Moment)
    BY <1>3, SuccessorAt DEF EvaluateNode, IslandFault
  <2>2. CASE index + 1 < NodeCount(Island)
    <3>1. next = [Moment EXCEPT !.nodes = Extended(nodes, index, NodeValue),
                                !.index = index + 1, !.phase = "nodes"]
      BY <1>1, <2>1, <2>2, IslandIsAt, NodeAt DEF AfterNode
    <3>2. /\ phase' = "nodes" /\ index' = index + 1
          /\ nodes' = Extended(nodes, index, NodeValue)
          /\ UNCHANGED <<stateVars, resultVars, opened, carrier_writes, memory_writes>>
      BY <1>3, <2>2 DEF EvaluateNode
    <3>3. next = [phase |-> "nodes", carriers |-> carriers, memory |-> memory,
                  islands_executed |-> islands_executed, opened |-> opened,
                  index |-> index + 1, nodes |-> Extended(nodes, index, NodeValue),
                  carrier_writes |-> carrier_writes, memory_writes |-> memory_writes,
                  fault |-> fault, value |-> value]
      BY <3>1, ZenonT(40) DEF Moment
    <3> QED
      BY <3>2, <3>3 DEF Moment, stateVars, resultVars
  <2>3. CASE ~ (index + 1 < NodeCount(Island))
    <3>1. next = [Moment EXCEPT !.nodes = Extended(nodes, index, NodeValue),
                                !.index = 0, !.phase = "carriers"]
      BY <1>1, <2>1, <2>3, IslandIsAt, NodeAt DEF AfterNode
    <3>2. /\ phase' = "carriers" /\ index' = 0
          /\ nodes' = Extended(nodes, index, NodeValue)
          /\ UNCHANGED <<stateVars, resultVars, opened, carrier_writes, memory_writes>>
      BY <1>3, <2>3 DEF EvaluateNode
    <3>3. next = [phase |-> "carriers", carriers |-> carriers, memory |-> memory,
                  islands_executed |-> islands_executed, opened |-> opened,
                  index |-> 0, nodes |-> Extended(nodes, index, NodeValue),
                  carrier_writes |-> carrier_writes, memory_writes |-> memory_writes,
                  fault |-> fault, value |-> value]
      BY <3>1, ZenonT(40) DEF Moment
    <3> QED
      BY <3>2, <3>3 DEF Moment, stateVars, resultVars
  <2> QED
    BY <2>2, <2>3
<1>4. CASE StageCarrierWrite
  <2>1. next = AfterCarriers(ThisCall, Moment)
    BY <1>4, SuccessorAt DEF StageCarrierWrite, IslandFault
  <2> QED
    BY <1>1, <1>4, <2>1, WritesAt, ZenonT(40)
       DEF StageCarrierWrite, AfterCarriers, Moment, stateVars, resultVars
<1>5. CASE CheckContinuationReplaced
  <2>1. next = AfterCarriers(ThisCall, Moment)
    BY <1>5, SuccessorAt DEF CheckContinuationReplaced, IslandFault
  <2> QED
    BY <1>1, <1>5, <2>1, WritesAt
       DEF CheckContinuationReplaced, AfterCarriers, Moment, stateVars, resultVars
<1>6. CASE StageMemoryWrite
  <2>1. next = AfterMemory(ThisCall, Moment)
    BY <1>6, SuccessorAt DEF StageMemoryWrite, IslandFault
  <2> QED
    BY <1>1, <1>6, <2>1, WritesAt
       DEF StageMemoryWrite, AfterMemory, Moment, stateVars, resultVars
<1>7. CASE CommitIsland
  <2>1. next = AfterMemory(ThisCall, Moment)
    BY <1>7, SuccessorAt DEF CommitIsland, IslandFault
  <2> QED
    BY <1>1, <1>7, <2>1, WritesAt
       DEF CommitIsland, IslandLeft, AfterMemory, Outside, Moment
<1>8. CASE FailIsland
  <2>1. next = Failed(Moment, IslandFault, "island")
    BY <1>8, SuccessorAt DEF FailIsland
  <2> QED
    BY <1>8, <2>1 DEF FailIsland, Fail, IslandLeft, Failed, Outside, Moment, stateVars
<1> QED
  BY <1>2, <1>3, <1>4, <1>5, <1>6, <1>7, <1>8 DEF ExecuteIsland

\* The call itself is a history.
LEMMA FirstReached ==
    ASSUME NEW call, NEW budget
    PROVE  Reached(call, budget, FirstMoment(call))
<1> DEFINE moments == [i \in {0} |-> FirstMoment(call)]
<1>1. moments[0] = FirstMoment(call)
  OBVIOUS
<1>2. FirstMoment(call).islands_executed = 0
  BY DEF FirstMoment, Outside
<1> HIDE DEF moments
<1>3. IsHistory(moments, 0, call, budget)
  BY <1>1, <1>2 DEF IsHistory
<1> QED
  BY <1>1, <1>3 DEF Reached

\* A history goes on with the successor of its last moment.
LEMMA ReachedExtends ==
    ASSUME NEW call, NEW budget, NEW m, NEW next,
           Reached(call, budget, m),
           m.phase # "done",
           m.value = NoValue,
           next = Successor(call, budget, m),
           next.islands_executed \in Nat,
           next.islands_executed >= m.islands_executed,
           m.phase \in IslandPhase => Accounted(m.islands_executed, next),
           Enters(call, budget, m) => Accounted(m.islands_executed, next)
    PROVE  Reached(call, budget, next)
<1>1. PICK length, moments :
          /\ length \in Nat
          /\ IsHistory(moments, length, call, budget)
          /\ moments[length] = m
  BY Zenon DEF Reached
<1> DEFINE extended == [i \in 0 .. (length + 1) |-> IF i = length + 1 THEN next ELSE moments[i]]
<1>2. /\ \A i \in 0 .. length : extended[i] = moments[i]
      /\ extended[length + 1] = next
  BY <1>1
<1> HIDE DEF extended
<1>3. extended[0] = FirstMoment(call)
  BY <1>1, <1>2 DEF IsHistory
<1>4. ASSUME NEW i \in 0 .. (length + 1)
      PROVE  extended[i].islands_executed \in Nat
  BY <1>1, <1>2 DEF IsHistory
<1>5. ASSUME NEW i \in 0 .. length
      PROVE  /\ extended[i].phase # "done"
             /\ extended[i].value = NoValue
             /\ extended[i + 1] = Successor(call, budget, extended[i])
             /\ Enters(call, budget, extended[i]) =>
                    Accounted(extended[i].islands_executed, next)
  <2>1. CASE i = length
    BY <1>1, <1>2, <2>1
  <2>2. CASE i # length
    <3>1. i \in 0 .. (length - 1) /\ i + 1 \in 0 .. length
      BY <1>1, <2>2
    <3>2. /\ extended[i] = moments[i] /\ extended[i + 1] = moments[i + 1]
          /\ moments[i].phase # "done"
          /\ moments[i].value = NoValue
          /\ moments[i + 1] = Successor(call, budget, moments[i])
          /\ Enters(call, budget, moments[i]) => Accounted(moments[i].islands_executed, m)
      BY <1>1, <1>2, <3>1 DEF IsHistory
    <3>3. moments[i].islands_executed \in Nat /\ m.islands_executed \in Nat
      BY <1>1 DEF IsHistory
    <3>4. Accounted(moments[i].islands_executed, m)
              => Accounted(moments[i].islands_executed, next)
      BY <3>3 DEF Accounted
    <3> QED
      BY <3>2, <3>4
  <2> QED
    BY <2>1, <2>2
<1>6. IsHistory(extended, length + 1, call, budget)
  <2>1. (length + 1) - 1 = length
    BY <1>1
  <2> QED
    BY <1>2, <1>3, <1>4, <1>5, <2>1 DEF IsHistory
<1>7. length + 1 \in Nat
  BY <1>1
<1> QED
  BY <1>2, <1>6, <1>7 DEF Reached

\* Two complete histories of one call under two budgets end alike when the
\* budgets make no difference to any moment of the first.
LEMMA HistoriesAgree ==
    ASSUME NEW call, NEW budget, NEW other,
           NEW length \in Nat, NEW moments, IsHistory(moments, length, call, budget),
           NEW size \in Nat, NEW states, IsHistory(states, size, call, other),
           moments[length].phase = "done",
           states[size].phase = "done",
           \A i \in 0 .. (length - 1) :
               Successor(call, budget, moments[i]) = Successor(call, other, moments[i])
    PROVE  moments[length] = states[size]
<1>1. PICK bound \in Nat : /\ bound <= length /\ bound <= size
                           /\ bound = length \/ bound = size
  OBVIOUS
<1> DEFINE Agreeing == {k \in 0 .. bound : moments[k] = states[k]}
<1>2. Agreeing \in SUBSET (0 .. bound)
  OBVIOUS
<1>3. 0 \in Agreeing
  BY <1>1 DEF IsHistory
<1>4. ASSUME NEW k \in 1 .. bound, k - 1 \in Agreeing
      PROVE  k \in Agreeing
  <2>1. k - 1 \in 0 .. (length - 1) /\ k - 1 \in 0 .. (size - 1) /\ (k - 1) + 1 = k
    BY <1>1
  <2>2. /\ moments[(k - 1) + 1] = Successor(call, budget, moments[k - 1])
        /\ states[(k - 1) + 1] = Successor(call, other, states[k - 1])
        /\ Successor(call, budget, moments[k - 1]) = Successor(call, other, moments[k - 1])
    BY <2>1, Zenon DEF IsHistory
  <2> QED
    BY <1>4, <2>1, <2>2
<1>5. Agreeing = 0 .. bound
  <2> HIDE DEF Agreeing
  <2> QED
    BY <1>1, <1>2, <1>3, <1>4, UpTo, Zenon
<1>6. moments[bound] = states[bound]
  BY <1>1, <1>5
<1>7. bound = length /\ bound = size
  BY <1>1, <1>6 DEF IsHistory
<1> QED
  BY <1>6, <1>7

\* The budget makes a difference only where the loop tests it.
LEMMA SuccessorsDiffer ==
    ASSUME NEW call, NEW budget \in Nat, NEW other \in Nat, NEW m,
           m.islands_executed \in Nat,
           Successor(call, budget, m) # Successor(call, other, m)
    PROVE  /\ m.phase = "dispatch"
           /\ At(call, m)!Target \notin {Refused, kHaltContinuation}
           /\ (m.islands_executed >= budget) # (m.islands_executed >= other)
BY DEF Successor, AfterDispatch

\* A call under one budget ends in one way.
LEMMA SameBudget ==
    ASSUME NEW call, NEW budget \in Nat, NEW first, NEW last,
           Reached(call, budget, first), first.phase = "done",
           Reached(call, budget, last), last.phase = "done"
    PROVE  first = last
<1>1. PICK length, moments :
          /\ length \in Nat
          /\ IsHistory(moments, length, call, budget) /\ moments[length] = first
  BY Zenon DEF Reached
<1>2. PICK size, states :
          /\ size \in Nat
          /\ IsHistory(states, size, call, budget) /\ states[size] = last
  BY Zenon DEF Reached
<1> QED
  BY <1>1, <1>2, HistoriesAgree

\* A spent budget ends the run with its fault.
LEMMA BudgetSpentAt ==
    ASSUME NEW call, NEW budget \in Nat, NEW m,
           m.phase = "dispatch",
           At(call, m)!Target \notin {Refused, kHaltContinuation},
           m.islands_executed >= budget
    PROVE  /\ Successor(call, budget, m).phase = "done"
           /\ Successor(call, budget, m).fault = BudgetFault
           /\ Successor(call, budget, m).value = m.value
<1>1. Successor(call, budget, m) = Failed(m, "ResourceLimit", "dispatch")
  BY DEF Successor, AfterDispatch
<1> QED
  BY <1>1 DEF Failed, Outside, BudgetFault

\* A continuation that names no boundary ends the run without a value.
LEMMA BoundaryRefusedAt ==
    ASSUME NEW call, NEW budget \in Nat, NEW m,
           m.phase = "dispatch",
           m.islands_executed < budget,
           m.islands_executed \in Nat,
           At(call, m)!Target \notin {Refused, kHaltContinuation},
           At(call, m)!Target \notin At(call, m)!Boundaries
    PROVE  /\ Successor(call, budget, m).phase = "done"
           /\ Successor(call, budget, m).value = m.value
<1>1. Successor(call, budget, m) = Failed(m, "IslandBounds", "dispatch")
  BY DEF Successor, AfterDispatch
<1> QED
  BY <1>1 DEF Failed, Outside

\* A history that no budget cut short is that of every larger budget.
LEMMA LargerBudget ==
    ASSUME NEW call, NEW budget \in Nat, NEW other \in Nat, NEW first, NEW last,
           Reached(call, budget, first), first.phase = "done",
           Reached(call, other, last), last.phase = "done",
           budget <= other,
           first.fault # BudgetFault
    PROVE  first = last
<1>1. PICK length, moments :
          /\ length \in Nat
          /\ IsHistory(moments, length, call, budget) /\ moments[length] = first
  BY Zenon DEF Reached
<1>2. PICK size, states :
          /\ size \in Nat
          /\ IsHistory(states, size, call, other) /\ states[size] = last
  BY Zenon DEF Reached
<1>3. ASSUME NEW i \in 0 .. (length - 1)
      PROVE  Successor(call, budget, moments[i]) = Successor(call, other, moments[i])
  <2> SUFFICES ASSUME Successor(call, budget, moments[i]) # Successor(call, other, moments[i])
               PROVE  FALSE
    OBVIOUS
  <2>1. moments[i].islands_executed \in Nat
    BY <1>1 DEF IsHistory
  <2>2. /\ moments[i].phase = "dispatch"
        /\ At(call, moments[i])!Target \notin {Refused, kHaltContinuation}
        /\ (moments[i].islands_executed >= budget) # (moments[i].islands_executed >= other)
    BY <2>1, SuccessorsDiffer
  <2>3. moments[i].islands_executed >= budget
    BY <2>1, <2>2
  <2>4. /\ moments[i + 1].phase = "done"
        /\ moments[i + 1].fault = BudgetFault
    BY <1>1, <2>2, <2>3, BudgetSpentAt DEF IsHistory
  <2>5. i + 1 = length
    <3>1. CASE i + 1 \in 0 .. (length - 1)
      BY <1>1, <2>4, <3>1 DEF IsHistory
    <3> QED
      BY <1>1, <3>1
  <2> QED
    BY <1>1, <2>4, <2>5
<1> QED
  BY <1>1, <1>2, <1>3, HistoriesAgree

\* A history that halts is that of every budget that covers its islands: each
\* island it enters is counted before it halts.
LEMMA EnoughBudget ==
    ASSUME NEW call, NEW budget \in Nat, NEW other \in Nat, NEW first, NEW last,
           Reached(call, budget, first), first.phase = "done",
           Reached(call, other, last), last.phase = "done",
           first.value # NoValue,
           first.islands_executed <= other
    PROVE  first = last
<1>1. PICK length, moments :
          /\ length \in Nat
          /\ IsHistory(moments, length, call, budget) /\ moments[length] = first
  BY Zenon DEF Reached
<1>2. PICK size, states :
          /\ size \in Nat
          /\ IsHistory(states, size, call, other) /\ states[size] = last
  BY Zenon DEF Reached
<1>3. ASSUME NEW i \in 0 .. (length - 1)
      PROVE  Successor(call, budget, moments[i]) = Successor(call, other, moments[i])
  <2> SUFFICES ASSUME Successor(call, budget, moments[i]) # Successor(call, other, moments[i])
               PROVE  FALSE
    OBVIOUS
  <2>1. moments[i].islands_executed \in Nat /\ first.islands_executed \in Nat
    BY <1>1 DEF IsHistory
  <2>2. /\ moments[i].phase = "dispatch"
        /\ At(call, moments[i])!Target \notin {Refused, kHaltContinuation}
        /\ (moments[i].islands_executed >= budget) # (moments[i].islands_executed >= other)
    BY <2>1, SuccessorsDiffer
  <2>3. ASSUME moments[i + 1].phase = "done", moments[i + 1].value = moments[i].value
        PROVE  FALSE
    <3>1. moments[i].value = NoValue
      BY <1>1 DEF IsHistory
    <3>2. CASE i + 1 \in 0 .. (length - 1)
      BY <1>1, <2>3, <3>2 DEF IsHistory
    <3>3. CASE i + 1 = length
      BY <1>1, <2>3, <3>1, <3>3
    <3> QED
      BY <1>1, <3>2, <3>3
  <2>4. moments[i + 1] = Successor(call, budget, moments[i])
    BY <1>1 DEF IsHistory
  <2>5. CASE moments[i].islands_executed >= budget
    BY <2>2, <2>3, <2>4, <2>5, BudgetSpentAt
  <2>6. CASE moments[i].islands_executed < budget
    <3>1. At(call, moments[i])!Target \in At(call, moments[i])!Boundaries
      BY <2>1, <2>2, <2>3, <2>4, <2>6, BoundaryRefusedAt
    <3>2. Accounted(moments[i].islands_executed, first)
      BY <1>1, <2>2, <2>6, <3>1 DEF IsHistory, Enters
    <3>3. moments[i].islands_executed >= other
      BY <2>1, <2>2, <2>6
    <3> QED
      BY <2>1, <3>2, <3>3 DEF Accounted, IslandPhase
  <2> QED
    BY <2>1, <2>5, <2>6
<1> QED
  BY <1>1, <1>2, <1>3, HistoriesAgree

\* Every step of a run makes the successor of the present moment, and nothing
\* but that: run has no choice to make (Machine::run, execute_island).
LEMMA StepIsSuccessor ==
    ASSUME RunStep, phase \notin IslandPhase => Cleared
    PROVE  Moment' = Successor(ThisCall, max_islands, Moment)
<1>1. CASE RefuseArguments \/ PlaceArguments
  <2>1. Cleared
    BY <1>1 DEF RefuseArguments, PlaceArguments, IslandPhase
  <2> QED
    BY <1>1, <2>1, ArgumentsStep
<1>2. CASE Dispatch
  <2>1. Cleared
    BY <1>2 DEF Dispatch, RejectContinuation, Halt, ExhaustBudget, RejectBoundary, EnterIsland,
                IslandPhase
  <2> QED
    BY <1>2, <2>1, DispatchStep
<1>3. CASE ExecuteIsland
  BY <1>3, IslandStepAt
<1> QED
  BY <1>1, <1>2, <1>3 DEF RunStep

\* A run changes neither what create established nor its own options.
LEMMA RunStepKeeps ==
    ASSUME RunStep
    PROVE  UNCHANGED <<verifierVars, optionVars>>
BY DEF RunStep, RefuseArguments, PlaceArguments, Dispatch, RejectContinuation,
       Halt, ExhaustBudget, RejectBoundary, EnterIsland, ExecuteIsland, ReadHeader,
       EvaluateNode, StageCarrierWrite, CheckContinuationReplaced, StageMemoryWrite,
       CommitIsland, FailIsland

\* Where a step of a run leads, and what it does to the count of the islands.
LEMMA RunStepPhases ==
    ASSUME RunStep, RunsInvariant
    PROVE  /\ phase \notin {"idle", "done"}
           /\ phase' \in {"done"} \cup RunPhase
           /\ phase' # "done" => value' = NoValue
           /\ islands_executed' \in Nat
           /\ islands_executed' >= islands_executed
           /\ phase \in IslandPhase => Accounted(islands_executed, Moment')
           /\ phase' \notin IslandPhase => Cleared'
<1>0. /\ islands_executed \in Nat
      /\ phase # "done" => value = NoValue
      /\ phase \notin IslandPhase => Cleared
      /\ Moment'.phase = phase' /\ Moment'.value = value'
      /\ Moment'.islands_executed = islands_executed'
  BY DEF RunsInvariant, Moment
<1>1. CASE RefuseArguments \/ PlaceArguments
  BY <1>0, <1>1
     DEF RefuseArguments, PlaceArguments, Fail, stateVars, resultVars, IslandPhase, RunPhase,
         Cleared, islandVars
<1>2. CASE Dispatch
  <2>1. phase = "dispatch"
    BY <1>2 DEF Dispatch, RejectContinuation, Halt, ExhaustBudget, RejectBoundary, EnterIsland
  <2>2. Cleared
    BY <1>0, <2>1 DEF IslandPhase
  <2>3. UNCHANGED islands_executed
    BY <1>2 DEF Dispatch, RejectContinuation, Halt, ExhaustBudget, RejectBoundary, EnterIsland,
                stateVars
  <2>4. \/ phase' = "done" /\ UNCHANGED islandVars
        \/ phase' = "header" /\ UNCHANGED value
    BY <1>2 DEF Dispatch, RejectContinuation, Halt, ExhaustBudget, RejectBoundary, EnterIsland,
                Fail, resultVars
  <2>5. phase' \notin IslandPhase => Cleared'
    BY <2>2, <2>4 DEF IslandPhase, Cleared, islandVars
  <2> QED
    BY <1>0, <2>1, <2>3, <2>4, <2>5 DEF IslandPhase, RunPhase
<1>3. CASE ReadHeader \/ EvaluateNode \/ StageCarrierWrite \/ CheckContinuationReplaced
                \/ StageMemoryWrite
  <2>1. phase \in IslandPhase /\ phase' \in IslandPhase /\ UNCHANGED <<stateVars, resultVars>>
    BY <1>3 DEF ReadHeader, EvaluateNode, StageCarrierWrite, CheckContinuationReplaced,
                StageMemoryWrite, IslandPhase
  <2>2. Accounted(islands_executed, Moment')
    BY <1>0, <2>1 DEF Accounted, stateVars
  <2> QED
    BY <1>0, <2>1, <2>2 DEF IslandPhase, RunPhase, stateVars, resultVars
<1>4. CASE CommitIsland
  <2>1. /\ phase = "memory" /\ phase' = "dispatch" /\ islands_executed' = islands_executed + 1
        /\ UNCHANGED value /\ Cleared'
    BY <1>4 DEF CommitIsland, IslandLeft, Cleared, islandVars
  <2>2. Accounted(islands_executed, Moment')
    BY <1>0, <2>1 DEF Accounted
  <2> QED
    BY <1>0, <2>1, <2>2 DEF IslandPhase, RunPhase
<1>5. CASE FailIsland
  <2>1. /\ phase \in IslandPhase /\ phase' = "done" /\ UNCHANGED <<value, islands_executed>>
        /\ Cleared'
    BY <1>5 DEF FailIsland, Fail, IslandLeft, Cleared, islandVars, stateVars
  <2>2. Accounted(islands_executed, Moment')
    BY <1>0, <2>1 DEF Accounted, IslandPhase
  <2> QED
    BY <1>0, <2>1, <2>2 DEF IslandPhase
<1> QED
  BY <1>1, <1>2, <1>3, <1>4, <1>5 DEF RunStep, ExecuteIsland

\* Only EnterIsland enters an island, and it counts nothing.
LEMMA EnteringStep ==
    ASSUME RunStep, islands_executed \in Nat, max_islands \in Nat,
           Enters(ThisCall, max_islands, Moment)
    PROVE  Accounted(islands_executed, Moment')
<1>1. /\ phase = "dispatch" /\ Target \notin {Refused, kHaltContinuation}
      /\ islands_executed < max_islands /\ Target \in Boundaries
  BY DispatchAt DEF Enters, Moment
<1>2. EnterIsland
  BY <1>1 DEF RunStep, RefuseArguments, PlaceArguments, Dispatch, RejectContinuation,
       Halt, ExhaustBudget, BudgetSpent, RejectBoundary, ExecuteIsland, ReadHeader,
       EvaluateNode, StageCarrierWrite, CheckContinuationReplaced, StageMemoryWrite,
       CommitIsland, FailIsland, IslandPhase
<1> QED
  BY <1>2 DEF EnterIsland, Accounted, Moment, stateVars, IslandPhase

\* RunsInvariant holds before the first run.
LEMMA RunsInvariantInit == RepeatedInit => RunsInvariant
BY DEF RepeatedInit, Init, RunsInvariant, NoRun, Cleared, islandVars, IslandPhase

\* It is kept by every step of a run.
LEMMA RunStepRuns ==
    ASSUME RunsInvariant, RunStep, UNCHANGED historyVars
    PROVE  RunsInvariant'
<1>1. UNCHANGED <<verifierVars, optionVars, noted, asked>>
  BY RunStepKeeps DEF historyVars
<1>2. /\ ThisCall' = ThisCall
      /\ CallOf(noted.inputs)' = CallOf(noted.inputs)
      /\ max_islands' = max_islands /\ verdict' = verdict
      /\ run_limits' = run_limits /\ LimitsOf(asked)' = LimitsOf(asked)
  BY <1>1 DEF ThisCall, CallOf, CallWith, LimitsOf, verifierVars, optionVars
<1>3. /\ phase \notin {"idle", "done"}
      /\ phase' \in {"done"} \cup RunPhase
      /\ phase' # "done" => value' = NoValue
      /\ islands_executed' \in Nat
      /\ islands_executed' >= islands_executed
      /\ phase \in IslandPhase => Accounted(islands_executed, Moment')
      /\ phase' \notin IslandPhase => Cleared'
  BY RunStepPhases
<1>4. Moment' = Successor(ThisCall, max_islands, Moment)
  BY StepIsSuccessor DEF RunsInvariant
<1>5. /\ Moment.phase = phase /\ Moment.value = value
      /\ Moment.islands_executed = islands_executed
      /\ Moment'.islands_executed = islands_executed'
  BY DEF Moment
<1>6. /\ verdict = "verified"
      /\ run_limits = LimitsOf(asked)
      /\ Reached(ThisCall, max_islands, Moment)
      /\ value = NoValue
  BY <1>3 DEF RunsInvariant
<1>7. Enters(ThisCall, max_islands, Moment) => Accounted(islands_executed, Moment')
  BY EnteringStep DEF RunsInvariant
<1>8. Reached(ThisCall, max_islands, Moment')
  BY <1>3, <1>4, <1>5, <1>6, <1>7, ReachedExtends
<1>9. Reached(ThisCall, max_islands, Moment)'
  BY <1>2, <1>8
<1>10. (noted.finished =>
           /\ noted.budget \in Nat
           /\ \E last :
                  /\ Reached(CallOf(noted.inputs), noted.budget, last)
                  /\ last.phase = "done"
                  /\ noted.outcome = OutcomeAt(last))'
  BY <1>1, <1>2, Zenon DEF RunsInvariant
<1>11. phase' # "idle" /\ phase' \in {"idle", "arguments", "done"} \cup RunPhase
  BY <1>3 DEF RunPhase, IslandPhase
<1> QED
  BY <1>2, <1>3, <1>6, <1>9, <1>10, <1>11 DEF RunsInvariant

\* It is kept when a run starts: the new run begins at the first moment of its
\* call, and the run noted from now on is complete, be it the one that has just
\* finished or the one noted before it.
LEMMA StartRunRuns ==
    ASSUME RunsInvariant, NEW override, StartRunWith(override), asked' = override, NoteRun
    PROVE  RunsInvariant'
<1>1. /\ UNCHANGED <<verifierVars, islandVars>>
      /\ phase \in {"idle", "done"} /\ phase' = "arguments" /\ verdict = "verified"
      /\ carriers' = module_.initial_carriers /\ memory' = InitialMemory(module_)
      /\ islands_executed' = 0 /\ fault' = NoFault /\ value' = NoValue
      /\ run_limits' = LimitsOf(override)
      /\ max_islands' \in Nat
  BY BudgetsAssumption DEF StartRunWith
<1>2. Cleared
  BY <1>1 DEF RunsInvariant, IslandPhase
<1>3. /\ module_' = module_ /\ verdict' = verdict /\ island_offsets' = island_offsets
      /\ plan_limits' = plan_limits
  BY <1>1 DEF verifierVars
<1>4. Moment' = FirstMoment(ThisCall')
  BY <1>1, <1>2, <1>3
     DEF Moment, FirstMoment, Outside, ThisCall, CallWith, Cleared, islandVars
<1>5. Reached(ThisCall, max_islands, Moment)'
  BY <1>4, FirstReached
<1>6. run_limits' = LimitsOf(asked)'
  BY <1>1, <1>3 DEF LimitsOf
<1>7. (noted.finished =>
           /\ noted.budget \in Nat
           /\ \E last :
                  /\ Reached(CallOf(noted.inputs), noted.budget, last)
                  /\ last.phase = "done"
                  /\ noted.outcome = OutcomeAt(last))'
  <2>1. CASE UNCHANGED noted
    <3>1. CallOf(noted.inputs)' = CallOf(noted.inputs)
      BY <1>3, <2>1 DEF CallOf, CallWith, LimitsOf
    <3> QED
      BY <2>1, <3>1, Zenon DEF RunsInvariant
  <2>2. CASE phase = "done" /\ noted' = [finished |-> TRUE, inputs |-> Inputs,
                                        budget |-> max_islands, outcome |-> Outcome]
    <3>1. /\ noted'.inputs = Inputs /\ noted'.budget = max_islands
          /\ noted'.outcome = Outcome
      BY <2>2
    <3>2. CallOf(noted.inputs)' = CallOf(Inputs)
      BY <1>3, <3>1 DEF CallOf, CallWith, LimitsOf
    <3>3. /\ Reached(ThisCall, max_islands, Moment) /\ max_islands \in Nat
          /\ run_limits = LimitsOf(asked)
      BY <2>2 DEF RunsInvariant
    <3>4. CallOf(Inputs) = ThisCall
      BY <3>3 DEF CallOf, ThisCall, Inputs
    <3>5. Moment.phase = "done" /\ Outcome = OutcomeAt(Moment)
      BY <2>2 DEF Moment, Outcome, OutcomeAt
    <3> QED
      BY <3>1, <3>2, <3>3, <3>4, <3>5, Zenon
  <2> QED
    BY <2>1, <2>2 DEF NoteRun
<1>8. Cleared'
  BY <1>1, <1>2 DEF Cleared, islandVars
<1> QED
  BY <1>1, <1>3, <1>5, <1>6, <1>7, <1>8 DEF RunsInvariant

\* It is kept by every step.
LEMMA RunsInvariantStep ==
    ASSUME RunsInvariant, [RepeatedNext]_<<vars, historyVars>>
    PROVE  RunsInvariant'
<1>1. CASE \E override \in Overrides :
               StartRunWith(override) /\ asked' = override /\ NoteRun
  BY <1>1, StartRunRuns
<1>2. CASE RunStep /\ UNCHANGED historyVars
  BY <1>2, RunStepRuns
<1>3. CASE Verify /\ UNCHANGED historyVars
  <2>1. verdict # "verified" /\ UNCHANGED machineVars /\ UNCHANGED noted
    BY <1>3 DEF Verify, VerifierNext, CheckModule, ScanIsland, CheckEntry, historyVars
  <2>2. phase = "idle" /\ noted = NoRun
    BY <2>1 DEF RunsInvariant
  <2> QED
    BY <2>1, <2>2
       DEF RunsInvariant, machineVars, optionVars, stateVars, islandVars, resultVars, Cleared, NoRun
<1>4. CASE UNCHANGED <<vars, historyVars>>
  <2>1. UNCHANGED <<verifierVars, machineVars, noted, asked>>
    BY <1>4 DEF vars, historyVars
  <2>2. /\ ThisCall' = ThisCall
        /\ CallOf(noted.inputs)' = CallOf(noted.inputs)
        /\ LimitsOf(asked)' = LimitsOf(asked)
        /\ Moment' = Moment /\ verdict' = verdict
    BY <2>1
       DEF ThisCall, CallOf, CallWith, LimitsOf, Moment, verifierVars, machineVars, optionVars,
           stateVars, islandVars, resultVars
  <2>3. Cleared' = Cleared
    BY <2>1 DEF Cleared, machineVars, islandVars
  <2>4. UNCHANGED <<max_islands, run_limits, islands_executed, phase, value, noted>>
    BY <2>1 DEF machineVars, optionVars, stateVars, resultVars
  <2> QED
    BY <2>2, <2>3, <2>4, Zenon DEF RunsInvariant
<1> QED
  BY <1>1, <1>2, <1>3, <1>4 DEF RepeatedNext

\* It holds in every state.
LEMMA RunsInvariantHolds == RepeatedSpec => []RunsInvariant
<1> QED
  BY RunsInvariantInit, RunsInvariantStep, PTL DEF RepeatedSpec

\* Two comparable runs are two complete histories of one call.
LEMMA ComparedRuns ==
    ASSUME RunsInvariant, Comparable
    PROVE  /\ noted.budget \in Nat /\ max_islands \in Nat
           /\ Reached(ThisCall, max_islands, Moment)
           /\ Moment.phase = "done"
           /\ OutcomeAt(Moment) = Outcome
           /\ \E last :
                  /\ Reached(ThisCall, noted.budget, last)
                  /\ last.phase = "done"
                  /\ noted.outcome = OutcomeAt(last)
<1>1. phase = "done" /\ noted.finished /\ noted.inputs = Inputs
  BY DEF Comparable
<1>3. CallOf(Inputs) = ThisCall
  BY <1>1 DEF RunsInvariant, CallOf, ThisCall, Inputs
<1>2. Moment.phase = "done" /\ OutcomeAt(Moment) = Outcome
  BY <1>1 DEF Moment, OutcomeAt, Outcome
<1> QED
  BY <1>1, <1>2, <1>3, Zenon DEF RunsInvariant

\* run is const and keeps nothing: of any number of runs of one machine, any two
\* that were given the same arguments, override and budget have the same outcome,
\* whatever ran before the first, between the two, and however those runs ended
\* (Machine::run).
THEOREM RunsRepeat == RepeatedSpec => []RunsAreRepeatable
<1>1. RunsInvariant => RunsAreRepeatable
  <2> SUFFICES ASSUME RunsInvariant, Comparable, noted.budget = max_islands
               PROVE  noted.outcome = Outcome
    BY DEF RunsAreRepeatable
  <2>1. PICK last : /\ Reached(ThisCall, max_islands, last)
                    /\ last.phase = "done"
                    /\ noted.outcome = OutcomeAt(last)
    BY ComparedRuns, Zenon
  <2>2. last = Moment
    BY <2>1, ComparedRuns, SameBudget
  <2> QED
    BY <2>1, <2>2, ComparedRuns
<1> QED
  BY <1>1, RunsInvariantHolds, PTL

\* For every two runs of one machine, in either order and with any runs between
\* them, and for every pair of budgets, the larger changes nothing for a run the smaller one
\* did not cut short, and a budget of exactly the islands a halting run needs is
\* enough (the order of the tests in the loop of Machine::run).
THEOREM BudgetsTruncate == RepeatedSpec => []BudgetOnlyTruncates
<1>1. RunsInvariant => BudgetOnlyTruncates
  <2> SUFFICES ASSUME RunsInvariant, Comparable
               PROVE  /\ noted.budget <= max_islands /\ noted.outcome.fault # BudgetFault
                             => noted.outcome = Outcome
                      /\ max_islands <= noted.budget /\ fault # BudgetFault
                             => noted.outcome = Outcome
                      /\ noted.outcome.value # NoValue
                             /\ noted.outcome.islands_executed <= max_islands
                             => value = noted.outcome.value
    BY DEF BudgetOnlyTruncates
  <2>1. PICK last : /\ Reached(ThisCall, noted.budget, last)
                    /\ last.phase = "done"
                    /\ noted.outcome = OutcomeAt(last)
    BY ComparedRuns, Zenon
  <2>2. /\ noted.outcome.fault = last.fault
        /\ noted.outcome.value = last.value
        /\ noted.outcome.islands_executed = last.islands_executed
    BY <2>1 DEF OutcomeAt
  <2>3. ASSUME noted.budget <= max_islands, noted.outcome.fault # BudgetFault
        PROVE  last = Moment
    BY <2>1, <2>2, <2>3, ComparedRuns, LargerBudget
  <2>4. ASSUME noted.outcome.value # NoValue,
               noted.outcome.islands_executed <= max_islands
        PROVE  last = Moment
    BY <2>1, <2>2, <2>4, ComparedRuns, EnoughBudget
  <2>5. Moment.value = value /\ Moment.fault = fault
    BY DEF Moment
  <2>6. ASSUME max_islands <= noted.budget, fault # BudgetFault
        PROVE  Moment = last
    BY <2>1, <2>5, <2>6, ComparedRuns, LargerBudget
  <2> QED
    BY <2>1, <2>2, <2>3, <2>4, <2>5, <2>6, ComparedRuns
<1> QED
  BY <1>1, RunsInvariantHolds, PTL
=============================================================================
