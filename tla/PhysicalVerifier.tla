-------------------------- MODULE PhysicalVerifier ---------------------------
(***************************************************************************)
(* Machine::create and scan_module: a parsed module becomes a machine only *)
(* when its shape is valid, the islands of its code section tile the code  *)
(* from the first byte to the last, each island passes scan_island, and    *)
(* the initial continuation opens to an island boundary.  The boundaries   *)
(* found are kept: they are the only continuation targets the runtime      *)
(* accepts later.                                                          *)
(***************************************************************************)
EXTENDS PhysicalCode, ModuleShape

CONSTANTS
    Modules,       \* the parsed modules create may be handed
    PlanLimits,    \* the PrimitivePlanLimits a caller may pass
    Fingerprint    \* the fingerprint of the external profile

\* The fields a decoder reads are unsigned integers, an immediate a whole word.
IsIsland(island) ==
    /\ island.size \in Nat
    /\ NodeCount(island) \in Nat
    /\ CarrierWriteCount(island) \in Nat
    /\ MemoryWriteCount(island) \in Nat
    /\ \A n \in 1 .. NodeCount(island) :
           /\ island.nodes[n].immediate \in Word
           /\ \A i \in 1 .. Arity(island.nodes[n].kind) : island.nodes[n].operands[i] \in Nat
    /\ \A n \in 1 .. CarrierWriteCount(island) :
           /\ island.carrier_writes[n].carrier \in Nat
           /\ island.carrier_writes[n].value \in Nat
    /\ \A n \in 1 .. MemoryWriteCount(island) :
           /\ island.memory_writes[n].address \in Nat
           /\ island.memory_writes[n].value \in Nat

IsModule(module) ==
    /\ module.code_size \in Nat
    /\ module.carrier_count \in Nat
    /\ module.memory_size \in Nat
    /\ IsIsland(module.interior)
    /\ \A offset \in DOMAIN module.code : IsIsland(module.code[offset])

ASSUME ModulesAssumption == \A module \in Modules : IsModule(module)

ASSUME PlanLimitsAssumption ==
    \A limits \in PlanLimits :
        /\ limits.max_nodes \in Nat
        /\ limits.max_carrier_writes \in Nat
        /\ limits.max_memory_writes \in Nat

VARIABLES
    module_,        \* the module handed to create
    plan_limits,    \* the limits create was called with
    verdict,        \* how far create has come with it
    scan_offset,    \* scan_module's offset
    island_offsets  \* the boundaries pushed so far

verifierVars == <<module_, plan_limits, verdict, scan_offset, island_offsets>>

(* What create and scan_module ask of the module before any island is read. *)
ModuleAccepted(module) ==
    /\ ModuleShapeValid(module)
    /\ module.fingerprint = Fingerprint
    /\ module.carrier_count >= kFirstAllocatedCarrier

(***************************************************************************)
(* scan_island, one operator per loop of it.                               *)
(***************************************************************************)
HeaderAccepted(module, offset, island, limits) ==
    /\ offset + kIslandHeaderSize <= module.code_size
    /\ island.reserved = 0
    /\ island.size \in kIslandHeaderSize .. (module.code_size - offset)
    /\ NodeCount(island) \in 1 .. limits.max_nodes
    /\ CarrierWriteCount(island) <= limits.max_carrier_writes
    /\ MemoryWriteCount(island) <= limits.max_memory_writes

\* Mutant: a node may refer to itself.
NodeAcceptedSelfReference(module, island, n) ==
    LET node == island.nodes[n]
    IN  /\ Readable(island, n)
        /\ node.kind \in PrimitiveKind
        /\ node.kind = "ReadCarrier" => node.immediate < module.carrier_count
        /\ node.kind = "Compare" => node.immediate <= SignedLessEqual
        /\ \A i \in 1 .. Arity(node.kind) : node.operands[i] < n

NodeAccepted(module, island, n) ==
    LET node == island.nodes[n]
    IN  /\ Readable(island, n)
        /\ node.kind \in PrimitiveKind
        /\ node.kind = "ReadCarrier" => node.immediate < module.carrier_count
        /\ node.kind = "Compare" => node.immediate <= SignedLessEqual
        /\ \A i \in 1 .. Arity(node.kind) : node.operands[i] < n - 1

CarrierWriteAccepted(module, island, n) ==
    LET write == island.carrier_writes[n]
    IN  /\ Readable(island, CarrierItem(island, n))
        /\ write.carrier < module.carrier_count
        /\ write.value < NodeCount(island)
        /\ write.carrier \notin ReadOnlyAbi
        /\ \A prior \in 1 .. (n - 1) : island.carrier_writes[prior].carrier # write.carrier

WrittenCarriers(island) ==
    {island.carrier_writes[n].carrier : n \in 1 .. CarrierWriteCount(island)}

MemoryWriteAccepted(island, n) ==
    LET write == island.memory_writes[n]
    IN  /\ Readable(island, MemoryItem(island, n))
        /\ write.width \in {1, WordBytes}
        /\ write.address < NodeCount(island)
        /\ write.value < NodeCount(island)

IslandAccepted(module, offset, limits) ==
    LET island == IslandAt(module, offset)
    IN  /\ HeaderAccepted(module, offset, island, limits)
        /\ \A n \in 1 .. NodeCount(island) : NodeAccepted(module, island, n)
        /\ \A n \in 1 .. CarrierWriteCount(island) : CarrierWriteAccepted(module, island, n)
        /\ ContinuationCarriers \subseteq WrittenCarriers(island)
        /\ \A n \in 1 .. MemoryWriteCount(island) : MemoryWriteAccepted(island, n)
        /\ StreamEnd(island) = island.size

Boundaries == {island_offsets[i] : i \in 1 .. Len(island_offsets)}

VerifierInit ==
    /\ module_ \in Modules
    /\ plan_limits \in PlanLimits
    /\ verdict = "created"
    /\ scan_offset = 0
    /\ island_offsets = << >>

CheckModule ==
    /\ verdict = "created"
    /\ verdict' = IF ModuleAccepted(module_) THEN "scanning" ELSE "rejected"
    /\ UNCHANGED <<module_, plan_limits, scan_offset, island_offsets>>

\* Mutants of ScanIsland: the boundary is pushed after the advance; only the
\* header is scanned; a refused island is tried again.
ScanIslandPushingEnd ==
    /\ verdict = "scanning"
    /\ scan_offset < module_.code_size
    /\ IF IslandAccepted(module_, scan_offset, plan_limits)
       THEN /\ scan_offset' = scan_offset + IslandAt(module_, scan_offset).size
            /\ island_offsets' = Append(island_offsets, scan_offset')
            /\ UNCHANGED verdict
       ELSE /\ verdict' = "rejected"
            /\ UNCHANGED <<scan_offset, island_offsets>>
    /\ UNCHANGED <<module_, plan_limits>>

ScanIslandHeaderOnly ==
    /\ verdict = "scanning"
    /\ scan_offset < module_.code_size
    /\ island_offsets' = Append(island_offsets, scan_offset)
    /\ IF HeaderAccepted(module_, scan_offset, IslandAt(module_, scan_offset), plan_limits)
       THEN /\ scan_offset' = scan_offset + IslandAt(module_, scan_offset).size
            /\ UNCHANGED verdict
       ELSE /\ verdict' = "rejected"
            /\ UNCHANGED scan_offset
    /\ UNCHANGED <<module_, plan_limits>>

ScanIslandRetrying ==
    /\ verdict = "scanning"
    /\ scan_offset < module_.code_size
    /\ IslandAccepted(module_, scan_offset, plan_limits)
    /\ island_offsets' = Append(island_offsets, scan_offset)
    /\ scan_offset' = scan_offset + IslandAt(module_, scan_offset).size
    /\ UNCHANGED <<module_, plan_limits, verdict>>

\* The boundary is pushed before the island is scanned.
ScanIsland ==
    /\ verdict = "scanning"
    /\ scan_offset < module_.code_size
    /\ island_offsets' = Append(island_offsets, scan_offset)
    /\ IF IslandAccepted(module_, scan_offset, plan_limits)
       THEN /\ scan_offset' = scan_offset + IslandAt(module_, scan_offset).size
            /\ UNCHANGED verdict
       ELSE /\ verdict' = "rejected"
            /\ UNCHANGED scan_offset
    /\ UNCHANGED <<module_, plan_limits>>

CheckEntry ==
    /\ verdict = "scanning"
    /\ scan_offset >= module_.code_size
    /\ verdict' = IF /\ scan_offset = module_.code_size
                     /\ OpenCarriers(module_.initial_carriers) \in Boundaries
                  THEN "verified"
                  ELSE "rejected"
    /\ UNCHANGED <<module_, plan_limits, scan_offset, island_offsets>>

VerifierNext == CheckModule \/ ScanIsland \/ CheckEntry

\* The scan is one uninterrupted loop: it keeps taking its next step.
VerifierFairness == WF_verifierVars(VerifierNext)

VerifierSpec == VerifierInit /\ [][VerifierNext]_verifierVars /\ VerifierFairness

-----------------------------------------------------------------------------
VerifierTypeOK ==
    /\ plan_limits \in PlanLimits
    /\ verdict \in {"created", "scanning", "verified", "rejected"}
    /\ scan_offset \in Nat
    /\ island_offsets \in Seq(Nat)

\* The offset after the last byte the i-th island claims.
TileEnd(i) == island_offsets[i] + IslandAt(module_, island_offsets[i]).size

\* The scan leaves no byte of a verified module's code section unaccounted for
\* and overlaps none: the first island starts at the first byte, each one
\* starts where its predecessor's claimed size ends, the last one ends with
\* the section (the loop of scan_module and the coverage test after it).
BoundariesTile ==
    verdict = "verified" =>
        /\ island_offsets[1] = 0
        /\ \A i \in 2 .. Len(island_offsets) : island_offsets[i] = TileEnd(i - 1)
        /\ TileEnd(Len(island_offsets)) = module_.code_size

\* Every boundary a verified machine will accept as a continuation target was
\* itself decoded and accepted, under the limits create was given.
BoundariesAccepted ==
    verdict = "verified" =>
        \A o \in Boundaries : IslandAccepted(module_, o, plan_limits)

\* Verification ends for every module, however malformed: the offset always
\* advances, so the loop of scan_module cannot run for ever on one byte.
VerificationEnds == <>(verdict \in {"verified", "rejected"})
=============================================================================
