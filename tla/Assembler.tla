------------------------------ MODULE Assembler ------------------------------
(***************************************************************************)
(* The back end of compile_machine_ir: from primitive plans, whose         *)
(* continuations are still unresolved literals, to a module.  The islands  *)
(* are laid out with the sizes that primitive_plan_size predicts, the      *)
(* literals are patched with sealed offsets, and only then are the plans   *)
(* encoded, one after the other, by code that has field widths of its own. *)
(* The finished module is handed to create, whose decoder has a third set  *)
(* of widths.  Nothing but the agreement of the three makes an offset a    *)
(* boundary.                                                               *)
(***************************************************************************)
EXTENDS PhysicalVerifier, PrimitivePlans

CONSTANT Programs  \* what the lowering may hand over: plans and relocations

ASSUME ProgramsAssumption == \A program \in Programs : LoweringPromises(program)

VARIABLES
    program,    \* the lowered function
    stage,      \* the loop of compile_machine_ir reached
    plans,      \* its islands' plans, patched as the relocations are taken
    offsets,    \* the offsets assigned so far
    code_size,  \* the bytes laid out so far
    relocated,  \* the relocations taken so far
    code,       \* the islands encoded so far, by offset
    code_end    \* the bytes encoded so far

assemblerVars ==
    <<program, stage, plans, offsets, code_size, relocated, code, code_end>>

\* What a byte that is not an island's first, or that was masked for another
\* offset than the one it lies at, reads as.
Interior == [size |-> 0, reserved |-> 1, nodes |-> << >>,
             carrier_writes |-> << >>, memory_writes |-> << >>]

-----------------------------------------------------------------------------
(***************************************************************************)
(* The loops of compile_machine_ir after the lowering.                     *)
(***************************************************************************)

AssemblerInit ==
    /\ program \in Programs
    /\ plan_limits \in PlanLimits
    /\ stage = "layout"
    /\ plans = program.plans
    /\ offsets = << >>
    /\ code_size = 0
    /\ relocated = 0
    /\ code = << >>
    /\ code_end = 0
    /\ module_ = << >>
    /\ verdict = "absent"
    /\ scan_offset = 0
    /\ island_offsets = << >>

NextPlan == plans[Len(offsets) + 1]
LaidOut == Len(offsets) = Len(plans)

\* Mutant: nothing is tested after the last island.
LayoutFaultBefore ==
    ~ LaidOut /\ (\/ ~ PlanVerified(NextPlan, program.carrier_count, plan_limits)
                  \/ code_size >= kHaltContinuation)

\* What stops the layout: a plan the verifier of plans refuses, or a stream
\* that reaches the offset reserved for halting.
LayoutFault ==
    \/ ~ LaidOut /\ ~ PlanVerified(NextPlan, program.carrier_count, plan_limits)
    \/ code_size >= kHaltContinuation

RefuseLayout ==
    /\ stage = "layout"
    /\ LayoutFault
    /\ stage' = "refused"
    /\ UNCHANGED <<program, plans, offsets, code_size, relocated, code, code_end, verifierVars>>

LayIslandOut ==
    /\ stage = "layout"
    /\ ~ LaidOut
    /\ ~ LayoutFault
    /\ offsets' = Append(offsets, code_size)
    /\ code_size' = code_size + PlanSize(NextPlan)
    /\ UNCHANGED <<program, stage, plans, relocated, code, code_end, verifierVars>>

FinishLayout ==
    /\ stage = "layout"
    /\ LaidOut
    /\ ~ LayoutFault
    /\ stage' = "relocate"
    /\ UNCHANGED <<program, plans, offsets, code_size, relocated, code, code_end, verifierVars>>

Relocation == program.relocations[relocated + 1]

\* A relocation without a target island is the halt continuation.
TargetOffset(relocation) ==
    IF relocation.target = 0 THEN kHaltContinuation ELSE offsets[relocation.target]

\* Mutant: the two words are exchanged.
RelocatedWordSwapped(relocation) ==
    IF relocation.part = "lane" THEN Seal(TargetOffset(relocation)).proof
                                ELSE Seal(TargetOffset(relocation)).lane

RelocatedWord(relocation) ==
    IF relocation.part = "lane" THEN Seal(TargetOffset(relocation)).lane
                                ELSE Seal(TargetOffset(relocation)).proof

Relocate ==
    /\ stage = "relocate"
    /\ relocated < Len(program.relocations)
    /\ plans[Relocation.island].nodes[Relocation.node + 1].kind = "Literal"
    /\ plans' = [plans EXCEPT ![Relocation.island].nodes[Relocation.node + 1].immediate =
                     RelocatedWord(Relocation)]
    /\ relocated' = relocated + 1
    /\ UNCHANGED <<program, stage, offsets, code_size, code, code_end, verifierVars>>

FinishRelocation ==
    /\ stage = "relocate"
    /\ relocated = Len(program.relocations)
    /\ stage' = "encode"
    /\ UNCHANGED <<program, plans, offsets, code_size, relocated, code, code_end, verifierVars>>

Encoded == Cardinality(DOMAIN code)

\* The bytes are masked for the offset the layout assigned and appended where
\* the encoding has come to.
EncodeIsland ==
    /\ stage = "encode"
    /\ Encoded < Len(plans)
    /\ code' = [offset \in DOMAIN code \cup {code_end} |->
                    IF offset \in DOMAIN code THEN code[offset]
                    ELSE IF offsets[Encoded + 1] = offset THEN EncodedIsland(plans[Encoded + 1])
                    ELSE Interior]
    /\ code_end' = code_end + EncodedSize(plans[Encoded + 1])
    /\ UNCHANGED <<program, stage, plans, offsets, code_size, relocated, verifierVars>>

AssembledModule ==
    [memory_size |-> program.memory_size, carrier_count |-> program.carrier_count,
     argument_count |-> program.argument_count, fingerprint |-> Fingerprint,
     code_size |-> code_end, code |-> code, interior |-> Interior, data |-> program.data,
     initial_carriers |-> CarriersFor(program.carrier_count, Seal(offsets[program.entry]))]

\* The module is complete, passes validate_module or not, and goes to create.
FinishModule ==
    /\ stage = "encode"
    /\ Encoded = Len(plans)
    /\ IF ModuleShapeValid(AssembledModule)
       THEN stage' = "assembled" /\ module_' = AssembledModule /\ verdict' = "created"
       ELSE stage' = "refused" /\ UNCHANGED <<module_, verdict>>
    /\ UNCHANGED <<program, plans, offsets, code_size, relocated, code, code_end,
                   plan_limits, scan_offset, island_offsets>>

AssemblerNext ==
    \/ RefuseLayout
    \/ LayIslandOut
    \/ FinishLayout
    \/ Relocate
    \/ FinishRelocation
    \/ EncodeIsland
    \/ FinishModule
    \/ VerifierNext /\ UNCHANGED assemblerVars

AssemblerSpec == AssemblerInit /\ [][AssemblerNext]_<<assemblerVars, verifierVars>>

-----------------------------------------------------------------------------
\* create accepts every module compile_machine_ir produces, under the limits it
\* was compiled with: the plans were verified without looking at the encoding,
\* the encoding is verified without looking at the plans, and the entry opens to
\* an island however many islands lie before it.
AssembledModulesVerify == stage = "assembled" => verdict # "rejected"

\* Each island's bytes come to lie at the offset that was sealed into the
\* continuations before a byte was encoded, and those offsets are the boundaries
\* the verifier then finds in the bytes, in the same order.  The bytes really
\* written end before the offset reserved for halting, which the layout could only
\* test of the sizes it predicted.
OffsetsAreBoundaries ==
    /\ stage = "encode" /\ Encoded < Len(plans) => offsets[Encoded + 1] = code_end
    /\ stage = "assembled" => code_end < kHaltContinuation
    /\ verdict = "verified" => island_offsets = offsets

\* In the finished module, a lane and a proof patched for the same target open
\* to that target's boundary, or halt where no island is the target: no relocation
\* keeps its placeholder, is patched into another island, or pairs with the wrong
\* half, and no jump to an island is taken for a halt.
RelocationsLand ==
    verdict = "verified" =>
        \A lane, proof \in {program.relocations[i] : i \in 1 .. Len(program.relocations)} :
            LET word(r) ==
                    IslandAt(module_, offsets[r.island]).nodes[r.node + 1].immediate
                target == Open([lane |-> word(lane), proof |-> word(proof)])
            IN  /\ lane.part = "lane" /\ proof.part = "proof" /\ lane.target = proof.target
                => /\ target = TargetOffset(lane)
                   /\ target \in IF lane.target = 0 THEN {kHaltContinuation}
                                 ELSE Boundaries \ {kHaltContinuation}
=============================================================================
