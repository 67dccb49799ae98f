------------------------------ MODULE CompiledRun ------------------------------
(***************************************************************************)
(* From a function to what its module does: the lowering, the initial      *)
(* carriers, and the islands run one after the other.  What happens        *)
(* between the two, the layout and the encoding, is Assembler's subject:   *)
(* here an island's offset is its number, counted from zero, and its size  *)
(* is one.                                                                 *)
(***************************************************************************)
EXTENDS Lowering, AtomicIslands, WordArithmetic

CONSTANT NoResult

VARIABLES
    initial_carriers, \* module.initial_carriers, until the module is complete
    written           \* the values written to it so far

runVars == <<loweringVars, atomicVars, initial_carriers, written>>

-----------------------------------------------------------------------------
(***************************************************************************)
(* The end of compile_machine_ir.                                          *)
(***************************************************************************)

StartCarriers ==
    /\ loop = "lowered"
    /\ initial_carriers = << >>
    /\ initial_carriers' = [c \in 0 .. (next_carrier - 1) |-> 0]
    /\ UNCHANGED <<loweringVars, atomicVars, written>>

InitialWord(value) ==
    CASE value.domain = "Semantic" -> CompilerSalt(value.origin, "SEMINIT")
      [] value.domain = "History"  -> CompilerSalt(value.origin, "HISINIT")
      [] OTHER -> 0

WriteInitialValue ==
    /\ initial_carriers # << >>
    /\ module_ = << >>
    /\ written < Len(allocated)
    /\ LET value == allocated[written + 1]
       IN  initial_carriers' =
               write_physical_value(value, InitialWord(value),
                                    CompilerSalt(value.origin, "INITSH1"),
                                    CompilerSalt(value.origin, "INITSH2"), initial_carriers)
    /\ written' = written + 1
    /\ UNCHANGED <<loweringVars, atomicVars>>

TargetOffset(target) == IF target = 0 THEN kHaltContinuation ELSE target - 1

\* The island of a plan, its continuation literals patched.
LinkedIsland(i) ==
    LET patches == {r \in DOMAIN relocations : relocations[r].island = i}
        word(r) == IF relocations[r].part = "lane"
                   THEN Seal(TargetOffset(relocations[r].target)).lane
                   ELSE Seal(TargetOffset(relocations[r].target)).proof
        patched == [node \in {relocations[r].node + 1 : r \in patches} |->
                       Lit(word(CHOOSE r \in patches : relocations[r].node + 1 = node))]
    IN  [EncodedIsland(plans[i]) EXCEPT
            !.size = 1,
            !.nodes = [n \in DOMAIN @ |-> IF n \in DOMAIN patched THEN patched[n] ELSE @[n]]]

\* The continuation and the return value, which no value was allocated for.
EntryCarriers ==
    LET entry == BlockIndex(function_, function_.entry)
        salt(name) == CompilerSalt(Blocks[entry].origin, name)
        sealed == Seal(entry - 1)
        lane == write_physical_value(continuation_lane, sealed.lane, salt("ENTRYL1"),
                                     salt("ENTRYL2"), initial_carriers)
        proof == write_physical_value(continuation_proof, sealed.proof, salt("ENTRYP1"),
                                      salt("ENTRYP2"), lane)
    IN  write_physical_value(return_value, 0, salt("RETINIT1"), salt("RETINIT2"), proof)

FinishModule ==
    /\ initial_carriers # << >>
    /\ module_ = << >>
    /\ written = Len(allocated)
    /\ initial_carriers' = EntryCarriers
    /\ module_' =
           [memory_size |-> source.memory_size, carrier_count |-> next_carrier,
            argument_count |-> Len(function_.argument_domains), code_size |-> Len(plans),
            code |-> [offset \in 0 .. (Len(plans) - 1) |-> LinkedIsland(offset + 1)],
            data |-> source.initial_data, initial_carriers |-> initial_carriers']
    /\ UNCHANGED <<loweringVars, written, status, carriers, memory, executed>>

-----------------------------------------------------------------------------
(***************************************************************************)
(* The run.                                                                *)
(***************************************************************************)

Here == OpenCarriers(carriers)
AtHalt == status = "running" /\ Here = kHaltContinuation

Halt ==
    /\ AtHalt
    /\ status' = "returned"
    /\ UNCHANGED <<module_, carriers, memory, executed>>

\* An island that may not take effect ends the run and leaves everything as it
\* found it.
RunFault ==
    /\ status = "running"
    /\ Here \in 0 .. (module_.code_size - 1)
    /\ \E island \in {IslandAt(module_, Here)} :
           \E results \in {NodeValues(island)} : ~ TakesEffect(island, results)
    /\ status' = "faulted"
    /\ UNCHANGED <<module_, carriers, memory, executed>>

Machine ==
    \/ status = "idle" /\ module_ # << >> /\ Call
    \/ Begin
    \/ RunIsland
    \/ RunFault
    \/ Halt
    \/ status = "running" /\ ~ AtHalt /\ Stop

RunInit ==
    /\ LoweringInit
    /\ module_ = << >>
    /\ status = "idle"
    /\ carriers = << >>
    /\ memory = << >>
    /\ executed = 0
    /\ initial_carriers = << >>
    /\ written = 0

RunNext ==
    \/ LoweringNext /\ UNCHANGED <<atomicVars, initial_carriers, written>>
    \/ StartCarriers
    \/ WriteInitialValue
    \/ FinishModule
    \/ Machine /\ UNCHANGED <<loweringVars, initial_carriers, written>>

\* run's loop goes on to the next island until the run is over.
RunSpec == RunInit /\ [][RunNext]_runVars /\ WF_atomicVars(RunIsland \/ RunFault \/ Halt)

-----------------------------------------------------------------------------
(***************************************************************************)
(* The run of the function that a run of its module is.  An edge's island  *)
(* belongs to the step that was taken: at its start the target is entered  *)
(* already, with the values its arguments have in the carriers.            *)
(***************************************************************************)

Begun == status \notin {"idle", "called"}
Ended == AtHalt \/ status = "returned"

ReadValue(id) == read_physical_value(values[id], carriers)

\* The edge whose island is next, when it is an edge's.
NextEdge == edges[Here + 1 - BlockCount]

IrBlockNumber ==
    IF ~ Begun \/ Ended THEN 0
    ELSE IF Here < BlockCount THEN Here + 1 ELSE TargetOf(NextEdge)

IrParameters ==
    IF ~ Begun \/ Ended THEN << >>
    ELSE IF Here < BlockCount
    THEN [n \in DOMAIN Blocks[Here + 1].parameters |->
             ReadValue(Blocks[Here + 1].parameters[n].id)]
    ELSE [n \in DOMAIN NextEdge.arguments |-> ReadValue(NextEdge.arguments[n])]

Ir == INSTANCE IrInterpreter WITH
    status     <- IF ~ Begun THEN "idle" ELSE IF Ended THEN "returned" ELSE status,
    arguments  <- IF Begun THEN [i \in 1 .. module_.argument_count |->
                                    carriers[kArgumentCarrierBase + i - 1]]
                           ELSE << >>,
    block      <- IrBlockNumber,
    parameters <- IrParameters,
    memory     <- IF Begun THEN memory ELSE << >>,
    result     <- IF Ended THEN read_physical_value(return_value, carriers) ELSE NoResult

\* A compiled module does what its function means, block for block: whatever the
\* shares, the maps and the salts are, an island computes its block's actions on
\* the state before it, its stores take effect together or fault, an edge moves
\* all its arguments at once, and the entry reads its arguments anew each time
\* it is entered (compile_machine_ir, and the runtime as AtomicIslands has it).
RunsAsItsFunction == Ir!IrSpec

\* Every value of the domain Boolean is zero or one at every island boundary,
\* although callers may pass any word for a Boolean argument and neither an edge
\* nor a branch looks at more than whether it is zero (ArgumentAction in
\* compile_machine_ir).
BooleansAreBits ==
    Begun =>
        \A n \in DOMAIN allocated :
            allocated[n].domain = "Boolean"
                => read_physical_value(allocated[n], carriers) \in {0, 1}

\* A run that has begun is over at some time: each continuation an island leaves
\* opens to the next island or to the halt marker.
EveryRunEnds == Begun ~> status \in {"returned", "faulted", "stopped"}
=============================================================================
