---------------------------- MODULE PrimitivePlans ----------------------------
(***************************************************************************)
(* The plans the lowering hands to the back end (primitive.cpp): their     *)
(* predicted and their encoded size, their verifier and their encoder.  A  *)
(* plan has the nodes and writes of an island, but no header yet.  At the  *)
(* end, constructors of nodes, writes and islands, and the compiler's way  *)
(* of handing control to another island: its sealed continuation, split in *)
(* shares, replaces the six continuation carriers.                         *)
(***************************************************************************)
EXTENDS PhysicalCode, TLC

kFormatCount == 65535

\* Mutant: the mixing salt is forgotten.
PlanPayloadWithoutSalt(kind) ==
    IF kind = "Mix" THEN 4 ELSE PayloadSize(kind)

\* node_payload_size.
PlanPayload(kind) ==
    CASE kind = "Literal"                       -> 8
      [] kind \in {"ReadCarrier"} \cup BinaryKind -> 4
      [] kind \in Loads \cup UnaryKind          -> 2
      [] kind = "Compare"                       -> 5
      [] kind = "Select"                        -> 6
      [] kind = "Mix"                           -> 12

\* The widths of the fields append_node writes after the opcode, in order.
FieldWidths(kind) ==
    CASE kind = "Literal"              -> <<8>>
      [] kind = "ReadCarrier"          -> <<4>>
      [] kind \in Loads \cup UnaryKind -> <<2>>
      [] kind = "Compare"              -> <<1, 2, 2>>
      [] kind = "Select"               -> <<2, 2, 2>>
      [] kind = "Mix"                  -> <<2, 2, 8>>
      [] kind \in BinaryKind           -> <<2, 2>>

\* The sum of a sequence of sizes.
Total(sizes) ==
    LET upTo[n \in 0 .. Len(sizes)] == IF n = 0 THEN 0 ELSE upTo[n - 1] + sizes[n]
    IN  upTo[Len(sizes)]

WritesSize(plan) == 6 * Len(plan.carrier_writes) + 5 * Len(plan.memory_writes)

\* primitive_plan_size, and the bytes encode_primitive_plan appends.
PlanSize(plan) ==
    kIslandHeaderSize
        + Total([n \in 1 .. NodeCount(plan) |-> 1 + PlanPayload(plan.nodes[n].kind)])
        + WritesSize(plan)

EncodedSize(plan) ==
    kIslandHeaderSize
        + Total([n \in 1 .. NodeCount(plan) |-> 1 + Total(FieldWidths(plan.nodes[n].kind))])
        + WritesSize(plan)

\* verify_primitive_plan.  Its test of the plan's size cannot fail: the counts
\* it has already bounded keep the size far below 2^32.
PlanVerified(plan, carrier_count, limits) ==
    LET node_ids == 0 .. (NodeCount(plan) - 1)
    IN  /\ NodeCount(plan) # 0
        /\ NodeCount(plan) <= limits.max_nodes /\ NodeCount(plan) <= kFormatCount
        /\ CarrierWriteCount(plan) <= limits.max_carrier_writes
        /\ CarrierWriteCount(plan) <= kFormatCount
        /\ MemoryWriteCount(plan) <= limits.max_memory_writes
        /\ MemoryWriteCount(plan) <= kFormatCount
        /\ \A n \in 1 .. NodeCount(plan) :
               LET node == plan.nodes[n]
               IN  /\ \A i \in 1 .. Arity(node.kind) : node.operands[i] < n - 1
                   /\ node.kind = "Compare" => node.immediate <= SignedLessEqual
                   /\ node.kind = "ReadCarrier" => node.immediate < carrier_count
        /\ \A n \in 1 .. CarrierWriteCount(plan) :
               LET write == plan.carrier_writes[n]
               IN  /\ write.carrier < carrier_count
                   /\ write.value \in node_ids
                   /\ \A prior \in 1 .. (n - 1) :
                          plan.carrier_writes[prior].carrier # write.carrier
        /\ \A n \in 1 .. MemoryWriteCount(plan) :
               LET write == plan.memory_writes[n]
               IN  /\ write.width \in {1, WordBytes}
                   /\ write.address \in node_ids
                   /\ write.value \in node_ids

\* encode_primitive_plan: the size is patched once every byte is known.
EncodedIsland(plan) ==
    [size |-> EncodedSize(plan), reserved |-> 0, nodes |-> plan.nodes,
     carrier_writes |-> plan.carrier_writes, memory_writes |-> plan.memory_writes]

\* The types: ids and carriers are unsigned, an immediate is a word.
PrimitiveNode == [kind : PrimitiveKind, operands : Seq(Nat), immediate : Word]
PrimitivePlan ==
    [nodes : Seq(PrimitiveNode), carrier_writes : Seq([carrier : Nat, value : Nat]),
     memory_writes : Seq([width : Nat, address : Nat, value : Nat])]
ContinuationRelocation == [island : Nat, node : Nat, target : Nat, part : {"lane", "proof"}]

\* What the back end needs of a lowered program and the plans' verifier does not
\* ask: stage_continuation replaces both continuation words, the allocator
\* starts above the ABI carriers, and relocations name literals of both parts,
\* each a literal of its own (add_relocation).
LoweringPromises(program) ==
    /\ program.carrier_count \in Nat /\ program.carrier_count >= kFirstAllocatedCarrier
    /\ program.plans \in Seq(PrimitivePlan)
    /\ program.relocations \in Seq(ContinuationRelocation)
    /\ program.entry \in DOMAIN program.plans
    /\ \A i \in DOMAIN program.plans :
           LET written == {program.plans[i].carrier_writes[n].carrier :
                               n \in DOMAIN program.plans[i].carrier_writes}
           IN  ContinuationCarriers \subseteq written /\ written \cap ReadOnlyAbi = {}
    /\ \A i \in DOMAIN program.relocations :
           LET relocation == program.relocations[i]
           IN  /\ relocation.target \in 0 .. Len(program.plans)
               /\ relocation.island \in DOMAIN program.plans
               /\ relocation.node < NodeCount(program.plans[relocation.island])
               /\ program.plans[relocation.island].nodes[relocation.node + 1].kind
                      = "Literal"
    /\ \A i, j \in DOMAIN program.relocations :
           program.relocations[i].island = program.relocations[j].island
               /\ program.relocations[i].node = program.relocations[j].node => i = j

-----------------------------------------------------------------------------

\* The same function as a table, which the model checker computes only once.
Table(f) == f @@ << >>

\* encode_primitive_plan writes a zero size, appends every item, and patches the size.
Encode(nodes, carrier_writes, memory_writes) ==
    LET island == [size |-> 0, reserved |-> 0, nodes |-> nodes,
                   carrier_writes |-> carrier_writes, memory_writes |-> memory_writes]
    IN  [island EXCEPT !.size = StreamEnd(island)]

Lit(word) == [kind |-> "Literal", operands |-> << >>, immediate |-> word]
ReadC(carrier) == [kind |-> "ReadCarrier", operands |-> << >>, immediate |-> carrier]
Unary(kind, input) == [kind |-> kind, operands |-> <<input>>, immediate |-> 0]
Binary(kind, left, right) == [kind |-> kind, operands |-> <<left, right>>, immediate |-> 0]
Cmp(condition, left, right) ==
    [kind |-> "Compare", operands |-> <<left, right>>, immediate |-> condition]
Sel(condition, when_true, when_false) ==
    [kind |-> "Select", operands |-> <<condition, when_true, when_false>>, immediate |-> 0]
Mixed(left, right, salt) ==
    [kind |-> "Mix", operands |-> <<left, right>>, immediate |-> salt]

WriteC(carrier, node) == [carrier |-> carrier, value |-> node]
WriteM(width, address, node) == [width |-> width, address |-> address, value |-> node]

FirstShare == 5
SecondShare == 9

ASSUME SharesAreWords == {FirstShare, SecondShare} \subseteq Word

\* split_value for the Xor family.
SplitXor(word) == <<FirstShare, SecondShare, Xor(Xor(word, FirstShare), SecondShare)>>

\* Four nodes that leave the shares of a fixed continuation in nodes at to
\* at + 3: the two constant shares, the lane's third and the proof's third.
ContinuationNodes(continuation) ==
    <<Lit(FirstShare), Lit(SecondShare),
      Lit(SplitXor(continuation.lane)[3]), Lit(SplitXor(continuation.proof)[3])>>

\* The writes of those shares to the six continuation carriers.
ContinuationWrites(at) ==
    <<WriteC(0, at), WriteC(1, at + 1), WriteC(2, at + 2),
      WriteC(3, at), WriteC(4, at + 1), WriteC(5, at + 3)>>

\* The same for a continuation chosen by the truth of a node: eight nodes, the
\* shares in nodes at, at + 1, at + 4 and at + 7.
BranchNodes(at, condition, taken, otherwise) ==
    <<Lit(FirstShare), Lit(SecondShare),
      Lit(SplitXor(Seal(taken).lane)[3]), Lit(SplitXor(Seal(otherwise).lane)[3]),
      Sel(condition, at + 2, at + 3),
      Lit(SplitXor(Seal(taken).proof)[3]), Lit(SplitXor(Seal(otherwise).proof)[3]),
      Sel(condition, at + 5, at + 6)>>

BranchWrites(at) ==
    <<WriteC(0, at), WriteC(1, at + 1), WriteC(2, at + 4),
      WriteC(3, at), WriteC(4, at + 1), WriteC(5, at + 7)>>

\* The return value's shares, from the node that holds the value and a node
\* that holds zero.
ReturnWrites(node, zero) == <<WriteC(6, node), WriteC(7, zero), WriteC(8, zero)>>

\* The initial carriers of a module entered at an offset.
CarriersFor(count, continuation) ==
    LET lane == SplitXor(continuation.lane)
        proof == SplitXor(continuation.proof)
    IN  [c \in 0 .. (count - 1) |->
            CASE c \in 0 .. 2 -> lane[c + 1]
              [] c \in 3 .. 5 -> proof[c - 2]
              [] OTHER -> 0]
=============================================================================
