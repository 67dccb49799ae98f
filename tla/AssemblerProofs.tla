--------------------------- MODULE AssemblerProofs ---------------------------
(***************************************************************************)
(* Proofs about the back end: for every lowered program that keeps the     *)
(* promises of LoweringPromises, and every limit, the predicted, the       *)
(* encoded and the decoded sizes agree, each island comes to lie at the    *)
(* offset sealed into the continuations, and create accepts the module.    *)
(***************************************************************************)
EXTENDS Assembler, SharedLemmas, FiniteSetTheorems

(***************************************************************************)
(* The three sets of widths.                                               *)
(***************************************************************************)

LEMMA TotalIs ==
    ASSUME NEW sizes, NEW count, Len(sizes) = count
    PROVE  Total(sizes) = Running(0, sizes, count)[count]
BY Zenon DEF Total, Running, IsRunning

\* The fields append_node writes add up to what node_payload_size promises, and
\* to what read_node reads.
LEMMA WidthsAgree ==
    ASSUME NEW kind \in PrimitiveKind
    PROVE  /\ PlanPayload(kind) \in Nat
           /\ Total(FieldWidths(kind)) = PlanPayload(kind)
           /\ PayloadSize(kind) = PlanPayload(kind)
<1>1. ASSUME NEW widths, Len(widths) = 1, widths[1] \in Nat
      PROVE  Total(widths) = widths[1]
  <2>1. PICK end : end = Running(0, widths, 1)
    OBVIOUS
  <2>2. \A n \in 1 .. 1 : widths[n] \in Nat
    BY <1>1
  <2>3. Total(widths) = end[1]
    BY <1>1, <2>1, TotalIs
  <2>4. end[0] = 0 /\ \A n \in 1 .. 1 : end[n] = end[n - 1] + widths[n]
    BY <2>1, <2>2, RunningSteps
  <2>5. end[1] = end[0] + widths[1]
    BY <2>4
  <2> QED
    BY <1>1, <2>3, <2>4, <2>5
<1>2. ASSUME NEW widths, Len(widths) = 2, widths[1] \in Nat, widths[2] \in Nat
      PROVE  Total(widths) = widths[1] + widths[2]
  <2>1. PICK end : end = Running(0, widths, 2)
    OBVIOUS
  <2>2. \A n \in 1 .. 2 : widths[n] \in Nat
    BY <1>2
  <2>3. Total(widths) = end[2]
    BY <1>2, <2>1, TotalIs
  <2>4. end[0] = 0 /\ \A n \in 1 .. 2 : end[n] = end[n - 1] + widths[n]
    BY <2>1, <2>2, RunningSteps
  <2>5. end[1] = end[0] + widths[1] /\ end[2] = end[1] + widths[2]
    BY <2>4
  <2> QED
    BY <1>2, <2>3, <2>4, <2>5
<1>3. ASSUME NEW widths, Len(widths) = 3, widths[1] \in Nat, widths[2] \in Nat, widths[3] \in Nat
      PROVE  Total(widths) = widths[1] + widths[2] + widths[3]
  <2>1. PICK end : end = Running(0, widths, 3)
    OBVIOUS
  <2>2. \A n \in 1 .. 3 : widths[n] \in Nat
    BY <1>3
  <2>3. Total(widths) = end[3]
    BY <1>3, <2>1, TotalIs
  <2>4. end[0] = 0 /\ \A n \in 1 .. 3 : end[n] = end[n - 1] + widths[n]
    BY <2>1, <2>2, RunningSteps
  <2>5. end[1] = end[0] + widths[1] /\ end[2] = end[1] + widths[2] /\ end[3] = end[2] + widths[3]
    BY <2>4
  <2> QED
    BY <1>3, <2>3, <2>4, <2>5
<1>4. CASE kind \in Loads \cup UnaryKind
  <2>1. PlanPayload(kind) = 2 /\ FieldWidths(kind) = <<2>> /\ PayloadSize(kind) = 2
    BY <1>4 DEF PlanPayload, FieldWidths, PayloadSize, Arity, Loads, UnaryKind, BinaryKind
  <2>2. Total(<<2>>) = 2
    BY <1>1
  <2> QED
    BY <2>1, <2>2
<1>5. CASE kind \in BinaryKind
  <2>1. PlanPayload(kind) = 4 /\ FieldWidths(kind) = <<2, 2>> /\ PayloadSize(kind) = 4
    BY <1>5 DEF PlanPayload, FieldWidths, PayloadSize, Arity, Loads, UnaryKind, BinaryKind
  <2>2. Total(<<2, 2>>) = 4
    BY <1>2
  <2> QED
    BY <2>1, <2>2
<1>6. CASE kind = "Literal"
  <2>1. PlanPayload(kind) = 8 /\ FieldWidths(kind) = <<8>> /\ PayloadSize(kind) = 8
    BY <1>6 DEF PlanPayload, FieldWidths, PayloadSize, Arity, Loads, UnaryKind, BinaryKind
  <2>2. Total(<<8>>) = 8
    BY <1>1
  <2> QED
    BY <2>1, <2>2
<1>7. CASE kind = "ReadCarrier"
  <2>1. PlanPayload(kind) = 4 /\ FieldWidths(kind) = <<4>> /\ PayloadSize(kind) = 4
    BY <1>7 DEF PlanPayload, FieldWidths, PayloadSize, Arity, Loads, UnaryKind, BinaryKind
  <2>2. Total(<<4>>) = 4
    BY <1>1
  <2> QED
    BY <2>1, <2>2
<1>8. CASE kind = "Compare"
  <2>1. PlanPayload(kind) = 5 /\ FieldWidths(kind) = <<1, 2, 2>> /\ PayloadSize(kind) = 5
    BY <1>8 DEF PlanPayload, FieldWidths, PayloadSize, Arity, Loads, UnaryKind, BinaryKind
  <2>2. Total(<<1, 2, 2>>) = 5
    BY <1>3
  <2> QED
    BY <2>1, <2>2
<1>9. CASE kind = "Select"
  <2>1. PlanPayload(kind) = 6 /\ FieldWidths(kind) = <<2, 2, 2>> /\ PayloadSize(kind) = 6
    BY <1>9 DEF PlanPayload, FieldWidths, PayloadSize, Arity, Loads, UnaryKind, BinaryKind
  <2>2. Total(<<2, 2, 2>>) = 6
    BY <1>3
  <2> QED
    BY <2>1, <2>2
<1>10. CASE kind = "Mix"
  <2>1. PlanPayload(kind) = 12 /\ FieldWidths(kind) = <<2, 2, 8>> /\ PayloadSize(kind) = 12
    BY <1>10 DEF PlanPayload, FieldWidths, PayloadSize, Arity, Loads, UnaryKind, BinaryKind
  <2>2. Total(<<2, 2, 8>>) = 12
    BY <1>3
  <2> QED
    BY <2>1, <2>2
<1> QED
  BY <1>4, <1>5, <1>6, <1>7, <1>8, <1>9, <1>10 DEF PrimitiveKind

LEMMA PlanTyped ==
    ASSUME NEW plan \in PrimitivePlan
    PROVE  /\ NodeCount(plan) \in Nat /\ DOMAIN plan.nodes = 1 .. NodeCount(plan)
           /\ CarrierWriteCount(plan) \in Nat /\ MemoryWriteCount(plan) \in Nat
           /\ \A n \in 1 .. NodeCount(plan) :
                  plan.nodes[n] \in PrimitiveNode /\ plan.nodes[n].kind \in PrimitiveKind
<1> DEFINE CarrierWrites == [carrier : Nat, value : Nat]
           MemoryWrites == [width : Nat, address : Nat, value : Nat]
<1>1. /\ plan.nodes \in Seq(PrimitiveNode)
      /\ plan.carrier_writes \in Seq(CarrierWrites) /\ plan.memory_writes \in Seq(MemoryWrites)
  BY DEF PrimitivePlan
<1> HIDE DEF CarrierWrites, MemoryWrites
<1>2. /\ Len(plan.carrier_writes) \in Nat /\ Len(plan.memory_writes) \in Nat
      /\ Len(plan.nodes) \in Nat /\ DOMAIN plan.nodes = 1 .. Len(plan.nodes)
      /\ \A n \in 1 .. Len(plan.nodes) : plan.nodes[n] \in PrimitiveNode
  BY <1>1
<1>3. \A node \in PrimitiveNode : node.kind \in PrimitiveKind
  BY DEF PrimitiveNode
<1> QED
  BY <1>2, <1>3 DEF NodeCount, CarrierWriteCount, MemoryWriteCount

NodeSizes(plan) == [n \in 1 .. NodeCount(plan) |-> 1 + PlanPayload(plan.nodes[n].kind)]

\* The bytes predicted before the encoding are the bytes the encoder appends.
LEMMA EncodedAsPredicted ==
    ASSUME NEW plan \in PrimitivePlan
    PROVE  EncodedSize(plan) = PlanSize(plan)
<1>1. \A n \in 1 .. NodeCount(plan) :
          1 + Total(FieldWidths(plan.nodes[n].kind)) = 1 + PlanPayload(plan.nodes[n].kind)
  BY PlanTyped, WidthsAgree
<1>2. [n \in 1 .. NodeCount(plan) |-> 1 + Total(FieldWidths(plan.nodes[n].kind))]
          = [n \in 1 .. NodeCount(plan) |-> 1 + PlanPayload(plan.nodes[n].kind)]
  BY <1>1, Zenon
<1> QED
  BY <1>2, Zenon DEF EncodedSize, PlanSize

\* The decoder's cursor passes every item of an encoded plan and stands at the
\* size its header claims after the last.
THEOREM DecodedAsEncoded ==
    ASSUME NEW plan \in PrimitivePlan
    PROVE  /\ PlanSize(plan) \in Nat /\ PlanSize(plan) >= kIslandHeaderSize
           /\ EncodedIsland(plan).size = PlanSize(plan)
           /\ StreamEnd(EncodedIsland(plan)) = PlanSize(plan)
           /\ \A item \in 1 .. ItemCount(EncodedIsland(plan)) : Readable(EncodedIsland(plan), item)
<1> DEFINE island == EncodedIsland(plan)
           N == NodeCount(plan)
           C == CarrierWriteCount(plan)
           M == MemoryWriteCount(plan)
           sizes == [n \in 1 .. (N + C + M) |-> ItemSize(island, n)]
           end == Running(kIslandHeaderSize, sizes, N + C + M)
<1>1. N \in Nat /\ C \in Nat /\ M \in Nat
  BY PlanTyped
<1>2. /\ NodeCount(island) = N /\ CarrierWriteCount(island) = C /\ MemoryWriteCount(island) = M
      /\ island.nodes = plan.nodes /\ ItemCount(island) = N + C + M
      /\ island.size = PlanSize(plan)
  BY EncodedAsPredicted
     DEF EncodedIsland, NodeCount, CarrierWriteCount, MemoryWriteCount, ItemCount
<1>3. kIslandHeaderSize = 12
  BY DEF kIslandHeaderSize
<1> HIDE DEF island, N, C, M
<1>4. N + C + M \in Nat
  BY <1>1
<1>5. ItemEnds(island) = end
  <2>1. ASSUME NEW f
        PROVE  IsRunning(f, kIslandHeaderSize, sizes, N + C + M)
                   <=> f = [item \in 0 .. ItemCount(island) |->
                               IF item = 0 THEN kIslandHeaderSize
                               ELSE f[item - 1] + ItemSize(island, item)]
    <3> DEFINE Ours(item) == IF item = 0 THEN kIslandHeaderSize ELSE f[item - 1] + sizes[item]
               Theirs(item) == IF item = 0 THEN kIslandHeaderSize
                               ELSE f[item - 1] + ItemSize(island, item)
    <3>1. \A item \in 0 .. (N + C + M) : Ours(item) = Theirs(item)
      BY <1>1
    <3>2. [item \in 0 .. (N + C + M) |-> Ours(item)] = [item \in 0 .. (N + C + M) |-> Theirs(item)]
      <4> HIDE DEF Ours, Theirs
      <4> QED
        BY <3>1, Zenon
    <3> QED
      BY <3>2, <1>2, Zenon DEF IsRunning
  <2> QED
    BY <2>1, Zenon DEF ItemEnds, Running
<1>6. /\ \A n \in 1 .. N : sizes[n] = NodeSizes(plan)[n] /\ sizes[n] \in Nat
      /\ \A n \in 1 .. C : sizes[N + n] = 6
      /\ \A n \in 1 .. M : sizes[N + C + n] = 5
  <2>1. ASSUME NEW n \in 1 .. N PROVE sizes[n] = NodeSizes(plan)[n] /\ sizes[n] \in Nat
    <3>1. plan.nodes[n].kind \in PrimitiveKind
      BY PlanTyped DEF N
    <3>2. ItemSize(island, n) = 1 + PayloadSize(plan.nodes[n].kind)
      BY <1>2 DEF ItemSize
    <3>3. n \in 1 .. (N + C + M)
      BY <1>1
    <3>4. sizes[n] = 1 + PlanPayload(plan.nodes[n].kind)
      BY <3>1, <3>2, <3>3, WidthsAgree
    <3>5. NodeSizes(plan)[n] = 1 + PlanPayload(plan.nodes[n].kind)
      BY DEF NodeSizes, N
    <3> QED
      BY <3>1, <3>4, <3>5, WidthsAgree
  <2>2. ASSUME NEW n \in 1 .. C PROVE sizes[N + n] = 6
    BY <1>1, <1>2 DEF ItemSize, CarrierWriteSize
  <2>3. ASSUME NEW n \in 1 .. M PROVE sizes[N + C + n] = 5
    BY <1>1, <1>2 DEF ItemSize, MemoryWriteSize
  <2> QED
    BY <2>1, <2>2, <2>3
<1>7. \A n \in 1 .. (N + C + M) : sizes[n] \in Nat
  <2>1. ASSUME NEW n \in 1 .. (N + C + M) PROVE sizes[n] \in Nat
    <3>1. \/ n \in 1 .. N
          \/ n - N \in 1 .. C /\ n = N + (n - N)
          \/ n - N - C \in 1 .. M /\ n = N + C + (n - N - C)
      BY <1>1
    <3> HIDE DEF sizes
    <3> QED
      BY <3>1, <1>6
  <2> QED
    BY <2>1
<1> HIDE DEF sizes
<1>8. /\ end[0] = kIslandHeaderSize
      /\ \A n \in 1 .. (N + C + M) : end[n] = end[n - 1] + sizes[n]
      /\ \A n \in 0 .. (N + C + M) : end[n] \in Nat
  BY <1>1, <1>3, <1>4, <1>7, RunningSteps
<1>9. \A n \in 0 .. (N + C + M) : end[n] <= end[N + C + M]
  BY <1>1, <1>3, <1>4, <1>7, RunningGrows
<1> HIDE DEF end
<1>10. end[N] = kIslandHeaderSize + Total(NodeSizes(plan)) /\ Total(NodeSizes(plan)) \in Nat
  <2>1. NodeSizes(plan) = [n \in 1 .. N |-> 1 + PlanPayload(plan.nodes[n].kind)]
    BY DEF NodeSizes, N
  <2>2. Len(NodeSizes(plan)) = N
    BY <2>1, <1>1
  <2>3. \A n \in 1 .. N : NodeSizes(plan)[n] \in Nat
    BY <1>6
  <2> DEFINE up == Running(0, NodeSizes(plan), N)
  <2>4. Total(NodeSizes(plan)) = up[N]
    BY <2>2, TotalIs
  <2>5. /\ up[0] = 0 /\ \A n \in 1 .. N : up[n] = up[n - 1] + NodeSizes(plan)[n]
        /\ \A n \in 0 .. N : up[n] \in Nat
    BY <1>1, <2>3, RunningSteps
  <2> HIDE DEF up
  <2> DEFINE Same == {n \in 0 .. N : end[n] = kIslandHeaderSize + up[n]}
  <2>6. 0 \in Same /\ Same \in SUBSET (0 .. N)
    BY <1>1, <1>3, <1>8, <2>5
  <2>7. ASSUME NEW n \in 1 .. N, n - 1 \in Same PROVE n \in Same
    <3>1. n \in 1 .. (N + C + M) /\ n - 1 \in 0 .. N /\ n \in 0 .. N
      BY <1>1
    <3>2. /\ end[n] = end[n - 1] + sizes[n] /\ sizes[n] = NodeSizes(plan)[n] /\ sizes[n] \in Nat
          /\ up[n] = up[n - 1] + NodeSizes(plan)[n] /\ up[n - 1] \in Nat
      BY <3>1, <1>6, <1>8, <2>5
    <3>3. end[n - 1] = kIslandHeaderSize + up[n - 1]
      BY <2>7
    <3> QED
      BY <3>1, <3>2, <3>3, <1>3
  <2>8. N \in Same
    <3> HIDE DEF Same
    <3> QED
      BY <1>1, <2>6, <2>7, UpTo
  <2> QED
    BY <1>1, <2>4, <2>5, <2>8
<1>11. end[N + C] = end[N] + 6 * C
  <2> DEFINE Same == {n \in 0 .. C : end[N + n] = end[N] + 6 * n}
  <2>1. 0 \in Same /\ Same \in SUBSET (0 .. C)
    BY <1>1, <1>8
  <2>2. ASSUME NEW n \in 1 .. C, n - 1 \in Same PROVE n \in Same
    <3>1. N + n \in 1 .. (N + C + M) /\ N + n - 1 = N + (n - 1) /\ N \in 0 .. (N + C + M)
      BY <1>1
    <3>2. end[N + n] = end[N + n - 1] + sizes[N + n] /\ sizes[N + n] = 6 /\ end[N] \in Nat
      BY <3>1, <1>6, <1>8
    <3>3. end[N + (n - 1)] = end[N] + 6 * (n - 1)
      BY <2>2
    <3> QED
      BY <3>1, <3>2, <3>3
  <2>3. C \in Same
    <3> HIDE DEF Same
    <3> QED
      BY <1>1, <2>1, <2>2, UpTo
  <2> QED
    BY <2>3
<1>12. end[N + C + M] = end[N + C] + 5 * M
  <2> DEFINE Same == {n \in 0 .. M : end[N + C + n] = end[N + C] + 5 * n}
  <2>1. 0 \in Same /\ Same \in SUBSET (0 .. M)
    BY <1>1, <1>8
  <2>2. ASSUME NEW n \in 1 .. M, n - 1 \in Same PROVE n \in Same
    <3>1. /\ N + C + n \in 1 .. (N + C + M) /\ N + C + n - 1 = N + C + (n - 1)
          /\ N + C \in 0 .. (N + C + M)
      BY <1>1
    <3>2. /\ end[N + C + n] = end[N + C + n - 1] + sizes[N + C + n]
          /\ sizes[N + C + n] = 5 /\ end[N + C] \in Nat
      BY <3>1, <1>6, <1>8
    <3>3. end[N + C + (n - 1)] = end[N + C] + 5 * (n - 1)
      BY <2>2
    <3> QED
      BY <3>1, <3>2, <3>3
  <2>3. M \in Same
    <3> HIDE DEF Same
    <3> QED
      BY <1>1, <2>1, <2>2, UpTo
  <2> QED
    BY <2>3
<1>13. PlanSize(plan) = kIslandHeaderSize + Total(NodeSizes(plan)) + (6 * C + 5 * M)
  BY Zenon DEF PlanSize, NodeSizes, WritesSize, C, M, CarrierWriteCount, MemoryWriteCount
<1>14. end[N + C + M] = PlanSize(plan) /\ PlanSize(plan) \in Nat
       /\ PlanSize(plan) >= kIslandHeaderSize
  BY <1>1, <1>3, <1>10, <1>11, <1>12, <1>13
<1>15. StreamEnd(island) = PlanSize(plan)
  BY <1>2, <1>5, <1>14 DEF StreamEnd
<1>16. \A item \in 1 .. ItemCount(island) : Readable(island, item)
  BY <1>1, <1>2, <1>5, <1>9, <1>14 DEF Readable
<1> QED
  BY <1>2, <1>14, <1>15, <1>16 DEF island

(***************************************************************************)
(* What the verifier of plans lets through, scan_island accepts.           *)
(***************************************************************************)

Written(plan) == {plan.carrier_writes[n].carrier : n \in DOMAIN plan.carrier_writes}

\* The encoder adds nothing and loses nothing that scan_island looks at.
LEMMA EncodedIsAccepted ==
    ASSUME NEW plan \in PrimitivePlan, NEW module, NEW offset \in Nat, NEW limits \in PlanLimits,
           IslandAt(module, offset) = EncodedIsland(plan),
           PlanVerified(plan, module.carrier_count, limits),
           module.code_size \in Nat, offset + PlanSize(plan) <= module.code_size,
           ContinuationCarriers \subseteq Written(plan), Written(plan) \cap ReadOnlyAbi = {}
    PROVE  IslandAccepted(module, offset, limits)
<1> DEFINE island == EncodedIsland(plan)
<1>1. /\ island.size = PlanSize(plan) /\ island.reserved = 0 /\ island.nodes = plan.nodes
      /\ island.carrier_writes = plan.carrier_writes
      /\ island.memory_writes = plan.memory_writes
      /\ NodeCount(island) = NodeCount(plan)
      /\ CarrierWriteCount(island) = CarrierWriteCount(plan)
      /\ MemoryWriteCount(island) = MemoryWriteCount(plan)
      /\ ItemCount(island) = NodeCount(plan) + CarrierWriteCount(plan) + MemoryWriteCount(plan)
  BY DecodedAsEncoded
     DEF EncodedIsland, NodeCount, CarrierWriteCount, MemoryWriteCount, ItemCount
<1>2. /\ StreamEnd(island) = PlanSize(plan) /\ PlanSize(plan) \in Nat
      /\ PlanSize(plan) >= kIslandHeaderSize
      /\ \A item \in 1 .. ItemCount(island) : Readable(island, item)
  BY DecodedAsEncoded
<1> HIDE DEF island
<1>3. /\ NodeCount(plan) \in Nat /\ CarrierWriteCount(plan) \in Nat /\ MemoryWriteCount(plan) \in Nat
      /\ \A n \in 1 .. NodeCount(plan) : plan.nodes[n].kind \in PrimitiveKind
  BY PlanTyped
<1>4. HeaderAccepted(module, offset, island, limits)
  <2>1. /\ NodeCount(plan) # 0 /\ NodeCount(plan) <= limits.max_nodes
        /\ CarrierWriteCount(plan) <= limits.max_carrier_writes
        /\ MemoryWriteCount(plan) <= limits.max_memory_writes
    BY DEF PlanVerified
  <2>2. limits.max_nodes \in Nat
    BY PlanLimitsAssumption
  <2> QED
    BY <1>1, <1>2, <1>3, <2>1, <2>2 DEF HeaderAccepted, kIslandHeaderSize
<1>5. ASSUME NEW n \in 1 .. NodeCount(plan) PROVE NodeAccepted(module, island, n)
  <2>1. Readable(island, n)
    BY <1>1, <1>2, <1>3
  <2>2. /\ \A i \in 1 .. Arity(plan.nodes[n].kind) : plan.nodes[n].operands[i] < n - 1
        /\ plan.nodes[n].kind = "Compare" => plan.nodes[n].immediate <= SignedLessEqual
        /\ plan.nodes[n].kind = "ReadCarrier" => plan.nodes[n].immediate < module.carrier_count
    BY DEF PlanVerified
  <2> QED
    BY <1>1, <1>3, <2>1, <2>2 DEF NodeAccepted
<1>6. ASSUME NEW n \in 1 .. CarrierWriteCount(plan) PROVE CarrierWriteAccepted(module, island, n)
  <2>1. Readable(island, CarrierItem(island, n))
    BY <1>1, <1>2, <1>3 DEF CarrierItem
  <2>2. /\ plan.carrier_writes[n].carrier < module.carrier_count
        /\ plan.carrier_writes[n].value \in 0 .. (NodeCount(plan) - 1)
        /\ \A prior \in 1 .. (n - 1) :
               plan.carrier_writes[prior].carrier # plan.carrier_writes[n].carrier
    BY DEF PlanVerified
  <2>3. plan.carrier_writes[n].carrier \notin ReadOnlyAbi
    <3>1. n \in DOMAIN plan.carrier_writes
      BY DEF PrimitivePlan, CarrierWriteCount
    <3> QED
      BY <3>1 DEF Written
  <2>4. plan.carrier_writes[n].value < NodeCount(plan)
    BY <1>3, <2>2
  <2> QED
    BY <1>1, <2>1, <2>2, <2>3, <2>4 DEF CarrierWriteAccepted
<1>7. ASSUME NEW n \in 1 .. MemoryWriteCount(plan) PROVE MemoryWriteAccepted(island, n)
  <2>1. Readable(island, MemoryItem(island, n))
    BY <1>1, <1>2, <1>3 DEF MemoryItem
  <2>2. /\ plan.memory_writes[n].width \in {1, WordBytes}
        /\ plan.memory_writes[n].address \in 0 .. (NodeCount(plan) - 1)
        /\ plan.memory_writes[n].value \in 0 .. (NodeCount(plan) - 1)
    BY DEF PlanVerified
  <2>3. /\ plan.memory_writes[n].address < NodeCount(plan)
        /\ plan.memory_writes[n].value < NodeCount(plan)
    BY <1>3, <2>2
  <2> QED
    BY <1>1, <2>1, <2>2, <2>3 DEF MemoryWriteAccepted
<1>8. ContinuationCarriers \subseteq WrittenCarriers(island)
  <2>1. DOMAIN plan.carrier_writes = 1 .. CarrierWriteCount(plan)
    BY DEF PrimitivePlan, CarrierWriteCount
  <2>2. WrittenCarriers(island) = Written(plan)
    BY <1>1, <2>1 DEF WrittenCarriers, Written
  <2> QED
    BY <2>2
<1>9. IslandAt(module, offset) = island
  BY DEF island
<1> QED
  BY <1>1, <1>2, <1>4, <1>5, <1>6, <1>7, <1>8, <1>9 DEF IslandAccepted

\* What Relocate makes of a plan.
Patched(plan, n, word) == [plan EXCEPT !.nodes[n].immediate = word]

\* Patching a literal changes nothing but that literal.
LEMMA PatchKeeps ==
    ASSUME NEW plan \in PrimitivePlan, NEW n \in 1 .. NodeCount(plan),
           plan.nodes[n].kind = "Literal", NEW word \in Word,
           NEW patched, patched = Patched(plan, n, word)
    PROVE  /\ patched \in PrimitivePlan
           /\ NodeCount(patched) = NodeCount(plan)
           /\ PlanSize(patched) = PlanSize(plan)
           /\ Written(patched) = Written(plan)
           /\ patched.nodes[n].immediate = word
           /\ \A m \in 1 .. NodeCount(plan) :
                  /\ patched.nodes[m].kind = plan.nodes[m].kind
                  /\ m # n => patched.nodes[m] = plan.nodes[m]
           /\ \A count, limits :
                  PlanVerified(plan, count, limits) => PlanVerified(patched, count, limits)
<1> DEFINE N == NodeCount(plan)
<1>1. /\ N \in Nat /\ DOMAIN plan.nodes = 1 .. N
      /\ \A m \in 1 .. N : plan.nodes[m] \in PrimitiveNode
  BY PlanTyped
<1>2. plan = [nodes |-> plan.nodes, carrier_writes |-> plan.carrier_writes,
              memory_writes |-> plan.memory_writes]
  BY DEF PrimitivePlan
<1>3. patched = [nodes |-> [plan.nodes EXCEPT ![n].immediate = word],
                 carrier_writes |-> plan.carrier_writes, memory_writes |-> plan.memory_writes]
  BY <1>2 DEF Patched
<1>4. /\ patched.nodes = [plan.nodes EXCEPT ![n].immediate = word]
      /\ patched.carrier_writes = plan.carrier_writes
      /\ patched.memory_writes = plan.memory_writes
  BY <1>3
<1> HIDE DEF N
<1>5. \A m \in 1 .. N : m # n => patched.nodes[m] = plan.nodes[m]
  BY <1>1, <1>4
<1>6. /\ patched.nodes[n] \in PrimitiveNode
      /\ patched.nodes[n].kind = "Literal" /\ patched.nodes[n].immediate = word
  <2>1. patched.nodes[n] = [plan.nodes[n] EXCEPT !.immediate = word]
    BY <1>1, <1>4 DEF N
  <2>2. plan.nodes[n] \in PrimitiveNode
    BY <1>1 DEF N
  <2> QED
    BY <2>1, <2>2 DEF PrimitiveNode
<1>7. DOMAIN patched.nodes = 1 .. N /\ \A m \in 1 .. N : patched.nodes[m] \in PrimitiveNode
  BY <1>1, <1>4, <1>5, <1>6
<1>8. patched.nodes \in Seq(PrimitiveNode) /\ Len(patched.nodes) = N
  <2>1. patched.nodes \in [1 .. N -> PrimitiveNode]
    <3>1. patched.nodes = [m \in 1 .. N |-> patched.nodes[m]]
      BY <1>1, <1>4
    <3> QED
      BY <1>7, <3>1
  <2> QED
    BY <1>1, <2>1
<1>9. patched \in PrimitivePlan
  BY <1>3, <1>4, <1>8 DEF PrimitivePlan
<1>10. /\ NodeCount(patched) = N
       /\ CarrierWriteCount(patched) = CarrierWriteCount(plan)
       /\ MemoryWriteCount(patched) = MemoryWriteCount(plan)
       /\ Written(patched) = Written(plan) /\ WritesSize(patched) = WritesSize(plan)
  BY <1>4, <1>8 DEF NodeCount, CarrierWriteCount, MemoryWriteCount, Written, WritesSize
<1>11. \A m \in 1 .. N : patched.nodes[m].kind = plan.nodes[m].kind
  BY <1>5, <1>6
<1>12. PlanSize(patched) = PlanSize(plan)
  <2>1. \A m \in 1 .. N :
            1 + PlanPayload(patched.nodes[m].kind) = 1 + PlanPayload(plan.nodes[m].kind)
    BY <1>11
  <2>2. [m \in 1 .. N |-> 1 + PlanPayload(patched.nodes[m].kind)]
            = [m \in 1 .. N |-> 1 + PlanPayload(plan.nodes[m].kind)]
    BY <2>1, Zenon
  <2> QED
    BY <1>10, <2>2, Zenon DEF PlanSize, N
<1>13. ASSUME NEW count, NEW limits, PlanVerified(plan, count, limits)
       PROVE  PlanVerified(patched, count, limits)
  <2>1. ASSUME NEW m \in 1 .. N
        PROVE  /\ \A i \in 1 .. Arity(patched.nodes[m].kind) : patched.nodes[m].operands[i] < m - 1
               /\ patched.nodes[m].kind = "Compare" => patched.nodes[m].immediate <= SignedLessEqual
               /\ patched.nodes[m].kind = "ReadCarrier" => patched.nodes[m].immediate < count
    <3>1. CASE m = n
      <4>1. Arity("Literal") = 0
        BY DEF Arity, Loads, UnaryKind, BinaryKind
      <4> QED
        BY <1>6, <3>1, <4>1
    <3>2. CASE m # n
      <4>1. patched.nodes[m] = plan.nodes[m]
        BY <1>5, <3>2
      <4>2. /\ \A i \in 1 .. Arity(plan.nodes[m].kind) : plan.nodes[m].operands[i] < m - 1
            /\ plan.nodes[m].kind = "Compare" => plan.nodes[m].immediate <= SignedLessEqual
            /\ plan.nodes[m].kind = "ReadCarrier" => plan.nodes[m].immediate < count
        BY <1>13 DEF PlanVerified, N
      <4> QED
        BY <4>1, <4>2
    <3> QED
      BY <3>1, <3>2
  <2> QED
    BY <1>4, <1>10, <1>13, <2>1 DEF PlanVerified, N
<1> QED
  BY <1>5, <1>6, <1>9, <1>10, <1>11, <1>12, <1>13 DEF N

\* The entry's continuation, spread over the shares of the initial carriers,
\* opens to the entry.
LEMMA EntryOpens ==
    ASSUME NEW count \in Nat, count >= kFirstAllocatedCarrier, NEW offset \in Offset
    PROVE  OpenCarriers(CarriersFor(count, Seal(offset))) = offset
<1> DEFINE values == CarriersFor(count, Seal(offset))
<1>1. ASSUME NEW word \in Word
      PROVE  JoinXor(FirstShare, SecondShare, Xor(Xor(word, FirstShare), SecondShare)) = word
  <2> DEFINE masked == Xor(word, FirstShare)
             both == Xor(masked, SecondShare)
             mask == Xor(FirstShare, SecondShare)
  <2>1. FirstShare \in Word /\ SecondShare \in Word
    BY SharesAreWords
  <2>2. masked \in Word /\ both \in Word /\ mask \in Word
    BY <2>1, XorIsBitwise
  <2>3. both = Xor(word, mask)
    BY <2>1, XorAssociates
  <2>4. Xor(mask, both) = Xor(both, mask)
    BY <2>2, XorCommutes
  <2>5. Xor(both, mask) = word
    BY <2>2, <2>3, XorCancels
  <2> QED
    BY <2>4, <2>5 DEF JoinXor
<1>2. Seal(offset).lane \in Word /\ Seal(offset).proof \in Word
  BY SealTyped
<1>3. /\ values[0] = FirstShare /\ values[1] = SecondShare
      /\ values[2] = Xor(Xor(Seal(offset).lane, FirstShare), SecondShare)
      /\ values[3] = FirstShare /\ values[4] = SecondShare
      /\ values[5] = Xor(Xor(Seal(offset).proof, FirstShare), SecondShare)
  BY DEF CarriersFor, SplitXor, kFirstAllocatedCarrier
<1> HIDE DEF values
<1>4. /\ JoinXor(values[0], values[1], values[2]) = Seal(offset).lane
      /\ JoinXor(values[3], values[4], values[5]) = Seal(offset).proof
  BY <1>1, <1>2, <1>3
<1>5. Seal(offset) = [lane |-> Seal(offset).lane, proof |-> Seal(offset).proof]
  BY DEF Seal
<1>6. OpenCarriers(values) = Open(Seal(offset))
  BY <1>4, <1>5 DEF OpenCarriers, kContinuationLaneCarrier, kContinuationProofCarrier
<1> QED
  BY <1>6, SealOpens DEF values

(***************************************************************************)
(* The inductive invariant, one part per loop of compile_machine_ir and    *)
(* one for the scan of the finished module.                                *)
(***************************************************************************)

\* The offset after the i-th island, as the layout counts.
End(i) == offsets[i] + PlanSize(plans[i])
EndOfFirst(count) == IF count = 0 THEN 0 ELSE End(count)

\* The patches reach only immediates of literals.
PlansInvariant ==
    /\ program \in Programs
    /\ plan_limits \in PlanLimits
    /\ stage \in {"layout", "relocate", "encode", "assembled", "refused"}
    /\ plans \in Seq(PrimitivePlan) /\ Len(plans) = Len(program.plans)
    /\ \A i \in 1 .. Len(plans) :
           /\ NodeCount(plans[i]) = NodeCount(program.plans[i])
           /\ \A n \in 1 .. NodeCount(plans[i]) :
                  plans[i].nodes[n].kind = program.plans[i].nodes[n].kind
           /\ ContinuationCarriers \subseteq Written(plans[i])
           /\ Written(plans[i]) \cap ReadOnlyAbi = {}

\* Each island starts where its predecessor will end, below the halt offset, and
\* the last one ends below it.
LayoutInvariant ==
    /\ offsets \in Seq(Nat) /\ Len(offsets) <= Len(plans)
    /\ code_size \in Nat /\ code_size = EndOfFirst(Len(offsets))
    /\ \A i \in 1 .. Len(offsets) :
           /\ offsets[i] = EndOfFirst(i - 1)
           /\ offsets[i] < kHaltContinuation
           /\ End(i) <= code_size
           /\ \A j \in 1 .. (i - 1) : offsets[j] < offsets[i]
           /\ PlanVerified(plans[i], program.carrier_count, plan_limits)
    /\ stage \in {"relocate", "encode", "assembled"} =>
           Len(offsets) = Len(plans) /\ code_size < kHaltContinuation

\* A literal patched stays as it was patched.
RelocationInvariant ==
    /\ relocated \in 0 .. Len(program.relocations)
    /\ stage = "layout" => relocated = 0
    /\ stage \in {"encode", "assembled"} => relocated = Len(program.relocations)
    /\ \A r \in 1 .. relocated :
           LET relocation == program.relocations[r]
           IN  plans[relocation.island].nodes[relocation.node + 1].immediate
                   = RelocatedWord(relocation)

\* The islands encoded lie at the first of the offsets laid out.
EncodingInvariant ==
    /\ IsFiniteSet(DOMAIN code) /\ Encoded \in 0 .. Len(offsets)
    /\ stage \in {"layout", "relocate"} => Encoded = 0
    /\ DOMAIN code = {offsets[i] : i \in 1 .. Encoded}
    /\ \A i \in 1 .. Encoded : code[offsets[i]] = EncodedIsland(plans[i])
    /\ code_end = EndOfFirst(Encoded)

\* The scan finds the first of those offsets again.
HandoverInvariant ==
    /\ island_offsets \in Seq(Nat) /\ Len(island_offsets) <= Len(offsets)
    /\ \A i \in 1 .. Len(island_offsets) : island_offsets[i] = offsets[i]
    /\ scan_offset = EndOfFirst(Len(island_offsets))
    /\ stage # "assembled" => verdict = "absent" /\ island_offsets = << >>
    /\ stage = "assembled" =>
           /\ module_ = AssembledModule /\ ModuleShapeValid(module_)
           /\ Encoded = Len(plans)
           /\ verdict \in {"created", "scanning", "verified"}
           /\ verdict = "verified" => Len(island_offsets) = Len(offsets)

AssemblerInvariant ==
    /\ PlansInvariant
    /\ LayoutInvariant
    /\ RelocationInvariant
    /\ EncodingInvariant
    /\ HandoverInvariant

-----------------------------------------------------------------------------
LEMMA ProgramTyped ==
    ASSUME NEW lowered \in Programs
    PROVE  /\ lowered.carrier_count \in Nat /\ lowered.carrier_count >= kFirstAllocatedCarrier
           /\ lowered.plans \in Seq(PrimitivePlan) /\ lowered.entry \in 1 .. Len(lowered.plans)
           /\ Len(lowered.relocations) \in Nat
           /\ \A i \in 1 .. Len(lowered.plans) :
                  /\ ContinuationCarriers \subseteq Written(lowered.plans[i])
                  /\ Written(lowered.plans[i]) \cap ReadOnlyAbi = {}
           /\ \A r \in 1 .. Len(lowered.relocations) :
                  LET relocation == lowered.relocations[r]
                  IN  /\ relocation \in ContinuationRelocation
                      /\ relocation.target \in 0 .. Len(lowered.plans)
                      /\ relocation.island \in 1 .. Len(lowered.plans)
                      /\ relocation.node + 1 \in 1 .. NodeCount(lowered.plans[relocation.island])
                      /\ lowered.plans[relocation.island].nodes[relocation.node + 1].kind
                             = "Literal"
           /\ \A i, j \in 1 .. Len(lowered.relocations) :
                  lowered.relocations[i].island = lowered.relocations[j].island
                      /\ lowered.relocations[i].node = lowered.relocations[j].node => i = j
<1>1. LoweringPromises(lowered)
  BY ProgramsAssumption
<1>2. /\ lowered.plans \in Seq(PrimitivePlan)
      /\ lowered.relocations \in Seq(ContinuationRelocation)
  BY <1>1 DEF LoweringPromises
<1>3. /\ DOMAIN lowered.plans = 1 .. Len(lowered.plans)
      /\ DOMAIN lowered.relocations = 1 .. Len(lowered.relocations)
      /\ Len(lowered.relocations) \in Nat
      /\ \A r \in 1 .. Len(lowered.relocations) :
             lowered.relocations[r] \in ContinuationRelocation
      /\ \A i \in 1 .. Len(lowered.plans) : lowered.plans[i] \in PrimitivePlan
  BY <1>2
<1>4. ASSUME NEW i \in 1 .. Len(lowered.plans)
      PROVE  /\ ContinuationCarriers \subseteq Written(lowered.plans[i])
             /\ Written(lowered.plans[i]) \cap ReadOnlyAbi = {}
  BY <1>1, <1>3 DEF LoweringPromises, Written
<1>5. ASSUME NEW r \in 1 .. Len(lowered.relocations)
      PROVE  LET relocation == lowered.relocations[r]
             IN  /\ relocation \in ContinuationRelocation
                 /\ relocation.target \in 0 .. Len(lowered.plans)
                 /\ relocation.island \in 1 .. Len(lowered.plans)
                 /\ relocation.node + 1 \in 1 .. NodeCount(lowered.plans[relocation.island])
                 /\ lowered.plans[relocation.island].nodes[relocation.node + 1].kind = "Literal"
  <2> DEFINE relocation == lowered.relocations[r]
  <2>1. /\ relocation \in ContinuationRelocation
        /\ relocation.target \in 0 .. Len(lowered.plans)
        /\ relocation.island \in 1 .. Len(lowered.plans)
        /\ relocation.node < NodeCount(lowered.plans[relocation.island])
        /\ lowered.plans[relocation.island].nodes[relocation.node + 1].kind = "Literal"
    BY <1>1, <1>3 DEF LoweringPromises
  <2>2. relocation.node \in Nat
    BY <2>1 DEF ContinuationRelocation
  <2>3. NodeCount(lowered.plans[relocation.island]) \in Nat
    BY <2>1, <1>3, PlanTyped
  <2> HIDE DEF relocation
  <2>4. relocation.node + 1 \in 1 .. NodeCount(lowered.plans[relocation.island])
    BY <2>1, <2>2, <2>3
  <2> QED
    BY <2>1, <2>4 DEF relocation
<1>6. ASSUME NEW i \in 1 .. Len(lowered.relocations), NEW j \in 1 .. Len(lowered.relocations),
             lowered.relocations[i].island = lowered.relocations[j].island,
             lowered.relocations[i].node = lowered.relocations[j].node
      PROVE  i = j
  BY <1>1, <1>3, <1>6 DEF LoweringPromises
<1>7. /\ lowered.carrier_count \in Nat /\ lowered.carrier_count >= kFirstAllocatedCarrier
      /\ lowered.entry \in 1 .. Len(lowered.plans)
  BY <1>1, <1>3 DEF LoweringPromises
<1> QED
  BY <1>2, <1>3, <1>4, <1>5, <1>6, <1>7

LEMMA AssemblerInvariantInit == AssemblerInit => AssemblerInvariant
<1> SUFFICES ASSUME AssemblerInit PROVE AssemblerInvariant
  OBVIOUS
<1> USE DEF AssemblerInit
<1>1. PlansInvariant
  <2>1. program \in Programs /\ plans = program.plans
    OBVIOUS
  <2> QED
    BY <2>1, ProgramTyped DEF PlansInvariant
<1>2. Len(plans) \in Nat /\ Len(offsets) = 0 /\ offsets \in Seq(Nat)
  BY <1>1 DEF PlansInvariant
<1>3. LayoutInvariant
  BY <1>2 DEF LayoutInvariant, EndOfFirst
<1>4. RelocationInvariant
  <2>1. Len(program.relocations) \in Nat
    BY ProgramTyped
  <2> QED
    BY <2>1 DEF RelocationInvariant
<1>5. EncodingInvariant
  <2>1. DOMAIN code = {}
    OBVIOUS
  <2>2. IsFiniteSet(DOMAIN code) /\ Encoded = 0
    BY <2>1, FS_EmptySet DEF Encoded
  <2> QED
    BY <1>2, <2>1, <2>2 DEF EncodingInvariant, EndOfFirst
<1>6. HandoverInvariant
  BY <1>2 DEF HandoverInvariant, EndOfFirst
<1> QED
  BY <1>1, <1>3, <1>4, <1>5, <1>6 DEF AssemblerInvariant

\* What the parts of the invariant say of numbers.
LEMMA LayoutTyped ==
    ASSUME PlansInvariant, LayoutInvariant
    PROVE  /\ Len(plans) \in Nat /\ Len(offsets) \in Nat
           /\ \A i \in 1 .. Len(plans) :
                  plans[i] \in PrimitivePlan /\ PlanSize(plans[i]) \in Nat
                      /\ PlanSize(plans[i]) >= kIslandHeaderSize /\ PlanSize(plans[i]) > 0
           /\ \A i \in 1 .. Len(offsets) :
                  i \in 1 .. Len(plans) /\ offsets[i] \in Nat /\ End(i) \in Nat
                      /\ offsets[i] < End(i)
<1>1. /\ plans \in Seq(PrimitivePlan) /\ offsets \in Seq(Nat) /\ Len(offsets) <= Len(plans)
  BY DEF PlansInvariant, LayoutInvariant
<1>2. /\ Len(plans) \in Nat /\ Len(offsets) \in Nat
      /\ \A i \in 1 .. Len(plans) : plans[i] \in PrimitivePlan
      /\ \A i \in 1 .. Len(offsets) : i \in 1 .. Len(plans) /\ offsets[i] \in Nat
  BY <1>1
<1>3. ASSUME NEW i \in 1 .. Len(plans)
      PROVE  PlanSize(plans[i]) \in Nat /\ PlanSize(plans[i]) >= kIslandHeaderSize
                 /\ PlanSize(plans[i]) > 0
  <2>1. PlanSize(plans[i]) \in Nat /\ PlanSize(plans[i]) >= kIslandHeaderSize
    BY <1>2, DecodedAsEncoded
  <2> QED
    BY <2>1 DEF kIslandHeaderSize
<1>4. \A i \in 1 .. Len(offsets) : End(i) \in Nat /\ offsets[i] < End(i)
  BY <1>2, <1>3 DEF End
<1> QED
  BY <1>2, <1>3, <1>4

\* RefuseLayout.
LEMMA RefuseLayoutKeeps == AssemblerInvariant /\ RefuseLayout => AssemblerInvariant'
<1> SUFFICES ASSUME AssemblerInvariant, RefuseLayout PROVE AssemblerInvariant'
  OBVIOUS
<1> USE DEF RefuseLayout, AssemblerInvariant, verifierVars
<1>1. PlansInvariant'
  BY DEF PlansInvariant
<1>2. LayoutInvariant'
  BY DEF LayoutInvariant, End, EndOfFirst
<1>3. RelocationInvariant'
  BY DEF RelocationInvariant, RelocatedWord, TargetOffset
<1>4. EncodingInvariant'
  BY DEF EncodingInvariant, Encoded, End, EndOfFirst
<1>5. HandoverInvariant'
  BY DEF HandoverInvariant, End, EndOfFirst
<1> QED
  BY <1>1, <1>2, <1>3, <1>4, <1>5

LEMMA FinishLayoutKeeps == AssemblerInvariant /\ FinishLayout => AssemblerInvariant'
<1> SUFFICES ASSUME AssemblerInvariant, FinishLayout PROVE AssemblerInvariant'
  OBVIOUS
<1> USE DEF FinishLayout, AssemblerInvariant, verifierVars
<1>1. PlansInvariant'
  BY DEF PlansInvariant
<1>2. LayoutInvariant'
  <2>1. kHaltContinuation \in Nat
    BY OffsetsAreWords
  <2>2. code_size < kHaltContinuation /\ Len(offsets) = Len(plans)
    BY <2>1 DEF LayoutInvariant, LaidOut, LayoutFault
  <2> QED
    BY <2>2 DEF LayoutInvariant, End, EndOfFirst
<1>3. RelocationInvariant'
  BY DEF RelocationInvariant, RelocatedWord, TargetOffset
<1>4. EncodingInvariant'
  BY DEF EncodingInvariant, Encoded, End, EndOfFirst
<1>5. HandoverInvariant'
  BY DEF HandoverInvariant, End, EndOfFirst
<1> QED
  BY <1>1, <1>2, <1>3, <1>4, <1>5

LEMMA FinishRelocationKeeps == AssemblerInvariant /\ FinishRelocation => AssemblerInvariant'
<1> SUFFICES ASSUME AssemblerInvariant, FinishRelocation PROVE AssemblerInvariant'
  OBVIOUS
<1> USE DEF FinishRelocation, AssemblerInvariant, verifierVars
<1>1. PlansInvariant'
  BY DEF PlansInvariant
<1>2. LayoutInvariant'
  BY DEF LayoutInvariant, End, EndOfFirst
<1>3. RelocationInvariant'
  BY DEF RelocationInvariant, RelocatedWord, TargetOffset
<1>4. EncodingInvariant'
  BY DEF EncodingInvariant, Encoded, End, EndOfFirst
<1>5. HandoverInvariant'
  BY DEF HandoverInvariant, End, EndOfFirst
<1> QED
  BY <1>1, <1>2, <1>3, <1>4, <1>5

LEMMA LayIslandOutKeeps == AssemblerInvariant /\ LayIslandOut => AssemblerInvariant'
<1> SUFFICES ASSUME AssemblerInvariant, LayIslandOut PROVE AssemblerInvariant'
  OBVIOUS
<1>0. PICK N : N = Len(offsets)
  OBVIOUS
<1>1. /\ PlansInvariant /\ LayoutInvariant /\ RelocationInvariant
      /\ EncodingInvariant /\ HandoverInvariant
  BY DEF AssemblerInvariant
<1>2. /\ stage = "layout" /\ ~ LaidOut /\ ~ LayoutFault
      /\ offsets' = Append(offsets, code_size)
      /\ code_size' = code_size + PlanSize(plans[N + 1])
      /\ UNCHANGED <<program, stage, plans, relocated, code, code_end>>
      /\ UNCHANGED <<module_, plan_limits, verdict, scan_offset, island_offsets>>
  BY <1>0 DEF LayIslandOut, NextPlan, verifierVars
<1>3. /\ Len(plans) \in Nat /\ N \in Nat
      /\ \A i \in 1 .. Len(plans) :
             plans[i] \in PrimitivePlan /\ PlanSize(plans[i]) \in Nat /\ PlanSize(plans[i]) > 0
      /\ \A i \in 1 .. N :
             i \in 1 .. Len(plans) /\ offsets[i] \in Nat /\ End(i) \in Nat /\ offsets[i] < End(i)
  BY <1>0, <1>1, LayoutTyped
<1>4. /\ offsets \in Seq(Nat) /\ N <= Len(plans)
      /\ code_size \in Nat /\ code_size = EndOfFirst(N)
      /\ \A i \in 1 .. N :
             /\ offsets[i] = EndOfFirst(i - 1)
             /\ offsets[i] < kHaltContinuation
             /\ End(i) <= code_size
             /\ \A j \in 1 .. (i - 1) : offsets[j] < offsets[i]
             /\ PlanVerified(plans[i], program.carrier_count, plan_limits)
  BY <1>0, <1>1 DEF LayoutInvariant
<1>5. N + 1 \in 1 .. Len(plans)
  BY <1>0, <1>2, <1>3, <1>4 DEF LaidOut
<1>6. PlanVerified(plans[N + 1], program.carrier_count, plan_limits) /\ code_size < kHaltContinuation
  <2>1. kHaltContinuation \in Nat
    BY OffsetsAreWords
  <2> QED
    BY <1>0, <1>2, <1>3, <1>4, <1>5, <2>1 DEF LayoutFault, LaidOut, NextPlan
<1>7. /\ offsets' \in Seq(Nat) /\ Len(offsets') = N + 1 /\ offsets'[N + 1] = code_size
      /\ \A i \in 1 .. N : offsets'[i] = offsets[i]
  BY <1>0, <1>2, <1>4
<1>8. /\ \A i \in 1 .. N : End(i)' = End(i)
      /\ End(N + 1)' = code_size'
      /\ \A i \in 0 .. N : EndOfFirst(i)' = EndOfFirst(i)
  <2>1. \A i \in 1 .. N : End(i)' = End(i)
    BY <1>2, <1>7 DEF End
  <2>2. End(N + 1)' = code_size'
    BY <1>2, <1>7 DEF End
  <2>3. ASSUME NEW i \in 0 .. N PROVE EndOfFirst(i)' = EndOfFirst(i)
    <3>1. i = 0 \/ i \in 1 .. N
      BY <1>3
    <3> QED
      BY <3>1, <2>1 DEF EndOfFirst
  <2> QED
    BY <2>1, <2>2, <2>3
<1>9. PlansInvariant'
  BY <1>1, <1>2 DEF PlansInvariant
<1>10. LayoutInvariant'
  <2>1. code_size' \in Nat /\ code_size <= code_size' /\ EndOfFirst(N + 1)' = code_size'
    <3>1. PlanSize(plans[N + 1]) \in Nat
      BY <1>3, <1>5
    <3>2. N + 1 # 0
      BY <1>3
    <3> QED
      BY <1>2, <1>4, <1>8, <3>1, <3>2 DEF EndOfFirst
  <2>2. ASSUME NEW i \in 1 .. (N + 1)
        PROVE  /\ offsets'[i] = EndOfFirst(i - 1)'
               /\ offsets'[i] < kHaltContinuation
               /\ End(i)' <= code_size'
               /\ \A j \in 1 .. (i - 1) : offsets'[j] < offsets'[i]
               /\ PlanVerified(plans'[i], program'.carrier_count, plan_limits')
    <3>1. CASE i \in 1 .. N
      <4>1. i - 1 \in 0 .. N /\ \A j \in 1 .. (i - 1) : j \in 1 .. N
        BY <1>3, <3>1
      <4>2. /\ offsets[i] = EndOfFirst(i - 1) /\ offsets[i] < kHaltContinuation
            /\ End(i) <= code_size /\ End(i) \in Nat
            /\ \A j \in 1 .. (i - 1) : offsets[j] < offsets[i]
            /\ PlanVerified(plans[i], program.carrier_count, plan_limits)
        BY <1>3, <1>4, <3>1
      <4>3. End(i)' <= code_size'
        BY <1>4, <1>8, <2>1, <3>1, <4>2
      <4>4. offsets'[i] = offsets[i] /\ \A j \in 1 .. (i - 1) : offsets'[j] = offsets[j]
        BY <1>7, <3>1, <4>1
      <4>5. EndOfFirst(i - 1)' = EndOfFirst(i - 1)
        BY <1>8, <4>1
      <4> QED
        BY <1>2, <4>2, <4>3, <4>4, <4>5
    <3>2. CASE i = N + 1
      <4>1. i - 1 = N
        BY <1>3, <3>2
      <4>2. EndOfFirst(N)' = code_size
        BY <1>3, <1>4, <1>8
      <4>3. \A j \in 1 .. N : offsets[j] < code_size
        BY <1>3, <1>4
      <4>4. \A j \in 1 .. N : offsets'[j] < offsets'[N + 1]
        BY <1>7, <4>3
      <4> QED
        BY <1>2, <1>6, <1>7, <1>8, <2>1, <3>2, <4>1, <4>2, <4>4
    <3> QED
      BY <1>3, <3>1, <3>2
  <2>3. N + 1 <= Len(plans')
    BY <1>2, <1>3, <1>5
  <2> QED
    BY <1>2, <1>7, <2>1, <2>2, <2>3 DEF LayoutInvariant
<1>11. RelocationInvariant'
  <2>1. relocated = 0
    BY <1>1, <1>2 DEF RelocationInvariant
  <2> QED
    BY <1>1, <1>2, <2>1 DEF RelocationInvariant
<1>12. EncodingInvariant'
  <2>1. Encoded = 0 /\ Encoded' = Encoded
    BY <1>1, <1>2 DEF EncodingInvariant, Encoded
  <2>2. code_end' = 0 /\ IsFiniteSet(DOMAIN code')
    BY <1>1, <1>2, <2>1 DEF EncodingInvariant, EndOfFirst
  <2>4. DOMAIN code = {offsets[i] : i \in 1 .. 0}
    BY <1>1, <2>1 DEF EncodingInvariant
  <2>5. DOMAIN code' = {}
    BY <1>2, <2>4
  <2>3. Encoded' \in 0 .. Len(offsets')
    BY <1>3, <1>7, <2>1
  <2> QED
    BY <1>2, <2>1, <2>2, <2>3, <2>5 DEF EncodingInvariant, EndOfFirst
<1>13. HandoverInvariant'
  <2>1. island_offsets = << >> /\ verdict = "absent" /\ scan_offset = 0
    BY <1>1, <1>2 DEF HandoverInvariant, EndOfFirst
  <2>2. Len(island_offsets) = 0 /\ island_offsets \in Seq(Nat) /\ Len(offsets') >= 0
    BY <1>3, <1>7, <2>1
  <2> QED
    BY <1>2, <2>1, <2>2 DEF HandoverInvariant, EndOfFirst
<1> QED
  BY <1>9, <1>10, <1>11, <1>12, <1>13 DEF AssemblerInvariant

LEMMA RelocateKeeps == AssemblerInvariant /\ Relocate => AssemblerInvariant'
<1> SUFFICES ASSUME AssemblerInvariant, Relocate PROVE AssemblerInvariant'
  OBVIOUS
<1> DEFINE r == relocated + 1
           relocation == program.relocations[r]
           I == relocation.island
           n == relocation.node + 1
           patched == Patched(plans[I], n, RelocatedWord(relocation))
<1>1. /\ PlansInvariant /\ LayoutInvariant /\ RelocationInvariant
      /\ EncodingInvariant /\ HandoverInvariant
  BY DEF AssemblerInvariant
<1>2. /\ stage = "relocate" /\ relocated < Len(program.relocations)
      /\ relocated' = r
      /\ UNCHANGED <<program, stage, offsets, code_size, code, code_end>>
      /\ UNCHANGED <<module_, plan_limits, verdict, scan_offset, island_offsets>>
  BY DEF Relocate, verifierVars
<1>3. plans' = [plans EXCEPT ![I] = patched]
  BY DEF Relocate, Relocation, Patched
<1>4. /\ program \in Programs /\ plans \in Seq(PrimitivePlan) /\ Len(plans) = Len(program.plans)
      /\ \A i \in 1 .. Len(plans) :
             /\ NodeCount(plans[i]) = NodeCount(program.plans[i])
             /\ \A m \in 1 .. NodeCount(plans[i]) :
                    plans[i].nodes[m].kind = program.plans[i].nodes[m].kind
             /\ ContinuationCarriers \subseteq Written(plans[i])
             /\ Written(plans[i]) \cap ReadOnlyAbi = {}
  BY <1>1 DEF PlansInvariant
<1>5. /\ Len(plans) \in Nat /\ Len(offsets) \in Nat
      /\ \A i \in 1 .. Len(plans) : plans[i] \in PrimitivePlan
      /\ \A i \in 1 .. Len(offsets) : i \in 1 .. Len(plans) /\ offsets[i] \in Nat
  BY <1>1, LayoutTyped
<1>6. Len(program.relocations) \in Nat /\ relocated \in Nat /\ r \in 1 .. Len(program.relocations)
  <2>1. Len(program.relocations) \in Nat
    BY <1>4, ProgramTyped
  <2> QED
    BY <1>1, <1>2, <2>1 DEF RelocationInvariant
<1>7. /\ I \in 1 .. Len(plans) /\ n \in 1 .. NodeCount(plans[I])
      /\ plans[I].nodes[n].kind = "Literal"
      /\ relocation.target \in 0 .. Len(plans)
  <2>1. /\ I \in 1 .. Len(program.plans) /\ n \in 1 .. NodeCount(program.plans[I])
        /\ program.plans[I].nodes[n].kind = "Literal"
        /\ relocation.target \in 0 .. Len(program.plans)
    BY <1>4, <1>6, ProgramTyped
  <2> HIDE DEF relocation, I, n
  <2>2. I \in 1 .. Len(plans) /\ NodeCount(plans[I]) = NodeCount(program.plans[I])
    BY <1>4, <2>1
  <2> QED
    BY <1>4, <2>1, <2>2
<1>8. RelocatedWord(relocation) \in Word
  <2>1. TargetOffset(relocation) \in Offset
    <3>1. kHaltContinuation \in Nat
      BY OffsetsAreWords
    <3>2. CASE relocation.target = 0
      BY <3>1, <3>2 DEF TargetOffset, Offset
    <3>3. CASE relocation.target # 0
      <4> HIDE DEF relocation
      <4>1. relocation.target \in 1 .. Len(offsets)
        <5>1. Len(offsets) = Len(plans)
          BY <1>1, <1>2 DEF LayoutInvariant
        <5> QED
          BY <1>7, <3>3, <1>5, <5>1
      <4>2. /\ offsets[relocation.target] \in Nat
            /\ offsets[relocation.target] < kHaltContinuation
        BY <1>1, <1>5, <4>1 DEF LayoutInvariant
      <4> QED
        BY <3>1, <3>3, <4>2 DEF TargetOffset, Offset
    <3> QED
      BY <3>2, <3>3
  <2> QED
    BY <2>1, SealTyped DEF RelocatedWord
<1> HIDE DEF I, n
<1>9. /\ patched \in PrimitivePlan
      /\ NodeCount(patched) = NodeCount(plans[I])
      /\ PlanSize(patched) = PlanSize(plans[I])
      /\ Written(patched) = Written(plans[I])
      /\ patched.nodes[n].immediate = RelocatedWord(relocation)
      /\ \A m \in 1 .. NodeCount(plans[I]) :
             /\ patched.nodes[m].kind = plans[I].nodes[m].kind
             /\ m # n => patched.nodes[m] = plans[I].nodes[m]
      /\ \A count, limits :
             PlanVerified(plans[I], count, limits) => PlanVerified(patched, count, limits)
  <2> HIDE DEF relocation
  <2>1. plans[I] \in PrimitivePlan
    BY <1>5, <1>7
  <2>2. plans[I].nodes[n].kind = "Literal" /\ n \in 1 .. NodeCount(plans[I])
    BY <1>7
  <2> HIDE DEF patched
  <2> QED
    BY <1>8, <2>1, <2>2, PatchKeeps DEF patched
<1> HIDE DEF patched
<1>10. /\ Len(plans') = Len(plans) /\ plans'[I] = patched
       /\ \A i \in 1 .. Len(plans) : i # I => plans'[i] = plans[i]
       /\ plans' \in Seq(PrimitivePlan)
  <2> HIDE DEF relocation
  <2> QED
    BY <1>3, <1>4, <1>7, <1>9
<1>11. ASSUME NEW i \in 1 .. Len(plans)
       PROVE  /\ NodeCount(plans'[i]) = NodeCount(plans[i])
              /\ PlanSize(plans'[i]) = PlanSize(plans[i])
              /\ Written(plans'[i]) = Written(plans[i])
              /\ \A m \in 1 .. NodeCount(plans[i]) :
                     plans'[i].nodes[m].kind = plans[i].nodes[m].kind
              /\ \A count, limits :
                     PlanVerified(plans[i], count, limits) => PlanVerified(plans'[i], count, limits)
  BY <1>9, <1>10
<1>12. PlansInvariant'
  <2>1. \A i \in 1 .. Len(plans') :
            /\ NodeCount(plans'[i]) = NodeCount(program'.plans[i])
            /\ \A m \in 1 .. NodeCount(plans'[i]) :
                   plans'[i].nodes[m].kind = program'.plans[i].nodes[m].kind
            /\ ContinuationCarriers \subseteq Written(plans'[i])
            /\ Written(plans'[i]) \cap ReadOnlyAbi = {}
    BY <1>2, <1>4, <1>10, <1>11
  <2> QED
    BY <1>1, <1>2, <1>10, <2>1 DEF PlansInvariant
<1>13. /\ \A i \in 1 .. Len(plans) : End(i)' = End(i)
       /\ \A i \in 0 .. Len(plans) : EndOfFirst(i)' = EndOfFirst(i)
  <2>1. \A i \in 1 .. Len(plans) : End(i)' = End(i)
    BY <1>2, <1>11 DEF End
  <2>2. ASSUME NEW i \in 0 .. Len(plans) PROVE EndOfFirst(i)' = EndOfFirst(i)
    <3>1. i = 0 \/ i \in 1 .. Len(plans)
      BY <1>5
    <3> QED
      BY <3>1, <2>1 DEF EndOfFirst
  <2> QED
    BY <2>1, <2>2
<1>14. LayoutInvariant'
  <2>1. /\ offsets \in Seq(Nat) /\ Len(offsets) <= Len(plans)
        /\ code_size \in Nat /\ code_size = EndOfFirst(Len(offsets))
        /\ Len(offsets) = Len(plans) /\ code_size < kHaltContinuation
        /\ \A i \in 1 .. Len(offsets) :
               /\ offsets[i] = EndOfFirst(i - 1) /\ offsets[i] < kHaltContinuation
               /\ End(i) <= code_size
               /\ \A j \in 1 .. (i - 1) : offsets[j] < offsets[i]
               /\ PlanVerified(plans[i], program.carrier_count, plan_limits)
    BY <1>1, <1>2 DEF LayoutInvariant
  <2>2. \A i \in 1 .. Len(offsets) :
            /\ offsets'[i] = EndOfFirst(i - 1)' /\ offsets'[i] < kHaltContinuation
            /\ End(i)' <= code_size'
            /\ \A j \in 1 .. (i - 1) : offsets'[j] < offsets'[i]
            /\ PlanVerified(plans'[i], program'.carrier_count, plan_limits')
    <3> TAKE i \in 1 .. Len(offsets)
    <3>1. i \in 1 .. Len(plans) /\ i - 1 \in 0 .. Len(plans)
      BY <1>5
    <3>2. EndOfFirst(i - 1)' = EndOfFirst(i - 1) /\ End(i)' = End(i)
      BY <1>13, <3>1
    <3>3. PlanVerified(plans'[i], program.carrier_count, plan_limits)
      BY <1>11, <2>1, <3>1
    <3> QED
      BY <1>2, <2>1, <3>2, <3>3
  <2>3. EndOfFirst(Len(offsets))' = EndOfFirst(Len(offsets))
    <3>1. Len(offsets)' = Len(offsets) /\ Len(offsets) \in 0 .. Len(plans)
      BY <1>2, <1>5, <2>1
    <3> QED
      BY <1>13, <3>1
  <2> QED
    BY <1>2, <1>10, <2>1, <2>2, <2>3 DEF LayoutInvariant
<1>15. RelocationInvariant'
  <2>1. ASSUME NEW s \in 1 .. relocated'
        PROVE  plans'[program.relocations[s].island].nodes[program.relocations[s].node + 1].immediate
                   = RelocatedWord(program.relocations[s])
    <3> DEFINE other == program.relocations[s]
    <3>1. s \in 1 .. Len(program.relocations)
      BY <1>2, <1>6, <2>1
    <3>2. CASE s = r
      BY <1>9, <1>10, <3>2 DEF I, n
    <3>3. CASE s # r
      <4>1. s \in 1 .. relocated
        BY <1>2, <1>6, <2>1, <3>3
      <4>2. plans[other.island].nodes[other.node + 1].immediate = RelocatedWord(other)
        BY <1>1, <4>1 DEF RelocationInvariant
      <4>3. ~ (other.island = relocation.island /\ other.node = relocation.node)
        BY <1>4, <1>6, <3>1, <3>3, ProgramTyped
      <4>4. other \in ContinuationRelocation /\ relocation \in ContinuationRelocation
            /\ other.island \in 1 .. Len(program.plans)
            /\ other.node + 1 \in 1 .. NodeCount(program.plans[other.island])
        BY <1>4, <1>6, <3>1, ProgramTyped
      <4> HIDE DEF other, relocation
      <4>5. other.node \in Nat /\ relocation.node \in Nat
        BY <4>4 DEF ContinuationRelocation
      <4>6. other.island \in 1 .. Len(plans)
            /\ other.node + 1 \in 1 .. NodeCount(plans[other.island])
        BY <1>4, <4>4
      <4>7. plans'[other.island].nodes[other.node + 1] = plans[other.island].nodes[other.node + 1]
        <5>1. CASE other.island # I
          BY <1>10, <4>6, <5>1
        <5>2. CASE other.island = I
          <6>1. other.node + 1 # n
            BY <4>3, <4>5, <5>2 DEF I, n
          <6> QED
            BY <1>9, <1>10, <4>6, <5>2, <6>1
        <5> QED
          BY <5>1, <5>2
      <4> QED
        BY <4>2, <4>7 DEF other
    <3> QED
      BY <3>2, <3>3
  <2>2. \A s : RelocatedWord(program.relocations[s])' = RelocatedWord(program.relocations[s])
    BY <1>2 DEF RelocatedWord, TargetOffset
  <2>3. relocated' \in 0 .. Len(program'.relocations)
    BY <1>2, <1>6
  <2> QED
    BY <1>2, <2>1, <2>2, <2>3 DEF RelocationInvariant
<1>16. EncodingInvariant'
  <2>1. Encoded = 0 /\ Encoded' = Encoded
    BY <1>1, <1>2 DEF EncodingInvariant, Encoded
  <2> QED
    BY <1>1, <1>2, <2>1 DEF EncodingInvariant, EndOfFirst
<1>17. HandoverInvariant'
  <2>1. island_offsets = << >>
    BY <1>1, <1>2 DEF HandoverInvariant
  <2>2. Len(island_offsets) = 0
    BY <2>1
  <2> QED
    BY <1>1, <1>2, <2>1, <2>2 DEF HandoverInvariant, EndOfFirst
<1> QED
  BY <1>12, <1>14, <1>15, <1>16, <1>17 DEF AssemblerInvariant

\* The layout has put the next island where the encoding has come to, and no
\* island there yet.
LEMMA EncodesWhereLaidOut ==
    ASSUME AssemblerInvariant, stage = "encode", Encoded < Len(plans)
    PROVE  /\ Encoded \in Nat /\ Encoded + 1 \in 1 .. Len(offsets)
           /\ offsets[Encoded + 1] = code_end
           /\ code_end \notin DOMAIN code
           /\ EndOfFirst(Encoded + 1) = code_end + PlanSize(plans[Encoded + 1])
<1>1. /\ PlansInvariant /\ LayoutInvariant /\ EncodingInvariant
  BY DEF AssemblerInvariant
<1>2. PICK N : N = Encoded
  OBVIOUS
<1>3. /\ N \in 0 .. Len(offsets) /\ code_end = EndOfFirst(N)
      /\ DOMAIN code = {offsets[i] : i \in 1 .. N}
  BY <1>1, <1>2 DEF EncodingInvariant
<1>4. Len(offsets) \in Nat /\ \A i \in 1 .. Len(offsets) : offsets[i] \in Nat
  BY <1>1, LayoutTyped
<1>5. N \in Nat /\ N + 1 \in 1 .. Len(offsets)
  <2>1. Len(offsets) = Len(plans)
    BY <1>1 DEF LayoutInvariant
  <2> QED
    BY <1>2, <1>3, <1>4, <2>1
<1>6. /\ offsets[N + 1] = EndOfFirst(N + 1 - 1)
      /\ \A j \in 1 .. (N + 1 - 1) : offsets[j] < offsets[N + 1]
  BY <1>1, <1>5 DEF LayoutInvariant
<1>7. N + 1 - 1 = N
  BY <1>5
<1>8. offsets[N + 1] = code_end /\ \A j \in 1 .. N : offsets[j] < code_end
  BY <1>3, <1>6, <1>7
<1>9. code_end \notin DOMAIN code
  <2>1. \A j \in 1 .. N : offsets[j] \in Nat /\ offsets[j] # code_end
    BY <1>4, <1>5, <1>8
  <2> QED
    BY <1>3, <2>1
<1>10. EndOfFirst(N + 1) = code_end + PlanSize(plans[N + 1])
  <2>1. N + 1 # 0
    BY <1>5
  <2> QED
    BY <1>8, <2>1 DEF EndOfFirst, End
<1> QED
  BY <1>2, <1>5, <1>8, <1>9, <1>10

LEMMA EncodeIslandKeeps == AssemblerInvariant /\ EncodeIsland => AssemblerInvariant'
<1> SUFFICES ASSUME AssemblerInvariant, EncodeIsland PROVE AssemblerInvariant'
  OBVIOUS
<1>1. /\ PlansInvariant /\ LayoutInvariant /\ RelocationInvariant
      /\ EncodingInvariant /\ HandoverInvariant
  BY DEF AssemblerInvariant
<1>2. /\ stage = "encode" /\ Encoded < Len(plans)
      /\ code' = [offset \in DOMAIN code \cup {code_end} |->
                      IF offset \in DOMAIN code THEN code[offset]
                      ELSE IF offsets[Encoded + 1] = offset THEN EncodedIsland(plans[Encoded + 1])
                      ELSE Interior]
      /\ code_end' = code_end + EncodedSize(plans[Encoded + 1])
      /\ UNCHANGED <<program, stage, plans, offsets, code_size, relocated>>
      /\ UNCHANGED <<module_, plan_limits, verdict, scan_offset, island_offsets>>
  BY DEF EncodeIsland, verifierVars
<1>3. PICK N : N = Encoded
  OBVIOUS
<1>4. /\ N \in Nat /\ N + 1 \in 1 .. Len(offsets) /\ offsets[N + 1] = code_end
      /\ code_end \notin DOMAIN code
      /\ EndOfFirst(N + 1) = code_end + PlanSize(plans[N + 1])
  BY <1>2, <1>3, EncodesWhereLaidOut
<1>5. /\ IsFiniteSet(DOMAIN code) /\ DOMAIN code = {offsets[i] : i \in 1 .. N}
      /\ \A i \in 1 .. N : code[offsets[i]] = EncodedIsland(plans[i])
  BY <1>1, <1>3 DEF EncodingInvariant
<1>6. DOMAIN code' = DOMAIN code \cup {code_end}
  BY <1>2
<1>7. Encoded' = N + 1 /\ IsFiniteSet(DOMAIN code')
  <2>1. PICK before : before = DOMAIN code
    OBVIOUS
  <2>2. /\ IsFiniteSet(before) /\ code_end \notin before
        /\ Cardinality(before) = N /\ DOMAIN code' = before \cup {code_end}
    BY <1>3, <1>4, <1>5, <1>6, <2>1 DEF Encoded
  <2>3. /\ Cardinality(before \cup {code_end}) = Cardinality(before) + 1
        /\ IsFiniteSet(before \cup {code_end})
    BY <2>2, FS_AddElement
  <2> QED
    BY <2>2, <2>3 DEF Encoded
<1>8. DOMAIN code' = {offsets[i] : i \in 1 .. (N + 1)}
  <2>1. 1 .. (N + 1) = (1 .. N) \cup {N + 1}
    BY <1>4
  <2> QED
    BY <1>4, <1>5, <1>6, <2>1
<1>9. ASSUME NEW i \in 1 .. (N + 1) PROVE code'[offsets[i]] = EncodedIsland(plans[i])
  <2>1. CASE i \in 1 .. N
    <3>1. offsets[i] \in DOMAIN code
      BY <1>5, <2>1
    <3>2. code'[offsets[i]] = code[offsets[i]]
      BY <1>2, <3>1
    <3> QED
      BY <1>5, <2>1, <3>2
  <2>2. CASE i = N + 1
    <3>1. code'[code_end] = EncodedIsland(plans[N + 1])
      BY <1>2, <1>3, <1>4
    <3> QED
      BY <1>4, <2>2, <3>1
  <2> QED
    BY <1>4, <2>1, <2>2
<1>10. code_end' = EndOfFirst(N + 1)
  <2>1. plans[N + 1] \in PrimitivePlan
    BY <1>1, <1>4, LayoutTyped
  <2> QED
    BY <1>2, <1>3, <1>4, <2>1, EncodedAsPredicted
<1>11. \A i : EndOfFirst(i)' = EndOfFirst(i)
  BY <1>2 DEF EndOfFirst, End
<1>12. PlansInvariant'
  BY <1>1, <1>2 DEF PlansInvariant
<1>13. LayoutInvariant'
  BY <1>1, <1>2 DEF LayoutInvariant, End, EndOfFirst
<1>14. RelocationInvariant'
  BY <1>1, <1>2 DEF RelocationInvariant, RelocatedWord, TargetOffset
<1>15. EncodingInvariant'
  <2>1. Encoded' \in 0 .. Len(offsets')
    BY <1>2, <1>4, <1>7
  <2>2. DOMAIN code' = {offsets'[i] : i \in 1 .. Encoded'}
    BY <1>2, <1>7, <1>8
  <2>3. \A i \in 1 .. Encoded' : code'[offsets'[i]] = EncodedIsland(plans'[i])
    BY <1>2, <1>7, <1>9
  <2>4. EndOfFirst(Encoded)' = EndOfFirst(N + 1)
    BY <1>2, <1>7 DEF EndOfFirst, End
  <2> QED
    BY <1>2, <1>7, <1>10, <2>1, <2>2, <2>3, <2>4 DEF EncodingInvariant
<1>16. HandoverInvariant'
  BY <1>1, <1>2 DEF HandoverInvariant, EndOfFirst, End
<1> QED
  BY <1>12, <1>13, <1>14, <1>15, <1>16 DEF AssemblerInvariant

LEMMA FinishModuleKeeps == AssemblerInvariant /\ FinishModule => AssemblerInvariant'
<1> SUFFICES ASSUME AssemblerInvariant, FinishModule PROVE AssemblerInvariant'
  OBVIOUS
<1>1. /\ PlansInvariant /\ LayoutInvariant /\ RelocationInvariant
      /\ EncodingInvariant /\ HandoverInvariant
  BY DEF AssemblerInvariant
<1>2. /\ stage = "encode" /\ Encoded = Len(plans)
      /\ UNCHANGED <<program, plans, offsets, code_size, relocated, code, code_end>>
      /\ UNCHANGED <<plan_limits, scan_offset, island_offsets>>
      /\ \/ /\ ModuleShapeValid(AssembledModule)
            /\ stage' = "assembled" /\ module_' = AssembledModule /\ verdict' = "created"
         \/ stage' = "refused" /\ UNCHANGED <<module_, verdict>>
  BY DEF FinishModule
<1>3. /\ Encoded' = Encoded /\ AssembledModule' = AssembledModule
      /\ \A i : EndOfFirst(i)' = EndOfFirst(i)
  BY <1>2 DEF Encoded, AssembledModule, EndOfFirst, End
<1>4. PlansInvariant'
  BY <1>1, <1>2 DEF PlansInvariant
<1>5. LayoutInvariant'
  BY <1>1, <1>2 DEF LayoutInvariant, End, EndOfFirst
<1>6. RelocationInvariant'
  BY <1>1, <1>2 DEF RelocationInvariant, RelocatedWord, TargetOffset
<1>7. EncodingInvariant'
  BY <1>1, <1>2 DEF EncodingInvariant, Encoded, End, EndOfFirst
<1>8. HandoverInvariant'
  <2>1. /\ island_offsets = << >> /\ verdict = "absent"
        /\ island_offsets \in Seq(Nat) /\ Len(island_offsets) <= Len(offsets)
        /\ \A i \in 1 .. Len(island_offsets) : island_offsets[i] = offsets[i]
        /\ scan_offset = EndOfFirst(Len(island_offsets))
    BY <1>1, <1>2 DEF HandoverInvariant
  <2>2. scan_offset' = EndOfFirst(Len(island_offsets))'
    BY <1>2, <2>1 DEF EndOfFirst, End
  <2>3. ModuleShapeValid(module_)' \/ stage' # "assembled"
    BY <1>2
  <2> QED
    BY <1>2, <1>3, <2>1, <2>2, <2>3 DEF HandoverInvariant
<1> QED
  BY <1>4, <1>5, <1>6, <1>7, <1>8 DEF AssemblerInvariant

\* What create is handed, and how far its scan can have come.
LEMMA HandedOver ==
    ASSUME AssemblerInvariant, verdict # "absent"
    PROVE  /\ stage = "assembled" /\ module_ = AssembledModule /\ ModuleShapeValid(module_)
           /\ verdict \in {"created", "scanning", "verified"}
           /\ program \in Programs /\ plan_limits \in PlanLimits
           /\ Len(offsets) = Len(plans) /\ Len(program.plans) = Len(plans)
           /\ Len(offsets) \in Nat /\ Len(island_offsets) \in 0 .. Len(offsets)
           /\ island_offsets \in Seq(Nat)
           /\ \A i \in 1 .. Len(island_offsets) : island_offsets[i] = offsets[i]
           /\ scan_offset = EndOfFirst(Len(island_offsets))
           /\ module_.code_size = EndOfFirst(Len(offsets))
           /\ \A i \in 1 .. Len(offsets) :
                  /\ IslandAt(module_, offsets[i]) = EncodedIsland(plans[i])
                  /\ End(i) <= module_.code_size /\ offsets[i] = EndOfFirst(i - 1)
                  /\ offsets[i] \in Offset \ {kHaltContinuation}
<1>1. /\ PlansInvariant /\ LayoutInvariant /\ RelocationInvariant
      /\ EncodingInvariant /\ HandoverInvariant
  BY DEF AssemblerInvariant
<1>2. stage = "assembled"
  BY <1>1 DEF HandoverInvariant
<1>3. /\ module_ = AssembledModule /\ ModuleShapeValid(module_) /\ Encoded = Len(plans)
      /\ verdict \in {"created", "scanning", "verified"}
      /\ island_offsets \in Seq(Nat) /\ Len(island_offsets) <= Len(offsets)
      /\ \A i \in 1 .. Len(island_offsets) : island_offsets[i] = offsets[i]
      /\ scan_offset = EndOfFirst(Len(island_offsets))
  BY <1>1, <1>2 DEF HandoverInvariant
<1>4. /\ Len(plans) \in Nat /\ Len(offsets) \in Nat
      /\ \A i \in 1 .. Len(offsets) : offsets[i] \in Nat
  BY <1>1, LayoutTyped
<1>5. Len(offsets) = Len(plans) /\ Len(island_offsets) \in 0 .. Len(offsets)
  <2>1. Len(offsets) = Len(plans)
    BY <1>1, <1>2 DEF LayoutInvariant
  <2>2. Len(island_offsets) \in Nat
    BY <1>3
  <2> QED
    BY <1>3, <1>4, <2>1, <2>2
<1>6. /\ program \in Programs /\ plan_limits \in PlanLimits /\ Len(program.plans) = Len(plans)
  BY <1>1 DEF PlansInvariant
<1>7. module_.code = code /\ module_.code_size = code_end
  BY <1>3 DEF AssembledModule
<1>8. module_.code_size = EndOfFirst(Len(offsets)) /\ module_.code_size = code_size
  <2>1. code_end = EndOfFirst(Encoded) /\ code_size = EndOfFirst(Len(offsets))
    BY <1>1 DEF EncodingInvariant, LayoutInvariant
  <2> QED
    BY <1>3, <1>5, <1>7, <2>1
<1>9. ASSUME NEW i \in 1 .. Len(offsets)
      PROVE  /\ IslandAt(module_, offsets[i]) = EncodedIsland(plans[i])
             /\ End(i) <= module_.code_size /\ offsets[i] = EndOfFirst(i - 1)
             /\ offsets[i] \in Offset \ {kHaltContinuation}
  <2>1. i \in 1 .. Encoded
    BY <1>3, <1>5
  <2>2. offsets[i] \in DOMAIN code /\ code[offsets[i]] = EncodedIsland(plans[i])
    BY <1>1, <2>1 DEF EncodingInvariant
  <2>3. /\ End(i) <= code_size /\ offsets[i] = EndOfFirst(i - 1)
        /\ offsets[i] < kHaltContinuation
    BY <1>1 DEF LayoutInvariant
  <2>4. offsets[i] \in Offset \ {kHaltContinuation}
    BY <1>4, <2>3, OffsetsAreWords DEF Offset
  <2> QED
    BY <1>7, <1>8, <2>2, <2>3, <2>4 DEF IslandAt
<1> QED
  BY <1>2, <1>3, <1>4, <1>5, <1>6, <1>8, <1>9

\* The steps of create change nothing of the assembler's.
LEMMA CreateKeepsOthers ==
    ASSUME AssemblerInvariant, UNCHANGED <<assemblerVars, module_, plan_limits>>
    PROVE  /\ (PlansInvariant /\ LayoutInvariant /\ RelocationInvariant /\ EncodingInvariant)'
           /\ (Encoded = Encoded') /\ AssembledModule' = AssembledModule
           /\ \A i : EndOfFirst(i)' = EndOfFirst(i)
<1> USE DEF assemblerVars, AssemblerInvariant
<1>1. PlansInvariant'
  BY DEF PlansInvariant
<1>2. LayoutInvariant'
  BY DEF LayoutInvariant, End, EndOfFirst
<1>3. RelocationInvariant'
  BY DEF RelocationInvariant, RelocatedWord, TargetOffset
<1>4. EncodingInvariant'
  BY DEF EncodingInvariant, Encoded, End, EndOfFirst
<1> QED
  BY <1>1, <1>2, <1>3, <1>4 DEF Encoded, AssembledModule, EndOfFirst, End

LEMMA CheckModuleKeeps ==
    AssemblerInvariant /\ CheckModule /\ UNCHANGED assemblerVars => AssemblerInvariant'
<1> SUFFICES ASSUME AssemblerInvariant, CheckModule, UNCHANGED assemblerVars
             PROVE  AssemblerInvariant'
  OBVIOUS
<1>1. verdict = "created" /\ UNCHANGED <<module_, plan_limits, scan_offset, island_offsets>>
  BY DEF CheckModule
<1>2. /\ stage = "assembled" /\ module_ = AssembledModule /\ ModuleShapeValid(module_)
      /\ program \in Programs
  BY <1>1, HandedOver
<1>3. ModuleAccepted(module_)
  BY <1>2, ProgramTyped DEF ModuleAccepted, AssembledModule
<1>4. verdict' = "scanning"
  BY <1>3 DEF CheckModule
<1>5. (PlansInvariant /\ LayoutInvariant /\ RelocationInvariant /\ EncodingInvariant)'
  BY <1>1, CreateKeepsOthers
<1>6. HandoverInvariant'
  <2>1. HandoverInvariant
    BY DEF AssemblerInvariant
  <2> QED
    BY <1>1, <1>2, <1>4, <2>1
       DEF HandoverInvariant, assemblerVars, Encoded, AssembledModule, EndOfFirst, End
<1> QED
  BY <1>5, <1>6 DEF AssemblerInvariant

LEMMA ScanIslandKeeps ==
    AssemblerInvariant /\ ScanIsland /\ UNCHANGED assemblerVars => AssemblerInvariant'
<1> SUFFICES ASSUME AssemblerInvariant, ScanIsland, UNCHANGED assemblerVars
             PROVE  AssemblerInvariant'
  OBVIOUS
<1>1. /\ verdict = "scanning" /\ scan_offset < module_.code_size
      /\ UNCHANGED <<module_, plan_limits>>
      /\ island_offsets' = Append(island_offsets, scan_offset)
  BY DEF ScanIsland
<1>2. /\ stage = "assembled" /\ module_ = AssembledModule /\ ModuleShapeValid(module_)
      /\ program \in Programs /\ plan_limits \in PlanLimits
      /\ Len(offsets) = Len(plans) /\ Len(offsets) \in Nat
      /\ island_offsets \in Seq(Nat)
      /\ \A i \in 1 .. Len(island_offsets) : island_offsets[i] = offsets[i]
      /\ module_.code_size = EndOfFirst(Len(offsets))
  BY <1>1, HandedOver
<1>3. PICK k : k = Len(island_offsets)
  OBVIOUS
<1>4. k \in 0 .. Len(offsets) /\ scan_offset = EndOfFirst(k)
  BY <1>1, <1>3, HandedOver
<1>5. /\ PlansInvariant /\ LayoutInvariant /\ HandoverInvariant
  BY DEF AssemblerInvariant
<1>6. k + 1 \in 1 .. Len(offsets)
  <2>1. k # Len(offsets)
    <3>1. k = Len(offsets) => scan_offset = module_.code_size
      BY <1>2, <1>4
    <3>2. module_.code_size \in Nat
      BY <1>2, <1>5 DEF LayoutInvariant
    <3> QED
      BY <1>1, <3>1, <3>2
  <2> QED
    BY <1>2, <1>4, <2>1
<1>7. /\ scan_offset = offsets[k + 1] /\ End(k + 1) <= module_.code_size
      /\ IslandAt(module_, scan_offset) = EncodedIsland(plans[k + 1])
  <2>1. (k + 1) - 1 = k
    BY <1>4
  <2>2. \A i \in 1 .. Len(offsets) :
            /\ IslandAt(module_, offsets[i]) = EncodedIsland(plans[i])
            /\ End(i) <= module_.code_size /\ offsets[i] = EndOfFirst(i - 1)
    BY <1>1, HandedOver
  <2>3. /\ IslandAt(module_, offsets[k + 1]) = EncodedIsland(plans[k + 1])
        /\ End(k + 1) <= module_.code_size /\ offsets[k + 1] = EndOfFirst((k + 1) - 1)
    BY <1>6, <2>2, Zenon
  <2> QED
    BY <1>4, <2>1, <2>3
<1>8. /\ plans[k + 1] \in PrimitivePlan /\ offsets[k + 1] \in Nat
      /\ End(k + 1) = offsets[k + 1] + PlanSize(plans[k + 1])
      /\ EndOfFirst(k + 1) = End(k + 1)
  <2>1. k + 1 # 0
    BY <1>4
  <2> QED
    BY <1>5, <1>6, <2>1, LayoutTyped DEF End, EndOfFirst
<1>9. IslandAccepted(module_, scan_offset, plan_limits)
  <2>1. module_.code_size \in Nat /\ scan_offset \in Nat
    BY <1>2, <1>5, <1>7, <1>8 DEF LayoutInvariant
  <2>2. module_.carrier_count = program.carrier_count
    BY <1>2 DEF AssembledModule
  <2>3. PlanVerified(plans[k + 1], module_.carrier_count, plan_limits)
    BY <1>5, <1>6, <2>2 DEF LayoutInvariant
  <2>4. k + 1 \in 1 .. Len(plans)
    BY <1>2, <1>6
  <2>5. /\ ContinuationCarriers \subseteq Written(plans[k + 1])
        /\ Written(plans[k + 1]) \cap ReadOnlyAbi = {}
    BY <1>5, <2>4 DEF PlansInvariant
  <2>6. scan_offset + PlanSize(plans[k + 1]) <= module_.code_size
    BY <1>7, <1>8
  <2> QED
    BY <1>2, <1>7, <1>8, <2>1, <2>3, <2>5, <2>6, EncodedIsAccepted
<1>10. verdict' = "scanning" /\ scan_offset' = EndOfFirst(k + 1)
  <2>1. EncodedIsland(plans[k + 1]).size = PlanSize(plans[k + 1])
    BY <1>8, DecodedAsEncoded
  <2>2. verdict' = verdict /\ scan_offset' = scan_offset + IslandAt(module_, scan_offset).size
    BY <1>9 DEF ScanIsland
  <2> QED
    BY <1>1, <1>7, <1>8, <2>1, <2>2
<1>11. /\ (PlansInvariant /\ LayoutInvariant /\ RelocationInvariant /\ EncodingInvariant)'
       /\ Encoded' = Encoded /\ AssembledModule' = AssembledModule
       /\ \A i : EndOfFirst(i)' = EndOfFirst(i)
  BY <1>1, CreateKeepsOthers
<1>12. HandoverInvariant'
  <2>1. UNCHANGED <<stage, offsets, plans>>
    BY DEF assemblerVars
  <2>2. /\ island_offsets' \in Seq(Nat) /\ Len(island_offsets') = k + 1
        /\ \A i \in 1 .. (k + 1) : island_offsets'[i] = offsets[i]
    <3>1. scan_offset \in Nat
      BY <1>7, <1>8
    <3>2. /\ island_offsets' \in Seq(Nat) /\ Len(island_offsets') = k + 1
          /\ island_offsets'[k + 1] = scan_offset
          /\ \A i \in 1 .. k : island_offsets'[i] = island_offsets[i]
      BY <1>1, <1>2, <1>3, <3>1
    <3>3. \A i \in 1 .. (k + 1) : i \in 1 .. k \/ i = k + 1
      BY <1>4
    <3> QED
      BY <1>2, <1>3, <1>7, <3>2, <3>3
  <2>3. scan_offset' = EndOfFirst(Len(island_offsets))'
    BY <1>10, <2>1, <2>2 DEF EndOfFirst, End
  <2>4. Len(island_offsets') <= Len(offsets')
    BY <1>2, <1>6, <2>1, <2>2
  <2>5. Encoded = Len(plans)
    BY <1>2, <1>5 DEF HandoverInvariant
  <2>6. ModuleShapeValid(module_') /\ module_' = AssembledModule'
    BY <1>1, <1>2, <1>11
  <2>7. ModuleShapeValid(module_)'
    BY <1>1, <1>2
  <2> QED
    BY <1>2, <1>10, <1>11, <2>1, <2>2, <2>3, <2>4, <2>5, <2>6, <2>7 DEF HandoverInvariant
<1> QED
  BY <1>11, <1>12 DEF AssemblerInvariant

LEMMA CheckEntryKeeps ==
    AssemblerInvariant /\ CheckEntry /\ UNCHANGED assemblerVars => AssemblerInvariant'
<1> SUFFICES ASSUME AssemblerInvariant, CheckEntry, UNCHANGED assemblerVars
             PROVE  AssemblerInvariant'
  OBVIOUS
<1>1. /\ verdict = "scanning" /\ scan_offset >= module_.code_size
      /\ UNCHANGED <<module_, plan_limits, scan_offset, island_offsets>>
  BY DEF CheckEntry
<1>2. /\ stage = "assembled" /\ module_ = AssembledModule
      /\ program \in Programs /\ Len(program.plans) = Len(plans)
      /\ Len(offsets) = Len(plans) /\ Len(offsets) \in Nat
      /\ \A i \in 1 .. Len(island_offsets) : island_offsets[i] = offsets[i]
      /\ module_.code_size = EndOfFirst(Len(offsets))
  BY <1>1, HandedOver
<1>3. PICK k : k = Len(island_offsets)
  OBVIOUS
<1>4. k \in 0 .. Len(offsets) /\ scan_offset = EndOfFirst(k)
  BY <1>1, <1>3, HandedOver
<1>5. PlansInvariant /\ LayoutInvariant /\ HandoverInvariant
  BY DEF AssemblerInvariant
<1>6. k = Len(offsets)
  <2> SUFFICES ASSUME k # Len(offsets) PROVE FALSE
    OBVIOUS
  <2>1. k + 1 \in 1 .. Len(offsets) /\ (k + 1) - 1 = k
    BY <1>2, <1>4
  <2>2. End(k + 1) <= module_.code_size /\ offsets[k + 1] = EndOfFirst((k + 1) - 1)
    <3>1. \A i \in 1 .. Len(offsets) :
              End(i) <= module_.code_size /\ offsets[i] = EndOfFirst(i - 1)
      BY <1>1, HandedOver
    <3> QED
      BY <2>1, <3>1, Zenon
  <2>3. offsets[k + 1] < End(k + 1) /\ offsets[k + 1] \in Nat /\ End(k + 1) \in Nat
    BY <1>5, <2>1, LayoutTyped
  <2>4. module_.code_size \in Nat
    BY <1>2, <1>5 DEF LayoutInvariant
  <2> QED
    BY <1>1, <1>4, <2>1, <2>2, <2>3, <2>4
<1>7. OpenCarriers(module_.initial_carriers) = offsets[program.entry]
  <2>1. /\ module_.initial_carriers
               = CarriersFor(program.carrier_count, Seal(offsets[program.entry]))
    BY <1>2 DEF AssembledModule
  <2>2. /\ program.carrier_count \in Nat /\ program.carrier_count >= kFirstAllocatedCarrier
        /\ program.entry \in 1 .. Len(offsets)
    BY <1>2, ProgramTyped
  <2>3. offsets[program.entry] \in Offset
    BY <1>1, <2>2, HandedOver
  <2> QED
    BY <2>1, <2>2, <2>3, EntryOpens
<1>8. offsets[program.entry] \in Boundaries
  <2>1. program.entry \in 1 .. Len(offsets)
    BY <1>2, ProgramTyped
  <2> QED
    BY <1>2, <1>3, <1>6, <2>1 DEF Boundaries
<1>9. verdict' = "verified"
  <2>1. scan_offset = module_.code_size
    BY <1>2, <1>4, <1>6
  <2> QED
    BY <1>7, <1>8, <2>1 DEF CheckEntry
<1>10. (PlansInvariant /\ LayoutInvariant /\ RelocationInvariant /\ EncodingInvariant)'
  BY <1>1, CreateKeepsOthers
<1>11. HandoverInvariant'
  BY <1>1, <1>2, <1>3, <1>5, <1>6, <1>9
     DEF HandoverInvariant, assemblerVars, Encoded, AssembledModule, EndOfFirst, End
<1> QED
  BY <1>10, <1>11 DEF AssemblerInvariant

LEMMA AssemblerInvariantStep ==
    AssemblerInvariant /\ [AssemblerNext]_<<assemblerVars, verifierVars>> => AssemblerInvariant'
<1> SUFFICES ASSUME AssemblerInvariant, [AssemblerNext]_<<assemblerVars, verifierVars>>
             PROVE  AssemblerInvariant'
  OBVIOUS
<1>1. CASE RefuseLayout
  BY <1>1, RefuseLayoutKeeps
<1>2. CASE LayIslandOut
  BY <1>2, LayIslandOutKeeps
<1>3. CASE FinishLayout
  BY <1>3, FinishLayoutKeeps
<1>4. CASE Relocate
  BY <1>4, RelocateKeeps
<1>5. CASE FinishRelocation
  BY <1>5, FinishRelocationKeeps
<1>6. CASE EncodeIsland
  BY <1>6, EncodeIslandKeeps
<1>7. CASE FinishModule
  BY <1>7, FinishModuleKeeps
<1>8. CASE VerifierNext /\ UNCHANGED assemblerVars
  BY <1>8, CheckModuleKeeps, ScanIslandKeeps, CheckEntryKeeps DEF VerifierNext
<1>9. CASE UNCHANGED <<assemblerVars, verifierVars>>
  <2>1. UNCHANGED assemblerVars /\ UNCHANGED verifierVars
    BY <1>9
  <2>2. UNCHANGED <<module_, plan_limits, verdict, scan_offset, island_offsets>>
    BY <2>1 DEF verifierVars
  <2>3. (PlansInvariant /\ LayoutInvariant /\ RelocationInvariant /\ EncodingInvariant)'
    BY <2>1, <2>2, CreateKeepsOthers
  <2>4. HandoverInvariant'
    BY <2>1, <2>2
       DEF AssemblerInvariant, HandoverInvariant, assemblerVars, Encoded, AssembledModule,
           EndOfFirst, End
  <2> QED
    BY <2>3, <2>4 DEF AssemblerInvariant
<1> QED
  BY <1>1, <1>2, <1>3, <1>4, <1>5, <1>6, <1>7, <1>8, <1>9 DEF AssemblerNext

(***************************************************************************)
(* What the back end promises.                                             *)
(***************************************************************************)

\* The invariant holds for every lowered program that keeps the promises of the
\* lowering, every limit and every profile.
THEOREM AssemblerInvariantHolds == AssemblerSpec => []AssemblerInvariant
BY AssemblerInvariantInit, AssemblerInvariantStep, PTL DEF AssemblerSpec

\* create accepts every module compile_machine_ir produces.
THEOREM ModulesVerify == AssemblerSpec => []AssembledModulesVerify
<1>1. AssemblerInvariant => AssembledModulesVerify
  BY DEF AssemblerInvariant, HandoverInvariant, AssembledModulesVerify
<1> QED
  BY <1>1, AssemblerInvariantHolds, PTL

\* Each island is encoded at the offset the layout sealed into the
\* continuations, the last one ends before the offset reserved for halting, and
\* the scan finds those offsets again.
THEOREM BoundariesAreOffsets == AssemblerSpec => []OffsetsAreBoundaries
<1>1. AssemblerInvariant => OffsetsAreBoundaries
  <2> SUFFICES ASSUME AssemblerInvariant PROVE OffsetsAreBoundaries
    OBVIOUS
  <2>1. stage = "encode" /\ Encoded < Len(plans) => offsets[Encoded + 1] = code_end
    BY EncodesWhereLaidOut
  <2>3. ASSUME stage = "assembled" PROVE code_end < kHaltContinuation
    <3>1. verdict # "absent" /\ code_size < kHaltContinuation
      BY <2>3 DEF AssemblerInvariant, HandoverInvariant, LayoutInvariant
    <3>2. /\ module_ = AssembledModule /\ module_.code_size = EndOfFirst(Len(offsets))
          /\ code_size = EndOfFirst(Len(offsets))
      BY <3>1, HandedOver DEF AssemblerInvariant, LayoutInvariant
    <3>3. code_end = code_size
      BY <3>2 DEF AssembledModule
    <3> QED
      BY <3>1, <3>3
  <2>2. ASSUME verdict = "verified" PROVE island_offsets = offsets
    <3>1. /\ island_offsets \in Seq(Nat) /\ stage = "assembled"
          /\ \A i \in 1 .. Len(island_offsets) : island_offsets[i] = offsets[i]
      BY <2>2, HandedOver
    <3>2. Len(island_offsets) = Len(offsets) /\ offsets \in Seq(Nat)
      BY <2>2, <3>1 DEF AssemblerInvariant, HandoverInvariant, LayoutInvariant
    <3> QED
      BY <3>1, <3>2, SMTT(30)
  <2> QED
    BY <2>1, <2>2, <2>3 DEF OffsetsAreBoundaries
<1> QED
  BY <1>1, AssemblerInvariantHolds, PTL

\* A lane and a proof patched for the same island open to that island's boundary
\* and never to the offset of a halt; those patched for no island open to it.
THEOREM ContinuationsLand == AssemblerSpec => []RelocationsLand
<1>1. AssemblerInvariant => RelocationsLand
  <2> SUFFICES ASSUME AssemblerInvariant, verdict = "verified",
                      NEW a \in 1 .. Len(program.relocations),
                      NEW b \in 1 .. Len(program.relocations),
                      program.relocations[a].part = "lane",
                      program.relocations[b].part = "proof",
                      program.relocations[a].target = program.relocations[b].target
               PROVE  LET lane == program.relocations[a]
                          proof == program.relocations[b]
                          word(r) ==
                              IslandAt(module_, offsets[r.island]).nodes[r.node + 1].immediate
                          target == Open([lane |-> word(lane), proof |-> word(proof)])
                      IN  /\ target = TargetOffset(lane)
                          /\ target \in IF lane.target = 0 THEN {kHaltContinuation}
                                        ELSE Boundaries \ {kHaltContinuation}
    BY ZenonT(40) DEF RelocationsLand
  <2> DEFINE word(r) == IslandAt(module_, offsets[r.island]).nodes[r.node + 1].immediate
  <2>1. /\ stage = "assembled" /\ program \in Programs
        /\ Len(offsets) = Len(plans) /\ Len(program.plans) = Len(plans)
        /\ Len(offsets) \in Nat
        /\ \A i \in 1 .. Len(offsets) :
               /\ IslandAt(module_, offsets[i]) = EncodedIsland(plans[i])
               /\ offsets[i] \in Offset \ {kHaltContinuation}
    BY HandedOver
  <2>2. /\ Len(island_offsets) = Len(offsets) /\ relocated = Len(program.relocations)
        /\ \A i \in 1 .. Len(island_offsets) : island_offsets[i] = offsets[i]
        /\ \A r \in 1 .. relocated :
               LET relocation == program.relocations[r]
               IN  plans[relocation.island].nodes[relocation.node + 1].immediate
                       = RelocatedWord(relocation)
    BY <2>1 DEF AssemblerInvariant, HandoverInvariant, RelocationInvariant
  <2>3. ASSUME NEW r \in 1 .. Len(program.relocations)
        PROVE  /\ word(program.relocations[r]) = RelocatedWord(program.relocations[r])
               /\ program.relocations[r].target \in 0 .. Len(offsets)
    <3> DEFINE relocation == program.relocations[r]
    <3>1. /\ relocation.target \in 0 .. Len(offsets)
          /\ relocation.island \in 1 .. Len(offsets)
      BY <2>1, ProgramTyped
    <3>2. IslandAt(module_, offsets[relocation.island]) = EncodedIsland(plans[relocation.island])
      BY <2>1, <3>1
    <3>3. EncodedIsland(plans[relocation.island]).nodes = plans[relocation.island].nodes
      BY DEF EncodedIsland
    <3>4. plans[relocation.island].nodes[relocation.node + 1].immediate = RelocatedWord(relocation)
      BY <2>2
    <3> QED
      BY <3>1, <3>2, <3>3, <3>4
  <2> DEFINE lane == program.relocations[a]
             proof == program.relocations[b]
  <2>4. PICK target : target = TargetOffset(lane)
    OBVIOUS
  <2>5. target = TargetOffset(proof)
    BY <2>4 DEF TargetOffset
  <2>6. /\ target \in Offset
        /\ target \in IF lane.target = 0 THEN {kHaltContinuation}
                      ELSE Boundaries \ {kHaltContinuation}
    <3>1. lane.target \in 0 .. Len(offsets)
      BY <2>3
    <3>2. CASE lane.target = 0
      <4>1. kHaltContinuation \in Nat
        BY OffsetsAreWords
      <4> QED
        BY <2>4, <3>2, <4>1 DEF TargetOffset, Offset
    <3>3. CASE lane.target # 0
      <4> HIDE DEF lane
      <4>1. lane.target \in 1 .. Len(offsets) /\ target = offsets[lane.target]
        BY <2>1, <2>4, <3>1, <3>3 DEF TargetOffset
      <4> QED
        BY <2>1, <2>2, <4>1 DEF Boundaries
    <3> QED
      BY <3>2, <3>3
  <2>7. /\ word(lane) = Seal(target).lane /\ word(proof) = Seal(target).proof
    BY <2>3, <2>4, <2>5 DEF RelocatedWord
  <2>8. [lane |-> word(lane), proof |-> word(proof)] = Seal(target)
    <3>1. Seal(target) = [lane |-> Seal(target).lane, proof |-> Seal(target).proof]
      BY DEF Seal
    <3> QED
      BY <2>7, <3>1
  <2>9. Open(Seal(target)) = target
    BY <2>6, SealOpens
  <2> QED
    BY <2>4, <2>6, <2>8, <2>9
<1> QED
  BY <1>1, AssemblerInvariantHolds, PTL
=============================================================================
