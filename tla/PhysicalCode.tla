---------------------------- MODULE PhysicalCode -----------------------------
(***************************************************************************)
(* The physical island stream that the verifier (disassembler.cpp) and the *)
(* runtime (runtime.cpp) both decode.  A module's code section is a        *)
(* function from byte offsets to the island that decodes there.  An island *)
(* is what its bytes decode to: the header fields, the nodes, the delayed  *)
(* carrier writes and the delayed memory writes, in stream order.  Whether *)
(* an item may be read at all depends on the byte where it ends and on the *)
(* size the header claims, so the byte widths of every field are kept.     *)
(* The masking of code bytes and the shuffled opcodes are abstracted: a    *)
(* byte outside the profile's table decodes to a kind not in PrimitiveKind.*)
(***************************************************************************)
EXTENDS ContinuationCodec, MachineWord, Integers, Sequences, FiniteSets

kIslandHeaderSize == 12

\* Carrier window of compiler.hpp: the first nine carriers hold the shares of
\* the next continuation and of the return value, arguments arrive from 16
\* on, and a program's own carriers start at 32.
kContinuationLaneCarrier == 0
kContinuationProofCarrier == 3
kReturnValueCarrier == 6
kArgumentCarrierBase == 16
kFirstAllocatedCarrier == 32

ContinuationCarriers == kContinuationLaneCarrier .. (kContinuationProofCarrier + 2)

\* The ABI carriers no island may write.
ReadOnlyAbi == (kReturnValueCarrier + 3) .. (kFirstAllocatedCarrier - 1)

\* current_continuation, opened: the offset the six continuation carriers
\* name, or Refused.
OpenCarriers(values) ==
    LET share(base) == JoinXor(values[base], values[base + 1], values[base + 2])
    IN  Open([lane  |-> share(kContinuationLaneCarrier),
              proof |-> share(kContinuationProofCarrier)])

Loads == {"ReadMemory8", "ReadMemory64"}
UnaryKind == {"Not", "Neg"}
BinaryKind == {"Add", "Sub", "Mul", "Xor", "And", "Or",
               "Shl", "Shr", "Sar", "Rol", "Ror"}
PrimitiveKind == {"Literal", "ReadCarrier", "Compare", "Select", "Mix"}
                     \cup Loads \cup UnaryKind \cup BinaryKind

\* The largest CompareCondition.
SignedLessEqual == 5

\* How many node ids a node of this kind carries.
Arity(kind) ==
    CASE kind \in Loads \cup UnaryKind                -> 1
      [] kind \in BinaryKind \cup {"Compare", "Mix"}  -> 2
      [] kind = "Select"                              -> 3
      [] OTHER                                        -> 0

\* Bytes of a node after its opcode: two for each node id, and the immediate
\* (a word, a carrier id or a condition).  An unknown opcode has none.
PayloadSize(kind) ==
    2 * Arity(kind) + CASE kind \in {"Literal", "Mix"} -> 8
                        [] kind = "ReadCarrier"        -> 4
                        [] kind = "Compare"            -> 1
                        [] OTHER                       -> 0

CarrierWriteSize == 6
MemoryWriteSize == 5

NodeCount(island) == Len(island.nodes)
CarrierWriteCount(island) == Len(island.carrier_writes)
MemoryWriteCount(island) == Len(island.memory_writes)
ItemCount(island) ==
    NodeCount(island) + CarrierWriteCount(island) + MemoryWriteCount(island)

ItemSize(island, item) ==
    IF item <= NodeCount(island)
    THEN 1 + PayloadSize(island.nodes[item].kind)
    ELSE IF item <= NodeCount(island) + CarrierWriteCount(island)
         THEN CarrierWriteSize
         ELSE MemoryWriteSize

\* The cursor's distance from the island's first byte after so many items.
ItemEnds(island) ==
    LET end[item \in 0 .. ItemCount(island)] ==
            IF item = 0 THEN kIslandHeaderSize
                        ELSE end[item - 1] + ItemSize(island, item)
    IN  end

\* set_limit and the bounds test of read_byte: an item can be read when it
\* ends inside the size the header claims.
Readable(island, item) == ItemEnds(island)[item] <= island.size

CarrierItem(island, n) == NodeCount(island) + n
MemoryItem(island, n) == NodeCount(island) + CarrierWriteCount(island) + n

\* Where the cursor stands after the last item.
StreamEnd(island) == ItemEnds(island)[ItemCount(island)]

\* What decodes at an offset: the island the encoder placed there, or, in the
\* middle of one, whatever its bytes happen to read as.
IslandAt(program, offset) ==
    IF offset \in DOMAIN program.code THEN program.code[offset] ELSE program.interior
=============================================================================
