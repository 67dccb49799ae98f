---------------------------- MODULE AtomicIslands ----------------------------
(***************************************************************************)
(* What the runtime promises its user, without a cursor, a staging area or *)
(* a verifier: a run is a sequence of whole islands.  An island is a set   *)
(* of equations over the carriers and the memory it starts from and a set  *)
(* of writes that take effect together.  A run may stop at any island      *)
(* boundary, and then leaves exactly the state the last whole island made. *)
(***************************************************************************)
EXTENDS PhysicalCode

CONSTANTS Modules, ByteBase, Compute(_, _, _), Arguments

VARIABLES
    module_,   \* the module the machine was made from
    status,    \* idle, called, running or stopped
    carriers,
    memory,
    executed   \* whole islands since the run began

atomicVars == <<module_, status, carriers, memory, executed>>

\* The offsets reached by laying islands end to end from the first byte.
IsBoundary(offset) ==
    LET tile[o \in 0 .. offset] ==
            \/ o = 0
            \/ \E p \in 0 .. (o - 1) : p + IslandAt(module_, p).size = o /\ tile[p]
    IN  tile[offset]

InMemory(address, width) == address \in 0 .. (module_.memory_size - width)

Load(address, width) ==
    LET from[i \in 0 .. width] ==
            IF i = width THEN 0 ELSE memory[address + i] + ByteBase * from[i + 1]
    IN  IF InMemory(address, width) THEN from[0] ELSE 0

LoadWidth(kind) == IF kind = "ReadMemory8" THEN 1 ELSE WordBytes

\* A node's value, from those of the nodes before it and the state before the
\* island.  Node n's value is at position n + 1.
ValueOf(node, earlier) ==
    LET operand(i) == earlier[node.operands[i] + 1]
    IN  CASE node.kind = "Literal"     -> node.immediate
          [] node.kind = "ReadCarrier" -> carriers[node.immediate]
          [] node.kind \in Loads       -> Load(operand(1), LoadWidth(node.kind))
          [] node.kind = "Select"      -> IF operand(1) = 0 THEN operand(3) ELSE operand(2)
          [] OTHER -> Compute(node.kind, node.immediate,
                              [i \in 1 .. Arity(node.kind) |-> operand(i)])

\* The values of all the nodes of an island.
NodeValues(island) ==
    LET extended[earlier \in Seq(Int)] ==
            Append(earlier, ValueOf(island.nodes[Len(earlier) + 1], earlier))
        first[count \in 0 .. NodeCount(island)] ==
            IF count = 0 THEN << >> ELSE extended[first[count - 1]]
    IN  first[NodeCount(island)]

\* The bytes a store touches, as a function from addresses to new values.
Bytes(write, values) ==
    LET address == values[write.address + 1]
    IN  [a \in address .. (address + write.width - 1) |->
            (values[write.value + 1] \div ByteBase ^ (a - address)) % ByteBase]

Stores(island, values) ==
    {Bytes(island.memory_writes[n], values) : n \in 1 .. MemoryWriteCount(island)}

\* The island can take effect: it stays in memory, and no byte and no carrier
\* gets two values.
TakesEffect(island, values) ==
    /\ \A n \in 1 .. NodeCount(island) :
           island.nodes[n].kind \in Loads =>
               InMemory(values[island.nodes[n].operands[1] + 1], LoadWidth(island.nodes[n].kind))
    /\ \A n \in 1 .. MemoryWriteCount(island) :
           /\ InMemory(values[island.memory_writes[n].address + 1], island.memory_writes[n].width)
           /\ \A m \in 1 .. (n - 1) :
                  DOMAIN Bytes(island.memory_writes[n], values)
                      \cap DOMAIN Bytes(island.memory_writes[m], values) = {}
    /\ \A n, m \in 1 .. CarrierWriteCount(island) :
           island.carrier_writes[n].carrier = island.carrier_writes[m].carrier => n = m

\* Every write of the island at once.
Committed(island, values) ==
    /\ carriers' = [c \in DOMAIN carriers |->
           IF \E n \in 1 .. CarrierWriteCount(island) : island.carrier_writes[n].carrier = c
           THEN LET n == CHOOSE n \in 1 .. CarrierWriteCount(island) :
                             island.carrier_writes[n].carrier = c
                IN  values[island.carrier_writes[n].value + 1]
           ELSE carriers[c]]
    /\ memory' = [a \in DOMAIN memory |->
           IF \E store \in Stores(island, values) : a \in DOMAIN store
           THEN (CHOOSE store \in Stores(island, values) : a \in DOMAIN store)[a]
           ELSE memory[a]]

AtomicInit ==
    /\ module_ \in Modules
    /\ status = "idle"
    /\ carriers = [x \in {} |-> 0]
    /\ memory = [x \in {} |-> 0]
    /\ executed = 0

\* A call discards whatever an earlier run left.
Call ==
    /\ status \in {"idle", "stopped"}
    /\ status' = "called"
    /\ carriers' = module_.initial_carriers
    /\ memory' = [a \in 0 .. (module_.memory_size - 1) |->
                     IF a < Len(module_.data) THEN module_.data[a + 1] ELSE 0]
    /\ executed' = 0
    /\ UNCHANGED module_

Begin ==
    /\ status = "called"
    /\ status' = "running"
    /\ \E values \in Arguments :
           /\ Len(values) = module_.argument_count
           /\ carriers' = [c \in DOMAIN carriers |->
                  IF c - kArgumentCarrierBase + 1 \in DOMAIN values
                  THEN values[c - kArgumentCarrierBase + 1]
                  ELSE carriers[c]]
    /\ UNCHANGED <<module_, memory, executed>>

RunIsland ==
    /\ status = "running"
    /\ \E target \in {OpenCarriers(carriers)} \cap (0 .. (module_.code_size - 1)) :
           /\ IsBoundary(target)
           /\ \E island \in {IslandAt(module_, target)} :
                  \E values \in {NodeValues(island)} :
                      TakesEffect(island, values) /\ Committed(island, values)
    /\ executed' = executed + 1
    /\ UNCHANGED <<module_, status>>

Stop ==
    /\ status \in {"called", "running"}
    /\ status' = "stopped"
    /\ UNCHANGED <<module_, carriers, memory, executed>>

AtomicNext == Call \/ Begin \/ RunIsland \/ Stop

AtomicSpec == AtomicInit /\ [][AtomicNext]_atomicVars
=============================================================================
