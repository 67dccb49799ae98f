------------------------------ MODULE PlanProofs ------------------------------
(***************************************************************************)
(* The plans the lowering hands over, for every function, word arithmetic, *)
(* seed and limit: the back end can rely on them (LoweredIsAcceptable),    *)
(* and the sidecar's records account for every carrier they write          *)
(* (SidecarAccountsForWrites).                                             *)
(*                                                                         *)
(* The invariant has three parts.  CarriersKept: each place that was       *)
(* allocated has the three carriers its number says, above the reserved    *)
(* ones and below the next.  DraftSound: the draft of the island at hand   *)
(* passes the plans' verifier, unless its ids ran out, and writes only     *)
(* carriers of values that island writes.  PlansSound: every plan handed   *)
(* over passes it, and every placeholder names a literal of a plan.  Each  *)
(* needs those before it, and the lookups and origins of LoweringProofs.   *)
(***************************************************************************)
EXTENDS LoweringProofs

-----------------------------------------------------------------------------
(***************************************************************************)
(* Plans the back end can rely on.                                         *)
(***************************************************************************)

FormatLimits == [max_nodes |-> kFormatCount, max_carrier_writes |-> kFormatCount,
                 max_memory_writes |-> kFormatCount]

\* The carriers a plan writes.
Written(plan) == {plan.carrier_writes[n].carrier : n \in DOMAIN plan.carrier_writes}

GoodPlan(plan, carriers) ==
    /\ plan \in PrimitivePlan
    /\ PlanVerified(plan, carriers, FormatLimits)
    /\ ContinuationCarriers \subseteq Written(plan)
    /\ Written(plan) \cap ReadOnlyAbi = {}

\* A sequence has a length, and so many places.
LEMMA SequenceParts ==
    ASSUME NEW s, IsSequence(s)
    PROVE  Len(s) \in Nat /\ DOMAIN s = 1 .. Len(s)
BY DEF IsSequence

\* A sequence of elements of a set is one over it.
LEMMA SequenceOver ==
    ASSUME NEW s, IsSequence(s), NEW T, \A n \in 1 .. Len(s) : s[n] \in T
    PROVE  s \in Seq(T)
BY DEF IsSequence

\* Numbers below a count, and before another.
LEMMA BelowIsIn ==
    ASSUME NEW count \in Nat, NEW k \in Nat, k < count
    PROVE  k \in 0 .. (count - 1)
OBVIOUS

LEMMA EarlierIsIn ==
    ASSUME NEW count \in Nat, NEW n \in 1 .. count, NEW prior \in 1 .. (n - 1)
    PROVE  prior \in 1 .. count /\ prior # n
OBVIOUS

\* A good draft becomes such a plan.
LEMMA PlanIsGood ==
    ASSUME NEW d, NEW carriers \in Nat, Good(d, carriers),
           0 .. 5 \subseteq CarriersWritten(d.carrier_writes),
           CarriersWritten(d.carrier_writes) \cap (9 .. 31) = {}
    PROVE  /\ GoodPlan(Plan(d), carriers)
           /\ Plan(d).nodes = d.nodes
           /\ Written(Plan(d)) = CarriersWritten(d.carrier_writes)
<1>1. PICK plan : plan = Plan(d)
  OBVIOUS
<1>2. /\ plan.nodes = d.nodes /\ plan.carrier_writes = d.carrier_writes
      /\ plan.memory_writes = d.memory_writes
      /\ plan = [nodes |-> plan.nodes, carrier_writes |-> plan.carrier_writes,
                 memory_writes |-> plan.memory_writes]
  BY <1>1 DEF Plan
<1>3. /\ GoodNodes(plan.nodes, 0, carriers) /\ Len(plan.nodes) <= MaxNodeId
      /\ GoodWrites(plan.carrier_writes, Len(plan.nodes), carriers)
      /\ GoodStores(plan.memory_writes, Len(plan.nodes))
  BY <1>2, Zenon DEF Good
<1>4. /\ IsSequence(plan.nodes)
      /\ \A n \in 1 .. Len(plan.nodes) : GoodNode(plan.nodes[n], 0 + n, carriers)
  BY <1>3, Zenon DEF GoodNodes
<1>5. /\ IsSequence(plan.carrier_writes) /\ Len(plan.carrier_writes) <= Len(plan.nodes)
      /\ \A n \in 1 .. Len(plan.carrier_writes) :
             /\ plan.carrier_writes[n] \in [carrier : Nat, value : Nat]
             /\ plan.carrier_writes[n].carrier < carriers
             /\ plan.carrier_writes[n].value < Len(plan.nodes)
      /\ \A m, n \in 1 .. Len(plan.carrier_writes) :
             plan.carrier_writes[m].carrier = plan.carrier_writes[n].carrier => m = n
  BY <1>3, Zenon DEF GoodWrites
<1>6. /\ IsSequence(plan.memory_writes) /\ Len(plan.memory_writes) <= Len(plan.nodes)
      /\ \A n \in 1 .. Len(plan.memory_writes) :
             /\ plan.memory_writes[n] \in [width : Nat, address : Nat, value : Nat]
             /\ plan.memory_writes[n].width \in {1, WordBytes}
             /\ plan.memory_writes[n].address < Len(plan.nodes)
             /\ plan.memory_writes[n].value < Len(plan.nodes)
  BY <1>3, Zenon DEF GoodStores
<1>7. PICK count : count = Len(plan.nodes)
  OBVIOUS
<1>8. PICK written : written = CarriersWritten(d.carrier_writes)
  OBVIOUS
<1>9. /\ count \in Nat /\ Len(plan.carrier_writes) \in Nat /\ Len(plan.memory_writes) \in Nat
      /\ DOMAIN plan.carrier_writes = 1 .. Len(plan.carrier_writes)
  BY <1>4, <1>5, <1>6, <1>7, SequenceParts, Zenon
<1>10. Written(plan) = written
  BY <1>2, <1>8, <1>9 DEF Written, CarriersWritten
<1>11. count # 0
  <2>1. 0 \in written
    BY <1>8
  <2>2. PICK n \in 1 .. Len(plan.carrier_writes) : plan.carrier_writes[n].carrier = 0
    BY <1>2, <1>8, <2>1 DEF CarriersWritten
  <2>3. PICK length : length = Len(plan.carrier_writes)
    OBVIOUS
  <2>4. length \in Nat /\ length <= count /\ n \in 1 .. length
    BY <1>5, <1>7, <1>9, <2>3, Zenon
  <2> QED
    BY <2>4
<1>12. count <= kFormatCount
  <2>1. count \in Nat /\ count <= MaxNodeId
    BY <1>3, <1>7, <1>9, Zenon
  <2>2. MaxNodeId \in Nat /\ MaxNodeId <= kFormatCount /\ kFormatCount \in Nat
    BY NodeIdAssumption, LimitsAssumption DEF kFormatCount
  <2> QED
    BY <2>1, <2>2
<1>13. plan \in PrimitivePlan
  <2>1. plan.nodes \in Seq(PrimitiveNode)
    BY <1>4, SequenceOver DEF GoodNode
  <2>2. plan.carrier_writes \in Seq([carrier : Nat, value : Nat])
    BY <1>5, SequenceOver, Zenon
  <2>3. plan.memory_writes \in Seq([width : Nat, address : Nat, value : Nat])
    BY <1>6, SequenceOver, Zenon
  <2> HIDE DEF PrimitiveNode
  <2> QED
    BY <1>2, <2>1, <2>2, <2>3, Zenon DEF PrimitivePlan
<1>14. PlanVerified(plan, carriers, FormatLimits)
  <2>1. /\ count # 0 /\ count <= FormatLimits.max_nodes /\ count <= kFormatCount
        /\ Len(plan.carrier_writes) <= FormatLimits.max_carrier_writes
        /\ Len(plan.carrier_writes) <= kFormatCount
        /\ Len(plan.memory_writes) <= FormatLimits.max_memory_writes
        /\ Len(plan.memory_writes) <= kFormatCount
    <3>1. /\ FormatLimits.max_nodes = kFormatCount
          /\ FormatLimits.max_carrier_writes = kFormatCount
          /\ FormatLimits.max_memory_writes = kFormatCount
      BY DEF FormatLimits
    <3>2. kFormatCount \in Nat
      BY DEF kFormatCount
    <3>3. PICK writes, stores : /\ writes = Len(plan.carrier_writes)
                                /\ stores = Len(plan.memory_writes)
      OBVIOUS
    <3>4. /\ writes \in Nat /\ stores \in Nat /\ count \in Nat
          /\ writes <= count /\ stores <= count
      BY <1>5, <1>6, <1>7, <1>9, <3>3
    <3>5. count # 0 /\ writes <= kFormatCount /\ stores <= kFormatCount
      BY <1>11, <1>12, <3>2, <3>4
    <3> QED
      BY <1>12, <3>1, <3>3, <3>5, Zenon
  <2>2. ASSUME NEW n \in 1 .. count
        PROVE  /\ \A i \in 1 .. Arity(plan.nodes[n].kind) : plan.nodes[n].operands[i] < n - 1
               /\ plan.nodes[n].kind = "Compare" => plan.nodes[n].immediate <= SignedLessEqual
               /\ plan.nodes[n].kind = "ReadCarrier" => plan.nodes[n].immediate < carriers
    <3>1. 0 + n = n
      BY <1>9
    <3>2. GoodNode(plan.nodes[n], 0 + n, carriers)
      BY <1>4, <1>7, Zenon
    <3> QED
      BY <3>1, <3>2, Zenon DEF GoodNode
  <2>3. ASSUME NEW n \in 1 .. Len(plan.carrier_writes)
        PROVE  /\ plan.carrier_writes[n].carrier < carriers
               /\ plan.carrier_writes[n].value \in 0 .. (count - 1)
               /\ \A prior \in 1 .. (n - 1) :
                      plan.carrier_writes[prior].carrier # plan.carrier_writes[n].carrier
    <3>1. /\ plan.carrier_writes[n] \in [carrier : Nat, value : Nat]
          /\ plan.carrier_writes[n].carrier < carriers
          /\ plan.carrier_writes[n].value < count
          /\ plan.carrier_writes[n].value \in Nat
      BY <1>5, <1>7
    <3>2. plan.carrier_writes[n].value \in 0 .. (count - 1)
      BY <1>9, <3>1, BelowIsIn
    <3>3. ASSUME NEW prior \in 1 .. (n - 1)
          PROVE  plan.carrier_writes[prior].carrier # plan.carrier_writes[n].carrier
      <4>1. prior \in 1 .. Len(plan.carrier_writes) /\ prior # n
        BY <1>9, EarlierIsIn
      <4> QED
        BY <1>5, <4>1, Zenon
    <3> QED
      BY <3>1, <3>2, <3>3
  <2>4. ASSUME NEW n \in 1 .. Len(plan.memory_writes)
        PROVE  /\ plan.memory_writes[n].width \in {1, WordBytes}
               /\ plan.memory_writes[n].address \in 0 .. (count - 1)
               /\ plan.memory_writes[n].value \in 0 .. (count - 1)
    <3>1. /\ plan.memory_writes[n] \in [width : Nat, address : Nat, value : Nat]
          /\ plan.memory_writes[n].width \in {1, WordBytes}
          /\ plan.memory_writes[n].address < count
          /\ plan.memory_writes[n].value < count
      BY <1>6, <1>7
    <3>2. plan.memory_writes[n].address \in Nat /\ plan.memory_writes[n].value \in Nat
      BY <3>1
    <3> QED
      BY <1>9, <3>1, <3>2, BelowIsIn
  <2> QED
    BY <1>7, <2>1, <2>2, <2>3, <2>4, Zenon
    DEF PlanVerified, NodeCount, CarrierWriteCount, MemoryWriteCount
<1>15. ContinuationCarriers \subseteq written /\ written \cap ReadOnlyAbi = {}
  <2>1. ContinuationCarriers = 0 .. 5 /\ ReadOnlyAbi = 9 .. 31
    BY DEF ContinuationCarriers, ReadOnlyAbi, kContinuationLaneCarrier,
           kContinuationProofCarrier, kReturnValueCarrier, kFirstAllocatedCarrier
  <2> QED
    BY <1>8, <2>1
<1> QED
  BY <1>1, <1>2, <1>8, <1>10, <1>13, <1>14, <1>15, Zenon DEF GoodPlan

-----------------------------------------------------------------------------
(***************************************************************************)
(* Carriers.  The allocator hands them out in threes, in order.            *)
(***************************************************************************)

\* The first of the carriers of the n-th allocated value.
CarrierAt(n) == kFirstAllocatedCarrier + kPhysicalShares * (n - 1)

Allocations ==
    /\ next_carrier = CarrierAt(Len(allocated) + 1)
    /\ Len(allocated) # 0 => next_carrier <= MaxCarriers
    /\ \A n \in 1 .. Len(allocated) :
           Stored(allocated[n], CarrierAt(n)) /\ allocated[n].origin \in 0 .. MaxOrigin

ValuesFound ==
    \A i \in 1 .. Len(allocated) :
        i <= ValueCount => values[FunctionValues[i].id] = allocated[i]

StatesFound ==
    /\ IsSequence(states)
    /\ loop \in {"verify", "values", "edges"} => Len(states) = 0
    /\ loop \in AfterValues => Len(allocated) = ValueCount + 2 * Len(states)
    /\ loop \in {"islands", "lowered"} => Len(states) = BlockCount
    /\ \A b \in 1 .. Len(states) :
           /\ states[b].semantic = allocated[ValueCount + 2 * b - 1]
           /\ states[b].history = allocated[ValueCount + 2 * b]

CarriersKept ==
    loop \in AfterVerify \cup {"verify"} =>
        /\ Allocations
        /\ ValuesFound
        /\ StatesFound
        /\ loop \in AfterVerify => Admissible

\* Nothing is allocated yet.
LEMMA CarriersInit == LoweringInit => CarriersKept
<1> SUFFICES ASSUME LoweringInit PROVE CarriersKept
  OBVIOUS
<1>1. /\ loop = "verify" /\ allocated = << >> /\ states = << >>
      /\ next_carrier = kFirstAllocatedCarrier
  BY DEF LoweringInit
<1>2. IsSequence(states) /\ Len(states) = 0 /\ Len(allocated) = 0
  BY <1>1, EmptyIsSequence
<1>3. next_carrier = CarrierAt(Len(allocated) + 1)
  BY <1>1, <1>2 DEF CarrierAt, kFirstAllocatedCarrier, kPhysicalShares
<1>4. Allocations
  BY <1>2, <1>3 DEF Allocations
<1>5. ValuesFound
  BY <1>2 DEF ValuesFound
<1>6. StatesFound
  BY <1>1, <1>2 DEF StatesFound, AfterValues, AfterVerify
<1> QED
  BY <1>1, <1>4, <1>5, <1>6, Zenon DEF CarriersKept, AfterVerify

\* What allocates nothing keeps the carriers.
LEMMA CarriersFrame ==
    ASSUME CarriersKept, UNCHANGED <<source, next_carrier, allocated, values, states>>,
           \/ loop' = loop
           \/ loop' \notin AfterVerify \cup {"verify"}
           \/ loop = "verify" /\ loop' = "values" /\ Admissible
           \/ loop = "values" /\ loop' = "edges" /\ Len(allocated) = ValueCount
           \/ loop = "edges" /\ loop' = "states"
           \/ loop = "states" /\ loop' = "islands" /\ Len(states) = BlockCount
           \/ loop = "islands" /\ loop' = "lowered"
    PROVE  CarriersKept'
<1>1. /\ next_carrier' = next_carrier /\ allocated' = allocated /\ values' = values
      /\ states' = states /\ source' = source
  OBVIOUS
<1>2. /\ FunctionValues' = FunctionValues /\ BlockCount' = BlockCount
      /\ ValueCount' = ValueCount /\ (Admissible' <=> Admissible)
  <2>1. FunctionValues' = FunctionValues /\ BlockCount' = BlockCount /\ function_' = function_
    BY <1>1, SameFunction
  <2> QED
    BY <1>1, <2>1, Zenon DEF ValueCount, Admissible
<1>3. CASE loop' \notin AfterVerify \cup {"verify"}
  BY <1>3, Zenon DEF CarriersKept
<1>4. CASE loop' \in AfterVerify \cup {"verify"}
  <2>1. loop \in AfterVerify \cup {"verify"}
    BY <1>4 DEF AfterVerify
  <2>2. Allocations /\ ValuesFound /\ StatesFound /\ (loop \in AfterVerify => Admissible)
    BY <2>1, Zenon DEF CarriersKept
  <2>3. Allocations' /\ ValuesFound'
    BY <1>1, <1>2, <2>2, Zenon DEF Allocations, ValuesFound
  <2>4. IsSequence(states)' /\ Len(states)' = Len(states) /\ Len(allocated)' = Len(allocated)
    BY <1>1, <2>2, Zenon DEF StatesFound, IsSequence
  <2>5. Len(states) \in Nat
    BY <2>2, SequenceParts, Zenon DEF StatesFound
  <2>6. /\ (loop \in {"verify", "values", "edges"})' => Len(states) = 0
        /\ (loop \in AfterValues)' => Len(allocated) = ValueCount + 2 * Len(states)
        /\ (loop \in {"islands", "lowered"})' => Len(states) = BlockCount
    <3>1. /\ loop \in {"verify", "values", "edges"} => Len(states) = 0
          /\ loop \in AfterValues => Len(allocated) = ValueCount + 2 * Len(states)
          /\ loop \in {"islands", "lowered"} => Len(states) = BlockCount
      BY <2>2, Zenon DEF StatesFound
    <3>2. ValueCount + 2 * 0 = ValueCount \/ Len(allocated) # ValueCount
      <4>1. Len(allocated) = ValueCount => ValueCount + 2 * 0 = ValueCount
        <5>1. IsSequence(allocated) => Len(allocated) \in Nat
          BY SequenceParts
        <5> QED
          BY <2>2, <5>1 DEF Allocations
      <4> QED
        BY <4>1
    <3> QED
      BY <1>4, <3>1, <3>2 DEF AfterVerify, AfterValues
  <2>7. StatesFound'
    BY <1>1, <1>2, <2>2, <2>4, <2>6, Zenon DEF StatesFound
  <2>8. (loop \in AfterVerify)' => Admissible
    BY <2>2 DEF AfterVerify
  <2> QED
    BY <1>2, <2>3, <2>7, <2>8, Zenon DEF CarriersKept
<1> QED
  BY <1>3, <1>4

\* What emplace leaves, and what it adds.
LEMMA EmplacedAt ==
    ASSUME NEW map, NEW key, NEW value
    PROVE  /\ \A k \in DOMAIN map : Emplaced(map, key, value)[k] = map[k]
           /\ key \notin DOMAIN map => Emplaced(map, key, value)[key] = value
BY DEF Emplaced

\* No two values of an accepted function have the same id.
LEMMA IdsApart ==
    ASSUME LookupsSucceed, Verified(function_), NEW i \in 1 .. ValueCount,
           NEW j \in 1 .. ValueCount, FunctionValues[i].id = FunctionValues[j].id
    PROVE  i = j
<1>1. FunctionValues \in Seq(IrValue)
  BY TypedSource
<1>2. DOMAIN FunctionValues = 1 .. ValueCount
  BY <1>1 DEF ValueCount
<1>3. NamesUnique(function_)
  BY Zenon DEF Verified
<1>4. Distinct([n \in DOMAIN FunctionValues |-> FunctionValues[n].id])
  BY <1>3, Zenon DEF NamesUnique, FunctionValues
<1>5. PICK ids : ids = [n \in 1 .. ValueCount |-> FunctionValues[n].id]
  OBVIOUS
<1>6. Distinct(ids)
  BY <1>2, <1>4, <1>5, Zenon
<1>7. i \in DOMAIN ids /\ j \in DOMAIN ids /\ ids[i] = ids[j]
  BY <1>5
<1> QED
  BY <1>6, <1>7, Zenon DEF Distinct

\* The carriers follow each other.
LEMMA CarriersFollow ==
    ASSUME NEW n \in Nat
    PROVE  /\ CarrierAt(n + 1) \in Nat
           /\ CarrierAt((n + 1) + 1) = CarrierAt(n + 1) + kPhysicalShares
           /\ CarrierAt((n + 2) + 1) = CarrierAt(n + 1) + 2 * kPhysicalShares
           /\ CarrierAt(n + 2) = CarrierAt(n + 1) + kPhysicalShares
BY DEF CarrierAt, kFirstAllocatedCarrier, kPhysicalShares

\* Room for another value is within the allocator's limit.
LEMMA RoomWithin ==
    ASSUME NEW next \in Nat, HasRoom(next, MaxCarriers)
    PROVE  next + kPhysicalShares <= MaxCarriers
BY LimitsAssumption DEF HasRoom, kPhysicalShares

\* A value gets the next carriers, and is found by its id.
LEMMA AllocateValueCarriers ==
    ASSUME LookupsSucceed, OriginsInOrder, CarriersKept, AllocateValue
    PROVE  CarriersKept'
<1>1. /\ loop = "values" /\ Len(allocated) < ValueCount /\ source' = source
      /\ states' = states
  BY DEF AllocateValue, ValueCount
<1>2. Allocations /\ ValuesFound /\ StatesFound /\ Admissible
  BY <1>1, Zenon DEF CarriersKept, AfterVerify
<1>3. PICK count : count = Len(allocated)
  OBVIOUS
<1>4. IsSequence(allocated) /\ ValueCount \in Nat
  BY OriginNumbers, Zenon DEF LookupsSucceed, ValuesNamed
<1>5. count \in Nat /\ count < ValueCount
  BY <1>1, <1>3, <1>4, SequenceParts, Zenon
<1>6. PICK value : value = FunctionValues[count + 1]
  OBVIOUS
<1>7. PICK physical : physical = Allocated(next_carrier, value.domain, value.origin)
  OBVIOUS
<1>8. CASE loop' # "values"
  <2>1. loop' = "refused" /\ UNCHANGED <<next_carrier, allocated, values>>
    BY <1>1, <1>8, Zenon DEF AllocateValue
  <2> QED
    BY <1>1, <2>1, CarriersFrame DEF AfterVerify
<1>9. CASE loop' = "values"
  <2>1. /\ HasRoom(next_carrier, MaxCarriers)
        /\ allocated' = Append(allocated, physical)
        /\ values' = Emplaced(values, value.id, physical)
        /\ next_carrier' = next_carrier + kPhysicalShares
    <3>1. loop' # "refused"
      BY <1>9
    <3> QED
      BY <1>3, <1>6, <1>7, <3>1, Zenon DEF AllocateValue
  <2>2. /\ next_carrier = CarrierAt(count + 1) /\ next_carrier \in Nat
        /\ \A n \in 1 .. count :
               Stored(allocated[n], CarrierAt(n)) /\ allocated[n].origin \in 0 .. MaxOrigin
    BY <1>2, <1>3, <1>5, CarriersFollow DEF Allocations
  <2>3. PICK longer : longer = Append(allocated, physical)
    OBVIOUS
  <2>4. /\ Len(longer) = count + 1 /\ longer[count + 1] = physical
        /\ \A n \in 1 .. count : longer[n] = allocated[n]
    BY <1>3, <1>4, <2>3, AppendedAt
  <2>5. value.origin \in 0 .. MaxOrigin
    <3>1. function_ \in MachineFunction /\ Verified(function_)
      BY <1>1, TypedSource DEF LookupsSucceed, AfterVerify
    <3>2. count + 1 \in 1 .. ValueCount
      BY <1>4, <1>5
    <3>3. value.origin \in 1 .. MaximumOrigin /\ MaximumOrigin \in Nat
      BY <1>6, <3>1, <3>2, FunctionOriginsBound, Zenon
    <3>4. MaximumOrigin <= MaxOrigin /\ MaxOrigin \in Nat
      BY <1>1, OriginNumbers DEF AfterVerify
    <3> QED
      BY <3>3, <3>4
  <2>6. Stored(physical, CarrierAt(count + 1)) /\ physical.origin \in 0 .. MaxOrigin
    <3>1. Stored(physical, next_carrier)
      BY <1>7, <2>2, <2>5, AllocatedStored
    <3>2. physical.origin = value.origin
      BY <1>7 DEF Allocated
    <3> QED
      BY <2>2, <2>5, <3>1, <3>2, Zenon
  <2>7. ASSUME NEW n \in 1 .. (count + 1)
        PROVE  Stored(longer[n], CarrierAt(n)) /\ longer[n].origin \in 0 .. MaxOrigin
    <3>1. n \in 1 .. count \/ n = count + 1
      BY <1>5
    <3> QED
      BY <2>2, <2>4, <2>6, <3>1, Zenon
  <2>8. Allocations'
    <3>1. next_carrier' = CarrierAt((count + 1) + 1) /\ next_carrier' <= MaxCarriers
      BY <1>5, <2>1, <2>2, CarriersFollow, RoomWithin, Zenon
    <3>2. Len(allocated)' = count + 1
      BY <2>1, <2>3, <2>4, Zenon
    <3> QED
      BY <2>1, <2>3, <2>7, <3>1, <3>2, Zenon DEF Allocations
  <2>9. FunctionValues' = FunctionValues /\ ValueCount' = ValueCount /\ (Admissible' <=> Admissible)
    BY <1>1, SameFunction, SameMaximum, Zenon DEF Admissible
  <2>10. ASSUME NEW i \in 1 .. (count + 1), i <= ValueCount
         PROVE  values'[FunctionValues[i].id] = longer[i]
    <3>1. DOMAIN values = {FunctionValues[j].id : j \in 1 .. count}
      BY <1>1, <1>3, Zenon DEF LookupsSucceed, ValuesNamed
    <3>2. CASE i \in 1 .. count
      <4>1. values[FunctionValues[i].id] = allocated[i]
        BY <1>2, <1>3, <2>10, <3>2, Zenon DEF ValuesFound
      <4>2. FunctionValues[i].id \in DOMAIN values
        BY <3>1, <3>2
      <4>3. PICK id : id = FunctionValues[i].id
        OBVIOUS
      <4>4. Emplaced(values, value.id, physical)[id] = values[id]
        BY <4>2, <4>3, EmplacedAt
      <4>5. longer[i] = allocated[i]
        BY <2>4, <3>2, Zenon
      <4> QED
        BY <2>1, <4>1, <4>3, <4>4, <4>5, Zenon
    <3>3. CASE i = count + 1
      <4>1. value.id \notin DOMAIN values
        <5>1. ASSUME NEW j \in 1 .. count, FunctionValues[j].id = value.id PROVE FALSE
          <6>1. count + 1 \in 1 .. ValueCount /\ j \in 1 .. ValueCount /\ j # count + 1
            BY <1>4, <1>5
          <6>2. Verified(function_)
            BY <1>1 DEF LookupsSucceed, AfterVerify
          <6> QED
            BY <1>6, <5>1, <6>1, <6>2, IdsApart, Zenon
        <5> QED
          BY <3>1, <5>1, Zenon
      <4> QED
        BY <1>6, <2>1, <2>4, <3>3, <4>1, EmplacedAt, Zenon
    <3> QED
      BY <1>5, <3>2, <3>3
  <2>11. ValuesFound'
    <3>1. Len(allocated)' = count + 1 /\ allocated' = longer
      BY <2>1, <2>3, <2>4, Zenon
    <3> QED
      BY <2>9, <2>10, <3>1, Zenon DEF ValuesFound
  <2>12. StatesFound'
    <3>1. IsSequence(states) /\ Len(states) = 0
      BY <1>1, <1>2, Zenon DEF StatesFound
    <3>2. IsSequence(states)' /\ Len(states)' = 0
      BY <1>1, <3>1, Zenon DEF IsSequence
    <3>3. \A b \in 1 .. 0 : FALSE
      OBVIOUS
    <3> QED
      BY <1>9, <3>2, <3>3 DEF StatesFound, AfterValues, AfterVerify
  <2> QED
    BY <1>2, <2>8, <2>9, <2>11, <2>12, Zenon DEF CarriersKept
<1> QED
  BY <1>8, <1>9

\* Both values of a state get the next carriers.
LEMMA AddStateCarriers ==
    ASSUME LookupsSucceed, CarriersKept, AddState
    PROVE  CarriersKept'
<1>1. loop = "states" /\ Len(states) < BlockCount /\ source' = source /\ values' = values
  BY DEF AddState
<1>2. Allocations /\ ValuesFound /\ StatesFound /\ Admissible
  BY <1>1, Zenon DEF CarriersKept, AfterVerify
<1>3. PICK count : count = Len(allocated)
  OBVIOUS
<1>4. PICK built : built = Len(states)
  OBVIOUS
<1>5. /\ IsSequence(allocated) /\ IsSequence(states) /\ ValueCount \in Nat
      /\ next_origin \in 0 .. MaxOrigin
  BY <1>2, OriginNumbers, Zenon DEF LookupsSucceed, ValuesNamed, StatesFound
<1>6. count \in Nat /\ built \in Nat /\ count = ValueCount + 2 * built
  <2>1. Len(allocated) = ValueCount + 2 * Len(states)
    BY <1>1, <1>2 DEF StatesFound, AfterValues, AfterVerify
  <2> QED
    BY <1>3, <1>4, <1>5, <2>1, SequenceParts, Zenon
<1>7. PICK second : second = OriginAfter(next_origin)
  OBVIOUS
<1>8. PICK semantic : semantic = Allocated(next_carrier, "Semantic", next_origin)
  OBVIOUS
<1>9. PICK history : history = Allocated(next_carrier + kPhysicalShares, "History", second)
  OBVIOUS
<1>10. CASE loop' # "states"
  <2>1. loop' = "refused" /\ UNCHANGED <<next_carrier, allocated, states>>
    BY <1>1, <1>10, Zenon DEF AddState
  <2> QED
    BY <1>1, <2>1, CarriersFrame DEF AfterVerify
<1>11. CASE loop' = "states"
  <2>1. PICK state : state = [semantic |-> semantic, history |-> history]
    OBVIOUS
  <2>2. /\ HasRoom(next_carrier + kPhysicalShares, MaxCarriers)
        /\ states' = Append(states, state)
        /\ allocated' = allocated \o <<semantic, history>>
        /\ next_carrier' = next_carrier + 2 * kPhysicalShares
    <3>1. loop' # "refused"
      BY <1>11
    <3> QED
      BY <1>7, <1>8, <1>9, <2>1, <3>1, Zenon DEF AddState
  <2>3. /\ next_carrier = CarrierAt(count + 1) /\ next_carrier \in Nat
        /\ next_carrier + kPhysicalShares = CarrierAt(count + 2)
        /\ next_carrier + kPhysicalShares \in Nat
        /\ \A n \in 1 .. count :
               Stored(allocated[n], CarrierAt(n)) /\ allocated[n].origin \in 0 .. MaxOrigin
    <3>1. next_carrier = CarrierAt(count + 1)
      BY <1>2, <1>3, Zenon DEF Allocations
    <3>2. /\ next_carrier \in Nat /\ next_carrier + kPhysicalShares = CarrierAt(count + 2)
      BY <1>6, <3>1, CarriersFollow, Zenon
    <3>3. next_carrier + kPhysicalShares \in Nat
      BY <3>2 DEF kPhysicalShares
    <3> QED
      BY <1>2, <1>3, <3>1, <3>2, <3>3, Zenon DEF Allocations
  <2>4. PICK longer : longer = allocated \o <<semantic, history>>
    OBVIOUS
  <2>5. /\ Len(longer) = count + 2
        /\ longer[count + 1] = semantic /\ longer[count + 2] = history
        /\ \A n \in 1 .. count : longer[n] = allocated[n]
    BY <1>3, <1>5, <2>4, PairAppendedAt
  <2>6. second \in 0 .. MaxOrigin
    BY <1>5, <1>7, LimitsAssumption DEF OriginAfter
  <2>7. /\ Stored(semantic, CarrierAt(count + 1)) /\ semantic.origin \in 0 .. MaxOrigin
        /\ Stored(history, CarrierAt(count + 2)) /\ history.origin \in 0 .. MaxOrigin
    <3>1. Stored(semantic, next_carrier)
      BY <1>5, <1>8, <2>3, AllocatedStored
    <3>2. Stored(history, next_carrier + kPhysicalShares)
      BY <1>9, <2>3, <2>6, AllocatedStored
    <3>3. semantic.origin = next_origin /\ history.origin = second
      BY <1>8, <1>9 DEF Allocated
    <3> QED
      BY <1>5, <2>3, <2>6, <3>1, <3>2, <3>3, Zenon
  <2>8. ASSUME NEW n \in 1 .. (count + 2)
        PROVE  Stored(longer[n], CarrierAt(n)) /\ longer[n].origin \in 0 .. MaxOrigin
    <3>1. n \in 1 .. count \/ n = count + 1 \/ n = count + 2
      BY <1>6
    <3> QED
      BY <2>3, <2>5, <2>7, <3>1, Zenon
  <2>9. Allocations'
    <3>1. next_carrier' = CarrierAt((count + 2) + 1)
      BY <1>6, <2>2, <2>3, CarriersFollow, Zenon
    <3>2. next_carrier' <= MaxCarriers
      <4>1. (next_carrier + kPhysicalShares) + kPhysicalShares <= MaxCarriers
        BY <2>2, <2>3, RoomWithin, Zenon
      <4> QED
        BY <2>2, <2>3, <4>1 DEF kPhysicalShares
    <3>3. Len(allocated)' = count + 2
      BY <2>2, <2>4, <2>5, Zenon
    <3> QED
      BY <2>2, <2>4, <2>8, <3>1, <3>2, <3>3, Zenon DEF Allocations
  <2>10. FunctionValues' = FunctionValues /\ ValueCount' = ValueCount /\ (Admissible' <=> Admissible)
    BY <1>1, SameFunction, SameMaximum, Zenon DEF Admissible
  <2>11. ValuesFound'
    <3>1. Len(allocated)' = count + 2 /\ allocated' = longer
      BY <2>2, <2>4, <2>5, Zenon
    <3>2. ASSUME NEW i \in 1 .. (count + 2), i <= ValueCount
          PROVE  values[FunctionValues[i].id] = longer[i]
      <4>1. i \in 1 .. count
        BY <1>5, <1>6, <3>2
      <4> QED
        BY <1>2, <1>3, <2>5, <3>2, <4>1, Zenon DEF ValuesFound
    <3> QED
      BY <1>1, <2>10, <3>1, <3>2, Zenon DEF ValuesFound
  <2>12. StatesFound'
    <3>1. PICK more : more = Append(states, state)
      OBVIOUS
    <3>2. /\ IsSequence(more) /\ Len(more) = built + 1 /\ more[built + 1] = state
          /\ \A b \in 1 .. built : more[b] = states[b]
      BY <1>4, <1>5, <3>1, AppendedAt, AppendIsSequence, ZenonT(40)
    <3>3. IsSequence(states)' /\ Len(states)' = built + 1 /\ Len(allocated)' = count + 2
      BY <2>2, <2>4, <2>5, <3>1, <3>2, Zenon DEF IsSequence
    <3>4. count + 2 = ValueCount + 2 * (built + 1)
      BY <1>5, <1>6
    <3>5. ASSUME NEW b \in 1 .. (built + 1)
          PROVE  /\ more[b].semantic = longer[ValueCount + 2 * b - 1]
                 /\ more[b].history = longer[ValueCount + 2 * b]
      <4>1. CASE b \in 1 .. built
        <5>1. /\ states[b].semantic = allocated[ValueCount + 2 * b - 1]
              /\ states[b].history = allocated[ValueCount + 2 * b]
          BY <1>2, <1>4, <4>1, Zenon DEF StatesFound
        <5>2. ValueCount + 2 * b - 1 \in 1 .. count /\ ValueCount + 2 * b \in 1 .. count
          BY <1>5, <1>6, <4>1
        <5> QED
          BY <2>5, <3>2, <4>1, <5>1, <5>2, Zenon
      <4>2. CASE b = built + 1
        <5>1. ValueCount + 2 * b - 1 = count + 1 /\ ValueCount + 2 * b = count + 2
          BY <1>5, <1>6, <4>2
        <5>2. state.semantic = semantic /\ state.history = history
          BY <2>1
        <5> QED
          BY <2>5, <3>2, <4>2, <5>1, <5>2, Zenon
      <4> QED
        BY <1>6, <4>1, <4>2
    <3>6. states' = more /\ allocated' = longer
      BY <2>2, <2>4, <3>1, Zenon
    <3>7. loop' \notin {"verify", "values", "edges", "islands", "lowered"}
      BY <1>11
    <3> QED
      BY <2>10, <3>3, <3>4, <3>5, <3>6, <3>7 DEF StatesFound
  <2> QED
    BY <1>2, <2>9, <2>10, <2>11, <2>12, Zenon DEF CarriersKept
<1> QED
  BY <1>10, <1>11

\* Every other step allocates nothing.
LEMMA OthersKeepCarriers ==
    ASSUME LookupsSucceed, CarriersKept, LoweringNext, ~ AllocateValue, ~ AddState
    PROVE  CarriersKept'
<1>1. CASE Verify
  BY <1>1, CarriersFrame DEF Verify, AfterVerify
<1>2. CASE FinishValues
  <2>1. /\ loop = "values" /\ loop' = "edges" /\ Len(allocated) = ValueCount
        /\ UNCHANGED <<source, next_carrier, allocated, values, states>>
    BY <1>2 DEF FinishValues, ValueCount
  <2> QED
    BY <2>1, CarriersFrame
<1>3. CASE AddEdge
  <2>1. /\ UNCHANGED <<source, next_carrier, allocated, values, states>>
        /\ loop' \in {"refused", "threw"} \/ loop' = loop
    BY <1>3, Zenon DEF AddEdge
  <2> QED
    BY <2>1, CarriersFrame DEF AfterVerify
<1>4. CASE FinishEdges
  BY <1>4, CarriersFrame DEF FinishEdges
<1>5. CASE FinishStates
  BY <1>5, CarriersFrame DEF FinishStates
<1>6. CASE BeginIsland
  BY <1>6, CarriersFrame DEF BeginIsland
<1>7. CASE LowerAction
  BY <1>7, CarriersFrame DEF LowerAction, AfterVerify
<1>8. CASE CopyArgument
  <2>1. /\ UNCHANGED <<source, next_carrier, allocated, values, states>>
        /\ loop' = "threw" \/ loop' = loop
    BY <1>8, Zenon DEF CopyArgument
  <2> QED
    BY <2>1, CarriersFrame DEF AfterVerify
<1>9. CASE FinishBlock
  <2>1. /\ UNCHANGED <<source, next_carrier, allocated, values, states>>
        /\ loop' \in {"refused", "threw"} \/ loop' = loop
    BY <1>9, Zenon DEF FinishBlock, FinishIsland
  <2> QED
    BY <2>1, CarriersFrame DEF AfterVerify
<1>10. CASE FinishEdge
  <2>1. /\ UNCHANGED <<source, next_carrier, allocated, values, states>>
        /\ loop' \in {"refused", "threw"} \/ loop' = loop
    BY <1>10, Zenon DEF FinishEdge, FinishIsland
  <2> QED
    BY <2>1, CarriersFrame DEF AfterVerify
<1>11. CASE FinishLowering
  BY <1>11, CarriersFrame DEF FinishLowering
<1> QED
  BY <1>1, <1>2, <1>3, <1>4, <1>5, <1>6, <1>7, <1>8, <1>9, <1>10, <1>11 DEF LoweringNext

\* What is allocated is where it is looked for, whatever has been lowered.
THEOREM CarriersHold == LoweringSpec => []CarriersKept
<1>1. LoweringInit => CarriersKept
  BY CarriersInit
<1>2. LookupsSucceed /\ OriginsInOrder /\ CarriersKept /\ [LoweringNext]_loweringVars
          => CarriersKept'
  <2> SUFFICES ASSUME LookupsSucceed, OriginsInOrder, CarriersKept, [LoweringNext]_loweringVars
               PROVE  CarriersKept'
    OBVIOUS
  <2>1. CASE AllocateValue
    BY <2>1, AllocateValueCarriers
  <2>2. CASE AddState
    BY <2>2, AddStateCarriers
  <2>3. CASE LoweringNext /\ ~ AllocateValue /\ ~ AddState
    BY <2>3, OthersKeepCarriers
  <2>4. CASE UNCHANGED loweringVars
    BY <2>4, CarriersFrame DEF loweringVars
  <2> QED
    BY <2>1, <2>2, <2>3, <2>4
<1> QED
  BY <1>1, <1>2, LookupsHold, OriginsKeepOrder, PTL DEF LoweringSpec

-----------------------------------------------------------------------------
(***************************************************************************)
(* What an island writes, by the places of the values.                     *)
(***************************************************************************)

\* The carriers of the values at some places.
Spans(places) == UNION {Span(CarrierAt(p)) : p \in places}

\* Values at different places share no carrier.
LEMMA SpansApart ==
    ASSUME NEW p \in Nat \ {0}, NEW places, places \subseteq Nat \ {0}, p \notin places
    PROVE  Spans(places) \cap Span(CarrierAt(p)) = {}
<1> SUFFICES ASSUME NEW c, c \in Spans(places), c \in Span(CarrierAt(p)) PROVE FALSE
  OBVIOUS
<1>1. PICK q \in places : c \in Span(CarrierAt(q))
  BY DEF Spans
<1>2. q \in Nat \ {0} /\ q # p
  BY <1>1
<1>3. c \in CarrierAt(q) .. (CarrierAt(q) + 2) /\ c \in CarrierAt(p) .. (CarrierAt(p) + 2)
  BY <1>1 DEF Span
<1> QED
  BY <1>2, <1>3 DEF CarrierAt, kFirstAllocatedCarrier, kPhysicalShares

\* They are above the ABI's.
LEMMA SpansAbove ==
    ASSUME NEW places, places \subseteq Nat \ {0}
    PROVE  Spans(places) \cap (0 .. 31) = {}
<1> SUFFICES ASSUME NEW c, c \in Spans(places), c \in 0 .. 31 PROVE FALSE
  OBVIOUS
<1>1. PICK q \in places : c \in Span(CarrierAt(q))
  BY DEF Spans
<1>2. q \in Nat \ {0}
  BY <1>1
<1>3. c \in CarrierAt(q) .. (CarrierAt(q) + 2)
  BY <1>1 DEF Span
<1> QED
  BY <1>2, <1>3 DEF CarrierAt, kFirstAllocatedCarrier, kPhysicalShares

\* One place more.
LEMMA SpansGrow ==
    ASSUME NEW places, NEW p
    PROVE  Spans(places \cup {p}) = Spans(places) \cup Span(CarrierAt(p))
BY DEF Spans

\* Where a value of a block is among the function's.
LEMMA BlockValuePlaced ==
    ASSUME function_ \in MachineFunction, NEW b \in 1 .. BlockCount,
           NEW k \in 1 .. Len(ValuesOf(Blocks[b]))
    PROVE  /\ PlaceOfValue(function_, b, k) \in 1 .. ValueCount
           /\ FunctionValues[PlaceOfValue(function_, b, k)] = ValuesOf(Blocks[b])[k]
<1>1. b \in 1 .. Len(function_.blocks) /\ Blocks[b] = function_.blocks[b]
  BY DEF BlockCount, Blocks
<1>2. k \in 1 .. Len(ValuesOf(function_.blocks[b]))
  BY <1>1, Zenon
<1>3. /\ PlaceOfValue(function_, b, k) \in 1 .. Len(AllValues(function_))
      /\ AllValues(function_)[PlaceOfValue(function_, b, k)] = ValuesOf(function_.blocks[b])[k]
  BY <1>1, <1>2, AllValuesAt
<1> QED
  BY <1>1, <1>3, Zenon DEF FunctionValues, ValueCount

\* Those of its actions and of its parameters.
LEMMA OutputPlaced ==
    ASSUME function_ \in MachineFunction, NEW b \in 1 .. BlockCount,
           NEW n \in 1 .. Len(Blocks[b].actions), Produces(Blocks[b].actions[n])
    PROVE  LET p == PlaceOfValue(function_, b, PlaceOfOutput(Blocks[b], n))
           IN  p \in 1 .. ValueCount /\ FunctionValues[p] = Blocks[b].actions[n].output
<1>1. b \in 1 .. Len(function_.blocks) /\ Blocks[b] = function_.blocks[b]
  BY DEF BlockCount, Blocks
<1>2. Blocks[b] \in MachineBlock
  BY <1>1, BlockParts
<1>3. PICK k : k = PlaceOfOutput(Blocks[b], n)
  OBVIOUS
<1>4. /\ k \in 1 .. Len(ValuesOf(Blocks[b]))
      /\ ValuesOf(Blocks[b])[k] = Blocks[b].actions[n].output
  BY <1>2, <1>3, ValuesAt, Zenon
<1>5. /\ PlaceOfValue(function_, b, k) \in 1 .. ValueCount
      /\ FunctionValues[PlaceOfValue(function_, b, k)] = ValuesOf(Blocks[b])[k]
  BY <1>4, BlockValuePlaced
<1> QED
  BY <1>3, <1>4, <1>5, Zenon

LEMMA ParameterPlaced ==
    ASSUME function_ \in MachineFunction, NEW b \in 1 .. BlockCount,
           NEW n \in 1 .. Len(Blocks[b].parameters)
    PROVE  LET p == PlaceOfValue(function_, b, n)
           IN  p \in 1 .. ValueCount /\ FunctionValues[p] = Blocks[b].parameters[n]
<1>1. b \in 1 .. Len(function_.blocks) /\ Blocks[b] = function_.blocks[b]
  BY DEF BlockCount, Blocks
<1>2. Blocks[b] \in MachineBlock
  BY <1>1, BlockParts
<1>3. n \in 1 .. Len(ValuesOf(Blocks[b])) /\ ValuesOf(Blocks[b])[n] = Blocks[b].parameters[n]
  BY <1>2, ValuesAt, Zenon
<1>4. /\ PlaceOfValue(function_, b, n) \in 1 .. ValueCount
      /\ FunctionValues[PlaceOfValue(function_, b, n)] = ValuesOf(Blocks[b])[n]
  BY <1>3, BlockValuePlaced
<1> QED
  BY <1>3, <1>4, Zenon

\* Different values of a block have different places.
LEMMA ValuesOfBlockApart ==
    ASSUME function_ \in MachineFunction, NEW b \in 1 .. BlockCount,
           NEW k \in Nat, NEW j \in Nat,
           PlaceOfValue(function_, b, k) = PlaceOfValue(function_, b, j)
    PROVE  k = j
<1>1. PICK byBlock : byBlock = ValuesByBlock(function_)
  OBVIOUS
<1>2. b \in 1 .. Len(function_.blocks) /\ Len(function_.blocks) \in Nat
  BY DEF BlockCount, Blocks, MachineFunction
<1>3. byBlock \in Seq(Seq(IrValue)) /\ Len(byBlock) = Len(function_.blocks)
  <2>1. \A c \in 1 .. Len(function_.blocks) : ValuesOf(function_.blocks[c]) \in Seq(IrValue)
    BY BlockParts, ValuesAt, Zenon
  <2> HIDE DEF IrValue
  <2> QED
    BY <1>1, <1>2, <2>1 DEF ValuesByBlock
<1>4. PICK start : start = Starts(byBlock)[b - 1]
  OBVIOUS
<1>5. start \in Nat
  <2>1. \A c \in 0 .. Len(byBlock) : Starts(byBlock)[c] \in Nat
    BY <1>3, StartsSteps, Zenon
  <2>2. b - 1 \in 0 .. Len(byBlock)
    BY <1>2, <1>3
  <2> QED
    BY <1>4, <2>1, <2>2, Zenon
<1>6. start + k = start + j
  BY <1>1, <1>4, Zenon DEF PlaceOfValue
<1> QED
  BY <1>5, <1>6

\* So have the values of different actions.
LEMMA OutputsApart ==
    ASSUME function_ \in MachineFunction, NEW b \in 1 .. BlockCount,
           NEW n \in 1 .. Len(Blocks[b].actions), NEW m \in 1 .. Len(Blocks[b].actions),
           Produces(Blocks[b].actions[n]), Produces(Blocks[b].actions[m]),
           PlaceOfValue(function_, b, PlaceOfOutput(Blocks[b], n))
               = PlaceOfValue(function_, b, PlaceOfOutput(Blocks[b], m))
    PROVE  n = m
<1>1. PICK block : block = Blocks[b]
  OBVIOUS
<1>2. block \in MachineBlock
  BY <1>1, BlockParts DEF BlockCount, Blocks
<1>3. PICK outputs : outputs = OutputsOf(block)
  OBVIOUS
<1>4. /\ outputs \in Seq(Seq(IrValue)) /\ Len(outputs) = Len(block.actions)
      /\ Len(outputs[n]) = 1 /\ Len(outputs[m]) = 1
  BY <1>1, <1>2, <1>3, OutputsTyped
<1>5. /\ Len(block.parameters) \in Nat
      /\ Starts(outputs)[n - 1] \in Nat /\ Starts(outputs)[m - 1] \in Nat
  <2>1. Len(block.parameters) \in Nat /\ Len(block.actions) \in Nat
    BY <1>2, PartsOfBlock
  <2>2. \A c \in 0 .. Len(outputs) : Starts(outputs)[c] \in Nat
    BY <1>4, StartsSteps, Zenon
  <2>3. n - 1 \in 0 .. Len(outputs) /\ m - 1 \in 0 .. Len(outputs)
    BY <1>1, <1>4, <2>1, SMTT(30)
  <2> QED
    BY <2>1, <2>2, <2>3, Zenon
<1>6. PICK k : k = PlaceOfOutput(block, n)
  OBVIOUS
<1>7. PICK j : j = PlaceOfOutput(block, m)
  OBVIOUS
<1>8. PICK first : first = Len(block.parameters)
  OBVIOUS
<1>9. PICK nth : nth = Starts(outputs)[n - 1]
  OBVIOUS
<1>10. PICK mth : mth = Starts(outputs)[m - 1]
  OBVIOUS
<1>11. k = first + (nth + 1) /\ j = first + (mth + 1)
  BY <1>3, <1>6, <1>7, <1>8, <1>9, <1>10, Zenon DEF PlaceOfOutput
<1>12. first \in Nat /\ nth \in Nat /\ mth \in Nat
  BY <1>5, <1>8, <1>9, <1>10, Zenon
<1>13. k \in Nat /\ j \in Nat
  BY <1>11, <1>12
<1>14. k = j
  BY <1>1, <1>6, <1>7, <1>13, ValuesOfBlockApart, Zenon
<1>15. nth + 1 = mth + 1
  BY <1>11, <1>12, <1>14
<1>16. 1 \in 1 .. 1
  OBVIOUS
<1> QED
  BY <1>1, <1>4, <1>9, <1>10, <1>15, <1>16, PlacesUnique, ZenonT(40)

\* Where an island's n-th item writes, and whether it does: an action that
\* produces a value, or any argument of an edge.
ItemPlace(i, n) ==
    IF i <= BlockCount THEN PlaceOfValue(function_, i, PlaceOfOutput(Blocks[i], n))
    ELSE PlaceOfValue(function_, TargetOf(edges[i - BlockCount]), n)

ItemWrites(i, n) == i <= BlockCount => Produces(Blocks[i].actions[n])

ItemsIn(i) ==
    IF i <= BlockCount THEN Len(Blocks[i].actions) ELSE Len(edges[i - BlockCount].arguments)

\* Where its first items write.
PlacesOf(i, count) == {ItemPlace(i, n) : n \in {n \in 1 .. count : ItemWrites(i, n)}}

\* The block whose state it leaves.
StateOf(i) == IF i <= BlockCount THEN i ELSE TargetOf(edges[i - BlockCount])

\* The edges that are lowered are those of the function.
LEMMA EdgeOfIsland ==
    ASSUME LookupsSucceed, loop \in {"islands", "lowered"}, NEW e \in 1 .. Len(edges)
    PROVE  /\ TargetOf(edges[e]) \in 1 .. BlockCount
           /\ Len(edges[e].arguments) \in Nat
           /\ Len(edges[e].arguments) = Len(Blocks[TargetOf(edges[e])].parameters)
           /\ edges[e].source \in 1 .. BlockCount
<1>1. /\ function_ \in MachineFunction /\ Verified(function_)
  BY TypedSource DEF LookupsSucceed, AfterVerify
<1>2. /\ Len(edges) = Len(FunctionEdges)
      /\ edges[e].source = FunctionEdges[e].source
      /\ edges[e].target = FunctionEdges[e].target
      /\ edges[e].arguments = FunctionEdges[e].arguments
  BY DEF LookupsSucceed, EdgesAgree, AfterEdges, AfterValues, AfterVerify
<1>3. e \in 1 .. Len(FunctionEdges)
  BY <1>2
<1>4. /\ FunctionEdges[e].target \in BlockIds(function_)
      /\ FunctionEdges[e].arguments \in Seq(Nat)
      /\ Len(FunctionEdges[e].arguments)
             = Len(Blocks[BlockIndex(function_, FunctionEdges[e].target)].parameters)
  BY <1>1, <1>3, EdgesBound, Zenon
<1>5. TargetOf(edges[e]) = BlockIndex(function_, FunctionEdges[e].target)
  BY <1>2, Zenon DEF TargetOf
<1>6. TargetOf(edges[e]) \in 1 .. BlockCount
  BY <1>1, <1>4, <1>5, TargetExists, Zenon DEF BlockCount, Blocks
<1>7. PICK arguments : arguments = edges[e].arguments
  OBVIOUS
<1>8. arguments \in Seq(Nat)
  BY <1>2, <1>4, <1>7, Zenon
<1>9. Len(arguments) \in Nat
  BY <1>8
<1>10. FunctionEdges[e].source \in 1 .. BlockCount
  BY <1>1, <1>3, FunctionEdgesAt, Zenon
<1> QED
  BY <1>2, <1>4, <1>5, <1>6, <1>7, <1>9, <1>10, Zenon

\* The numbers of an island.
LEMMA IslandNumbers ==
    ASSUME LookupsSucceed, loop \in {"islands", "lowered"}, NEW i \in 1 .. IslandCount
    PROVE  /\ BlockCount \in Nat /\ Len(edges) \in Nat /\ i \in Nat
           /\ i <= BlockCount => i \in 1 .. BlockCount
           /\ ~ i <= BlockCount => i - BlockCount \in 1 .. Len(edges)
           /\ StateOf(i) \in 1 .. BlockCount
           /\ ItemsIn(i) \in Nat
<1>1. /\ BlockCount \in Nat /\ Len(edges) \in Nat /\ function_ \in MachineFunction
  BY TypedSource, OriginNumbers
<1>2. /\ i \in Nat /\ (i <= BlockCount => i \in 1 .. BlockCount)
      /\ (~ i <= BlockCount => i - BlockCount \in 1 .. Len(edges))
  BY <1>1 DEF IslandCount
<1>3. CASE i <= BlockCount
  <2>1. StateOf(i) = i /\ ItemsIn(i) = Len(Blocks[i].actions)
    BY <1>3, Zenon DEF StateOf, ItemsIn
  <2>2. Blocks[i] \in MachineBlock
    BY <1>1, <1>2, <1>3, BlockParts, Zenon DEF Blocks, BlockCount
  <2>3. Len(Blocks[i].actions) \in Nat
    BY <2>2, PartsOfBlock
  <2> QED
    BY <1>1, <1>2, <1>3, <2>1, <2>3, Zenon
<1>4. CASE ~ i <= BlockCount
  <2>1. PICK e : e = i - BlockCount
    OBVIOUS
  <2>2. StateOf(i) = TargetOf(edges[e]) /\ ItemsIn(i) = Len(edges[e].arguments)
    BY <1>4, <2>1, Zenon DEF StateOf, ItemsIn
  <2>3. e \in 1 .. Len(edges)
    BY <1>2, <1>4, <2>1
  <2> QED
    BY <1>1, <1>2, <1>4, <2>2, <2>3, EdgeOfIsland, Zenon
<1> QED
  BY <1>3, <1>4

\* Items write values of the function.
LEMMA ItemPlaced ==
    ASSUME LookupsSucceed, loop \in {"islands", "lowered"}, NEW i \in 1 .. IslandCount,
           NEW n \in 1 .. ItemsIn(i), ItemWrites(i, n)
    PROVE  /\ ItemPlace(i, n) \in 1 .. ValueCount
           /\ i <= BlockCount => FunctionValues[ItemPlace(i, n)] = Blocks[i].actions[n].output
           /\ ~ i <= BlockCount =>
                  FunctionValues[ItemPlace(i, n)]
                      = Blocks[TargetOf(edges[i - BlockCount])].parameters[n]
<1>1. function_ \in MachineFunction
  BY TypedSource
<1>2. CASE i <= BlockCount
  <2>1. /\ i \in 1 .. BlockCount
        /\ ItemPlace(i, n) = PlaceOfValue(function_, i, PlaceOfOutput(Blocks[i], n))
        /\ n \in 1 .. Len(Blocks[i].actions) /\ Produces(Blocks[i].actions[n])
    BY <1>2, IslandNumbers, Zenon DEF ItemPlace, ItemsIn, ItemWrites
  <2> QED
    BY <1>1, <1>2, <2>1, OutputPlaced, Zenon
<1>3. CASE ~ i <= BlockCount
  <2>1. PICK e : e = i - BlockCount
    OBVIOUS
  <2>2. PICK b : b = TargetOf(edges[e])
    OBVIOUS
  <2>3. e \in 1 .. Len(edges)
    BY <1>3, <2>1, IslandNumbers
  <2>4. b \in 1 .. BlockCount /\ Len(edges[e].arguments) = Len(Blocks[b].parameters)
    BY <2>2, <2>3, EdgeOfIsland, Zenon
  <2>5. ItemPlace(i, n) = PlaceOfValue(function_, b, n) /\ n \in 1 .. Len(Blocks[b].parameters)
    BY <1>3, <2>1, <2>2, <2>4, Zenon DEF ItemPlace, ItemsIn
  <2> QED
    BY <1>1, <1>3, <2>1, <2>2, <2>4, <2>5, ParameterPlaced, Zenon
<1> QED
  BY <1>2, <1>3

\* Different items write different values.
LEMMA ItemsApart ==
    ASSUME LookupsSucceed, loop \in {"islands", "lowered"}, NEW i \in 1 .. IslandCount,
           NEW n \in 1 .. ItemsIn(i), NEW m \in 1 .. ItemsIn(i),
           ItemWrites(i, n), ItemWrites(i, m), ItemPlace(i, n) = ItemPlace(i, m)
    PROVE  n = m
<1>1. function_ \in MachineFunction
  BY TypedSource
<1>2. CASE i <= BlockCount
  <2>1. /\ i \in 1 .. BlockCount
        /\ ItemPlace(i, n) = PlaceOfValue(function_, i, PlaceOfOutput(Blocks[i], n))
        /\ ItemPlace(i, m) = PlaceOfValue(function_, i, PlaceOfOutput(Blocks[i], m))
        /\ n \in 1 .. Len(Blocks[i].actions) /\ Produces(Blocks[i].actions[n])
        /\ m \in 1 .. Len(Blocks[i].actions) /\ Produces(Blocks[i].actions[m])
    BY <1>2, IslandNumbers, Zenon DEF ItemPlace, ItemsIn, ItemWrites
  <2> QED
    BY <1>1, <2>1, OutputsApart, Zenon
<1>3. CASE ~ i <= BlockCount
  <2>1. PICK e : e = i - BlockCount
    OBVIOUS
  <2>2. PICK b : b = TargetOf(edges[e])
    OBVIOUS
  <2>3. e \in 1 .. Len(edges)
    BY <1>3, <2>1, IslandNumbers
  <2>4. b \in 1 .. BlockCount
    BY <2>2, <2>3, EdgeOfIsland, Zenon
  <2>5. /\ ItemPlace(i, n) = PlaceOfValue(function_, b, n)
        /\ ItemPlace(i, m) = PlaceOfValue(function_, b, m)
    BY <1>3, <2>1, <2>2, Zenon DEF ItemPlace
  <2>6. n \in Nat /\ m \in Nat
    BY IslandNumbers
  <2> QED
    BY <1>1, <2>4, <2>5, <2>6, ValuesOfBlockApart, Zenon
<1> QED
  BY <1>2, <1>3

\* One item more.
LEMMA PlacesNext ==
    ASSUME NEW i, NEW n \in Nat
    PROVE  /\ ItemWrites(i, n + 1) => PlacesOf(i, n + 1) = PlacesOf(i, n) \cup {ItemPlace(i, n + 1)}
           /\ ~ ItemWrites(i, n + 1) => PlacesOf(i, n + 1) = PlacesOf(i, n)
<1>1. 1 .. (n + 1) = (1 .. n) \cup {n + 1}
  OBVIOUS
<1> QED
  BY <1>1 DEF PlacesOf

\* It writes where none before it wrote.
LEMMA ItemIsNew ==
    ASSUME LookupsSucceed, loop \in {"islands", "lowered"}, NEW i \in 1 .. IslandCount,
           NEW n \in 0 .. (ItemsIn(i) - 1), ItemWrites(i, n + 1)
    PROVE  /\ ItemPlace(i, n + 1) \notin PlacesOf(i, n)
           /\ PlacesOf(i, n) \subseteq 1 .. ValueCount
<1>1. ItemsIn(i) \in Nat
  BY IslandNumbers
<1>2. n + 1 \in 1 .. ItemsIn(i) /\ n \in Nat
  BY <1>1
<1>3. ASSUME NEW m \in 1 .. n PROVE m \in 1 .. ItemsIn(i) /\ m # n + 1
  BY <1>1, <1>2
<1>4. ASSUME ItemPlace(i, n + 1) \in PlacesOf(i, n) PROVE FALSE
  <2>1. PICK m \in 1 .. n : ItemWrites(i, m) /\ ItemPlace(i, n + 1) = ItemPlace(i, m)
    BY <1>4 DEF PlacesOf
  <2> QED
    BY <1>2, <1>3, <2>1, ItemsApart, Zenon
<1>5. ASSUME NEW p \in PlacesOf(i, n) PROVE p \in 1 .. ValueCount
  <2>1. PICK m \in 1 .. n : ItemWrites(i, m) /\ p = ItemPlace(i, m)
    BY <1>5 DEF PlacesOf
  <2> QED
    BY <1>3, <2>1, ItemPlaced, Zenon
<1> QED
  BY <1>4, <1>5

\* All of what an island's items write are values of the function.
LEMMA PlacesAreValues ==
    ASSUME LookupsSucceed, loop \in {"islands", "lowered"}, NEW i \in 1 .. IslandCount,
           NEW count \in 0 .. ItemsIn(i)
    PROVE  PlacesOf(i, count) \subseteq 1 .. ValueCount
<1>1. ItemsIn(i) \in Nat
  BY IslandNumbers
<1>2. ASSUME NEW p \in PlacesOf(i, count) PROVE p \in 1 .. ValueCount
  <2>1. PICK m \in 1 .. count : ItemWrites(i, m) /\ p = ItemPlace(i, m)
    BY <1>2 DEF PlacesOf
  <2>2. m \in 1 .. ItemsIn(i)
    BY <1>1
  <2> QED
    BY <2>1, <2>2, ItemPlaced, Zenon
<1> QED
  BY <1>2

\* How many values are allocated when the islands are lowered, and the carriers.
LEMMA AllocatedAtIslands ==
    ASSUME LookupsSucceed, CarriersKept, loop \in {"islands", "lowered"}
    PROVE  /\ ValueCount \in Nat /\ BlockCount \in Nat /\ 1 <= BlockCount
           /\ Len(allocated) = ValueCount + 2 * BlockCount /\ Len(states) = BlockCount
           /\ next_carrier = CarrierAt(Len(allocated) + 1)
           /\ next_carrier \in 0 .. MaxCarriers /\ kFirstAllocatedCarrier <= next_carrier
           /\ \A p \in 1 .. Len(allocated) :
                  /\ Placed(allocated[p], CarrierAt(p), next_carrier)
                  /\ allocated[p].origin \in 0 .. MaxOrigin
<1>1. Allocations /\ ValuesFound /\ StatesFound
  BY DEF CarriersKept, AfterVerify
<1>2. ValueCount \in Nat /\ BlockCount \in Nat /\ Verified(function_)
  BY TypedSource, OriginNumbers DEF LookupsSucceed, AfterVerify
<1>3. 1 <= BlockCount
  <2>1. function_.blocks # << >> /\ function_ \in MachineFunction
    BY <1>2, TypedSource, Zenon DEF Verified
  <2>2. function_.blocks \in Seq(MachineBlock)
    BY <2>1 DEF MachineFunction
  <2>3. PICK blocks : blocks = function_.blocks
    OBVIOUS
  <2>4. blocks \in Seq(MachineBlock) /\ blocks # << >>
    BY <2>1, <2>2, <2>3, Zenon
  <2> HIDE DEF MachineBlock
  <2>5. Len(blocks) # 0
    BY <2>4, EmptyOfLength, Zenon
  <2> QED
    BY <1>2, <2>3, <2>5 DEF BlockCount, Blocks
<1>4. Len(allocated) = ValueCount + 2 * BlockCount /\ Len(states) = BlockCount
  BY <1>1 DEF StatesFound, AfterValues, AfterVerify
<1>5. PICK count : count = Len(allocated)
  OBVIOUS
<1>6. count \in Nat /\ count # 0
  BY <1>2, <1>3, <1>4, <1>5
<1>7. next_carrier = CarrierAt(count + 1) /\ next_carrier <= MaxCarriers
  BY <1>1, <1>5, <1>6 DEF Allocations
<1>8. next_carrier \in 0 .. MaxCarriers /\ kFirstAllocatedCarrier <= next_carrier
  <2>1. next_carrier \in Nat /\ kFirstAllocatedCarrier <= next_carrier
    BY <1>6, <1>7 DEF CarrierAt, kFirstAllocatedCarrier, kPhysicalShares
  <2> QED
    BY <1>7, <2>1, LimitsAssumption
<1>9. ASSUME NEW p \in 1 .. count
      PROVE  Placed(allocated[p], CarrierAt(p), next_carrier) /\ allocated[p].origin \in 0 .. MaxOrigin
  <2>1. Stored(allocated[p], CarrierAt(p)) /\ allocated[p].origin \in 0 .. MaxOrigin
    BY <1>1, <1>5, Zenon DEF Allocations
  <2>2. CarrierAt(p) \in Nat /\ CarrierAt(p) + 3 <= next_carrier
    BY <1>6, <1>7 DEF CarrierAt, kFirstAllocatedCarrier, kPhysicalShares
  <2> QED
    BY <2>1, <2>2, Zenon DEF Placed
<1> QED
  BY <1>2, <1>3, <1>4, <1>5, <1>7, <1>8, <1>9, Zenon

\* A value is found by its id, at its place.
LEMMA ValueIsPlaced ==
    ASSUME LookupsSucceed, CarriersKept, loop \in {"islands", "lowered"},
           NEW p \in 1 .. ValueCount
    PROVE  /\ Placed(values[FunctionValues[p].id], CarrierAt(p), next_carrier)
           /\ values[FunctionValues[p].id].origin \in 0 .. MaxOrigin
           /\ values[FunctionValues[p].id] = allocated[p]
<1>1. p \in 1 .. Len(allocated) /\ p <= ValueCount
  BY AllocatedAtIslands
<1>2. values[FunctionValues[p].id] = allocated[p]
  BY <1>1, Zenon DEF CarriersKept, AfterVerify, ValuesFound
<1>3. Placed(allocated[p], CarrierAt(p), next_carrier) /\ allocated[p].origin \in 0 .. MaxOrigin
  BY <1>1, AllocatedAtIslands, Zenon
<1> QED
  BY <1>2, <1>3, Zenon

SemanticPlace(b) == ValueCount + 2 * b - 1
HistoryPlace(b) == ValueCount + 2 * b

\* A block's state is found by its place, above the values.
LEMMA StateIsPlaced ==
    ASSUME LookupsSucceed, CarriersKept, loop \in {"islands", "lowered"},
           NEW b \in 1 .. BlockCount
    PROVE  /\ Placed(states[b].semantic, CarrierAt(SemanticPlace(b)), next_carrier)
           /\ Placed(states[b].history, CarrierAt(HistoryPlace(b)), next_carrier)
           /\ states[b].semantic = allocated[SemanticPlace(b)]
           /\ states[b].history = allocated[HistoryPlace(b)]
           /\ SemanticPlace(b) \in Nat \ {0} /\ HistoryPlace(b) \in Nat \ {0}
           /\ ~ SemanticPlace(b) <= ValueCount /\ ~ HistoryPlace(b) <= ValueCount
           /\ SemanticPlace(b) # HistoryPlace(b)
<1>1. /\ ValueCount \in Nat /\ BlockCount \in Nat
      /\ Len(allocated) = ValueCount + 2 * BlockCount /\ Len(states) = BlockCount
  BY AllocatedAtIslands
<1>2. /\ SemanticPlace(b) \in 1 .. Len(allocated) /\ HistoryPlace(b) \in 1 .. Len(allocated)
      /\ SemanticPlace(b) \in Nat \ {0} /\ HistoryPlace(b) \in Nat \ {0}
      /\ ~ SemanticPlace(b) <= ValueCount /\ ~ HistoryPlace(b) <= ValueCount
      /\ SemanticPlace(b) # HistoryPlace(b)
  BY <1>1 DEF SemanticPlace, HistoryPlace
<1>3. /\ states[b].semantic = allocated[SemanticPlace(b)]
      /\ states[b].history = allocated[HistoryPlace(b)]
  <2>1. StatesFound /\ b \in 1 .. Len(states)
    BY <1>1 DEF CarriersKept, AfterVerify
  <2> QED
    BY <2>1, Zenon DEF StatesFound, SemanticPlace, HistoryPlace
<1>4. /\ Placed(allocated[SemanticPlace(b)], CarrierAt(SemanticPlace(b)), next_carrier)
      /\ Placed(allocated[HistoryPlace(b)], CarrierAt(HistoryPlace(b)), next_carrier)
  BY <1>2, AllocatedAtIslands, Zenon
<1> QED
  BY <1>2, <1>3, <1>4, Zenon

-----------------------------------------------------------------------------
(***************************************************************************)
(* The draft of an island is one the plans' verifier will accept, unless   *)
(* its ids have run out.                                                   *)
(***************************************************************************)

DraftSound ==
    loop = "islands" /\ draft # NoDraft =>
        /\ Sound(draft, next_carrier)
        /\ ~ draft.overflowed =>
               CarriersWritten(draft.carrier_writes) \subseteq Spans(PlacesOf(Index, draft.items))

\* An island begins by reading its state, and a block's with its parameters.
LEMMA BeginIslandSound ==
    ASSUME LookupsSucceed, LookupsSucceed', CarriersKept, BeginIsland
    PROVE  DraftSound'
<1>1. /\ loop = "islands" /\ loop' = "islands" /\ Index <= IslandCount /\ plans' = plans
      /\ source' = source /\ edges' = edges /\ next_carrier' = next_carrier
  BY DEF BeginIsland
<1>2. PICK carriers : carriers = next_carrier
  OBVIOUS
<1>3. carriers \in 0 .. MaxCarriers
  BY <1>1, <1>2, AllocatedAtIslands
<1>4. Index \in 1 .. IslandCount
  BY <1>1, AtAnIsland, OriginNumbers, TypedSource DEF IslandCount
<1>5. PICK b : b = IF IsBlock THEN Index ELSE Edge.source
  OBVIOUS
<1>6. b \in 1 .. BlockCount
  <2>1. CASE IsBlock
    BY <1>1, <1>4, <1>5, <2>1, IslandNumbers DEF IsBlock
  <2>2. CASE ~ IsBlock
    <3>1. Index - BlockCount \in 1 .. Len(edges)
      BY <1>1, <1>4, <2>2, IslandNumbers DEF IsBlock
    <3>2. PICK e : e = Index - BlockCount
      OBVIOUS
    <3>3. edges[e].source \in 1 .. BlockCount
      BY <1>1, <3>1, <3>2, EdgeOfIsland
    <3> QED
      BY <1>5, <2>2, <3>2, <3>3, Zenon DEF Edge
  <2> QED
    BY <2>1, <2>2
<1>7. PICK begun : begun = Begun(states[b])
  OBVIOUS
<1>8. draft' = IF IsBlock THEN WithParameters(begun, Block.parameters) ELSE begun
  BY <1>5, <1>7, ZenonT(40) DEF BeginIsland, Begun
<1>9. Sound(begun, carriers) /\ CarriersWritten(begun.carrier_writes) = {}
  <2>1. /\ Placed(states[b].semantic, CarrierAt(SemanticPlace(b)), carriers)
        /\ Placed(states[b].history, CarrierAt(HistoryPlace(b)), carriers)
    BY <1>1, <1>2, <1>6, StateIsPlaced
  <2> QED
    BY <1>3, <1>7, <2>1, BegunIsSound, Zenon
<1>10. PICK after : after = draft'
  OBVIOUS
<1>11. /\ Sound(after, carriers)
       /\ ~ after.overflowed => CarriersWritten(after.carrier_writes) = {}
  <2>1. CASE IsBlock
    <3>1. PICK parameters : parameters = Block.parameters
      OBVIOUS
    <3>2. parameters \in Seq(IrValue)
      BY <1>1, <2>1, <3>1, AtAnIsland, PartsOfBlock, Zenon
    <3>3. ASSUME NEW n \in 1 .. Len(parameters)
          PROVE  \E at : Placed(values[parameters[n].id], at, carriers)
      <4>1. function_ \in MachineFunction /\ Index \in 1 .. BlockCount
        BY <1>1, <1>5, <1>6, <2>1, AtAnIsland
      <4>2. PICK p : p = PlaceOfValue(function_, Index, n)
        OBVIOUS
      <4>3. p \in 1 .. ValueCount /\ FunctionValues[p] = parameters[n]
        BY <3>1, <4>1, <4>2, ParameterPlaced, Zenon DEF Block
      <4>4. Placed(values[FunctionValues[p].id], CarrierAt(p), carriers)
        BY <1>1, <1>2, <4>3, ValueIsPlaced
      <4> QED
        BY <4>3, <4>4, Zenon
    <3>4. SoundStep(begun, WithParameters(begun, parameters), carriers, {})
      BY <1>3, <1>9, <3>2, <3>3, WithParametersIsSound
    <3>5. after = WithParameters(begun, parameters)
      BY <1>8, <1>10, <2>1, <3>1, Zenon
    <3>6. {} \cup {} = {}
      OBVIOUS
    <3> QED
      BY <1>9, <3>4, <3>5, <3>6, Zenon DEF SoundStep
  <2>2. CASE ~ IsBlock
    BY <1>8, <1>9, <1>10, <2>2, Zenon
  <2> QED
    BY <2>1, <2>2
<1> QED
  BY <1>1, <1>2, <1>10, <1>11 DEF DraftSound

-----------------------------------------------------------------------------
(***************************************************************************)
(* Lowering an action keeps the draft sound.                               *)
(***************************************************************************)

\* No action's origin is above the largest there is.
LEMMA ActionOriginBound ==
    ASSUME LookupsSucceed, NEW b \in 1 .. BlockCount, NEW n \in 1 .. Len(Blocks[b].actions)
    PROVE  action_origin(Blocks[b].actions[n]) \in 0 .. MaxOrigin
<1>1. /\ function_ \in MachineFunction /\ b \in 1 .. Len(function_.blocks)
      /\ Blocks[b] = function_.blocks[b] /\ MaxOrigin \in Nat
  BY TypedSource, LimitsAssumption DEF BlockCount, Blocks
<1>2. PICK block : block = Blocks[b]
  OBVIOUS
<1>3. block \in MachineBlock
  BY <1>1, <1>2, BlockParts
<1>4. PICK place : place = 1 + Len(block.parameters) + n
  OBVIOUS
<1>5. /\ place \in 1 .. Len(OriginsInBlock(block))
      /\ OriginsInBlock(block)[place] = action_origin(block.actions[n])
  <2>1. /\ Len(block.parameters) \in Nat /\ Len(block.actions) \in Nat
        /\ Len(OriginsInBlock(block)) = 1 + Len(block.parameters) + Len(block.actions)
        /\ OriginsInBlock(block)[1 + Len(block.parameters) + n]
               = action_origin(block.actions[n])
    BY <1>2, <1>3, OriginsInBlockAt
  <2>2. PICK before : before = Len(block.parameters)
    OBVIOUS
  <2>3. PICK count : count = Len(block.actions)
    OBVIOUS
  <2>4. PICK all : all = Len(OriginsInBlock(block))
    OBVIOUS
  <2>5. /\ before \in Nat /\ count \in Nat /\ all = 1 + before + count /\ n \in 1 .. count
        /\ place = 1 + before + n
    BY <1>2, <1>4, <2>1, <2>2, <2>3, <2>4, Zenon
  <2>6. place \in 1 .. all
    BY <2>5
  <2> QED
    BY <1>4, <2>1, <2>4, <2>6, <2>3, <2>5, <1>2, Zenon
<1>6. \E k \in 1 .. Len(OriginsOf(function_)) :
          OriginsOf(function_)[k] = OriginsInBlock(block)[place]
  BY <1>1, <1>2, <1>5, OriginAtPlace, Zenon
<1>7. \A k \in 1 .. Len(OriginsOf(function_)) : OriginsOf(function_)[k] <= MaxOrigin
  BY TypedSource
<1>8. action_origin(block.actions[n]) \in Nat
  <2>1. block.actions[n] \in TypedAction
    <3>1. block.actions \in Seq(TypedAction)
      BY <1>3, PartsOfBlock
    <3>2. n \in 1 .. Len(block.actions)
      BY <1>2
    <3> QED
      BY <3>1, <3>2
  <2> QED
    BY <2>1, PartsOfAction
<1>9. action_origin(block.actions[n]) <= MaxOrigin
  BY <1>5, <1>6, <1>7, Zenon
<1> QED
  BY <1>1, <1>2, <1>8, <1>9

\* What was let in has no more arguments than there are carriers for, and its constants
\* are words.
LEMMA AdmittedInputs ==
    ASSUME LookupsSucceed, CarriersKept, loop \in AfterVerify,
           NEW b \in 1 .. BlockCount, NEW n \in 1 .. Len(Blocks[b].actions)
    PROVE  /\ Len(function_.argument_domains) \in Nat
           /\ Len(function_.argument_domains) <= kMaximumArguments
           /\ Blocks[b].actions[n].immediate \in Word
           /\ Blocks[b].actions[n].immediate \in Nat
           /\ Blocks[b].actions[n] \in TypedAction
<1>1. /\ function_ \in MachineFunction /\ b \in 1 .. Len(function_.blocks)
      /\ Blocks[b] = function_.blocks[b] /\ source \in Sources
  BY TypedSource DEF BlockCount, Blocks, LookupsSucceed
<1>2. Len(function_.argument_domains) \in Nat
  BY <1>1 DEF MachineFunction
<1>3. Len(function_.argument_domains) <= kMaximumArguments
  BY Zenon DEF CarriersKept, Admissible
<1>4. PICK actions : actions = Blocks[b].actions
  OBVIOUS
<1>5. actions \in Seq(TypedAction)
  BY <1>1, <1>4, BlockParts, PartsOfBlock, Zenon
<1>6. actions[n] \in TypedAction /\ n \in DOMAIN actions
  BY <1>4, <1>5
<1>7. actions[n].immediate \in Word
  <2>1. b \in DOMAIN function_.blocks
    BY <1>1 DEF MachineFunction
  <2> QED
    BY <1>1, <1>4, <1>6, <2>1, ConstantsAssumption, Zenon DEF function_
<1>8. actions[n].immediate \in Nat
  BY <1>6 DEF TypedAction
<1> QED
  BY <1>2, <1>3, <1>4, <1>6, <1>7, <1>8, Zenon

\* An action the verifier let through fits a draft that has what is available to it.
LEMMA ActionIsFit ==
    ASSUME LookupsSucceed, CarriersKept, loop \in AfterVerify,
           NEW b \in 1 .. BlockCount, NEW n \in 1 .. Len(Blocks[b].actions),
           NEW d, Names(d), DOMAIN d.bindings = DOMAIN Available(Blocks[b], n)
    PROVE  Fit(d, Blocks[b].actions[n])
<1>1. /\ function_ \in MachineFunction /\ b \in 1 .. Len(function_.blocks)
      /\ Blocks[b] = function_.blocks[b] /\ Verified(function_)
  BY TypedSource DEF BlockCount, Blocks, LookupsSucceed
<1>2. PICK action : action = Blocks[b].actions[n]
  OBVIOUS
<1>3. /\ Len(function_.argument_domains) \in Nat
      /\ Len(function_.argument_domains) <= kMaximumArguments
      /\ action.immediate \in Word /\ action.immediate \in Nat /\ action \in TypedAction
  BY <1>2, AdmittedInputs
<1>4. /\ action.kind \in DOMAIN OperandCount
      /\ action.operands \in Seq(Nat)
      /\ Len(action.operands) = OperandCount[action.kind]
  BY <1>3, PartsOfAction
<1>5. ASSUME NEW i \in 1 .. OperandCount[action.kind]
      PROVE  NodeOf(d, d.bindings[action.operands[i]])
  <2>1. i \in DOMAIN action.operands
    BY <1>4
  <2>2. action.operands[i] \in DOMAIN d.bindings
    BY <1>1, <1>2, <2>1, OperandsAvailable, Zenon
  <2> QED
    BY <2>2, Zenon DEF Names
<1>6. ActionValid(function_, Blocks[b], n)
  BY <1>1, VerifiedBlocks, Zenon
<1>7. /\ action.kind = "Argument" => action.immediate < Len(function_.argument_domains)
      /\ action.kind = "Binary" => action.operation \in IntegerBinaryOperator
      /\ action.kind = "Compare" => action.immediate \in 0 .. 5
      /\ action.kind = "Store" => action.immediate \in {1, WordBytes}
  BY <1>2, <1>6 DEF ActionValid
<1>8. action.kind = "Argument" => action.immediate \in 0 .. (kMaximumArguments - 1)
  <2>1. kMaximumArguments \in Nat
    BY DEF kMaximumArguments
  <2> QED
    BY <1>3, <1>7, <2>1
<1>9. action_origin(action) \in 0 .. MaxOrigin
  BY <1>2, ActionOriginBound
<1> QED
  BY <1>2, <1>3, <1>4, <1>5, <1>7, <1>8, <1>9, Zenon DEF Fit

\* An action's nodes are added, and its value written where nothing was.
LEMMA LowerActionSound ==
    ASSUME LookupsSucceed, LookupsSucceed', CarriersKept, DraftSound, LowerAction
    PROVE  DraftSound'
<1>1. /\ loop = "islands" /\ draft # NoDraft /\ IsBlock /\ draft.items < Len(Block.actions)
      /\ plans' = plans /\ source' = source /\ edges' = edges /\ next_carrier' = next_carrier
  BY DEF LowerAction
<1>2. /\ DOMAIN draft = DraftFields /\ Index <= IslandCount
      /\ draft.items \in 0 .. Len(Block.actions)
      /\ DOMAIN draft.bindings = DOMAIN Available(Block, draft.items + 1)
  BY <1>1 DEF LookupsSucceed, DraftBound
<1>3. /\ Index \in 1 .. BlockCount /\ Index \in 1 .. IslandCount /\ Block = Blocks[Index]
      /\ ItemsIn(Index) = Len(Block.actions)
  <2>1. Index \in Nat \ {0}
    BY <1>1, AtAnIsland
  <2>2. Index \in 1 .. BlockCount /\ Index \in 1 .. IslandCount
    BY <1>1, <1>2, <2>1, TypedSource, OriginNumbers DEF IsBlock, IslandCount
  <2> QED
    BY <1>1, <2>2, Zenon DEF ItemsIn, Block, IsBlock
<1>4. PICK i : i = Index
  OBVIOUS
<1>5. PICK m : m = draft.items
  OBVIOUS
<1>6. ItemsIn(i) \in Nat
  BY <1>1, <1>3, <1>4, IslandNumbers
<1>7. m \in Nat /\ m + 1 \in 1 .. Len(Blocks[i].actions) /\ m \in 0 .. (ItemsIn(i) - 1)
  BY <1>1, <1>2, <1>3, <1>4, <1>5, <1>6
<1>8. PICK action : action = Blocks[i].actions[m + 1]
  OBVIOUS
<1>9. PICK carriers : carriers = next_carrier
  OBVIOUS
<1>10. carriers \in 0 .. MaxCarriers /\ kFirstAllocatedCarrier <= carriers
  BY <1>1, <1>9, AllocatedAtIslands
<1>11. /\ Sound(draft, carriers)
       /\ ~ draft.overflowed =>
              CarriersWritten(draft.carrier_writes) \subseteq Spans(PlacesOf(i, m))
  BY <1>1, <1>4, <1>5, <1>9, Zenon DEF DraftSound
<1>12. loop \in AfterVerify
  BY <1>1 DEF AfterVerify
<1>13. ~ draft.overflowed => Fit(draft, action)
  <2>1. ~ draft.overflowed => Names(draft)
    BY <1>11, Zenon DEF Sound
  <2>2. DOMAIN draft.bindings = DOMAIN Available(Blocks[i], m + 1) /\ i \in 1 .. BlockCount
    BY <1>2, <1>3, <1>4, <1>5
  <2> QED
    BY <1>7, <1>8, <1>12, <2>1, <2>2, ActionIsFit, Zenon
<1>14. action_origin(action) \in 0 .. MaxOrigin
  BY <1>3, <1>4, <1>7, <1>8, ActionOriginBound, Zenon
<1>15. \A k \in DOMAIN action.operands : action.operands[k] \in DOMAIN draft.bindings
  <2>1. /\ function_ \in MachineFunction /\ i \in 1 .. Len(function_.blocks)
        /\ Blocks[i] = function_.blocks[i] /\ Verified(function_)
    BY <1>3, <1>4, <1>12, TypedSource DEF BlockCount, Blocks, LookupsSucceed
  <2>2. \A k \in DOMAIN action.operands : action.operands[k] \in DOMAIN Available(Blocks[i], m + 1)
    BY <1>7, <1>8, <2>1, OperandsAvailable, Zenon
  <2> QED
    BY <1>2, <1>3, <1>4, <1>5, <2>2, Zenon
<1>16. PICK after : after = Lowered(draft, action)
  OBVIOUS
<1>17. draft' = after
  <2>1. LowerAction
    OBVIOUS
  <2>2. action = Block.actions[draft.items + 1]
    BY <1>3, <1>4, <1>5, <1>8
  <2> QED
    BY <1>15, <1>16, <2>1, <2>2, Zenon DEF LowerAction
<1>18. after.items = m + 1
  BY <1>2, <1>5, <1>16, LoweredBinds
<1>19. Produces(action) <=> ItemWrites(i, m + 1)
  BY <1>3, <1>4, <1>8 DEF ItemWrites
<1>20. PICK p : p = ItemPlace(i, m + 1)
  OBVIOUS
<1>21. PICK at : at = IF Produces(action) THEN CarrierAt(p) ELSE 0
  OBVIOUS
<1>22. Produces(action) =>
          /\ Placed(values[action.output.id], at, carriers)
          /\ p \in Nat \ {0}
          /\ Spans(PlacesOf(i, m)) \cap Span(at) = {}
          /\ Spans(PlacesOf(i, m + 1)) = Spans(PlacesOf(i, m)) \cup Span(at)
  <2> SUFFICES ASSUME Produces(action)
               PROVE  /\ Placed(values[action.output.id], at, carriers)
                      /\ p \in Nat \ {0}
                      /\ Spans(PlacesOf(i, m)) \cap Span(at) = {}
                      /\ Spans(PlacesOf(i, m + 1)) = Spans(PlacesOf(i, m)) \cup Span(at)
    OBVIOUS
  <2>1. ItemWrites(i, m + 1) /\ m + 1 \in 1 .. ItemsIn(i) /\ i \in 1 .. IslandCount
        /\ loop \in {"islands", "lowered"} /\ i <= BlockCount
    BY <1>1, <1>3, <1>4, <1>7, <1>19
  <2>2. p \in 1 .. ValueCount /\ FunctionValues[p] = action.output
    BY <1>8, <1>20, <2>1, ItemPlaced, Zenon
  <2>3. at = CarrierAt(p)
    BY <1>21
  <2>4. Placed(values[FunctionValues[p].id], CarrierAt(p), carriers)
    BY <1>9, <2>1, <2>2, ValueIsPlaced
  <2>5. p \notin PlacesOf(i, m) /\ PlacesOf(i, m) \subseteq 1 .. ValueCount
    BY <1>7, <1>20, <2>1, ItemIsNew, Zenon
  <2>6. p \in Nat \ {0} /\ PlacesOf(i, m) \subseteq Nat \ {0}
    BY <2>2, <2>5
  <2>7. Spans(PlacesOf(i, m)) \cap Span(CarrierAt(p)) = {}
    BY <2>5, <2>6, SpansApart, Zenon
  <2>8. PlacesOf(i, m + 1) = PlacesOf(i, m) \cup {p}
    BY <1>7, <1>20, <2>1, PlacesNext, Zenon
  <2>9. Spans(PlacesOf(i, m + 1)) = Spans(PlacesOf(i, m)) \cup Span(CarrierAt(p))
    BY <2>8, SpansGrow, Zenon
  <2> QED
    BY <2>2, <2>3, <2>4, <2>6, <2>7, <2>9, Zenon
<1>23. PICK written : written = IF Produces(action) THEN Span(at) ELSE {}
  OBVIOUS
<1>24. ASSUME ~ draft.overflowed
       PROVE  SoundStep(draft, after, carriers, written)
  <2>1. at \in Nat
    BY <1>21, <1>22, Zenon DEF Placed
  <2>2. Produces(action) =>
            /\ at + 3 <= carriers /\ Stored(values[action.output.id], at)
            /\ CarriersWritten(draft.carrier_writes) \cap Span(at) = {}
    <3>1. Produces(action) => CarriersWritten(draft.carrier_writes) \cap Span(at) = {}
      BY <1>11, <1>22, <1>24
    <3> QED
      BY <1>22, <3>1, Zenon DEF Placed
  <2>3. ~ Produces(action) => action.kind = "Store"
    BY DEF Produces
  <2> QED
    BY <1>10, <1>11, <1>13, <1>14, <1>16, <1>23, <2>1, <2>2, <2>3, LoweredIsSound, Zenon
<1>25. ASSUME draft.overflowed
       PROVE  Sound(after, carriers) /\ after.overflowed
  <2>1. IsDraft(draft) /\ DOMAIN draft = DraftFields
    BY <1>11, Zenon DEF Sound
  <2>2. IsDraft(after) /\ (~ after.overflowed => ~ draft.overflowed)
    BY <1>16, <2>1, LoweredIsDraft, Zenon
  <2>3. DOMAIN after = DraftFields
    BY <1>16, <2>1, LoweredBinds
  <2> QED
    BY <1>25, <2>2, <2>3, Zenon DEF Sound
<1>26. PlacesOf(i, m + 1) = PlacesOf(i, m) \/ Produces(action)
  BY <1>7, <1>19, PlacesNext, Zenon
<1>27. Sound(after, carriers)
  BY <1>24, <1>25, Zenon DEF SoundStep
<1>28. ~ after.overflowed => CarriersWritten(after.carrier_writes) \subseteq Spans(PlacesOf(i, m + 1))
  <2> SUFFICES ASSUME ~ after.overflowed
               PROVE  CarriersWritten(after.carrier_writes) \subseteq Spans(PlacesOf(i, m + 1))
    OBVIOUS
  <2>1. ~ draft.overflowed
    BY <1>25
  <2>2. CarriersWritten(after.carrier_writes) = CarriersWritten(draft.carrier_writes) \cup written
    BY <1>24, <2>1, Zenon DEF SoundStep
  <2>3. CarriersWritten(draft.carrier_writes) \subseteq Spans(PlacesOf(i, m))
    BY <1>11, <2>1
  <2>4. CASE Produces(action)
    BY <1>22, <1>23, <2>2, <2>3, <2>4
  <2>5. CASE ~ Produces(action)
    BY <1>23, <1>26, <2>2, <2>3, <2>5
  <2> QED
    BY <2>4, <2>5
<1>29. Index' = i /\ next_carrier' = carriers /\ draft'.items = m + 1
  BY <1>1, <1>4, <1>9, <1>17, <1>18, SamePlace
<1>30. PlacesOf(i, m + 1)' = PlacesOf(i, m + 1)
  BY <1>1, SameFunction DEF PlacesOf, ItemPlace, ItemWrites, PlaceOfValue, TargetOf
<1> QED
  BY <1>17, <1>27, <1>28, <1>29, <1>30, Zenon DEF DraftSound

-----------------------------------------------------------------------------
(***************************************************************************)
(* Copying an argument over an edge keeps it sound.                        *)
(***************************************************************************)

\* Copying an argument leaves a draft, and counts the item.
LEMMA CopiedIsDraft ==
    ASSUME NEW d, IsDraft(d), DOMAIN d = DraftFields, NEW value, NEW to
    PROVE  /\ IsDraft(Copied(d, value, to)) /\ DOMAIN Copied(d, value, to) = DraftFields
           /\ ~ Copied(d, value, to).overflowed => ~ d.overflowed
           /\ Copied(d, value, to).items = d.items + 1
<1>1. PICK read : read = Reconstruct(d, value)
  OBVIOUS
<1>2. /\ IsDraft(read) /\ DOMAIN read = DraftFields /\ (~ read.overflowed => ~ d.overflowed)
      /\ read.items = d.items
  BY <1>1, ReconstructIsDraft, ReconstructKeeps, Zenon DEF Keeps
<1>3. PICK logical, semantic, history, salt, fold :
          Copied(d, value, to)
              = Folded(StageWrite(read, to, logical, semantic, history, salt), logical, fold)
  BY <1>1, Zenon DEF Copied
<1>4. PICK staged : staged = StageWrite(read, to, logical, semantic, history, salt)
  OBVIOUS
<1>5. /\ IsDraft(staged) /\ DOMAIN staged = DraftFields
      /\ ~ staged.overflowed => ~ read.overflowed
  BY <1>2, <1>4, StageWriteIsDraft
<1>6. staged.items = read.items
  <2>1. Keeps(read, StageWrite(read, to, logical, semantic, history, salt))
    BY <1>2, StageWriteKeeps
  <2> QED
    BY <1>4, <2>1, Zenon DEF Keeps
<1>7. PICK e : e = Folded(staged, logical, fold)
  OBVIOUS
<1>8. /\ IsDraft(e) /\ DOMAIN e = DraftFields /\ (~ e.overflowed => ~ staged.overflowed)
      /\ e.items = staged.items + 1
  BY <1>5, <1>7, FoldedIsDraft, FoldedCounts
<1> QED
  BY <1>2, <1>3, <1>4, <1>5, <1>6, <1>7, <1>8, Zenon

\* An argument is copied to where no argument before it was.
LEMMA CopyArgumentSound ==
    ASSUME LookupsSucceed, LookupsSucceed', CarriersKept, DraftSound, CopyArgument
    PROVE  DraftSound'
<1>1. /\ loop = "islands" /\ draft # NoDraft /\ ~ IsBlock /\ draft.items < Len(Edge.arguments)
      /\ plans' = plans /\ source' = source /\ edges' = edges /\ next_carrier' = next_carrier
  BY DEF CopyArgument
<1>2. /\ DOMAIN draft = DraftFields /\ Index <= IslandCount
      /\ draft.items \in 0 .. Len(Edge.arguments)
  BY <1>1 DEF LookupsSucceed, DraftBound
<1>3. Index \in 1 .. IslandCount
  <2>1. Index \in Nat \ {0}
    BY <1>1, AtAnIsland
  <2> QED
    BY <1>2, <2>1, TypedSource, OriginNumbers DEF IslandCount
<1>4. PICK i : i = Index
  OBVIOUS
<1>5. PICK e : e = i - BlockCount
  OBVIOUS
<1>6. ~ i <= BlockCount /\ e \in 1 .. Len(edges) /\ Edge = edges[e] /\ i \in 1 .. IslandCount
  <2>1. ~ i <= BlockCount /\ i \in 1 .. IslandCount
    BY <1>1, <1>3, <1>4 DEF IsBlock
  <2>2. i - BlockCount \in 1 .. Len(edges)
    BY <1>1, <2>1, IslandNumbers
  <2> QED
    BY <1>4, <1>5, <2>1, <2>2, Zenon DEF Edge
<1>7. PICK b : b = TargetOf(Edge)
  OBVIOUS
<1>8. PICK m : m = draft.items
  OBVIOUS
<1>9. PICK arguments : arguments = Edge.arguments
  OBVIOUS
<1>10. PICK parameters : parameters = Blocks[b].parameters
  OBVIOUS
<1>11. /\ b \in 1 .. BlockCount /\ Len(arguments) \in Nat /\ Len(arguments) = Len(parameters)
       /\ ItemsIn(i) = Len(arguments)
  <2>1. /\ TargetOf(edges[e]) \in 1 .. BlockCount
        /\ Len(edges[e].arguments) \in Nat
        /\ Len(edges[e].arguments) = Len(Blocks[TargetOf(edges[e])].parameters)
    BY <1>1, <1>6, EdgeOfIsland, Zenon
  <2>2. ItemsIn(i) = Len(edges[e].arguments)
    BY <1>5, <1>6, Zenon DEF ItemsIn
  <2> QED
    BY <1>6, <1>7, <1>9, <1>10, <2>1, <2>2, Zenon
<1>12. m \in Nat /\ m + 1 \in 1 .. Len(arguments) /\ m \in 0 .. (ItemsIn(i) - 1)
       /\ m + 1 <= Len(parameters) /\ m + 1 \in 1 .. ItemsIn(i)
  BY <1>1, <1>2, <1>8, <1>9, <1>11
<1>13. PICK carriers : carriers = next_carrier
  OBVIOUS
<1>14. carriers \in 0 .. MaxCarriers
  BY <1>1, <1>13, AllocatedAtIslands
<1>15. /\ Sound(draft, carriers)
       /\ ~ draft.overflowed =>
              CarriersWritten(draft.carrier_writes) \subseteq Spans(PlacesOf(i, m))
  BY <1>1, <1>4, <1>8, <1>13, Zenon DEF DraftSound
<1>16. PICK q \in 1 .. ValueCount : FunctionValues[q].id = arguments[m + 1]
  <2>1. PICK k \in 1 .. Len(FunctionEdges) : Edge.arguments = FunctionEdges[k].arguments
    BY <1>1, <1>2, AtAnIsland
  <2>2. function_ \in MachineFunction /\ Verified(function_)
    BY <1>1, AtAnIsland
  <2>3. \E q \in 1 .. Len(FunctionValues) : FunctionValues[q].id = FunctionEdges[k].arguments[m + 1]
    BY <1>9, <1>12, <2>1, <2>2, EdgesBound, Zenon
  <2> QED
    BY <1>9, <2>1, <2>3, Zenon DEF ValueCount
<1>17. PICK value : value = values[arguments[m + 1]]
  OBVIOUS
<1>18. Placed(value, CarrierAt(q), carriers) /\ arguments[m + 1] \in DOMAIN values
  <2>1. Placed(values[FunctionValues[q].id], CarrierAt(q), carriers)
    BY <1>1, <1>13, ValueIsPlaced
  <2>2. DOMAIN values = {FunctionValues[n].id : n \in 1 .. ValueCount}
    BY <1>1, AtAnIsland, Zenon DEF ValueCount
  <2> QED
    BY <1>16, <1>17, <2>1, <2>2, Zenon
<1>19. PICK p : p = ItemPlace(i, m + 1)
  OBVIOUS
<1>20. ItemWrites(i, m + 1)
  BY <1>6, Zenon DEF ItemWrites
<1>21. PICK to : to = values[parameters[m + 1].id]
  OBVIOUS
<1>22. /\ p \in 1 .. ValueCount
       /\ Placed(to, CarrierAt(p), carriers) /\ to.origin \in 0 .. MaxOrigin
  <2>1. loop \in {"islands", "lowered"}
    BY <1>1
  <2>2. p \in 1 .. ValueCount /\ FunctionValues[p] = parameters[m + 1]
    BY <1>5, <1>6, <1>7, <1>10, <1>12, <1>19, <1>20, <2>1, ItemPlaced, Zenon
  <2>3. /\ Placed(values[FunctionValues[p].id], CarrierAt(p), carriers)
        /\ values[FunctionValues[p].id].origin \in 0 .. MaxOrigin
    BY <1>13, <2>1, <2>2, ValueIsPlaced
  <2> QED
    BY <1>21, <2>2, <2>3, Zenon
<1>23. /\ Spans(PlacesOf(i, m)) \cap Span(CarrierAt(p)) = {}
       /\ Spans(PlacesOf(i, m + 1)) = Spans(PlacesOf(i, m)) \cup Span(CarrierAt(p))
  <2>1. p \notin PlacesOf(i, m) /\ PlacesOf(i, m) \subseteq 1 .. ValueCount
    BY <1>1, <1>6, <1>12, <1>19, <1>20, ItemIsNew
  <2>2. p \in Nat \ {0} /\ PlacesOf(i, m) \subseteq Nat \ {0}
    BY <1>22, <2>1
  <2>3. PlacesOf(i, m + 1) = PlacesOf(i, m) \cup {p}
    BY <1>12, <1>19, <1>20, PlacesNext, Zenon
  <2> QED
    BY <2>1, <2>2, <2>3, SpansApart, SpansGrow, Zenon
<1>24. PICK after : after = Copied(draft, value, to)
  OBVIOUS
<1>25. draft' = after
  <2>1. CopyArgument
    OBVIOUS
  <2>2. /\ arguments[draft.items + 1] \in DOMAIN values
        /\ draft.items + 1 <= Len(Blocks[TargetOf(Edge)].parameters)
    BY <1>7, <1>8, <1>10, <1>12, <1>18, Zenon
  <2>3. draft' = Folded(StageWrite(Reconstruct(draft, value), to, ReconstructedAt(draft),
                                   draft.semantic, draft.history,
                                   CompilerSalt(to.origin, "EDGEVAL")),
                        ReconstructedAt(draft), CompilerSalt(to.origin, "EDGEFOLD"))
    BY <1>1, <1>7, <1>8, <1>9, <1>10, <1>17, <1>21, <2>1, <2>2 DEF CopyArgument, ArgumentValue
  <2> QED
    BY <1>24, <2>3, Zenon DEF Copied
<1>26. SoundStep(draft, after, carriers, Span(CarrierAt(p)))
       \/ (draft.overflowed /\ after.overflowed /\ Sound(after, carriers))
  <2>1. CASE ~ draft.overflowed
    <3>1. CarriersWritten(draft.carrier_writes) \cap Span(CarrierAt(p)) = {}
      BY <1>15, <1>23, <2>1
    <3> QED
      BY <1>14, <1>15, <1>18, <1>22, <1>24, <3>1, CopiedIsSound, Zenon
  <2>2. CASE draft.overflowed
    <3>1. IsDraft(draft) /\ DOMAIN draft = DraftFields
      BY <1>15, Zenon DEF Sound
    <3>2. IsDraft(after) /\ DOMAIN after = DraftFields /\ (~ after.overflowed => ~ draft.overflowed)
      BY <1>24, <3>1, CopiedIsDraft, Zenon
    <3> QED
      BY <2>2, <3>2, Zenon DEF Sound
  <2> QED
    BY <2>1, <2>2
<1>27. Sound(after, carriers)
  BY <1>26, Zenon DEF SoundStep
<1>28. ~ after.overflowed => CarriersWritten(after.carrier_writes) \subseteq Spans(PlacesOf(i, m + 1))
  <2> SUFFICES ASSUME ~ after.overflowed
               PROVE  CarriersWritten(after.carrier_writes) \subseteq Spans(PlacesOf(i, m + 1))
    OBVIOUS
  <2>1. ~ draft.overflowed
        /\ CarriersWritten(after.carrier_writes)
               = CarriersWritten(draft.carrier_writes) \cup Span(CarrierAt(p))
    BY <1>26, Zenon DEF SoundStep
  <2>2. CarriersWritten(draft.carrier_writes) \subseteq Spans(PlacesOf(i, m))
    BY <1>15, <2>1
  <2> QED
    BY <1>23, <2>1, <2>2
<1>29. after.items = m + 1
  BY <1>8, <1>15, <1>24, CopiedIsDraft, Zenon DEF Sound
<1>30. Index' = i /\ next_carrier' = carriers /\ draft'.items = m + 1
  BY <1>1, <1>4, <1>13, <1>25, <1>29, SamePlace
<1>31. PlacesOf(i, m + 1)' = PlacesOf(i, m + 1)
  BY <1>1, SameFunction DEF PlacesOf, ItemPlace, ItemWrites, PlaceOfValue, TargetOf
<1> QED
  BY <1>25, <1>27, <1>28, <1>30, <1>31, Zenon DEF DraftSound

\* What is emitted of an island is sound, whatever it is.
LEMMA DraftStaysSound ==
    ASSUME LookupsSucceed, LookupsSucceed', CarriersKept, DraftSound, [LoweringNext]_loweringVars
    PROVE  DraftSound'
<1>1. CASE BeginIsland
  BY <1>1, BeginIslandSound
<1>2. CASE LowerAction
  BY <1>2, LowerActionSound
<1>3. CASE CopyArgument
  BY <1>3, CopyArgumentSound
<1>4. CASE Verify \/ AllocateValue \/ FinishValues \/ AddEdge \/ FinishEdges \/ AddState
  <2>1. loop' # "islands"
    BY <1>4 DEF Verify, AllocateValue, FinishValues, AddEdge, FinishEdges, AddState
  <2> QED
    BY <2>1, Zenon DEF DraftSound
<1>5. CASE FinishStates
  <2>1. draft' = NoDraft
    BY <1>5 DEF FinishStates, LookupsSucceed, DraftBound
  <2> QED
    BY <2>1, Zenon DEF DraftSound
<1>6. CASE FinishBlock \/ FinishEdge
  <2>1. draft' = NoDraft \/ loop' # "islands"
    BY <1>6, ZenonT(40) DEF FinishBlock, FinishEdge, FinishIsland
  <2> QED
    BY <2>1, Zenon DEF DraftSound
<1>7. CASE FinishLowering
  <2>1. loop' # "islands"
    BY <1>7 DEF FinishLowering
  <2> QED
    BY <2>1, Zenon DEF DraftSound
<1>8. CASE UNCHANGED loweringVars
  <2>1. /\ loop' = loop /\ draft' = draft /\ next_carrier' = next_carrier /\ source' = source
        /\ plans' = plans /\ edges' = edges
    BY <1>8 DEF loweringVars
  <2>2. Index' = Index
    BY <2>1, SamePlace
  <2>3. PlacesOf(Index, draft.items)' = PlacesOf(Index, draft.items)
    BY <2>1, <2>2, SameFunction DEF PlacesOf, ItemPlace, ItemWrites, PlaceOfValue, TargetOf
  <2> QED
    BY <2>1, <2>3, Zenon DEF DraftSound
<1> QED
  BY <1>1, <1>2, <1>3, <1>4, <1>5, <1>6, <1>7, <1>8 DEF LoweringNext

\* How many edges each block has.
EdgeCounts == [b \in 1 .. BlockCount |-> Len(EdgesOf(Blocks[b]))]

-----------------------------------------------------------------------------
(***************************************************************************)
(* The placeholders an island leaves, and the edges they are for.          *)
(***************************************************************************)

LEMMA EdgeCountsAre ==
    ASSUME function_ \in MachineFunction
    PROVE  /\ BlockCount \in Nat
           /\ \A b \in 1 .. BlockCount :
                  EdgeCounts[b] = Len(EdgesOf(Blocks[b])) /\ EdgeCounts[b] \in Nat
<1>1. BlockCount \in Nat
  BY DEF MachineFunction, BlockCount, Blocks
<1>2. ASSUME NEW b \in 1 .. BlockCount PROVE Len(EdgesOf(Blocks[b])) \in Nat
  <2>1. Blocks[b] \in MachineBlock
    BY BlockParts, Zenon DEF Blocks, BlockCount
  <2>2. PICK outgoing : outgoing = EdgesOf(Blocks[b])
    OBVIOUS
  <2>3. outgoing \in Seq(BlockEdge)
    BY <2>1, <2>2, EdgesTyped, Zenon
  <2>4. Len(outgoing) \in Nat
    BY <2>3
  <2> QED
    BY <2>2, <2>4, Zenon
<1> QED
  BY <1>1, <1>2, Zenon DEF EdgeCounts

\* The function's edges are as many as those of its blocks.
LEMMA EdgesCounted ==
    ASSUME function_ \in MachineFunction
    PROVE  Len(FunctionEdges) = Running(0, EdgeCounts, BlockCount)[BlockCount]
<1> DEFINE edge(b, e) == [source |-> b, target |-> EdgesOf(Blocks[b])[e].target,
                          arguments |-> EdgesOf(Blocks[b])[e].arguments]
           ofBlock(b) == [e \in 1 .. Len(EdgesOf(Blocks[b])) |-> edge(b, e)]
           byBlock == [b \in 1 .. BlockCount |-> ofBlock(b)]
<1>1. BlockCount \in Nat
  BY EdgeCountsAre
<1>2. ASSUME NEW b \in 1 .. BlockCount
      PROVE  /\ Len(EdgesOf(Blocks[b])) \in Nat
             /\ \A e \in 1 .. Len(EdgesOf(Blocks[b])) : edge(b, e) \in EdgeType
  <2>1. Blocks[b] \in MachineBlock
    BY BlockParts, Zenon DEF Blocks, BlockCount
  <2>2. /\ EdgesOf(Blocks[b]) \in Seq(BlockEdge)
        /\ \A e \in 1 .. Len(EdgesOf(Blocks[b])) :
               /\ EdgesOf(Blocks[b])[e].target \in Nat
               /\ EdgesOf(Blocks[b])[e].arguments \in Seq(Nat)
    BY <2>1, EdgesTyped
  <2>3. Len(EdgesOf(Blocks[b])) \in Nat /\ b \in Nat
    BY <1>1, <2>2
  <2> QED
    BY <2>2, <2>3 DEF EdgeType
<1>3. ASSUME NEW b \in 1 .. BlockCount
      PROVE  ofBlock(b) \in Seq(EdgeType) /\ Len(ofBlock(b)) = EdgeCounts[b]
  <2> HIDE DEF edge
  <2>1. EdgeCounts[b] = Len(EdgesOf(Blocks[b]))
    BY EdgeCountsAre
  <2> QED
    BY <1>2, <2>1
<1>4. /\ byBlock \in Seq(Seq(EdgeType)) /\ Len(byBlock) = BlockCount
      /\ \A b \in 1 .. BlockCount : byBlock[b] = ofBlock(b)
  <2> HIDE DEF ofBlock
  <2> QED
    BY <1>1, <1>3
<1>5. FunctionEdges = Seqs!FlattenSeq(byBlock)
  BY Zenon DEF FunctionEdges
<1>6. Joined(FunctionEdges, EdgeType, byBlock, Starts(byBlock), BlockCount)
  <2> HIDE DEF byBlock
  <2> QED
    BY <1>4, <1>5, Flattened, Zenon
<1>7. [b \in 1 .. BlockCount |-> Len(byBlock[b])] = EdgeCounts
  <2> HIDE DEF byBlock, ofBlock
  <2>1. ASSUME NEW b \in 1 .. BlockCount PROVE Len(byBlock[b]) = Len(EdgesOf(Blocks[b]))
    BY <1>3, <1>4, EdgeCountsAre, Zenon
  <2> QED
    BY <2>1, Zenon DEF EdgeCounts
<1>8. Starts(byBlock) = Running(0, EdgeCounts, BlockCount)
  <2> HIDE DEF byBlock
  <2> QED
    BY <1>4, <1>7, Zenon DEF Starts
<1> QED
  BY <1>6, <1>8, Zenon DEF Joined

\* The running total of fewer sizes is that of all of them, so far.
LEMMA RunningOfFewer ==
    ASSUME NEW count \in Nat, NEW few \in 0 .. count, NEW sizes, NEW fewer,
           \A n \in 1 .. count : sizes[n] \in Nat,
           \A n \in 1 .. few : fewer[n] = sizes[n]
    PROVE  Running(0, fewer, few)[few] = Running(0, sizes, count)[few]
<1>1. PICK end : end = Running(0, sizes, count)
  OBVIOUS
<1>2. PICK other : other = Running(0, fewer, few)
  OBVIOUS
<1>3. few \in Nat /\ \A n \in 1 .. few : n \in 1 .. count /\ fewer[n] \in Nat
  OBVIOUS
<1>4. end[0] = 0 /\ \A n \in 1 .. count : end[n] = end[n - 1] + sizes[n]
  BY <1>1, RunningSteps
<1>5. other[0] = 0 /\ \A n \in 1 .. few : other[n] = other[n - 1] + fewer[n]
  <2>1. \A n \in 1 .. few : fewer[n] \in Nat
    BY <1>3
  <2> QED
    BY <1>2, <1>3, <2>1, RunningSteps
<1> DEFINE Same == {k \in 0 .. few : other[k] = end[k]}
<1>6. 0 \in Same
  BY <1>4, <1>5
<1>7. ASSUME NEW k \in 1 .. few, k - 1 \in Same PROVE k \in Same
  <2>1. other[k - 1] = end[k - 1] /\ k \in 1 .. count
    BY <1>3, <1>7
  <2>2. other[k] = end[k]
    BY <1>4, <1>5, <2>1, Zenon
  <2> QED
    BY <2>2
<1>8. Same = 0 .. few
  <2>1. Same \in SUBSET (0 .. few)
    OBVIOUS
  <2> HIDE DEF Same
  <2> QED
    BY <1>3, <1>6, <1>7, <2>1, UpTo, Zenon
<1>9. few \in Same
  BY <1>8
<1> QED
  BY <1>1, <1>2, <1>9

\* The islands a block leads to are islands there are.
LEMMA OutgoingBound ==
    ASSUME LookupsSucceed, loop \in {"islands", "lowered"}, NEW b \in 1 .. BlockCount
    PROVE  /\ Len(Outgoing(b)) = Len(EdgesOf(Blocks[b]))
           /\ \A e \in 1 .. Len(EdgesOf(Blocks[b])) : Outgoing(b)[e] \in 1 .. IslandCount
<1>1. /\ function_ \in MachineFunction /\ BlockCount \in Nat
      /\ Len(edges) = Len(FunctionEdges)
  BY TypedSource DEF LookupsSucceed, EdgesAgree, AfterEdges, AfterValues, AfterVerify
<1>2. PICK end : end = Running(0, EdgeCounts, BlockCount)
  OBVIOUS
<1>3. \A c \in 1 .. BlockCount :
          EdgeCounts[c] = Len(EdgesOf(Blocks[c])) /\ EdgeCounts[c] \in Nat
  BY <1>1, EdgeCountsAre
<1>4. Len(edges) = end[BlockCount]
  BY <1>1, <1>2, EdgesCounted, Zenon
<1>5. /\ \A n \in 1 .. BlockCount : end[n] = end[n - 1] + EdgeCounts[n]
      /\ \A n \in 0 .. BlockCount : end[n] \in Nat
  BY <1>1, <1>2, <1>3, RunningSteps
<1>6. \A n \in 0 .. BlockCount : end[n] <= end[BlockCount]
  BY <1>1, <1>2, <1>3, RunningGrows
<1>7. EdgesBefore(b) = end[b - 1]
  <2>1. PICK few : few = b - 1
    OBVIOUS
  <2>2. PICK fewer : fewer = [c \in 1 .. few |-> Len(EdgesOf(Blocks[c]))]
    OBVIOUS
  <2>3. few \in 0 .. BlockCount /\ few \in Nat
    BY <1>1, <2>1
  <2>4. Len(fewer) = few
    BY <2>2, <2>3
  <2>5. \A n \in 1 .. few : fewer[n] = EdgeCounts[n]
    <3>1. \A n \in 1 .. few : n \in 1 .. BlockCount
      BY <1>1, <2>3
    <3> QED
      BY <1>3, <2>2, <3>1, Zenon
  <2>6. Total(fewer) = Running(0, fewer, few)[few]
    BY <2>4, Zenon DEF Total, Running, IsRunning
  <2>7. Running(0, fewer, few)[few] = Running(0, EdgeCounts, BlockCount)[few]
    <3>1. \A n \in 1 .. BlockCount : EdgeCounts[n] \in Nat
      BY <1>3
    <3> QED
      BY <1>1, <2>3, <2>5, <3>1, RunningOfFewer, Zenon
  <2>8. EdgesBefore(b) = Total(fewer)
    BY <2>1, <2>2, Zenon DEF EdgesBefore
  <2> QED
    BY <1>2, <2>1, <2>6, <2>7, <2>8, Zenon
<1>8. PICK count : count = Len(EdgesOf(Blocks[b]))
  OBVIOUS
<1>9. PICK before : before = EdgesBefore(b)
  OBVIOUS
<1>10. PICK blocks : blocks = BlockCount
  OBVIOUS
<1>11. PICK all : all = Len(edges)
  OBVIOUS
<1>12. count \in Nat /\ before \in Nat /\ blocks \in Nat /\ all \in Nat /\ before + count <= all
  <2>1. b - 1 \in 0 .. BlockCount /\ b \in 0 .. BlockCount /\ BlockCount \in 0 .. BlockCount
    BY <1>1
  <2>2. end[b] = before + count /\ count \in Nat /\ before \in Nat /\ end[b] <= end[BlockCount]
    BY <1>3, <1>5, <1>6, <1>7, <1>8, <1>9, <2>1
  <2>3. all = end[BlockCount] /\ all \in Nat
    BY <1>4, <1>5, <1>11, <2>1, Zenon
  <2> QED
    BY <1>1, <1>10, <2>2, <2>3
<1>13. Outgoing(b) = [e \in 1 .. count |-> blocks + before + e]
  BY <1>8, <1>9, <1>10, Zenon DEF Outgoing
<1>14. IslandCount = blocks + all
  BY <1>10, <1>11, Zenon DEF IslandCount
<1>15. ASSUME NEW e \in 1 .. count PROVE Outgoing(b)[e] \in 1 .. IslandCount
  <2>1. blocks + before + e \in 1 .. (blocks + all)
    BY <1>12
  <2> QED
    BY <1>13, <1>14, <2>1
<1>16. Len(Outgoing(b)) = count
  BY <1>12, <1>13
<1> QED
  BY <1>8, <1>15, <1>16, Zenon

\* A placeholder to be patched, in its place.
PatchAt(relocation, node, islands) ==
    /\ relocation \in ContinuationRelocation
    /\ relocation.island = Index
    /\ relocation.node = node
    /\ relocation.target \in 0 .. islands

LEMMA PlaceholderIsPatch ==
    ASSUME NEW node \in Nat, NEW islands \in Nat, NEW target \in 0 .. islands,
           NEW part \in {"lane", "proof"}, Index \in Nat
    PROVE  PatchAt(Placeholder(node, target, part), node, islands)
<1>1. target \in Nat
  OBVIOUS
<1> QED
  BY <1>1 DEF PatchAt, Placeholder, ContinuationRelocation

\* Sequences of two and of four.
LEMMA TwoAndFour ==
    /\ \A x, y : IsSequence(<<x, y>>) /\ Len(<<x, y>>) = 2
    /\ \A x, y, z, u : IsSequence(<<x, y, z, u>>) /\ Len(<<x, y, z, u>>) = 4
<1>1. ASSUME NEW x, NEW y PROVE IsSequence(<<x, y>>) /\ Len(<<x, y>>) = 2
  BY DEF IsSequence
<1>2. ASSUME NEW x, NEW y, NEW z, NEW u
      PROVE  IsSequence(<<x, y, z, u>>) /\ Len(<<x, y, z, u>>) = 4
  BY DEF IsSequence
<1> QED
  BY <1>1, <1>2

\* Nodes in a row for the literals of some targets, and the placeholders patched there.
Numbered(d, base, targets, islands) ==
    /\ base \in Nat /\ islands \in Nat /\ Index \in Nat
    /\ Len(targets) \in {1, 2}
    /\ \A k \in 0 .. (Literals(targets) - 1) : IdAt(d, k) = base + k
    /\ \A t \in 1 .. Len(targets) : targets[t] \in 0 .. islands

PatchedFrom(more, base, islands) ==
    /\ IsSequence(more)
    /\ \A r \in 1 .. Len(more) : PatchAt(more[r], base + (r - 1), islands)

\* The literals of the continuations are patched one after the other.
LEMMA PlaceholdersAre ==
    ASSUME NEW d, NEW base, NEW targets, NEW islands, Numbered(d, base, targets, islands)
    PROVE  /\ PatchedFrom(Placeholders(d, targets), base, islands)
           /\ Len(Placeholders(d, targets)) = Literals(targets) /\ Literals(targets) \in {2, 4}
<1> SUFFICES ASSUME base \in Nat, islands \in Nat, Index \in Nat, Len(targets) \in {1, 2},
                    \A k \in 0 .. (Literals(targets) - 1) : IdAt(d, k) = base + k,
                    \A t \in 1 .. Len(targets) : targets[t] \in 0 .. islands
             PROVE  /\ PatchedFrom(Placeholders(d, targets), base, islands)
                    /\ Len(Placeholders(d, targets)) = Literals(targets)
                    /\ Literals(targets) \in {2, 4}
  BY Zenon DEF Numbered
<1>1. base + 1 \in Nat /\ base + 2 \in Nat /\ base + 3 \in Nat /\ base + 0 = base
  OBVIOUS
<1>2. CASE Len(targets) = 1
  <2>1. Literals(targets) = 2
    BY <1>2 DEF Literals
  <2>2. IdAt(d, 0) = base /\ IdAt(d, 1) = base + 1
    BY <2>1
  <2>3. targets[1] \in 0 .. islands
    BY <1>2
  <2>4. PICK x : x = Placeholder(base, targets[1], "lane")
    OBVIOUS
  <2>5. PICK y : y = Placeholder(base + 1, targets[1], "proof")
    OBVIOUS
  <2>6. PatchAt(x, base, islands) /\ PatchAt(y, base + 1, islands)
    BY <1>1, <2>3, <2>4, <2>5, PlaceholderIsPatch
  <2>7. Placeholders(d, targets) = <<x, y>>
    BY <1>2, <2>2, <2>4, <2>5, Zenon DEF Placeholders
  <2>8. ASSUME NEW r \in 1 .. 2 PROVE PatchAt((<<x, y>>)[r], base + (r - 1), islands)
    <3>1. CASE r = 1
      BY <2>6, <3>1
    <3>2. CASE r = 2
      BY <2>6, <3>2
    <3> QED
      BY <3>1, <3>2
  <2> QED
    BY <2>1, <2>7, <2>8, TwoAndFour, Zenon DEF PatchedFrom
<1>3. CASE Len(targets) = 2
  <2>1. Literals(targets) = 4
    BY <1>3 DEF Literals
  <2>2. /\ IdAt(d, 0) = base /\ IdAt(d, 1) = base + 1
        /\ IdAt(d, 2) = base + 2 /\ IdAt(d, 3) = base + 3
    BY <2>1
  <2>3. targets[1] \in 0 .. islands /\ targets[2] \in 0 .. islands
    BY <1>3
  <2>4. PICK x : x = Placeholder(base, targets[1], "lane")
    OBVIOUS
  <2>5. PICK y : y = Placeholder(base + 1, targets[2], "lane")
    OBVIOUS
  <2>6. PICK z : z = Placeholder(base + 2, targets[1], "proof")
    OBVIOUS
  <2>7. PICK u : u = Placeholder(base + 3, targets[2], "proof")
    OBVIOUS
  <2>8. /\ PatchAt(x, base, islands) /\ PatchAt(y, base + 1, islands)
        /\ PatchAt(z, base + 2, islands) /\ PatchAt(u, base + 3, islands)
    BY <1>1, <2>3, <2>4, <2>5, <2>6, <2>7, PlaceholderIsPatch
  <2>9. Placeholders(d, targets) = <<x, y, z, u>>
    <3>1. Len(targets) # 1
      BY <1>3
    <3> QED
      BY <2>2, <2>4, <2>5, <2>6, <2>7, <3>1, Zenon DEF Placeholders
  <2>10. ASSUME NEW r \in 1 .. 4 PROVE PatchAt((<<x, y, z, u>>)[r], base + (r - 1), islands)
    <3>1. CASE r = 1
      BY <2>8, <3>1
    <3>2. CASE r = 2
      BY <2>8, <3>2
    <3>3. CASE r = 3
      BY <2>8, <3>3
    <3>4. CASE r = 4
      BY <2>8, <3>4
    <3> QED
      BY <3>1, <3>2, <3>3, <3>4
  <2> QED
    BY <2>1, <2>9, <2>10, TwoAndFour, Zenon DEF PatchedFrom
<1> QED
  BY <1>2, <1>3

\* The values an island writes, and its block's state.
IslandPlaces(i) ==
    PlacesOf(i, ItemsIn(i)) \cup {SemanticPlace(StateOf(i)), HistoryPlace(StateOf(i))}

\* What may be written of a plan: its island's values and state, the continuation and
\* the result.
WritesOwn(plan, i) == Written(plan) \subseteq Spans(IslandPlaces(i)) \cup (0 .. 8)

\* An island that is handed over, with the placeholders in it.
HandedOver(plan, more, base, carriers) ==
    /\ GoodPlan(plan, carriers)
    /\ WritesOwn(plan, Index)
    /\ base \in Nat
    /\ PatchedFrom(more, base, IslandCount) /\ Len(more) \in {2, 4}
    /\ \A r \in 1 .. Len(more) :
           /\ base + (r - 1) < Len(plan.nodes)
           /\ plan.nodes[base + (r - 1) + 1].kind = "Literal"

\* A draft whose items are all emitted, and the state it leaves.
LEMMA StateIsApart ==
    ASSUME LookupsSucceed, CarriersKept, DraftSound, loop = "islands", draft # NoDraft,
           ~ draft.overflowed, Index \in 1 .. IslandCount, draft.items = ItemsIn(Index)
    PROVE  LET b == StateOf(Index)
               s == CarrierAt(SemanticPlace(b))
               h == CarrierAt(HistoryPlace(b))
           IN  /\ Ending(draft, states[b], s, h, next_carrier)
               /\ CarriersWritten(draft.carrier_writes) \cup (Span(s) \cup Span(h))
                      \subseteq Spans(IslandPlaces(Index))
<1>1. PICK b : b = StateOf(Index)
  OBVIOUS
<1>2. PICK i : i = Index
  OBVIOUS
<1>3. i \in 1 .. IslandCount /\ loop \in {"islands", "lowered"}
  BY <1>2
<1>4. b \in 1 .. BlockCount /\ ItemsIn(i) \in Nat
  BY <1>1, <1>2, <1>3, IslandNumbers
<1>5. PICK s : s = SemanticPlace(b)
  OBVIOUS
<1>6. PICK h : h = HistoryPlace(b)
  OBVIOUS
<1>7. /\ Placed(states[b].semantic, CarrierAt(s), next_carrier)
      /\ Placed(states[b].history, CarrierAt(h), next_carrier)
      /\ s \in Nat \ {0} /\ h \in Nat \ {0} /\ ~ s <= ValueCount /\ ~ h <= ValueCount /\ s # h
  BY <1>3, <1>4, <1>5, <1>6, StateIsPlaced
<1>8. PICK places : places = PlacesOf(i, ItemsIn(i))
  OBVIOUS
<1>9. places \subseteq 1 .. ValueCount
  <2>1. ItemsIn(i) \in 0 .. ItemsIn(i)
    BY <1>4
  <2> QED
    BY <1>3, <1>8, <2>1, PlacesAreValues, Zenon
<1>10. places \subseteq Nat \ {0} /\ s \notin places /\ h \notin places
  BY <1>7, <1>9
<1>11. /\ Spans(places) \cap Span(CarrierAt(s)) = {}
       /\ Spans(places \cup {s}) \cap Span(CarrierAt(h)) = {}
       /\ Spans(places \cup {s}) = Spans(places) \cup Span(CarrierAt(s))
       /\ Spans((places \cup {s}) \cup {h}) = Spans(places \cup {s}) \cup Span(CarrierAt(h))
       /\ Spans((places \cup {s}) \cup {h}) \cap (0 .. 31) = {}
  <2>1. /\ places \cup {s} \subseteq Nat \ {0} /\ h \notin places \cup {s}
        /\ (places \cup {s}) \cup {h} \subseteq Nat \ {0}
    BY <1>7, <1>10
  <2> QED
    BY <1>7, <1>10, <2>1, SpansApart, SpansGrow, SpansAbove, Zenon
<1>12. CarriersWritten(draft.carrier_writes) \subseteq Spans(places)
  BY <1>2, <1>8, Zenon DEF DraftSound
<1>13. IslandPlaces(i) = (places \cup {s}) \cup {h}
  <2>1. IslandPlaces(i) = places \cup {s, h}
    BY <1>1, <1>2, <1>5, <1>6, <1>8, Zenon DEF IslandPlaces
  <2> QED
    BY <2>1
<1>14. PICK written : written = CarriersWritten(draft.carrier_writes)
  OBVIOUS
<1>15. PICK spans : spans = Spans(places)
  OBVIOUS
<1>16. PICK semantic : semantic = Span(CarrierAt(s))
  OBVIOUS
<1>17. PICK history : history = Span(CarrierAt(h))
  OBVIOUS
<1>18. /\ Spans(IslandPlaces(i)) = (spans \cup semantic) \cup history
       /\ spans \cap semantic = {} /\ (spans \cup semantic) \cap history = {}
       /\ written \subseteq spans
       /\ ((spans \cup semantic) \cup history) \cap (0 .. 31) = {}
  BY <1>11, <1>12, <1>13, <1>14, <1>15, <1>16, <1>17, Zenon
<1>19. /\ semantic \cap history = {}
       /\ written \cap (semantic \cup history) = {}
       /\ (written \cup (semantic \cup history)) \cap (0 .. 31) = {}
       /\ written \cup (semantic \cup history) \subseteq Spans(IslandPlaces(i))
  BY <1>18
<1> QED
  BY <1>1, <1>2, <1>5, <1>6, <1>7, <1>14, <1>16, <1>17, <1>19, Zenon DEF Ending

\* What is written beyond the result is above the ABI.
LEMMA OutsideAbi ==
    ASSUME NEW written, NEW own, written \subseteq own \cup (0 .. 8), own \cap (0 .. 31) = {}
    PROVE  written \cap (9 .. 31) = {}
<1>1. (9 .. 31) \cap (0 .. 8) = {} /\ 9 .. 31 \subseteq 0 .. 31
  OBVIOUS
<1> QED
  BY <1>1, Zenon

\* A draft whose items are all emitted ends here.
Ready(origin, salts, targets, condition) ==
    /\ loop = "islands" /\ draft # NoDraft
    /\ Index \in 1 .. IslandCount /\ draft.items = ItemsIn(Index)
    /\ origin \in 0 .. MaxOrigin /\ salts \in {BlockSalts, EdgeSalts}
    /\ Len(targets) \in {1, 2}
    /\ \A t \in 1 .. Len(targets) : targets[t] \in 0 .. IslandCount
    /\ ~ draft.overflowed => Ends(draft, targets, condition)
    /\ FinishIsland(states[StateOf(Index)], origin, salts, targets, condition)

\* An island is refused, or handed over as a whole.
EndsAsPlan ==
    \/ loop' = "refused"
    \/ /\ loop' = loop /\ draft' = NoDraft
       /\ \E plan, more, base :
              /\ HandedOver(plan, more, base, next_carrier)
              /\ plans' = Append(plans, plan)
              /\ relocations' = relocations \o more

\* A finished island is handed over, with placeholders that name its literals.
LEMMA FinishIslandHandsOver ==
    ASSUME LookupsSucceed, CarriersKept, DraftSound,
           NEW origin, NEW salts, NEW targets, NEW condition,
           Ready(origin, salts, targets, condition)
    PROVE  EndsAsPlan
<1> SUFFICES ASSUME /\ loop = "islands" /\ draft # NoDraft
                    /\ Index \in 1 .. IslandCount /\ draft.items = ItemsIn(Index)
                    /\ origin \in 0 .. MaxOrigin /\ salts \in {BlockSalts, EdgeSalts}
                    /\ Len(targets) \in {1, 2}
                    /\ \A t \in 1 .. Len(targets) : targets[t] \in 0 .. IslandCount
                    /\ ~ draft.overflowed => Ends(draft, targets, condition)
                    /\ FinishIsland(states[StateOf(Index)], origin, salts, targets, condition)
             PROVE  \/ loop' = "refused"
                    \/ /\ loop' = loop /\ draft' = NoDraft
                       /\ \E plan, more, base :
                              /\ HandedOver(plan, more, base, next_carrier)
                              /\ plans' = Append(plans, plan)
                              /\ relocations' = relocations \o more
  BY Zenon DEF Ready, EndsAsPlan
<1>1. PICK state : state = states[StateOf(Index)]
  OBVIOUS
<1>2. PICK advanced : advanced = Advanced(draft, state, origin, salts)
  OBVIOUS
<1>3. PICK finished : finished = Finished(draft, state, origin, salts, targets, condition)
  OBVIOUS
<1>4. IF RoomSufficed(finished)
      THEN /\ plans' = Append(plans, Plan(finished))
           /\ relocations' = relocations \o Placeholders(advanced, targets)
           /\ draft' = NoDraft
           /\ UNCHANGED loop
      ELSE loop' = "refused" /\ UNCHANGED <<plans, relocations, draft>>
  BY <1>1, <1>2, <1>3, Zenon DEF FinishIsland, Finished, Handed
<1>5. SUFFICES ASSUME ~ finished.overflowed
               PROVE  \E base : HandedOver(Plan(finished), Placeholders(advanced, targets),
                                           base, next_carrier)
  BY <1>4, Zenon DEF RoomSufficed
<1>6. /\ next_carrier \in 0 .. MaxCarriers /\ kFirstAllocatedCarrier <= next_carrier
      /\ next_carrier \in Nat
  BY AllocatedAtIslands
<1>7. IsDraft(draft) /\ DOMAIN draft = DraftFields
  BY Zenon DEF DraftSound, Sound
<1>8. ~ draft.overflowed
  BY <1>3, <1>5, <1>7, FinishedIsDraft
<1>9. Good(draft, next_carrier) /\ Names(draft)
  BY <1>8, Zenon DEF DraftSound, Sound
<1>10. PICK s : s = CarrierAt(SemanticPlace(StateOf(Index)))
  OBVIOUS
<1>11. PICK h : h = CarrierAt(HistoryPlace(StateOf(Index)))
  OBVIOUS
<1>12. /\ Ending(draft, state, s, h, next_carrier)
       /\ CarriersWritten(draft.carrier_writes) \cup (Span(s) \cup Span(h))
              \subseteq Spans(IslandPlaces(Index))
  BY <1>1, <1>8, <1>10, <1>11, StateIsApart
<1>13. Ends(draft, targets, condition)
  BY <1>8
<1>14. /\ Good(finished, next_carrier)
       /\ 0 .. 5 \subseteq CarriersWritten(finished.carrier_writes)
       /\ CarriersWritten(finished.carrier_writes)
              \subseteq CarriersWritten(draft.carrier_writes) \cup (Span(s) \cup Span(h)) \cup (0 .. 8)
       /\ Len(advanced.nodes) \in Nat
       /\ \A k \in 0 .. (Literals(targets) - 1) :
              /\ IdAt(advanced, k) = Len(advanced.nodes) + k /\ NodeOf(finished, IdAt(advanced, k))
              /\ finished.nodes[IdAt(advanced, k) + 1].kind = "Literal"
  <2>1. Finishable(draft, next_carrier, state, s, h, targets, condition)
    BY <1>6, <1>7, <1>9, <1>12, <1>13, Zenon DEF Finishable
  <2>2. ~ Finished(draft, state, origin, salts, targets, condition).overflowed
    BY <1>3, <1>5, Zenon
  <2>3. EndsWell(finished, advanced, draft, next_carrier, s, h, targets)
    BY <1>2, <1>3, <2>1, <2>2, FinishedIsGood, Zenon
  <2> QED
    BY <2>3, Zenon DEF EndsWell
<1>15. CarriersWritten(finished.carrier_writes) \cap (9 .. 31) = {}
  <2>1. (CarriersWritten(draft.carrier_writes) \cup (Span(s) \cup Span(h))) \cap (0 .. 31) = {}
    BY <1>12, Zenon DEF Ending
  <2>2. PICK before : before = CarriersWritten(draft.carrier_writes) \cup (Span(s) \cup Span(h))
    OBVIOUS
  <2>3. PICK written : written = CarriersWritten(finished.carrier_writes)
    OBVIOUS
  <2>4. written \subseteq before \cup (0 .. 8) /\ before \cap (0 .. 31) = {}
    BY <1>14, <2>1, <2>2, <2>3, Zenon
  <2>5. written \cap (9 .. 31) = {}
    BY <2>4, OutsideAbi, Zenon
  <2> QED
    BY <2>3, <2>5, Zenon
<1>16. PICK plan : plan = Plan(finished)
  OBVIOUS
<1>17. /\ GoodPlan(plan, next_carrier) /\ plan.nodes = finished.nodes
       /\ Written(plan) = CarriersWritten(finished.carrier_writes)
  BY <1>6, <1>14, <1>15, <1>16, PlanIsGood
<1>18. WritesOwn(plan, Index)
  <2>1. PICK before : before = CarriersWritten(draft.carrier_writes) \cup (Span(s) \cup Span(h))
    OBVIOUS
  <2>2. PICK own : own = Spans(IslandPlaces(Index))
    OBVIOUS
  <2>3. Written(plan) \subseteq before \cup (0 .. 8) /\ before \subseteq own
    BY <1>12, <1>14, <1>17, <2>1, <2>2, Zenon
  <2>4. Written(plan) \subseteq own \cup (0 .. 8)
    BY <2>3
  <2> QED
    BY <2>2, <2>4, Zenon DEF WritesOwn
<1>19. PICK base : base = Len(advanced.nodes)
  OBVIOUS
<1>20. PICK more : more = Placeholders(advanced, targets)
  OBVIOUS
<1>21. IslandCount \in Nat /\ Index \in Nat
  BY TypedSource, OriginNumbers DEF IslandCount
<1>22. /\ base \in Nat
       /\ \A k \in 0 .. (Literals(targets) - 1) : IdAt(advanced, k) = base + k
  BY <1>14, <1>19, Zenon
<1>23. /\ PatchedFrom(more, base, IslandCount)
       /\ Len(more) = Literals(targets) /\ Literals(targets) \in {2, 4}
  <2>1. Numbered(advanced, base, targets, IslandCount)
    BY <1>21, <1>22, Zenon DEF Numbered
  <2> QED
    BY <1>20, <2>1, PlaceholdersAre, Zenon
<1>24. ASSUME NEW r \in 1 .. Len(more)
       PROVE  /\ base + (r - 1) < Len(plan.nodes)
              /\ plan.nodes[base + (r - 1) + 1].kind = "Literal"
  <2>1. PICK k : k = r - 1
    OBVIOUS
  <2>2. k \in 0 .. (Literals(targets) - 1)
    BY <1>23, <2>1
  <2>3. PICK node : node = IdAt(advanced, k)
    OBVIOUS
  <2>4. /\ node = base + k /\ NodeOf(finished, node)
        /\ finished.nodes[node + 1].kind = "Literal"
    BY <1>14, <1>22, <2>2, <2>3, Zenon
  <2>5. Len(finished.nodes) \in Nat
    <3>1. IsSequence(finished.nodes)
      BY <1>14, Zenon DEF Good, GoodNodes
    <3> QED
      BY <3>1, SequenceParts
  <2>6. node < Len(finished.nodes)
    BY <2>4, <2>5 DEF NodeOf
  <2> QED
    BY <1>17, <2>1, <2>4, <2>6, Zenon
<1>25. HandedOver(plan, more, base, next_carrier)
  BY <1>17, <1>18, <1>22, <1>23, <1>24, Zenon DEF HandedOver
<1> QED
  BY <1>16, <1>20, <1>25, Zenon

\* Where a terminator leads: one target or two, a condition where there are two.
LEMMA TerminatorKinds ==
    ASSUME NEW function \in MachineFunction, Verified(function),
           NEW b \in 1 .. Len(function.blocks)
    PROVE  LET terminator == function.blocks[b].terminator
           IN  /\ terminator.kind \in {"Jump", "Branch", "Return"}
               /\ terminator.kind = "Jump" => Len(EdgesOf(function.blocks[b])) = 1
               /\ terminator.kind = "Branch" => Len(EdgesOf(function.blocks[b])) = 2
<1>1. PICK terminator : terminator = function.blocks[b].terminator
  OBVIOUS
<1>2. TerminatorValid(function, function.blocks[b])
  BY VerifiedBlocks, Zenon
<1>3. terminator.kind \in {"Jump", "Branch", "Return"}
  BY <1>1, <1>2 DEF TerminatorValid
<1>4. terminator \in BlockTerminator
  BY <1>1, BlockParts, PartsOfBlock, Zenon
<1>5. Len(terminator.edges) = EdgeCount[terminator.kind]
  BY <1>4, PartsOfTerminator
<1>6. EdgesOf(function.blocks[b]) = terminator.edges
  BY <1>1, Zenon DEF EdgesOf
<1>7. EdgeCount["Jump"] = 1 /\ EdgeCount["Branch"] = 2
  BY DEF EdgeCount
<1> QED
  BY <1>1, <1>3, <1>5, <1>6, <1>7, Zenon

\* A block's island ends with its terminator.
LEMMA FinishBlockHandsOver ==
    ASSUME LookupsSucceed, CarriersKept, DraftSound, FinishBlock
    PROVE  EndsAsPlan
<1>1. /\ loop = "islands" /\ draft # NoDraft /\ IsBlock /\ draft.items = Len(Block.actions)
  BY DEF FinishBlock
<1>2. /\ function_ \in MachineFunction /\ Verified(function_)
      /\ Index \in 1 .. Len(function_.blocks) /\ Block = function_.blocks[Index]
      /\ Index \in Nat \ {0}
  BY <1>1, AtAnIsland
<1>3. DOMAIN draft.bindings = DOMAIN Available(Block, AtTerminator(Block)) /\ Index <= IslandCount
  <2>1. DOMAIN draft.bindings = DOMAIN Available(Block, draft.items + 1) /\ Index <= IslandCount
    BY <1>1 DEF LookupsSucceed, DraftBound
  <2> QED
    BY <1>1, <2>1 DEF AtTerminator
<1>4. PICK kind : kind = Block.terminator.kind
  OBVIOUS
<1>5. PICK value : value = Block.terminator.value
  OBVIOUS
<1>6. kind \in {"Branch", "Return"} => value \in DOMAIN draft.bindings
  BY <1>2, <1>3, <1>4, <1>5, TerminatorBound
<1>7. PICK targets : targets = IF kind = "Return" THEN <<0>> ELSE Outgoing(Index)
  OBVIOUS
<1>8. PICK condition : condition = IF kind = "Branch" THEN draft.bindings[value] ELSE 0
  OBVIOUS
<1>9. FinishIsland(states[Index], Block.origin, BlockSalts, targets, condition)
  <2>1. FinishBlock
    OBVIOUS
  <2>2. ~ (/\ Block.terminator.kind \in {"Branch", "Return"}
           /\ Block.terminator.value \notin DOMAIN draft.bindings)
    BY <1>4, <1>5, <1>6, Zenon
  <2> QED
    BY <1>4, <1>5, <1>7, <1>8, <2>1, <2>2, Zenon DEF FinishBlock
<1>10. /\ Index \in 1 .. IslandCount /\ Index \in 1 .. BlockCount /\ IslandCount \in Nat
       /\ Index <= BlockCount
  BY <1>1, <1>2, <1>3, TypedSource, OriginNumbers DEF IslandCount, IsBlock, BlockCount, Blocks
<1>11. StateOf(Index) = Index /\ ItemsIn(Index) = Len(Block.actions)
  BY <1>10, Zenon DEF StateOf, ItemsIn, Block
<1>12. Block.origin \in 0 .. MaxOrigin
  <2>1. Blocks[Index].origin \in 1 .. MaximumOrigin /\ MaximumOrigin \in Nat
    BY <1>2, <1>10, FunctionOriginsBound
  <2>2. MaximumOrigin <= MaxOrigin /\ MaxOrigin \in Nat
    BY <1>1, OriginNumbers DEF AfterVerify
  <2>3. PICK origin : origin = Block.origin
    OBVIOUS
  <2>4. origin \in 1 .. MaximumOrigin
    BY <2>1, <2>3, Zenon DEF Block
  <2> QED
    BY <2>1, <2>2, <2>3, <2>4
<1>13. /\ kind \in {"Jump", "Branch", "Return"}
       /\ kind = "Jump" => Len(EdgesOf(Block)) = 1
       /\ kind = "Branch" => Len(EdgesOf(Block)) = 2
  BY <1>2, <1>4, TerminatorKinds
<1>14. /\ kind = "Jump" => Len(targets) = 1
       /\ kind = "Branch" => Len(targets) = 2
       /\ kind = "Return" => Len(targets) = 1
       /\ \A t \in 1 .. Len(targets) : targets[t] \in 0 .. IslandCount
  <2>1. CASE kind = "Return"
    <3>1. targets = <<0>>
      BY <1>7, <2>1
    <3> QED
      BY <1>10, <2>1, <3>1
  <2>2. CASE kind # "Return"
    <3>1. targets = Outgoing(Index)
      BY <1>7, <2>2
    <3>2. /\ Len(Outgoing(Index)) = Len(EdgesOf(Blocks[Index]))
          /\ \A e \in 1 .. Len(EdgesOf(Blocks[Index])) : Outgoing(Index)[e] \in 1 .. IslandCount
      BY <1>1, <1>10, OutgoingBound
    <3>3. Len(targets) = Len(EdgesOf(Block))
      BY <3>1, <3>2, Zenon DEF Block
    <3>4. \A t \in 1 .. Len(targets) : targets[t] \in 1 .. IslandCount
      BY <3>1, <3>2, Zenon
    <3>5. \A t \in 1 .. Len(targets) : targets[t] \in 0 .. IslandCount
      BY <3>4
    <3> QED
      BY <1>13, <2>2, <3>3, <3>5, Zenon
  <2> QED
    BY <2>1, <2>2
<1>15. Len(targets) \in {1, 2} /\ (Len(targets) # 1 => kind = "Branch")
  BY <1>13, <1>14
<1>16. ~ draft.overflowed => Ends(draft, targets, condition)
  <2> SUFFICES ASSUME ~ draft.overflowed PROVE Ends(draft, targets, condition)
    OBVIOUS
  <2>1. Names(draft)
    BY <1>1, Zenon DEF DraftSound, Sound
  <2>2. kind \in {"Branch", "Return"} => NodeOf(draft, draft.bindings[value])
    BY <1>6, <2>1, Zenon DEF Names
  <2> QED
    BY <1>4, <1>5, <1>8, <1>12, <1>15, <2>2 DEF Ends
<1>17. PICK origin : origin = Block.origin
  OBVIOUS
<1>18. BlockSalts \in {BlockSalts, EdgeSalts}
  OBVIOUS
<1>19. draft.items = ItemsIn(Index)
  BY <1>1, <1>11
<1>20. FinishIsland(states[StateOf(Index)], origin, BlockSalts, targets, condition)
       /\ origin \in 0 .. MaxOrigin
  BY <1>9, <1>11, <1>12, <1>17
<1>21. Ready(origin, BlockSalts, targets, condition)
  BY <1>1, <1>10, <1>14, <1>15, <1>16, <1>18, <1>19, <1>20, Zenon DEF Ready
<1> QED
  BY <1>21, FinishIslandHandsOver, Zenon

\* An edge's island ends in its target's.
LEMMA FinishEdgeHandsOver ==
    ASSUME LookupsSucceed, OriginsInOrder, CarriersKept, DraftSound, FinishEdge
    PROVE  EndsAsPlan
<1>1. /\ loop = "islands" /\ draft # NoDraft /\ ~ IsBlock /\ draft.items = Len(Edge.arguments)
      /\ FinishIsland(states[TargetOf(Edge)], Edge.origin, EdgeSalts, <<TargetOf(Edge)>>, 0)
  BY DEF FinishEdge
<1>2. Index \in Nat \ {0} /\ Index <= IslandCount
  BY <1>1, AtAnIsland DEF LookupsSucceed, DraftBound
<1>3. /\ Index \in 1 .. IslandCount /\ ~ Index <= BlockCount /\ BlockCount \in Nat
      /\ IslandCount \in Nat /\ BlockCount <= IslandCount
  BY <1>1, <1>2, TypedSource, OriginNumbers DEF IslandCount, IsBlock
<1>4. PICK e : e = Index - BlockCount
  OBVIOUS
<1>5. e \in 1 .. Len(edges) /\ Edge = edges[e]
  <2>1. Index - BlockCount \in 1 .. Len(edges)
    BY <1>1, <1>3, IslandNumbers
  <2> QED
    BY <1>4, <2>1, Zenon DEF Edge
<1>6. StateOf(Index) = TargetOf(Edge) /\ ItemsIn(Index) = Len(Edge.arguments)
  BY <1>3, <1>4, <1>5, Zenon DEF StateOf, ItemsIn
<1>7. Edge.origin \in 0 .. MaxOrigin
  <2>1. /\ edges[e].origin = MaximumOrigin + e
        /\ ValueCount <= Len(allocated) /\ MaximumOrigin + Given <= MaxOrigin
    BY <1>1, <1>5 DEF OriginsInOrder, SyntheticInOrder, AfterValues, AfterVerify
  <2>2. /\ ValueCount \in Nat /\ Len(allocated) \in Nat /\ Len(edges) \in Nat
        /\ MaxOrigin \in Nat /\ MaximumOrigin \in Nat
    BY <1>1, OriginNumbers DEF AfterVerify
  <2>3. MaximumOrigin + (Len(edges) + (Len(allocated) - ValueCount)) <= MaxOrigin
    BY <2>1 DEF Given
  <2> QED
    BY <1>5, <2>1, <2>2, <2>3
<1>8. TargetOf(Edge) \in 1 .. BlockCount
  BY <1>1, <1>5, EdgeOfIsland
<1>9. PICK target : target = TargetOf(Edge)
  OBVIOUS
<1>10. PICK targets : targets = <<target>>
  OBVIOUS
<1>11. Len(targets) = 1 /\ Len(targets) \in {1, 2}
       /\ \A t \in 1 .. Len(targets) : targets[t] \in 0 .. IslandCount
  BY <1>3, <1>8, <1>9, <1>10
<1>12. Ends(draft, targets, 0)
  BY <1>1, <1>11 DEF Ends
<1>13. PICK origin : origin = Edge.origin
  OBVIOUS
<1>14. EdgeSalts \in {BlockSalts, EdgeSalts}
  OBVIOUS
<1>15. FinishIsland(states[StateOf(Index)], origin, EdgeSalts, targets, 0)
       /\ origin \in 0 .. MaxOrigin /\ draft.items = ItemsIn(Index)
  BY <1>1, <1>6, <1>7, <1>9, <1>10, <1>13
<1>16. Ready(origin, EdgeSalts, targets, 0)
  BY <1>1, <1>3, <1>11, <1>12, <1>14, <1>15, Zenon DEF Ready
<1> QED
  BY <1>16, FinishIslandHandsOver, Zenon

-----------------------------------------------------------------------------
(***************************************************************************)
(* The islands handed over.                                                *)
(***************************************************************************)

\* A placeholder names a literal of an island, and the island to be continued in.
NamesLiteral(patch, made, islands) ==
    /\ patch \in ContinuationRelocation
    /\ patch.target \in 0 .. islands
    /\ patch.island \in 1 .. Len(made)
    /\ patch.node < Len(made[patch.island].nodes)
    /\ made[patch.island].nodes[patch.node + 1].kind = "Literal"

PatchesGood(patches, made, islands) ==
    /\ IsSequence(patches)
    /\ \A r \in 1 .. Len(patches) : NamesLiteral(patches[r], made, islands)
    /\ \A q, r \in 1 .. Len(patches) :
           patches[q].island = patches[r].island /\ patches[q].node = patches[r].node => q = r

PlansGood(made, carriers) ==
    \A i \in 1 .. Len(made) : GoodPlan(made[i], carriers) /\ WritesOwn(made[i], i)

\* Every island handed over is one the back end can rely on.
PlansSound ==
    /\ loop \in {"islands", "lowered"} =>
           /\ Len(plans) <= IslandCount
           /\ PlansGood(plans, next_carrier)
           /\ PatchesGood(relocations, plans, IslandCount)
    /\ loop = "lowered" => Len(plans) = IslandCount
    /\ loop \notin {"islands", "lowered", "refused"} => plans = << >> /\ relocations = << >>

\* Two sequences in one, by their places.
LEMMA ConcatenatedAt ==
    ASSUME NEW s, IsSequence(s), NEW t, IsSequence(t)
    PROVE  /\ IsSequence(s \o t) /\ Len(s) \in Nat /\ Len(t) \in Nat
           /\ Len(s \o t) = Len(s) + Len(t)
           /\ \A k \in 1 .. Len(s) : (s \o t)[k] = s[k]
           /\ \A e \in 1 .. Len(t) : (s \o t)[Len(s) + e] = t[e]
<1> DEFINE T == {s[i] : i \in DOMAIN s} \cup {t[i] : i \in DOMAIN t}
<1>1. s \in Seq(T) /\ t \in Seq(T)
  BY DEF IsSequence
<1>2. IsSequence(s \o t)
  BY ConcatenationIsSequence
<1> HIDE DEF T
<1>3. Len(s) \in Nat /\ Len(t) \in Nat
  BY <1>1
<1> QED
  BY <1>1, <1>2, <1>3, Concatenated

\* A placeholder still names its literal when another island follows.
LEMMA LiteralStays ==
    ASSUME NEW patch, NEW made, IsSequence(made), NEW islands, NamesLiteral(patch, made, islands),
           NEW plan
    PROVE  NamesLiteral(patch, Append(made, plan), islands)
<1>1. /\ Len(Append(made, plan)) = Len(made) + 1 /\ Len(made) \in Nat
      /\ \A n \in 1 .. Len(made) : Append(made, plan)[n] = made[n]
  BY AppendedAt
<1>2. PICK longer : longer = Append(made, plan)
  OBVIOUS
<1>3. PICK i : i = patch.island
  OBVIOUS
<1>4. i \in 1 .. Len(made)
  BY <1>3 DEF NamesLiteral
<1>5. i \in 1 .. Len(longer) /\ longer[i] = made[i]
  BY <1>1, <1>2, <1>4
<1> QED
  BY <1>2, <1>3, <1>5, Zenon DEF NamesLiteral

\* The last island's own placeholders, each in its place.
NewPatch(patch, node, made, plan, islands) ==
    /\ PatchAt(patch, node, islands)
    /\ node \in Nat /\ node < Len(plan.nodes) /\ plan.nodes[node + 1].kind = "Literal"
    /\ Index = Len(made) + 1

LEMMA LiteralIsNew ==
    ASSUME NEW made, IsSequence(made), NEW plan, NEW patch, NEW node, NEW islands,
           NewPatch(patch, node, made, plan, islands)
    PROVE  /\ NamesLiteral(patch, Append(made, plan), islands)
           /\ patch.island = Len(made) + 1 /\ patch.node = node
<1>1. /\ Len(Append(made, plan)) = Len(made) + 1 /\ Len(made) \in Nat
      /\ Append(made, plan)[Len(made) + 1] = plan
  BY AppendedAt
<1>2. PICK longer : longer = Append(made, plan)
  OBVIOUS
<1>3. PICK i : i = Len(made) + 1
  OBVIOUS
<1>4. /\ patch \in ContinuationRelocation /\ patch.target \in 0 .. islands
      /\ patch.island = i /\ patch.node = node
      /\ node < Len(plan.nodes) /\ plan.nodes[node + 1].kind = "Literal"
  BY <1>3, Zenon DEF NewPatch, PatchAt
<1>5. i \in 1 .. Len(longer) /\ longer[i] = plan
  BY <1>1, <1>2, <1>3
<1> QED
  BY <1>2, <1>3, <1>4, <1>5, Zenon DEF NamesLiteral

\* The placeholders of a plan in a row, from a node on.
NewPatches(more, base, made, plan, islands) ==
    /\ IsSequence(more) /\ base \in Nat
    /\ \A r \in 1 .. Len(more) : NewPatch(more[r], base + (r - 1), made, plan, islands)

LEMMA PatchesExtended ==
    ASSUME NEW made, IsSequence(made), NEW patches, NEW islands,
           PatchesGood(patches, made, islands),
           NEW plan, NEW more, NEW base, NewPatches(more, base, made, plan, islands)
    PROVE  PatchesGood(patches \o more, Append(made, plan), islands)
<1>1. IsSequence(patches) /\ IsSequence(more) /\ base \in Nat
  BY Zenon DEF PatchesGood, NewPatches
<1>2. PICK all : all = patches \o more
  OBVIOUS
<1>3. PICK count : count = Len(patches)
  OBVIOUS
<1>4. PICK size : size = Len(more)
  OBVIOUS
<1>5. PICK longer : longer = Append(made, plan)
  OBVIOUS
<1>6. /\ IsSequence(all) /\ count \in Nat /\ size \in Nat /\ Len(all) = count + size
      /\ \A k \in 1 .. count : all[k] = patches[k]
      /\ \A e \in 1 .. size : all[count + e] = more[e]
  BY <1>1, <1>2, <1>3, <1>4, ConcatenatedAt
<1>7. Len(made) \in Nat
  BY SequenceParts
<1>8. ASSUME NEW k \in 1 .. count
      PROVE  NamesLiteral(all[k], longer, islands) /\ all[k].island \in 1 .. Len(made)
  <2>1. all[k] = patches[k]
    BY <1>6
  <2>2. NamesLiteral(patches[k], made, islands)
    BY <1>3, Zenon DEF PatchesGood
  <2>3. NamesLiteral(patches[k], longer, islands)
    BY <1>5, <2>2, LiteralStays, Zenon
  <2> QED
    BY <2>1, <2>2, <2>3, Zenon DEF NamesLiteral
<1>9. ASSUME NEW k \in 1 .. Len(all), k \notin 1 .. count
      PROVE  /\ NamesLiteral(all[k], longer, islands)
             /\ all[k].island = Len(made) + 1 /\ all[k].node = base + ((k - count) - 1)
  <2>1. PICK e : e = k - count
    OBVIOUS
  <2>2. e \in 1 .. size /\ k = count + e
    BY <1>6, <1>9, <2>1
  <2>3. PICK patch : patch = more[e]
    OBVIOUS
  <2>4. PICK node : node = base + (e - 1)
    OBVIOUS
  <2>5. NewPatch(patch, node, made, plan, islands)
    BY <1>4, <2>2, <2>3, <2>4, Zenon DEF NewPatches
  <2>6. /\ NamesLiteral(patch, longer, islands)
        /\ patch.island = Len(made) + 1 /\ patch.node = node
    BY <1>5, <2>5, LiteralIsNew, Zenon
  <2>7. all[k] = patch
    BY <1>6, <2>2, <2>3, Zenon
  <2> QED
    BY <2>1, <2>4, <2>6, <2>7, Zenon
<1>10. \A k \in 1 .. Len(all) : NamesLiteral(all[k], longer, islands)
  BY <1>8, <1>9, Zenon
<1>11. ASSUME NEW q \in 1 .. Len(all), NEW r \in 1 .. Len(all),
              all[q].island = all[r].island, all[q].node = all[r].node
       PROVE  q = r
  <2>1. CASE q \in 1 .. count /\ r \in 1 .. count
    <3>1. all[q] = patches[q] /\ all[r] = patches[r]
      BY <1>6, <2>1
    <3> QED
      BY <1>3, <1>11, <2>1, <3>1, Zenon DEF PatchesGood
  <2>2. CASE q \in 1 .. count /\ r \notin 1 .. count
    <3>1. all[q].island \in 1 .. Len(made) /\ all[r].island = Len(made) + 1
      BY <1>8, <1>9, <2>2, Zenon
    <3> QED
      BY <1>7, <1>11, <3>1
  <2>3. CASE q \notin 1 .. count /\ r \in 1 .. count
    <3>1. all[r].island \in 1 .. Len(made) /\ all[q].island = Len(made) + 1
      BY <1>8, <1>9, <2>3, Zenon
    <3> QED
      BY <1>7, <1>11, <3>1
  <2>4. CASE q \notin 1 .. count /\ r \notin 1 .. count
    <3>1. base + ((q - count) - 1) = base + ((r - count) - 1)
      BY <1>9, <1>11, <2>4, Zenon
    <3> QED
      BY <1>1, <1>6, <3>1
  <2> QED
    BY <2>1, <2>2, <2>3, <2>4
<1> QED
  BY <1>2, <1>5, <1>6, <1>10, <1>11, Zenon DEF PatchesGood

\* What an island may write depends on the function and its edges.
LEMMA SameWrites ==
    ASSUME source' = source, edges' = edges, NEW plan, NEW i
    PROVE  WritesOwn(plan, i)' <=> WritesOwn(plan, i)
<1>1. PlacesOf(i, ItemsIn(i))' = PlacesOf(i, ItemsIn(i)) /\ StateOf(i)' = StateOf(i)
  BY SameFunction DEF PlacesOf, ItemPlace, ItemWrites, PlaceOfValue, TargetOf, ItemsIn, StateOf
<1>2. ValueCount' = ValueCount
  BY SameFunction DEF ValueCount
<1>3. SemanticPlace(StateOf(i))' = SemanticPlace(StateOf(i))
      /\ HistoryPlace(StateOf(i))' = HistoryPlace(StateOf(i))
  BY <1>1, <1>2 DEF SemanticPlace, HistoryPlace
<1>4. IslandPlaces(i)' = IslandPlaces(i)
  BY <1>1, <1>3 DEF IslandPlaces
<1> QED
  BY <1>4, Zenon DEF WritesOwn

\* Some plans stay good.
LEMMA SamePlans ==
    ASSUME source' = source, edges' = edges, NEW made, NEW carriers, PlansGood(made, carriers)
    PROVE  PlansGood(made, carriers)'
<1>1. ASSUME NEW i \in 1 .. Len(made) PROVE GoodPlan(made[i], carriers) /\ WritesOwn(made[i], i)'
  <2>1. GoodPlan(made[i], carriers) /\ WritesOwn(made[i], i)
    BY Zenon DEF PlansGood
  <2>2. PICK plan : plan = made[i]
    OBVIOUS
  <2>3. WritesOwn(plan, i)' <=> WritesOwn(plan, i)
    BY SameWrites, Zenon
  <2> QED
    BY <2>1, <2>2, <2>3, Zenon
<1> QED
  BY <1>1, Zenon DEF PlansGood

\* One more good plan.
LEMMA PlansExtended ==
    ASSUME NEW made, IsSequence(made), NEW carriers, PlansGood(made, carriers),
           NEW plan, GoodPlan(plan, carriers), WritesOwn(plan, Len(made) + 1)
    PROVE  PlansGood(Append(made, plan), carriers)
<1>1. /\ Len(Append(made, plan)) = Len(made) + 1 /\ Len(made) \in Nat
      /\ \A n \in 1 .. Len(made) : Append(made, plan)[n] = made[n]
      /\ Append(made, plan)[Len(made) + 1] = plan
  BY AppendedAt
<1>2. PICK longer : longer = Append(made, plan)
  OBVIOUS
<1>3. ASSUME NEW i \in 1 .. Len(longer)
      PROVE  GoodPlan(longer[i], carriers) /\ WritesOwn(longer[i], i)
  <2>1. CASE i \in 1 .. Len(made)
    BY <1>1, <1>2, <2>1, Zenon DEF PlansGood
  <2>2. CASE i \notin 1 .. Len(made)
    <3>1. i = Len(made) + 1
      BY <1>1, <1>2, <2>2
    <3> QED
      BY <1>1, <1>2, <3>1, Zenon
  <2> QED
    BY <2>1, <2>2
<1> QED
  BY <1>2, <1>3, Zenon DEF PlansGood

\* Nothing is handed over, and the loop stays.
LEMMA PlansFrame ==
    ASSUME PlansSound, loop' = loop,
           UNCHANGED <<source, edges, plans, relocations, next_carrier>>
    PROVE  PlansSound'
<1>1. /\ source' = source /\ edges' = edges /\ plans' = plans /\ relocations' = relocations
      /\ next_carrier' = next_carrier
  OBVIOUS
<1>2. IslandCount' = IslandCount
  BY <1>1, SamePlace
<1>3. PICK made : made = plans
  OBVIOUS
<1>4. PICK carriers : carriers = next_carrier
  OBVIOUS
<1>5. PlansGood(made, carriers) => PlansGood(made, carriers)'
  BY <1>1, SamePlans
<1>6. PlansGood(plans, next_carrier) => PlansGood(plans, next_carrier)'
  <2> SUFFICES ASSUME PlansGood(plans, next_carrier) PROVE PlansGood(plans, next_carrier)'
    OBVIOUS
  <2>1. PlansGood(made, carriers)'
    BY <1>3, <1>4, <1>5, Zenon
  <2>2. plans' = made /\ next_carrier' = carriers
    BY <1>1, <1>3, <1>4
  <2> QED
    BY <2>1, <2>2, Zenon DEF PlansGood
<1> QED
  BY <1>1, <1>2, <1>6, Zenon DEF PlansSound, PatchesGood, NamesLiteral

\* An island handed over is one more.
LEMMA HandedOverSound ==
    ASSUME LookupsSucceed, PlansSound, loop = "islands", EndsAsPlan, Index <= IslandCount,
           UNCHANGED <<source, edges, next_carrier>>
    PROVE  PlansSound'
<1>1. CASE loop' = "refused"
  BY <1>1, Zenon DEF PlansSound
<1>2. CASE loop' # "refused"
  <2>1. PICK plan, more, base :
            /\ HandedOver(plan, more, base, next_carrier)
            /\ plans' = Append(plans, plan)
            /\ relocations' = relocations \o more
    BY <1>2, Zenon DEF EndsAsPlan
  <2>2. loop' = "islands" /\ source' = source /\ edges' = edges /\ next_carrier' = next_carrier
    BY <1>2, Zenon DEF EndsAsPlan
  <2>3. /\ Len(plans) <= IslandCount /\ PlansGood(plans, next_carrier)
        /\ PatchesGood(relocations, plans, IslandCount) /\ IsSequence(plans)
    BY Zenon DEF PlansSound, LookupsSucceed
  <2>4. /\ GoodPlan(plan, next_carrier) /\ WritesOwn(plan, Len(plans) + 1) /\ base \in Nat
        /\ PatchedFrom(more, base, IslandCount)
        /\ \A r \in 1 .. Len(more) : /\ base + (r - 1) < Len(plan.nodes)
                                     /\ plan.nodes[base + (r - 1) + 1].kind = "Literal"
    BY <2>1, Zenon DEF HandedOver, Index
  <2>5. PlansGood(plans', next_carrier)
    BY <2>1, <2>3, <2>4, PlansExtended
  <2>6. NewPatches(more, base, plans, plan, IslandCount)
    <3>1. IsSequence(more) /\ Len(more) \in Nat
          /\ \A r \in 1 .. Len(more) : PatchAt(more[r], base + (r - 1), IslandCount)
      BY <2>4, SequenceParts DEF PatchedFrom
    <3>2. ASSUME NEW r \in 1 .. Len(more)
          PROVE  NewPatch(more[r], base + (r - 1), plans, plan, IslandCount)
      <4>1. base + (r - 1) \in Nat
        BY <2>4, <3>1
      <4> QED
        BY <2>4, <3>1, <4>1, Zenon DEF NewPatch, Index
    <3> QED
      BY <2>4, <3>1, <3>2, Zenon DEF NewPatches
  <2>8. IslandCount' = IslandCount
    BY <2>2, SameFunction DEF IslandCount
  <2>7. PatchesGood(relocations, plans, IslandCount)'
    <3>1. PatchesGood(relocations', plans', IslandCount)
      BY <2>1, <2>3, <2>6, PatchesExtended
    <3> QED
      BY <2>8, <3>1, Zenon DEF PatchesGood, NamesLiteral
  <2>9. Len(plans') <= IslandCount
    <3>1. Len(plans') = Len(plans) + 1
      BY <2>1, <2>3, AppendedAt
    <3> QED
      BY <3>1 DEF Index
  <2>10. PlansGood(plans, next_carrier)'
    <3>1. PICK made : made = plans'
      OBVIOUS
    <3>2. PICK carriers : carriers = next_carrier
      OBVIOUS
    <3>3. PlansGood(made, carriers)
      BY <2>5, <3>1, <3>2, Zenon
    <3>4. PlansGood(made, carriers)'
      BY <2>2, <3>3, SamePlans
    <3> QED
      BY <2>2, <3>1, <3>2, <3>4, Zenon DEF PlansGood
  <2> QED
    BY <2>2, <2>7, <2>8, <2>9, <2>10 DEF PlansSound
<1> QED
  BY <1>1, <1>2

\* Every step keeps what is handed over good.
LEMMA PlansStaySound ==
    ASSUME LookupsSucceed, LookupsSucceed', OriginsInOrder, CarriersKept, DraftSound, PlansSound,
           [LoweringNext]_loweringVars
    PROVE  PlansSound'
<1>0. loop' # "threw"
  BY DEF LookupsSucceed, AfterVerify
<1>1. CASE Verify \/ AllocateValue \/ FinishValues \/ AddEdge \/ FinishEdges \/ AddState
  <2>1. /\ loop \in {"verify", "values", "edges", "states"}
        /\ loop' \notin {"islands", "lowered"} /\ plans' = plans /\ relocations' = relocations
    BY <1>1 DEF Verify, AllocateValue, FinishValues, AddEdge, FinishEdges, AddState
  <2>2. plans = << >> /\ relocations = << >>
    BY <2>1, Zenon DEF PlansSound
  <2> QED
    BY <2>1, <2>2 DEF PlansSound
<1>2. CASE FinishStates
  <2>1. /\ loop = "states" /\ loop' = "islands" /\ plans' = plans /\ relocations' = relocations
    BY <1>2 DEF FinishStates
  <2>2. plans' = << >> /\ relocations' = << >>
    BY <2>1 DEF PlansSound
  <2>3. Len(plans') = 0 /\ Len(relocations') = 0 /\ IsSequence(relocations')
    BY <2>2, EmptyIsSequence
  <2>4. BlockCount' \in Nat /\ Len(edges') \in Nat
    BY <1>2, TypedSource, OriginNumbers, SameFunction DEF FinishStates
  <2>5. Len(plans') <= IslandCount'
    BY <2>3, <2>4 DEF IslandCount
  <2>6. \A i \in 1 .. Len(plans') : FALSE
    BY <2>3
  <2>7. \A r \in 1 .. Len(relocations') : FALSE
    BY <2>3
  <2>8. PlansGood(plans, next_carrier)' /\ PatchesGood(relocations, plans, IslandCount)'
    BY <2>3, <2>6, <2>7, Zenon DEF PlansGood, PatchesGood
  <2> QED
    BY <2>1, <2>5, <2>8 DEF PlansSound
<1>3. CASE BeginIsland \/ LowerAction \/ CopyArgument
  <2>1. /\ loop' = loop \/ loop' = "threw"
        /\ UNCHANGED <<source, edges, plans, relocations, next_carrier>>
    <3>1. CASE BeginIsland
      BY <3>1, Zenon DEF BeginIsland
    <3>2. CASE LowerAction
      BY <3>2, Zenon DEF LowerAction
    <3>3. CASE CopyArgument
      BY <3>3, Zenon DEF CopyArgument
    <3> QED
      BY <1>3, <3>1, <3>2, <3>3
  <2> QED
    BY <1>0, <2>1, PlansFrame
<1>4. CASE FinishBlock \/ FinishEdge
  <2>1. EndsAsPlan
    BY <1>4, FinishBlockHandsOver, FinishEdgeHandsOver
  <2>2. loop = "islands" /\ draft # NoDraft /\ UNCHANGED <<source, edges, next_carrier>>
    BY <1>4, Zenon DEF FinishBlock, FinishEdge
  <2>3. Index <= IslandCount
    BY <2>2, Zenon DEF LookupsSucceed, DraftBound
  <2> QED
    BY <2>1, <2>2, <2>3, HandedOverSound
<1>5. CASE FinishLowering
  <2>1. /\ loop = "islands" /\ loop' = "lowered" /\ Index > IslandCount
        /\ source' = source /\ edges' = edges /\ plans' = plans /\ relocations' = relocations
        /\ next_carrier' = next_carrier
    BY <1>5 DEF FinishLowering
  <2>2. /\ Len(plans) <= IslandCount /\ PlansGood(plans, next_carrier)
        /\ PatchesGood(relocations, plans, IslandCount)
    BY <2>1, Zenon DEF PlansSound
  <2>3. Len(plans) = IslandCount
    <3>1. Len(plans) \in Nat
      BY SequenceParts DEF LookupsSucceed
    <3>2. BlockCount \in Nat /\ Len(edges) \in Nat
      BY <2>1, TypedSource, OriginNumbers
    <3>3. IslandCount \in Nat /\ Len(plans) + 1 > IslandCount
      BY <2>1, <3>2 DEF IslandCount, Index
    <3> QED
      BY <2>2, <3>1, <3>3
  <2>4. IslandCount' = IslandCount
    BY <2>1, SamePlace
  <2>5. PlansGood(plans, next_carrier)'
    <3>1. PICK made : made = plans
      OBVIOUS
    <3>2. PICK carriers : carriers = next_carrier
      OBVIOUS
    <3>3. PlansGood(made, carriers)
      BY <2>2, <3>1, <3>2, Zenon
    <3>4. PlansGood(made, carriers)'
      BY <2>1, <3>3, SamePlans
    <3>5. plans' = made /\ next_carrier' = carriers
      BY <2>1, <3>1, <3>2
    <3> QED
      BY <3>4, <3>5, Zenon DEF PlansGood
  <2>6. PatchesGood(relocations, plans, IslandCount)'
    BY <2>1, <2>2, <2>4, Zenon DEF PatchesGood, NamesLiteral
  <2>7. plans' = plans /\ loop' = "lowered"
    BY <2>1
  <2> QED
    BY <2>2, <2>3, <2>4, <2>5, <2>6, <2>7 DEF PlansSound
<1>6. CASE UNCHANGED loweringVars
  BY <1>6, PlansFrame DEF loweringVars
<1> QED
  BY <1>1, <1>2, <1>3, <1>4, <1>5, <1>6 DEF LoweringNext

\* Drafts and plans stay good all along.
THEOREM PlansStayGood == LoweringSpec => [](DraftSound /\ PlansSound)
<1>1. LoweringInit => DraftSound /\ PlansSound
  <2> SUFFICES ASSUME LoweringInit PROVE DraftSound /\ PlansSound
    OBVIOUS
  <2>1. loop = "verify" /\ plans = << >> /\ relocations = << >>
    BY DEF LoweringInit
  <2> QED
    BY <2>1 DEF DraftSound, PlansSound
<1>2. /\ LookupsSucceed /\ LookupsSucceed' /\ OriginsInOrder /\ CarriersKept
      /\ DraftSound /\ PlansSound /\ [LoweringNext]_loweringVars
      => DraftSound' /\ PlansSound'
  BY DraftStaysSound, PlansStaySound
<1> QED
  BY <1>1, <1>2, LookupsHold, OriginsKeepOrder, CarriersHold, PTL DEF LoweringSpec

-----------------------------------------------------------------------------
(***************************************************************************)
(* A lowered program is acceptable.                                        *)
(***************************************************************************)

\* What is lowered is what the back end relies on.
LEMMA SoundIsAcceptable ==
    ASSUME LookupsSucceed, CarriersKept, PlansSound
    PROVE  LoweredIsAcceptable
<1> SUFFICES ASSUME loop = "lowered"
             PROVE  /\ LoweringPromises([plans |-> plans, relocations |-> relocations,
                                         entry |-> BlockIndex(function_, function_.entry),
                                         carrier_count |-> next_carrier])
                    /\ \A i \in DOMAIN plans : PlanVerified(plans[i], next_carrier, FormatLimits)
  BY Zenon DEF LoweredIsAcceptable, FormatLimits
<1>1. /\ PlansGood(plans, next_carrier) /\ PatchesGood(relocations, plans, IslandCount)
      /\ Len(plans) = IslandCount /\ IsSequence(plans) /\ IsSequence(relocations)
  BY Zenon DEF PlansSound, PatchesGood, LookupsSucceed
<1>2. /\ Len(plans) \in Nat /\ DOMAIN plans = 1 .. Len(plans)
      /\ Len(relocations) \in Nat /\ DOMAIN relocations = 1 .. Len(relocations)
  BY <1>1, SequenceParts
<1>3. \A i \in 1 .. Len(plans) : GoodPlan(plans[i], next_carrier)
  BY <1>1, Zenon DEF PlansGood
<1>4. plans \in Seq(PrimitivePlan)
  <2>1. \A i \in 1 .. Len(plans) : plans[i] \in PrimitivePlan
    BY <1>3, Zenon DEF GoodPlan
  <2> QED
    BY <1>1, <2>1, SequenceOver, Zenon
<1>5. relocations \in Seq(ContinuationRelocation)
  <2>1. \A r \in 1 .. Len(relocations) : relocations[r] \in ContinuationRelocation
    BY <1>1, Zenon DEF PatchesGood, NamesLiteral
  <2> QED
    BY <1>1, <2>1, SequenceOver, Zenon
<1>6. next_carrier \in Nat /\ next_carrier >= kFirstAllocatedCarrier
  <2>1. next_carrier \in 0 .. MaxCarriers /\ kFirstAllocatedCarrier <= next_carrier
    BY AllocatedAtIslands
  <2> QED
    BY <2>1
<1>7. BlockIndex(function_, function_.entry) \in 1 .. Len(plans)
  <2>1. function_ \in MachineFunction /\ Verified(function_)
    BY TypedSource DEF LookupsSucceed, AfterVerify
  <2>2. function_.entry \in BlockIds(function_)
    BY <2>1, Zenon DEF Verified
  <2>3. BlockIndex(function_, function_.entry) \in 1 .. Len(function_.blocks)
    BY <2>1, <2>2, TargetExists
  <2>4. BlockCount \in Nat /\ Len(edges) \in Nat /\ BlockCount = Len(function_.blocks)
    BY TypedSource, OriginNumbers DEF BlockCount, Blocks
  <2>5. Len(plans) = Len(function_.blocks) + Len(edges) /\ Len(function_.blocks) \in Nat
    BY <1>1, <2>4 DEF IslandCount
  <2> QED
    BY <2>3, <2>4, <2>5
<1>8. PICK program :
          program = [plans |-> plans, relocations |-> relocations,
                     entry |-> BlockIndex(function_, function_.entry),
                     carrier_count |-> next_carrier]
  OBVIOUS
<1>9. /\ program.plans = plans /\ program.relocations = relocations
      /\ program.entry = BlockIndex(function_, function_.entry)
      /\ program.carrier_count = next_carrier
  BY <1>8
<1>10. \A i \in DOMAIN plans :
           /\ ContinuationCarriers \subseteq Written(plans[i])
           /\ Written(plans[i]) \cap ReadOnlyAbi = {}
  BY <1>2, <1>3, Zenon DEF GoodPlan
<1>11. \A r \in DOMAIN relocations :
           LET relocation == relocations[r]
           IN  /\ relocation.target \in 0 .. Len(plans)
               /\ relocation.island \in DOMAIN plans
               /\ relocation.node < NodeCount(plans[relocation.island])
               /\ plans[relocation.island].nodes[relocation.node + 1].kind = "Literal"
  BY <1>1, <1>2, Zenon DEF PatchesGood, NamesLiteral, NodeCount
<1>12. \A q, r \in DOMAIN relocations :
           relocations[q].island = relocations[r].island
               /\ relocations[q].node = relocations[r].node => q = r
  BY <1>1, <1>2, Zenon DEF PatchesGood
<1>13. LoweringPromises(program)
  <2>1. /\ program.carrier_count \in Nat /\ program.carrier_count >= kFirstAllocatedCarrier
        /\ program.plans \in Seq(PrimitivePlan)
        /\ program.relocations \in Seq(ContinuationRelocation)
        /\ program.entry \in DOMAIN program.plans
    BY <1>2, <1>4, <1>5, <1>6, <1>7, <1>9
  <2>2. \A i \in DOMAIN program.plans :
            /\ ContinuationCarriers \subseteq Written(program.plans[i])
            /\ Written(program.plans[i]) \cap ReadOnlyAbi = {}
    BY <1>9, <1>10, Zenon
  <2>3. \A r \in DOMAIN program.relocations :
            LET relocation == program.relocations[r]
            IN  /\ relocation.target \in 0 .. Len(program.plans)
                /\ relocation.island \in DOMAIN program.plans
                /\ relocation.node < NodeCount(program.plans[relocation.island])
                /\ program.plans[relocation.island].nodes[relocation.node + 1].kind = "Literal"
    BY <1>9, <1>11, Zenon
  <2>4. \A q, r \in DOMAIN program.relocations :
            program.relocations[q].island = program.relocations[r].island
                /\ program.relocations[q].node = program.relocations[r].node => q = r
    BY <1>9, <1>12, Zenon
  <2> QED
    BY <2>1, <2>2, <2>3, <2>4, Zenon DEF LoweringPromises, Written
<1>14. \A i \in DOMAIN plans : PlanVerified(plans[i], next_carrier, FormatLimits)
  BY <1>2, <1>3, Zenon DEF GoodPlan
<1> QED
  BY <1>8, <1>13, <1>14, Zenon

\* Every lowered program is one the back end can rely on.
THEOREM LoweredProgramsAreAcceptable == LoweringSpec => []LoweredIsAcceptable
<1>1. LookupsSucceed /\ CarriersKept /\ DraftSound /\ PlansSound => LoweredIsAcceptable
  BY SoundIsAcceptable
<1> QED
  BY <1>1, LookupsHold, CarriersHold, PlansStayGood, PTL

-----------------------------------------------------------------------------
(***************************************************************************)
(* The sidecar's records.                                                  *)
(***************************************************************************)

\* A function of the first numbers is a sequence.
LEMMA FunctionIsSequence ==
    ASSUME NEW n \in Nat, NEW f, f = [i \in 1 .. n |-> f[i]]
    PROVE  IsSequence(f) /\ Len(f) = n
<1> DEFINE T == {f[i] : i \in 1 .. n}
<1>1. DOMAIN f = 1 .. n /\ \A i \in 1 .. n : f[i] \in T
  BY Zenon
<1>2. f \in [1 .. n -> T]
  BY <1>1
<1> HIDE DEF T
<1>3. f \in Seq(T) /\ Len(f) = n
  BY <1>1, <1>2
<1>4. \A i \in 1 .. n : f[i] \in {f[k] : k \in DOMAIN f}
  BY <1>1
<1>5. f \in [1 .. n -> {f[k] : k \in DOMAIN f}]
  BY <1>2, <1>4
<1> QED
  BY <1>3, <1>5, SMTT(30) DEF IsSequence

\* The record of a block's e-th origin.
RecordOfOrigin(record, b, e) ==
    /\ record.origin = OriginsInBlock(Blocks[b])[e] /\ record.island = b

StateRecord(b) ==
    Record(Blocks[b].origin, "physical-island", <<states[b].semantic, states[b].history>>, b)
ParameterRecord(b, n) ==
    Record(Blocks[b].parameters[n].origin, "block-parameter",
           <<values[Blocks[b].parameters[n].id]>>, b)
ActionRecord(b, n) ==
    LET output == Blocks[b].actions[n].output
    IN  IF Produces(Blocks[b].actions[n])
        THEN Record(output.origin, "typed-action", <<values[output.id]>>, b)
        ELSE Record(output.origin, "typed-effect", << >>, b)

RecordParts(b) ==
    /\ IsSequence(BlockRecords(b)) /\ Len(BlockRecords(b)) = Len(OriginsInBlock(Blocks[b]))
    /\ Len(BlockRecords(b)) = 1 + Len(Blocks[b].parameters) + Len(Blocks[b].actions)
    /\ BlockRecords(b)[1] = StateRecord(b)
    /\ \A n \in 1 .. Len(Blocks[b].parameters) :
           BlockRecords(b)[1 + n] = ParameterRecord(b, n)
    /\ \A n \in 1 .. Len(Blocks[b].actions) :
           BlockRecords(b)[1 + Len(Blocks[b].parameters) + n] = ActionRecord(b, n)

\* A block has a record for its state, its parameters and its actions.
LEMMA BlockRecordsAt ==
    ASSUME NEW b, Blocks[b] \in MachineBlock
    PROVE  RecordParts(b)
<1>1. PICK block : block = Blocks[b]
  OBVIOUS
<1>2. PICK P : P = Len(block.parameters)
  OBVIOUS
<1>3. PICK A : A = Len(block.actions)
  OBVIOUS
<1>4. P \in Nat /\ A \in Nat /\ Len(OriginsInBlock(block)) = 1 + P + A
  BY <1>1, <1>2, <1>3, OriginsInBlockAt
<1>5. DOMAIN block.parameters = 1 .. P /\ DOMAIN block.actions = 1 .. A
  <2>1. block.parameters \in Seq(IrValue) /\ block.actions \in Seq(TypedAction)
    BY <1>1 DEF MachineBlock
  <2>2. PICK parameters : parameters = block.parameters
    OBVIOUS
  <2>3. PICK actions : actions = block.actions
    OBVIOUS
  <2>4. parameters \in Seq(IrValue) /\ actions \in Seq(TypedAction)
    BY <2>1, <2>2, <2>3, Zenon
  <2>5. DOMAIN parameters = 1 .. Len(parameters) /\ DOMAIN actions = 1 .. Len(actions)
    <3> HIDE DEF IrValue, TypedAction
    <3> QED
      BY <2>4
  <2> QED
    BY <1>2, <1>3, <2>2, <2>3, <2>5, Zenon
<1>6. PICK first : first = <<StateRecord(b)>>
  OBVIOUS
<1>7. PICK parameters : parameters = [n \in 1 .. P |-> ParameterRecord(b, n)]
  OBVIOUS
<1>8. PICK actions : actions = [n \in 1 .. A |-> ActionRecord(b, n)]
  OBVIOUS
<1>9. BlockRecords(b) = first \o parameters \o actions
  <2>1. parameters = [n \in DOMAIN block.parameters |-> ParameterRecord(b, n)]
    BY <1>5, <1>7, Zenon
  <2>2. actions = [n \in DOMAIN block.actions |-> ActionRecord(b, n)]
    BY <1>5, <1>8, Zenon
  <2> QED
    BY <1>1, <1>6, <2>1, <2>2, Zenon
       DEF BlockRecords, StateRecord, ParameterRecord, ActionRecord
<1>10. IsSequence(first) /\ Len(first) = 1 /\ first[1] = StateRecord(b)
  BY <1>6 DEF IsSequence
<1>11. /\ IsSequence(parameters) /\ Len(parameters) = P
       /\ \A n \in 1 .. P : parameters[n] = ParameterRecord(b, n)
  <2>1. \A n \in 1 .. P : parameters[n] = ParameterRecord(b, n)
    BY <1>7, Zenon
  <2>2. parameters = [n \in 1 .. P |-> parameters[n]]
    BY <1>7
  <2> QED
    BY <1>4, <2>1, <2>2, FunctionIsSequence
<1>12. /\ IsSequence(actions) /\ Len(actions) = A
       /\ \A n \in 1 .. A : actions[n] = ActionRecord(b, n)
  <2>1. \A n \in 1 .. A : actions[n] = ActionRecord(b, n)
    BY <1>8, Zenon
  <2>2. actions = [n \in 1 .. A |-> actions[n]]
    BY <1>8
  <2> QED
    BY <1>4, <2>1, <2>2, FunctionIsSequence
<1>13. PICK front : front = first \o parameters
  OBVIOUS
<1>14. /\ IsSequence(front) /\ Len(front) = 1 + P
       /\ \A k \in 1 .. 1 : front[k] = first[k]
       /\ \A e \in 1 .. P : front[1 + e] = parameters[e]
  <2>1. IsSequence(first) /\ IsSequence(parameters)
    BY <1>10, <1>11
  <2>2. /\ IsSequence(first \o parameters)
        /\ Len(first \o parameters) = Len(first) + Len(parameters)
        /\ \A k \in 1 .. Len(first) : (first \o parameters)[k] = first[k]
        /\ \A e \in 1 .. Len(parameters) :
               (first \o parameters)[Len(first) + e] = parameters[e]
    BY <2>1, ConcatenatedAt
  <2> QED
    BY <1>10, <1>11, <1>13, <2>2, Zenon
<1>15. PICK all : all = front \o actions
  OBVIOUS
<1>16. /\ IsSequence(all) /\ Len(all) = (1 + P) + A
       /\ \A k \in 1 .. (1 + P) : all[k] = front[k]
       /\ \A e \in 1 .. A : all[(1 + P) + e] = actions[e]
  <2>1. IsSequence(front) /\ IsSequence(actions)
    BY <1>12, <1>14
  <2>2. /\ IsSequence(front \o actions)
        /\ Len(front \o actions) = Len(front) + Len(actions)
        /\ \A k \in 1 .. Len(front) : (front \o actions)[k] = front[k]
        /\ \A e \in 1 .. Len(actions) : (front \o actions)[Len(front) + e] = actions[e]
    BY <2>1, ConcatenatedAt
  <2> QED
    BY <1>12, <1>14, <1>15, <2>2, Zenon
<1>17. BlockRecords(b) = all
  BY <1>9, <1>13, <1>15, Zenon
<1>18. all[1] = StateRecord(b)
  <2>1. 1 \in 1 .. 1 /\ 1 \in 1 .. (1 + P)
    BY <1>4
  <2> QED
    BY <1>10, <1>14, <1>16, <2>1, Zenon
<1>19. ASSUME NEW n \in 1 .. P PROVE all[1 + n] = ParameterRecord(b, n)
  <2>1. 1 + n \in 1 .. (1 + P)
    BY <1>4
  <2> QED
    BY <1>11, <1>14, <1>16, <2>1, Zenon
<1>20. \A n \in 1 .. A : all[(1 + P) + n] = ActionRecord(b, n)
  BY <1>12, <1>16, Zenon
<1> QED
  BY <1>1, <1>2, <1>3, <1>4, <1>16, <1>17, <1>18, <1>19, <1>20, Zenon DEF RecordParts

\* Each stands for one of the block's origins.
LEMMA BlockRecordsOriginate ==
    ASSUME NEW b, Blocks[b] \in MachineBlock, NEW e \in 1 .. Len(BlockRecords(b))
    PROVE  RecordOfOrigin(BlockRecords(b)[e], b, e)
<1>1. PICK block : block = Blocks[b]
  OBVIOUS
<1>2. PICK P : P = Len(block.parameters)
  OBVIOUS
<1>3. PICK A : A = Len(block.actions)
  OBVIOUS
<1>4. PICK origins : origins = OriginsInBlock(block)
  OBVIOUS
<1>5. /\ P \in Nat /\ A \in Nat /\ origins[1] = block.origin
      /\ \A i \in 1 .. P : origins[1 + i] = block.parameters[i].origin
      /\ \A n \in 1 .. A : origins[1 + P + n] = block.actions[n].output.origin
  BY <1>1, <1>2, <1>3, <1>4, OriginsInBlockAt DEF action_origin
<1>6. PICK records : records = BlockRecords(b)
  OBVIOUS
<1>7. /\ Len(records) = 1 + P + A /\ records[1] = StateRecord(b)
      /\ \A n \in 1 .. P : records[1 + n] = ParameterRecord(b, n)
      /\ \A n \in 1 .. A : records[1 + P + n] = ActionRecord(b, n)
  BY <1>1, <1>2, <1>3, <1>6, BlockRecordsAt, Zenon DEF RecordParts
<1>8. e \in 1 .. (1 + P + A)
  BY <1>6, <1>7
<1>9. CASE e = 1
  <2>1. StateRecord(b).origin = block.origin /\ StateRecord(b).island = b
    BY <1>1 DEF StateRecord, Record
  <2> QED
    BY <1>1, <1>4, <1>5, <1>6, <1>7, <1>9, <2>1, Zenon DEF RecordOfOrigin
<1>10. CASE e # 1 /\ e <= 1 + P
  <2>1. PICK n : n = e - 1
    OBVIOUS
  <2>2. n \in 1 .. P /\ e = 1 + n
    BY <1>5, <1>8, <1>10, <2>1
  <2>3. ParameterRecord(b, n).origin = block.parameters[n].origin
        /\ ParameterRecord(b, n).island = b
    BY <1>1 DEF ParameterRecord, Record
  <2> QED
    BY <1>1, <1>4, <1>5, <1>6, <1>7, <2>2, <2>3, Zenon DEF RecordOfOrigin
<1>11. CASE ~ e <= 1 + P
  <2>1. PICK n : n = e - (1 + P)
    OBVIOUS
  <2>2. n \in 1 .. A /\ e = 1 + P + n
    BY <1>5, <1>8, <1>11, <2>1
  <2>3. ActionRecord(b, n).origin = block.actions[n].output.origin
        /\ ActionRecord(b, n).island = b
    BY <1>1 DEF ActionRecord, Record
  <2> QED
    BY <1>1, <1>4, <1>5, <1>6, <1>7, <2>2, <2>3, Zenon DEF RecordOfOrigin
<1> QED
  BY <1>9, <1>10, <1>11

\* The sidecar's k-th record is a block's e-th, or an edge's.
OfBlock(k, b, e, start) ==
    /\ b \in 1 .. BlockCount /\ e \in 1 .. Len(BlockRecords(b))
    /\ k = start[b - 1] + e /\ SidecarRecords[k] = BlockRecords(b)[e]
OfEdge(k, e, first) ==
    /\ e \in 1 .. Len(edges) /\ k = first + e /\ SidecarRecords[k] = EdgeRecord(e)

Recorded(record) == \E k \in 1 .. Len(SidecarRecords) : SidecarRecords[k] = record

SidecarParts(start, first) ==
    /\ IsSequence(SidecarRecords)
    /\ \A k \in 1 .. Len(SidecarRecords) :
           (\E b, e : OfBlock(k, b, e, start)) \/ (\E e : OfEdge(k, e, first))
    /\ \A b \in 1 .. BlockCount :
           \A e \in 1 .. Len(BlockRecords(b)) : Recorded(BlockRecords(b)[e])
    /\ \A e \in 1 .. Len(edges) : Recorded(EdgeRecord(e))

\* A sequence over some set is one of its own elements.
LEMMA SequenceOfItsOwn ==
    ASSUME NEW T, NEW s \in Seq(T)
    PROVE  IsSequence(s)
<1>1. DOMAIN s = 1 .. Len(s) /\ Len(s) \in Nat
  OBVIOUS
<1>2. s \in Seq({s[i] : i \in DOMAIN s})
  BY <1>1
<1> QED
  BY <1>2 DEF IsSequence

\* The records of the blocks come first, then those of the edges.
LEMMA SidecarAt ==
    ASSUME LookupsSucceed
    PROVE  \E start, first : SidecarParts(start, first)
<1>1. function_ \in MachineFunction /\ BlockCount \in Nat /\ Len(edges) \in Nat
  BY TypedSource, OriginNumbers
<1>2. ASSUME NEW b \in 1 .. BlockCount PROVE RecordParts(b)
  <2>1. Blocks[b] \in MachineBlock
    BY <1>1, BlockParts, Zenon DEF Blocks, BlockCount
  <2> QED
    BY <2>1, BlockRecordsAt
<1>3. PICK seqs : seqs = [b \in 1 .. BlockCount |-> BlockRecords(b)]
  OBVIOUS
<1>4. \A b \in 1 .. BlockCount : seqs[b] = BlockRecords(b) /\ IsSequence(seqs[b])
  BY <1>2, <1>3, Zenon DEF RecordParts
<1>5. PICK T : T = UNION {{seqs[b][e] : e \in 1 .. Len(seqs[b])} : b \in 1 .. BlockCount}
  OBVIOUS
<1>6. ASSUME NEW b \in 1 .. BlockCount PROVE seqs[b] \in Seq(T)
  <2>1. \A e \in 1 .. Len(seqs[b]) : seqs[b][e] \in T
    BY <1>5
  <2> QED
    BY <1>4, <2>1, SequenceOver, Zenon
<1>7. seqs \in Seq(Seq(T)) /\ Len(seqs) = BlockCount
  <2>1. seqs = [b \in 1 .. BlockCount |-> seqs[b]]
    BY <1>3
  <2>2. IsSequence(seqs) /\ Len(seqs) = BlockCount
    BY <1>1, <2>1, FunctionIsSequence
  <2>3. \A b \in 1 .. Len(seqs) : seqs[b] \in Seq(T)
    BY <1>6, <2>2, Zenon
  <2> QED
    BY <2>2, <2>3, SequenceOver
<1>8. PICK flat : flat = Seqs!FlattenSeq(seqs)
  OBVIOUS
<1>9. PICK start : start = Starts(seqs)
  OBVIOUS
<1>10. Joined(flat, T, seqs, start, BlockCount)
  BY <1>7, <1>8, <1>9, Flattened
<1>11. PICK first : first = start[BlockCount]
  OBVIOUS
<1>12. /\ flat \in Seq(T) /\ Len(flat) = first
       /\ \A b \in 1 .. BlockCount : \A e \in 1 .. Len(seqs[b]) :
              start[b - 1] + e \in 1 .. first /\ flat[start[b - 1] + e] = seqs[b][e]
       /\ \A k \in 1 .. first :
              \E b \in 1 .. BlockCount : \E e \in 1 .. Len(seqs[b]) : k = start[b - 1] + e
  BY <1>10, <1>11, Zenon DEF Joined
<1>13. IsSequence(flat) /\ first \in Nat
  BY <1>12, SequenceOfItsOwn, SequenceParts, Zenon
<1>14. PICK others : others = [e \in 1 .. Len(edges) |-> EdgeRecord(e)]
  OBVIOUS
<1>15. /\ IsSequence(others) /\ Len(others) = Len(edges)
       /\ \A e \in 1 .. Len(edges) : others[e] = EdgeRecord(e)
  <2>1. \A e \in 1 .. Len(edges) : others[e] = EdgeRecord(e)
    BY <1>14, Zenon
  <2>2. others = [e \in 1 .. Len(edges) |-> others[e]]
    BY <1>14
  <2>3. IsSequence(others) /\ Len(others) = Len(edges)
    BY <1>1, <2>2, FunctionIsSequence
  <2> QED
    BY <2>1, <2>3
<1>16. SidecarRecords = flat \o others
  BY <1>3, <1>8, <1>14, Zenon DEF SidecarRecords
<1>17. PICK records : records = SidecarRecords
  OBVIOUS
<1>18. PICK size : size = Len(edges)
  OBVIOUS
<1>19. /\ IsSequence(records) /\ Len(records) = first + size
       /\ \A k \in 1 .. first : records[k] = flat[k]
       /\ \A e \in 1 .. size : records[first + e] = others[e]
  <2>1. IsSequence(flat) /\ IsSequence(others)
    BY <1>13, <1>15
  <2>2. /\ IsSequence(flat \o others)
        /\ Len(flat \o others) = Len(flat) + Len(others)
        /\ \A k \in 1 .. Len(flat) : (flat \o others)[k] = flat[k]
        /\ \A e \in 1 .. Len(others) : (flat \o others)[Len(flat) + e] = others[e]
    <3>1. IsSequence(flat \o others)
      BY <2>1, ConcatenatedAt, Zenon
    <3>2. Len(flat \o others) = Len(flat) + Len(others)
      BY <2>1, ConcatenatedAt, Zenon
    <3>3. \A k \in 1 .. Len(flat) : (flat \o others)[k] = flat[k]
      BY <2>1, ConcatenatedAt, Zenon
    <3>4. \A e \in 1 .. Len(others) : (flat \o others)[Len(flat) + e] = others[e]
      BY <2>1, ConcatenatedAt, SMTT(30)
    <3> QED
      BY <3>1, <3>2, <3>3, <3>4, Zenon
  <2> QED
    BY <1>12, <1>15, <1>16, <1>17, <1>18, <2>2, Zenon
<1>20. size \in Nat
  BY <1>1, <1>18
<1>21. ASSUME NEW b \in 1 .. BlockCount, NEW e \in 1 .. Len(BlockRecords(b))
       PROVE  \E k \in 1 .. Len(records) : k = start[b - 1] + e /\ records[k] = BlockRecords(b)[e]
  <2>1. PICK k : k = start[b - 1] + e
    OBVIOUS
  <2>2. k \in 1 .. first /\ flat[k] = seqs[b][e] /\ seqs[b] = BlockRecords(b)
    BY <1>4, <1>12, <2>1, Zenon
  <2>3. records[k] = BlockRecords(b)[e]
    BY <1>19, <2>2, Zenon
  <2>4. k \in 1 .. Len(records)
    BY <1>13, <1>19, <1>20, <2>2
  <2> QED
    BY <2>1, <2>3, <2>4, Zenon
<1>22. ASSUME NEW e \in 1 .. size
       PROVE  first + e \in 1 .. Len(records) /\ records[first + e] = EdgeRecord(e)
  <2>1. first + e \in 1 .. Len(records)
    BY <1>13, <1>19, <1>20
  <2> QED
    BY <1>15, <1>18, <1>19, <2>1, Zenon
<1>23. ASSUME NEW k \in 1 .. Len(records)
       PROVE  (\E b, e : OfBlock(k, b, e, start)) \/ (\E e : OfEdge(k, e, first))
  <2>1. CASE k \in 1 .. first
    <3>1. PICK b \in 1 .. BlockCount : \E e \in 1 .. Len(seqs[b]) : k = start[b - 1] + e
      BY <1>12, <2>1
    <3>2. PICK e : e \in 1 .. Len(seqs[b]) /\ k = start[b - 1] + e
      BY <3>1
    <3>3. e \in 1 .. Len(BlockRecords(b))
      BY <1>4, <3>2, Zenon
    <3>4. records[k] = BlockRecords(b)[e]
      BY <1>4, <1>12, <1>19, <2>1, <3>2, ZenonT(40)
    <3>5. OfBlock(k, b, e, start)
      BY <1>17, <3>2, <3>3, <3>4, Zenon DEF OfBlock
    <3> QED
      BY <3>5
  <2>2. CASE k \notin 1 .. first
    <3>1. PICK e : e = k - first
      OBVIOUS
    <3>2. e \in 1 .. size /\ k = first + e
      BY <1>13, <1>19, <1>20, <2>2, <3>1
    <3>3. OfEdge(k, e, first)
      BY <1>17, <1>18, <1>22, <3>2, Zenon DEF OfEdge
    <3> QED
      BY <3>3
  <2> QED
    BY <2>1, <2>2
<1>24. \A b \in 1 .. BlockCount :
           \A e \in 1 .. Len(BlockRecords(b)) : Recorded(BlockRecords(b)[e])
  BY <1>17, <1>21, Zenon DEF Recorded
<1>25. \A e \in 1 .. Len(edges) : Recorded(EdgeRecord(e))
  BY <1>17, <1>18, <1>22, Zenon DEF Recorded
<1>26. SidecarParts(start, first)
  BY <1>17, <1>19, <1>23, <1>24, <1>25, Zenon DEF SidecarParts
<1> QED
  BY <1>26

\* No origin of a block, an edge's come after them.
LEMMA BlockOriginsBound ==
    ASSUME function_ \in MachineFunction, NEW b \in 1 .. BlockCount,
           NEW e \in 1 .. Len(OriginsInBlock(Blocks[b]))
    PROVE  /\ OriginsInBlock(Blocks[b])[e] \in Nat
           /\ OriginsInBlock(Blocks[b])[e] <= MaximumOrigin
<1>1. b \in 1 .. Len(function_.blocks) /\ Blocks[b] = function_.blocks[b]
  BY DEF BlockCount, Blocks
<1>2. /\ PlaceOfOrigin(function_, b, e) \in 1 .. Len(OriginsOf(function_))
      /\ OriginsOf(function_)[PlaceOfOrigin(function_, b, e)] = OriginsInBlock(Blocks[b])[e]
  BY <1>1, OriginAtPlace
<1>3. function_.blocks # << >>
  <2>1. function_.blocks \in Seq(MachineBlock)
    BY DEF MachineFunction
  <2>2. PICK blocks : blocks = function_.blocks
    OBVIOUS
  <2>3. blocks = << >> => Len(blocks) = 0
    BY EmptyIsSequence
  <2>4. Len(blocks) # 0
    BY <1>1, <2>2
  <2> QED
    BY <2>2, <2>3, <2>4, Zenon
<1>4. \A n \in 1 .. Len(OriginsOf(function_)) : OriginsOf(function_)[n] <= MaximumOrigin
  BY <1>3, MaximumIsGreatest
<1>5. OriginsOf(function_) \in Seq(Nat)
  BY OriginsAt DEF Joined
<1>6. PICK n : n = PlaceOfOrigin(function_, b, e)
  OBVIOUS
<1>7. PICK origins : origins = OriginsOf(function_)
  OBVIOUS
<1>8. n \in 1 .. Len(origins) /\ origins \in Seq(Nat) /\ origins[n] <= MaximumOrigin
  BY <1>2, <1>4, <1>5, <1>6, <1>7, Zenon
<1>9. origins[n] \in Nat
  BY <1>8
<1> QED
  BY <1>2, <1>6, <1>7, <1>8, <1>9, Zenon

\* A record of a block's e-th origin, and its number.
OriginAt(origin, b, e) ==
    /\ b \in 1 .. Len(function_.blocks)
    /\ e \in 1 .. Len(OriginsInBlock(function_.blocks[b]))
    /\ origin = OriginsInBlock(function_.blocks[b])[e]

LEMMA OneOriginOneNumber ==
    ASSUME function_ \in MachineFunction, Verified(function_),
           NEW origin, NEW b, NEW e, OriginAt(origin, b, e),
           NEW c, NEW f, OriginAt(origin, c, f)
    PROVE  b = c /\ e = f
<1>1. /\ b \in 1 .. Len(function_.blocks)
      /\ e \in 1 .. Len(OriginsInBlock(function_.blocks[b]))
      /\ c \in 1 .. Len(function_.blocks)
      /\ f \in 1 .. Len(OriginsInBlock(function_.blocks[c]))
      /\ OriginsInBlock(function_.blocks[b])[e] = OriginsInBlock(function_.blocks[c])[f]
  BY Zenon DEF OriginAt
<1>2. Distinct(OriginsOf(function_))
  BY Zenon DEF Verified, NamesUnique
<1>3. PICK function : function = function_
  OBVIOUS
<1>4. /\ function \in MachineFunction /\ Distinct(OriginsOf(function))
      /\ b \in 1 .. Len(function.blocks) /\ c \in 1 .. Len(function.blocks)
      /\ e \in 1 .. Len(OriginsInBlock(function.blocks[b]))
      /\ f \in 1 .. Len(OriginsInBlock(function.blocks[c]))
      /\ OriginsInBlock(function.blocks[b])[e] = OriginsInBlock(function.blocks[c])[f]
  BY <1>1, <1>2, <1>3, Zenon
<1> QED
  BY <1>4, OneOriginOnePlace

\* Two records of one origin are one record.
LEMMA RecordsDistinct ==
    ASSUME LookupsSucceed, OriginsInOrder, loop = "lowered"
    PROVE  Distinct([r \in DOMAIN SidecarRecords |-> SidecarRecords[r].origin])
<1>1. PICK start, first : SidecarParts(start, first)
  BY SidecarAt
<1>2. PICK records : records = SidecarRecords
  OBVIOUS
<1>3. DOMAIN records = 1 .. Len(records)
  BY <1>1, <1>2, SequenceParts, Zenon DEF SidecarParts
<1>4. /\ function_ \in MachineFunction /\ BlockCount \in Nat /\ Len(edges) \in Nat
      /\ Verified(function_)
  BY TypedSource, OriginNumbers DEF LookupsSucceed, AfterVerify
<1>5. MaximumOrigin \in Nat
  BY <1>4, FunctionOriginsBound
<1>6. ASSUME NEW k, NEW b, NEW e, OfBlock(k, b, e, start)
      PROVE  /\ OriginAt(records[k].origin, b, e) /\ k = start[b - 1] + e
             /\ records[k].origin \in Nat /\ records[k].origin <= MaximumOrigin
  <2>1. /\ b \in 1 .. BlockCount /\ e \in 1 .. Len(BlockRecords(b)) /\ k = start[b - 1] + e
        /\ records[k] = BlockRecords(b)[e]
    BY <1>2, <1>6, Zenon DEF OfBlock
  <2>2. b \in 1 .. Len(function_.blocks) /\ Blocks[b] = function_.blocks[b]
    BY <2>1 DEF BlockCount, Blocks
  <2>3. Blocks[b] \in MachineBlock
    BY <1>4, <2>2, BlockParts, Zenon
  <2>4. Len(BlockRecords(b)) = Len(OriginsInBlock(Blocks[b]))
    BY <2>3, BlockRecordsAt, Zenon DEF RecordParts
  <2>5. records[k].origin = OriginsInBlock(Blocks[b])[e]
    <3>1. RecordOfOrigin(BlockRecords(b)[e], b, e)
      BY <2>1, <2>3, BlockRecordsOriginate
    <3> QED
      BY <2>1, <3>1, Zenon DEF RecordOfOrigin
  <2>6. /\ OriginsInBlock(Blocks[b])[e] \in Nat
        /\ OriginsInBlock(Blocks[b])[e] <= MaximumOrigin
    BY <1>4, <2>1, <2>4, BlockOriginsBound
  <2> QED
    BY <2>1, <2>2, <2>4, <2>5, <2>6, Zenon DEF OriginAt
<1>7. ASSUME NEW k, NEW e, OfEdge(k, e, first)
      PROVE  /\ e \in Nat \ {0} /\ k = first + e
             /\ records[k].origin = MaximumOrigin + e
  <2>1. e \in 1 .. Len(edges) /\ k = first + e /\ records[k] = EdgeRecord(e)
    BY <1>2, <1>7, Zenon DEF OfEdge
  <2>2. records[k].origin = edges[e].origin
    BY <2>1 DEF EdgeRecord, Record
  <2>3. edges[e].origin = MaximumOrigin + e
    BY <2>1 DEF OriginsInOrder, SyntheticInOrder, AfterValues, AfterVerify
  <2> QED
    BY <1>4, <2>1, <2>2, <2>3
<1>8. ASSUME NEW k \in 1 .. Len(records), NEW l \in 1 .. Len(records),
             records[k].origin = records[l].origin
      PROVE  k = l
  <2>1. /\ (\E b, e : OfBlock(k, b, e, start)) \/ (\E e : OfEdge(k, e, first))
        /\ (\E b, e : OfBlock(l, b, e, start)) \/ (\E e : OfEdge(l, e, first))
    BY <1>1, <1>2, Zenon DEF SidecarParts
  <2>2. ASSUME NEW b, NEW e, OfBlock(k, b, e, start), NEW c, NEW f, OfBlock(l, c, f, start)
        PROVE  k = l
    <3>1. OriginAt(records[k].origin, b, e) /\ k = start[b - 1] + e
      BY <1>6, <2>2, Zenon
    <3>2. OriginAt(records[l].origin, c, f) /\ l = start[c - 1] + f
      BY <1>6, <2>2, Zenon
    <3>3. PICK origin : origin = records[k].origin
      OBVIOUS
    <3>4. OriginAt(origin, b, e) /\ OriginAt(origin, c, f)
      BY <1>8, <3>1, <3>2, <3>3, Zenon
    <3>5. b = c /\ e = f
      BY <1>4, <3>4, OneOriginOneNumber, Zenon
    <3> QED
      BY <3>1, <3>2, <3>5, Zenon
  <2>3. ASSUME NEW b, NEW e, OfBlock(k, b, e, start), NEW f, OfEdge(l, f, first)
        PROVE  FALSE
    <3>1. records[k].origin \in Nat /\ records[k].origin <= MaximumOrigin
      BY <1>6, <2>3, Zenon
    <3>2. f \in Nat \ {0} /\ records[l].origin = MaximumOrigin + f
      BY <1>7, <2>3, Zenon
    <3> QED
      BY <1>5, <1>8, <3>1, <3>2
  <2>4. ASSUME NEW e, OfEdge(k, e, first), NEW c, NEW f, OfBlock(l, c, f, start)
        PROVE  FALSE
    <3>1. records[l].origin \in Nat /\ records[l].origin <= MaximumOrigin
      BY <1>6, <2>4, Zenon
    <3>2. e \in Nat \ {0} /\ records[k].origin = MaximumOrigin + e
      BY <1>7, <2>4, Zenon
    <3> QED
      BY <1>5, <1>8, <3>1, <3>2
  <2>5. ASSUME NEW e, OfEdge(k, e, first), NEW f, OfEdge(l, f, first)
        PROVE  k = l
    <3>1. /\ e \in Nat \ {0} /\ k = first + e /\ records[k].origin = MaximumOrigin + e
          /\ f \in Nat \ {0} /\ l = first + f /\ records[l].origin = MaximumOrigin + f
      BY <1>7, <2>5, Zenon
    <3>2. MaximumOrigin + e = MaximumOrigin + f
      BY <1>8, <3>1, Zenon
    <3>3. e = f
      BY <1>5, <3>1, <3>2
    <3> QED
      BY <3>1, <3>3, Zenon
  <2> QED
    BY <2>1, <2>2, <2>3, <2>4, <2>5, Zenon
<1>9. PICK origins : origins = [r \in DOMAIN records |-> records[r].origin]
  OBVIOUS
<1>10. DOMAIN origins = 1 .. Len(records)
       /\ \A r \in 1 .. Len(records) : origins[r] = records[r].origin
  BY <1>3, <1>9, Zenon
<1>11. Distinct(origins)
  BY <1>8, <1>10, Zenon DEF Distinct
<1> QED
  BY <1>2, <1>9, <1>11, Zenon

\* A value that has a carrier; a record of an island, or a parameter of an edge's
\* target, that names it.
Holds(value, carrier) == \E j \in 1 .. 3 : value.shares[j].carrier = carrier

NamedBy(i, carrier) ==
    \E k \in 1 .. Len(SidecarRecords) :
        /\ SidecarRecords[k].island = i
        /\ \E v \in DOMAIN SidecarRecords[k].values : Holds(SidecarRecords[k].values[v], carrier)

PassedTo(i, carrier) ==
    /\ ~ i <= BlockCount
    /\ \E n \in DOMAIN Blocks[TargetOf(edges[i - BlockCount])].parameters :
           Holds(values[Blocks[TargetOf(edges[i - BlockCount])].parameters[n].id], carrier)

\* A stored value has the carriers of its place.
LEMMA PlacedHolds ==
    ASSUME NEW value, NEW at, NEW carriers, Placed(value, at, carriers),
           NEW carrier \in Span(at)
    PROVE  Holds(value, carrier)
<1>1. at \in Nat /\ \A j \in 1 .. 3 : value.shares[j].carrier = at + j - 1
  BY DEF Placed, Stored
<1>2. carrier \in at .. (at + 2)
  BY DEF Span
<1>3. PICK j : j = carrier - at + 1
  OBVIOUS
<1>4. j \in 1 .. 3 /\ at + j - 1 = carrier
  BY <1>1, <1>2, <1>3
<1>5. value.shares[j].carrier = carrier
  BY <1>1, <1>4, Zenon
<1> QED
  BY <1>4, <1>5, Zenon DEF Holds

\* What a record names.
LEMMA RecordNames ==
    ASSUME NEW record, Recorded(record), NEW v \in DOMAIN record.values, NEW carrier,
           Holds(record.values[v], carrier)
    PROVE  NamedBy(record.island, carrier)
<1>1. PICK k \in 1 .. Len(SidecarRecords) : SidecarRecords[k] = record
  BY Zenon DEF Recorded
<1> QED
  BY <1>1, Zenon DEF NamedBy

\* The state an island leaves is named by one of its records.
LEMMA StateIsNamed ==
    ASSUME LookupsSucceed, CarriersKept, loop = "lowered", NEW i \in 1 .. IslandCount,
           NEW carrier, \/ carrier \in Span(CarrierAt(SemanticPlace(StateOf(i))))
                        \/ carrier \in Span(CarrierAt(HistoryPlace(StateOf(i))))
    PROVE  NamedBy(i, carrier)
<1>1. PICK start, first : SidecarParts(start, first)
  BY SidecarAt
<1>2. PICK b : b = StateOf(i)
  OBVIOUS
<1>3. /\ b \in 1 .. BlockCount /\ i \in Nat /\ BlockCount \in Nat
      /\ i <= BlockCount => i \in 1 .. BlockCount
      /\ ~ i <= BlockCount => i - BlockCount \in 1 .. Len(edges)
  BY <1>2, IslandNumbers
<1>4. PICK state : state = states[b]
  OBVIOUS
<1>5. Holds(state.semantic, carrier) \/ Holds(state.history, carrier)
  <2>1. /\ Placed(state.semantic, CarrierAt(SemanticPlace(b)), next_carrier)
        /\ Placed(state.history, CarrierAt(HistoryPlace(b)), next_carrier)
    BY <1>3, <1>4, StateIsPlaced
  <2>2. \/ carrier \in Span(CarrierAt(SemanticPlace(b)))
        \/ carrier \in Span(CarrierAt(HistoryPlace(b)))
    BY <1>2, Zenon
  <2> QED
    BY <2>1, <2>2, PlacedHolds
<1>6. CASE i <= BlockCount
  <2>1. b = i /\ i \in 1 .. BlockCount
    BY <1>2, <1>3, <1>6 DEF StateOf
  <2>2. Blocks[i] \in MachineBlock
    BY <2>1, TypedSource, BlockParts DEF Blocks, BlockCount
  <2>3. /\ BlockRecords(i)[1] = StateRecord(i)
        /\ Len(BlockRecords(i)) = Len(OriginsInBlock(Blocks[i]))
    BY <2>2, BlockRecordsAt, Zenon DEF RecordParts
  <2>4. 1 \in 1 .. Len(BlockRecords(i))
    BY <2>2, <2>3, BlockOriginFirst
  <2>5. Recorded(StateRecord(i))
    BY <1>1, <2>1, <2>3, <2>4, Zenon DEF SidecarParts
  <2>6. PICK record : record = StateRecord(i)
    OBVIOUS
  <2>7. record.island = i /\ record.values = <<state.semantic, state.history>>
    BY <1>4, <2>1, <2>6 DEF StateRecord, Record
  <2>8. \E v \in DOMAIN record.values : Holds(record.values[v], carrier)
    BY <1>5, <2>7
  <2> QED
    BY <2>5, <2>6, <2>7, <2>8, RecordNames, Zenon
<1>7. CASE ~ i <= BlockCount
  <2>1. PICK e : e = i - BlockCount
    OBVIOUS
  <2>2. e \in 1 .. Len(edges) /\ BlockCount + e = i
    BY <1>3, <1>7, <2>1
  <2>3. b = TargetOf(edges[e])
    BY <1>2, <1>7, <2>1 DEF StateOf
  <2>4. Recorded(EdgeRecord(e))
    BY <1>1, <2>2, Zenon DEF SidecarParts
  <2>5. PICK record : record = EdgeRecord(e)
    OBVIOUS
  <2>6. PICK from : from = states[edges[e].source]
    OBVIOUS
  <2>7. /\ record.island = i
        /\ record.values = <<from.semantic, from.history, state.semantic, state.history>>
    BY <1>4, <2>2, <2>3, <2>5, <2>6 DEF EdgeRecord, Record
  <2>8. \E v \in DOMAIN record.values : Holds(record.values[v], carrier)
    BY <1>5, <2>7
  <2> QED
    BY <2>4, <2>5, <2>7, <2>8, RecordNames, Zenon
<1> QED
  BY <1>6, <1>7

\* A value an item writes is named by its record, or passed to the target.
LEMMA ItemIsNamed ==
    ASSUME LookupsSucceed, CarriersKept, loop = "lowered", NEW i \in 1 .. IslandCount,
           NEW n \in 1 .. ItemsIn(i), ItemWrites(i, n),
           NEW carrier \in Span(CarrierAt(ItemPlace(i, n)))
    PROVE  NamedBy(i, carrier) \/ PassedTo(i, carrier)
<1>1. PICK start, first : SidecarParts(start, first)
  BY SidecarAt
<1>2. /\ i \in Nat /\ BlockCount \in Nat
      /\ i <= BlockCount => i \in 1 .. BlockCount
      /\ ~ i <= BlockCount => i - BlockCount \in 1 .. Len(edges)
  BY IslandNumbers
<1>3. PICK p : p = ItemPlace(i, n)
  OBVIOUS
<1>4. /\ p \in 1 .. ValueCount
      /\ i <= BlockCount => FunctionValues[p] = Blocks[i].actions[n].output
      /\ ~ i <= BlockCount =>
             FunctionValues[p] = Blocks[TargetOf(edges[i - BlockCount])].parameters[n]
  BY <1>3, ItemPlaced
<1>5. PICK value : value = values[FunctionValues[p].id]
  OBVIOUS
<1>6. Holds(value, carrier)
  <2>1. Placed(value, CarrierAt(p), next_carrier)
    BY <1>4, <1>5, ValueIsPlaced
  <2>2. carrier \in Span(CarrierAt(p))
    BY <1>3, Zenon
  <2> QED
    BY <2>1, <2>2, PlacedHolds
<1>7. CASE i <= BlockCount
  <2>1. i \in 1 .. BlockCount /\ n \in 1 .. Len(Blocks[i].actions)
        /\ Produces(Blocks[i].actions[n])
    BY <1>2, <1>7, Zenon DEF ItemsIn, ItemWrites
  <2>2. Blocks[i] \in MachineBlock
    BY <2>1, TypedSource, BlockParts DEF Blocks, BlockCount
  <2>3. PICK P : P = Len(Blocks[i].parameters)
    OBVIOUS
  <2>4. PICK A : A = Len(Blocks[i].actions)
    OBVIOUS
  <2>5. P \in Nat /\ A \in Nat
    BY <2>2, <2>3, <2>4, PartsOfBlock
  <2>6. /\ Len(BlockRecords(i)) = 1 + P + A
        /\ BlockRecords(i)[1 + P + n] = ActionRecord(i, n)
    BY <2>1, <2>2, <2>3, <2>4, BlockRecordsAt, Zenon DEF RecordParts
  <2>7. 1 + P + n \in 1 .. Len(BlockRecords(i))
    BY <2>1, <2>4, <2>5, <2>6
  <2>8. Recorded(ActionRecord(i, n))
    BY <1>1, <2>1, <2>6, <2>7, Zenon DEF SidecarParts
  <2>9. PICK record : record = ActionRecord(i, n)
    OBVIOUS
  <2>10. Blocks[i].actions[n].output = FunctionValues[p]
    BY <1>4, <1>7, Zenon
  <2>11. record.island = i /\ record.values = <<value>>
    BY <1>5, <2>1, <2>9, <2>10 DEF ActionRecord, Record
  <2>12. \E v \in DOMAIN record.values : Holds(record.values[v], carrier)
    BY <1>6, <2>11
  <2> QED
    BY <2>8, <2>9, <2>11, <2>12, RecordNames, Zenon
<1>8. CASE ~ i <= BlockCount
  <2>1. PICK e : e = i - BlockCount
    OBVIOUS
  <2>2. e \in 1 .. Len(edges)
    BY <1>2, <1>8, <2>1
  <2>3. PICK b : b = TargetOf(edges[e])
    OBVIOUS
  <2>4. b \in 1 .. BlockCount /\ Len(edges[e].arguments) = Len(Blocks[b].parameters)
    BY <2>2, <2>3, EdgeOfIsland
  <2>5. n \in 1 .. Len(Blocks[b].parameters)
    BY <1>8, <2>1, <2>4, Zenon DEF ItemsIn
  <2>6. Blocks[b] \in MachineBlock
    BY <2>4, TypedSource, BlockParts DEF Blocks, BlockCount
  <2>7. n \in DOMAIN Blocks[b].parameters
    <3>1. Blocks[b].parameters \in Seq(IrValue)
      BY <2>6 DEF MachineBlock
    <3>2. PICK parameters : parameters = Blocks[b].parameters
      OBVIOUS
    <3>3. parameters \in Seq(IrValue) /\ n \in 1 .. Len(parameters)
      BY <2>5, <3>1, <3>2, Zenon
    <3>4. n \in DOMAIN parameters
      <4> HIDE DEF IrValue
      <4> QED
        BY <3>3
    <3> QED
      BY <3>2, <3>4, Zenon
  <2>8. Holds(values[Blocks[b].parameters[n].id], carrier)
    BY <1>4, <1>5, <1>6, <1>8, <2>1, <2>3, Zenon
  <2> QED
    BY <1>8, <2>1, <2>3, <2>7, <2>8, Zenon DEF PassedTo
<1> QED
  BY <1>7, <1>8

\* What an island writes above the ABI's carriers is named, or passed.
LEMMA WrittenIsNamed ==
    ASSUME LookupsSucceed, CarriersKept, PlansSound, loop = "lowered",
           NEW i \in 1 .. Len(plans), NEW carrier \in Written(plans[i]),
           ~ NamedBy(i, carrier), ~ PassedTo(i, carrier)
    PROVE  carrier < kFirstAllocatedCarrier
<1>1. PlansGood(plans, next_carrier) /\ Len(plans) = IslandCount
  BY Zenon DEF PlansSound
<1>2. i \in 1 .. IslandCount /\ WritesOwn(plans[i], i)
  BY <1>1, Zenon DEF PlansGood
<1>3. carrier \in Spans(IslandPlaces(i)) \/ carrier \in 0 .. 8
  BY <1>2, Zenon DEF WritesOwn
<1>4. CASE carrier \in Spans(IslandPlaces(i))
  <2>1. PICK p \in IslandPlaces(i) : carrier \in Span(CarrierAt(p))
    BY <1>4, Zenon DEF Spans
  <2>2. CASE p \in PlacesOf(i, ItemsIn(i))
    <3>1. PICK n \in 1 .. ItemsIn(i) : ItemWrites(i, n) /\ p = ItemPlace(i, n)
      BY <2>2, Zenon DEF PlacesOf
    <3> QED
      BY <1>2, <2>1, <3>1, ItemIsNamed
  <2>3. CASE p = SemanticPlace(StateOf(i)) \/ p = HistoryPlace(StateOf(i))
    <3>1. \/ carrier \in Span(CarrierAt(SemanticPlace(StateOf(i))))
          \/ carrier \in Span(CarrierAt(HistoryPlace(StateOf(i))))
      BY <2>1, <2>3, Zenon
    <3> QED
      BY <1>2, <3>1, StateIsNamed
  <2> QED
    BY <2>1, <2>2, <2>3, Zenon DEF IslandPlaces
<1>5. CASE carrier \in 0 .. 8
  BY <1>5 DEF kFirstAllocatedCarrier
<1> QED
  BY <1>3, <1>4, <1>5

\* The carriers of some values, of what an island's records name, and of what is
\* passed to an edge's target.
CarriersOf(physical) == UNION {{v.shares[i].carrier : i \in 1 .. 3} : v \in physical}

Named(island) ==
    UNION {CarriersOf({SidecarRecords[r].values[v] : v \in DOMAIN SidecarRecords[r].values}) :
           r \in {r \in DOMAIN SidecarRecords : SidecarRecords[r].island = island}}

Passed(island) ==
    IF island <= BlockCount THEN {}
    ELSE LET parameters == Blocks[TargetOf(edges[island - BlockCount])].parameters
         IN  CarriersOf({values[parameters[n].id] : n \in DOMAIN parameters})

\* A value that holds a carrier gives it to the values it is one of.
LEMMA HeldIsIn ==
    ASSUME NEW physical, NEW value \in physical, NEW carrier, Holds(value, carrier)
    PROVE  carrier \in CarriersOf(physical)
<1>1. carrier \in {value.shares[i].carrier : i \in 1 .. 3}
  BY DEF Holds
<1> QED
  BY <1>1, Zenon DEF CarriersOf

\* The sidecar accounts for what is written.
LEMMA SidecarIsComplete ==
    ASSUME LookupsSucceed, OriginsInOrder, CarriersKept, PlansSound
    PROVE  SidecarAccountsForWrites
<1>1. SUFFICES ASSUME loop = "lowered",
                      NEW i \in DOMAIN plans, NEW carrier \in Written(plans[i]),
                      carrier \notin Named(i), carrier \notin Passed(i)
               PROVE  carrier < kFirstAllocatedCarrier
  BY RecordsDistinct, Zenon
  DEF SidecarAccountsForWrites, Written, Named, Passed, CarriersOf
<1>2. PICK start, first : SidecarParts(start, first)
  BY SidecarAt
<1>3. DOMAIN SidecarRecords = 1 .. Len(SidecarRecords)
  BY <1>2, SequenceParts, Zenon DEF SidecarParts
<1>4. i \in 1 .. Len(plans)
  BY SequenceParts, Zenon DEF LookupsSucceed
<1>5. ASSUME NamedBy(i, carrier) PROVE carrier \in Named(i)
  <2>1. PICK k \in 1 .. Len(SidecarRecords) :
            /\ SidecarRecords[k].island = i
            /\ \E v \in DOMAIN SidecarRecords[k].values :
                   Holds(SidecarRecords[k].values[v], carrier)
    BY <1>5, Zenon DEF NamedBy
  <2>2. PICK v \in DOMAIN SidecarRecords[k].values :
            Holds(SidecarRecords[k].values[v], carrier)
    BY <2>1
  <2>3. PICK physical :
            physical = {SidecarRecords[k].values[w] : w \in DOMAIN SidecarRecords[k].values}
    OBVIOUS
  <2>4. PICK value : value = SidecarRecords[k].values[v]
    OBVIOUS
  <2>5. value \in physical /\ Holds(value, carrier)
    BY <2>2, <2>3, <2>4, Zenon
  <2>6. carrier \in CarriersOf(physical)
    BY <2>5, HeldIsIn
  <2>7. k \in {r \in DOMAIN SidecarRecords : SidecarRecords[r].island = i}
    BY <1>3, <2>1, Zenon
  <2> QED
    BY <2>3, <2>6, <2>7, Zenon DEF Named
<1>6. ASSUME PassedTo(i, carrier) PROVE carrier \in Passed(i)
  <2>1. PICK parameters : parameters = Blocks[TargetOf(edges[i - BlockCount])].parameters
    OBVIOUS
  <2>2. PICK n \in DOMAIN parameters : Holds(values[parameters[n].id], carrier)
    BY <1>6, <2>1, Zenon DEF PassedTo
  <2>3. PICK physical : physical = {values[parameters[m].id] : m \in DOMAIN parameters}
    OBVIOUS
  <2>4. values[parameters[n].id] \in physical
    BY <2>3, Zenon
  <2>5. carrier \in CarriersOf(physical)
    BY <2>2, <2>4, HeldIsIn, Zenon
  <2>6. ~ i <= BlockCount
    BY <1>6, Zenon DEF PassedTo
  <2> QED
    BY <2>1, <2>3, <2>5, <2>6, Zenon DEF Passed
<1>7. ~ NamedBy(i, carrier) /\ ~ PassedTo(i, carrier)
  BY <1>1, <1>5, <1>6, Zenon
<1> QED
  BY <1>1, <1>4, <1>7, WrittenIsNamed, Zenon

\* Each origin has one record, and what an island writes belongs to a value one of
\* its records names, or to a parameter of its target.
THEOREM SidecarAccounts == LoweringSpec => []SidecarAccountsForWrites
<1>1. LookupsSucceed /\ OriginsInOrder /\ CarriersKept /\ DraftSound /\ PlansSound
          => SidecarAccountsForWrites
  BY SidecarIsComplete
<1> QED
  BY <1>1, LookupsHold, OriginsKeepOrder, CarriersHold, PlansStayGood, PTL
==============================================================================
