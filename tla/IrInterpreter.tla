----------------------------- MODULE IrInterpreter -----------------------------
(***************************************************************************)
(* What a MachineIR function means, which is what its compiled module has  *)
(* to do: a run goes from block to block.  A block computes its values     *)
(* from its parameters and from the memory before it, its stores take      *)
(* effect together when it ends, and an edge gives all of the target's     *)
(* parameters their values at once.  There are no carriers, no shares, no  *)
(* islands and no continuations here.                                      *)
(***************************************************************************)
EXTENDS MachineIR, WordArithmetic, TLC

CONSTANTS
    Sources,    \* functions with a memory size and initial data
    ByteBase,   \* the number of values of a byte
    Arguments,  \* the argument lists a run may begin with
    NoResult

VARIABLES
    source,
    status,     \* idle, running, returned, faulted or stopped
    arguments,
    block,      \* the number of the block to execute, 0 when there is none
    parameters, \* the values of its parameters
    memory,
    result

irVars == <<source, status, arguments, block, parameters, memory, result>>

IrBlock == source.function.blocks[block]

IsTrue(word) == word # 0
AsBoolean(word) == IF word = 0 THEN 0 ELSE 1

Meaning(operation, a, b) ==
    CASE operation = "Add" -> WordAdd(a, b)
      [] operation = "Subtract" -> WordSub(a, b)
      [] operation = "Multiply" -> WordMul(a, b)
      [] operation = "Xor" -> WordXor(a, b)
      [] operation = "And" -> WordAnd(a, b)
      [] operation = "Or" -> WordOr(a, b)
      [] operation = "ShiftLeft" -> WordShl(a, b)
      [] operation = "ShiftRightLogical" -> WordShr(a, b)
      [] operation = "ShiftRightArithmetic" -> WordSar(a, b)
      [] operation = "RotateLeft" -> WordRol(a, b)
      [] operation = "RotateRight" -> WordRor(a, b)

InMemory(address, width) == address + width <= source.memory_size

Loaded(address, width) ==
    LET byte(i) == memory[address + i] * ByteBase ^ i
    IN  IF width = 1 THEN byte(0) ELSE byte(0) + byte(1)

\* The value an action produces, given those before it.
Produced(action, known) ==
    LET operand(i) == known[action.operands[i]]
    IN  CASE action.kind = "Argument" ->
               IF action.output.domain = "Boolean"
               THEN AsBoolean(arguments[action.immediate + 1])
               ELSE arguments[action.immediate + 1]
          [] action.kind = "Constant" -> action.immediate
          [] action.kind = "Binary" -> Meaning(action.operation, operand(1), operand(2))
          [] action.kind = "Unary" ->
               IF action.operation = "Negate" THEN WordNeg(operand(1)) ELSE WordNot(operand(1))
          [] action.kind = "Compare" ->
               IF Holds(action.immediate, operand(1), operand(2)) THEN 1 ELSE 0
          [] action.kind = "Load" ->
               IF InMemory(operand(1), action.immediate)
               THEN Loaded(operand(1), action.immediate) ELSE 0

\* The values of a block by their ids.
Known(b) ==
    LET given == [id \in {b.parameters[n].id : n \in DOMAIN b.parameters} |->
                     parameters[CHOOSE n \in DOMAIN b.parameters : b.parameters[n].id = id]]
        after[n \in 0 .. Len(b.actions)] ==
            IF n = 0 THEN given
            ELSE LET action == b.actions[n]
                     before == after[n - 1]
                 IN  IF Produces(action)
                     THEN before @@ (action.output.id :> Produced(action, before))
                     ELSE before
    IN  after[Len(b.actions)]

ActionsOf(b, kind) == {n \in DOMAIN b.actions : b.actions[n].kind = kind}

\* The bytes a load or a store touches.
Touched(action, known) ==
    LET address == known[action.operands[1]]
    IN  address .. (address + action.immediate - 1)

\* A block that leaves memory, or stores twice to one byte, has no effect.
Faulty(b, known) ==
    LET touched(n) == Touched(b.actions[n], known)
        stores == ActionsOf(b, "Store")
    IN  \/ \E n \in ActionsOf(b, "Load") \cup stores :
               \E a \in touched(n) : a >= source.memory_size
        \/ \E n, m \in stores : n # m /\ touched(n) \cap touched(m) # {}

\* The memory a block leaves.
Stored(b, known) ==
    LET storing(a) == {n \in ActionsOf(b, "Store") : a \in Touched(b.actions[n], known)}
        byte(action, a) == (known[action.operands[2]]
                               \div ByteBase ^ (a - known[action.operands[1]])) % ByteBase
    IN  [a \in DOMAIN memory |->
            IF storing(a) = {} THEN memory[a]
                               ELSE byte(b.actions[CHOOSE n \in storing(a) : TRUE], a)]

\* The edge a block leaves by.
Taken(b, known) ==
    IF b.terminator.kind = "Branch" /\ ~ IsTrue(known[b.terminator.value])
    THEN EdgesOf(b)[2] ELSE EdgesOf(b)[1]

IrInit ==
    /\ source \in Sources
    /\ status = "idle"
    /\ arguments = << >>
    /\ block = 0
    /\ parameters = << >>
    /\ memory = << >>
    /\ result = NoResult

Enter ==
    /\ status = "idle"
    /\ status' = "running"
    /\ arguments' \in Arguments
    /\ Len(arguments') = Len(source.function.argument_domains)
    /\ block' = BlockIndex(source.function, source.function.entry)
    /\ memory' = [a \in 0 .. (source.memory_size - 1) |->
                     IF a < Len(source.initial_data) THEN source.initial_data[a + 1] ELSE 0]
    /\ UNCHANGED <<source, parameters, result>>

FollowEdge ==
    /\ status = "running"
    /\ \E b \in {IrBlock} :
           /\ b.terminator.kind # "Return"
           /\ \E known \in {Known(b)} :
                  /\ ~ Faulty(b, known)
                  /\ memory' = Stored(b, known)
                  /\ block' = BlockIndex(source.function, Taken(b, known).target)
                  /\ parameters' = [n \in DOMAIN Taken(b, known).arguments |->
                                       known[Taken(b, known).arguments[n]]]
    /\ UNCHANGED <<source, status, arguments, result>>

Return ==
    /\ status = "running"
    /\ \E b \in {IrBlock} :
           /\ b.terminator.kind = "Return"
           /\ \E known \in {Known(b)} :
                  /\ ~ Faulty(b, known)
                  /\ memory' = Stored(b, known)
                  /\ result' = known[b.terminator.value]
    /\ status' = "returned"
    /\ block' = 0
    /\ parameters' = << >>
    /\ UNCHANGED <<source, arguments>>

Fault ==
    /\ status = "running"
    /\ \E b \in {IrBlock} : Faulty(b, Known(b))
    /\ status' = "faulted"
    /\ UNCHANGED <<source, arguments, block, parameters, memory, result>>

\* The run's budget is used up.
GiveUp ==
    /\ status = "running"
    /\ status' = "stopped"
    /\ UNCHANGED <<source, arguments, block, parameters, memory, result>>

IrNext == Enter \/ FollowEdge \/ Return \/ Fault \/ GiveUp

IrSpec == IrInit /\ [][IrNext]_irVars
=============================================================================
