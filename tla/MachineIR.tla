------------------------------- MODULE MachineIR -------------------------------
(***************************************************************************)
(* MachineIR functions and their verifier (machine_ir.cpp).  A function is *)
(* a record with its entry, the domains of its arguments, its blocks and   *)
(* the texts of its labels.  An action is a record with the fields any     *)
(* action may have: its kind, the operation of a binary or unary action,   *)
(* the operands in the order of the source's fields, the argument index,   *)
(* constant, condition or width as its immediate, and its output, which    *)
(* for a store is only an origin.                                          *)
(***************************************************************************)
EXTENDS MachineWord, Integers, Sequences, FiniteSets

Seqs == INSTANCE SequencesExt

(***************************************************************************)
(* is_valid_utf8: labels reach the sidecar, whose JSON has to be UTF-8.  A *)
(* text is a sequence of bytes.                                            *)
(***************************************************************************)

is_continuation_byte(byte) == byte \in 128 .. 191

\* Mutant: surrogates and values above 10FFFF pass.
SecondBytesUnrestricted(first) ==
    IF first = 224 THEN 160 .. 191 ELSE IF first = 240 THEN 144 .. 191 ELSE 128 .. 191

\* What may follow the first byte of a sequence of three or four.
SecondBytes(first) ==
    CASE first = 224 -> 160 .. 191
      [] first = 237 -> 128 .. 159
      [] first = 240 -> 144 .. 191
      [] first = 244 -> 128 .. 143
      [] OTHER       -> 128 .. 191

\* The length of the sequence a byte starts, 0 when it starts none.
SequenceLength(first) ==
    CASE first <= 127         -> 1
      [] first \in 194 .. 223 -> 2
      [] first \in 224 .. 239 -> 3
      [] first \in 240 .. 244 -> 4
      [] OTHER                -> 0

\* The text has a whole, valid sequence at a position.
SequenceAt(text, index) ==
    LET length == SequenceLength(text[index])
    IN  /\ length # 0
        /\ index + length - 1 <= Len(text)
        /\ length > 1 => text[index + 1] \in SecondBytes(text[index])
        /\ \A i \in 2 .. (length - 1) : is_continuation_byte(text[index + i])

is_valid_utf8(text) ==
    LET from[index \in 1 .. (Len(text) + 1)] ==
            \/ index = Len(text) + 1
            \/ SequenceAt(text, index) /\ from[index + SequenceLength(text[index])]
    IN  from[1]

-----------------------------------------------------------------------------
IntegerBinaryOperator ==
    {"Add", "Subtract", "Multiply", "Xor", "And", "Or", "ShiftLeft", "ShiftRightLogical",
     "ShiftRightArithmetic", "RotateLeft", "RotateRight"}

IntegerUnaryOperator == {"BitwiseNot", "Negate"}

DataDomain == {"Integer", "Address", "Boolean"}

ValueDomain ==
    DataDomain \cup {"Semantic", "History", "ContinuationLane", "ContinuationProof"}

\* The operands an action of each kind has, the edges a terminator of each kind.
OperandCount ==
    [Argument |-> 0, Constant |-> 0, Binary |-> 2, Unary |-> 1, Compare |-> 2, Load |-> 1,
     Store |-> 2]

EdgeCount == [None |-> 0, Jump |-> 1, Branch |-> 2, Return |-> 0]

Produces(action) == action.kind # "Store"

(***************************************************************************)
(* The types: ids, indices and origins are unsigned.  A terminator of kind *)
(* None is one that was never set.                                         *)
(***************************************************************************)

IrValue == [id : Nat, domain : ValueDomain, origin : Nat]

TypedAction ==
    {action \in [kind : DOMAIN OperandCount, operation : STRING, operands : Seq(Nat),
                 immediate : Nat, output : IrValue \cup [origin : Nat]] :
        /\ Len(action.operands) = OperandCount[action.kind]
        /\ Produces(action) => action.output \in IrValue}

BlockEdge == [target : Nat, arguments : Seq(Nat)]

BlockTerminator ==
    {terminator \in [kind : DOMAIN EdgeCount, value : Nat, edges : Seq(BlockEdge)] :
        Len(terminator.edges) = EdgeCount[terminator.kind]}

MachineBlock ==
    [id : Nat, origin : Nat, parameters : Seq(IrValue), actions : Seq(TypedAction),
     terminator : BlockTerminator]

MachineFunction ==
    [entry : Nat, argument_domains : Seq(ValueDomain), blocks : Seq(MachineBlock),
     texts : SUBSET Seq(0 .. 255)]

\* The optional value of an action, and action_origin.
produced_value(action) == IF Produces(action) THEN <<action.output>> ELSE << >>

action_origin(action) == action.output.origin

\* A block's values in the order they are checked, and allocated.
ValuesOf(block) ==
    block.parameters
        \o Seqs!FlattenSeq([n \in 1 .. Len(block.actions) |-> produced_value(block.actions[n])])

BlockIds(function) == {function.blocks[b].id : b \in DOMAIN function.blocks}

BlockIndex(function, id) ==
    CHOOSE b \in DOMAIN function.blocks : function.blocks[b].id = id

\* A block's edges, in order: one of a jump, two of a branch, none of a return.
EdgesOf(block) == block.terminator.edges

Distinct(sequence) ==
    \A i, j \in DOMAIN sequence : sequence[i] = sequence[j] => i = j

(***************************************************************************)
(* The first loop: names and origins.                                      *)
(***************************************************************************)

OriginsOf(function) ==
    Seqs!FlattenSeq([b \in 1 .. Len(function.blocks) |->
        LET block == function.blocks[b]
        IN  <<block.origin>>
                \o [n \in 1 .. Len(block.parameters) |-> block.parameters[n].origin]
                \o [n \in 1 .. Len(block.actions) |-> action_origin(block.actions[n])]])

AllValues(function) ==
    Seqs!FlattenSeq([b \in 1 .. Len(function.blocks) |-> ValuesOf(function.blocks[b])])

NamesUnique(function) ==
    /\ \A text \in function.texts : is_valid_utf8(text)
    /\ Distinct([b \in DOMAIN function.blocks |-> function.blocks[b].id])
    /\ Distinct(OriginsOf(function))
    /\ \A n \in DOMAIN OriginsOf(function) : OriginsOf(function)[n] # 0
    /\ LET values == AllValues(function)
       IN  /\ Distinct([n \in DOMAIN values |-> values[n].id])
           /\ \A n \in DOMAIN values : values[n].domain \in DataDomain

(***************************************************************************)
(* The second loop: actions and terminators, block by block.               *)
(***************************************************************************)

\* A block's parameters and what its first actions produce.
FirstValues(block, count) ==
    {block.parameters[i] : i \in DOMAIN block.parameters}
        \cup {block.actions[m].output : m \in {m \in 1 .. count : Produces(block.actions[m])}}

DomainsById(values) ==
    [id \in {value.id : value \in values} |->
        (CHOOSE value \in values : value.id = id).domain]

\* Mutant: an action's output is available to the action itself.
AvailableToItself(block, n) ==
    DomainsById(FirstValues(block, IF n > Len(block.actions) THEN n - 1 ELSE n))

\* The values a block's n-th action may use, as the domain of each id: its
\* parameters and what earlier actions of the block produced.
Available(block, n) == DomainsById(FirstValues(block, n - 1))

AtTerminator(block) == Len(block.actions) + 1

\* require_domain
Requires(available, id, domain) == id \in DOMAIN available /\ available[id] = domain

ActionValid(function, block, n) ==
    LET action == block.actions[n]
        available == Available(block, n)
        output == action.output
        operand(i) == action.operands[i]
        integers == \A i \in DOMAIN action.operands : Requires(available, operand(i), "Integer")
    IN  CASE action.kind = "Argument" ->
               /\ block.id = function.entry
               /\ action.immediate < Len(function.argument_domains)
               /\ output.domain = function.argument_domains[action.immediate + 1]
          [] action.kind = "Constant" -> output.domain = "Boolean" => action.immediate <= 1
          [] action.kind = "Binary" ->
               action.operation \in IntegerBinaryOperator /\ output.domain = "Integer" /\ integers
          [] action.kind = "Unary" ->
               action.operation \in IntegerUnaryOperator /\ output.domain = "Integer" /\ integers
          [] action.kind = "Compare" ->
               /\ action.immediate \in 0 .. 5
               /\ output.domain = "Boolean"
               /\ \E domain \in {"Integer", "Address"} :
                      \A i \in 1 .. 2 : Requires(available, operand(i), domain)
          [] action.kind = "Load" ->
               /\ output.domain = "Integer"
               /\ action.immediate \in {1, WordBytes}
               /\ Requires(available, operand(1), "Address")
          [] action.kind = "Store" ->
               /\ action.immediate \in {1, WordBytes}
               /\ Requires(available, operand(1), "Address")
               /\ Requires(available, operand(2), "Integer")

\* verify_edge
EdgeValid(function, block, edge) ==
    /\ edge.target \in BlockIds(function)
    /\ LET parameters == function.blocks[BlockIndex(function, edge.target)].parameters
       IN  /\ Len(edge.arguments) = Len(parameters)
           /\ \A i \in DOMAIN edge.arguments :
                  Requires(Available(block, AtTerminator(block)), edge.arguments[i],
                           parameters[i].domain)

TerminatorValid(function, block) ==
    LET available == Available(block, AtTerminator(block))
        value == block.terminator.value
    IN  /\ CASE block.terminator.kind = "Jump"   -> TRUE
             [] block.terminator.kind = "Branch" -> Requires(available, value, "Boolean")
             [] block.terminator.kind = "Return" -> Requires(available, value, "Integer")
             [] OTHER -> FALSE
        /\ \A e \in DOMAIN EdgesOf(block) : EdgeValid(function, block, EdgesOf(block)[e])

\* seen_arguments: each argument is materialised exactly once.
ArgumentsSeen(function) ==
    LET seen == SelectSeq(function.blocks[BlockIndex(function, function.entry)].actions,
                          LAMBDA action : action.kind = "Argument")
    IN  /\ Distinct([n \in DOMAIN seen |-> seen[n].immediate])
        /\ {seen[n].immediate : n \in DOMAIN seen} = 0 .. (Len(function.argument_domains) - 1)

\* The blocks the work queue reaches from the entry, in so many rounds.
Reached(function, rounds) ==
    LET after[n \in 0 .. rounds] ==
            IF n = 0 THEN {function.entry}
            ELSE LET before == after[n - 1]
                 IN  before \cup UNION {
                         {EdgesOf(function.blocks[b])[e].target :
                              e \in DOMAIN EdgesOf(function.blocks[b])} :
                         b \in {b \in DOMAIN function.blocks : function.blocks[b].id \in before}}
    IN  after[rounds]

\* verify_machine_ir
Verified(function) ==
    /\ function.blocks # << >>
    /\ NamesUnique(function)
    /\ function.entry \in BlockIds(function)
    /\ function.blocks[BlockIndex(function, function.entry)].parameters = << >>
    /\ \A b \in DOMAIN function.blocks :
           LET block == function.blocks[b]
           IN  /\ \A n \in DOMAIN block.actions : ActionValid(function, block, n)
               /\ TerminatorValid(function, block)
    /\ ArgumentsSeen(function)
    /\ Reached(function, Len(function.blocks)) = BlockIds(function)
=============================================================================
