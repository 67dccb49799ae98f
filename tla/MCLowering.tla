------------------------------ MODULE MCLowering ------------------------------
(***************************************************************************)
(* Functions to compile: the factorial of examples.cpp, small ones for     *)
(* what the factorial does not do, the same at the ends of the origins,    *)
(* the carriers and the node ids, and functions with one thing wrong.      *)
(* Origins count from one in the order blocks and values are written,      *)
(* unless a sample is about origins.  The word has eight bits.             *)
(***************************************************************************)
EXTENDS Lowering, WordArithmetic


\* The scaled parameters of the mixing functions.
MCMixParameters ==
    [gamma |-> 157, delta |-> 209, up |-> 2, down |-> 1,
     shifts |-> <<4, 3, 4>>, factors |-> <<185, 235>>]

\* The constants salts are named for: different words, the first two odd.
TagNames ==
    <<"origin", "slot", "allocator", "compiler", "second", "lane shares", "proof shares",
      "STORE", "VALUE", "ACTIONFOLD", "EDGEVAL", "EDGEFOLD", "RETURN",
      "SEMANTIC", "HISTORY", "SEMDSHR", "HISTSHR", "CONTINUE",
      "EDGESEM", "EDGEHIS", "ESEMSHR", "EHISSHR", "EDGECONT",
      "SEMINIT", "HISINIT", "INITSH1", "INITSH2",
      "ENTRYL1", "ENTRYL2", "ENTRYP1", "ENTRYP2", "RETINIT1", "RETINIT2">>
MCTag(name) ==
    (37 + 46 * (CHOOSE n \in DOMAIN TagNames : TagNames[n] = name)) % 256

Value(id, domain, origin) == [id |-> id, domain |-> domain, origin |-> origin]
IntVal(id, origin) == Value(id, "Integer", origin)
AddrVal(id, origin) == Value(id, "Address", origin)
BoolVal(id, origin) == Value(id, "Boolean", origin)

Action(kind, operation, operands, immediate, output) ==
    [kind |-> kind, operation |-> operation, operands |-> operands,
     immediate |-> immediate, output |-> output]
Argument(output, index) == Action("Argument", "", << >>, index, output)
Constant(output, word) == Action("Constant", "", << >>, word, output)
BinaryOf(output, operation, left, right) ==
    Action("Binary", operation, <<left, right>>, 0, output)
UnaryOf(output, operation, input) == Action("Unary", operation, <<input>>, 0, output)
CompareOf(output, condition, left, right) ==
    Action("Compare", "", <<left, right>>, condition, output)
LoadOf(output, address, width) == Action("Load", "", <<address>>, width, output)
StoreOf(origin, address, stored, width) ==
    Action("Store", "", <<address, stored>>, width, [origin |-> origin])

EdgeTo(target, arguments) == [target |-> target, arguments |-> arguments]
JumpTo(target, arguments) ==
    [kind |-> "Jump", value |-> 0, edges |-> <<EdgeTo(target, arguments)>>]
BranchOn(condition, when_true, when_false) ==
    [kind |-> "Branch", value |-> condition, edges |-> <<when_true, when_false>>]
ReturnOf(id) == [kind |-> "Return", value |-> id, edges |-> << >>]

BlockOf(id, origin, parameters, actions, terminator) ==
    [id |-> id, origin |-> origin, parameters |-> parameters, actions |-> actions,
     terminator |-> terminator]

FunctionOf(argument_domains, blocks) ==
    [entry |-> blocks[1].id, argument_domains |-> argument_domains, blocks |-> blocks,
     texts |-> {}]

SourceOf(function, memory_size, initial_data) ==
    [function |-> function, memory_size |-> memory_size, initial_data |-> initial_data]

\* build_factorial_ir
Factorial ==
    FunctionOf(<<"Integer">>,
        <<BlockOf(0, 1, << >>,
              <<Argument(IntVal(1, 10), 0), Constant(IntVal(2, 11), 1)>>,
              JumpTo(1, <<1, 2>>)),
          BlockOf(1, 2, <<IntVal(3, 12), IntVal(4, 13)>>,
              <<Constant(IntVal(5, 14), 1), CompareOf(BoolVal(6, 15), 3, 3, 5)>>,
              BranchOn(6, EdgeTo(3, <<4>>), EdgeTo(2, <<3, 4>>))),
          BlockOf(2, 3, <<IntVal(7, 16), IntVal(8, 17)>>,
              <<BinaryOf(IntVal(9, 18), "Multiply", 8, 7), Constant(IntVal(10, 19), 1),
                BinaryOf(IntVal(11, 20), "Subtract", 7, 10)>>,
              JumpTo(1, <<11, 9>>)),
          BlockOf(3, 4, <<IntVal(12, 21)>>, << >>, ReturnOf(12))>>)

\* A loop edge to its own block that exchanges two parameters.
Exchange ==
    FunctionOf(<<"Integer", "Integer">>,
        <<BlockOf(7, 1, << >>,
              <<Argument(IntVal(1, 2), 0), Argument(IntVal(2, 3), 1), Constant(BoolVal(3, 4), 0)>>,
              JumpTo(4, <<1, 2, 3>>)),
          BlockOf(4, 5, <<IntVal(4, 6), IntVal(5, 7), BoolVal(6, 8)>>, <<Constant(BoolVal(7, 9), 1)>>,
              BranchOn(6, EdgeTo(2, <<4, 5>>), EdgeTo(4, <<5, 4, 7>>))),
          BlockOf(2, 10, <<IntVal(8, 11), IntVal(9, 12)>>, <<BinaryOf(IntVal(10, 13), "Subtract", 8, 9)>>,
              ReturnOf(10))>>)

\* A load after a store of its block sees the memory from before the block; the
\* next block sees the store.
StoreThenLoad ==
    FunctionOf(<<"Address", "Integer">>,
        <<BlockOf(0, 1, << >>,
              <<Argument(AddrVal(1, 2), 0), Argument(IntVal(2, 3), 1), StoreOf(4, 1, 2, WordBytes),
                LoadOf(IntVal(3, 5), 1, WordBytes)>>,
              JumpTo(1, <<1, 3>>)),
          BlockOf(1, 6, <<AddrVal(4, 7), IntVal(5, 8)>>,
              <<LoadOf(IntVal(6, 9), 4, 1), BinaryOf(IntVal(7, 10), "Xor", 5, 6)>>,
              ReturnOf(7))>>)

\* Two stores that may overlap or leave memory, and a load that may.
TwoStores ==
    FunctionOf(<<"Address", "Address">>,
        <<BlockOf(0, 1, << >>,
              <<Argument(AddrVal(1, 2), 0), Argument(AddrVal(2, 3), 1), Constant(IntVal(3, 4), 35),
                StoreOf(5, 1, 3, WordBytes), StoreOf(6, 2, 3, 1)>>,
              JumpTo(1, <<2>>)),
          BlockOf(1, 7, <<AddrVal(4, 8)>>, <<LoadOf(IntVal(5, 9), 4, WordBytes)>>, ReturnOf(5))>>)

\* A Boolean argument crosses an edge; both edges of a branch have one target.
Flag ==
    FunctionOf(<<"Boolean">>,
        <<BlockOf(0, 1, << >>,
              <<Argument(BoolVal(1, 2), 0), Constant(IntVal(2, 3), 5), Constant(IntVal(3, 4), 9)>>,
              BranchOn(1, EdgeTo(1, <<2, 1>>), EdgeTo(1, <<3, 1>>))),
          BlockOf(1, 5, <<IntVal(4, 6), BoolVal(5, 7)>>, << >>,
              BranchOn(5, EdgeTo(2, <<4>>), EdgeTo(3, <<4>>))),
          BlockOf(2, 8, <<IntVal(6, 9)>>, << >>, ReturnOf(6)),
          BlockOf(3, 10, <<IntVal(7, 11)>>, <<UnaryOf(IntVal(8, 12), "Negate", 7)>>, ReturnOf(8))>>)

\* The entry is the target of a loop edge: it reads its argument again.
EntryLoop ==
    FunctionOf(<<"Integer">>,
        <<BlockOf(3, 1, << >>,
              <<Argument(IntVal(1, 2), 0), Constant(AddrVal(2, 3), 1), LoadOf(IntVal(3, 4), 2, 1),
                Constant(IntVal(4, 5), 1), BinaryOf(IntVal(5, 6), "Add", 3, 4), StoreOf(7, 2, 5, 1),
                CompareOf(BoolVal(6, 8), 2, 5, 1)>>,
              BranchOn(6, EdgeTo(3, << >>), EdgeTo(1, <<5>>))),
          BlockOf(1, 9, <<IntVal(7, 10)>>, << >>, ReturnOf(7))>>)

\* One operator on two arguments.
Operation(operation) ==
    FunctionOf(<<"Integer", "Integer">>,
        <<BlockOf(0, 1, << >>,
              <<Argument(IntVal(1, 2), 0), Argument(IntVal(2, 3), 1),
                IF operation \in IntegerUnaryOperator
                THEN UnaryOf(IntVal(3, 4), operation, 1)
                ELSE BinaryOf(IntVal(3, 4), operation, 1, 2)>>,
              ReturnOf(3))>>)

\* A comparison of two addresses, branched on.
Comparison(condition) ==
    FunctionOf(<<"Address", "Address">>,
        <<BlockOf(0, 1, << >>,
              <<Argument(AddrVal(1, 2), 0), Argument(AddrVal(2, 3), 1),
                CompareOf(BoolVal(3, 4), condition, 1, 2), Constant(IntVal(4, 5), 6),
                Constant(IntVal(5, 6), 8)>>,
              BranchOn(3, EdgeTo(1, <<4>>), EdgeTo(1, <<5>>))),
          BlockOf(1, 7, <<IntVal(6, 8)>>, << >>, ReturnOf(6))>>)

WellFormed ==
    {SourceOf(f, 8, <<3, 1, 4, 1, 5>>) :
        f \in {Factorial, Exchange, StoreThenLoad, TwoStores, Flag, EntryLoop}
                  \cup {Operation(o) : o \in IntegerBinaryOperator \cup IntegerUnaryOperator}
                  \cup {Comparison(c) : c \in 0 .. 5}}

\* Two blocks, whose origins are the first and those up to a given one.
Tight(last) ==
    FunctionOf(<<"Integer">>,
        <<BlockOf(0, 1, << >>, <<Argument(IntVal(1, last - 2), 0)>>, JumpTo(1, <<1>>)),
          BlockOf(1, last - 1, <<IntVal(2, last)>>, << >>, ReturnOf(2))>>)

\* A straight line of so many values.
Long(count) ==
    FunctionOf(<< >>,
        <<BlockOf(0, 1, << >>, [n \in 1 .. count |-> Constant(IntVal(n, n + 1), n)],
                  ReturnOf(count))>>)

ManyArguments(count) ==
    FunctionOf([n \in 1 .. count |-> "Address"],
        <<BlockOf(0, 1, << >>,
                  [n \in 1 .. count |-> Argument(AddrVal(n, n + 1), n - 1)]
                      \o <<Constant(IntVal(40, 40), 3)>>,
                  ReturnOf(40))>>)

\* The factorial with one action or one terminator replaced.
WithAction(b, n, action) == [Factorial EXCEPT !.blocks[b].actions[n] = action]
WithTerminator(b, terminator) == [Factorial EXCEPT !.blocks[b].terminator = terminator]

Malformed ==
    {[Factorial EXCEPT !.blocks = << >>],
     [Factorial EXCEPT !.texts = {<<237, 160, 128>>}],
     [Factorial EXCEPT !.blocks[3].id = 1],
     [Factorial EXCEPT !.blocks[3].origin = 2],
     [Factorial EXCEPT !.blocks[3].parameters[1].origin = 0],
     [Factorial EXCEPT !.blocks[3].parameters[1].domain = "Semantic"],
     [Factorial EXCEPT !.entry = 9],
     [Factorial EXCEPT !.entry = 3],
     [Factorial EXCEPT !.argument_domains = <<"Integer", "Integer">>],
     [Factorial EXCEPT !.argument_domains = <<"Address">>],
     [Factorial EXCEPT !.blocks[1].actions[2] = Argument(IntVal(2, 11), 0)],
     WithAction(2, 1, Argument(IntVal(5, 14), 0)),
     WithAction(2, 1, Constant(BoolVal(5, 14), 2)),
     WithAction(2, 2, CompareOf(BoolVal(6, 15), 6, 3, 5)),
     WithAction(2, 2, CompareOf(IntVal(6, 15), 3, 3, 5)),
     WithAction(3, 1, BinaryOf(IntVal(7, 18), "Multiply", 8, 7)),
     WithAction(3, 1, BinaryOf(IntVal(9, 18), "Divide", 8, 7)),
     WithAction(3, 1, BinaryOf(IntVal(9, 18), "Multiply", 8, 4)),
     WithAction(3, 1, BinaryOf(IntVal(9, 18), "Multiply", 8, 11)),
     WithAction(3, 1, BinaryOf(IntVal(9, 18), "Multiply", 8, 9)),
     WithAction(3, 1, LoadOf(IntVal(9, 18), 8, 1)),
     WithAction(3, 1, LoadOf(IntVal(9, 18), 8, 4)),
     WithAction(3, 2, StoreOf(19, 7, 8, 1)),
     WithTerminator(3, JumpTo(8, <<11, 9>>)),
     WithTerminator(3, JumpTo(1, <<11>>)),
     WithTerminator(3, JumpTo(1, <<11, 12>>)),
     WithTerminator(2, JumpTo(3, <<6>>)),
     WithTerminator(2, JumpTo(3, <<4>>)),
     WithTerminator(2, BranchOn(4, EdgeTo(3, <<4>>), EdgeTo(2, <<3, 4>>))),
     WithTerminator(4, ReturnOf(4)),
     WithTerminator(4, [kind |-> "None", value |-> 0, edges |-> << >>])}

MCSources ==
    WellFormed
        \cup {SourceOf(Tight(last), 8, << >>) : last \in (MaxOrigin - 6) .. MaxOrigin}
        \cup {SourceOf(Long(count), 8, << >>) : count \in {18, 19, 24, 25}}
        \cup {SourceOf(ManyArguments(count), 8, << >>) : count \in {16, 17}}
        \cup {SourceOf(Factorial, 2, <<1, 2, 3>>)}
        \cup {SourceOf(function, 8, << >>) : function \in Malformed}
=============================================================================
