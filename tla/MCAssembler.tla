----------------------------- MODULE MCAssembler -----------------------------
(***************************************************************************)
(* What the lowering hands to the back end, in small: islands that jump,   *)
(* islands that branch, an island with every kind of node and both widths  *)
(* of memory write, in every order and with every target; and chains of    *)
(* islands whose last is padded to code sizes around the largest offset.   *)
(***************************************************************************)
EXTENDS Assembler, WordArithmetic

MCMixParameters ==
    [gamma |-> 649651, delta |-> 859477, up |-> 3, down |-> 1,
     shifts |-> <<9, 8, 10>>, factors |-> <<782569, 627889>>]

\* The third shares of a lane and a proof that are nodes already, and the writes
\* of the two continuation words: add_relocation and stage_continuation.
Handover(at, lane, proof) ==
    <<Lit(FirstShare), Lit(SecondShare),
      Binary("Xor", lane, at), Binary("Xor", at + 2, at + 1),
      Binary("Xor", proof, at), Binary("Xor", at + 4, at + 1)>>

HandoverWrites(at) ==
    <<WriteC(0, at), WriteC(1, at + 1), WriteC(2, at + 3),
      WriteC(3, at), WriteC(4, at + 1), WriteC(5, at + 5)>>

Fix(node, target, part) == [node |-> node, target |-> target, part |-> part]

\* An island that goes to a target after padding.
Jump(target, padding) ==
    [plan |-> [nodes |-> <<Lit(0), Lit(0)>> \o Handover(2, 0, 1) \o padding,
               carrier_writes |-> HandoverWrites(2), memory_writes |-> << >>],
     fixes |-> <<Fix(0, target, "lane"), Fix(1, target, "proof")>>]

\* An island that goes to one of two targets.
Branch(taken, otherwise) ==
    [plan |-> [nodes |-> <<ReadC(32), Lit(0), Lit(0), Sel(0, 1, 2),
                           Lit(0), Lit(0), Sel(0, 4, 5)>> \o Handover(7, 3, 6),
               carrier_writes |-> HandoverWrites(7) \o <<WriteC(32, 0)>>,
               memory_writes |-> << >>],
     fixes |-> <<Fix(1, taken, "lane"), Fix(2, otherwise, "lane"),
                 Fix(4, taken, "proof"), Fix(5, otherwise, "proof")>>]

\* One node of every kind.
EveryKind ==
    <<Unary("ReadMemory8", 0), Unary("ReadMemory64", 0), Unary("Not", 1), Unary("Neg", 2),
      Cmp(SignedLessEqual, 0, 1), Sel(4, 0, 1), Mixed(0, 1, 2), ReadC(16),
      Binary("Add", 0, 1), Binary("Sub", 0, 1), Binary("Mul", 0, 1), Binary("And", 0, 1),
      Binary("Or", 0, 1), Binary("Shl", 0, 1), Binary("Shr", 0, 1), Binary("Sar", 0, 1),
      Binary("Rol", 0, 1), Binary("Ror", 0, 1)>>

Every(target) ==
    [Jump(target, EveryKind) EXCEPT !.plan.memory_writes = <<WriteM(1, 0, 1), WriteM(2, 1, 0)>>]

Program(shapes, entry, data) ==
    LET fixesUpTo[i \in 0 .. Len(shapes)] ==
            IF i = 0 THEN << >>
            ELSE fixesUpTo[i - 1]
                     \o [j \in 1 .. Len(shapes[i].fixes) |->
                            shapes[i].fixes[j] @@ [island |-> i]]
    IN  [plans |-> [i \in 1 .. Len(shapes) |-> shapes[i].plan],
         relocations |-> fixesUpTo[Len(shapes)], entry |-> entry,
         carrier_count |-> 34, argument_count |-> 1, memory_size |-> 16, data |-> data]

Shapes ==
    {Jump(t, << >>) : t \in 0 .. 2} \cup {Every(t) : t \in 0 .. 2}
        \cup {Branch(t, 2 - t) : t \in 0 .. 2}

Pairs == {Program(<<first, second>>, entry, << >>) :
              first \in Shapes, second \in Shapes, entry \in 1 .. 2}

\* Nodes of nine, five and three bytes.
Padding(nines, fives, threes) ==
    [i \in 1 .. nines |-> Lit(0)] \o [i \in 1 .. fives |-> Binary("Add", 0, 1)]
        \o [i \in 1 .. threes |-> Unary("Not", 0)]

\* Eight islands that go round, the last of them padded.
Chain(padding) ==
    Program([i \in 1 .. 8 |-> Jump(IF i = 8 THEN 1 ELSE i + 1,
                                   IF i = 8 THEN padding ELSE << >>)], 5, << >>)

Plan == Jump(0, << >>).plan

\* The padding that brings a chain to a given size of code.
PaddingTo(size) ==
    LET missing == size - 8 * PlanSize(Plan)
        fives == CHOOSE f \in 0 .. 2 : (missing - 5 * f) % 3 = 0
    IN  Padding(0, fives, (missing - 5 * fives) \div 3)

Edges == {Chain(PaddingTo(size)) : size \in 1021 .. 1024}

\* A ninth island that would begin at the offset reserved for halting, and two
\* islands that go to it.
AtHalt == Program([i \in 1 .. 9 |-> Jump(IF i = 9 THEN 9 ELSE i + 1,
                                         IF i = 8 THEN PaddingTo(kHaltContinuation) ELSE << >>)],
                  5, << >>)

\* One island more after the code section is full.
Overfull == Program([i \in 1 .. 11 |-> Jump(0, << >>)], 11, << >>)

\* Initial data longer than the module limits allow.
LongData == Program(<<Jump(0, << >>)>>, 1, <<1, 2, 3, 4, 5, 6, 7, 8, 9>>)

MCPrograms == Pairs \cup Edges \cup {AtHalt, Overfull, LongData}

MCModuleLimits ==
    [max_memory_size |-> 16, max_carriers |-> 64, max_code_size |-> 1200,
     max_data_size |-> 8, max_file_size |-> 2000]

\* The second refuses the island with every kind of node.
MCPlanLimits ==
    {[max_nodes |-> 90, max_carrier_writes |-> 7, max_memory_writes |-> 2],
     [max_nodes |-> 20, max_carrier_writes |-> 7, max_memory_writes |-> 2]}

\* The modules that the back end hands to create are its own.
NoModules == {}
=============================================================================
