----------------------------- MODULE MCMachine ------------------------------
(***************************************************************************)
(* The verifier and the runtime on modules built here, on a word of twenty *)
(* bits with two ten-bit bytes: programs of the kind the compiler emits,   *)
(* and islands with one thing wrong with each of them.                     *)
(***************************************************************************)
EXTENDS MachineProperties, PrimitivePlans, WordArithmetic

Halt0 == Seal(kHaltContinuation)
SampleFingerprint == 77
WideStore == 2

\* A sequence of islands laid end to end, as a function from offsets.
Layout(islands) ==
    LET at[i \in 1 .. (Len(islands) + 1)] ==
            IF i = 1 THEN 0 ELSE at[i - 1] + islands[i - 1].size
    IN  [offsets |-> at,
         code |-> Table([o \in {at[i] : i \in 1 .. Len(islands)} |->
                            islands[CHOOSE i \in 1 .. Len(islands) : at[i] = o]]),
         size |-> at[Len(islands) + 1]]

\* An island that only halts; any byte in the middle of one reads as a header
\* with a reserved field that is not zero.
HaltIsland == Encode(ContinuationNodes(Halt0), ContinuationWrites(0), << >>)
Garbage == [HaltIsland EXCEPT !.reserved = 1]

ModuleOf(islands, entry, argument_count, data) ==
    [memory_size |-> 5, carrier_count |-> 34, argument_count |-> argument_count,
     fingerprint |-> SampleFingerprint,
     code_size |-> Layout(islands).size, code |-> Layout(islands).code,
     interior |-> Garbage, data |-> data,
     initial_carriers |-> CarriersFor(34, entry)]

(***************************************************************************)
(* A loop.  The first island copies the argument to carrier 32 and goes to *)
(* the second, which takes one from carrier 32, adds it to the word at     *)
(* address 0, stores its low byte at address 2, swaps carriers 32 and 33   *)
(* on the way, and repeats until the counter is zero.                      *)
(***************************************************************************)
EntryIsland(next) ==
    Encode(ContinuationNodes(Seal(next)) \o <<ReadC(kArgumentCarrierBase)>>,
           ContinuationWrites(0) \o <<WriteC(32, 4)>>, << >>)

LoopIsland(self, condition) ==
    Encode(<<ReadC(32), Lit(1), Binary("Sub", 0, 1), Lit(0), Cmp(condition, 2, 3)>>
               \o BranchNodes(5, 4, self, kHaltContinuation)
               \o <<Unary("ReadMemory64", 3), Binary("Add", 13, 2), Lit(2),
                    Unary("ReadMemory8", 15), Mixed(16, 14, 3)>>,
           BranchWrites(5) \o ReturnWrites(14, 3) \o <<WriteC(32, 2), WriteC(33, 0)>>,
           <<WriteM(WideStore, 3, 14), WriteM(1, 15, 17)>>)

Loop(condition) ==
    ModuleOf(<<EntryIsland(EntryIsland(0).size), LoopIsland(EntryIsland(0).size, condition)>>,
             Seal(0), 1, <<3, 0, 7>>)

Programs == <<Loop(1), Loop(5)>>

(***************************************************************************)
(* One island that goes where it is told, in a code section whose every    *)
(* offset reads as an island, and one that moves a word from one address   *)
(* to another and leaves a byte at a third.                                *)
(***************************************************************************)
Jump(continuation) ==
    [ModuleOf(<<Encode(ContinuationNodes(continuation), ContinuationWrites(0), << >>),
                HaltIsland>>, Seal(0), 0, << >>)
        EXCEPT !.interior = HaltIsland]

Jumps ==
    <<Jump(Seal(0)), Jump(Seal(HaltIsland.size)), Jump(Seal(1)), Jump(Seal(1000)),
      Jump([Halt0 EXCEPT !.proof = (@ + 1) % Modulus]),
      Jump([Halt0 EXCEPT !.lane = WordXor(@, SignBit)])>>

Move(from, to, byte) ==
    Encode(ContinuationNodes(Halt0)
               \o <<Lit(from), Unary("ReadMemory64", 4), Lit(to), Lit(byte), Binary("Xor", 5, 0)>>,
           ContinuationWrites(0) \o ReturnWrites(8, 0),
           <<WriteM(WideStore, 6, 8), WriteM(1, 7, 5)>>)

Moves ==
    [i \in 1 .. 7 |->
        LET at == <<<<0, 3, 2>>, <<3, 0, 4>>, <<4, 0, 2>>, <<0, 4, 2>>, <<0, 2, 5>>,
                    <<0, 2, 3>>, <<0, 3, 3>>>>[i]
        IN  ModuleOf(<<Move(at[1], at[2], at[3])>>, Seal(0), 0, <<1, 2, 3, 4>>)]

(***************************************************************************)
(* Accesses at the last addresses a word holds, where address plus width   *)
(* is beyond the largest word: a store, and a load in a second island.     *)
(***************************************************************************)
Highest == Modulus - 1

StoreAt(address, width) ==
    ModuleOf(<<Encode(ContinuationNodes(Halt0) \o <<Lit(address)>>, ContinuationWrites(0),
                      <<WriteM(width, 4, 0)>>)>>, Seal(0), 0, << >>)

LoadAt(address, kind) ==
    LET first == Encode(ContinuationNodes(Seal(HaltIsland.size)), ContinuationWrites(0), << >>)
        second == Encode(ContinuationNodes(Halt0) \o <<Lit(address), Unary(kind, 4)>>,
                         ContinuationWrites(0), << >>)
    IN  ModuleOf(<<first, second>>, Seal(0), 0, << >>)

HighAddresses ==
    <<StoreAt(Highest, 1), StoreAt(Highest, WideStore), StoreAt(Highest - 1, WideStore),
      LoadAt(Highest, "ReadMemory8"), LoadAt(Highest, "ReadMemory64"),
      LoadAt(Highest - 1, "ReadMemory64")>>

(***************************************************************************)
(* Islands with one thing wrong: a node, a write, a header field.          *)
(***************************************************************************)
Single(island) == ModuleOf(<<island, HaltIsland>>, Seal(0), 0, <<1, 2>>)

WithNode(node) ==
    Single(Encode(ContinuationNodes(Halt0) \o <<node>>, ContinuationWrites(0), << >>))

NodeProbes ==
    <<WithNode(Binary("Add", 4, 0)), WithNode(Binary("Ror", 0, 5)), WithNode(Unary("Not", 9)),
      WithNode(Sel(0, 1, 7)), WithNode(Sel(4, 0, 0)), WithNode(Cmp(6, 0, 1)),
      WithNode(Cmp(5, 0, 4)), WithNode(ReadC(34)), WithNode(ReadC(33)),
      WithNode(Unary("Absent", 0)), WithNode(Mixed(4, 0, 1)), WithNode(Unary("ReadMemory8", 4)),
      WithNode(Unary("ReadMemory8", 0)), WithNode(Unary("ReadMemory64", 2)),
      WithNode(Unary("Neg", 3))>>

WithCarrierWrite(write) ==
    Single(Encode(ContinuationNodes(Halt0), ContinuationWrites(0) \o <<write>>, << >>))

WithoutShare(i) ==
    Single(Encode(ContinuationNodes(Halt0),
                  [j \in 1 .. 5 |-> ContinuationWrites(0)[IF j < i THEN j ELSE j + 1]], << >>))

CarrierWrites ==
    <<WithCarrierWrite(WriteC(34, 0)), WithCarrierWrite(WriteC(9, 0)),
      WithCarrierWrite(WriteC(31, 0)), WithCarrierWrite(WriteC(16, 0)),
      WithCarrierWrite(WriteC(33, 4)), WithCarrierWrite(WriteC(5, 0)),
      WithCarrierWrite(WriteC(8, 0)), WithCarrierWrite(WriteC(32, 3))>>
    \o [i \in 1 .. 6 |-> WithoutShare(i)]

WithMemoryWrite(write) ==
    Single(Encode(ContinuationNodes(Halt0), ContinuationWrites(0), <<write>>))

MemoryWrites ==
    <<WithMemoryWrite(WriteM(0, 0, 0)), WithMemoryWrite(WriteM(3, 0, 0)),
      WithMemoryWrite(WriteM(1, 4, 0)), WithMemoryWrite(WriteM(1, 0, 4)),
      WithMemoryWrite(WriteM(1, 2, 0))>>

Headers ==
    <<Single([HaltIsland EXCEPT !.size = @ - 1]), Single([HaltIsland EXCEPT !.size = @ + 1]),
      Single([HaltIsland EXCEPT !.size = kIslandHeaderSize]),
      Single([HaltIsland EXCEPT !.size = kIslandHeaderSize - 1]),
      Single([HaltIsland EXCEPT !.size = 0]), Single([HaltIsland EXCEPT !.size = 1000]),
      Single([HaltIsland EXCEPT !.reserved = 1]),
      Single(Encode(<< >>, ContinuationWrites(0), << >>)),
      Single(Encode(<< >>, << >>, << >>))>>

Shapes ==
    LET sound == Single(HaltIsland)
    IN  <<[sound EXCEPT !.code_size = @ - 1], [sound EXCEPT !.code_size = @ + 5],
          [sound EXCEPT !.code_size = @ + 100], [sound EXCEPT !.code_size = 0],
          [sound EXCEPT !.code_size = 7],
          [sound EXCEPT !.fingerprint = SampleFingerprint + 1],
          [sound EXCEPT !.carrier_count = 33],
          [sound EXCEPT !.carrier_count = 31, !.initial_carriers = CarriersFor(31, Seal(0))],
          [sound EXCEPT !.data = <<1, 2, 3, 4, 5, 6>>], [sound EXCEPT !.argument_count = 17],
          [sound EXCEPT !.memory_size = 1000],
          [sound EXCEPT !.initial_carriers = CarriersFor(34, Halt0)],
          [sound EXCEPT !.initial_carriers = CarriersFor(34, Seal(1))],
          [sound EXCEPT !.initial_carriers = CarriersFor(34, Seal(HaltIsland.size))],
          [sound EXCEPT !.initial_carriers[4] = @ + 1]>>

\* The modules of a family, numbered so that a trace tells which one ran.
Family(name, modules) ==
    {modules[i] @@ [name |-> name, number |-> i] : i \in DOMAIN modules}

WellFormed == Family("program", Programs) \cup Family("jump", Jumps) \cup Family("move", Moves)

Malformed ==
    Family("node", NodeProbes) \cup Family("carrier write", CarrierWrites)
        \cup Family("memory write", MemoryWrites) \cup Family("header", Headers)
        \cup Family("shape", Shapes)

(***************************************************************************)
(* Values for the constants: the mixing functions scaled to twenty bits,   *)
(* module limits that one sample module exceeds, and two sets of plan      *)
(* limits, the second too tight for the loop.                              *)
(***************************************************************************)
MCMixParameters ==
    [gamma |-> 649651, delta |-> 859477, up |-> 3, down |-> 1,
     shifts |-> <<9, 8, 10>>, factors |-> <<782569, 627889>>]

MCModuleLimits ==
    [max_memory_size |-> 16, max_carriers |-> 64, max_code_size |-> 1000,
     max_data_size |-> 8, max_file_size |-> 2000]

Generous == [max_nodes |-> 20, max_carrier_writes |-> 12, max_memory_writes |-> 2]
Tight == [max_nodes |-> 10, max_carrier_writes |-> 9, max_memory_writes |-> 1]
MCPlanLimits == {Generous, Tight}

MCModules == WellFormed \cup Malformed \cup Family("high address", HighAddresses)
MCArguments == {<< >>, <<2>>, <<3>>}
=============================================================================
