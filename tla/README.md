# XQVM in TLA+

TLA+ modules, TLC runs and TLAPS proofs about XQVM, a research VM whose programs
are physical islands: local dataflow graphs whose writes commit together and
whose control flow lives in six sealed carriers. Paths below are relative to the
repository (`src/runtime.cpp` is the file the `PROJECT.json` of this directory
names `src/src/runtime.cpp`).

- `PROJECT.json` lists components, runs, mutants, hazards and theorems, and maps
  each definition that models code to the lines it models.
- To check: `tlc -config X.cfg M` for each run below; `tlapm M.tla` for
  `SharedLemmas`, `MachineProofs`, `ContinuationProofs`, `PhysicalProofs`,
  `LoweringProofs`, `PlanProofs`, `AssemblerProofs` and `FormatProofs`.

## 1. Inventory

| component | state | operations | talks to |
|---|---|---|---|
| MachineIR and verifier (`machine_ir.cpp`) | none; a function of blocks, parameters, typed actions and edges | `verify_machine_ir`, `is_valid_utf8` | called by the compiler |
| Lowering (`compiler.cpp` 285-643) | carrier allocator, value table, plans, relocations | one plan per block and per edge | plans and relocations go to the back end |
| Back end (`compiler.cpp` 645-738, `primitive.cpp`) | offsets, code size, patched plans, bytes | layout, relocate, encode, finish | seals offsets with the codec; the module goes to `create` |
| Physical values (`physical.cpp`) | three carriers per value | split, join, affine store and load | used by the lowering and for initial carriers |
| Continuation codec and profile (`profile.cpp`) | keys, opcode table | `seal`, `open`, `mask_code_byte`, save, load | used by back end, verifier, runtime |
| Module format (`module.cpp`) | none | `serialize`, `parse`, `validate_module`, save, load | between compiler, files and `create` |
| Physical verifier (`disassembler.cpp`) | scan offset, boundaries found | `scan_module`, `scan_island` | called by `create`; the boundaries stay in the machine |
| Runtime (`runtime.cpp`) | carriers, memory, island count; staged values while in an island | `create`, `run`, `execute_island` | decodes the module again; opens continuations |
| Command line, origin sidecar (`xqvm.cpp`) | three files per prefix, one seed file | `build-demo`, `verify`, `run`, `fuzz-seed` | the library; other commands, through the files |
| Examples, fuzz target, tests | none | | the library |

Inside one process everything runs on one thread, in calls that return: there are
no threads, messages, timers or retries. The hard parts are elsewhere:

- *Atomicity and partial failure.* An island stages its writes while it decodes;
  any item may fail; every read must see the state before the island.
- *Two decoders, two size tables, two symbol tables.* Verifier and runtime decode
  one stream with separate code. The compiler seals offsets from predicted sizes
  before it encodes. The lowering looks names up in maps of its own and trusts
  what the MachineIR verifier found in others.
- *Sequences.* Control goes from island to island through data that islands
  write. A target must be sealed, complete and a verified boundary. An edge is a
  parallel assignment, spread over an island of its own.
- *Boundaries of counters and widths.* Island budget, plan limits, memory bounds,
  wrapping arithmetic, shift distances, the reserved halt offset, the last node
  id, the last carrier, the last origin, the ranges of UTF-8, file sizes.
- *Reuse.* One machine runs many times and must keep nothing of a run.
- *Files.* `build-demo` writes three files one after the other, other commands
  read two of them one after the other, nothing is locked or renamed, and a
  command may stop anywhere.

What makes each part correct:

- MachineIR verifier: what it accepts can be lowered without a lookup that fails.
- Lowering: a compiled function does what its MachineIR means, and the sidecar
  accounts for every carrier an island writes.
- Physical values: each reads back what was last written to it; carriers are
  handed out once and up to the limit.
- Back end: compiled modules verify; sealed offsets are the real boundaries;
  relocations land in their own literals.
- Verifier: it terminates; accepted islands tile the code; each is well formed;
  the entry is a boundary.
- Runtime: it implements atomic islands; trusts nothing the verifier did not
  check and needs no more; budget and trace are exact; arguments are read-only;
  every call returns; equal calls have equal results.
- Codec: a complete transfer opens to its target; a partial one does not open.
- Arithmetic: wrapping, shifts, signed order and mixing do what they should.
- Profile: the opcode table reads the same in both directions.
- Formats: a file that parses is exactly what serialising its contents gives.
- Commands: no mixture of two builds is ever used; a finished build that nobody
  disturbs is accepted.

The hazards, with lines and the properties that would catch them, are in
`PROJECT.json`.

## 2. Modules

Words and physical code:

| module | models | extends |
|---|---|---|
| `MachineWord`, `ModuleShape` | the width of a word; `validate_module_shape` | |
| `ContinuationCodec` | `seal`, `open`, joining of shares; word operations are constants | |
| `PhysicalCode` | the island stream both decoders read: fields, widths, cursor | `ContinuationCodec` |
| `WordArithmetic` | the twenty handlers, `mix_word`, `mix64` on a word of `WordBits` bits | |
| `ArithmeticReference` | independent definitions of the same operations | `WordArithmetic` |
| `SharedLemmas` | what the proofs assume of exclusive or and `mix64`; lemmas from that, and of induction up to a bound and running sums | `ContinuationCodec` |
| `ContinuationTransfer` | islands replacing the six continuation carriers, wholly or in part | `PhysicalCode` |
| `ContinuationProofs` | theorems about the codec and `ContinuationTransfer` | both, `SharedLemmas` |
| `EncodingTable` | the shuffled opcode table | |

Verifier and runtime:

| module | models | extends |
|---|---|---|
| `PhysicalVerifier` | `scan_module`, `scan_island` as part of `create` | `PhysicalCode`, `ModuleShape` |
| `Machine` | `run` and `execute_island` after `create` | `PhysicalVerifier` |
| `AtomicIslands` | abstract specification: a run is a sequence of whole islands | `PhysicalCode` |
| `MachineProperties` | safety, liveness, the inductive invariant, the refinement | `Machine`, instantiates `AtomicIslands` |
| `RepeatedRuns` | any two runs of one machine, with two history variables | `MachineProperties` |
| `MachineProofs` | theorems about `Machine` and `PhysicalVerifier`, and that `Machine` implements `AtomicIslands`, and about `RepeatedRuns` | `RepeatedRuns`, `SharedLemmas` |

Compiler:

| module | models | extends |
|---|---|---|
| `MachineIR` | the types of a function, `verify_machine_ir`, `is_valid_utf8` | |
| `Utf8Reference` | the definition of UTF-8 | `MachineIR` |
| `PhysicalValues` | affine maps, share families, layouts, the allocator's arithmetic | `PhysicalCode` |
| `PhysicalStore` | allocating, then writing and reading values in any order | `PhysicalValues` |
| `PhysicalProofs` | the laws of wrapping arithmetic the proofs use; the theorems | `PhysicalStore`, `SharedLemmas` |
| `PrimitivePlans` | `primitive_plan_size`, `verify_primitive_plan`, `encode_primitive_plan`; constructors of nodes, writes and islands | `PhysicalCode` |
| `Lowering` | `compile_machine_ir` up to the layout | `MachineIR`, `PhysicalValues`, `PrimitivePlans` |
| `LoweringProofs` | theorems about the maps of `Lowering` and `MachineIR`; lemmas about every operation of the emitter | `Lowering`, `SharedLemmas` |
| `PlanProofs` | theorems about the plans, placeholders and sidecar `Lowering` hands over | `LoweringProofs` |
| `Assembler` | the back end of `compile_machine_ir`, then `create` | `PhysicalVerifier`, `PrimitivePlans` |
| `AssemblerProofs` | theorems about `Assembler` and the size tables | `Assembler`, `SharedLemmas` |
| `IrInterpreter` | abstract specification: what a MachineIR function means | `MachineIR` |
| `CompiledRun` | a function lowered, its initial carriers, its islands run | `Lowering`, `AtomicIslands`, instantiates `IrInterpreter` |

Files:

| module | models | extends |
|---|---|---|
| `ByteFormat` | fields (`write_u16`, `read_u32`, ...), CRC32, `Result` | |
| `ModuleFile`, `ProfileFile` | serialise and parse, byte by byte | `ByteFormat` |
| `DamagedFiles` | both formats under edits, cuts, splices and resealing | both |
| `Artifacts` | `build-demo` commands and a loading command on one prefix | both |
| `FormatProofs` | theorems about both formats, about `Artifacts` and about `EncodingTable` | `DamagedFiles`, `Artifacts`, `EncodingTable` |

`FormatSamples` and the `MC*` modules hold inputs and constants for TLC.

### How state and actions correspond to the code

**Code sections.** A module is a record with the fields of `Module`. Its code is
a function from byte offsets to what decodes there: header fields, nodes,
carrier writes, memory writes. Widths in bytes are kept, since readability of an
item depends on where it ends (`Readable`, `StreamEnd`). Any offset that is not
an encoded island decodes to the module's `interior`. The byte mask and the
shuffled opcode table are abstracted: a byte outside the table is a kind outside
`PrimitiveKind`.

**Verifier.** `CheckModule` is the preamble of `create` and `scan_module`,
`ScanIsland` one turn of the loop (the boundary is pushed before the island is
scanned, as in the code), `CheckEntry` the coverage test and the entry test.

**Runtime.** `phase` is the program counter of `run`. One action stands for one
step of the dispatch loop (`RejectContinuation`, `Halt`, `ExhaustBudget`,
`RejectBoundary`, `EnterIsland`: the guards keep the order of the tests) or for
one item of an island (`ReadHeader`, `EvaluateNode`, `StageCarrierWrite`,
`CheckContinuationReplaced`, `StageMemoryWrite`, `CommitIsland`, `FailIsland`).
`IslandFault` gives the fault the next item would meet, in the order the code
tests. `nodes`, `carrier_writes` and `memory_writes` are locals of
`execute_island`; every exit clears them (`IslandLeft`). `StartRun` may be taken
again after a run: `run` is `const` and copies its state from the module. Each
run has its own override of the plan limits (`RunOptions::plan_limits`) or none,
and then those of `create` are in force (`LimitsOf`).

**Repeated runs.** `RepeatedRuns` adds two history variables that restrict nothing.
`asked` is the override of the current run. `noted` is what one earlier finished run
was given, and its outcome: at each `StartRun` the run that has just finished may
be noted, or the one noted before it may stay. So every earlier run of the machine
is, in some behaviour, the one the current run is compared with, however many runs
lie between.

**Physical values.** `max_carriers_`, `next_` and `allocated_` are the members of
`CarrierAllocator`. Once `FinishAllocation` has assigned the carriers, `Write` is
`write_physical_value` on an allocated value, with any blinding shares;
`WriteForeign` is the same with a layout a caller made up. `logical` is a history
variable: the word each value was last given.

**Lowering.** `loop` names the loop of `compile_machine_ir` that was reached, or
`refused` (an error was returned), or `threw` (an `at` that found nothing).
`draft` is the island being emitted: the `PlanEmitter` with its overflow flag,
the bindings of the block, and the folds of semantic and history state. There is
one action per value, per edge, per state, per beginning of an island, per action
of a block, per argument of an edge and per end of an island; each emits exactly
the nodes of the code, in its order, since node ids are positions (`IdAt` gives 0
once the ids are used up, as `add` does).

**Assembler.** `program` is what the lowering left: plans and relocations.
`LayIslandOut` uses `primitive_plan_size`, `Relocate` patches literals,
`EncodeIsland` appends bytes by the widths `append_node` writes, masked for the
offset the layout gave, `FinishModule` runs `validate_module`. The module then
goes through `VerifierNext`. Three separate tables stay separate: `PlanPayload`,
`FieldWidths` and `PayloadSize`. `LoweringPromises` names what the plans'
verifier does not ask and the lowering has to provide. `Assembler` assumes it of
its programs; the run `lowering` shows it of what the lowering leaves, and
`LoweredProgramsAreAcceptable` proves it for every function.

**Compiled runs.** `CompiledRun` takes the plans past the layout: an island's
offset is its number counted from zero, since layout and encoding are the subject
of `Assembler`, and the runtime is `AtomicIslands`, which `Machine` implements.
The initial carriers are written value by value, as in the code. The refinement
mapping to `IrInterpreter` reads the current block off the continuation carriers
and parameters, arguments, memory and result off the other carriers. The island
of an edge belongs to the step that was taken: at its start the target has been
entered already.

**Continuations.** `Transfer` replaces all six carriers under fresh blinding
shares. `ReplaceShare` and `ReplaceGroup` are what an accepted island may also
do: verifier and runtime require six writes, not their origin.

**Encoding table.** One action per turn of the shuffle's loop. The code draws the
position from a stream of `mix64` values; the model lets every position in range
come, so each seed's table is among those explored.

**Files.** A file is a sequence of bytes with the real offsets, magic numbers and
CRC32 of the code; a 64-bit word nobody computes with is its eight bytes. In
`Artifacts` each builder goes through its three files in the order of
`build-demo`: open and truncate, write (in parts, at the amounts of `Cuts`), close,
go on, or stop anywhere. The reader measures a file, then reads that many bytes,
as `load_module` and `load_profile` do, while writers go on. `standing` is a
history variable: the build that finished without company.

## 3. Runs

| run | what it explores | size |
|---|---|---|
| `machine` | `create` on 79 sample modules under two sets of plan limits, then any runs | 5793 states |
| `repeated_runs` | any two runs of an accepted module, with any runs between them | 111875 states |
| `arithmetic` | every pair of 8-bit words | 65536 states |
| `continuation` | sixteen offsets, 8-bit words, two blinding pairs | 99904 states |
| `assembler` | 169 programs under two sets of plan limits | 4527 states |
| `physical` | up to two values of a 6-bit word, six carrier limits | 18948 states |
| `utf8` | every text of up to four bytes from twenty boundary bytes | 168421 states |
| `lowering` | 70 functions, well formed, malformed or at a limit | 982 states |
| `compiled` | 25 functions, eleven argument lists | 1995 states |
| `damaged_files` | two modules and two profiles, two edits each, and resealing | 9210 states |
| `artifacts` | two builds and one loading command on three files | 969081 states |
| `encoding` | every shuffle of six byte values | 1237 states |

- **`machine`** shows that the scan ends for every module (`VerificationEnds`),
  that a verified module is tiled (`BoundariesTile`) by accepted islands
  (`BoundariesAccepted`), `VerifierSound` (in an accepted island only a memory
  bound, a store conflict or tighter limits can stop the runtime),
  `ReadOnlyAbiIntact`, `BudgetExact`, `TraceTellsTheRun`,
  `ImplementsAtomicIslands` (refinement of `AtomicIslands`) and `RunEnds`.
  `Invariant` is the inductive invariant of the proofs.
- **`repeated_runs`** shows that equal calls have equal outcomes, whatever the
  machine ran before the first and between the two (`RunsAreRepeatable`), and that a
  larger budget only continues a run (`BudgetOnlyTruncates`). Calls are equal in
  what the caller gives: arguments, override of the plan limits, budget. The limits
  in force are the machine's doing, so limits that outlive their run, of whichever
  earlier call, would show.
- **`arithmetic`** compares the handlers with positional bits, integers, floor
  division and the flipped-sign order, and shows that mixing loses nothing.
- **`continuation`** shows the two properties of transfers; it also evaluates the
  laws of `SharedLemmas` on the same words.
- **`assembler`** shows that what the back end produces is accepted by `create`
  under the limits it was compiled with, that offsets sealed early are the
  boundaries found late, that the last island ends below the halt offset (only the
  test after the layout loop sees that one), and that each lane and proof patched for
  a target open to it, a jump never to the halt offset.
- **`physical`** shows `ReadsBack`, `CarriersHandedOutOnce` and
  `AcceptedLayoutsHold` (a layout that `validate_physical_layout` accepts loses
  nothing). It also evaluates the laws
  `PhysicalProofs` starts with.
- **`utf8`** shows that the validator accepts exactly the encodings of sequences
  of scalar values.
- **`lowering`** shows that no lookup fails after a successful verification
  (`NothingThrows`), that lowered programs keep `LoweringPromises` and their plans
  verify also when an island is filled to the last node id
  (`LoweredIsAcceptable`), that origins, which key every salt, are unique up to
  the last `OriginId` (`OriginsUnique`), and that the sidecar names every carrier
  an island writes (`SidecarAccountsForWrites`).
- **`compiled`** shows `RunsAsItsFunction` (refinement of `IrInterpreter`),
  `BooleansAreBits`, `FactorialComputes` (the example against the product the
  tests compute) and `EveryRunEnds`.
- **`damaged_files`** shows that a file that parses is the very file its contents
  serialise to (`ParseIsStrict`), also when the checksum was brought up to date
  after the edit, and that otherwise damage is refused (`DamageIsRefused`). CRC32
  is no cryptographic hash: the second claim is about these edits of these files.
- **`artifacts`** shows that what loads is whole (`LoadedFilesAreWhole`), that a
  pair that is used comes from one build (`AcceptedPairIsOneBuild`), and that a
  build that nothing disturbs is accepted, whatever earlier or interrupted builds
  left (`UndisturbedBuildIsAccepted`). Two builds at once may both report success
  and leave files that are refused; the last property speaks of no such build.
- **`encoding`** shows that `encode` and `decode` are inverse to each other.

### Bounds and why they are enough

- *Words.* The runs with modules use a word of 20 bits made of two bytes of 10
  bits, with offsets of 10 bits: an offset still fits twice into a word and a
  load still has several bytes. Distances and multipliers of the mixing functions
  are scaled (`MixParameters`). 8 bits are enough for the arithmetic, where every
  pair of operands is tried, and for transfers, where every word is tried in
  every share. Compiled functions run on a word of 8 bits made of two bytes of 4
  bits, with 15 as halt offset: all carriers, salts and affine maps are computed,
  and no sample has fifteen islands. Physical values use 6 bits, where
  the first of Newton's steps already arrives; that six are enough for 64 bits is
  proved, not checked.
- *Sample modules.* `MCMachine` holds a loop with loads, stores and a branch
  (signed and unsigned), jumps to itself, to another island, inside an island,
  past the code and with a broken lane or proof, moves that touch the last byte,
  overlap or leave memory, loads and stores of both widths at the last two addresses
  a word can hold, where the address plus the width would wrap, and one island per way to be malformed: every node
  reference, condition and carrier off by one, a missing share, a duplicate
  write, each header field, each shape limit. Each fault of `IslandFault` that a
  verified module can raise is raised, and each refusal of the scan.
- *Budgets* 0, 1 and 3 (`IslandBudgets`) end the loop before, at and after its
  halt; arguments of length 0 and 1 hit both sides of the count test.
- *Plan limits.* One set lets every sample through, one refuses the larger
  islands; a run may be given either, or none, and so may the runs before it and
  between two that are compared.
- *Programs of the assembler.* All pairs of islands that jump, branch, or hold
  one node of each kind, with every target and both entries, plus chains padded
  to code sizes 1021 to 1024, around the reserved offset 1023, one whose last
  island would begin at it and is jumped to, one that passes it in the middle, and one refused by `validate_module`.
- *Functions.* `MCLowering` holds the factorial, a loop edge that exchanges two
  parameters, a load after a store in one block, stores that overlap or leave
  memory, a Boolean argument across an edge with both edges of a branch to one
  target, a loop back to the entry, every operator and every comparison. It also
  has functions whose origins end at and just below `MaxOrigin` (63),
  straight lines that fill the node ids (`MaxNodeId`, 442) or the carriers
  (`MaxCarriers`, 110) exactly and by one too many, 16 and 17 arguments, and 31
  functions with one thing wrong. Node ids end at 65535 and carriers at 2^20 in
  the code; the limits are scaled so that the ends are reached.
- *Argument lists* of the compiled runs include zero, the least negative word,
  all ones, addresses at and past the end of memory, and non-bits for a Boolean.
- *Carrier limits* leave room for no value (2, 34), one (35, 37) and two (38, 40).
- *Bytes.* The twenty bytes of `utf8` lie on both sides of every boundary the
  validator compares with, and no sequence is longer than four.
- *Files.* Edits hit the low bytes of every header field, a reserved byte and
  every section; the high byte of a 32-bit size is left out, since TLC's integers
  would not hold it. Cuts fall inside the header, at its end and inside the
  sections. Two edits are enough to damage a file and to damage it back, or to
  make two size fields agree. In `artifacts` the amounts 20 and 66 cut a profile,
  a module's header and a module's code. The two builds
  have different seeds and modules of one length, as those of one program have;
  the files they find are absent or those of a longer module.
- *Shuffles.* Six byte values and three kinds; the theorem has no bound.

### Fairness

`VerifierFairness`, and `Fairness` in `Machine`, are weak fairness of the scan
and of the steps of a run that has been called: `create` and `run` are ordinary
loops on the caller's thread. `RunSpec` of `CompiledRun` has weak fairness of the
same loop, one island at a time. Starting a run is not fair; nobody has to call.
The lowering, the files and the physical values have safety properties only, and
state no fairness. Deadlock checking is off where a call returns and nothing more
has to happen.

## 4. Proofs

A theorem holds for every value of the constants that satisfies the named
assumptions: every set of modules or programs, every limit, word width, mixing
function, budget and argument list. The assumptions say what the code's types and
its callers guarantee: fields are unsigned (`ModulesAssumption`,
`PlanLimitsAssumption`), carriers, arguments and data hold words and bytes
(`ContentsAssumption`, `ArgumentsAssumption`), a word is `WordBytes` bytes
(`ByteAssumption`), the halt offset is unsigned (`HaltAssumption`), what is
compiled is a value of the type `MachineFunction` whose origins are at most
`MaxOrigin` (`SourcesAssumption`, `LimitsAssumption`), its constants are words and
its node ids fit the format (`ConstantsAssumption`, `NodeIdAssumption`,
`WordsAssumption`), and what the back end is handed is what the lowering promises
(`ProgramsAssumption`, which `LoweredProgramsAreAcceptable` proves of every lowered
program and the run `lowering` checks). TLC evaluates each of them in some run.
The modules that extend `SharedLemmas` carry its word laws as well; the proofs of
`MachineProofs`, `LoweringProofs` and `PlanProofs` cite none of them.

### Runtime

`MachineProofs` proves `CoreInvariantHolds`: `Spec => []CoreInvariant`, and from it
`RuntimeTrustsVerifier` (`VerifierSound`), `AbiIsReadOnly`, `BudgetIsExact`,
`TraceIsFaithful`; for the verifier alone `VerifierTypes`,
`BoundariesAreAccepted`, `BoundariesTileCode`.

`CoreInvariant` is inductive because it has three parts besides the properties.
`ScanInvariant` says that the boundaries pushed so far were accepted and each
starts where its predecessor ended. `IslandInvariant` says where a run stands:
which nodes are evaluated, which carriers are staged, and that an island being
executed is a boundary. `RunInvariant` bounds the count by the budget while an
island runs and keeps staged writes out of the read-only carriers. Without the
first, an island could be entered that the scan never saw. Without the second,
nothing relates the decoder's position to what the scan checked. The step for
`VerifierSound` then compares the two decoders operator by operator
(`HeaderAgrees`, `NodeAgrees`, `CarrierWriteAgrees`, `CoverageAgrees`,
`MemoryWriteAgrees`, `TrailingAgrees`).

A second half proves `RunsAreWholeIslands`, that `Machine` implements
`AtomicIslands` step by step. `CoreInvariant` says where a run is, and two more
parts of `Invariant` say what it holds there:

- `TypeOK`. Its hard step is a load: `WordBytes` bytes of memory are a word
  (`LoadTyped`), an induction over the bytes of the access, which `InMemoryIs` keeps
  inside memory although the test never adds address and width.
- `StagingInvariant`. Every node evaluated so far has the value its equation gives
  for the nodes before it and for the carriers and the memory of the last
  boundary; every staged write is that of an item passed; staged stores lie in
  memory and do not overlap.

A step inside an island is then a stutter, and `CommitIsland` is one step of the
abstract run: the values of its recursion are the nodes (`NodeValuesAre`), the
island takes effect (`CommitTakesEffect`), and the committed carriers and memory
are its own. The abstract specification chooses among stores with `CHOOSE`, and
`StagedBytesDisjoint` says that it has no choice.

A third part compares any two runs of one machine: `RunsRepeat` (`RunsAreRepeatable`)
and `BudgetsTruncate` (`BudgetOnlyTruncates`), under `RepeatedSpec`. The state of a
run is made a record (`Moment`) and what the call is given another (`CallWith`), and
`StepIsSuccessor` says that every step of `run` makes the record `Successor` names,
a function of the two. `RunsInvariant` says that the current run, and the noted one,
are each the last moment of a history that starts at the first moment of their call
and goes from successor to successor, and that the limits in force are
`LimitsOf(asked)`. The call of the noted run is made of what its caller gave
(`CallOf`), that of the current one of what the machine has in force (`ThisCall`);
that equal inputs make them one call is where a limit kept from another run would
hurt. When a run starts it is either noted, with its history, or forgotten, so the
invariant does not ask how long ago the noted one was. Two histories of one call
agree moment by moment (`HistoriesAgree`), unless the budget is tested in between,
and then `LargerBudget` and `EnoughBudget` say which test it was. Without the
histories there would be nothing to compare: the earlier run is gone when the later
one begins. TLC checked `StepIsSuccessor` on the run `repeated_runs` first.

`InvariantHolds`, `TypesHold` and `RunsAreWholeIslands` have the hypothesis
`ArithmeticClosed`: exclusive or and every handler map words to words. Handlers
work on 64-bit registers in the code. In `WordArithmetic` each result is a
remainder modulo 2^`WordBits`, a quotient of a word, a complement, or put
together from `WordBits` bits. It is a hypothesis of the theorems and not an
`ASSUME`, since TLC would enumerate all pairs of 20-bit words; the run `machine`
checks `TypeOK` of what is computed.

### Lowering

`LoweringProofs` is about every value of the type `MachineFunction`, well formed or
not: what the verifier accepts is part of what is proved. `LookupsHold` is
`LoweringSpec => []LookupsSucceed`, and `NoLookupFails` (`NothingThrows`) follows
from it. The verifier and `compile_machine_ir` keep maps of their own, and
`LookupsSucceed` says how those agree:

- `ValuesNamed`: `values` has the ids of the values allocated so far, and after the
  first loop those of all of them.
- `EdgesAgree`: the edges so far are the first ones of the function's.
- `DraftBound`: the bindings of a block's island are those of exactly the values
  `verify_machine_ir` had in `available` for its next action. This is the part
  that makes it inductive: at an action its operands are bound, since
  `ActionValid` found them available; at the end of a block its terminator's value
  is; and an edge's arguments were available to some terminator, so they are among
  the values (`AvailableNamed`).

The verifier looks at the values of the blocks one after the other, as the
lowering does, so the proof begins with what `FlattenSeq` makes of a sequence of
sequences (`Flattened`, `PlacesUnique`): which element is at which place.

`NoOriginIsTakenTwice` (`OriginsUnique`) needs to know which origin is whose.
`OriginsInOrder` says it: a value has its own, the e-th edge the e-th after the
greatest of the function's, the states the ones after that, and `next_origin` is
the one that follows or 0. `FunctionOriginsApart` says that, where
`verify_machine_ir` found the function's origins distinct, no two of its values
and blocks share one. TLC checked both invariants on the run `lowering` before
they were proved.

`PlanProofs` is about what the lowering hands over. Three invariants, each proved
with the help of those before it and of the two above, make one argument:

- `CarriersKept`: the n-th place of the function (its values first, then the two
  states of each block) has the three carriers from `CarrierAt(n)` on, below
  `next_carrier`, through a layout `LayoutValid` accepts, and `values` and `states`
  name those places. So two places share no carrier, and none has one of the ABI's.
- `DraftSound`: unless its ids have run out, the draft of the island at hand is
  `Good` (each node names earlier ones, each write a node and a carrier no other
  write has, each store a node and one of the two widths), what its bindings name
  are nodes, and it writes only carriers of the items lowered so far. That an item
  is not written twice is where `CarriersKept` and the order of the items meet. A
  draft whose ids have run out says nothing: `Advance` refuses it.
- `PlansSound`: every plan handed over is a `GoodPlan`, and every placeholder names
  a literal of its plan that no other names.

A step that emits is proved operation by operation in `LoweringProofs`: each lemma
`...IsDraft` says that an operation makes a draft of a draft, and the lemma
`...IsGood` or `...IsSound` that it keeps a good one good if the ids last. From the
three follow `LoweredProgramsAreAcceptable` (`LoweredIsAcceptable`) and, with
`OriginsInOrder`, `SidecarAccounts` (`SidecarAccountsForWrites`): a carrier that is
written is one of a place, the place has an origin of its own, and the island's
record with that origin names the carrier.

The predicate of `LoweredIsAcceptable` is the one that `Assembler` assumes of its
`Programs`, so a function that was verified ends in a module that `create` accepts:
`LoweredProgramsAreAcceptable` proves the first half for every function, and
`ModulesVerify` the second for every program that is acceptable. They are theorems
of two specifications, of `compile_machine_ir` up to the layout and from there on.

Both use three assumptions of `Lowering`, which TLC evaluates in `lowering` and
`compiled`. `NodeIdAssumption`: a node id is at most what the format's count field
holds (`NodeId` is a `std::uint16_t`). `ConstantsAssumption`: the immediate of an
action is a word (`std::uint64_t`). `WordsAssumption`: origins, carriers and tags
fit a word, and arithmetic maps words to words (unsigned 64-bit operators). TLC
checked `LoweredIsAcceptable` and `SidecarAccountsForWrites` on `lowering` before
they were proved.

### Back end

`AssemblerProofs` starts from the three size tables: `WidthsAgree` (for each of the
twenty kinds, the widths `append_node` writes add up to what
`node_payload_size` predicts and to what the decoder reads) and
`DecodedAsEncoded` (an encoded plan is as long as predicted, and the stream of
its items ends where its header says). `EncodedIsAccepted` says that the island of
a verified plan passes the verifier's tests. `AssemblerInvariantHolds` is the
inductive invariant, one part per loop of `compile_machine_ir` and one for the
scan of what was assembled:

- `PlansInvariant`: patches reach immediates of literals only.
- `LayoutInvariant`: each offset is the end of the island before it, by the
  predicted sizes, and below the halt offset; past the layout loop, so is the end of
  the code.
- `RelocationInvariant`: what is patched stays patched. This is where two
  relocations of one literal would hurt.
- `EncodingInvariant`: the islands encoded lie at the first of the offsets.
- `HandoverInvariant`: the scan finds the first of those offsets again.

From it follow `ModulesVerify` (`AssembledModulesVerify`), `BoundariesAreOffsets`
(`OffsetsAreBoundaries`) and `ContinuationsLand` (`RelocationsLand`), which needs
`SealOpens` of `SharedLemmas` as well. TLC checked the invariant on the run `assembler`
before it was proved.

### Codec, physical values, encoding table

`ContinuationProofs` proves `TransfersOpen`, `PartialTransfersRefused` and
`HalfReplacedIsRefused` for every word width, key, tag and blinding set, from the
laws in `SharedLemmas`: exclusive or is the symmetric difference of the one bits, a
shifted offset shares no bit with an unshifted one, and `mix64` is injective.

`PhysicalProofs` starts with the laws of wrapping arithmetic: words are a
commutative ring, an odd square is one more than a multiple of eight, and eight
vanishes after six squarings.

- `InverseOddInverts`: each Newton step squares the error. It starts as a multiple
  of eight, so the loop's six steps make it zero.
- `ReadAfterWrite`: through an accepted layout (three different carriers in
  range, odd multipliers) each share comes back through its inverse map, and the
  shares join to the word, for both families.
- `ValuesReadBack` (`ReadsBack`), `CarriersAreHandedOutOnce`
  (`CarriersHandedOutOnce`) and `AcceptedLayoutsLoseNothing`
  (`AcceptedLayoutsHold`) for every limit, origin, blinding and foreign layout.
  `StoreInvariant` strengthens them: every allocated layout is accepted and no
  two share a carrier, so a write to one value leaves the others alone.

`FormatProofs` proves `ShuffleKeepsCodesApart` (a list without repetition stays
one under the loop's exchange) and from it `EncodingRoundTrips`
(`CodesDecodeToTheirKind`), for any number of byte values and kinds.

TLC evaluates the laws: those of `SharedLemmas` in `continuation` and `physical`, those
of `PhysicalProofs` in `physical`; `MixingIsInjective` is checked in `arithmetic` too.

### Files and commands

`FormatProofs` is about any bytes and any modules: nothing in it knows more of CRC32
than that a checksum is four bytes. `WordBytes = 8` is a hypothesis, since the
formats have eight bytes for a word and other sections of this project scale words.

- `ModuleIsItsFile` and `ProfileIsItsFile`: bytes that parse are what serialising
  the result gives. The header is tiled by its fields (`HeaderIsTiled`), each field
  is the one that writing what was read from it gives (`Read16`, `Read32`), the
  reserved bytes were found zero, and the sizes were found to add up to the file's,
  so the sections are the rest of it (`CarriersRejoin`). `NothingHasTwoFiles`
  (`ParseIsStrict`) follows for every step of `DamagedFiles`; the invariant it needs
  is only that the file stays bytes.
- `ModuleRoundTrips` and `ProfileRoundTrips`: what is serialised parses as itself.
  This direction needs that a size fits its field, which `validate_module_shape`
  tests (`FitsField`), and the types of `Module` (`IsModule`).
- `SuccessfulBuildsAreAccepted` (`UndisturbedBuildIsAccepted`): for any number of
  builds and any partial writes and reads. That a command refuses nothing a
  successful build left is not inductive: it says nothing of the builds under way
  or of a reader halfway through. `Undisturbed` does. `AloneProgresses`: a build
  that has been alone since it began is the only one running, the files it is
  through with are whole, and the one it has open holds as much of it as the build
  has written. `StandingIsWhole`: what stands is whole in all three files, and
  nothing runs. `ReaderKeepsUp`: a reader that began then has read a prefix of a
  file that still stands, has measured its whole size, and what it has loaded is
  what was built. A write by the build alone extends a prefix (`MoreWritten`), a
  read as well (`MoreRead`), and the two round trips say what the whole files parse
  as. A build that starts breaks all of that on purpose: it leaves nothing standing.
  TLC checked `Undisturbed` on the run `artifacts` before it was proved.

`SamplesAssumption` and `ArtifactsAssumption` say that what is written are modules
that serialising accepts, and profiles, and that a build binds its module to its
profile; TLC evaluates them in `damaged_files` and `artifacts`.

### Induction

The induction theorems of the library take operators as parameters, which the
installed provers cannot instantiate. `SharedLemmas` does without: from the
well-foundedness of the naturals (`WFMin`) it proves that a set of naturals has a
least element, and that a set with 0 that is closed under successor up to a bound
has everything up to the bound (`UpTo`). A proof then states its induction as
membership in a set. `Running` defines running sums of a sequence, with
`RunningExists` (the recursion has a solution), `RunningSteps` and `RunningGrows`;
sums of plan sizes, the bytes of a load and the values of an island's nodes are
all handled so.

### Only model-checked

- Liveness (`VerificationEnds`, `RunEnds`, `EveryRunEnds`), which is out of the
  prover's reach.
- `RunsAsItsFunction`, `BooleansAreBits` and `FactorialComputes`, whose proof would
  be that of the whole compiler.
- `DamageIsRefused`, `LoadedFilesAreWhole` and `AcceptedPairIsOneBuild`: they say that
  damage and mixtures of two builds are refused, and it is the checksum that refuses
  them. A 32-bit sum cannot tell all files apart, so they are claims about concrete
  bytes and hold for no stronger reason than that TLC computed the sums.
- The arithmetic, bit by bit, and the walk of `is_valid_utf8`.

## 5. Not modelled, and why

- *Byte mask and fingerprint hash*: their effect is modelled (bytes masked for
  another offset decode to something else; a fingerprint is a function of the
  seed), not their bits. Two seeds with one 64-bit fingerprint are not modelled.
- *The sidecar's JSON*: records and their values are modelled, escapes and layout
  are not. Nothing reads the file back.
- *Argument parsing, usage, directories, console output* of the command line, and
  the fuzz target, which only calls `parse_module`, `create` and `run`.
- *Fault messages and locations, disassembly text, report counters*: wording and
  layout.
- *What `verify` does after the fingerprint test*: that is `PhysicalVerifier`, and
  `Artifacts` does not repeat it.
- *Memory exhaustion of the host and callbacks that throw*: outside the code's
  own control flow.

The repository's README says that a load sees memory from before its island; the
model has it so, and `RunsAsItsFunction` gives blocks the same meaning. No
disagreement between code, comments, tests and documents came up, so `findings` is
empty.

## 6. What is left

1. A proof that a lowered block computes what its actions mean (`RunsAsItsFunction`):
   each binding would hold the value `IrInterpreter` has for its id. `DraftSound`
   says that bindings name nodes; the missing part is their values.
2. One specification of which `Lowering` and `Assembler` are the two halves, so that
   the two theorems above become one.
