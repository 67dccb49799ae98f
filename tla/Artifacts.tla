------------------------------ MODULE Artifacts ------------------------------
(***************************************************************************)
(* The command line at work on the files of one prefix: build-demo writes  *)
(* the module, the profile and the sidecar one after the other (save_module*)
(* save_profile, save_origin_sidecar), and may stop anywhere; verify, run  *)
(* and fuzz-seed load the module and then the profile (load_module,        *)
(* load_profile) while builds go on.  Nothing locks or renames a file.  A  *)
(* write and a read may each transfer any part of what was asked for.      *)
(***************************************************************************)
EXTENDS ModuleFile, ProfileFile

CONSTANTS
    Builders,     \* the build-demo commands
    SeedOf,       \* the seed each of them is given
    OldSeed,      \* the seed of a build that may have ended long before
    CompiledModule(_), \* the module compile_machine_ir makes of a seed's profile
    Cuts,         \* how much of a file partial transfers come to
    None          \* no seed, no value

Files == {"module", "profile", "sidecar"}

VARIABLES
    disk,      \* the contents of the three files, None while there is no file
    builders,  \* for each build: the file it is at, whether that is open and how
               \* much of it is written, and whether the build goes on
    reader,    \* the loading command: what it is at, the bytes read so far, the size
               \* it measured, the results of the two loads and its verdict
    seed_file, \* the output of fuzz-seed
    standing   \* the seed of the last successful build that no other build has
               \* touched the files of since it began

artifactVars == <<disk, builders, reader, seed_file, standing>>

\* The order of the files in build-demo.
Order == <<"module", "profile", "sidecar">>

BuildSeeds == {SeedOf[b] : b \in Builders} \cup {OldSeed}

\* What a build writes into a file.  Nothing reads the sidecar back.
Contents ==
    [seed \in BuildSeeds |->
        [module  |-> serialize_module(CompiledModule(seed)).value,
         profile |-> serialize_profile(from_seed(seed)).value,
         sidecar |-> seed]]

\* A build compiles a module that serialising accepts, and binds it to its profile.
ASSUME ArtifactsAssumption ==
    /\ \A seed \in BuildSeeds :
           /\ IsModule(CompiledModule(seed)) /\ ModuleShapeValid(CompiledModule(seed))
           /\ seed \in Bytes(WordBytes) /\ FingerprintOf(seed) \in Bytes(WordBytes)
           /\ CompiledModule(seed).fingerprint = FingerprintOf(seed)
           /\ \A file \in Files : Contents[seed][file] # None
    /\ Cuts \subseteq Nat
    /\ ModuleLimits.max_file_size \in Nat

NotStarted == [phase |-> "idle", bytes |-> << >>, size |-> 0, module |-> None,
               profile |-> None, since |-> None]

ArtifactsInit ==
    /\ \/ disk = [file \in Files |-> None] /\ standing = None
       \/ disk = [file \in Files |-> Contents[OldSeed][file]] /\ standing = OldSeed
    /\ builders = [b \in Builders |->
                      [status |-> "idle", at |-> 1, open |-> FALSE, written |-> 0,
                       alone |-> TRUE]]
    /\ reader = NotStarted
    /\ seed_file = None

-----------------------------------------------------------------------------
(***************************************************************************)
(* build-demo                                                              *)
(***************************************************************************)
Running(b) == builders[b].status = "running"
CurrentFile(b) == Order[builders[b].at]

\* A build that starts disturbs what stood in the files and every other build.
StartBuild(b) ==
    /\ builders[b].status = "idle"
    /\ builders' = [c \in Builders |->
                       IF c = b
                       THEN [builders[b] EXCEPT !.status = "running",
                                 !.alone = \A d \in Builders : ~Running(d)]
                       ELSE [builders[c] EXCEPT !.alone = FALSE]]
    /\ standing' = None
    /\ reader' = [reader EXCEPT !.since = None]
    /\ UNCHANGED <<disk, seed_file>>

\* Mutant: the file keeps what it held.
OpenedKeeping(content) == IF content = None THEN << >> ELSE content

\* std::ofstream with std::ios::trunc.
Opened(content) == << >>

OpenOutput(b) ==
    /\ Running(b)
    /\ ~builders[b].open
    /\ disk' = [disk EXCEPT ![CurrentFile(b)] = Opened(@)]
    /\ builders' = [builders EXCEPT ![b].open = TRUE, ![b].written = 0]
    /\ UNCHANGED <<reader, seed_file, standing>>

\* Bytes written at a position: past the end of a file that was truncated in the
\* meantime, the gap reads as zeros.
WrittenAt(content, position, bytes) ==
    [n \in 1 .. (IF position + Len(bytes) > Len(content)
                 THEN position + Len(bytes) ELSE Len(content)) |->
        IF n - position \in DOMAIN bytes THEN bytes[n - position]
        ELSE IF n <= Len(content) THEN content[n] ELSE 0]

WriteOutput(b, upTo) ==
    disk' = [disk EXCEPT ![CurrentFile(b)] =
                WrittenAt(@, builders[b].written,
                          SubSeq(Contents[SeedOf[b]][CurrentFile(b)],
                                 builders[b].written + 1, upTo))]

WritePart(b) ==
    \E upTo \in Cuts :
        /\ Running(b)
        /\ builders[b].open
        /\ upTo > builders[b].written
        /\ upTo < Len(Contents[SeedOf[b]][CurrentFile(b)])
        /\ WriteOutput(b, upTo)
        /\ builders' = [builders EXCEPT ![b].written = upTo]
        /\ UNCHANGED <<reader, seed_file, standing>>

\* The rest of the file is written and the file closed; after the last one the
\* command reports success.
WriteRest(b) ==
    /\ Running(b)
    /\ builders[b].open
    /\ WriteOutput(b, Len(Contents[SeedOf[b]][CurrentFile(b)]))
    /\ IF builders[b].at < Len(Order)
       THEN /\ builders' = [builders EXCEPT ![b].at = @ + 1, ![b].open = FALSE]
            /\ UNCHANGED standing
       ELSE /\ builders' = [builders EXCEPT ![b].status = "succeeded", ![b].open = FALSE]
            /\ standing' = IF builders[b].alone THEN SeedOf[b] ELSE None
    /\ UNCHANGED <<reader, seed_file>>

\* The process dies, or a file cannot be opened or written and the command returns
\* the error: the files stay as they are.
StopBuild(b) ==
    /\ Running(b)
    /\ builders' = [builders EXCEPT ![b] = [@ EXCEPT !.status = "stopped", !.open = FALSE]]
    /\ UNCHANGED <<disk, reader, seed_file, standing>>

-----------------------------------------------------------------------------
(***************************************************************************)
(* load_module, load_profile and what the commands do with the pair        *)
(***************************************************************************)
StartLoading ==
    /\ reader.phase = "idle"
    /\ reader' = [reader EXCEPT !.phase = "module", !.since = standing]
    /\ UNCHANGED <<disk, builders, seed_file, standing>>

\* A load is over with a result; the profile is loaded whatever the module came to.
Loaded(result) ==
    reader' = IF reader.phase \in {"module", "module bytes"}
              THEN [reader EXCEPT !.phase = "profile", !.module = result]
              ELSE [reader EXCEPT !.phase = "use", !.profile = result]

\* Opening a file and measuring it.
SizeRefused(size) ==
    IF reader.phase = "module" THEN size > ModuleLimits.max_file_size ELSE size # kProfileSize

OpenInput ==
    /\ reader.phase \in {"module", "profile"}
    /\ LET content == disk[reader.phase]
       IN  IF content = None THEN Loaded(Refusal("Io"))
           ELSE IF SizeRefused(Len(content)) THEN Loaded(Refusal("InvalidModule"))
           ELSE reader' = [reader EXCEPT !.size = Len(content), !.bytes = << >>,
                               !.phase = IF @ = "module" THEN "module bytes"
                                                         ELSE "profile bytes"]
    /\ UNCHANGED <<disk, builders, seed_file, standing>>

InputFile == IF reader.phase = "module bytes" THEN "module" ELSE "profile"
Parse(bytes) ==
    IF reader.phase = "module bytes" THEN parse_module(bytes) ELSE parse_profile(bytes)

\* Some more bytes of the measured size, as the file has them now.
ReadPart ==
    \E upTo \in Cuts :
        /\ reader.phase \in {"module bytes", "profile bytes"}
        /\ upTo > Len(reader.bytes)
        /\ upTo < reader.size
        /\ upTo <= Len(disk[InputFile])
        /\ reader' = [reader EXCEPT !.bytes =
                         @ \o SubSeq(disk[InputFile], Len(@) + 1, upTo)]
        /\ UNCHANGED <<disk, builders, seed_file, standing>>

\* The rest of the measured size; a file that has become shorter fails the read.
ReadRest ==
    /\ reader.phase \in {"module bytes", "profile bytes"}
    /\ IF Len(disk[InputFile]) < reader.size
       THEN Loaded(Refusal("Io"))
       ELSE \E bytes \in {reader.bytes \o SubSeq(disk[InputFile], Len(reader.bytes) + 1,
                                                 reader.size)} :
                Loaded(Parse(bytes))
    /\ UNCHANGED <<disk, builders, seed_file, standing>>

\* Mutant: any profile will do.
MatchAnyway(module, profile) == TRUE

\* The check verify_physical_module, Machine::create and save_fuzz_seed begin with.
Match(module, profile) == module.fingerprint = profile.fingerprint

\* verify or run: the pair is used or refused.
Use ==
    /\ reader.phase = "use"
    /\ reader' = [reader EXCEPT !.phase =
                     IF /\ IsValue(reader.module)
                        /\ IsValue(reader.profile)
                        /\ Match(reader.module.value, reader.profile.value)
                     THEN "accepted" ELSE "refused"]
    /\ UNCHANGED <<disk, builders, seed_file, standing>>

\* fuzz-seed: the seed and the module written anew, in one file or in part of one.
SaveFuzzSeed ==
    /\ reader.phase = "accepted"
    /\ seed_file = None
    /\ LET output == reader.profile.value.seed \o serialize_module(reader.module.value).value
       IN  \E length \in Cuts \cup {Len(output)} : seed_file' = SubSeq(output, 1, length)
    /\ UNCHANGED <<disk, builders, reader, standing>>

BuildNext ==
    \E b \in Builders :
        StartBuild(b) \/ OpenOutput(b) \/ WritePart(b) \/ WriteRest(b) \/ StopBuild(b)

LoadNext == StartLoading \/ OpenInput \/ ReadPart \/ ReadRest \/ Use \/ SaveFuzzSeed

ArtifactsNext == BuildNext \/ LoadNext

ArtifactsSpec == ArtifactsInit /\ [][ArtifactsNext]_artifactVars

-----------------------------------------------------------------------------
\* Whatever builds do to the files while they are read, a module that loads is one
\* that some build compiled, and a profile that loads is one that some build used:
\* never a mixture, a part or a file with a stale tail (load_module, load_profile).
LoadedFilesAreWhole ==
    /\ reader.phase \notin {"idle", "module", "module bytes"} /\ IsValue(reader.module) =>
           \E seed \in BuildSeeds : reader.module.value = CompiledModule(seed)
    /\ reader.phase \in {"use", "accepted", "refused"} /\ IsValue(reader.profile) =>
           \E seed \in BuildSeeds : reader.profile.value = from_seed(seed)

\* A pair that is verified, run or made a fuzz seed comes from one build, although
\* the two files are written and read one after the other; and a fuzz seed that the
\* fuzz target can parse holds the seed its module was compiled with (execute,
\* save_fuzz_seed).
AcceptedPairIsOneBuild ==
    /\ reader.phase = "accepted" =>
           \E seed \in BuildSeeds :
               /\ reader.module.value = CompiledModule(seed)
               /\ reader.profile.value = from_seed(seed)
    /\ seed_file # None =>
           LET parsed == parse_module(SubSeq(seed_file, WordBytes + 1, Len(seed_file)))
           IN  IsValue(parsed) =>
                   \E seed \in BuildSeeds :
                       /\ seed = SubSeq(seed_file, 1, WordBytes)
                       /\ parsed.value = CompiledModule(seed)

\* After a build that reported success, and as long as no other build works on the
\* files, the commands accept what it left, whatever earlier or failed builds had
\* left there before (build-demo, run, verify).
UndisturbedBuildIsAccepted == reader.phase = "refused" => reader.since = None
=============================================================================
