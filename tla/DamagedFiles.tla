----------------------------- MODULE DamagedFiles -----------------------------
(***************************************************************************)
(* The two file formats under damage: bytes altered, the file cut short,   *)
(* bytes appended, the rest of the file replaced by that of another (which *)
(* is what a reader sees of a file that is being rewritten), and the       *)
(* checksum brought up to date by whoever edits a file on purpose.         *)
(***************************************************************************)
EXTENDS ModuleFile, ProfileFile

CONSTANTS
    SampleModules, \* the modules written to files
    SampleSeeds,   \* the seeds of the profiles written to files
    EditedOffsets, \* the offsets at which bytes are altered
    CutLengths,    \* the lengths at which files are cut and spliced
    MaxEdits       \* bound on the edits a file goes through

\* What is written are modules that serialising accepts and profiles.
ASSUME SamplesAssumption ==
    /\ \A module \in SampleModules : IsModule(module) /\ ModuleShapeValid(module)
    /\ \A seed \in SampleSeeds :
           seed \in Bytes(WordBytes) /\ FingerprintOf(seed) \in Bytes(WordBytes)
    /\ EditedOffsets \subseteq Nat
    /\ CutLengths \subseteq Nat

VARIABLES
    kind,     \* "module" or "profile"
    written,  \* the module or the profile the file was written from
    file,     \* the bytes of the file
    edits,    \* how often it was edited
    resealed  \* its checksum was ever brought up to date

damageVars == <<kind, written, file, edits, resealed>>

Samples(of) ==
    IF of = "module" THEN SampleModules ELSE {from_seed(seed) : seed \in SampleSeeds}

Image(of, what) ==
    LET result == IF of = "module" THEN serialize_module(what) ELSE serialize_profile(what)
    IN  result.value

Parsed == IF kind = "module" THEN parse_module(file) ELSE parse_profile(file)

ChecksumOffset == IF kind = "module" THEN kChecksumOffset ELSE kProfileChecksumOffset

DamageInit ==
    /\ kind \in {"module", "profile"}
    /\ written \in Samples(kind)
    /\ file = Image(kind, written)
    /\ edits = 0
    /\ resealed = FALSE

Edit(bytes) ==
    /\ edits < MaxEdits
    /\ file' = bytes
    /\ edits' = edits + 1
    /\ UNCHANGED <<kind, written, resealed>>

Alter ==
    \E offset \in EditedOffsets, difference \in {1, 255} :
        /\ offset < Len(file)
        /\ Edit([file EXCEPT ![offset + 1] = (@ + difference) % 256])

Truncate == \E length \in CutLengths : length < Len(file) /\ Edit(SubSeq(file, 1, length))

Extend == Edit(Append(file, 0))

Splice ==
    \E length \in CutLengths, other \in Samples(kind) :
        /\ length < Len(file)
        /\ Edit(SubSeq(file, 1, length)
                    \o SubSeq(Image(kind, other), length + 1, Len(Image(kind, other))))

Reseal ==
    /\ Len(file) >= ChecksumOffset + 4
    /\ edits > 0
    /\ ~resealed
    /\ file' = Sealed(file, ChecksumOffset)
    /\ resealed' = TRUE
    /\ UNCHANGED <<kind, written, edits>>

DamageNext == Alter \/ Truncate \/ Extend \/ Splice \/ Reseal

DamageSpec == DamageInit /\ [][DamageNext]_damageVars

-----------------------------------------------------------------------------
\* A file that parses is the very file that serialising what came out of it makes:
\* no byte is ignored and nothing has two files, whatever was edited and resealed.
\* In particular the fingerprint in a profile is the one its seed derives
\* (parse_module, serialize_module, parse_profile, serialize_profile).
ParseIsStrict == IsValue(Parsed) => Image(kind, Parsed.value) = file

\* As long as nobody brings the checksum up to date, a file parses only when it is
\* what was written, or what another writer wrote, and then to what was written.
DamageIsRefused ==
    ~resealed =>
        IF \E what \in Samples(kind) : file = Image(kind, what)
        THEN IsValue(Parsed) /\ (file = Image(kind, written) => Parsed = Value(written))
        ELSE ~IsValue(Parsed)
=============================================================================
