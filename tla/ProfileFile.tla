------------------------------ MODULE ProfileFile ------------------------------
(***************************************************************************)
(* serialize_profile and parse_profile of profile.cpp: 32 bytes that hold a*)
(* seed and, as a second check, the fingerprint of the profile it derives. *)
(***************************************************************************)
EXTENDS ByteFormat, MachineWord

\* from_seed: the fingerprint of the profile a seed derives (seed and
\* fingerprint are the bytes of a word).
CONSTANT FingerprintOf(_)

kProfileMagic == <<88, 81, 80, 70>> \* "XQPF"
kProfileVersion == 1
kProfileSize == 32
kProfileChecksumOffset == 24
kProfileReservedOffset == 28

from_seed(seed) == [seed |-> seed, fingerprint |-> FingerprintOf(seed)]

serialize_profile(profile) ==
    Value(Sealed(kProfileMagic
                     \o write_u16(kProfileVersion) \o write_u16(kProfileSize)
                     \o profile.seed \o profile.fingerprint \o Zeros(8),
                 kProfileChecksumOffset))

ProfileHeaderKnown(bytes) ==
    /\ Len(bytes) = kProfileSize
    /\ FieldAt(bytes, 0, 4) = kProfileMagic
    /\ read_u16(bytes, 4) = kProfileVersion
    /\ read_u16(bytes, 6) = kProfileSize
    /\ FieldAt(bytes, kProfileReservedOffset, 4) = Zeros(4)

StatesItsFingerprint(bytes, profile) ==
    profile.fingerprint = FieldAt(bytes, 16, WordBytes)

parse_profile(bytes) ==
    IF ~ProfileHeaderKnown(bytes) THEN Refusal("InvalidModule")
    ELSE IF Checksum(bytes, kProfileChecksumOffset) # FieldAt(bytes, kProfileChecksumOffset, 4)
    THEN Refusal("ChecksumMismatch")
    ELSE LET profile == from_seed(FieldAt(bytes, 8, WordBytes))
         IN  IF StatesItsFingerprint(bytes, profile)
             THEN Value(profile)
             ELSE Refusal("InvalidModule")
=============================================================================
