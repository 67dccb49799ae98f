------------------------------ MODULE ByteFormat ------------------------------
(***************************************************************************)
(* What the module file and the profile file are written with: little      *)
(* endian fields at fixed offsets, and the CRC32 that module.cpp and       *)
(* profile.cpp each compute over the whole file with its own field zeroed. *)
(* The register of the CRC is the set of the bits that are set in it.  A   *)
(* word that no reader computes with (the seed, the fingerprint, a carrier)*)
(* is the sequence of its bytes.                                           *)
(***************************************************************************)
EXTENDS Integers, Sequences

LOCAL INSTANCE FiniteSetsExt

Byte == 0 .. 255

\* What std::uint16_t and std::uint32_t hold, and what a field of count bytes holds.
U16 == {value \in Nat : value \div 256 < 256}
U32 == {value \in Nat : value \div 16777216 < 256}
Bytes(count) == [1 .. count -> Byte]

Zeros(count) == [n \in 1 .. count |-> 0]

\* write_u16, write_u32: the bytes of a value, and a field put at an offset.
write_u16(value) == <<value % 256, (value \div 256) % 256>>
write_u32(value) ==
    <<value % 256, (value \div 256) % 256, (value \div 65536) % 256, (value \div 16777216) % 256>>

Write(bytes, offset, field) ==
    [n \in DOMAIN bytes |->
        IF n - offset \in DOMAIN field THEN field[n - offset] ELSE bytes[n]]

\* The bytes of a field, and read_u16, read_u32: the value they spell.
FieldAt(bytes, offset, width) == SubSeq(bytes, offset + 1, offset + width)

read_u16(bytes, offset) == bytes[offset + 1] + bytes[offset + 2] * 256
read_u32(bytes, offset) ==
    bytes[offset + 1] + bytes[offset + 2] * 256 + bytes[offset + 3] * 65536
        + bytes[offset + 4] * 16777216

\* The bits set in 0xEDB88320.
Polynomial == {5, 8, 9, 15, 19, 20, 21, 23, 24, 26, 27, 29, 30, 31}

BitsOf == [byte \in Byte |-> {bit \in 0 .. 7 : (byte \div 2 ^ bit) % 2 = 1}]

ShiftRight(crc, distance) == {bit - distance : bit \in {b \in crc : b >= distance}}

\* One turn of the inner loop of crc32.
Turned(crc) ==
    SymDiff(ShiftRight(crc, 1), IF 0 \in crc THEN Polynomial ELSE {})

\* What eight turns make of a register that holds one byte only.
TurnedByte ==
    [byte \in Byte |->
        LET after[n \in 0 .. 8] == IF n = 0 THEN BitsOf[byte] ELSE Turned(after[n - 1])
        IN  after[8]]

ByteAt(bits, n) ==
    LET Worth(bit, weight) == IF 8 * n + bit \in bits THEN weight ELSE 0
    IN  Worth(0, 1) + Worth(1, 2) + Worth(2, 4) + Worth(3, 8)
            + Worth(4, 16) + Worth(5, 32) + Worth(6, 64) + Worth(7, 128)

\* The register of crc32 after all the bytes.  Eight turns shift the byte taken
\* in out of the register and leave what they make of it, the turns being linear.
Register(bytes) ==
    LET Absorb(crc, byte) ==
            SymDiff(ShiftRight(crc, 8),
                    TurnedByte[ByteAt(SymDiff({b \in crc : b < 8}, BitsOf[byte]), 0)])
        after[crc \in SUBSET (0 .. 31), rest \in Seq(Byte)] ==
            CASE Len(rest) = 0 -> crc
              [] Len(rest) = 1 -> Absorb(crc, rest[1])
              [] OTHER -> LET half == Len(rest) \div 2
                          IN  after[after[crc, SubSeq(rest, 1, half)],
                                    SubSeq(rest, half + 1, Len(rest))]
    IN  (0 .. 31) \ after[0 .. 31, bytes]

\* crc32, as the four bytes write_u32 stores.
crc32(bytes) == LET register == Register(bytes) IN [n \in 1 .. 4 |-> ByteAt(register, n - 1)]

\* Mutant: only the fields before the checksum are summed.
ChecksumOfFields(bytes, offset) == crc32(SubSeq(bytes, 1, offset))

\* The checksum at an offset of a file, and the file with it filled in: the sum is
\* taken with the field itself zeroed.
Checksum(bytes, offset) == crc32(Write(bytes, offset, Zeros(4)))
Sealed(bytes, offset) == Write(bytes, offset, Checksum(bytes, offset))

\* Result<T>: a value, or the ErrorCode it was refused with.
Value(value) == [error |-> "None", value |-> value]
Refusal(code) == [error |-> code]
IsValue(result) == result.error = "None"
=============================================================================
