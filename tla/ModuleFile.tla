------------------------------ MODULE ModuleFile ------------------------------
(***************************************************************************)
(* serialize_module and parse_module of module.cpp: a header of 64 bytes,  *)
(* then the code, the data and the initial carriers.  A module's code and  *)
(* data are sequences of bytes here, its fingerprint and each carrier the  *)
(* bytes of a word.                                                        *)
(***************************************************************************)
EXTENDS ByteFormat, ModuleShape

kMagic == <<88, 81, 86, 77>> \* "XQVM"
kModuleVersion == 3
kFlagsOffset == 8
kFingerprintOffset == 32
kChecksumOffset == 40
kReservedOffset == 46

\* A Module with the types of its members; its initial carriers may be of any number.
IsModule(module) ==
    module \in
        [memory_size : U32, carrier_count : U32, argument_count : U16,
         fingerprint : Bytes(WordBytes), code_size : {Len(module.code)}, code : Seq(Byte),
         data : Seq(Byte),
         initial_carriers : [DOMAIN module.initial_carriers -> Bytes(WordBytes)]]

\* The carriers one after the other.
CarrierSection(module) ==
    [n \in 1 .. module.carrier_count * WordBytes |->
        module.initial_carriers[(n - 1) \div WordBytes][((n - 1) % WordBytes) + 1]]

Header(module) ==
    kMagic \o write_u16(kModuleVersion) \o write_u16(kModuleHeaderSize)
        \o Zeros(4)
        \o write_u32(module.memory_size) \o write_u32(module.carrier_count)
        \o write_u32(module.code_size) \o write_u32(Len(module.data))
        \o write_u32(module.carrier_count * WordBytes)
        \o module.fingerprint \o Zeros(4) \o write_u16(module.argument_count)
        \o Zeros(kModuleHeaderSize - kReservedOffset)

serialize_module(module) ==
    IF ModuleShapeValid(module)
    THEN Value(Sealed(Header(module) \o module.code \o module.data
                          \o CarrierSection(module), kChecksumOffset))
    ELSE Refusal("InvalidModule")

-----------------------------------------------------------------------------
\* What is asked of the file before its checksum is computed.
HeaderKnown(bytes) ==
    /\ Len(bytes) >= kModuleHeaderSize
    /\ Len(bytes) <= ModuleLimits.max_file_size
    /\ FieldAt(bytes, 0, 4) = kMagic
    /\ read_u16(bytes, 4) = kModuleVersion
    /\ read_u16(bytes, 6) = kModuleHeaderSize
    /\ FieldAt(bytes, kFlagsOffset, 4) = Zeros(4)
    /\ \A offset \in kReservedOffset .. (kModuleHeaderSize - 1) : bytes[offset + 1] = 0

ChecksumMatches(bytes) ==
    Checksum(bytes, kChecksumOffset) = FieldAt(bytes, kChecksumOffset, 4)

\* The sizes the header claims.
ClaimedSizes(bytes) ==
    [memory   |-> read_u32(bytes, 12),
     carriers |-> read_u32(bytes, 16),
     code     |-> read_u32(bytes, 20),
     data     |-> read_u32(bytes, 24),
     carrier_bytes |-> read_u32(bytes, 28)]

\* Mutant: what lies behind the last section is ignored.
SizesFitLoosely(bytes, sizes) ==
    /\ sizes.memory <= ModuleLimits.max_memory_size
    /\ sizes.carriers <= ModuleLimits.max_carriers
    /\ sizes.code <= ModuleLimits.max_code_size
    /\ sizes.data <= ModuleLimits.max_data_size
    /\ sizes.carrier_bytes = sizes.carriers * WordBytes
    /\ kModuleHeaderSize + sizes.code + sizes.data + sizes.carrier_bytes <= Len(bytes)

\* What is asked of them before a section is sliced.
SizesFit(bytes, sizes) ==
    /\ sizes.memory <= ModuleLimits.max_memory_size
    /\ sizes.carriers <= ModuleLimits.max_carriers
    /\ sizes.code <= ModuleLimits.max_code_size
    /\ sizes.data <= ModuleLimits.max_data_size
    /\ sizes.carrier_bytes = sizes.carriers * WordBytes
    /\ kModuleHeaderSize + sizes.code + sizes.data + sizes.carrier_bytes = Len(bytes)

\* The module the sections make.
Sliced(bytes, sizes) ==
    LET data == kModuleHeaderSize + sizes.code
        carriers == data + sizes.data
    IN  [memory_size      |-> sizes.memory,
         carrier_count    |-> sizes.carriers,
         argument_count   |-> read_u16(bytes, 44),
         fingerprint      |-> FieldAt(bytes, kFingerprintOffset, WordBytes),
         code_size        |-> sizes.code,
         code             |-> FieldAt(bytes, kModuleHeaderSize, sizes.code),
         data             |-> FieldAt(bytes, data, sizes.data),
         initial_carriers |-> [n \in 0 .. (sizes.carriers - 1) |->
                                  FieldAt(bytes, carriers + n * WordBytes, WordBytes)]]

\* Short-circuiting keeps the order of the code: nothing is read before its check.
parse_module(bytes) ==
    IF ~HeaderKnown(bytes) THEN Refusal("InvalidModule")
    ELSE IF ~ChecksumMatches(bytes) THEN Refusal("ChecksumMismatch")
    ELSE LET sizes == ClaimedSizes(bytes)
         IN  IF SizesFit(bytes, sizes) /\ ModuleShapeValid(Sliced(bytes, sizes))
             THEN Value(Sliced(bytes, sizes))
             ELSE Refusal("InvalidModule")
=============================================================================
