----------------------------- MODULE FormatProofs -----------------------------
(***************************************************************************)
(* Theorems about the module file, the profile file and what the command   *)
(* line does with them: an image that parses is the image of what it       *)
(* parses as (nothing has two files), what is serialised parses as itself, *)
(* and the files of a build that reported success are accepted as long as  *)
(* no other build works on them.  None of them knows anything of CRC32 but *)
(* that a checksum is four bytes.  At the end, the encoding table that a   *)
(* profile's seed stands for.                                              *)
(***************************************************************************)
EXTENDS DamagedFiles, Artifacts, EncodingTable, TLAPS

-----------------------------------------------------------------------------
(***************************************************************************)
(* Fields of a file, and the numbers they spell.                           *)
(***************************************************************************)

\* A byte is a number below 256.
LEMMA ByteRange ==
    ASSUME NEW bytes \in Seq(Byte), NEW n \in 1 .. Len(bytes)
    PROVE  bytes[n] \in 0 .. 255
<1>1. bytes[n] \in Byte
  OBVIOUS
<1> QED
  BY <1>1 DEF Byte

\* The bytes of a field.
LEMMA FieldIs ==
    ASSUME NEW bytes \in Seq(Byte), NEW offset \in Nat, NEW width \in Nat,
           offset + width <= Len(bytes)
    PROVE  /\ FieldAt(bytes, offset, width) = [n \in 1 .. width |-> bytes[offset + n]]
           /\ FieldAt(bytes, offset, width) \in Seq(Byte)
           /\ Len(FieldAt(bytes, offset, width)) = width
BY DEF FieldAt

\* What two sequences of bytes joined are.
LEMMA Joined ==
    ASSUME NEW first \in Seq(Byte), NEW second \in Seq(Byte)
    PROVE  /\ first \o second \in Seq(Byte)
           /\ Len(first) \in Nat /\ Len(second) \in Nat
           /\ Len(first \o second) = Len(first) + Len(second)
           /\ \A n \in 1 .. Len(first) : (first \o second)[n] = first[n]
           /\ \A n \in 1 .. Len(second) : (first \o second)[Len(first) + n] = second[n]
OBVIOUS

\* Sequences of one length that agree at every place are one sequence.
LEMMA SameBytes ==
    ASSUME NEW a \in Seq(Byte), NEW b \in Seq(Byte), Len(a) = Len(b),
           \A n \in 1 .. Len(a) : a[n] = b[n]
    PROVE  a = b
OBVIOUS

\* Two fields one after the other are one field.
LEMMA FieldsJoin ==
    ASSUME NEW bytes \in Seq(Byte), NEW a \in Nat, NEW b \in Nat, NEW offset \in Nat,
           offset + a + b <= Len(bytes)
    PROVE  FieldAt(bytes, offset, a) \o FieldAt(bytes, offset + a, b)
               = FieldAt(bytes, offset, a + b)
<1> DEFINE first == FieldAt(bytes, offset, a)
           second == FieldAt(bytes, offset + a, b)
           whole == FieldAt(bytes, offset, a + b)
<1>1. /\ first \in Seq(Byte) /\ Len(first) = a
      /\ \A n \in 1 .. a : first[n] = bytes[offset + n]
  BY FieldIs
<1>2. /\ second \in Seq(Byte) /\ Len(second) = b
      /\ \A n \in 1 .. b : second[n] = bytes[offset + a + n]
  BY FieldIs
<1>3. /\ whole \in Seq(Byte) /\ Len(whole) = a + b
      /\ \A n \in 1 .. a + b : whole[n] = bytes[offset + n]
  BY FieldIs
<1> HIDE DEF first, second, whole
<1>4. /\ first \o second \in Seq(Byte) /\ Len(first \o second) = a + b
      /\ \A n \in 1 .. a : (first \o second)[n] = first[n]
      /\ \A n \in 1 .. b : (first \o second)[a + n] = second[n]
  BY <1>1, <1>2, Joined, Zenon
<1>5. ASSUME NEW n \in 1 .. (a + b) PROVE (first \o second)[n] = whole[n]
  <2>0. whole[n] = bytes[offset + n]
    BY <1>3, Zenon
  <2>1. CASE n <= a
    <3>1. n \in 1 .. a
      BY <2>1
    <3> QED
      BY <1>1, <1>4, <2>0, <3>1, Zenon
  <2>2. CASE n > a
    <3>1. n - a \in 1 .. b /\ a + (n - a) = n /\ offset + a + (n - a) = offset + n
      BY <2>2
    <3>2. (first \o second)[a + (n - a)] = second[n - a]
      BY <1>4, <3>1, Zenon
    <3>3. second[n - a] = bytes[offset + a + (n - a)]
      BY <1>2, <3>1, Zenon
    <3> QED
      BY <2>0, <3>1, <3>2, <3>3, Zenon
  <2>3. n <= a \/ n > a
    OBVIOUS
  <2> QED
    BY <2>1, <2>2, <2>3
<1>6. Len(first \o second) = Len(whole)
  BY <1>3, <1>4, Zenon
<1>7. \A n \in 1 .. Len(first \o second) : (first \o second)[n] = whole[n]
  BY <1>4, <1>5, Zenon
<1>8. first \o second = whole
  BY <1>3, <1>4, <1>6, <1>7, SameBytes, Zenon
<1> QED
  BY <1>8 DEF first, second, whole

\* A field put after others: it is found there, and the others where they were.
LEMMA FieldAppended ==
    ASSUME NEW bytes \in Seq(Byte), NEW field \in Seq(Byte)
    PROVE  /\ bytes \o field \in Seq(Byte)
           /\ Len(bytes \o field) = Len(bytes) + Len(field)
           /\ FieldAt(bytes \o field, Len(bytes), Len(field)) = field
           /\ \A offset \in Nat, width \in Nat :
                  offset + width <= Len(bytes) =>
                      FieldAt(bytes \o field, offset, width) = FieldAt(bytes, offset, width)
<1> DEFINE joined == bytes \o field
<1>1. /\ joined \in Seq(Byte) /\ Len(joined) = Len(bytes) + Len(field)
      /\ Len(bytes) \in Nat /\ Len(field) \in Nat
      /\ \A n \in 1 .. Len(bytes) : joined[n] = bytes[n]
      /\ \A n \in 1 .. Len(field) : joined[Len(bytes) + n] = field[n]
  OBVIOUS
<1> HIDE DEF joined
<1>2. FieldAt(joined, Len(bytes), Len(field)) = field
  <2>1. FieldAt(joined, Len(bytes), Len(field))
            = [n \in 1 .. Len(field) |-> joined[Len(bytes) + n]]
    <3>1. Len(bytes) + Len(field) <= Len(joined)
      BY <1>1
    <3> QED
      BY <1>1, <3>1, FieldIs, Zenon
  <2>2. field = [n \in 1 .. Len(field) |-> field[n]]
    OBVIOUS
  <2> QED
    BY <1>1, <2>1, <2>2
<1>3. ASSUME NEW offset \in Nat, NEW width \in Nat, offset + width <= Len(bytes)
      PROVE  FieldAt(joined, offset, width) = FieldAt(bytes, offset, width)
  <2>0. offset + width <= Len(joined)
    BY <1>1, <1>3
  <2>1. FieldAt(joined, offset, width) = [n \in 1 .. width |-> joined[offset + n]]
    BY <1>1, <2>0, FieldIs, Zenon
  <2>2. FieldAt(bytes, offset, width) = [n \in 1 .. width |-> bytes[offset + n]]
    BY <1>3, FieldIs
  <2>3. \A n \in 1 .. width : joined[offset + n] = bytes[offset + n]
    BY <1>1, <1>3, SMTT(30)
  <2> QED
    BY <2>1, <2>2, <2>3
<1> QED
  BY <1>1, <1>2, <1>3 DEF joined

\* The numbers two bytes and four bytes spell.
Spelt2(a, b) == a + b * 256
Spelt4(a, b, c, d) == a + b * 256 + c * 65536 + d * 16777216

\* They fit, and written they are those bytes again.
LEMMA SpeltTwo ==
    ASSUME NEW a \in Byte, NEW b \in Byte
    PROVE  Spelt2(a, b) \in U16 /\ write_u16(Spelt2(a, b)) = <<a, b>>
<1>1. PICK v : v = Spelt2(a, b)
  OBVIOUS
<1>2. v \in Nat /\ v \div 256 = b
  BY <1>1 DEF Spelt2, Byte
<1>3. v % 256 = a /\ (v \div 256) % 256 = b /\ v \div 256 < 256
  BY <1>1, <1>2 DEF Spelt2, Byte
<1> QED
  BY <1>1, <1>2, <1>3 DEF U16, write_u16

\* The same of four bytes.
LEMMA SpeltFour ==
    ASSUME NEW a \in Byte, NEW b \in Byte, NEW c \in Byte, NEW d \in Byte
    PROVE  Spelt4(a, b, c, d) \in U32 /\ write_u32(Spelt4(a, b, c, d)) = <<a, b, c, d>>
<1>1. PICK v : v = Spelt4(a, b, c, d)
  OBVIOUS
<1>2. v \in Nat /\ v \div 16777216 = d
  BY <1>1 DEF Spelt4, Byte
<1>3. v \div 65536 = c + d * 256
  BY <1>1 DEF Spelt4, Byte
<1>4. v \div 256 = b + c * 256 + d * 65536
  BY <1>1 DEF Spelt4, Byte
<1>5. v % 256 = a
  BY <1>1 DEF Spelt4, Byte
<1>6. /\ (v \div 256) % 256 = b /\ (v \div 65536) % 256 = c
      /\ (v \div 16777216) % 256 = d /\ v \div 16777216 < 256
  BY <1>2, <1>3, <1>4 DEF Byte
<1> QED
  BY <1>1, <1>2, <1>5, <1>6 DEF U32, write_u32

\* A field of two bytes, byte by byte.
LEMMA TwoBytes ==
    ASSUME NEW bytes \in Seq(Byte), NEW offset \in Nat, offset + 2 <= Len(bytes)
    PROVE  FieldAt(bytes, offset, 2) = <<bytes[offset + 1], bytes[offset + 2]>>
<1>1. FieldAt(bytes, offset, 2) = [n \in 1 .. 2 |-> bytes[offset + n]]
  BY FieldIs
<1> QED
  BY <1>1

\* A field of four bytes, byte by byte.
LEMMA FourBytes ==
    ASSUME NEW bytes \in Seq(Byte), NEW offset \in Nat, offset + 4 <= Len(bytes)
    PROVE  FieldAt(bytes, offset, 4)
               = <<bytes[offset + 1], bytes[offset + 2], bytes[offset + 3], bytes[offset + 4]>>
<1>1. FieldAt(bytes, offset, 4) = [n \in 1 .. 4 |-> bytes[offset + n]]
  BY FieldIs
<1> QED
  BY <1>1

\* Writing a value that was read gives the field it was read from.
LEMMA Read16 ==
    ASSUME NEW bytes \in Seq(Byte), NEW offset \in Nat, offset + 2 <= Len(bytes)
    PROVE  /\ read_u16(bytes, offset) \in U16
           /\ write_u16(read_u16(bytes, offset)) = FieldAt(bytes, offset, 2)
<1>1. \A n \in 1 .. 2 : bytes[offset + n] \in Byte
  OBVIOUS
<1>2. bytes[offset + 1] \in Byte /\ bytes[offset + 2] \in Byte
  BY <1>1
<1>3. read_u16(bytes, offset) = Spelt2(bytes[offset + 1], bytes[offset + 2])
  BY DEF read_u16, Spelt2
<1> QED
  BY <1>2, <1>3, TwoBytes, SpeltTwo, Zenon

\* The same of four bytes.
LEMMA Read32 ==
    ASSUME NEW bytes \in Seq(Byte), NEW offset \in Nat, offset + 4 <= Len(bytes)
    PROVE  /\ read_u32(bytes, offset) \in U32
           /\ write_u32(read_u32(bytes, offset)) = FieldAt(bytes, offset, 4)
<1>1. \A n \in 1 .. 4 : bytes[offset + n] \in Byte
  OBVIOUS
<1>2. PICK a, b, c, d : /\ a = bytes[offset + 1] /\ b = bytes[offset + 2]
                      /\ c = bytes[offset + 3] /\ d = bytes[offset + 4]
  BY Zenon
<1>6. a \in Byte /\ b \in Byte /\ c \in Byte /\ d \in Byte
  BY <1>1, <1>2
<1>3. read_u32(bytes, offset) = Spelt4(a, b, c, d)
  BY <1>2 DEF read_u32, Spelt4
<1>4. FieldAt(bytes, offset, 4) = <<a, b, c, d>>
  BY <1>2, FourBytes, Zenon
<1>5. Spelt4(a, b, c, d) \in U32 /\ write_u32(Spelt4(a, b, c, d)) = <<a, b, c, d>>
  BY <1>6, SpeltFour, Zenon
<1> QED
  BY <1>3, <1>4, <1>5, Zenon

\* A value that was written is what is read.
LEMMA Written16 ==
    ASSUME NEW v \in U16
    PROVE  /\ write_u16(v) \in Seq(Byte) /\ Len(write_u16(v)) = 2
           /\ \A bytes, offset :
                  /\ bytes \in Seq(Byte) /\ offset \in Nat /\ offset + 2 <= Len(bytes)
                  /\ FieldAt(bytes, offset, 2) = write_u16(v)
                  => read_u16(bytes, offset) = v
<1>1. PICK a, b :
              /\ a = v % 256
              /\ b = (v \div 256) % 256
  OBVIOUS
<1>2. write_u16(v) = <<a, b>>
  BY <1>1 DEF write_u16
<1>3. v \in Nat /\ v \div 256 < 256
  BY DEF U16
<1>4. a \in Byte /\ b \in Byte
  BY <1>1, <1>3 DEF Byte
<1>5. <<a, b>> \in Seq(Byte) /\ Len(<<a, b>>) = 2
  BY <1>4
<1>6. a + b * 256 = v
  BY <1>1, <1>3
<1>7. ASSUME NEW bytes, NEW offset, bytes \in Seq(Byte), offset \in Nat,
             offset + 2 <= Len(bytes), FieldAt(bytes, offset, 2) = write_u16(v)
      PROVE  read_u16(bytes, offset) = v
  <2>1. <<bytes[offset + 1], bytes[offset + 2]>> = <<a, b>>
    BY <1>2, <1>7, TwoBytes, Zenon
  <2>2. bytes[offset + 1] = a /\ bytes[offset + 2] = b
    BY <2>1
  <2>3. read_u16(bytes, offset) = a + b * 256
    BY <2>2 DEF read_u16
  <2> QED
    BY <1>6, <2>3
<1> QED
  BY <1>2, <1>5, <1>7, Zenon

\* The same of four bytes.
LEMMA Written32 ==
    ASSUME NEW v \in U32
    PROVE  /\ write_u32(v) \in Seq(Byte) /\ Len(write_u32(v)) = 4
           /\ \A bytes, offset :
                  /\ bytes \in Seq(Byte) /\ offset \in Nat /\ offset + 4 <= Len(bytes)
                  /\ FieldAt(bytes, offset, 4) = write_u32(v)
                  => read_u32(bytes, offset) = v
<1>1. PICK a, b, c, d :
              /\ a = v % 256
              /\ b = (v \div 256) % 256
              /\ c = (v \div 65536) % 256
              /\ d = (v \div 16777216) % 256
  OBVIOUS
<1>2. write_u32(v) = <<a, b, c, d>>
  BY <1>1 DEF write_u32
<1>3. v \in Nat /\ v \div 16777216 < 256
  BY DEF U32
<1>4. a \in Byte /\ b \in Byte /\ c \in Byte /\ d \in Byte
  BY <1>1, <1>3 DEF Byte
<1>5. <<a, b, c, d>> \in Seq(Byte) /\ Len(<<a, b, c, d>>) = 4
  BY <1>4
<1>6. a + b * 256 + c * 65536 + d * 16777216 = v
  BY <1>1, <1>3
<1>7. ASSUME NEW bytes, NEW offset, bytes \in Seq(Byte), offset \in Nat,
             offset + 4 <= Len(bytes), FieldAt(bytes, offset, 4) = write_u32(v)
      PROVE  read_u32(bytes, offset) = v
  <2>1. <<bytes[offset + 1], bytes[offset + 2], bytes[offset + 3], bytes[offset + 4]>>
            = <<a, b, c, d>>
    BY <1>2, <1>7, FourBytes, Zenon
  <2>2. /\ bytes[offset + 1] = a /\ bytes[offset + 2] = b
        /\ bytes[offset + 3] = c /\ bytes[offset + 4] = d
    BY <2>1
  <2>3. read_u32(bytes, offset) = a + b * 256 + c * 65536 + d * 16777216
    BY <2>2 DEF read_u32
  <2> QED
    BY <1>6, <2>3
<1> QED
  BY <1>2, <1>5, <1>7, Zenon


-----------------------------------------------------------------------------
\* A field put over the bytes of a file.
LEMMA WriteIs ==
    ASSUME NEW bytes \in Seq(Byte), NEW field \in Seq(Byte), NEW offset \in Nat,
           offset + Len(field) <= Len(bytes)
    PROVE  /\ Write(bytes, offset, field) \in Seq(Byte)
           /\ Len(Write(bytes, offset, field)) = Len(bytes)
           /\ \A n \in 1 .. Len(field) : Write(bytes, offset, field)[offset + n] = field[n]
           /\ \A n \in 1 .. Len(bytes) : n <= offset \/ n > offset + Len(field) =>
                  Write(bytes, offset, field)[n] = bytes[n]
<1> DEFINE result == Write(bytes, offset, field)
<1>1. /\ Len(bytes) \in Nat /\ DOMAIN bytes = 1 .. Len(bytes)
      /\ Len(field) \in Nat /\ DOMAIN field = 1 .. Len(field)
      /\ \A n \in 1 .. Len(bytes) : bytes[n] \in Byte
      /\ \A n \in 1 .. Len(field) : field[n] \in Byte
  OBVIOUS
<1>2. result = [n \in 1 .. Len(bytes) |->
                   IF n - offset \in 1 .. Len(field) THEN field[n - offset] ELSE bytes[n]]
  BY <1>1 DEF Write
<1> HIDE DEF result
<1>3. ASSUME NEW n \in 1 .. Len(bytes), n - offset \in 1 .. Len(field)
      PROVE  result[n] = field[n - offset]
  BY <1>2, <1>3
<1>4. ASSUME NEW n \in 1 .. Len(bytes), n - offset \notin 1 .. Len(field)
      PROVE  result[n] = bytes[n]
  BY <1>2, <1>4
<1>5. result \in Seq(Byte) /\ Len(result) = Len(bytes)
  <2>1. \A n \in 1 .. Len(bytes) : result[n] \in Byte
    BY <1>1, <1>3, <1>4, Zenon
  <2>2. result = [n \in 1 .. Len(bytes) |-> result[n]]
    BY <1>2
  <2> QED
    BY <1>1, <2>1, <2>2
<1>6. ASSUME NEW n \in 1 .. Len(field)
      PROVE  result[offset + n] = field[n]
  <2>1. offset + n \in 1 .. Len(bytes) /\ (offset + n) - offset = n
    BY <1>1
  <2> QED
    BY <1>3, <2>1, Zenon
<1>7. ASSUME NEW n \in 1 .. Len(bytes), n <= offset \/ n > offset + Len(field)
      PROVE  result[n] = bytes[n]
  <2>1. n - offset \notin 1 .. Len(field)
    BY <1>1, <1>7
  <2> QED
    BY <1>4, <2>1, Zenon
<1> QED
  BY <1>5, <1>6, <1>7, Zenon DEF result

\* It is found there, and every field beside it is what it was.
LEMMA FieldsWritten ==
    ASSUME NEW bytes \in Seq(Byte), NEW field \in Seq(Byte), NEW offset \in Nat,
           offset + Len(field) <= Len(bytes)
    PROVE  /\ FieldAt(Write(bytes, offset, field), offset, Len(field)) = field
           /\ \A o \in Nat, w \in Nat :
                  o + w <= offset \/ (offset + Len(field) <= o /\ o + w <= Len(bytes)) =>
                      FieldAt(Write(bytes, offset, field), o, w) = FieldAt(bytes, o, w)
<1> DEFINE result == Write(bytes, offset, field)
<1>1. /\ result \in Seq(Byte) /\ Len(result) = Len(bytes)
      /\ \A n \in 1 .. Len(field) : result[offset + n] = field[n]
      /\ \A n \in 1 .. Len(bytes) : n <= offset \/ n > offset + Len(field) =>
             result[n] = bytes[n]
  BY WriteIs, Zenon
<1>2. Len(bytes) \in Nat /\ Len(field) \in Nat
  OBVIOUS
<1> HIDE DEF result
<1>3. FieldAt(result, offset, Len(field)) = field
  <2>1. FieldAt(result, offset, Len(field)) = [n \in 1 .. Len(field) |-> result[offset + n]]
    BY <1>1, <1>2, FieldIs, Zenon
  <2>2. field = [n \in 1 .. Len(field) |-> field[n]]
    OBVIOUS
  <2> QED
    BY <1>1, <2>1, <2>2
<1>4. ASSUME NEW o \in Nat, NEW w \in Nat,
             o + w <= offset \/ (offset + Len(field) <= o /\ o + w <= Len(bytes))
      PROVE  FieldAt(result, o, w) = FieldAt(bytes, o, w)
  <2>1. o + w <= Len(bytes)
    BY <1>2, <1>4
  <2>2. /\ FieldAt(result, o, w) = [n \in 1 .. w |-> result[o + n]]
        /\ FieldAt(bytes, o, w) = [n \in 1 .. w |-> bytes[o + n]]
    BY <1>1, <2>1, FieldIs, Zenon
  <2>3. ASSUME NEW n \in 1 .. w PROVE result[o + n] = bytes[o + n]
    <3>1. /\ o + n \in 1 .. Len(bytes)
          /\ o + n <= offset \/ o + n > offset + Len(field)
      BY <1>2, <1>4, <2>1
    <3> QED
      BY <1>1, <3>1, Zenon
  <2> QED
    BY <2>2, <2>3
<1> QED
  BY <1>3, <1>4, Zenon DEF result

\* What is put over a file leaves every field beside it as it was.
LEMMA FieldBeside ==
    ASSUME NEW bytes \in Seq(Byte), NEW field \in Seq(Byte), NEW offset \in Nat,
           offset + Len(field) <= Len(bytes), NEW o \in Nat, NEW w \in Nat,
           o + w <= offset \/ (offset + Len(field) <= o /\ o + w <= Len(bytes))
    PROVE  FieldAt(Write(bytes, offset, field), o, w) = FieldAt(bytes, o, w)
BY FieldsWritten

\* Putting a second field over the first, and putting back what was there.
LEMMA WrittenOver ==
    ASSUME NEW bytes \in Seq(Byte), NEW field \in Seq(Byte), NEW other \in Seq(Byte),
           NEW offset \in Nat, offset + Len(field) <= Len(bytes), Len(other) = Len(field)
    PROVE  /\ Write(Write(bytes, offset, other), offset, field) = Write(bytes, offset, field)
           /\ FieldAt(bytes, offset, Len(field)) = field =>
                  Write(bytes, offset, field) = bytes
<1> DEFINE once == Write(bytes, offset, other)
           twice == Write(once, offset, field)
           direct == Write(bytes, offset, field)
<1>1. /\ once \in Seq(Byte) /\ Len(once) = Len(bytes)
      /\ \A n \in 1 .. Len(bytes) : n <= offset \/ n > offset + Len(field) =>
             once[n] = bytes[n]
  BY WriteIs, Zenon
<1> HIDE DEF once
<1>2. /\ twice \in Seq(Byte) /\ Len(twice) = Len(bytes)
      /\ \A n \in 1 .. Len(field) : twice[offset + n] = field[n]
      /\ \A n \in 1 .. Len(bytes) : n <= offset \/ n > offset + Len(field) =>
             twice[n] = once[n]
  <2>1. offset + Len(field) <= Len(once)
    BY <1>1, Zenon
  <2>2. /\ twice \in Seq(Byte) /\ Len(twice) = Len(once)
        /\ \A n \in 1 .. Len(field) : twice[offset + n] = field[n]
        /\ \A n \in 1 .. Len(once) : n <= offset \/ n > offset + Len(field) =>
               twice[n] = once[n]
    BY <1>1, <2>1, WriteIs, Zenon
  <2> HIDE DEF twice
  <2> QED
    BY <1>1, <2>2, Zenon
<1>3. /\ direct \in Seq(Byte) /\ Len(direct) = Len(bytes)
      /\ \A n \in 1 .. Len(field) : direct[offset + n] = field[n]
      /\ \A n \in 1 .. Len(bytes) : n <= offset \/ n > offset + Len(field) =>
             direct[n] = bytes[n]
  BY WriteIs, Zenon
<1> HIDE DEF twice, direct
<1>4. Len(bytes) \in Nat /\ Len(field) \in Nat
  OBVIOUS
<1>5. ASSUME NEW n \in 1 .. Len(bytes)
      PROVE  \/ n <= offset \/ n > offset + Len(field)
             \/ n - offset \in 1 .. Len(field) /\ offset + (n - offset) = n
  BY <1>4
<1>6. twice = direct
  <2>1. ASSUME NEW n \in 1 .. Len(bytes) PROVE twice[n] = direct[n]
    <3>1. CASE n <= offset \/ n > offset + Len(field)
      BY <1>1, <1>2, <1>3, <3>1, Zenon
    <3>2. CASE n - offset \in 1 .. Len(field) /\ offset + (n - offset) = n
      BY <1>2, <1>3, <3>2, Zenon
    <3> QED
      BY <1>5, <3>1, <3>2, Zenon
  <2>2. \A n \in 1 .. Len(twice) : twice[n] = direct[n]
    BY <1>2, <2>1, Zenon
  <2> QED
    BY <1>2, <1>3, <2>2, SameBytes, Zenon
<1>7. ASSUME FieldAt(bytes, offset, Len(field)) = field
      PROVE  direct = bytes
  <2>1. FieldAt(bytes, offset, Len(field)) = [n \in 1 .. Len(field) |-> bytes[offset + n]]
    BY <1>4, FieldIs, Zenon
  <2>2. \A n \in 1 .. Len(field) : field[n] = bytes[offset + n]
    BY <1>7, <2>1
  <2>3. \A n \in 1 .. Len(direct) : direct[n] = bytes[n]
    BY <1>3, <1>5, <2>2, ZenonT(40)
  <2> QED
    BY <1>3, <2>3, SameBytes, Zenon
<1> QED
  BY <1>6, <1>7, Zenon DEF once, twice, direct

\* Zeros are bytes.
LEMMA ZerosAre ==
    ASSUME NEW count \in Nat
    PROVE  Zeros(count) \in Seq(Byte) /\ Len(Zeros(count)) = count
BY DEF Zeros, Byte

\* The checksum is four bytes.
LEMMA ByteAtIs ==
    ASSUME NEW bits, NEW n
    PROVE  ByteAt(bits, n) \in Byte
<1> DEFINE Worth(bit, weight) == IF 8 * n + bit \in bits THEN weight ELSE 0
<1>1. /\ Worth(0, 1) \in {0, 1} /\ Worth(1, 2) \in {0, 2} /\ Worth(2, 4) \in {0, 4}
      /\ Worth(3, 8) \in {0, 8} /\ Worth(4, 16) \in {0, 16} /\ Worth(5, 32) \in {0, 32}
      /\ Worth(6, 64) \in {0, 64} /\ Worth(7, 128) \in {0, 128}
  OBVIOUS
<1>2. ByteAt(bits, n) = Worth(0, 1) + Worth(1, 2) + Worth(2, 4) + Worth(3, 8)
            + Worth(4, 16) + Worth(5, 32) + Worth(6, 64) + Worth(7, 128)
  BY DEF ByteAt
<1> HIDE DEF Worth
<1> QED
  BY <1>1, <1>2 DEF Byte

\* A checksum is four bytes.
LEMMA ChecksumIs ==
    ASSUME NEW bytes, NEW offset
    PROVE  Checksum(bytes, offset) \in Seq(Byte) /\ Len(Checksum(bytes, offset)) = 4
<1> DEFINE input == Write(bytes, offset, Zeros(4))
<1>1. PICK register : crc32(input) = [n \in 1 .. 4 |-> ByteAt(register, n - 1)]
  BY Zenon DEF crc32
<1>2. crc32(input) \in Seq(Byte) /\ Len(crc32(input)) = 4
  <2>1. PICK sum : sum = crc32(input)
    OBVIOUS
  <2>2. sum = [n \in 1 .. 4 |-> sum[n]] /\ \A n \in 1 .. 4 : sum[n] = ByteAt(register, n - 1)
    BY <1>1, <2>1
  <2>3. \A n \in 1 .. 4 : sum[n] \in Byte
    BY <2>2, ByteAtIs, Zenon
  <2>4. sum \in Seq(Byte) /\ Len(sum) = 4
    BY <2>2, <2>3
  <2> QED
    BY <2>1, <2>4, Zenon
<1> QED
  BY <1>2, Zenon DEF Checksum

\* A file sealed over zeros holds its own checksum, and a file that does is what
\* sealing it makes.
LEMMA SealedHolds ==
    ASSUME NEW bytes \in Seq(Byte), NEW offset \in Nat, offset + 4 <= Len(bytes),
           FieldAt(bytes, offset, 4) = Zeros(4)
    PROVE  /\ Sealed(bytes, offset) \in Seq(Byte)
           /\ Len(Sealed(bytes, offset)) = Len(bytes)
           /\ Checksum(Sealed(bytes, offset), offset) = FieldAt(Sealed(bytes, offset), offset, 4)
           /\ \A o \in Nat, w \in Nat :
                  o + w <= offset \/ (offset + 4 <= o /\ o + w <= Len(bytes)) =>
                      FieldAt(Sealed(bytes, offset), o, w) = FieldAt(bytes, o, w)
<1> DEFINE sum == Checksum(bytes, offset)
<1>1. sum \in Seq(Byte) /\ Len(sum) = 4
  BY ChecksumIs, Zenon
<1>2. Zeros(4) \in Seq(Byte) /\ Len(Zeros(4)) = 4
  BY ZerosAre
<1>3. Checksum(Write(bytes, offset, sum), offset) = sum
  <2>0. Len(sum) = Len(Zeros(4)) /\ offset + Len(Zeros(4)) <= Len(bytes)
    BY <1>1, <1>2, Zenon
  <2>1. Write(Write(bytes, offset, sum), offset, Zeros(4)) = Write(bytes, offset, Zeros(4))
    BY <1>1, <1>2, <2>0, WrittenOver, Zenon
  <2> QED
    BY <2>1, Zenon DEF Checksum
<1>4. offset + Len(sum) <= Len(bytes)
  BY <1>1, Zenon
<1>5. PICK sealed : sealed = Write(bytes, offset, sum)
  OBVIOUS
<1>6. sealed = Sealed(bytes, offset)
  BY <1>5, Zenon DEF Sealed
<1> HIDE DEF sum
<1>7. sealed \in Seq(Byte) /\ Len(sealed) = Len(bytes)
  BY <1>1, <1>4, <1>5, WriteIs, Zenon
<1>8. FieldAt(sealed, offset, 4) = sum
  <2>1. FieldAt(sealed, offset, Len(sum)) = sum
    BY <1>1, <1>4, <1>5, FieldsWritten, Zenon
  <2> QED
    BY <1>1, <2>1, Zenon
<1>9. ASSUME NEW o \in Nat, NEW w \in Nat,
             o + w <= offset \/ (offset + 4 <= o /\ o + w <= Len(bytes))
      PROVE  FieldAt(sealed, o, w) = FieldAt(bytes, o, w)
  <2>1. sum \in Seq(Byte)
    BY <1>1
  <2>2. o + w <= offset \/ (offset + Len(sum) <= o /\ o + w <= Len(bytes))
    BY <1>1, <1>9, Zenon
  <2> QED
    <3>1. FieldAt(Write(bytes, offset, sum), o, w) = FieldAt(bytes, o, w)
      BY <1>4, <2>1, <2>2, FieldBeside, ZenonT(60)
    <3> QED
      BY <1>5, <3>1, Zenon
<1> QED
  BY <1>3, <1>5, <1>6, <1>7, <1>8, <1>9, Zenon

\* A file that holds its checksum is its own sealed image.
LEMMA SealedAgain ==
    ASSUME NEW bytes \in Seq(Byte), NEW offset \in Nat, offset + 4 <= Len(bytes),
           Checksum(bytes, offset) = FieldAt(bytes, offset, 4)
    PROVE  Sealed(Write(bytes, offset, Zeros(4)), offset) = bytes
<1> DEFINE zeroed == Write(bytes, offset, Zeros(4))
           sum == Checksum(bytes, offset)
<1>1. sum \in Seq(Byte) /\ Len(sum) = 4
  BY ChecksumIs, Zenon
<1>2. Zeros(4) \in Seq(Byte) /\ Len(Zeros(4)) = 4
  BY ZerosAre
<1>3. Checksum(zeroed, offset) = sum
  <2>1. Write(zeroed, offset, Zeros(4)) = zeroed
    BY <1>2, WrittenOver, Zenon
  <2> QED
    BY <2>1, Zenon DEF Checksum
<1>4. Write(zeroed, offset, sum) = Write(bytes, offset, sum)
  <2>1. Len(sum) = Len(Zeros(4)) /\ offset + Len(sum) <= Len(bytes)
    BY <1>1, <1>2, Zenon
  <2> QED
    BY <1>1, <1>2, <2>1, WrittenOver, Zenon
<1>5. Write(bytes, offset, sum) = bytes
  <2>1. FieldAt(bytes, offset, Len(sum)) = sum
    BY <1>1, Zenon
  <2> QED
    BY <1>1, <2>1, WrittenOver, Zenon
<1> QED
  BY <1>3, <1>4, <1>5, Zenon DEF Sealed

-----------------------------------------------------------------------------
\* What is in front of a place, and the field at that place, are what is in front of the next.
LEMMA PrefixGrows ==
    ASSUME NEW bytes \in Seq(Byte), NEW a \in Nat, NEW b \in Nat, a + b <= Len(bytes)
    PROVE  FieldAt(bytes, 0, a) \o FieldAt(bytes, a, b) = FieldAt(bytes, 0, a + b)
<1>1. 0 \in Nat /\ 0 + a = a /\ 0 + a + b <= Len(bytes)
  OBVIOUS
<1>2. FieldAt(bytes, 0, a) \o FieldAt(bytes, 0 + a, b) = FieldAt(bytes, 0, a + b)
  <2>1. PICK start \in Nat : start = 0
    BY <1>1
  <2>2. start + a + b <= Len(bytes)
    BY <1>1, <2>1
  <2>3. FieldAt(bytes, start, a) \o FieldAt(bytes, start + a, b) = FieldAt(bytes, start, a + b)
    BY <2>2, FieldsJoin, Zenon
  <2> QED
    BY <2>1, <2>3, Zenon
<1> QED
  BY <1>1, <1>2, Zenon

\* The field as long as the file is the file.
LEMMA WholeField ==
    ASSUME NEW bytes \in Seq(Byte)
    PROVE  FieldAt(bytes, 0, Len(bytes)) = bytes
<1>1. Len(bytes) \in Nat /\ 0 + Len(bytes) <= Len(bytes)
  OBVIOUS
<1>2. /\ FieldAt(bytes, 0, Len(bytes)) \in Seq(Byte)
      /\ Len(FieldAt(bytes, 0, Len(bytes))) = Len(bytes)
      /\ FieldAt(bytes, 0, Len(bytes)) = [n \in 1 .. Len(bytes) |-> bytes[0 + n]]
  BY <1>1, FieldIs, Zenon
<1>3. \A n \in 1 .. Len(bytes) : FieldAt(bytes, 0, Len(bytes))[n] = bytes[n]
  BY <1>1, <1>2
<1> QED
  BY <1>2, <1>3, SameBytes, Zenon

\* The header of a file, its checksum zeroed, is made of the fields of the module.
LEMMA HeaderIsTiled ==
    ASSUME NEW z \in Seq(Byte), 64 <= Len(z)
    PROVE  FieldAt(z, 0, 4) \o FieldAt(z, 4, 2) \o FieldAt(z, 6, 2) \o FieldAt(z, 8, 4)
               \o FieldAt(z, 12, 4) \o FieldAt(z, 16, 4) \o FieldAt(z, 20, 4)
               \o FieldAt(z, 24, 4) \o FieldAt(z, 28, 4) \o FieldAt(z, 32, 8)
               \o FieldAt(z, 40, 4) \o FieldAt(z, 44, 2) \o FieldAt(z, 46, 18)
           = FieldAt(z, 0, 64)
<1>1. \A a, b \in Nat : a + b <= Len(z) =>
          FieldAt(z, 0, a) \o FieldAt(z, a, b) = FieldAt(z, 0, a + b)
  BY PrefixGrows, Zenon
<1> DEFINE Part(a, b) == FieldAt(z, a, b)
<1> HIDE DEF Part
<1>0. ASSUME NEW a, NEW b, NEW c, a \in Nat /\ b \in Nat /\ a + b = c /\ c <= Len(z)
      PROVE  Part(0, a) \o Part(a, b) = Part(0, c)
  BY <1>0, <1>1, Zenon DEF Part
<1>2a. Part(0, 4) \o Part(4, 2) = Part(0, 6)
  <2>1. 4 \in Nat /\ 2 \in Nat /\ 4 + 2 = 6 /\ 6 <= Len(z)
    OBVIOUS
  <2> QED
    BY <1>0, <2>1, Zenon
<1>2b. Part(0, 6) \o Part(6, 2) = Part(0, 8)
  <2>1. 6 \in Nat /\ 2 \in Nat /\ 6 + 2 = 8 /\ 8 <= Len(z)
    OBVIOUS
  <2> QED
    BY <1>0, <2>1, Zenon
<1>2c. Part(0, 8) \o Part(8, 4) = Part(0, 12)
  <2>1. 8 \in Nat /\ 4 \in Nat /\ 8 + 4 = 12 /\ 12 <= Len(z)
    OBVIOUS
  <2> QED
    BY <1>0, <2>1, Zenon
<1>2d. Part(0, 12) \o Part(12, 4) = Part(0, 16)
  <2>1. 12 \in Nat /\ 4 \in Nat /\ 12 + 4 = 16 /\ 16 <= Len(z)
    OBVIOUS
  <2> QED
    BY <1>0, <2>1, Zenon
<1>2e. Part(0, 16) \o Part(16, 4) = Part(0, 20)
  <2>1. 16 \in Nat /\ 4 \in Nat /\ 16 + 4 = 20 /\ 20 <= Len(z)
    OBVIOUS
  <2> QED
    BY <1>0, <2>1, Zenon
<1>2f. Part(0, 20) \o Part(20, 4) = Part(0, 24)
  <2>1. 20 \in Nat /\ 4 \in Nat /\ 20 + 4 = 24 /\ 24 <= Len(z)
    OBVIOUS
  <2> QED
    BY <1>0, <2>1, Zenon
<1>2g. Part(0, 24) \o Part(24, 4) = Part(0, 28)
  <2>1. 24 \in Nat /\ 4 \in Nat /\ 24 + 4 = 28 /\ 28 <= Len(z)
    OBVIOUS
  <2> QED
    BY <1>0, <2>1, Zenon
<1>2h. Part(0, 28) \o Part(28, 4) = Part(0, 32)
  <2>1. 28 \in Nat /\ 4 \in Nat /\ 28 + 4 = 32 /\ 32 <= Len(z)
    OBVIOUS
  <2> QED
    BY <1>0, <2>1, Zenon
<1>2i. Part(0, 32) \o Part(32, 8) = Part(0, 40)
  <2>1. 32 \in Nat /\ 8 \in Nat /\ 32 + 8 = 40 /\ 40 <= Len(z)
    OBVIOUS
  <2> QED
    BY <1>0, <2>1, ZenonT(40)
<1>2j. Part(0, 40) \o Part(40, 4) = Part(0, 44)
  <2>1. 40 \in Nat /\ 4 \in Nat /\ 40 + 4 = 44 /\ 44 <= Len(z)
    OBVIOUS
  <2> QED
    BY <1>0, <2>1, ZenonT(40)
<1>2k. Part(0, 44) \o Part(44, 2) = Part(0, 46)
  <2>1. 44 \in Nat /\ 2 \in Nat /\ 44 + 2 = 46 /\ 46 <= Len(z)
    OBVIOUS
  <2> QED
    BY <1>0, <2>1, ZenonT(40)
<1>2l. Part(0, 46) \o Part(46, 18) = Part(0, 64)
  <2>1. PICK a, b, c : a = 46 /\ b = 18 /\ c = 64
    OBVIOUS
  <2>2. a \in Nat /\ b \in Nat /\ a + b = c /\ c <= Len(z)
    BY <2>1
  <2>3. Part(0, a) \o Part(a, b) = Part(0, c)
    BY <1>0, <2>2, Zenon
  <2> QED
    BY <2>1, <2>3
<1>3. Part(0, 4) \o Part(4, 2) \o Part(6, 2) \o Part(8, 4)
          \o Part(12, 4) \o Part(16, 4) \o Part(20, 4)
          \o Part(24, 4) \o Part(28, 4) \o Part(32, 8)
          \o Part(40, 4) \o Part(44, 2) \o Part(46, 18)
      = Part(0, 64)
  BY <1>2a, <1>2b, <1>2c, <1>2d, <1>2e, <1>2f,
     <1>2g, <1>2h, <1>2i, <1>2j, <1>2k, <1>2l, ZenonT(40)
<1> QED
  BY <1>3, Zenon DEF Part

\* The carriers sliced from a file, written one after the other.
LEMMA CarriersRejoin ==
    ASSUME NEW bytes \in Seq(Byte), NEW base \in Nat, NEW count \in Nat,
           base + count * 8 <= Len(bytes), WordBytes = 8,
           NEW module, module.carrier_count = count,
           module.initial_carriers =
               [n \in 0 .. (count - 1) |-> FieldAt(bytes, base + n * 8, 8)]
    PROVE  CarrierSection(module) = FieldAt(bytes, base, count * 8)
<1> DEFINE carrier(n) == FieldAt(bytes, base + n * 8, 8)
<1>1. \A n \in 0 .. (count - 1) : module.initial_carriers[n] = carrier(n)
  OBVIOUS
<1>2. CarrierSection(module) = [n \in 1 .. count * 8 |->
          module.initial_carriers[(n - 1) \div 8][((n - 1) % 8) + 1]]
  BY DEF CarrierSection
<1>3. ASSUME NEW q \in 0 .. (count - 1), NEW r \in 1 .. 8
      PROVE  carrier(q)[r] = bytes[base + q * 8 + r]
  <2>1. base + q * 8 \in Nat /\ base + q * 8 + 8 <= Len(bytes)
    OBVIOUS
  <2>2. FieldAt(bytes, base + q * 8, 8) = [n \in 1 .. 8 |-> bytes[base + q * 8 + n]]
    <3>1. PICK from \in Nat, wide \in Nat : from = base + q * 8 /\ wide = 8
      BY <2>1, Zenon
    <3>2. from + wide <= Len(bytes)
      BY <2>1, <3>1
    <3>3. FieldAt(bytes, from, wide) = [n \in 1 .. wide |-> bytes[from + n]]
      BY <3>2, FieldIs, Zenon
    <3> QED
      BY <3>1, <3>3, Zenon
  <2> QED
    BY <2>2
<1> HIDE DEF carrier
<1>4. ASSUME NEW n \in 1 .. count * 8
      PROVE  module.initial_carriers[(n - 1) \div 8][((n - 1) % 8) + 1] = bytes[base + n]
  <2>1. PICK q, r : q = (n - 1) \div 8 /\ r = ((n - 1) % 8) + 1
    OBVIOUS
  <2>2. q \in 0 .. (count - 1) /\ r \in 1 .. 8 /\ q * 8 + r = n
    BY <2>1, SMTT(30)
  <2>3. base + q * 8 + r = base + n
    BY <2>2
  <2> QED
    <3>1. module.initial_carriers[q] = carrier(q) /\ carrier(q)[r] = bytes[base + q * 8 + r]
      BY <1>1, <1>3, <2>2, Zenon
    <3> QED
      BY <2>1, <2>3, <3>1, Zenon
<1>5. FieldAt(bytes, base, count * 8) = [n \in 1 .. count * 8 |-> bytes[base + n]]
  <2>1. count * 8 \in Nat
    OBVIOUS
  <2> QED
    BY <2>1, FieldIs, Zenon
<1> QED
  BY <1>2, <1>4, <1>5

-----------------------------------------------------------------------------
\* What a file that parses as a module must have passed.
LEMMA ModuleParsed ==
    ASSUME NEW bytes, IsValue(parse_module(bytes))
    PROVE  /\ HeaderKnown(bytes)
           /\ ChecksumMatches(bytes)
           /\ SizesFit(bytes, ClaimedSizes(bytes))
           /\ ModuleShapeValid(Sliced(bytes, ClaimedSizes(bytes)))
           /\ parse_module(bytes) = Value(Sliced(bytes, ClaimedSizes(bytes)))
<1>1. ~IsValue(Refusal("InvalidModule")) /\ ~IsValue(Refusal("ChecksumMismatch"))
  BY DEF IsValue, Refusal
<1>2. HeaderKnown(bytes)
  BY <1>1, Zenon DEF parse_module
<1>3. ChecksumMatches(bytes)
  BY <1>1, <1>2, Zenon DEF parse_module
<1>4. /\ SizesFit(bytes, ClaimedSizes(bytes))
      /\ ModuleShapeValid(Sliced(bytes, ClaimedSizes(bytes)))
  BY <1>1, <1>2, <1>3, Zenon DEF parse_module
<1>5. parse_module(bytes) = Value(Sliced(bytes, ClaimedSizes(bytes)))
  BY <1>2, <1>3, <1>4, Zenon DEF parse_module
<1> QED
  BY <1>2, <1>3, <1>4, <1>5, Zenon

\* The sizes a header claims, once they fit the file.
LEMMA SizesAre ==
    ASSUME NEW bytes \in Seq(Byte), 64 <= Len(bytes), WordBytes = 8,
           SizesFit(bytes, ClaimedSizes(bytes)),
           NEW sizes, sizes = ClaimedSizes(bytes)
    PROVE  /\ sizes.memory \in U32 /\ write_u32(sizes.memory) = FieldAt(bytes, 12, 4)
           /\ sizes.carriers \in U32 /\ write_u32(sizes.carriers) = FieldAt(bytes, 16, 4)
           /\ sizes.code \in U32 /\ write_u32(sizes.code) = FieldAt(bytes, 20, 4)
           /\ sizes.data \in U32 /\ write_u32(sizes.data) = FieldAt(bytes, 24, 4)
           /\ write_u32(sizes.carrier_bytes) = FieldAt(bytes, 28, 4)
           /\ sizes.carrier_bytes = sizes.carriers * 8
           /\ 64 + sizes.code + sizes.data + sizes.carriers * 8 = Len(bytes)
<1>1. /\ sizes.memory = read_u32(bytes, 12) /\ sizes.carriers = read_u32(bytes, 16)
      /\ sizes.code = read_u32(bytes, 20) /\ sizes.data = read_u32(bytes, 24)
      /\ sizes.carrier_bytes = read_u32(bytes, 28)
  BY DEF ClaimedSizes
<1>2. ASSUME NEW offset, offset \in Nat /\ offset + 4 <= Len(bytes)
      PROVE  /\ read_u32(bytes, offset) \in U32
             /\ write_u32(read_u32(bytes, offset)) = FieldAt(bytes, offset, 4)
  BY <1>2, Read32, Zenon
<1>3. /\ 12 \in Nat /\ 12 + 4 <= Len(bytes) /\ 16 \in Nat /\ 16 + 4 <= Len(bytes)
      /\ 20 \in Nat /\ 20 + 4 <= Len(bytes) /\ 24 \in Nat /\ 24 + 4 <= Len(bytes)
      /\ 28 \in Nat /\ 28 + 4 <= Len(bytes)
  OBVIOUS
<1>4. /\ sizes.memory \in U32 /\ write_u32(sizes.memory) = FieldAt(bytes, 12, 4)
      /\ sizes.carriers \in U32 /\ write_u32(sizes.carriers) = FieldAt(bytes, 16, 4)
  BY <1>1, <1>2, <1>3, Zenon
<1>5. /\ sizes.code \in U32 /\ write_u32(sizes.code) = FieldAt(bytes, 20, 4)
      /\ sizes.data \in U32 /\ write_u32(sizes.data) = FieldAt(bytes, 24, 4)
      /\ write_u32(sizes.carrier_bytes) = FieldAt(bytes, 28, 4)
  BY <1>1, <1>2, <1>3, Zenon
<1>6. /\ sizes.carrier_bytes = sizes.carriers * 8
      /\ 64 + sizes.code + sizes.data + sizes.carriers * 8 = Len(bytes)
  <2>1. /\ sizes.carrier_bytes = sizes.carriers * WordBytes
        /\ kModuleHeaderSize + sizes.code + sizes.data + sizes.carrier_bytes = Len(bytes)
    BY Zenon DEF SizesFit
  <2> QED
    BY <2>1 DEF kModuleHeaderSize
<1> QED
  BY <1>4, <1>5, <1>6, Zenon

\* What the header of a file says besides.
LEMMA HeaderIs ==
    ASSUME NEW bytes \in Seq(Byte), HeaderKnown(bytes)
    PROVE  /\ 64 <= Len(bytes)
           /\ FieldAt(bytes, 0, 4) = kMagic
           /\ FieldAt(bytes, 4, 2) = write_u16(kModuleVersion)
           /\ FieldAt(bytes, 6, 2) = write_u16(kModuleHeaderSize)
           /\ FieldAt(bytes, 8, 4) = Zeros(4)
           /\ FieldAt(bytes, 44, 2) = write_u16(read_u16(bytes, 44))
           /\ FieldAt(bytes, 46, 18) = Zeros(18)
<1>1. /\ 64 <= Len(bytes) /\ FieldAt(bytes, 0, 4) = kMagic
      /\ read_u16(bytes, 4) = kModuleVersion /\ read_u16(bytes, 6) = kModuleHeaderSize
      /\ FieldAt(bytes, 8, 4) = Zeros(4)
      /\ \A offset \in 46 .. 63 : bytes[offset + 1] = 0
  <2>1. /\ kModuleHeaderSize <= Len(bytes) /\ FieldAt(bytes, 0, 4) = kMagic
        /\ read_u16(bytes, 4) = kModuleVersion /\ read_u16(bytes, 6) = kModuleHeaderSize
        /\ FieldAt(bytes, kFlagsOffset, 4) = Zeros(4)
        /\ \A offset \in kReservedOffset .. (kModuleHeaderSize - 1) : bytes[offset + 1] = 0
    <3>1. Len(bytes) >= kModuleHeaderSize
      BY Zenon DEF HeaderKnown
    <3>2. kModuleHeaderSize <= Len(bytes)
      BY <3>1 DEF kModuleHeaderSize
    <3> QED
      BY <3>2, Zenon DEF HeaderKnown
  <2>2. kReservedOffset = 46 /\ kModuleHeaderSize - 1 = 63 /\ kModuleHeaderSize = 64
        /\ kFlagsOffset = 8
    BY DEF kReservedOffset, kModuleHeaderSize, kFlagsOffset
  <2> QED
    BY <2>1, <2>2
<1>2. /\ 4 \in Nat /\ 4 + 2 <= Len(bytes) /\ 6 \in Nat /\ 6 + 2 <= Len(bytes)
      /\ 44 \in Nat /\ 44 + 2 <= Len(bytes)
  BY <1>1, SMTT(30)
<1>3. /\ FieldAt(bytes, 4, 2) = write_u16(read_u16(bytes, 4))
      /\ FieldAt(bytes, 6, 2) = write_u16(read_u16(bytes, 6))
  BY <1>2, Read16, Zenon
<1>4. FieldAt(bytes, 44, 2) = write_u16(read_u16(bytes, 44))
  BY <1>2, Read16, Zenon
<1>5. FieldAt(bytes, 46, 18) = Zeros(18)
  <2>1. FieldAt(bytes, 46, 18) = [n \in 1 .. 18 |-> bytes[46 + n]]
    <3>1. 46 \in Nat /\ 18 \in Nat /\ 46 + 18 <= Len(bytes)
      BY <1>1
    <3> QED
      BY <3>1, FieldIs
  <2>2. ASSUME NEW n \in 1 .. 18 PROVE bytes[46 + n] = 0
    <3>1. 45 + n \in 46 .. 63 /\ (45 + n) + 1 = 46 + n
      OBVIOUS
    <3> QED
      BY <1>1, <3>1
  <2> QED
    BY <2>1, <2>2 DEF Zeros
<1> QED
  BY <1>1, <1>3, <1>4, <1>5, Zenon

\* The module sliced from a file, field by field.
LEMMA SlicedIs ==
    ASSUME NEW bytes, NEW sizes, WordBytes = 8, NEW module, module = Sliced(bytes, sizes)
    PROVE  /\ module.memory_size = sizes.memory
           /\ module.carrier_count = sizes.carriers
           /\ module.argument_count = read_u16(bytes, 44)
           /\ module.fingerprint = FieldAt(bytes, 32, 8)
           /\ module.code_size = sizes.code
           /\ module.code = FieldAt(bytes, 64, sizes.code)
           /\ module.data = FieldAt(bytes, 64 + sizes.code, sizes.data)
           /\ module.initial_carriers =
                  [n \in 0 .. (sizes.carriers - 1) |->
                      FieldAt(bytes, 64 + sizes.code + sizes.data + n * 8, 8)]
BY Zenon DEF Sliced, kModuleHeaderSize, kFingerprintOffset

\* Two files have every field in common that lies before one offset or behind another.
Kept(a, b, from, to) ==
    \A o, w \in Nat : o + w <= from \/ (to <= o /\ o + w <= Len(b)) =>
        FieldAt(a, o, w) = FieldAt(b, o, w)

\* A file with four of its bytes zeroed.
LEMMA ZeroedIs ==
    ASSUME NEW bytes \in Seq(Byte), NEW offset \in Nat, offset + 4 <= Len(bytes),
           NEW z, z = Write(bytes, offset, Zeros(4))
    PROVE  /\ z \in Seq(Byte) /\ Len(z) = Len(bytes)
           /\ FieldAt(z, offset, 4) = Zeros(4)
           /\ Kept(z, bytes, offset, offset + 4)
<1>1. PICK field : field = Zeros(4)
  OBVIOUS
<1>2. field \in Seq(Byte) /\ Len(field) = 4
  BY <1>1, ZerosAre
<1>3. offset + Len(field) <= Len(bytes) /\ z = Write(bytes, offset, field)
  BY <1>1, <1>2
<1>4. z \in Seq(Byte) /\ Len(z) = Len(bytes) /\ FieldAt(z, offset, Len(field)) = field
  <2>1. field \in Seq(Byte)
    BY <1>2, Zenon
  <2>2. /\ Write(bytes, offset, field) \in Seq(Byte)
        /\ Len(Write(bytes, offset, field)) = Len(bytes)
    BY <1>3, <2>1, WriteIs, Zenon
  <2>3. FieldAt(Write(bytes, offset, field), offset, Len(field)) = field
    BY <1>3, <2>1, FieldsWritten, Zenon
  <2> QED
    BY <1>3, <2>2, <2>3, Zenon
<1>5. ASSUME NEW o \in Nat, NEW w \in Nat,
             o + w <= offset \/ (offset + 4 <= o /\ o + w <= Len(bytes))
      PROVE  FieldAt(z, o, w) = FieldAt(bytes, o, w)
  <2>1. o + w <= offset \/ (offset + Len(field) <= o /\ o + w <= Len(bytes))
    BY <1>2, <1>5
  <2>2. field \in Seq(Byte)
    BY <1>2, Zenon
  <2>3. FieldAt(Write(bytes, offset, field), o, w) = FieldAt(bytes, o, w)
    BY <1>3, <2>1, <2>2, FieldBeside, ZenonT(60)
  <2> QED
    BY <1>3, <2>3, Zenon
<1>6. Kept(z, bytes, offset, offset + 4)
  BY <1>5 DEF Kept
<1> QED
  BY <1>1, <1>2, <1>4, <1>6, Zenon

\* A file that parses as a module is the file that serialising the module makes.
THEOREM ModuleIsItsFile ==
    ASSUME NEW bytes \in Seq(Byte), WordBytes = 8, IsValue(parse_module(bytes))
    PROVE  serialize_module(parse_module(bytes).value) = Value(bytes)
<1>1. PICK sizes : sizes = ClaimedSizes(bytes)
  OBVIOUS
<1>2. PICK module : module = Sliced(bytes, sizes)
  OBVIOUS
<1>3. /\ HeaderKnown(bytes) /\ ChecksumMatches(bytes) /\ SizesFit(bytes, ClaimedSizes(bytes))
      /\ ModuleShapeValid(module) /\ parse_module(bytes) = Value(module)
  BY <1>1, <1>2, ModuleParsed, Zenon
<1>4. /\ 64 <= Len(bytes)
      /\ FieldAt(bytes, 0, 4) = kMagic
      /\ FieldAt(bytes, 4, 2) = write_u16(kModuleVersion)
      /\ FieldAt(bytes, 6, 2) = write_u16(kModuleHeaderSize)
      /\ FieldAt(bytes, 8, 4) = Zeros(4)
      /\ FieldAt(bytes, 44, 2) = write_u16(read_u16(bytes, 44))
      /\ FieldAt(bytes, 46, 18) = Zeros(18)
  BY <1>3, HeaderIs, Zenon
<1>5. /\ sizes.memory \in U32 /\ write_u32(sizes.memory) = FieldAt(bytes, 12, 4)
      /\ sizes.carriers \in U32 /\ write_u32(sizes.carriers) = FieldAt(bytes, 16, 4)
      /\ sizes.code \in U32 /\ write_u32(sizes.code) = FieldAt(bytes, 20, 4)
      /\ sizes.data \in U32 /\ write_u32(sizes.data) = FieldAt(bytes, 24, 4)
      /\ write_u32(sizes.carrier_bytes) = FieldAt(bytes, 28, 4)
      /\ sizes.carrier_bytes = sizes.carriers * 8
      /\ 64 + sizes.code + sizes.data + sizes.carriers * 8 = Len(bytes)
  BY <1>1, <1>3, <1>4, SizesAre, Zenon
<1>6. /\ module.memory_size = sizes.memory
      /\ module.carrier_count = sizes.carriers
      /\ module.argument_count = read_u16(bytes, 44)
      /\ module.fingerprint = FieldAt(bytes, 32, 8)
      /\ module.code = FieldAt(bytes, 64, sizes.code)
      /\ module.code_size = sizes.code
      /\ module.data = FieldAt(bytes, 64 + sizes.code, sizes.data)
      /\ module.initial_carriers =
             [n \in 0 .. (sizes.carriers - 1) |->
                 FieldAt(bytes, 64 + sizes.code + sizes.data + n * 8, 8)]
  BY <1>2, SlicedIs
<1>7. sizes.carriers \in Nat /\ sizes.code \in Nat /\ sizes.data \in Nat
  BY <1>5, SMTT(30) DEF U32
<1>14. Len(bytes) \in Nat
  OBVIOUS
<1>15. PICK c \in Nat, l \in Nat, k \in Nat, d \in Nat, e \in Nat, total \in Nat :
           /\ c = sizes.code /\ l = sizes.data /\ k = sizes.carriers
           /\ d = 64 + sizes.code /\ e = 64 + sizes.code + sizes.data
           /\ total = sizes.carriers * 8 /\ e + total = Len(bytes)
  <2>1. 64 + sizes.code + sizes.data + sizes.carriers * 8 = Len(bytes)
    BY <1>5, Zenon
  <2>2. /\ 64 + sizes.code \in Nat /\ 64 + sizes.code + sizes.data \in Nat
        /\ sizes.carriers * 8 \in Nat
    BY <1>7
  <2> QED
    BY <1>7, <2>1, <2>2, Zenon
<1>16. /\ d = 64 + c /\ e = d + l /\ d + l = e /\ total = k * 8 /\ e + total <= Len(bytes)
       /\ 64 <= d /\ 64 <= e /\ d <= Len(bytes) /\ e <= Len(bytes)
  <2>1. d = 64 + c /\ e = d + l /\ total = k * 8 /\ e + total = Len(bytes)
    BY <1>15, Zenon
  <2> QED
    BY <1>14, <2>1
<1>17. /\ module.code = FieldAt(bytes, 64, c) /\ module.data = FieldAt(bytes, d, l)
       /\ module.carrier_count = k
       /\ module.initial_carriers =
              [n \in 0 .. (k - 1) |-> FieldAt(bytes, e + n * 8, 8)]
  BY <1>6, <1>15, Zenon
<1>8. PICK z : z = Write(bytes, 40, Zeros(4))
  OBVIOUS
<1>9. /\ z \in Seq(Byte) /\ Len(z) = Len(bytes)
      /\ FieldAt(z, 40, 4) = Zeros(4)
      /\ Kept(z, bytes, 40, 44)
  <2>1. PICK at \in Nat, end \in Nat : at = 40 /\ end = 44
    OBVIOUS
  <2>2. at + 4 <= Len(bytes) /\ at + 4 = end
    BY <1>4, <2>1
  <2>3. z = Write(bytes, at, Zeros(4))
    BY <1>8, <2>1, Zenon
  <2>4. /\ z \in Seq(Byte) /\ Len(z) = Len(bytes)
        /\ FieldAt(z, at, 4) = Zeros(4)
        /\ Kept(z, bytes, at, at + 4)
    BY <2>2, <2>3, ZeroedIs, Zenon
  <2> QED
    BY <2>1, <2>2, <2>4, Zenon
<1>10. Header(module) = FieldAt(z, 0, 64)
  <2>1. ASSUME NEW o, NEW w, o \in Nat /\ w \in Nat /\ o + w <= Len(bytes),
               o + w <= 40 \/ 44 <= o
        PROVE  FieldAt(z, o, w) = FieldAt(bytes, o, w)
    BY <1>9, <2>1, Zenon DEF Kept
  <2>2. /\ FieldAt(z, 0, 4) = FieldAt(bytes, 0, 4) /\ FieldAt(z, 4, 2) = FieldAt(bytes, 4, 2)
        /\ FieldAt(z, 6, 2) = FieldAt(bytes, 6, 2) /\ FieldAt(z, 8, 4) = FieldAt(bytes, 8, 4)
    BY <1>4, <2>1
  <2>3. /\ FieldAt(z, 12, 4) = FieldAt(bytes, 12, 4)
        /\ FieldAt(z, 16, 4) = FieldAt(bytes, 16, 4)
        /\ FieldAt(z, 20, 4) = FieldAt(bytes, 20, 4)
        /\ FieldAt(z, 24, 4) = FieldAt(bytes, 24, 4)
        /\ FieldAt(z, 28, 4) = FieldAt(bytes, 28, 4)
    BY <1>4, <2>1
  <2>4. /\ FieldAt(z, 32, 8) = FieldAt(bytes, 32, 8)
        /\ FieldAt(z, 44, 2) = FieldAt(bytes, 44, 2)
        /\ FieldAt(z, 46, 18) = FieldAt(bytes, 46, 18)
    BY <1>4, <2>1
  <2>5. Len(module.data) = sizes.data
    <3>1. d + l <= Len(bytes)
      BY <1>16, Zenon
    <3>2. Len(FieldAt(bytes, d, l)) = l
      BY <3>1, FieldIs, Zenon
    <3> QED
      BY <1>15, <1>17, <3>2, Zenon
  <2>6. /\ write_u16(kModuleVersion) = FieldAt(z, 4, 2)
        /\ write_u16(kModuleHeaderSize) = FieldAt(z, 6, 2)
        /\ Zeros(4) = FieldAt(z, 8, 4) /\ Zeros(4) = FieldAt(z, 40, 4)
        /\ kMagic = FieldAt(z, 0, 4)
    BY <1>4, <1>9, <2>2, Zenon
  <2>7. /\ write_u32(module.memory_size) = FieldAt(z, 12, 4)
        /\ write_u32(module.carrier_count) = FieldAt(z, 16, 4)
        /\ write_u32(module.code_size) = FieldAt(z, 20, 4)
        /\ write_u32(Len(module.data)) = FieldAt(z, 24, 4)
    BY <1>5, <1>6, <2>3, <2>5, Zenon
  <2>8. write_u32(module.carrier_count * WordBytes) = FieldAt(z, 28, 4)
    <3>1. module.carrier_count * WordBytes = sizes.carrier_bytes
      BY <1>5, <1>6
    <3> QED
      BY <1>5, <2>3, <3>1, Zenon
  <2>9. /\ module.fingerprint = FieldAt(z, 32, 8)
        /\ write_u16(module.argument_count) = FieldAt(z, 44, 2)
    BY <1>4, <1>6, <2>4, Zenon
  <2>10. Zeros(kModuleHeaderSize - kReservedOffset) = FieldAt(z, 46, 18)
    <3>1. kModuleHeaderSize - kReservedOffset = 18
      BY DEF kModuleHeaderSize, kReservedOffset
    <3> QED
      BY <1>4, <2>4, <3>1, Zenon
  <2>11. FieldAt(z, 0, 4) \o FieldAt(z, 4, 2) \o FieldAt(z, 6, 2) \o FieldAt(z, 8, 4)
               \o FieldAt(z, 12, 4) \o FieldAt(z, 16, 4) \o FieldAt(z, 20, 4)
               \o FieldAt(z, 24, 4) \o FieldAt(z, 28, 4) \o FieldAt(z, 32, 8)
               \o FieldAt(z, 40, 4) \o FieldAt(z, 44, 2) \o FieldAt(z, 46, 18)
           = FieldAt(z, 0, 64)
    <3>1. 64 <= Len(z)
      BY <1>4, <1>9
    <3> QED
      BY <1>9, <3>1, HeaderIsTiled, Zenon
  <2> QED
    BY <2>6, <2>7, <2>8, <2>9, <2>10, <2>11, Zenon DEF Header
<1>11. CarrierSection(module) = FieldAt(z, e, total)
  <2>1. e + k * 8 <= Len(bytes)
    BY <1>16, Zenon
  <2>2. CarrierSection(module) = FieldAt(bytes, e, k * 8)
    BY <1>17, <2>1, CarriersRejoin
  <2>3. 44 <= e /\ e + total <= Len(bytes)
    BY <1>16
  <2>4. FieldAt(z, e, total) = FieldAt(bytes, e, total)
    BY <1>9, <2>3, Zenon DEF Kept
  <2> QED
    BY <1>16, <2>2, <2>4, Zenon
<1>12. Header(module) \o module.code \o module.data \o CarrierSection(module) = z
  <2>1. /\ module.code = FieldAt(z, 64, c) /\ module.data = FieldAt(z, d, l)
    <3>1. 44 <= d /\ d + l <= Len(bytes)
      BY <1>16
    <3>2. FieldAt(z, d, l) = FieldAt(bytes, d, l)
      BY <1>9, <3>1, Zenon DEF Kept
    <3>3. PICK h \in Nat : h = 64
      OBVIOUS
    <3>4. 44 <= h /\ h + c <= Len(bytes)
      BY <1>16, <3>3
    <3>5. FieldAt(z, h, c) = FieldAt(bytes, h, c)
      BY <1>9, <3>4, Zenon DEF Kept
    <3> QED
      BY <1>17, <3>2, <3>3, <3>5, Zenon
  <2>2. FieldAt(z, 0, 64) \o FieldAt(z, 64, c) = FieldAt(z, 0, d)
    <3>1. PICK h \in Nat : h = 64
      OBVIOUS
    <3>2. h + c = d /\ h + c <= Len(z)
      BY <1>9, <1>16, <3>1
    <3>3. FieldAt(z, 0, h) \o FieldAt(z, h, c) = FieldAt(z, 0, h + c)
      BY <1>9, <3>2, PrefixGrows, Zenon
    <3> QED
      BY <3>1, <3>2, <3>3, Zenon
  <2>3. FieldAt(z, 0, d) \o FieldAt(z, d, l) = FieldAt(z, 0, e)
    <3>1. d + l <= Len(z)
      BY <1>9, <1>16, Zenon
    <3>2. FieldAt(z, 0, d) \o FieldAt(z, d, l) = FieldAt(z, 0, d + l)
      BY <1>9, <3>1, PrefixGrows, Zenon
    <3> QED
      BY <1>16, <3>2, Zenon
  <2>4. FieldAt(z, 0, e) \o FieldAt(z, e, total) = FieldAt(z, 0, Len(z))
    <3>1. e + total = Len(z) /\ e + total <= Len(z)
      BY <1>9, <1>15, <1>16, Zenon
    <3>2. FieldAt(z, 0, e) \o FieldAt(z, e, total) = FieldAt(z, 0, e + total)
      BY <1>9, <3>1, PrefixGrows, Zenon
    <3> QED
      BY <3>1, <3>2, Zenon
  <2>5. FieldAt(z, 0, Len(z)) = z
    BY <1>9, WholeField, Zenon
  <2> QED
    BY <1>10, <1>11, <2>1, <2>2, <2>3, <2>4, <2>5, Zenon
<1>13. Sealed(z, kChecksumOffset) = bytes
  <2>1. kChecksumOffset = 40 /\ kChecksumOffset \in Nat /\ kChecksumOffset + 4 <= Len(bytes)
    BY <1>4 DEF kChecksumOffset
  <2>2. Checksum(bytes, kChecksumOffset) = FieldAt(bytes, kChecksumOffset, 4)
    BY <1>3, Zenon DEF ChecksumMatches
  <2> QED
    BY <1>8, <2>1, <2>2, SealedAgain, Zenon
<1> QED
  <2>1. serialize_module(module) = Value(bytes)
    BY <1>3, <1>12, <1>13, Zenon DEF serialize_module
  <2>2. Value(module).value = module
    BY DEF Value
  <2> QED
    BY <1>3, <2>1, <2>2, Zenon

-----------------------------------------------------------------------------
\* The same of a profile: its fields tile the file.
LEMMA ProfileIsTiled ==
    ASSUME NEW z \in Seq(Byte), Len(z) = 32
    PROVE  FieldAt(z, 0, 4) \o FieldAt(z, 4, 2) \o FieldAt(z, 6, 2) \o FieldAt(z, 8, 8)
               \o FieldAt(z, 16, 8) \o FieldAt(z, 24, 8) = z
<1>1. \A a, b \in Nat : a + b <= Len(z) =>
          FieldAt(z, 0, a) \o FieldAt(z, a, b) = FieldAt(z, 0, a + b)
  BY PrefixGrows, Zenon
<1> DEFINE Part(a, b) == FieldAt(z, a, b)
<1> HIDE DEF Part
<1>2. ASSUME NEW a, NEW b, NEW c, a \in Nat /\ b \in Nat /\ a + b = c /\ c <= Len(z)
      PROVE  Part(0, a) \o Part(a, b) = Part(0, c)
  BY <1>1, <1>2, Zenon DEF Part
<1>3. Part(0, 4) \o Part(4, 2) = Part(0, 6)
  <2>1. 4 \in Nat /\ 2 \in Nat /\ 4 + 2 = 6 /\ 6 <= Len(z)
    OBVIOUS
  <2> QED
    BY <1>2, <2>1, Zenon
<1>4. Part(0, 6) \o Part(6, 2) = Part(0, 8)
  <2>1. 6 \in Nat /\ 2 \in Nat /\ 6 + 2 = 8 /\ 8 <= Len(z)
    OBVIOUS
  <2> QED
    BY <1>2, <2>1, Zenon
<1>5. Part(0, 8) \o Part(8, 8) = Part(0, 16)
  <2>1. 8 \in Nat /\ 8 \in Nat /\ 8 + 8 = 16 /\ 16 <= Len(z)
    OBVIOUS
  <2> QED
    BY <1>2, <2>1, Zenon
<1>6. Part(0, 16) \o Part(16, 8) = Part(0, 24)
  <2>1. 16 \in Nat /\ 8 \in Nat /\ 16 + 8 = 24 /\ 24 <= Len(z)
    OBVIOUS
  <2> QED
    BY <1>2, <2>1, Zenon
<1>7. Part(0, 24) \o Part(24, 8) = Part(0, 32)
  <2>1. 24 \in Nat /\ 8 \in Nat /\ 24 + 8 = 32 /\ 32 <= Len(z)
    OBVIOUS
  <2> QED
    BY <1>2, <2>1, Zenon
<1>8. Part(0, 32) = z
  BY WholeField DEF Part
<1> QED
  BY <1>3, <1>4, <1>5, <1>6, <1>7, <1>8, Zenon DEF Part

\* What a file that parses as a profile must have passed.
LEMMA ProfileParsed ==
    ASSUME NEW bytes, IsValue(parse_profile(bytes)),
           NEW profile, profile = from_seed(FieldAt(bytes, 8, WordBytes))
    PROVE  /\ ProfileHeaderKnown(bytes)
           /\ Checksum(bytes, kProfileChecksumOffset) = FieldAt(bytes, kProfileChecksumOffset, 4)
           /\ StatesItsFingerprint(bytes, profile)
           /\ parse_profile(bytes) = Value(profile)
<1>1. ~IsValue(Refusal("InvalidModule")) /\ ~IsValue(Refusal("ChecksumMismatch"))
  BY DEF IsValue, Refusal
<1>2. ProfileHeaderKnown(bytes)
  BY <1>1, Zenon DEF parse_profile
<1>3. Checksum(bytes, kProfileChecksumOffset) = FieldAt(bytes, kProfileChecksumOffset, 4)
  BY <1>1, <1>2, Zenon DEF parse_profile
<1>4. StatesItsFingerprint(bytes, profile)
  BY <1>1, <1>2, <1>3, Zenon DEF parse_profile
<1>5. parse_profile(bytes) = Value(profile)
  BY <1>2, <1>3, <1>4, Zenon DEF parse_profile
<1> QED
  BY <1>2, <1>3, <1>4, <1>5, Zenon

\* A file that parses as a profile is the file that serialising the profile makes.
THEOREM ProfileIsItsFile ==
    ASSUME NEW bytes \in Seq(Byte), WordBytes = 8, IsValue(parse_profile(bytes))
    PROVE  serialize_profile(parse_profile(bytes).value) = Value(bytes)
<1>1. PICK profile : profile = from_seed(FieldAt(bytes, 8, WordBytes))
  OBVIOUS
<1>2. /\ ProfileHeaderKnown(bytes)
      /\ Checksum(bytes, kProfileChecksumOffset) = FieldAt(bytes, kProfileChecksumOffset, 4)
      /\ StatesItsFingerprint(bytes, profile) /\ parse_profile(bytes) = Value(profile)
  BY <1>1, ProfileParsed, Zenon
<1>3. /\ Len(bytes) = 32 /\ FieldAt(bytes, 0, 4) = kProfileMagic
      /\ read_u16(bytes, 4) = kProfileVersion /\ read_u16(bytes, 6) = kProfileSize
      /\ FieldAt(bytes, 28, 4) = Zeros(4)
  BY <1>2 DEF ProfileHeaderKnown, kProfileSize, kProfileReservedOffset
<1>4. /\ FieldAt(bytes, 4, 2) = write_u16(kProfileVersion)
      /\ FieldAt(bytes, 6, 2) = write_u16(kProfileSize)
  <2>1. 4 \in Nat /\ 4 + 2 <= Len(bytes) /\ 6 \in Nat /\ 6 + 2 <= Len(bytes)
    BY <1>3
  <2> QED
    BY <1>3, <2>1, Read16, Zenon
<1>5. profile.seed = FieldAt(bytes, 8, 8) /\ profile.fingerprint = FieldAt(bytes, 16, 8)
  <2>1. profile.seed = FieldAt(bytes, 8, WordBytes)
    BY <1>1 DEF from_seed
  <2>2. profile.fingerprint = FieldAt(bytes, 16, WordBytes)
    BY <1>2, Zenon DEF StatesItsFingerprint
  <2> QED
    BY <2>1, <2>2
<1>6. PICK z : z = Write(bytes, 24, Zeros(4))
  OBVIOUS
<1>7. /\ z \in Seq(Byte) /\ Len(z) = Len(bytes)
      /\ FieldAt(z, 24, 4) = Zeros(4)
      /\ Kept(z, bytes, 24, 28)
  <2>1. PICK at \in Nat, end \in Nat : at = 24 /\ end = 28
    OBVIOUS
  <2>2. at + 4 <= Len(bytes) /\ at + 4 = end
    BY <1>3, <2>1
  <2>3. z = Write(bytes, at, Zeros(4))
    BY <1>6, <2>1, Zenon
  <2>4. /\ z \in Seq(Byte) /\ Len(z) = Len(bytes)
        /\ FieldAt(z, at, 4) = Zeros(4)
        /\ Kept(z, bytes, at, at + 4)
    BY <2>2, <2>3, ZeroedIs, Zenon
  <2> QED
    BY <2>1, <2>2, <2>4, Zenon
<1>8. ASSUME NEW o, NEW w, o \in Nat /\ w \in Nat /\ o + w <= Len(bytes),
             o + w <= 24 \/ 28 <= o
      PROVE  FieldAt(z, o, w) = FieldAt(bytes, o, w)
  BY <1>7, <1>8, Zenon DEF Kept
<1>9. /\ FieldAt(z, 0, 4) = FieldAt(bytes, 0, 4) /\ FieldAt(z, 4, 2) = FieldAt(bytes, 4, 2)
      /\ FieldAt(z, 6, 2) = FieldAt(bytes, 6, 2) /\ FieldAt(z, 8, 8) = FieldAt(bytes, 8, 8)
      /\ FieldAt(z, 16, 8) = FieldAt(bytes, 16, 8) /\ FieldAt(z, 28, 4) = FieldAt(bytes, 28, 4)
  BY <1>3, <1>8
<1>10. FieldAt(z, 24, 8) = Zeros(8)
  <2>1. FieldAt(z, 24, 4) \o FieldAt(z, 28, 4) = FieldAt(z, 24, 8)
    <3>1. PICK o \in Nat, w \in Nat : o = 24 /\ w = 4
      OBVIOUS
    <3>2. o + w = 28 /\ w + w = 8 /\ o + w + w <= Len(z)
      BY <1>3, <1>7, <3>1
    <3>3. FieldAt(z, o, w) \o FieldAt(z, o + w, w) = FieldAt(z, o, w + w)
      BY <1>7, <3>2, FieldsJoin
    <3> QED
      BY <3>1, <3>2, <3>3
  <2>2. Zeros(4) \o Zeros(4) = Zeros(8)
    BY DEF Zeros
  <2> QED
    BY <1>3, <1>7, <1>9, <2>1, <2>2, Zenon
<1>11. kProfileMagic \o write_u16(kProfileVersion) \o write_u16(kProfileSize)
           \o profile.seed \o profile.fingerprint \o Zeros(8) = z
  BY <1>3, <1>4, <1>5, <1>7, <1>9, <1>10, ProfileIsTiled, ZenonT(40)
<1>12. Sealed(z, kProfileChecksumOffset) = bytes
  <2>1. /\ kProfileChecksumOffset = 24 /\ kProfileChecksumOffset \in Nat
        /\ kProfileChecksumOffset + 4 <= Len(bytes)
    BY <1>3 DEF kProfileChecksumOffset
  <2> QED
    BY <1>2, <1>6, <2>1, SealedAgain, Zenon
<1>13. serialize_profile(profile) = Value(bytes)
  BY <1>11, <1>12, Zenon DEF serialize_profile
<1>14. Value(profile).value = profile
  BY DEF Value
<1> QED
  BY <1>2, <1>13, <1>14, Zenon

-----------------------------------------------------------------------------
\* A field of bytes as a sequence of them.
LEMMA FieldOf ==
    ASSUME NEW count \in Nat, NEW field \in Bytes(count)
    PROVE  field \in Seq(Byte) /\ Len(field) = count
BY DEF Bytes

\* Every field of one file is found in another at the same place.
Prefix(a, b) == \A o, w \in Nat : o + w <= Len(a) => FieldAt(b, o, w) = FieldAt(a, o, w)

\* What is appended to an image leaves its fields where they were, and is the field behind it.
LEMMA Appending ==
    ASSUME NEW a \in Seq(Byte), NEW f \in Seq(Byte), NEW image, Prefix(a \o f, image)
    PROVE  Prefix(a, image) /\ FieldAt(image, Len(a), Len(f)) = f
<1> DEFINE joined == a \o f
<1>1. /\ joined \in Seq(Byte) /\ Len(joined) = Len(a) + Len(f)
      /\ FieldAt(joined, Len(a), Len(f)) = f
      /\ \A o \in Nat, w \in Nat :
             o + w <= Len(a) => FieldAt(joined, o, w) = FieldAt(a, o, w)
  BY FieldAppended, Zenon
<1>2. \A o, w \in Nat : o + w <= Len(joined) => FieldAt(image, o, w) = FieldAt(joined, o, w)
  BY Zenon DEF Prefix
<1>3. Len(a) \in Nat /\ Len(f) \in Nat
  OBVIOUS
<1> HIDE DEF joined
<1>4. FieldAt(image, Len(a), Len(f)) = f
  <2>1. Len(a) + Len(f) <= Len(joined)
    BY <1>1, <1>3
  <2> QED
    BY <1>1, <1>2, <1>3, <2>1, Zenon
<1>5. ASSUME NEW o \in Nat, NEW w \in Nat, o + w <= Len(a)
      PROVE  FieldAt(image, o, w) = FieldAt(a, o, w)
  <2>1. o + w <= Len(joined)
    BY <1>1, <1>3, <1>5
  <2>2. FieldAt(image, o, w) = FieldAt(joined, o, w)
    BY <1>2, <2>1, Zenon
  <2>3. FieldAt(joined, o, w) = FieldAt(a, o, w)
    BY <1>1, <1>5, Zenon
  <2> QED
    BY <2>2, <2>3, Zenon
<1> QED
  BY <1>4, <1>5, Zenon DEF Prefix

\* A sequence of a number of bytes.
Wide(field, width) == field \in Seq(Byte) /\ Len(field) = width

\* A field of a file.
Holds(image, from, width, field) == FieldAt(image, from, width) = field

\* How wide two fields are together.
LEMMA WideJoined ==
    ASSUME NEW a, NEW f, NEW from, NEW width, NEW end, Wide(a, from), Wide(f, width),
           from + width = end, NEW joined, joined = a \o f
    PROVE  Wide(joined, end)
<1>1. a \in Seq(Byte) /\ Len(a) = from /\ f \in Seq(Byte) /\ Len(f) = width
  BY Zenon DEF Wide
<1>2. joined \in Seq(Byte) /\ Len(joined) = Len(a) + Len(f)
  BY <1>1, Joined, Zenon
<1> QED
  BY <1>1, <1>2, Zenon DEF Wide

\* Appending once more to an image, in the predicates the long images are built with.
LEMMA Placed ==
    ASSUME NEW a, NEW f, NEW from, NEW width, Wide(a, from), Wide(f, width),
           NEW joined, joined = a \o f, NEW image, Prefix(joined, image)
    PROVE  Prefix(a, image) /\ Holds(image, from, width, f)
<1>1. a \in Seq(Byte) /\ Len(a) = from /\ f \in Seq(Byte) /\ Len(f) = width
  BY Zenon DEF Wide
<1>2. Prefix(a, image) /\ FieldAt(image, Len(a), Len(f)) = f
  BY <1>1, Appending, Zenon
<1> QED
  BY <1>1, <1>2, Zenon DEF Holds

\* The first field of an image.
LEMMA PlacedFirst ==
    ASSUME NEW f, NEW width, Wide(f, width), NEW image, Prefix(f, image)
    PROVE  Holds(image, 0, width, f)
<1>1. f \in Seq(Byte) /\ Len(f) = width
  BY Zenon DEF Wide
<1>2. Len(f) \in Nat /\ 0 \in Nat /\ 0 + Len(f) <= Len(f)
  BY <1>1
<1>3. FieldAt(image, 0, Len(f)) = FieldAt(f, 0, Len(f))
  BY <1>2, Zenon DEF Prefix
<1>4. FieldAt(f, 0, Len(f)) = f
  BY <1>1, WholeField, Zenon
<1> QED
  BY <1>1, <1>3, <1>4, Zenon DEF Holds

ProfileMade(image, f1, f2, f3, f4, f5, f6) ==
    /\ Wide(f1, 4) /\ Wide(f2, 2) /\ Wide(f3, 2) /\ Wide(f4, 8) /\ Wide(f5, 8)
    /\ Wide(f6, 8)
    /\ image = f1 \o f2 \o f3 \o f4 \o f5 \o f6

ProfileHeld(image, f1, f2, f3, f4, f5, f6) ==
    /\ Wide(image, 32) /\ Holds(image, 0, 4, f1) /\ Holds(image, 4, 2, f2)
    /\ Holds(image, 6, 2, f3) /\ Holds(image, 8, 8, f4) /\ Holds(image, 16, 8, f5)
    /\ Holds(image, 24, 8, f6)

\* What is written one after the other is found at the offsets of a profile.
LEMMA ProfileFields ==
    ASSUME NEW image,
           NEW f1, NEW f2, NEW f3, NEW f4, NEW f5, NEW f6,
           ProfileMade(image, f1, f2, f3, f4, f5, f6)
    PROVE  ProfileHeld(image, f1, f2, f3, f4, f5, f6)
<1>0. /\ Wide(f1, 4) /\ Wide(f2, 2) /\ Wide(f3, 2) /\ Wide(f4, 8) /\ Wide(f5, 8)
      /\ Wide(f6, 8)
      /\ image = f1 \o f2 \o f3 \o f4 \o f5 \o f6
  BY Zenon DEF ProfileMade
<1>1. /\ Wide(image, 32) /\ Holds(image, 0, 4, f1) /\ Holds(image, 4, 2, f2)
      /\ Holds(image, 6, 2, f3) /\ Holds(image, 8, 8, f4) /\ Holds(image, 16, 8, f5)
      /\ Holds(image, 24, 8, f6)
  <2>w1. Wide(f1, 4)
    BY <1>0, Zenon
  <2>w2. Wide(f2, 2)
    BY <1>0, Zenon
  <2>w3. Wide(f3, 2)
    BY <1>0, Zenon
  <2>w4. Wide(f4, 8)
    BY <1>0, Zenon
  <2>w5. Wide(f5, 8)
    BY <1>0, Zenon
  <2>w6. Wide(f6, 8)
    BY <1>0, Zenon
  <2>1. PICK j1 : j1 = f1
    OBVIOUS
  <2>2. PICK j2 : j2 = j1 \o f2
    OBVIOUS
  <2>3. PICK j3 : j3 = j2 \o f3
    OBVIOUS
  <2>4. PICK j4 : j4 = j3 \o f4
    OBVIOUS
  <2>5. PICK j5 : j5 = j4 \o f5
    OBVIOUS
  <2>6. PICK j6 : j6 = j5 \o f6
    OBVIOUS
  <2>7. image = j6
    BY <1>0, <2>1, <2>2, <2>3, <2>4, <2>5, <2>6, Zenon
  <2>a1. Wide(j1, 4)
    BY <2>1, <2>w1, Zenon
  <2>a2. Wide(j2, 6)
    <3>1. PICK from, width, end : from = 4 /\ width = 2 /\ end = 6
      OBVIOUS
    <3>2. from + width = end
      BY <3>1
    <3>3. Wide(j1, from) /\ Wide(f2, width)
      BY <2>a1, <2>w2, <3>1
    <3>4. Wide(j2, end)
      BY <2>2, <3>2, <3>3, WideJoined, Zenon
    <3> QED
      BY <3>1, <3>4
  <2>a3. Wide(j3, 8)
    <3>1. PICK from, width, end : from = 6 /\ width = 2 /\ end = 8
      OBVIOUS
    <3>2. from + width = end
      BY <3>1
    <3>3. Wide(j2, from) /\ Wide(f3, width)
      BY <2>a2, <2>w3, <3>1
    <3>4. Wide(j3, end)
      BY <2>3, <3>2, <3>3, WideJoined, Zenon
    <3> QED
      BY <3>1, <3>4
  <2>a4. Wide(j4, 16)
    <3>1. PICK from, width, end : from = 8 /\ width = 8 /\ end = 16
      OBVIOUS
    <3>2. from + width = end
      BY <3>1
    <3>3. Wide(j3, from) /\ Wide(f4, width)
      BY <2>a3, <2>w4, <3>1
    <3>4. Wide(j4, end)
      BY <2>4, <3>2, <3>3, WideJoined, Zenon
    <3> QED
      BY <3>1, <3>4
  <2>a5. Wide(j5, 24)
    <3>1. PICK from, width, end : from = 16 /\ width = 8 /\ end = 24
      OBVIOUS
    <3>2. from + width = end
      BY <3>1
    <3>3. Wide(j4, from) /\ Wide(f5, width)
      BY <2>a4, <2>w5, <3>1
    <3>4. Wide(j5, end)
      BY <2>5, <3>2, <3>3, WideJoined, Zenon
    <3> QED
      BY <3>1, <3>4
  <2>a6. Wide(j6, 32)
    <3>1. PICK from, width, end : from = 24 /\ width = 8 /\ end = 32
      OBVIOUS
    <3>2. from + width = end
      BY <3>1
    <3>3. Wide(j5, from) /\ Wide(f6, width)
      BY <2>a5, <2>w6, <3>1
    <3>4. Wide(j6, end)
      BY <2>6, <3>2, <3>3, WideJoined, Zenon
    <3> QED
      BY <3>1, <3>4
  <2>b6. Prefix(j6, image)
    BY <2>7, Zenon DEF Prefix
  <2>b5. Prefix(j5, image) /\ Holds(image, 24, 8, f6)
    BY <2>6, <2>a5, <2>b6, <2>w6, Placed
  <2>b4. Prefix(j4, image) /\ Holds(image, 16, 8, f5)
    BY <2>5, <2>a4, <2>b5, <2>w5, Placed
  <2>b3. Prefix(j3, image) /\ Holds(image, 8, 8, f4)
    BY <2>4, <2>a3, <2>b4, <2>w4, Placed
  <2>b2. Prefix(j2, image) /\ Holds(image, 6, 2, f3)
    BY <2>3, <2>a2, <2>b3, <2>w3, Placed
  <2>b1. Prefix(j1, image) /\ Holds(image, 4, 2, f2)
    BY <2>2, <2>a1, <2>b2, <2>w2, Placed
  <2>c. Holds(image, 0, 4, f1)
    BY <2>1, <2>a1, <2>b1, PlacedFirst
  <2> QED
    BY <2>7, <2>a6, <2>c, <2>b1, <2>b2, <2>b3, <2>b4, <2>b5, Zenon
<1> QED
  BY <1>1, Zenon DEF ProfileHeld

HeaderMade(image, f1, f2, f3, f4, f5, f6, f7, f8, f9, f10, f11, f12, f13) ==
    /\ Wide(f1, 4) /\ Wide(f2, 2) /\ Wide(f3, 2) /\ Wide(f4, 4) /\ Wide(f5, 4)
    /\ Wide(f6, 4) /\ Wide(f7, 4) /\ Wide(f8, 4) /\ Wide(f9, 4) /\ Wide(f10, 8)
    /\ Wide(f11, 4) /\ Wide(f12, 2) /\ Wide(f13, 18)
    /\ image = f1 \o f2 \o f3 \o f4 \o f5 \o f6 \o f7 \o f8 \o f9 \o f10 \o f11 \o f12 \o f13

HeaderHeld(image, f1, f2, f3, f4, f5, f6, f7, f8, f9, f10, f11, f12, f13) ==
    /\ Wide(image, 64) /\ Holds(image, 0, 4, f1) /\ Holds(image, 4, 2, f2)
    /\ Holds(image, 6, 2, f3) /\ Holds(image, 8, 4, f4) /\ Holds(image, 12, 4, f5)
    /\ Holds(image, 16, 4, f6) /\ Holds(image, 20, 4, f7) /\ Holds(image, 24, 4, f8)
    /\ Holds(image, 28, 4, f9) /\ Holds(image, 32, 8, f10) /\ Holds(image, 40, 4, f11)
    /\ Holds(image, 44, 2, f12) /\ Holds(image, 46, 18, f13)

\* And at those of the header of a module.
LEMMA HeaderFields ==
    ASSUME NEW image,
           NEW f1, NEW f2, NEW f3, NEW f4, NEW f5, NEW f6, NEW f7,
           NEW f8, NEW f9, NEW f10, NEW f11, NEW f12, NEW f13,
           HeaderMade(image, f1, f2, f3, f4, f5, f6, f7, f8, f9, f10, f11, f12, f13)
    PROVE  HeaderHeld(image, f1, f2, f3, f4, f5, f6, f7, f8, f9, f10, f11, f12, f13)
<1>0. /\ Wide(f1, 4) /\ Wide(f2, 2) /\ Wide(f3, 2) /\ Wide(f4, 4) /\ Wide(f5, 4)
      /\ Wide(f6, 4) /\ Wide(f7, 4) /\ Wide(f8, 4) /\ Wide(f9, 4) /\ Wide(f10, 8)
      /\ Wide(f11, 4) /\ Wide(f12, 2) /\ Wide(f13, 18)
      /\ image = f1 \o f2 \o f3 \o f4 \o f5 \o f6 \o f7 \o f8 \o f9 \o f10 \o f11 \o f12 \o f13
  BY Zenon DEF HeaderMade
<1>1. /\ Wide(image, 64) /\ Holds(image, 0, 4, f1) /\ Holds(image, 4, 2, f2)
      /\ Holds(image, 6, 2, f3) /\ Holds(image, 8, 4, f4) /\ Holds(image, 12, 4, f5)
      /\ Holds(image, 16, 4, f6) /\ Holds(image, 20, 4, f7) /\ Holds(image, 24, 4, f8)
      /\ Holds(image, 28, 4, f9) /\ Holds(image, 32, 8, f10) /\ Holds(image, 40, 4, f11)
      /\ Holds(image, 44, 2, f12) /\ Holds(image, 46, 18, f13)
  <2>w1. Wide(f1, 4)
    BY <1>0, Zenon
  <2>w2. Wide(f2, 2)
    BY <1>0, Zenon
  <2>w3. Wide(f3, 2)
    BY <1>0, Zenon
  <2>w4. Wide(f4, 4)
    BY <1>0, Zenon
  <2>w5. Wide(f5, 4)
    BY <1>0, Zenon
  <2>w6. Wide(f6, 4)
    BY <1>0, Zenon
  <2>w7. Wide(f7, 4)
    BY <1>0, Zenon
  <2>w8. Wide(f8, 4)
    BY <1>0, Zenon
  <2>w9. Wide(f9, 4)
    BY <1>0, Zenon
  <2>w10. Wide(f10, 8)
    BY <1>0, Zenon
  <2>w11. Wide(f11, 4)
    BY <1>0, Zenon
  <2>w12. Wide(f12, 2)
    BY <1>0, Zenon
  <2>w13. Wide(f13, 18)
    BY <1>0, Zenon
  <2>1. PICK j1 : j1 = f1
    OBVIOUS
  <2>2. PICK j2 : j2 = j1 \o f2
    OBVIOUS
  <2>3. PICK j3 : j3 = j2 \o f3
    OBVIOUS
  <2>4. PICK j4 : j4 = j3 \o f4
    OBVIOUS
  <2>5. PICK j5 : j5 = j4 \o f5
    OBVIOUS
  <2>6. PICK j6 : j6 = j5 \o f6
    OBVIOUS
  <2>7. PICK j7 : j7 = j6 \o f7
    OBVIOUS
  <2>8. PICK j8 : j8 = j7 \o f8
    OBVIOUS
  <2>9. PICK j9 : j9 = j8 \o f9
    OBVIOUS
  <2>10. PICK j10 : j10 = j9 \o f10
    OBVIOUS
  <2>11. PICK j11 : j11 = j10 \o f11
    OBVIOUS
  <2>12. PICK j12 : j12 = j11 \o f12
    OBVIOUS
  <2>13. PICK j13 : j13 = j12 \o f13
    OBVIOUS
  <2>14. image = j13
    BY <1>0, <2>1, <2>2, <2>3, <2>4, <2>5, <2>6, <2>7, <2>8,
       <2>9, <2>10, <2>11, <2>12, <2>13, Zenon
  <2>a1. Wide(j1, 4)
    BY <2>1, <2>w1, Zenon
  <2>a2. Wide(j2, 6)
    <3>1. PICK from, width, end : from = 4 /\ width = 2 /\ end = 6
      OBVIOUS
    <3>2. from + width = end
      BY <3>1
    <3>3. Wide(j1, from) /\ Wide(f2, width)
      BY <2>a1, <2>w2, <3>1
    <3>4. Wide(j2, end)
      BY <2>2, <3>2, <3>3, WideJoined, Zenon
    <3> QED
      BY <3>1, <3>4
  <2>a3. Wide(j3, 8)
    <3>1. PICK from, width, end : from = 6 /\ width = 2 /\ end = 8
      OBVIOUS
    <3>2. from + width = end
      BY <3>1
    <3>3. Wide(j2, from) /\ Wide(f3, width)
      BY <2>a2, <2>w3, <3>1
    <3>4. Wide(j3, end)
      BY <2>3, <3>2, <3>3, WideJoined, Zenon
    <3> QED
      BY <3>1, <3>4
  <2>a4. Wide(j4, 12)
    <3>1. PICK from, width, end : from = 8 /\ width = 4 /\ end = 12
      OBVIOUS
    <3>2. from + width = end
      BY <3>1
    <3>3. Wide(j3, from) /\ Wide(f4, width)
      BY <2>a3, <2>w4, <3>1
    <3>4. Wide(j4, end)
      BY <2>4, <3>2, <3>3, WideJoined, Zenon
    <3> QED
      BY <3>1, <3>4
  <2>a5. Wide(j5, 16)
    <3>1. PICK from, width, end : from = 12 /\ width = 4 /\ end = 16
      OBVIOUS
    <3>2. from + width = end
      BY <3>1
    <3>3. Wide(j4, from) /\ Wide(f5, width)
      BY <2>a4, <2>w5, <3>1
    <3>4. Wide(j5, end)
      BY <2>5, <3>2, <3>3, WideJoined, Zenon
    <3> QED
      BY <3>1, <3>4
  <2>a6. Wide(j6, 20)
    <3>1. PICK from, width, end : from = 16 /\ width = 4 /\ end = 20
      OBVIOUS
    <3>2. from + width = end
      BY <3>1
    <3>3. Wide(j5, from) /\ Wide(f6, width)
      BY <2>a5, <2>w6, <3>1
    <3>4. Wide(j6, end)
      BY <2>6, <3>2, <3>3, WideJoined, Zenon
    <3> QED
      BY <3>1, <3>4
  <2>a7. Wide(j7, 24)
    <3>1. PICK from, width, end : from = 20 /\ width = 4 /\ end = 24
      OBVIOUS
    <3>2. from + width = end
      BY <3>1
    <3>3. Wide(j6, from) /\ Wide(f7, width)
      BY <2>a6, <2>w7, <3>1
    <3>4. Wide(j7, end)
      BY <2>7, <3>2, <3>3, WideJoined, Zenon
    <3> QED
      BY <3>1, <3>4
  <2>a8. Wide(j8, 28)
    <3>1. PICK from, width, end : from = 24 /\ width = 4 /\ end = 28
      OBVIOUS
    <3>2. from + width = end
      BY <3>1
    <3>3. Wide(j7, from) /\ Wide(f8, width)
      BY <2>a7, <2>w8, <3>1
    <3>4. Wide(j8, end)
      BY <2>8, <3>2, <3>3, WideJoined, Zenon
    <3> QED
      BY <3>1, <3>4
  <2>a9. Wide(j9, 32)
    <3>1. PICK from, width, end : from = 28 /\ width = 4 /\ end = 32
      OBVIOUS
    <3>2. from + width = end
      BY <3>1
    <3>3. Wide(j8, from) /\ Wide(f9, width)
      BY <2>a8, <2>w9, <3>1
    <3>4. Wide(j9, end)
      BY <2>9, <3>2, <3>3, WideJoined, Zenon
    <3> QED
      BY <3>1, <3>4
  <2>a10. Wide(j10, 40)
    <3>1. PICK from, width, end : from = 32 /\ width = 8 /\ end = 40
      OBVIOUS
    <3>2. from + width = end
      BY <3>1
    <3>3. Wide(j9, from) /\ Wide(f10, width)
      BY <2>a9, <2>w10, <3>1
    <3>4. Wide(j10, end)
      BY <2>10, <3>2, <3>3, WideJoined, Zenon
    <3> QED
      BY <3>1, <3>4
  <2>a11. Wide(j11, 44)
    <3>1. PICK from, width, end : from = 40 /\ width = 4 /\ end = 44
      OBVIOUS
    <3>2. from + width = end
      BY <3>1
    <3>3. Wide(j10, from) /\ Wide(f11, width)
      BY <2>a10, <2>w11, <3>1
    <3>4. Wide(j11, end)
      BY <2>11, <3>2, <3>3, WideJoined, Zenon
    <3> QED
      BY <3>1, <3>4
  <2>a12. Wide(j12, 46)
    <3>1. PICK from, width, end : from = 44 /\ width = 2 /\ end = 46
      OBVIOUS
    <3>2. from + width = end
      BY <3>1
    <3>3. Wide(j11, from) /\ Wide(f12, width)
      BY <2>a11, <2>w12, <3>1
    <3>4. Wide(j12, end)
      BY <2>12, <3>2, <3>3, WideJoined, Zenon
    <3> QED
      BY <3>1, <3>4
  <2>a13. Wide(j13, 64)
    <3>1. PICK from, width, end : from = 46 /\ width = 18 /\ end = 64
      OBVIOUS
    <3>2. from + width = end
      BY <3>1
    <3>3. Wide(j12, from) /\ Wide(f13, width)
      BY <2>a12, <2>w13, <3>1
    <3>4. Wide(j13, end)
      BY <2>13, <3>2, <3>3, WideJoined, Zenon
    <3> QED
      BY <3>1, <3>4
  <2>b13. Prefix(j13, image)
    BY <2>14, Zenon DEF Prefix
  <2>b12. Prefix(j12, image) /\ Holds(image, 46, 18, f13)
    BY <2>13, <2>a12, <2>b13, <2>w13, Placed
  <2>b11. Prefix(j11, image) /\ Holds(image, 44, 2, f12)
    BY <2>12, <2>a11, <2>b12, <2>w12, Placed
  <2>b10. Prefix(j10, image) /\ Holds(image, 40, 4, f11)
    BY <2>11, <2>a10, <2>b11, <2>w11, Placed
  <2>b9. Prefix(j9, image) /\ Holds(image, 32, 8, f10)
    BY <2>10, <2>a9, <2>b10, <2>w10, Placed
  <2>b8. Prefix(j8, image) /\ Holds(image, 28, 4, f9)
    BY <2>9, <2>a8, <2>b9, <2>w9, Placed
  <2>b7. Prefix(j7, image) /\ Holds(image, 24, 4, f8)
    BY <2>8, <2>a7, <2>b8, <2>w8, Placed
  <2>b6. Prefix(j6, image) /\ Holds(image, 20, 4, f7)
    BY <2>7, <2>a6, <2>b7, <2>w7, Placed
  <2>b5. Prefix(j5, image) /\ Holds(image, 16, 4, f6)
    BY <2>6, <2>a5, <2>b6, <2>w6, Placed
  <2>b4. Prefix(j4, image) /\ Holds(image, 12, 4, f5)
    BY <2>5, <2>a4, <2>b5, <2>w5, Placed
  <2>b3. Prefix(j3, image) /\ Holds(image, 8, 4, f4)
    BY <2>4, <2>a3, <2>b4, <2>w4, Placed
  <2>b2. Prefix(j2, image) /\ Holds(image, 6, 2, f3)
    BY <2>3, <2>a2, <2>b3, <2>w3, Placed
  <2>b1. Prefix(j1, image) /\ Holds(image, 4, 2, f2)
    BY <2>2, <2>a1, <2>b2, <2>w2, Placed
  <2>c. Holds(image, 0, 4, f1)
    BY <2>1, <2>a1, <2>b1, PlacedFirst
  <2> QED
    BY <2>14, <2>a13, <2>c, <2>b1, <2>b2, <2>b3, <2>b4, <2>b5, <2>b6, <2>b7, <2>b8,
       <2>b9, <2>b10, <2>b11, <2>b12, Zenon
<1> QED
  BY <1>1, Zenon DEF HeaderHeld
-----------------------------------------------------------------------------
\* A module of so many carriers.
Carrying(module, count, carriers) ==
    /\ count \in Nat /\ carriers \in [0 .. (count - 1) -> Bytes(8)]
    /\ module.carrier_count = count /\ module.initial_carriers = carriers

\* What one carrier after the other is.
Spread(section, count, carriers) ==
    \A q \in 0 .. (count - 1), r \in 1 .. 8 : section[q * 8 + r] = carriers[q][r]

\* They are written one after the other, and sliced again.
LEMMA CarriersAre ==
    ASSUME WordBytes = 8, NEW module, NEW count, NEW carriers,
           Carrying(module, count, carriers)
    PROVE  /\ Wide(CarrierSection(module), count * 8)
           /\ Spread(CarrierSection(module), count, carriers)
<1>0. /\ count \in Nat /\ carriers \in [0 .. (count - 1) -> Bytes(8)]
      /\ module.carrier_count = count /\ module.initial_carriers = carriers
  BY Zenon DEF Carrying
<1>1. PICK section : section = CarrierSection(module)
  OBVIOUS
<1>2. section = [n \in 1 .. count * 8 |-> carriers[(n - 1) \div 8][((n - 1) % 8) + 1]]
  BY <1>0, <1>1 DEF CarrierSection
<1>3. \A q \in 0 .. (count - 1), r \in 1 .. 8 : carriers[q][r] \in Byte
  <2>1. \A q \in 0 .. (count - 1) : carriers[q] \in [1 .. 8 -> Byte]
    BY <1>0 DEF Bytes
  <2> QED
    BY <2>1
<1>4. ASSUME NEW n \in 1 .. count * 8
      PROVE  (n - 1) \div 8 \in 0 .. (count - 1) /\ ((n - 1) % 8) + 1 \in 1 .. 8
  BY <1>0
<1>5. \A n \in 1 .. count * 8 : carriers[(n - 1) \div 8][((n - 1) % 8) + 1] \in Byte
  BY <1>3, <1>4, Zenon
<1>6. section \in Seq(Byte) /\ Len(section) = count * 8
  <2>1. count * 8 \in Nat /\ DOMAIN section = 1 .. count * 8
    BY <1>0, <1>2
  <2>2. \A n \in 1 .. count * 8 : section[n] \in Byte
    BY <1>2, <1>5, Zenon
  <2>3. section = [n \in 1 .. count * 8 |-> section[n]]
    BY <1>2, <2>1, Zenon
  <2> QED
    BY <2>1, <2>2, <2>3
<1>7. ASSUME NEW q \in 0 .. (count - 1), NEW r \in 1 .. 8
      PROVE  section[q * 8 + r] = carriers[q][r]
  <2>1. q * 8 + r \in 1 .. count * 8
    BY <1>0
  <2>2. ((q * 8 + r) - 1) \div 8 = q /\ (((q * 8 + r) - 1) % 8) + 1 = r
    BY <1>0
  <2>3. section[q * 8 + r]
            = carriers[((q * 8 + r) - 1) \div 8][(((q * 8 + r) - 1) % 8) + 1]
    BY <1>2, <2>1, Zenon
  <2> QED
    BY <2>2, <2>3, Zenon
<1>8. Spread(section, count, carriers)
  BY <1>7, Zenon DEF Spread
<1> QED
  BY <1>1, <1>6, <1>8, Zenon DEF Wide

\* The carriers that a section gives back are the ones it was made of.
LEMMA CarriersSliced ==
    ASSUME WordBytes = 8, NEW module, NEW count, NEW carriers,
           Carrying(module, count, carriers),
           NEW bytes \in Seq(Byte), NEW base \in Nat, base + count * 8 <= Len(bytes),
           FieldAt(bytes, base, count * 8) = CarrierSection(module)
    PROVE  [n \in 0 .. (count - 1) |-> FieldAt(bytes, base + n * 8, 8)] = carriers
<1>0. /\ count \in Nat /\ carriers \in [0 .. (count - 1) -> Bytes(8)]
      /\ module.carrier_count = count /\ module.initial_carriers = carriers
  BY Zenon DEF Carrying
<1>1. PICK section : section = CarrierSection(module)
  OBVIOUS
<1>2. \A q \in 0 .. (count - 1), r \in 1 .. 8 : section[q * 8 + r] = carriers[q][r]
  <2>1. Spread(CarrierSection(module), count, carriers)
    BY CarriersAre, Zenon
  <2> QED
    BY <1>1, <2>1, Zenon DEF Spread
<1>3. section = [n \in 1 .. count * 8 |-> bytes[base + n]]
  <2>1. count * 8 \in Nat
    BY <1>0
  <2>2. FieldAt(bytes, base, count * 8) = [n \in 1 .. count * 8 |-> bytes[base + n]]
    BY <2>1, FieldIs, Zenon
  <2> QED
    BY <1>1, <2>2, Zenon
<1>4. ASSUME NEW q \in 0 .. (count - 1)
      PROVE  FieldAt(bytes, base + q * 8, 8) = carriers[q]
  <2>1. PICK from \in Nat, wide \in Nat : from = base + q * 8 /\ wide = 8
    BY <1>0
  <2>2. from + wide <= Len(bytes)
    BY <1>0, <2>1
  <2>3. FieldAt(bytes, from, wide) = [n \in 1 .. wide |-> bytes[from + n]]
    BY <2>2, FieldIs, Zenon
  <2>4. ASSUME NEW r \in 1 .. 8 PROVE bytes[from + r] = carriers[q][r]
    <3>1. q * 8 + r \in 1 .. count * 8 /\ base + (q * 8 + r) = from + r
      BY <1>0, <2>1
    <3>2. section[q * 8 + r] = bytes[base + (q * 8 + r)]
      BY <1>3, <3>1, Zenon
    <3> QED
      BY <1>2, <3>1, <3>2, Zenon
  <2>5. carriers[q] \in [1 .. 8 -> Byte]
    BY <1>0 DEF Bytes
  <2>6. [n \in 1 .. 8 |-> bytes[from + n]] = carriers[q]
    BY <2>4, <2>5
  <2> QED
    BY <2>1, <2>3, <2>6, Zenon
<1> QED
  BY <1>0, <1>4

-----------------------------------------------------------------------------
\* What serialising asks of a module, in the terms of its file: c bytes of code, l of
\* data, k carriers.
Sized(module, c, l, k) ==
    /\ module.memory_size \in U32 /\ module.carrier_count = k /\ k \in U32
    /\ module.argument_count \in U16
    /\ Wide(module.fingerprint, 8)
    /\ module.code_size = c /\ c \in U32 /\ Wide(module.code, c)
    /\ l \in U32 /\ Wide(module.data, l)
    /\ k * 8 \in U32
    /\ Carrying(module, k, module.initial_carriers)

\* A module that serialising accepts has such sizes, all of which a file can state.
LEMMA ModuleSized ==
    ASSUME NEW module, WordBytes = 8, IsModule(module), ModuleShapeValid(module)
    PROVE  Sized(module, module.code_size, Len(module.data), module.carrier_count)
<1>1. /\ module.memory_size \in U32 /\ module.carrier_count \in U32
      /\ module.argument_count \in U16
      /\ module.fingerprint \in Bytes(8)
      /\ module.code_size = Len(module.code) /\ module.code \in Seq(Byte)
      /\ module.data \in Seq(Byte)
      /\ module.initial_carriers \in [DOMAIN module.initial_carriers -> Bytes(8)]
  BY DEF IsModule
<1>2. DOMAIN module.initial_carriers = 0 .. (module.carrier_count - 1)
  BY SMT DEF ModuleShapeValid
<1>8. \A size \in {module.code_size, Len(module.data), WordBytes * module.carrier_count} :
          FitsField(size)
  BY Zenon DEF ModuleShapeValid
<1>3. module.carrier_count \in Nat
  BY <1>1 DEF U32
<1>4. module.code_size \in U32 /\ Len(module.data) \in U32
  <2>1. FitsField(module.code_size) /\ FitsField(Len(module.data))
    BY <1>8, Zenon
  <2>2. \A n \in Nat : FitsField(n) => n \in U32
    BY SMT DEF U32, FitsField
  <2>3. Len(module.code) \in Nat /\ Len(module.data) \in Nat
    BY <1>1
  <2> QED
    BY <1>1, <2>1, <2>2, <2>3, Zenon
<1>5. module.carrier_count * 8 \in U32
  <2>1. FitsField(WordBytes * module.carrier_count)
    BY <1>8, Zenon
  <2> QED
    BY <1>3, <2>1, SMT DEF U32, FitsField
<1>6. module.fingerprint \in Seq(Byte) /\ Len(module.fingerprint) = 8
  BY <1>1, FieldOf
<1>7. Carrying(module, module.carrier_count, module.initial_carriers)
  BY <1>1, <1>2, <1>3, Zenon DEF Carrying
<1> QED
  BY <1>1, <1>4, <1>5, <1>6, <1>7, Zenon DEF Sized, Wide

\* The file of a module, all but its checksum.
Laid(image, module, c, l, k) ==
    /\ Wide(image, 64 + c + l + k * 8)
    /\ Holds(image, 0, 4, kMagic)
    /\ Holds(image, 4, 2, write_u16(kModuleVersion))
    /\ Holds(image, 6, 2, write_u16(kModuleHeaderSize))
    /\ Holds(image, 8, 4, Zeros(4))
    /\ Holds(image, 12, 4, write_u32(module.memory_size))
    /\ Holds(image, 16, 4, write_u32(k))
    /\ Holds(image, 20, 4, write_u32(c))
    /\ Holds(image, 24, 4, write_u32(l))
    /\ Holds(image, 28, 4, write_u32(k * 8))
    /\ Holds(image, 32, 8, module.fingerprint)
    /\ Holds(image, 44, 2, write_u16(module.argument_count))
    /\ Holds(image, 46, 18, Zeros(18))
    /\ Holds(image, 64, c, module.code)
    /\ Holds(image, 64 + c, l, module.data)
    /\ Holds(image, 64 + c + l, k * 8, CarrierSection(module))

\* The fields of a header are as wide as the format says.
LEMMA WideWritten ==
    /\ \A v \in U16 : Wide(write_u16(v), 2)
    /\ \A v \in U32 : Wide(write_u32(v), 4)
    /\ \A n \in Nat : Wide(Zeros(n), n)
    /\ kModuleVersion \in U16 /\ kModuleHeaderSize \in U16
    /\ Wide(kMagic, 4)
    /\ kProfileVersion \in U16 /\ kProfileSize \in U16
    /\ Wide(kProfileMagic, 4)
<1>1. ASSUME NEW v \in U16 PROVE Wide(write_u16(v), 2)
  BY Written16, Zenon DEF Wide
<1>2. ASSUME NEW v \in U32 PROVE Wide(write_u32(v), 4)
  BY Written32, Zenon DEF Wide
<1>3. ASSUME NEW n \in Nat PROVE Wide(Zeros(n), n)
  BY ZerosAre, Zenon DEF Wide
<1>4. /\ kModuleVersion \in U16 /\ kModuleHeaderSize \in U16
      /\ kProfileVersion \in U16 /\ kProfileSize \in U16
  BY DEF kModuleVersion, kModuleHeaderSize, kProfileVersion, kProfileSize, U16
<1>5. Wide(kMagic, 4) /\ Wide(kProfileMagic, 4)
  BY DEF kMagic, kProfileMagic, Wide, Byte
<1> QED
  BY <1>1, <1>2, <1>3, <1>4, <1>5, Zenon

\* The header of a module and its fields.
LEMMA HeaderHolds ==
    ASSUME NEW module, NEW c, NEW l, NEW k, WordBytes = 8, Sized(module, c, l, k),
           NEW header, header = Header(module)
    PROVE  /\ Wide(header, 64)
           /\ Holds(header, 0, 4, kMagic)
           /\ Holds(header, 4, 2, write_u16(kModuleVersion))
           /\ Holds(header, 6, 2, write_u16(kModuleHeaderSize))
           /\ Holds(header, 8, 4, Zeros(4))
           /\ Holds(header, 12, 4, write_u32(module.memory_size))
           /\ Holds(header, 16, 4, write_u32(k))
           /\ Holds(header, 20, 4, write_u32(c))
           /\ Holds(header, 24, 4, write_u32(l))
           /\ Holds(header, 28, 4, write_u32(k * 8))
           /\ Holds(header, 32, 8, module.fingerprint)
           /\ Holds(header, 40, 4, Zeros(4))
           /\ Holds(header, 44, 2, write_u16(module.argument_count))
           /\ Holds(header, 46, 18, Zeros(18))
<1>1. /\ Len(module.data) = l /\ module.code_size = c /\ module.carrier_count = k
      /\ Wide(module.fingerprint, 8)
      /\ module.memory_size \in U32 /\ module.argument_count \in U16
      /\ c \in U32 /\ l \in U32 /\ k \in U32 /\ k * 8 \in U32
  BY Zenon DEF Sized, Wide
<1>2. kModuleHeaderSize - kReservedOffset = 18
  BY DEF kModuleHeaderSize, kReservedOffset
<1>3. header = kMagic \o write_u16(kModuleVersion) \o write_u16(kModuleHeaderSize)
        \o Zeros(4)
        \o write_u32(module.memory_size) \o write_u32(k)
        \o write_u32(c) \o write_u32(l)
        \o write_u32(k * 8)
        \o module.fingerprint \o Zeros(4) \o write_u16(module.argument_count)
        \o Zeros(18)
  BY <1>1, <1>2, Zenon DEF Header
<1>4. /\ Wide(kMagic, 4) /\ Wide(write_u16(kModuleVersion), 2)
      /\ Wide(write_u16(kModuleHeaderSize), 2) /\ Wide(Zeros(4), 4)
      /\ Wide(write_u32(module.memory_size), 4) /\ Wide(write_u32(k), 4)
      /\ Wide(write_u32(c), 4) /\ Wide(write_u32(l), 4) /\ Wide(write_u32(k * 8), 4)
      /\ Wide(module.fingerprint, 8)
      /\ Wide(write_u16(module.argument_count), 2) /\ Wide(Zeros(18), 18)
  <2>1. 4 \in Nat /\ 18 \in Nat
    OBVIOUS
  <2> QED
    BY <1>1, <2>1, WideWritten, Zenon
<1>5. PICK f1, f2, f3, f4, f5, f6, f7, f8, f9, f10, f11, f12, f13 :
          /\ f1 = kMagic /\ f2 = write_u16(kModuleVersion)
          /\ f3 = write_u16(kModuleHeaderSize) /\ f4 = Zeros(4)
          /\ f5 = write_u32(module.memory_size) /\ f6 = write_u32(k)
          /\ f7 = write_u32(c) /\ f8 = write_u32(l) /\ f9 = write_u32(k * 8)
          /\ f10 = module.fingerprint /\ f11 = Zeros(4)
          /\ f12 = write_u16(module.argument_count) /\ f13 = Zeros(18)
  BY Zenon
<1>6. /\ Wide(f1, 4) /\ Wide(f2, 2) /\ Wide(f3, 2) /\ Wide(f4, 4) /\ Wide(f5, 4)
      /\ Wide(f6, 4) /\ Wide(f7, 4) /\ Wide(f8, 4) /\ Wide(f9, 4) /\ Wide(f10, 8)
      /\ Wide(f11, 4) /\ Wide(f12, 2) /\ Wide(f13, 18)
  BY <1>4, <1>5, Zenon
<1>7. header = f1 \o f2 \o f3 \o f4 \o f5 \o f6 \o f7 \o f8 \o f9 \o f10 \o f11 \o f12 \o f13
  BY <1>3, <1>5, Zenon
<1>9. HeaderMade(header, f1, f2, f3, f4, f5, f6, f7, f8, f9, f10, f11, f12, f13)
  BY <1>6, <1>7, Zenon DEF HeaderMade
<1>10. HeaderHeld(header, f1, f2, f3, f4, f5, f6, f7, f8, f9, f10, f11, f12, f13)
  BY <1>9, HeaderFields, Zenon
<1>8. /\ Wide(header, 64)
      /\ Holds(header, 0, 4, f1) /\ Holds(header, 4, 2, f2) /\ Holds(header, 6, 2, f3)
      /\ Holds(header, 8, 4, f4) /\ Holds(header, 12, 4, f5) /\ Holds(header, 16, 4, f6)
      /\ Holds(header, 20, 4, f7) /\ Holds(header, 24, 4, f8) /\ Holds(header, 28, 4, f9)
      /\ Holds(header, 32, 8, f10) /\ Holds(header, 40, 4, f11) /\ Holds(header, 44, 2, f12)
      /\ Holds(header, 46, 18, f13)
  BY <1>10, Zenon DEF HeaderHeld
<1> QED
  BY <1>5, <1>8, Zenon

\* Putting a checksum at its place keeps every field beside it, and the length.
LEMMA Kept40 ==
    ASSUME NEW a, NEW b, NEW total, Wide(b, total), Kept(a, b, 40, 44),
           NEW from \in Nat, NEW width \in Nat, NEW field, Holds(b, from, width, field),
           from + width <= 40 \/ (44 <= from /\ from + width <= total)
    PROVE  Holds(a, from, width, field)
BY Zenon DEF Kept, Holds, Wide

\* Sealing keeps every field beside the checksum.
LEMMA SealedKept ==
    ASSUME NEW bytes \in Seq(Byte), NEW offset \in Nat, offset + 4 <= Len(bytes),
           FieldAt(bytes, offset, 4) = Zeros(4),
           NEW sealed, sealed = Sealed(bytes, offset)
    PROVE  /\ sealed \in Seq(Byte) /\ Len(sealed) = Len(bytes)
           /\ Checksum(sealed, offset) = FieldAt(sealed, offset, 4)
           /\ Kept(sealed, bytes, offset, offset + 4)
<1>1. /\ Sealed(bytes, offset) \in Seq(Byte)
      /\ Len(Sealed(bytes, offset)) = Len(bytes)
      /\ Checksum(Sealed(bytes, offset), offset) = FieldAt(Sealed(bytes, offset), offset, 4)
      /\ \A o \in Nat, w \in Nat :
             o + w <= offset \/ (offset + 4 <= o /\ o + w <= Len(bytes)) =>
                 FieldAt(Sealed(bytes, offset), o, w) = FieldAt(bytes, o, w)
  BY SealedHolds
<1>2. Kept(Sealed(bytes, offset), bytes, offset, offset + 4)
  BY <1>1, Zenon DEF Kept
<1> QED
  BY <1>1, <1>2, Zenon

\* What serialising a module writes has every field at its place and its checksum.
LEMMA ModuleLaid ==
    ASSUME WordBytes = 8, NEW module, NEW c, NEW l, NEW k, Sized(module, c, l, k),
           NEW image, image = Sealed(Header(module) \o module.code \o module.data
                                         \o CarrierSection(module), kChecksumOffset)
    PROVE  Laid(image, module, c, l, k) /\ ChecksumMatches(image)
<1>1. PICK header : header = Header(module)
  OBVIOUS
<1>2. PICK section : section = CarrierSection(module)
  OBVIOUS
<1>3. PICK a : a = header \o module.code
  OBVIOUS
<1>4. PICK b : b = a \o module.data
  OBVIOUS
<1>5. PICK body : body = b \o section
  OBVIOUS
<1>6. image = Sealed(body, 40)
  <2>1. kChecksumOffset = 40
    BY DEF kChecksumOffset
  <2> QED
    BY <1>1, <1>2, <1>3, <1>4, <1>5, <2>1, Zenon
<1>7. /\ Wide(module.code, c) /\ Wide(module.data, l)
      /\ c \in U32 /\ l \in U32 /\ k \in U32 /\ Carrying(module, k, module.initial_carriers)
  BY Zenon DEF Sized
<1>8. c \in Nat /\ l \in Nat /\ k \in Nat
  BY <1>7, SMT DEF U32
<1>9. PICK h \in Nat, d \in Nat, e \in Nat, t \in Nat, total \in Nat :
          /\ h = 64 /\ d = 64 + c /\ e = 64 + c + l /\ t = k * 8 /\ total = 64 + c + l + k * 8
  <2>1. /\ 64 \in Nat /\ 64 + c \in Nat /\ 64 + c + l \in Nat /\ k * 8 \in Nat
        /\ 64 + c + l + k * 8 \in Nat
    BY <1>8, SMT
  <2> QED
    BY <2>1, Zenon
<1>10. h + c = d /\ d + l = e /\ e + t = total /\ h <= total
  BY <1>8, <1>9, SMT
<1>11. Wide(header, h) /\ Wide(section, t)
  <2>1. Wide(header, 64)
    BY <1>1, HeaderHolds, Zenon
  <2>2. Wide(section, k * 8)
    BY <1>2, <1>7, CarriersAre, Zenon
  <2> QED
    BY <1>9, <2>1, <2>2, Zenon
<1>12. Wide(a, d)
  BY <1>3, <1>7, <1>10, <1>11, WideJoined, Zenon
<1>13. Wide(b, e)
  BY <1>4, <1>7, <1>10, <1>12, WideJoined, Zenon
<1>14. Wide(body, total)
  BY <1>5, <1>10, <1>11, <1>13, WideJoined, Zenon
<1>15. Prefix(body, body)
  BY Zenon DEF Prefix
<1>16. Prefix(b, body) /\ Holds(body, e, t, section)
  BY <1>5, <1>11, <1>13, <1>15, Placed, Zenon
<1>17. Prefix(a, body) /\ Holds(body, d, l, module.data)
  BY <1>4, <1>7, <1>12, <1>16, Placed, Zenon
<1>18. Prefix(header, body) /\ Holds(body, h, c, module.code)
  BY <1>3, <1>7, <1>11, <1>17, Placed, Zenon
<1>19. ASSUME NEW from, NEW width, NEW field, from \in Nat /\ width \in Nat,
              from + width <= h, Holds(header, from, width, field)
       PROVE  Holds(body, from, width, field)
  <2>1. Len(header) = h
    BY <1>11, Zenon DEF Wide
  <2> QED
    BY <1>18, <1>19, <2>1, Zenon DEF Prefix, Holds
<1>20. PICK zeros : zeros = Zeros(4)
  OBVIOUS
<1>21. Holds(body, 40, 4, zeros)
  <2>1. 40 \in Nat /\ 4 \in Nat /\ 40 + 4 <= h
    BY <1>9, SMT
  <2>2. Holds(header, 40, 4, zeros)
    BY <1>1, <1>20, HeaderHolds, Zenon
  <2> QED
    BY <1>19, <2>1, <2>2, Zenon
<1>22. /\ Wide(image, total)
       /\ Checksum(image, 40) = FieldAt(image, 40, 4)
       /\ Kept(image, body, 40, 44)
  <2>1. PICK at \in Nat, end \in Nat : at = 40 /\ end = 44
    OBVIOUS
  <2>2. body \in Seq(Byte) /\ Len(body) = total /\ FieldAt(body, at, 4) = Zeros(4)
    BY <1>14, <1>20, <1>21, <2>1, Zenon DEF Wide, Holds
  <2>3. at + 4 <= Len(body) /\ at + 4 = end
    BY <1>9, <1>10, <2>1, <2>2, SMT
  <2>4. image = Sealed(body, at)
    BY <1>6, <2>1, Zenon
  <2>5. /\ image \in Seq(Byte) /\ Len(image) = Len(body)
        /\ Checksum(image, at) = FieldAt(image, at, 4)
        /\ Kept(image, body, at, at + 4)
    <3>1. at \in Nat
      OBVIOUS
    <3> QED
      BY <2>2, <2>3, <2>4, <3>1, SealedKept, Zenon
  <2>6. Kept(image, body, at, end)
    BY <2>3, <2>5, Zenon
  <2> QED
    BY <2>1, <2>2, <2>5, <2>6, Zenon DEF Wide
<1>23. ASSUME NEW from, NEW width, NEW field, from \in Nat /\ width \in Nat,
              from + width <= 40 \/ (44 <= from /\ from + width <= total),
              Holds(body, from, width, field)
       PROVE  Holds(image, from, width, field)
  BY <1>14, <1>22, <1>23, Kept40, Zenon
<1>24. ASSUME NEW from, NEW width, NEW field, from \in Nat /\ width \in Nat,
              from + width <= 40 \/ (44 <= from /\ from + width <= h),
              Holds(header, from, width, field)
       PROVE  Holds(image, from, width, field)
  <2>1. from + width <= h /\ (from + width <= 40 \/ (44 <= from /\ from + width <= total))
    BY <1>9, <1>10, <1>24, SMT
  <2> QED
    BY <1>19, <1>23, <1>24, <2>1, Zenon
<1>25. /\ Holds(image, 0, 4, kMagic)
       /\ Holds(image, 4, 2, write_u16(kModuleVersion))
       /\ Holds(image, 6, 2, write_u16(kModuleHeaderSize))
       /\ Holds(image, 8, 4, Zeros(4))
  <2>1. 0 \in Nat /\ 2 \in Nat /\ 4 \in Nat /\ 6 \in Nat /\ 8 \in Nat
        /\ 0 + 4 <= 40 /\ 4 + 2 <= 40 /\ 6 + 2 <= 40 /\ 8 + 4 <= 40
    OBVIOUS
  <2>2. /\ Holds(header, 0, 4, kMagic)
        /\ Holds(header, 4, 2, write_u16(kModuleVersion))
        /\ Holds(header, 6, 2, write_u16(kModuleHeaderSize))
        /\ Holds(header, 8, 4, Zeros(4))
    BY <1>1, HeaderHolds, Zenon
  <2> QED
    BY <1>24, <2>1, <2>2, Zenon
<1>26. /\ Holds(image, 12, 4, write_u32(module.memory_size))
       /\ Holds(image, 16, 4, write_u32(k))
       /\ Holds(image, 20, 4, write_u32(c))
       /\ Holds(image, 24, 4, write_u32(l))
       /\ Holds(image, 28, 4, write_u32(k * 8))
       /\ Holds(image, 32, 8, module.fingerprint)
  <2>1. 12 \in Nat /\ 16 \in Nat /\ 20 \in Nat /\ 24 \in Nat /\ 28 \in Nat /\ 32 \in Nat
        /\ 4 \in Nat /\ 8 \in Nat
        /\ 12 + 4 <= 40 /\ 16 + 4 <= 40 /\ 20 + 4 <= 40 /\ 24 + 4 <= 40 /\ 28 + 4 <= 40
        /\ 32 + 8 <= 40
    OBVIOUS
  <2>2. /\ Holds(header, 12, 4, write_u32(module.memory_size))
        /\ Holds(header, 16, 4, write_u32(k))
        /\ Holds(header, 20, 4, write_u32(c))
        /\ Holds(header, 24, 4, write_u32(l))
        /\ Holds(header, 28, 4, write_u32(k * 8))
        /\ Holds(header, 32, 8, module.fingerprint)
    BY <1>1, HeaderHolds, Zenon
  <2> QED
    BY <1>24, <2>1, <2>2, Zenon
<1>27. /\ Holds(image, 44, 2, write_u16(module.argument_count))
       /\ Holds(image, 46, 18, Zeros(18))
  <2>1. 44 \in Nat /\ 46 \in Nat /\ 2 \in Nat /\ 18 \in Nat
        /\ 44 <= 44 /\ 44 + 2 <= h /\ 44 <= 46 /\ 46 + 18 <= h
    BY <1>9, SMT
  <2>2. /\ Holds(header, 44, 2, write_u16(module.argument_count))
        /\ Holds(header, 46, 18, Zeros(18))
    BY <1>1, HeaderHolds, Zenon
  <2> QED
    BY <1>24, <2>1, <2>2, Zenon
<1>28. /\ Holds(image, h, c, module.code) /\ Holds(image, d, l, module.data)
       /\ Holds(image, e, t, section)
  <2>1. /\ 44 <= h /\ h + c <= total /\ 44 <= d /\ d + l <= total /\ 44 <= e /\ e + t <= total
    BY <1>8, <1>9, <1>10, SMT
  <2> QED
    BY <1>8, <1>9, <1>16, <1>17, <1>18, <1>23, <2>1, Zenon
<1>29. ChecksumMatches(image)
  <2>1. kChecksumOffset = 40
    BY DEF kChecksumOffset
  <2> QED
    BY <1>22, <2>1, Zenon DEF ChecksumMatches
<1>30. /\ Wide(image, 64 + c + l + k * 8)
       /\ Holds(image, 64, c, module.code) /\ Holds(image, 64 + c, l, module.data)
       /\ Holds(image, 64 + c + l, k * 8, CarrierSection(module))
  BY <1>2, <1>9, <1>22, <1>28, Zenon
<1> QED
  BY <1>25, <1>26, <1>27, <1>29, <1>30, Zenon DEF Laid

-----------------------------------------------------------------------------
\* A value that a file holds is read.
LEMMA HeldRead ==
    ASSUME NEW image, NEW total \in Nat, Wide(image, total), NEW offset \in Nat
    PROVE  /\ \A v \in U16 : offset + 2 <= total /\ Holds(image, offset, 2, write_u16(v)) =>
                  read_u16(image, offset) = v
           /\ \A v \in U32 : offset + 4 <= total /\ Holds(image, offset, 4, write_u32(v)) =>
                  read_u32(image, offset) = v
<1>1. image \in Seq(Byte) /\ Len(image) = total
  BY Zenon DEF Wide
<1>2. ASSUME NEW v \in U16, offset + 2 <= total, Holds(image, offset, 2, write_u16(v))
      PROVE  read_u16(image, offset) = v
  <2>1. offset + 2 <= Len(image) /\ FieldAt(image, offset, 2) = write_u16(v)
    BY <1>1, <1>2, Zenon DEF Holds
  <2> QED
    BY <1>1, <2>1, Written16, Zenon
<1>3. ASSUME NEW v \in U32, offset + 4 <= total, Holds(image, offset, 4, write_u32(v))
      PROVE  read_u32(image, offset) = v
  <2>1. offset + 4 <= Len(image) /\ FieldAt(image, offset, 4) = write_u32(v)
    BY <1>1, <1>3, Zenon DEF Holds
  <2> QED
    BY <1>1, <2>1, Written32, Zenon
<1> QED
  BY <1>2, <1>3, Zenon

\* The header of a module's image reads as the module.
LEMMA LaidHeader ==
    ASSUME WordBytes = 8, NEW module, ModuleShapeValid(module),
           NEW c, NEW l, NEW k, Sized(module, c, l, k),
           NEW image, Laid(image, module, c, l, k)
    PROVE  HeaderKnown(image)
<1>1. /\ c \in U32 /\ l \in U32 /\ k \in U32 /\ module.code_size = c
      /\ Len(module.data) = l /\ module.carrier_count = k
  BY Zenon DEF Sized, Wide
<1>2. c \in Nat /\ l \in Nat /\ k \in Nat
  BY <1>1, SMT DEF U32
<1>3. PICK total \in Nat : total = 64 + c + l + k * 8 /\ 64 <= total
  BY <1>2, SMT
<1>4. image \in Seq(Byte) /\ Len(image) = total /\ Wide(image, total)
  BY <1>3, Zenon DEF Laid, Wide
<1>5. Len(image) >= kModuleHeaderSize
  BY <1>3, <1>4, SMT DEF kModuleHeaderSize
<1>6. Len(image) <= ModuleLimits.max_file_size
  <2>1. kModuleHeaderSize + module.code_size + Len(module.data)
            + WordBytes * module.carrier_count <= ModuleLimits.max_file_size
    BY Zenon DEF ModuleShapeValid
  <2>2. kModuleHeaderSize + module.code_size + Len(module.data)
            + WordBytes * module.carrier_count = total
    BY <1>1, <1>2, <1>3, SMT DEF kModuleHeaderSize
  <2> QED
    BY <1>4, <2>1, <2>2, Zenon
<1>7. FieldAt(image, 0, 4) = kMagic /\ FieldAt(image, kFlagsOffset, 4) = Zeros(4)
  <2>1. kFlagsOffset = 8
    BY DEF kFlagsOffset
  <2> QED
    BY <2>1, Zenon DEF Laid, Holds
<1>8. read_u16(image, 4) = kModuleVersion /\ read_u16(image, 6) = kModuleHeaderSize
  <2>1. 4 \in Nat /\ 6 \in Nat /\ 4 + 2 <= total /\ 6 + 2 <= total
    BY <1>3, SMT
  <2>2. /\ Holds(image, 4, 2, write_u16(kModuleVersion))
        /\ Holds(image, 6, 2, write_u16(kModuleHeaderSize))
    BY Zenon DEF Laid
  <2>3. kModuleVersion \in U16 /\ kModuleHeaderSize \in U16
    BY WideWritten, Zenon
  <2> QED
    BY <1>4, <2>1, <2>2, <2>3, HeldRead, Zenon
<1>9. \A offset \in kReservedOffset .. (kModuleHeaderSize - 1) : image[offset + 1] = 0
  <2>1. PICK r \in Nat, w \in Nat : r = 46 /\ w = 18
    OBVIOUS
  <2>2. Holds(image, 46, 18, Zeros(18))
    BY Zenon DEF Laid
  <2>3. FieldAt(image, r, w) = Zeros(w)
    BY <2>1, <2>2, Zenon DEF Holds
  <2>4. r + w <= Len(image)
    BY <1>3, <1>4, <2>1, SMT
  <2>5. FieldAt(image, r, w) = [n \in 1 .. w |-> image[r + n]]
    BY <1>4, <2>4, FieldIs, Zenon
  <2>6. \A n \in 1 .. w : image[r + n] = 0
    BY <2>3, <2>5 DEF Zeros
  <2>7. ASSUME NEW offset \in 46 .. 63 PROVE image[offset + 1] = 0
    <3>1. offset - 45 \in 1 .. w /\ r + (offset - 45) = offset + 1
      BY <2>1, SMT
    <3> QED
      BY <2>6, <3>1, Zenon
  <2>8. kReservedOffset = 46 /\ kModuleHeaderSize - 1 = 63
    BY DEF kReservedOffset, kModuleHeaderSize
  <2> QED
    BY <2>7, <2>8, SMT
<1> QED
  BY <1>5, <1>6, <1>7, <1>8, <1>9, Zenon DEF HeaderKnown

\* The sizes of a module as its header claims them, and what slicing makes.
Claims(sizes, module, c, l, k) ==
    sizes = [memory |-> module.memory_size, carriers |-> k, code |-> c, data |-> l,
             carrier_bytes |-> k * 8]

Slices(image, sizes, module) == Sliced(image, sizes) = module

\* The sizes an image claims are the module's, and they fit.
LEMMA LaidSizes ==
    ASSUME WordBytes = 8, NEW module, ModuleShapeValid(module),
           NEW c, NEW l, NEW k, Sized(module, c, l, k),
           NEW image, Laid(image, module, c, l, k)
    PROVE  /\ Claims(ClaimedSizes(image), module, c, l, k)
           /\ SizesFit(image, ClaimedSizes(image))
<1>1. /\ c \in U32 /\ l \in U32 /\ k \in U32 /\ module.code_size = c /\ k * 8 \in U32
      /\ Len(module.data) = l /\ module.carrier_count = k /\ module.memory_size \in U32
  BY Zenon DEF Sized, Wide
<1>2. c \in Nat /\ l \in Nat /\ k \in Nat
  BY <1>1, SMT DEF U32
<1>3. PICK total \in Nat : total = 64 + c + l + k * 8 /\ 64 <= total
  BY <1>2, SMT
<1>4. Wide(image, total) /\ Len(image) = total
  BY <1>3, Zenon DEF Laid, Wide
<1>5. /\ read_u32(image, 12) = module.memory_size /\ read_u32(image, 16) = k
      /\ read_u32(image, 20) = c /\ read_u32(image, 24) = l /\ read_u32(image, 28) = k * 8
  <2>1. /\ 12 \in Nat /\ 16 \in Nat /\ 20 \in Nat /\ 24 \in Nat /\ 28 \in Nat
        /\ 12 + 4 <= total /\ 16 + 4 <= total /\ 20 + 4 <= total /\ 24 + 4 <= total
        /\ 28 + 4 <= total
    BY <1>3, SMT
  <2>2. /\ Holds(image, 12, 4, write_u32(module.memory_size))
        /\ Holds(image, 16, 4, write_u32(k))
        /\ Holds(image, 20, 4, write_u32(c))
        /\ Holds(image, 24, 4, write_u32(l))
        /\ Holds(image, 28, 4, write_u32(k * 8))
    BY Zenon DEF Laid
  <2>3. ASSUME NEW offset \in Nat, NEW v \in U32, offset + 4 <= total,
               Holds(image, offset, 4, write_u32(v))
        PROVE  read_u32(image, offset) = v
    BY <1>4, <2>3, HeldRead, Zenon
  <2> QED
    BY <1>1, <2>1, <2>2, <2>3, Zenon
<1>6. ClaimedSizes(image) = [memory |-> module.memory_size, carriers |-> k, code |-> c,
                             data |-> l, carrier_bytes |-> k * 8]
  BY <1>5, Zenon DEF ClaimedSizes
<1>7. PICK sizes : sizes = ClaimedSizes(image)
  OBVIOUS
<1>8. /\ sizes.memory = module.memory_size /\ sizes.carriers = k /\ sizes.code = c
      /\ sizes.data = l /\ sizes.carrier_bytes = k * 8
  BY <1>6, <1>7
<1>9. /\ module.memory_size <= ModuleLimits.max_memory_size
      /\ module.carrier_count <= ModuleLimits.max_carriers
      /\ module.code_size <= ModuleLimits.max_code_size
      /\ Len(module.data) <= ModuleLimits.max_data_size
  BY Zenon DEF ModuleShapeValid
<1>10. kModuleHeaderSize + c + l + k * 8 = Len(image) /\ k * 8 = k * WordBytes
  BY <1>2, <1>3, <1>4, SMT DEF kModuleHeaderSize
<1>11. SizesFit(image, sizes)
  BY <1>1, <1>8, <1>9, <1>10, Zenon DEF SizesFit
<1> QED
  BY <1>6, <1>7, <1>11, Zenon DEF Claims

\* A module is made of its members.
LEMMA ModuleOfMembers ==
    ASSUME NEW module, IsModule(module)
    PROVE  module = [memory_size |-> module.memory_size,
                     carrier_count |-> module.carrier_count,
                     argument_count |-> module.argument_count,
                     fingerprint |-> module.fingerprint,
                     code_size |-> module.code_size,
                     code |-> module.code,
                     data |-> module.data,
                     initial_carriers |-> module.initial_carriers]
BY Zenon DEF IsModule

\* Slicing the image gives back the module.
LEMMA LaidSliced ==
    ASSUME WordBytes = 8, NEW module, IsModule(module),
           NEW c, NEW l, NEW k, Sized(module, c, l, k),
           NEW image, Laid(image, module, c, l, k),
           NEW sizes, Claims(sizes, module, c, l, k)
    PROVE  Slices(image, sizes, module)
<1>1. /\ c \in U32 /\ l \in U32 /\ k \in U32 /\ module.code_size = c
      /\ module.carrier_count = k /\ module.argument_count \in U16
      /\ Carrying(module, k, module.initial_carriers)
  BY Zenon DEF Sized, Wide
<1>2. c \in Nat /\ l \in Nat /\ k \in Nat
  BY <1>1, SMT DEF U32
<1>3. PICK total \in Nat, e \in Nat :
          /\ e = 64 + c + l /\ total = 64 + c + l + k * 8 /\ 64 <= total
          /\ e + k * 8 <= total
  BY <1>2, SMT
<1>4. image \in Seq(Byte) /\ Wide(image, total) /\ Len(image) = total
  BY <1>3, Zenon DEF Laid, Wide
<1>5. read_u16(image, 44) = module.argument_count
  <2>1. PICK at \in Nat : at = 44 /\ at + 2 <= total
    BY <1>3, SMT
  <2>2. Holds(image, 44, 2, write_u16(module.argument_count))
    BY Zenon DEF Laid
  <2>3. Holds(image, at, 2, write_u16(module.argument_count))
    BY <2>1, <2>2, Zenon
  <2>4. read_u16(image, at) = module.argument_count
    BY <1>1, <1>4, <2>1, <2>3, HeldRead, Zenon
  <2> QED
    BY <2>1, <2>4, Zenon
<1>6. /\ FieldAt(image, 32, 8) = module.fingerprint
      /\ FieldAt(image, 64, c) = module.code
      /\ FieldAt(image, 64 + c, l) = module.data
  BY Zenon DEF Laid, Holds
<1>7. [n \in 0 .. (k - 1) |-> FieldAt(image, e + n * 8, 8)] = module.initial_carriers
  <2>1. FieldAt(image, 64 + c + l, k * 8) = CarrierSection(module)
    BY Zenon DEF Laid, Holds
  <2>2. FieldAt(image, e, k * 8) = CarrierSection(module)
    BY <1>3, <2>1, Zenon
  <2>3. e + k * 8 <= Len(image)
    BY <1>3, <1>4, Zenon
  <2>4. e \in Nat
    OBVIOUS
  <2> QED
    BY <1>1, <1>4, <2>2, <2>3, <2>4, CarriersSliced, Zenon
<1>8. /\ sizes.memory = module.memory_size /\ sizes.carriers = k /\ sizes.code = c
      /\ sizes.data = l
  BY DEF Claims
<1>10. /\ kFingerprintOffset = 32 /\ kModuleHeaderSize = 64
  BY DEF kFingerprintOffset, kModuleHeaderSize
<1>11. Sliced(image, sizes) =
           [memory_size      |-> module.memory_size,
            carrier_count    |-> k,
            argument_count   |-> read_u16(image, 44),
            fingerprint      |-> FieldAt(image, 32, 8),
            code_size        |-> c,
            code             |-> FieldAt(image, 64, c),
            data             |-> FieldAt(image, 64 + c, l),
            initial_carriers |-> [n \in 0 .. (k - 1) |-> FieldAt(image, e + n * 8, 8)]]
  BY <1>3, <1>8, <1>10, Zenon DEF Sliced
<1>12. Sliced(image, sizes) =
           [memory_size      |-> module.memory_size,
            carrier_count    |-> module.carrier_count,
            argument_count   |-> module.argument_count,
            fingerprint      |-> module.fingerprint,
            code_size        |-> module.code_size,
            code             |-> module.code,
            data             |-> module.data,
            initial_carriers |-> module.initial_carriers]
  BY <1>1, <1>5, <1>6, <1>7, <1>11, Zenon
<1> QED
  BY <1>12, ModuleOfMembers, Zenon DEF Slices

\* What serialising a module writes parses to the module (serialize_module, parse_module).
THEOREM ModuleRoundTrips ==
    ASSUME WordBytes = 8, NEW module, IsModule(module), ModuleShapeValid(module)
    PROVE  /\ IsValue(serialize_module(module))
           /\ serialize_module(module).value \in Seq(Byte)
           /\ parse_module(serialize_module(module).value) = Value(module)
<1>1. PICK c, l, k : Sized(module, c, l, k)
  BY ModuleSized, Zenon
<1>2. PICK image : image = Sealed(Header(module) \o module.code \o module.data
                                      \o CarrierSection(module), kChecksumOffset)
  OBVIOUS
<1>3. Laid(image, module, c, l, k) /\ ChecksumMatches(image)
  BY <1>1, <1>2, ModuleLaid, Zenon
<1>4. HeaderKnown(image)
  BY <1>1, <1>3, LaidHeader, Zenon
<1>5. PICK sizes : sizes = ClaimedSizes(image)
  OBVIOUS
<1>6. Claims(sizes, module, c, l, k) /\ SizesFit(image, sizes)
  BY <1>1, <1>3, <1>5, LaidSizes, Zenon
<1>7. Slices(image, sizes, module)
  BY <1>1, <1>3, <1>6, LaidSliced, Zenon
<1>8. parse_module(image) = Value(module)
  BY <1>3, <1>4, <1>5, <1>6, <1>7, Zenon DEF parse_module, Slices
<1>9. serialize_module(module) = Value(image)
  BY <1>2, Zenon DEF serialize_module
<1>10. IsValue(Value(image)) /\ Value(image).value = image
  BY DEF IsValue, Value
<1>11. image \in Seq(Byte)
  BY <1>3, Zenon DEF Laid, Wide
<1> QED
  BY <1>8, <1>9, <1>10, <1>11, Zenon

-----------------------------------------------------------------------------
\* Eight zeros are four zeros twice.
LEMMA ZerosHalve ==
    ASSUME NEW bytes \in Seq(Byte), NEW offset \in Nat, offset + 8 <= Len(bytes),
           FieldAt(bytes, offset, 8) = Zeros(8)
    PROVE  FieldAt(bytes, offset, 4) = Zeros(4) /\ FieldAt(bytes, offset + 4, 4) = Zeros(4)
<1>1. \A n \in 1 .. 8 : bytes[offset + n] = 0
  <2>1. PICK w \in Nat : w = 8
    OBVIOUS
  <2>2. FieldAt(bytes, offset, w) = [n \in 1 .. w |-> bytes[offset + n]]
    <3>1. offset + w <= Len(bytes)
      BY <2>1, Zenon
    <3> QED
      BY <3>1, FieldIs, Zenon
  <2>3. [n \in 1 .. w |-> bytes[offset + n]] = [n \in 1 .. w |-> 0]
    BY <2>1, <2>2, Zenon DEF Zeros
  <2> QED
    BY <2>1, <2>3
<1>2. ASSUME NEW from \in Nat, from = offset \/ from = offset + 4
      PROVE  FieldAt(bytes, from, 4) = Zeros(4)
  <2>1. from + 4 <= Len(bytes)
    BY <1>2
  <2>2. FieldAt(bytes, from, 4) = [n \in 1 .. 4 |-> bytes[from + n]]
    BY <2>1, FieldIs
  <2>3. \A n \in 1 .. 4 : bytes[from + n] = 0
    BY <1>1, <1>2
  <2> QED
    BY <2>2, <2>3 DEF Zeros
<1>3. offset + 4 \in Nat
  OBVIOUS
<1> QED
  BY <1>2, <1>3, Zenon

\* What serialising a profile writes parses to the profile (serialize_profile,
\* parse_profile).
THEOREM ProfileRoundTrips ==
    ASSUME WordBytes = 8, NEW seed \in Bytes(8), FingerprintOf(seed) \in Bytes(8)
    PROVE  /\ IsValue(serialize_profile(from_seed(seed)))
           /\ serialize_profile(from_seed(seed)).value \in Seq(Byte)
           /\ parse_profile(serialize_profile(from_seed(seed)).value) = Value(from_seed(seed))
<1>1. PICK profile : profile = from_seed(seed)
  OBVIOUS
<1>2. profile.seed = seed /\ profile.fingerprint = FingerprintOf(seed)
  BY <1>1 DEF from_seed
<1>3. PICK f1, f2, f3, f4, f5, f6 :
          /\ f1 = kProfileMagic /\ f2 = write_u16(kProfileVersion)
          /\ f3 = write_u16(kProfileSize) /\ f4 = seed /\ f5 = FingerprintOf(seed)
          /\ f6 = Zeros(8)
  BY Zenon
<1>4. /\ Wide(f1, 4) /\ Wide(f2, 2) /\ Wide(f3, 2) /\ Wide(f4, 8) /\ Wide(f5, 8)
      /\ Wide(f6, 8)
  <2>1. Wide(seed, 8) /\ Wide(FingerprintOf(seed), 8)
    BY FieldOf DEF Wide
  <2>2. 8 \in Nat
    OBVIOUS
  <2> QED
    BY <1>3, <2>1, <2>2, WideWritten, Zenon
<1>5. PICK body : body = f1 \o f2 \o f3 \o f4 \o f5 \o f6
  OBVIOUS
<1>6. ProfileHeld(body, f1, f2, f3, f4, f5, f6)
  <2>1. ProfileMade(body, f1, f2, f3, f4, f5, f6)
    BY <1>4, <1>5, Zenon DEF ProfileMade
  <2> QED
    BY <2>1, ProfileFields, Zenon
<1>7. /\ Wide(body, 32) /\ Holds(body, 0, 4, f1) /\ Holds(body, 4, 2, f2)
      /\ Holds(body, 6, 2, f3) /\ Holds(body, 8, 8, f4) /\ Holds(body, 16, 8, f5)
      /\ Holds(body, 24, 8, f6)
  BY <1>6, Zenon DEF ProfileHeld
<1>8. body \in Seq(Byte) /\ Len(body) = 32
  BY <1>7, Zenon DEF Wide
<1>9. PICK at \in Nat, end \in Nat : at = 24 /\ end = 28 /\ at + 4 = end /\ at + 8 <= 32
  OBVIOUS
<1>10. FieldAt(body, at, 4) = Zeros(4) /\ FieldAt(body, end, 4) = Zeros(4)
  <2>1. FieldAt(body, at, 8) = Zeros(8)
    BY <1>3, <1>7, <1>9, Zenon DEF Holds
  <2> QED
    BY <1>8, <1>9, <2>1, ZerosHalve, Zenon
<1>11. PICK image : image = Sealed(body, at)
  OBVIOUS
<1>12. /\ image \in Seq(Byte) /\ Len(image) = 32
       /\ Checksum(image, at) = FieldAt(image, at, 4)
       /\ Kept(image, body, at, end)
  <2>1. at + 4 <= Len(body)
    BY <1>8, <1>9
  <2>2. /\ image \in Seq(Byte) /\ Len(image) = Len(body)
        /\ Checksum(image, at) = FieldAt(image, at, 4)
        /\ Kept(image, body, at, at + 4)
    BY <1>8, <1>10, <1>11, <2>1, SealedKept, Zenon
  <2> QED
    BY <1>8, <1>9, <2>2, Zenon
<1>13. serialize_profile(profile) = Value(image)
  <2>1. kProfileChecksumOffset = at
    BY <1>9 DEF kProfileChecksumOffset
  <2> QED
    BY <1>2, <1>3, <1>5, <1>11, <2>1, Zenon DEF serialize_profile
<1>14. ASSUME NEW o, NEW w, o \in Nat /\ w \in Nat,
              o + w <= 24 \/ (28 <= o /\ o + w <= 32)
       PROVE  FieldAt(image, o, w) = FieldAt(body, o, w)
  BY <1>8, <1>9, <1>12, <1>14, Zenon DEF Kept
<1>15. /\ FieldAt(image, 0, 4) = kProfileMagic
       /\ FieldAt(image, 4, 2) = write_u16(kProfileVersion)
       /\ FieldAt(image, 6, 2) = write_u16(kProfileSize)
       /\ FieldAt(image, 8, 8) = seed /\ FieldAt(image, 16, 8) = FingerprintOf(seed)
       /\ FieldAt(image, 28, 4) = Zeros(4)
  <2>1. /\ FieldAt(image, 0, 4) = FieldAt(body, 0, 4)
        /\ FieldAt(image, 4, 2) = FieldAt(body, 4, 2)
        /\ FieldAt(image, 6, 2) = FieldAt(body, 6, 2)
        /\ FieldAt(image, 8, 8) = FieldAt(body, 8, 8)
        /\ FieldAt(image, 16, 8) = FieldAt(body, 16, 8)
        /\ FieldAt(image, 28, 4) = FieldAt(body, 28, 4)
    BY <1>14
  <2>2. FieldAt(body, 28, 4) = Zeros(4)
    BY <1>9, <1>10, Zenon
  <2> QED
    BY <1>3, <1>7, <2>1, <2>2, Zenon DEF Holds
<1>16. read_u16(image, 4) = kProfileVersion /\ read_u16(image, 6) = kProfileSize
  <2>1. 4 \in Nat /\ 6 \in Nat /\ 4 + 2 <= Len(image) /\ 6 + 2 <= Len(image)
    BY <1>12
  <2>2. kProfileVersion \in U16 /\ kProfileSize \in U16
    BY WideWritten, Zenon
  <2> QED
    BY <1>12, <1>15, <2>1, <2>2, Written16, Zenon
<1>17. ProfileHeaderKnown(image)
  BY <1>12, <1>15, <1>16
     DEF ProfileHeaderKnown, kProfileSize, kProfileReservedOffset
<1>18. Checksum(image, kProfileChecksumOffset) = FieldAt(image, kProfileChecksumOffset, 4)
  <2>1. kProfileChecksumOffset = at
    BY <1>9 DEF kProfileChecksumOffset
  <2> QED
    BY <1>12, <2>1, Zenon
<1>19. from_seed(FieldAt(image, 8, WordBytes)) = profile /\ StatesItsFingerprint(image, profile)
  BY <1>1, <1>2, <1>15, Zenon DEF StatesItsFingerprint
<1>20. parse_profile(image) = Value(profile)
  BY <1>17, <1>18, <1>19, Zenon DEF parse_profile
<1>21. IsValue(Value(image)) /\ Value(image).value = image
  BY DEF IsValue, Value
<1> QED
  BY <1>1, <1>12, <1>13, <1>20, <1>21, Zenon

-----------------------------------------------------------------------------
\* What is written to a file are bytes.
LEMMA ImagesAreBytes ==
    ASSUME WordBytes = 8, NEW of \in {"module", "profile"}, NEW what \in Samples(of)
    PROVE  Image(of, what) \in Seq(Byte)
<1>1. CASE of = "module"
  <2>1. what \in SampleModules
    BY <1>1 DEF Samples
  <2>2. IsModule(what) /\ ModuleShapeValid(what)
    BY <2>1, SamplesAssumption, Zenon
  <2>3. serialize_module(what).value \in Seq(Byte)
    BY <2>2, ModuleRoundTrips, Zenon
  <2> QED
    BY <1>1, <2>3, Zenon DEF Image
<1>2. CASE of = "profile"
  <2>1. PICK seed \in SampleSeeds : what = from_seed(seed)
    BY <1>2 DEF Samples
  <2>2. seed \in Bytes(8) /\ FingerprintOf(seed) \in Bytes(8)
    BY SamplesAssumption, Zenon
  <2>3. serialize_profile(what).value \in Seq(Byte)
    BY <2>1, <2>2, ProfileRoundTrips, Zenon
  <2>4. of # "module"
    BY <1>2
  <2> QED
    BY <2>3, <2>4, Zenon DEF Image
<1> QED
  BY <1>1, <1>2

\* The inductive invariant: whatever becomes of a file, it is a sequence of bytes.
FileIsBytes == kind \in {"module", "profile"} /\ file \in Seq(Byte)

\* The file a damaged run begins with is bytes.
LEMMA FileIsBytesInitially ==
    ASSUME WordBytes = 8
    PROVE  DamageInit => FileIsBytes
<1> SUFFICES ASSUME DamageInit PROVE FileIsBytes
  OBVIOUS
<1>1. kind \in {"module", "profile"} /\ written \in Samples(kind) /\ file = Image(kind, written)
  BY Zenon DEF DamageInit
<1> QED
  BY <1>1, ImagesAreBytes, Zenon DEF FileIsBytes

\* Edits, cuts, splices and resealing leave bytes.
LEMMA FileStaysBytes ==
    ASSUME WordBytes = 8
    PROVE  FileIsBytes /\ [DamageNext]_damageVars => FileIsBytes'
<1> SUFFICES ASSUME FileIsBytes, [DamageNext]_damageVars PROVE FileIsBytes'
  OBVIOUS
<1>0. kind \in {"module", "profile"} /\ file \in Seq(Byte)
  BY DEF FileIsBytes
<1>00. EditedOffsets \subseteq Nat /\ CutLengths \subseteq Nat
  BY SamplesAssumption, Zenon
<1>1. ASSUME NEW bytes \in Seq(Byte), Edit(bytes) PROVE FileIsBytes'
  BY <1>0, <1>1 DEF Edit, FileIsBytes
<1>2. CASE Alter
  <2>1. PICK offset \in EditedOffsets, difference \in {1, 255} :
            /\ offset < Len(file)
            /\ Edit([file EXCEPT ![offset + 1] = (@ + difference) % 256])
    BY <1>2, Zenon DEF Alter
  <2>2. offset \in Nat /\ difference \in Nat
    BY <1>00
  <2>3. offset + 1 \in 1 .. Len(file)
    BY <1>0, <2>1, <2>2
  <2>4. file[offset + 1] \in Byte
    BY <1>0, <2>3
  <2>5. (file[offset + 1] + difference) % 256 \in Byte
    BY <2>2, <2>4, SMT DEF Byte
  <2>6. [file EXCEPT ![offset + 1] = (@ + difference) % 256] \in Seq(Byte)
    BY <1>0, <2>3, <2>5
  <2> QED
    BY <1>1, <2>1, <2>6, Zenon
<1>3. CASE Truncate
  <2>1. PICK length \in CutLengths : length < Len(file) /\ Edit(SubSeq(file, 1, length))
    BY <1>3, Zenon DEF Truncate
  <2>2. SubSeq(file, 1, length) \in Seq(Byte)
    BY <1>0, <1>00, <2>1
  <2> QED
    BY <1>1, <2>1, <2>2, Zenon
<1>4. CASE Extend
  <2>1. Append(file, 0) \in Seq(Byte)
    BY <1>0 DEF Byte
  <2> QED
    BY <1>1, <1>4, <2>1, Zenon DEF Extend
<1>5. CASE Splice
  <2>1. PICK length \in CutLengths, other \in Samples(kind) :
            /\ length < Len(file)
            /\ Edit(SubSeq(file, 1, length)
                        \o SubSeq(Image(kind, other), length + 1, Len(Image(kind, other))))
    BY <1>5, Zenon DEF Splice
  <2>2. PICK image \in Seq(Byte) : image = Image(kind, other)
    BY <1>0, <2>1, ImagesAreBytes, Zenon
  <2>3. SubSeq(file, 1, length) \in Seq(Byte)
    BY <1>0, <1>00, <2>1
  <2>4. SubSeq(image, length + 1, Len(image)) \in Seq(Byte)
    BY <1>00, <2>2
  <2>5. SubSeq(file, 1, length) \o SubSeq(image, length + 1, Len(image)) \in Seq(Byte)
    BY <2>3, <2>4, Joined, Zenon
  <2> QED
    BY <1>1, <2>1, <2>2, <2>5, Zenon
<1>6. CASE Reseal
  <2>1. Len(file) >= ChecksumOffset + 4 /\ file' = Sealed(file, ChecksumOffset) /\ kind' = kind
    BY <1>6, Zenon DEF Reseal
  <2>2. PICK offset \in Nat : offset = ChecksumOffset
    BY DEF ChecksumOffset, kChecksumOffset, kProfileChecksumOffset
  <2>3. PICK sum : sum = Checksum(file, offset) /\ sum \in Seq(Byte) /\ Len(sum) = 4
    BY ChecksumIs, Zenon
  <2>4. offset + Len(sum) <= Len(file)
    BY <1>0, <2>1, <2>2, <2>3
  <2>5. Write(file, offset, sum) \in Seq(Byte)
    BY <1>0, <2>3, <2>4, WriteIs, Zenon
  <2> QED
    BY <1>0, <2>1, <2>2, <2>3, <2>5, Zenon DEF FileIsBytes, Sealed
<1>7. CASE UNCHANGED damageVars
  BY <1>0, <1>7 DEF damageVars, FileIsBytes
<1> QED
  BY <1>2, <1>3, <1>4, <1>5, <1>6, <1>7, Zenon DEF DamageNext

\* A file that parses is the file that serialising what came out of it makes, however
\* it was edited, cut, spliced and resealed (parse_module, serialize_module,
\* parse_profile, serialize_profile).
THEOREM NothingHasTwoFiles ==
    ASSUME WordBytes = 8
    PROVE  DamageSpec => []ParseIsStrict
<1>1. FileIsBytes => ParseIsStrict
  <2> SUFFICES ASSUME FileIsBytes, IsValue(Parsed) PROVE Image(kind, Parsed.value) = file
    BY DEF ParseIsStrict
  <2>0. kind \in {"module", "profile"} /\ file \in Seq(Byte)
    BY DEF FileIsBytes
  <2>4. Value(file).value = file
    BY DEF Value
  <2>1. CASE kind = "module"
    <3>1. Parsed = parse_module(file)
      BY <2>1, Zenon DEF Parsed
    <3>2. serialize_module(Parsed.value) = Value(file)
      BY <2>0, <3>1, ModuleIsItsFile, Zenon
    <3> QED
      BY <2>1, <2>4, <3>2, Zenon DEF Image
  <2>2. CASE kind = "profile"
    <3>0. kind # "module"
      BY <2>2
    <3>1. Parsed = parse_profile(file)
      BY <3>0, Zenon DEF Parsed
    <3>2. serialize_profile(Parsed.value) = Value(file)
      BY <2>0, <3>1, ProfileIsItsFile, Zenon
    <3> QED
      BY <3>0, <2>4, <3>2, Zenon DEF Image
  <2> QED
    BY <2>0, <2>1, <2>2, Zenon
<1> QED
  BY <1>1, FileIsBytesInitially, FileStaysBytes, PTL DEF DamageSpec

-----------------------------------------------------------------------------
\* What a build writes into a file are bytes, and a reader that has all of them has what
\* the build compiled and the profile it used.
LEMMA ContentsAre ==
    ASSUME WordBytes = 8, NEW seed \in BuildSeeds
    PROVE  /\ \A f \in Files : Contents[seed][f] \in Seq(Byte) /\ Contents[seed][f] # None
           /\ Len(Contents[seed]["module"]) <= ModuleLimits.max_file_size
           /\ parse_module(Contents[seed]["module"]) = Value(CompiledModule(seed))
           /\ Len(Contents[seed]["profile"]) = kProfileSize
           /\ parse_profile(Contents[seed]["profile"]) = Value(from_seed(seed))
           /\ IsValue(Value(CompiledModule(seed))) /\ IsValue(Value(from_seed(seed)))
           /\ Match(Value(CompiledModule(seed)).value, Value(from_seed(seed)).value)
<1>1. PICK m, p : /\ m = serialize_module(CompiledModule(seed)).value
                  /\ p = serialize_profile(from_seed(seed)).value
  BY Zenon
<1>2. /\ IsModule(CompiledModule(seed)) /\ ModuleShapeValid(CompiledModule(seed))
      /\ seed \in Bytes(8) /\ FingerprintOf(seed) \in Bytes(8)
      /\ CompiledModule(seed).fingerprint = FingerprintOf(seed)
      /\ \A f \in Files : Contents[seed][f] # None
  BY ArtifactsAssumption, Zenon
<1>3. m \in Seq(Byte) /\ parse_module(m) = Value(CompiledModule(seed))
  BY <1>1, <1>2, ModuleRoundTrips, Zenon
<1>4. p \in Seq(Byte) /\ parse_profile(p) = Value(from_seed(seed))
  BY <1>1, <1>2, ProfileRoundTrips, Zenon
<1>5. \A v : IsValue(Value(v)) /\ Value(v).value = v
  BY DEF IsValue, Value
<1>6. HeaderKnown(m)
  <2>1. IsValue(parse_module(m))
    BY <1>3, <1>5, Zenon
  <2> QED
    BY <2>1, ModuleParsed, Zenon
<1>7. ProfileHeaderKnown(p)
  <2>1. IsValue(parse_profile(p))
    BY <1>4, <1>5, Zenon
  <2> QED
    BY <2>1, ProfileParsed, Zenon
<1>8. Len(m) <= ModuleLimits.max_file_size /\ Len(p) = kProfileSize
  BY <1>6, <1>7, Zenon DEF HeaderKnown, ProfileHeaderKnown
<1>9. Contents[seed] = [module |-> m, profile |-> p, sidecar |-> seed]
  BY <1>1, Zenon DEF Contents
<1>10. /\ Contents[seed]["module"] = m /\ Contents[seed]["profile"] = p
       /\ Contents[seed]["sidecar"] = seed
  BY <1>9
<1>11. seed \in Seq(Byte)
  BY <1>2, FieldOf
<1>12. \A f \in Files : Contents[seed][f] \in Seq(Byte)
  BY <1>3, <1>4, <1>10, <1>11, Zenon DEF Files
<1>13. Match(CompiledModule(seed), from_seed(seed))
  <2>1. from_seed(seed).fingerprint = FingerprintOf(seed)
    BY DEF from_seed
  <2> QED
    BY <1>2, <2>1, Zenon DEF Match
<1> QED
  BY <1>2, <1>3, <1>4, <1>5, <1>8, <1>10, <1>12, <1>13, Zenon

\* Some more of a file written behind what is there.
LEMMA MoreWritten ==
    ASSUME NEW content \in Seq(Byte), NEW count \in Nat, NEW upTo \in Nat,
           count <= upTo, upTo <= Len(content)
    PROVE  WrittenAt(FieldAt(content, 0, count), count, SubSeq(content, count + 1, upTo))
               = FieldAt(content, 0, upTo)
<1>1. PICK start \in Seq(Byte) : /\ start = FieldAt(content, 0, count) /\ Len(start) = count
                                 /\ \A n \in 1 .. count : start[n] = content[n]
  <2>1. 0 \in Nat /\ 0 + count <= Len(content)
    OBVIOUS
  <2>2. /\ FieldAt(content, 0, count) = [n \in 1 .. count |-> content[0 + n]]
        /\ FieldAt(content, 0, count) \in Seq(Byte)
        /\ Len(FieldAt(content, 0, count)) = count
    BY <2>1, FieldIs, Zenon
  <2>3. \A n \in 1 .. count : FieldAt(content, 0, count)[n] = content[n]
    BY <2>2
  <2> QED
    BY <2>2, <2>3, Zenon
<1>2. PICK more \in Seq(Byte) : /\ more = SubSeq(content, count + 1, upTo)
                                /\ Len(more) = upTo - count
                                /\ \A n \in 1 .. upTo - count : more[n] = content[count + n]
  <2>1. upTo - count \in Nat /\ count + (upTo - count) <= Len(content)
        /\ count + (upTo - count) = upTo
    OBVIOUS
  <2>2. SubSeq(content, count + 1, upTo) = FieldAt(content, count, upTo - count)
    BY <2>1, Zenon DEF FieldAt
  <2>3. /\ FieldAt(content, count, upTo - count) \in Seq(Byte)
        /\ Len(FieldAt(content, count, upTo - count)) = upTo - count
        /\ FieldAt(content, count, upTo - count)
               = [n \in 1 .. (upTo - count) |-> content[count + n]]
    BY <2>1, FieldIs, Zenon
  <2>4. \A n \in 1 .. upTo - count :
            FieldAt(content, count, upTo - count)[n] = content[count + n]
    BY <2>3
  <2> QED
    BY <2>2, <2>3, <2>4, Zenon
<1>3. PICK whole \in Seq(Byte) : /\ whole = FieldAt(content, 0, upTo) /\ Len(whole) = upTo
                                 /\ \A n \in 1 .. upTo : whole[n] = content[n]
  <2>1. 0 \in Nat /\ 0 + upTo <= Len(content)
    OBVIOUS
  <2>2. /\ FieldAt(content, 0, upTo) = [n \in 1 .. upTo |-> content[0 + n]]
        /\ FieldAt(content, 0, upTo) \in Seq(Byte)
        /\ Len(FieldAt(content, 0, upTo)) = upTo
    BY <2>1, FieldIs, Zenon
  <2>3. \A n \in 1 .. upTo : FieldAt(content, 0, upTo)[n] = content[n]
    BY <2>2
  <2> QED
    BY <2>2, <2>3, Zenon
<1>4. WrittenAt(start, count, more)
          = [n \in 1 .. upTo |-> IF n - count \in 1 .. (upTo - count) THEN more[n - count]
                                 ELSE IF n <= count THEN start[n] ELSE 0]
  <2>1. DOMAIN more = 1 .. (upTo - count) /\ count + Len(more) = upTo
    BY <1>2
  <2>2. (IF count + Len(more) > Len(start) THEN count + Len(more) ELSE Len(start)) = upTo
    BY <1>1, <2>1
  <2> QED
    BY <1>1, <2>1, <2>2, Zenon DEF WrittenAt
<1>5. ASSUME NEW n \in 1 .. upTo
      PROVE  (IF n - count \in 1 .. (upTo - count) THEN more[n - count]
              ELSE IF n <= count THEN start[n] ELSE 0) = content[n]
  <2>1. CASE n <= count
    <3>1. n - count \notin 1 .. (upTo - count) /\ n \in 1 .. count
      BY <2>1
    <3> QED
      BY <1>1, <2>1, <3>1, Zenon
  <2>2. CASE ~(n <= count)
    <3>1. n - count \in 1 .. (upTo - count) /\ count + (n - count) = n
      BY <2>2
    <3> QED
      BY <1>2, <3>1, Zenon
  <2> QED
    BY <2>1, <2>2
<1>6. WrittenAt(start, count, more) = [n \in 1 .. upTo |-> content[n]]
  BY <1>4, <1>5, Zenon
<1>7. whole = [n \in 1 .. upTo |-> content[n]]
  BY <1>3
<1> QED
  BY <1>1, <1>2, <1>3, <1>6, <1>7, Zenon

\* Some more of a file read behind what was read.
LEMMA MoreRead ==
    ASSUME NEW content \in Seq(Byte), NEW count \in Nat, NEW upTo \in Nat,
           count <= upTo, upTo <= Len(content)
    PROVE  /\ FieldAt(content, 0, count) \o SubSeq(content, count + 1, upTo)
                  = FieldAt(content, 0, upTo)
           /\ Len(FieldAt(content, 0, upTo)) = upTo
<1>1. count + (upTo - count) <= Len(content) /\ count + (upTo - count) = upTo
      /\ upTo - count \in Nat
  OBVIOUS
<1>2. SubSeq(content, count + 1, upTo) = FieldAt(content, count, upTo - count)
  BY <1>1, Zenon DEF FieldAt
<1>3. FieldAt(content, 0, count) \o FieldAt(content, count, upTo - count)
          = FieldAt(content, 0, count + (upTo - count))
  BY <1>1, PrefixGrows, Zenon
<1>4. Len(FieldAt(content, 0, upTo)) = upTo
  <2>1. PICK start \in Nat : start = 0 /\ start + upTo <= Len(content)
    OBVIOUS
  <2>2. Len(FieldAt(content, start, upTo)) = upTo
    BY <2>1, FieldIs, Zenon
  <2> QED
    BY <2>1, <2>2, Zenon
<1> QED
  BY <1>1, <1>2, <1>3, <1>4, Zenon

-----------------------------------------------------------------------------
(***************************************************************************)
(* A build that no other build disturbs, and the reader of what it left.   *)
(***************************************************************************)
BuilderRecords ==
    [status : {"idle", "running", "succeeded", "stopped"}, at : 1 .. 3, open : BOOLEAN,
     written : Nat, alone : BOOLEAN]

TypesHold ==
    /\ builders \in [Builders -> BuilderRecords]
    /\ disk = [f \in Files |-> disk[f]]
    /\ reader = [phase |-> reader.phase, bytes |-> reader.bytes, size |-> reader.size,
                 module |-> reader.module, profile |-> reader.profile, since |-> reader.since]

\* A build that has not begun is at its first file.
IdleAtFirst ==
    \A b \in Builders : builders[b].status = "idle" => builders[b].at = 1 /\ ~builders[b].open

\* How far a build of a seed has come: the files it is through with are whole, and the one
\* it has open is as far written as it says.
Progress(content, at, open, count, seed) ==
    /\ \A n \in 1 .. (at - 1) : content[Order[n]] = Contents[seed][Order[n]]
    /\ open => /\ count <= Len(Contents[seed][Order[at]])
               /\ content[Order[at]] = FieldAt(Contents[seed][Order[at]], 0, count)

\* A build that works alone is the only one, and its files are as it left them.
AloneProgresses ==
    \A b \in Builders : Running(b) /\ builders[b].alone =>
        /\ \A d \in Builders : Running(d) => d = b
        /\ Progress(disk, builders[b].at, builders[b].open, builders[b].written, SeedOf[b])

\* What a successful build left stands whole while nothing runs.
StandingIsWhole ==
    standing # None =>
        /\ standing \in BuildSeeds
        /\ \A b \in Builders : ~Running(b)
        /\ \A f \in Files : disk[f] = Contents[standing][f]

\* What a reader of one file of an undisturbed build has read of it.
ReadsOf(r, content) ==
    /\ r.size = Len(content)
    /\ \E count \in Nat :
           count <= Len(content) /\ Len(r.bytes) = count /\ r.bytes = FieldAt(content, 0, count)

\* What the reader of an undisturbed build has come to: never to a refusal.
Reads(r, seed) ==
    /\ r.phase \in {"idle", "module", "module bytes", "profile", "profile bytes", "use",
                    "accepted"}
    /\ r.phase = "module bytes" => ReadsOf(r, Contents[seed]["module"])
    /\ r.phase \in {"profile", "profile bytes", "use", "accepted"} =>
           r.module = Value(CompiledModule(seed))
    /\ r.phase = "profile bytes" => ReadsOf(r, Contents[seed]["profile"])
    /\ r.phase \in {"use", "accepted"} => r.profile = Value(from_seed(seed))

ReaderKeepsUp == reader.since # None => reader.since = standing /\ Reads(reader, standing)

\* The inductive invariant.
Undisturbed ==
    /\ TypesHold /\ IdleAtFirst
    /\ AloneProgresses /\ StandingIsWhole /\ ReaderKeepsUp

\* A step of one running build: what it must show.
LEMMA BuilderStep ==
    ASSUME Undisturbed, NEW b \in Builders, Running(b),
           NEW r \in BuilderRecords, builders' = [builders EXCEPT ![b] = r], r.status # "idle",
           disk' = [f \in Files |-> disk'[f]], reader' = reader,
           r.status = "running" /\ r.alone =>
               /\ builders[b].alone
               /\ Progress(disk', r.at, r.open, r.written, SeedOf[b]),
           standing' # None =>
               /\ builders[b].alone /\ r.status # "running" /\ standing' \in BuildSeeds
               /\ \A f \in Files : disk'[f] = Contents[standing'][f]
    PROVE  Undisturbed'
<1>1. TypesHold /\ IdleAtFirst /\ AloneProgresses /\ StandingIsWhole /\ ReaderKeepsUp
  BY Zenon DEF Undisturbed
<1>2. builders \in [Builders -> BuilderRecords]
  BY <1>1, Zenon DEF TypesHold
<1>3. /\ builders' \in [Builders -> BuilderRecords] /\ builders'[b] = r
      /\ \A d \in Builders : d # b => builders'[d] = builders[d]
  BY <1>2
<1>4. TypesHold'
  BY <1>1, <1>3, Zenon DEF TypesHold
<1>5. IdleAtFirst'
  <2>1. ASSUME NEW d \in Builders, builders'[d].status = "idle"
        PROVE  builders'[d].at = 1 /\ ~builders'[d].open
    <3>1. d # b
      BY <1>3, <2>1, Zenon
    <3> QED
      BY <1>1, <1>3, <2>1, <3>1, Zenon DEF IdleAtFirst
  <2> QED
    BY <2>1, Zenon DEF IdleAtFirst
<1>6. standing = None
  BY <1>1, Zenon DEF StandingIsWhole
<1>7. ASSUME builders[b].alone, NEW d \in Builders, builders[d].status = "running"
      PROVE  d = b
  BY <1>1, <1>7, Zenon DEF AloneProgresses, Running
<1>8. ASSUME NEW d \in Builders, builders'[d].status = "running", builders'[d].alone, d # b
      PROVE  FALSE
  <2>1. builders[d].status = "running" /\ builders[d].alone
    BY <1>3, <1>8, Zenon
  <2>2. b = d
    BY <1>1, <1>8, <2>1, Zenon DEF AloneProgresses, Running
  <2> QED
    BY <1>8, <2>2
<1>9. AloneProgresses'
  <2>1. ASSUME NEW d \in Builders, builders'[d].status = "running", builders'[d].alone
        PROVE  /\ \A e \in Builders : builders'[e].status = "running" => e = d
               /\ Progress(disk', builders'[d].at, builders'[d].open, builders'[d].written,
                           SeedOf[d])
    <3>1. d = b
      BY <1>8, <2>1, Zenon
    <3>2. r.status = "running" /\ r.alone
      BY <1>3, <2>1, <3>1, Zenon
    <3>3. builders[b].alone
      BY <3>2, Zenon
    <3>4. ASSUME NEW e \in Builders, builders'[e].status = "running", e # b
          PROVE  FALSE
      BY <1>3, <1>7, <3>3, <3>4, Zenon
    <3> QED
      BY <1>3, <3>1, <3>2, <3>4, Zenon
  <2> QED
    BY <2>1, Zenon DEF AloneProgresses, Running
<1>10. StandingIsWhole'
  <2>1. ASSUME standing' # None, NEW d \in Builders, builders'[d].status = "running"
        PROVE  FALSE
    <3>1. d # b
      BY <1>3, <2>1, Zenon
    <3> QED
      BY <1>3, <1>7, <2>1, <3>1, Zenon
  <2> QED
    BY <2>1, Zenon DEF StandingIsWhole, Running
<1>11. ReaderKeepsUp'
  <2>1. reader'.since = None
    BY <1>1, <1>6, Zenon DEF ReaderKeepsUp
  <2> QED
    BY <2>1, Zenon DEF ReaderKeepsUp
<1> QED
  BY <1>4, <1>5, <1>9, <1>10, <1>11, Zenon DEF Undisturbed

\* build-demo writes the three files, each once.
LEMMA OrderIs ==
    /\ \A n \in 1 .. 3 : Order[n] \in Files
    /\ \A n, m \in 1 .. 3 : Order[n] = Order[m] => n = m
    /\ \A f \in Files : \E n \in 1 .. 3 : f = Order[n]
    /\ Len(Order) = 3
<1>1. Order[1] = "module" /\ Order[2] = "profile" /\ Order[3] = "sidecar" /\ Len(Order) = 3
  BY DEF Order
<1>2. \A n \in 1 .. 3 : n = 1 \/ n = 2 \/ n = 3
  OBVIOUS
<1>3. 1 \in 1 .. 3 /\ 2 \in 1 .. 3 /\ 3 \in 1 .. 3
  OBVIOUS
<1>4. \A n \in 1 .. 3 : Order[n] \in Files
  BY <1>1, <1>2, Zenon DEF Files
<1>5. \A n, m \in 1 .. 3 : Order[n] = Order[m] => n = m
  BY <1>1, <1>2
<1>6. \A f \in Files : \E n \in 1 .. 3 : f = Order[n]
  BY <1>1, <1>3, Zenon DEF Files
<1> QED
  BY <1>1, <1>4, <1>5, <1>6, Zenon

\* A step on one file leaves the other two.
LEMMA DiskStep ==
    ASSUME disk = [f \in Files |-> disk[f]], NEW n \in 1 .. 3, NEW content,
           disk' = [disk EXCEPT ![Order[n]] = content]
    PROVE  /\ disk' = [f \in Files |-> disk'[f]]
           /\ disk'[Order[n]] = content
           /\ \A m \in 1 .. 3 : m # n => disk'[Order[m]] = disk[Order[m]]
<1>1. DOMAIN disk = Files
  OBVIOUS
<1>2. Order[n] \in Files
  BY OrderIs, Zenon
<1>3. disk' = [f \in Files |-> IF f = Order[n] THEN content ELSE disk[f]]
  BY <1>1
<1>4. \A m \in 1 .. 3 : m # n => Order[m] \in Files /\ Order[m] # Order[n]
  BY OrderIs, Zenon
<1>5. disk' = [f \in Files |-> disk'[f]]
  BY <1>3, Zenon
<1>6. disk'[Order[n]] = content
  BY <1>2, <1>3, Zenon
<1>7. \A m \in 1 .. 3 : m # n => disk'[Order[m]] = disk[Order[m]]
  BY <1>3, <1>4, Zenon
<1> QED
  BY <1>5, <1>6, <1>7, Zenon

\* What the invariant says of one build.
LEMMA BuilderIs ==
    ASSUME Undisturbed, NEW b \in Builders
    PROVE  /\ builders \in [Builders -> BuilderRecords]
           /\ disk = [f \in Files |-> disk[f]]
           /\ builders[b].status \in {"idle", "running", "succeeded", "stopped"}
           /\ builders[b].at \in 1 .. 3 /\ builders[b].open \in BOOLEAN
           /\ builders[b].written \in Nat /\ builders[b].alone \in BOOLEAN
           /\ SeedOf[b] \in BuildSeeds
<1>1. builders \in [Builders -> BuilderRecords] /\ disk = [f \in Files |-> disk[f]]
  BY Zenon DEF Undisturbed, TypesHold
<1>2. builders[b] \in BuilderRecords
  BY <1>1, Zenon
<1>3. SeedOf[b] \in BuildSeeds
  BY Zenon DEF BuildSeeds
<1>4. /\ builders[b].status \in {"idle", "running", "succeeded", "stopped"}
      /\ builders[b].at \in 1 .. 3 /\ builders[b].open \in BOOLEAN
      /\ builders[b].written \in Nat /\ builders[b].alone \in BOOLEAN
  BY <1>2 DEF BuilderRecords
<1> QED
  BY <1>1, <1>3, <1>4, Zenon

\* What a build that works alone has done to the files.
LEMMA AloneIs ==
    ASSUME Undisturbed, NEW b \in Builders, Running(b), builders[b].alone
    PROVE  Progress(disk, builders[b].at, builders[b].open, builders[b].written, SeedOf[b])
BY Zenon DEF Undisturbed, AloneProgresses

\* While a build runs, nothing stands.
LEMMA NothingStands ==
    ASSUME Undisturbed, NEW b \in Builders, Running(b)
    PROVE  standing = None
BY Zenon DEF Undisturbed, StandingIsWhole

\* Truncating a file: the build has written nothing of it.
LEMMA StepOpenOutput ==
    ASSUME WordBytes = 8, Undisturbed, NEW b \in Builders, OpenOutput(b)
    PROVE  Undisturbed'
<1>1. /\ Running(b) /\ builders[b].status = "running"
      /\ disk' = [disk EXCEPT ![Order[builders[b].at]] = << >>]
      /\ builders' = [builders EXCEPT ![b].open = TRUE, ![b].written = 0]
      /\ reader' = reader /\ standing' = standing
  BY Zenon DEF OpenOutput, Running, CurrentFile, Opened
<1>2. /\ builders \in [Builders -> BuilderRecords]
      /\ disk = [f \in Files |-> disk[f]]
      /\ builders[b].at \in 1 .. 3 /\ builders[b].alone \in BOOLEAN /\ SeedOf[b] \in BuildSeeds
  BY BuilderIs, Zenon
<1>3. PICK r : r = [[builders[b] EXCEPT !.open = TRUE] EXCEPT !.written = 0]
  OBVIOUS
<1>4. builders' = [builders EXCEPT ![b] = r]
  <2>3. PICK middle : middle = [builders EXCEPT ![b].open = TRUE]
    OBVIOUS
  <2>4. builders' = [middle EXCEPT ![b].written = 0]
    BY <1>1, <2>3
  <2>5. middle = [d \in Builders |-> IF d = b THEN [builders[b] EXCEPT !.open = TRUE]
                                    ELSE builders[d]]
    BY <1>2, <2>3
  <2>6. builders' = [d \in Builders |-> IF d = b THEN [middle[b] EXCEPT !.written = 0]
                                       ELSE middle[d]]
    BY <2>4, <2>5
  <2>7. [middle[b] EXCEPT !.written = 0] = r
    BY <1>3, <2>5, Zenon
  <2>8. builders' = [d \in Builders |-> IF d = b THEN r ELSE builders[d]]
    BY <2>5, <2>6, <2>7
  <2> QED
    BY <1>2, <2>8
<1>5. r \in BuilderRecords /\ r.status = "running" /\ r.at = builders[b].at
      /\ r.written = 0 /\ r.alone = builders[b].alone
  <2>1. builders[b] \in BuilderRecords
    BY <1>2, Zenon
  <2> QED
    BY <1>1, <1>3, <2>1 DEF BuilderRecords
<1>6. /\ disk' = [f \in Files |-> disk'[f]]
      /\ disk'[Order[builders[b].at]] = << >>
      /\ \A m \in 1 .. 3 : m # builders[b].at => disk'[Order[m]] = disk[Order[m]]
  BY <1>1, <1>2, DiskStep, Zenon
<1>7. ASSUME builders[b].alone
      PROVE  Progress(disk', r.at, r.open, r.written, SeedOf[b])
  <2>1. \A n \in 1 .. (builders[b].at - 1) :
            disk[Order[n]] = Contents[SeedOf[b]][Order[n]]
    BY <1>1, <1>7, AloneIs, Zenon DEF Progress
  <2>2. \A n \in 1 .. (builders[b].at - 1) : n \in 1 .. 3 /\ n # builders[b].at
    BY <1>2
  <2>3. \A n \in 1 .. (builders[b].at - 1) :
            disk'[Order[n]] = Contents[SeedOf[b]][Order[n]]
    BY <1>6, <2>1, <2>2, Zenon
  <2>4. PICK content : content = Contents[SeedOf[b]][Order[builders[b].at]]
                       /\ content \in Seq(Byte)
    BY <1>2, OrderIs, ContentsAre, Zenon
  <2>5. 0 <= Len(content) /\ FieldAt(content, 0, 0) = << >>
    BY <2>4 DEF FieldAt
  <2> QED
    BY <1>5, <1>6, <2>3, <2>4, <2>5, Zenon DEF Progress
<1>8. standing' = None
  BY <1>1, NothingStands, Zenon
<1>9. r.status # "idle"
  BY <1>5
<1> QED
  BY <1>1, <1>4, <1>5, <1>6, <1>7, <1>8, <1>9, BuilderStep, Zenon

\* A build that dies or fails is alone no longer, and leaves nothing standing.
LEMMA StepStopBuild ==
    ASSUME Undisturbed, NEW b \in Builders, StopBuild(b)
    PROVE  Undisturbed'
<1>1. /\ Running(b) /\ builders' = [builders EXCEPT ![b] = [@ EXCEPT !.status = "stopped",
                                                                   !.open = FALSE]]
      /\ disk' = disk /\ reader' = reader /\ standing' = standing
  BY Zenon DEF StopBuild
<1>2. /\ builders \in [Builders -> BuilderRecords]
      /\ disk = [f \in Files |-> disk[f]]
  BY BuilderIs, Zenon
<1>3. PICK r : r = [builders[b] EXCEPT !.status = "stopped", !.open = FALSE]
  OBVIOUS
<1>4. builders' = [builders EXCEPT ![b] = r]
  BY <1>1, <1>2, <1>3
<1>5. r \in BuilderRecords /\ r.status = "stopped"
  <2>1. builders[b] \in BuilderRecords
    BY <1>2, Zenon
  <2> QED
    BY <1>3, <2>1 DEF BuilderRecords
<1>6. standing' = None
  BY <1>1, NothingStands, Zenon
<1>7. r.status # "idle" /\ r.status # "running"
  BY <1>5
<1> QED
  BY <1>1, <1>2, <1>4, <1>5, <1>6, <1>7, BuilderStep, Zenon

\* The rest or a part of a file written by a build that works alone.
LEMMA AloneWrites ==
    ASSUME WordBytes = 8, Undisturbed, NEW b \in Builders, Running(b), builders[b].open,
           builders[b].alone, NEW upTo \in Nat,
           NEW content, content = Contents[SeedOf[b]][Order[builders[b].at]],
           builders[b].written <= upTo, upTo <= Len(content),
           NEW now, now = WrittenAt(disk[Order[builders[b].at]], builders[b].written,
                                    SubSeq(content, builders[b].written + 1, upTo))
    PROVE  now = FieldAt(content, 0, upTo)
<1>1. PICK count \in Nat : count = builders[b].written
  BY BuilderIs, Zenon
<1>2. content \in Seq(Byte)
  <2>1. builders[b].at \in 1 .. 3 /\ SeedOf[b] \in BuildSeeds
    BY BuilderIs, Zenon
  <2> QED
    BY <2>1, OrderIs, ContentsAre, Zenon
<1>3. disk[Order[builders[b].at]] = FieldAt(content, 0, count)
  BY <1>1, AloneIs, Zenon DEF Progress
<1>4. now = WrittenAt(FieldAt(content, 0, count), count, SubSeq(content, count + 1, upTo))
  BY <1>1, <1>3, Zenon
<1>5. count <= upTo
  BY <1>1, Zenon
<1>6. WrittenAt(FieldAt(content, 0, count), count, SubSeq(content, count + 1, upTo))
          = FieldAt(content, 0, upTo)
  BY <1>2, <1>5, MoreWritten
<1> QED
  BY <1>4, <1>6, Zenon

\* Part of a file is written.
LEMMA StepWritePart ==
    ASSUME WordBytes = 8, Undisturbed, NEW b \in Builders, WritePart(b)
    PROVE  Undisturbed'
<1>1. PICK content : content = Contents[SeedOf[b]][Order[builders[b].at]]
  OBVIOUS
<1>2. PICK upTo \in Cuts :
          /\ Running(b) /\ builders[b].status = "running" /\ builders[b].open
          /\ upTo > builders[b].written /\ upTo < Len(content)
          /\ disk' = [disk EXCEPT ![Order[builders[b].at]] =
                          WrittenAt(@, builders[b].written,
                                    SubSeq(content, builders[b].written + 1, upTo))]
          /\ builders' = [builders EXCEPT ![b].written = upTo]
          /\ reader' = reader /\ standing' = standing
  BY <1>1, Zenon DEF WritePart, WriteOutput, Running, CurrentFile
<1>3. /\ builders \in [Builders -> BuilderRecords]
      /\ disk = [f \in Files |-> disk[f]] /\ builders[b].written \in Nat
      /\ builders[b].at \in 1 .. 3 /\ builders[b].alone \in BOOLEAN /\ SeedOf[b] \in BuildSeeds
  BY BuilderIs, Zenon
<1>4. upTo \in Nat
  BY ArtifactsAssumption, Zenon
<1>5. PICK now : now = WrittenAt(disk[Order[builders[b].at]], builders[b].written,
                                 SubSeq(content, builders[b].written + 1, upTo))
  OBVIOUS
<1>6. disk' = [disk EXCEPT ![Order[builders[b].at]] = now]
  <2>1. Order[builders[b].at] \in DOMAIN disk
    <3>1. Order[builders[b].at] \in Files
      BY <1>3, OrderIs, Zenon
    <3> QED
      BY <1>3, <3>1
  <2> QED
    BY <1>2, <1>5, <2>1, Zenon
<1>7. /\ disk' = [f \in Files |-> disk'[f]]
      /\ disk'[Order[builders[b].at]] = now
      /\ \A m \in 1 .. 3 : m # builders[b].at => disk'[Order[m]] = disk[Order[m]]
  BY <1>3, <1>6, DiskStep, Zenon
<1>8. PICK r : r = [builders[b] EXCEPT !.written = upTo]
  OBVIOUS
<1>9. builders' = [builders EXCEPT ![b] = r]
  BY <1>2, <1>3, <1>8
<1>10. /\ r \in BuilderRecords /\ r.status = "running" /\ r.at = builders[b].at
       /\ r.written = upTo /\ r.alone = builders[b].alone
  <2>1. builders[b] \in BuilderRecords
    BY <1>3, Zenon
  <2> QED
    BY <1>2, <1>4, <1>8, <2>1 DEF BuilderRecords
<1>11. ASSUME builders[b].alone
       PROVE  Progress(disk', r.at, r.open, r.written, SeedOf[b])
  <2>1. \A n \in 1 .. (builders[b].at - 1) :
            disk[Order[n]] = Contents[SeedOf[b]][Order[n]]
    BY <1>2, <1>11, AloneIs, Zenon DEF Progress
  <2>2. \A n \in 1 .. (builders[b].at - 1) : n \in 1 .. 3 /\ n # builders[b].at
    BY <1>3
  <2>3. \A n \in 1 .. (builders[b].at - 1) :
            disk'[Order[n]] = Contents[SeedOf[b]][Order[n]]
    BY <1>7, <2>1, <2>2, Zenon
  <2>4. content \in Seq(Byte)
    BY <1>1, <1>3, OrderIs, ContentsAre, Zenon
  <2>5. builders[b].written <= upTo /\ upTo <= Len(content)
    BY <1>2, <1>3, <1>4, <2>4
  <2>6. now = FieldAt(content, 0, upTo)
    BY <1>1, <1>2, <1>4, <1>5, <1>11, <2>5, AloneWrites, Zenon
  <2> QED
    BY <1>1, <1>7, <1>10, <2>3, <2>5, <2>6, Zenon DEF Progress
<1>12. standing' = None
  BY <1>2, NothingStands, Zenon
<1>13. r.status # "idle"
  BY <1>10
<1> QED
  BY <1>2, <1>7, <1>9, <1>10, <1>11, <1>12, <1>13, BuilderStep, Zenon

\* A file is done: the build goes on to the next, or it has left all three whole.
LEMMA StepWriteRest ==
    ASSUME WordBytes = 8, Undisturbed, NEW b \in Builders, WriteRest(b)
    PROVE  Undisturbed'
<1>1. PICK content : content = Contents[SeedOf[b]][Order[builders[b].at]]
  OBVIOUS
<1>2. /\ Running(b) /\ builders[b].status = "running" /\ builders[b].open
      /\ disk' = [disk EXCEPT ![Order[builders[b].at]] =
                      WrittenAt(@, builders[b].written,
                                SubSeq(content, builders[b].written + 1, Len(content)))]
      /\ reader' = reader
      /\ IF builders[b].at < Len(Order)
         THEN /\ builders' = [builders EXCEPT ![b].at = @ + 1, ![b].open = FALSE]
              /\ standing' = standing
         ELSE /\ builders' = [builders EXCEPT ![b].status = "succeeded", ![b].open = FALSE]
              /\ standing' = IF builders[b].alone THEN SeedOf[b] ELSE None
  BY <1>1, Zenon DEF WriteRest, WriteOutput, Running, CurrentFile
<1>3. /\ builders \in [Builders -> BuilderRecords]
      /\ disk = [f \in Files |-> disk[f]] /\ builders[b].written \in Nat
      /\ builders[b].at \in 1 .. 3 /\ builders[b].alone \in BOOLEAN /\ SeedOf[b] \in BuildSeeds
  BY BuilderIs, Zenon
<1>4. content \in Seq(Byte)
  BY <1>1, <1>3, OrderIs, ContentsAre, Zenon
<1>5. PICK now : now = WrittenAt(disk[Order[builders[b].at]], builders[b].written,
                                 SubSeq(content, builders[b].written + 1, Len(content)))
  OBVIOUS
<1>6. disk' = [disk EXCEPT ![Order[builders[b].at]] = now]
  <2>1. Order[builders[b].at] \in DOMAIN disk
    <3>1. Order[builders[b].at] \in Files
      BY <1>3, OrderIs, Zenon
    <3> QED
      BY <1>3, <3>1
  <2> QED
    BY <1>2, <1>5, <2>1, Zenon
<1>7. /\ disk' = [f \in Files |-> disk'[f]]
      /\ disk'[Order[builders[b].at]] = now
      /\ \A m \in 1 .. 3 : m # builders[b].at => disk'[Order[m]] = disk[Order[m]]
  BY <1>3, <1>6, DiskStep, Zenon
<1>8. ASSUME builders[b].alone, NEW n \in 1 .. 3, n <= builders[b].at
      PROVE  disk'[Order[n]] = Contents[SeedOf[b]][Order[n]]
  <2>1. CASE n = builders[b].at
    <3>1. PICK count \in Nat : count = builders[b].written
      BY <1>3, Zenon
    <3>2. count <= Len(content)
      BY <1>1, <1>2, <1>8, <3>1, AloneIs, Zenon DEF Progress
    <3>3. Len(content) \in Nat /\ Len(content) <= Len(content)
      BY <1>4
    <3>4. now = FieldAt(content, 0, Len(content))
      BY <1>1, <1>2, <1>5, <1>8, <3>1, <3>2, <3>3, AloneWrites, ZenonT(40)
    <3>5. FieldAt(content, 0, Len(content)) = content
      BY <1>4, WholeField, Zenon
    <3> QED
      BY <1>1, <1>7, <2>1, <3>4, <3>5, Zenon
  <2>2. CASE n # builders[b].at
    <3>1. n \in 1 .. (builders[b].at - 1)
      BY <1>3, <1>8, <2>2
    <3>2. disk[Order[n]] = Contents[SeedOf[b]][Order[n]]
      BY <1>2, <1>8, <3>1, AloneIs, Zenon DEF Progress
    <3> QED
      BY <1>7, <2>2, <3>2, Zenon
  <2> QED
    BY <2>1, <2>2
<1>9. CASE builders[b].at < Len(Order)
  <2>1. PICK at : at = builders[b].at /\ at \in 1 .. 2
    BY <1>3, <1>9, OrderIs
  <2>2. builders' = [builders EXCEPT ![b].at = @ + 1, ![b].open = FALSE]
        /\ standing' = standing
    BY <1>2, <1>9, Zenon
  <2>3. PICK r : r = [[builders[b] EXCEPT !.at = @ + 1] EXCEPT !.open = FALSE]
    OBVIOUS
  <2>4. builders' = [builders EXCEPT ![b] = r]
    <3>1. PICK middle : middle = [builders EXCEPT ![b].at = @ + 1]
      OBVIOUS
    <3>2. builders' = [middle EXCEPT ![b].open = FALSE]
      BY <2>2, <3>1
    <3>3. middle = [d \in Builders |-> IF d = b THEN [builders[b] EXCEPT !.at = @ + 1]
                                      ELSE builders[d]]
      BY <1>3, <3>1
    <3>4. builders' = [d \in Builders |-> IF d = b THEN [middle[b] EXCEPT !.open = FALSE]
                                         ELSE middle[d]]
      BY <3>2, <3>3
    <3>5. [middle[b] EXCEPT !.open = FALSE] = r
      BY <2>3, <3>3, Zenon
    <3>6. builders' = [d \in Builders |-> IF d = b THEN r ELSE builders[d]]
      BY <3>3, <3>4, <3>5
    <3> QED
      BY <1>3, <3>6
  <2>5. /\ r \in BuilderRecords /\ r.status = "running" /\ r.at = at + 1
        /\ r.open = FALSE /\ r.alone = builders[b].alone
    <3>1. builders[b] \in BuilderRecords
      BY <1>3, Zenon
    <3>2. at + 1 \in 1 .. 3
      BY <2>1
    <3> QED
      BY <1>2, <2>1, <2>3, <3>1, <3>2 DEF BuilderRecords
  <2>6. ASSUME builders[b].alone
        PROVE  Progress(disk', r.at, r.open, r.written, SeedOf[b])
    <3>1. \A n \in 1 .. ((at + 1) - 1) : n \in 1 .. 3 /\ n <= builders[b].at
      BY <2>1
    <3>2. \A n \in 1 .. ((at + 1) - 1) : disk'[Order[n]] = Contents[SeedOf[b]][Order[n]]
      BY <1>8, <2>6, <3>1, Zenon
    <3> QED
      BY <2>5, <3>2, Zenon DEF Progress
  <2>7. standing' = None
    BY <1>2, <2>2, NothingStands, Zenon
  <2>8. r.status # "idle"
    BY <2>5
  <2> QED
    BY <1>2, <1>7, <2>4, <2>5, <2>6, <2>7, <2>8, BuilderStep, Zenon
<1>10. CASE ~(builders[b].at < Len(Order))
  <2>1. builders[b].at = 3
    BY <1>3, <1>10, OrderIs
  <2>2. /\ builders' = [builders EXCEPT ![b].status = "succeeded", ![b].open = FALSE]
        /\ standing' = IF builders[b].alone THEN SeedOf[b] ELSE None
    BY <1>2, <1>10, Zenon
  <2>3. PICK r : r = [[builders[b] EXCEPT !.status = "succeeded"] EXCEPT !.open = FALSE]
    OBVIOUS
  <2>4. builders' = [builders EXCEPT ![b] = r]
    <3>1. PICK middle : middle = [builders EXCEPT ![b].status = "succeeded"]
      OBVIOUS
    <3>2. builders' = [middle EXCEPT ![b].open = FALSE]
      BY <2>2, <3>1
    <3>3. middle = [d \in Builders |->
                       IF d = b THEN [builders[b] EXCEPT !.status = "succeeded"]
                       ELSE builders[d]]
      BY <1>3, <3>1
    <3>4. builders' = [d \in Builders |-> IF d = b THEN [middle[b] EXCEPT !.open = FALSE]
                                         ELSE middle[d]]
      BY <3>2, <3>3
    <3>5. [middle[b] EXCEPT !.open = FALSE] = r
      BY <2>3, <3>3, Zenon
    <3>6. builders' = [d \in Builders |-> IF d = b THEN r ELSE builders[d]]
      BY <3>3, <3>4, <3>5
    <3> QED
      BY <1>3, <3>6
  <2>5. r \in BuilderRecords /\ r.status = "succeeded"
    <3>1. builders[b] \in BuilderRecords
      BY <1>3, Zenon
    <3> QED
      BY <2>3, <3>1 DEF BuilderRecords
  <2>6. ASSUME standing' # None
        PROVE  /\ builders[b].alone /\ standing' \in BuildSeeds
               /\ \A f \in Files : disk'[f] = Contents[standing'][f]
    <3>1. builders[b].alone /\ standing' = SeedOf[b]
      BY <2>2, <2>6, Zenon
    <3>2. \A n \in 1 .. 3 : n <= builders[b].at
      BY <2>1
    <3>3. \A n \in 1 .. 3 : disk'[Order[n]] = Contents[SeedOf[b]][Order[n]]
      BY <1>8, <3>1, <3>2, Zenon
    <3>4. \A f \in Files : disk'[f] = Contents[SeedOf[b]][f]
      <4>1. ASSUME NEW f \in Files
            PROVE  disk'[f] = Contents[SeedOf[b]][f]
        <5>1. PICK n \in 1 .. 3 : f = Order[n]
          BY OrderIs, Zenon
        <5> QED
          BY <3>3, <5>1, Zenon
      <4> QED
        BY <4>1, Zenon
    <3> QED
      BY <1>3, <3>1, <3>4, Zenon
  <2>7. r.status # "idle" /\ r.status # "running"
    BY <2>5
  <2> QED
    BY <1>2, <1>7, <2>4, <2>5, <2>6, <2>7, BuilderStep, Zenon
<1> QED
  BY <1>9, <1>10, Zenon

\* A build that starts is alone only if none runs, and disturbs all the others.
LEMMA StepStartBuild ==
    ASSUME Undisturbed, NEW b \in Builders, StartBuild(b)
    PROVE  Undisturbed'
<1>1. /\ builders[b].status = "idle"
      /\ builders' = [c \in Builders |->
                         IF c = b
                         THEN [builders[b] EXCEPT !.status = "running",
                                   !.alone = \A d \in Builders : ~Running(d)]
                         ELSE [builders[c] EXCEPT !.alone = FALSE]]
      /\ standing' = None
      /\ reader' = [reader EXCEPT !.since = None]
      /\ disk' = disk
  BY Zenon DEF StartBuild
<1>2. /\ builders \in [Builders -> BuilderRecords]
      /\ disk = [f \in Files |-> disk[f]]
  BY BuilderIs, Zenon
<1>3. PICK single \in BOOLEAN : single = (\A d \in Builders : ~Running(d))
  OBVIOUS
<1>4. PICK r : r = [[builders[b] EXCEPT !.status = "running"] EXCEPT !.alone = single]
  OBVIOUS
<1>5. /\ r \in BuilderRecords /\ r.status = "running" /\ r.alone = single
      /\ r.at = builders[b].at /\ r.open = builders[b].open
  <2>1. builders[b] \in BuilderRecords
    BY <1>2, Zenon
  <2> QED
    BY <1>3, <1>4, <2>1 DEF BuilderRecords
<1>6. builders'[b] = r
  <2>1. builders'[b] = [builders[b] EXCEPT !.status = "running",
                            !.alone = \A d \in Builders : ~Running(d)]
    BY <1>1, Zenon
  <2> QED
    BY <1>3, <1>4, <2>1
<1>7. ASSUME NEW c \in Builders, c # b
      PROVE  /\ builders'[c] \in BuilderRecords /\ builders'[c].alone = FALSE
             /\ builders'[c].status = builders[c].status
             /\ builders'[c].at = builders[c].at /\ builders'[c].open = builders[c].open
  <2>1. builders'[c] = [builders[c] EXCEPT !.alone = FALSE]
    BY <1>1, <1>7, Zenon
  <2>2. builders[c] \in BuilderRecords
    BY <1>2, Zenon
  <2> QED
    BY <2>1, <2>2 DEF BuilderRecords
<1>8. TypesHold'
  <2>1. \A c \in Builders : builders'[c] \in BuilderRecords
    BY <1>5, <1>6, <1>7, Zenon
  <2>2. builders' \in [Builders -> BuilderRecords]
    <3>1. PICK next : next = builders'
      OBVIOUS
    <3>2. next = [c \in Builders |-> next[c]]
      BY <1>1, <3>1
    <3> QED
      BY <2>1, <3>1, <3>2
  <2>3. reader' = [phase |-> reader'.phase, bytes |-> reader'.bytes, size |-> reader'.size,
                   module |-> reader'.module, profile |-> reader'.profile,
                   since |-> reader'.since]
    <3>1. reader = [phase |-> reader.phase, bytes |-> reader.bytes, size |-> reader.size,
                    module |-> reader.module, profile |-> reader.profile,
                    since |-> reader.since]
      BY Zenon DEF Undisturbed, TypesHold
    <3> QED
      BY <1>1, <3>1
  <2> QED
    BY <1>1, <1>2, <2>2, <2>3, Zenon DEF TypesHold
<1>9. builders[b].at = 1 /\ ~builders[b].open
  BY <1>1, Zenon DEF Undisturbed, IdleAtFirst
<1>10. IdleAtFirst'
  <2>1. ASSUME NEW c \in Builders, builders'[c].status = "idle"
        PROVE  builders'[c].at = 1 /\ ~builders'[c].open
    <3>1. c # b
      BY <1>5, <1>6, <2>1
    <3>2. builders[c].status = "idle"
      BY <1>7, <2>1, <3>1, Zenon
    <3>3. builders[c].at = 1 /\ ~builders[c].open
      BY <3>2, Zenon DEF Undisturbed, IdleAtFirst
    <3> QED
      BY <1>7, <3>1, <3>3, Zenon
  <2> QED
    BY <2>1, Zenon DEF IdleAtFirst
<1>11. AloneProgresses'
  <2>1. ASSUME NEW c \in Builders, builders'[c].status = "running", builders'[c].alone
        PROVE  /\ \A e \in Builders : builders'[e].status = "running" => e = c
               /\ Progress(disk', builders'[c].at, builders'[c].open, builders'[c].written,
                           SeedOf[c])
    <3>1. c = b
      BY <1>7, <2>1, Zenon
    <3>2. \A e \in Builders : ~Running(e)
      BY <1>3, <1>5, <1>6, <2>1, <3>1, Zenon
    <3>3. \A e \in Builders : builders'[e].status = "running" => e = b
      BY <1>7, <3>2, Zenon DEF Running
    <3>4. builders'[c].at = 1 /\ ~builders'[c].open
      BY <1>5, <1>6, <1>9, <3>1, Zenon
    <3>5. \A n \in 1 .. (1 - 1) : FALSE
      OBVIOUS
    <3>6. Progress(disk', builders'[c].at, builders'[c].open, builders'[c].written, SeedOf[c])
      BY <3>4, <3>5, Zenon DEF Progress
    <3> QED
      BY <3>1, <3>3, <3>6, Zenon
  <2> QED
    BY <2>1, Zenon DEF AloneProgresses, Running
<1>12. StandingIsWhole'
  BY <1>1, Zenon DEF StandingIsWhole
<1>13. ReaderKeepsUp'
  <2>1. reader'.since = None
    <3>1. reader = [phase |-> reader.phase, bytes |-> reader.bytes, size |-> reader.size,
                    module |-> reader.module, profile |-> reader.profile,
                    since |-> reader.since]
      BY Zenon DEF Undisturbed, TypesHold
    <3> QED
      BY <1>1, <3>1
  <2> QED
    BY <2>1, Zenon DEF ReaderKeepsUp
<1> QED
  BY <1>8, <1>10, <1>11, <1>12, <1>13, Zenon DEF Undisturbed

-----------------------------------------------------------------------------
\* The reader's record, and one of its members changed.
IsReader(r) ==
    r = [phase |-> r.phase, bytes |-> r.bytes, size |-> r.size, module |-> r.module,
         profile |-> r.profile, since |-> r.since]

WithPhase(r, value) == [r EXCEPT !.phase = value]
WithBytes(r, value) == [r EXCEPT !.bytes = value]
WithSize(r, value) == [r EXCEPT !.size = value]
WithModule(r, value) == [r EXCEPT !.module = value]
WithProfile(r, value) == [r EXCEPT !.profile = value]
WithSince(r, value) == [r EXCEPT !.since = value]

\* Only this member changes.
LEMMA PhaseChanged ==
    ASSUME NEW r, IsReader(r), NEW value
    PROVE  /\ IsReader(WithPhase(r, value)) /\ WithPhase(r, value).phase = value
           /\ WithPhase(r, value).bytes = r.bytes /\ WithPhase(r, value).size = r.size
           /\ WithPhase(r, value).module = r.module /\ WithPhase(r, value).profile = r.profile
           /\ WithPhase(r, value).since = r.since
BY DEF IsReader, WithPhase

\* Only this member changes.
LEMMA BytesChanged ==
    ASSUME NEW r, IsReader(r), NEW value
    PROVE  /\ IsReader(WithBytes(r, value)) /\ WithBytes(r, value).bytes = value
           /\ WithBytes(r, value).phase = r.phase /\ WithBytes(r, value).size = r.size
           /\ WithBytes(r, value).module = r.module /\ WithBytes(r, value).profile = r.profile
           /\ WithBytes(r, value).since = r.since
BY DEF IsReader, WithBytes

\* Only this member changes.
LEMMA SizeChanged ==
    ASSUME NEW r, IsReader(r), NEW value
    PROVE  /\ IsReader(WithSize(r, value)) /\ WithSize(r, value).size = value
           /\ WithSize(r, value).phase = r.phase /\ WithSize(r, value).bytes = r.bytes
           /\ WithSize(r, value).module = r.module /\ WithSize(r, value).profile = r.profile
           /\ WithSize(r, value).since = r.since
BY DEF IsReader, WithSize

\* Only this member changes.
LEMMA ModuleChanged ==
    ASSUME NEW r, IsReader(r), NEW value
    PROVE  /\ IsReader(WithModule(r, value)) /\ WithModule(r, value).module = value
           /\ WithModule(r, value).phase = r.phase /\ WithModule(r, value).bytes = r.bytes
           /\ WithModule(r, value).size = r.size /\ WithModule(r, value).profile = r.profile
           /\ WithModule(r, value).since = r.since
BY DEF IsReader, WithModule

\* Only this member changes.
LEMMA ProfileChanged ==
    ASSUME NEW r, IsReader(r), NEW value
    PROVE  /\ IsReader(WithProfile(r, value)) /\ WithProfile(r, value).profile = value
           /\ WithProfile(r, value).phase = r.phase /\ WithProfile(r, value).bytes = r.bytes
           /\ WithProfile(r, value).size = r.size /\ WithProfile(r, value).module = r.module
           /\ WithProfile(r, value).since = r.since
BY DEF IsReader, WithProfile

\* Only this member changes.
LEMMA SinceChanged ==
    ASSUME NEW r, IsReader(r), NEW value
    PROVE  /\ IsReader(WithSince(r, value)) /\ WithSince(r, value).since = value
           /\ WithSince(r, value).phase = r.phase /\ WithSince(r, value).bytes = r.bytes
           /\ WithSince(r, value).size = r.size /\ WithSince(r, value).module = r.module
           /\ WithSince(r, value).profile = r.profile
BY DEF IsReader, WithSince

\* A step of the reader alone: what it must show.
LEMMA ReaderStep ==
    ASSUME Undisturbed, disk' = disk, builders' = builders, standing' = standing,
           IsReader(reader'),
           reader'.since # None => reader'.since = standing /\ Reads(reader', standing)
    PROVE  Undisturbed'
<1>1. TypesHold /\ IdleAtFirst /\ AloneProgresses /\ StandingIsWhole
  BY Zenon DEF Undisturbed
<1>2. TypesHold'
  <2>1. /\ builders \in [Builders -> BuilderRecords]
        /\ disk = [f \in Files |-> disk[f]]
    BY <1>1, Zenon DEF TypesHold
  <2>2. reader' = [phase |-> reader'.phase, bytes |-> reader'.bytes, size |-> reader'.size,
                   module |-> reader'.module, profile |-> reader'.profile,
                   since |-> reader'.since]
    BY Zenon DEF IsReader
  <2> QED
    BY <2>1, <2>2, Zenon DEF TypesHold
<1>3. IdleAtFirst'
  BY <1>1, Zenon DEF IdleAtFirst
<1>4. AloneProgresses'
  BY <1>1, Zenon DEF AloneProgresses, Running
<1>5. StandingIsWhole'
  BY <1>1, Zenon DEF StandingIsWhole, Running
<1>6. ReaderKeepsUp'
  BY Zenon DEF ReaderKeepsUp
<1> QED
  BY <1>2, <1>3, <1>4, <1>5, <1>6, Zenon DEF Undisturbed

\* What the invariant says of the reader, and of the files when something stands.
LEMMA ReaderIs ==
    ASSUME WordBytes = 8, Undisturbed
    PROVE  /\ IsReader(reader)
           /\ reader.since # None =>
                  /\ reader.since = standing /\ Reads(reader, standing)
                  /\ standing \in BuildSeeds
                  /\ disk["module"] = Contents[standing]["module"]
                  /\ disk["profile"] = Contents[standing]["profile"]
<1>1. TypesHold /\ StandingIsWhole /\ ReaderKeepsUp
  BY Zenon DEF Undisturbed
<1>2. IsReader(reader)
  BY <1>1, Zenon DEF TypesHold, IsReader
<1>3. "module" \in Files /\ "profile" \in Files
  BY Zenon DEF Files
<1>4. ASSUME reader.since # None
      PROVE  /\ reader.since = standing /\ Reads(reader, standing)
             /\ standing \in BuildSeeds
             /\ disk["module"] = Contents[standing]["module"]
             /\ disk["profile"] = Contents[standing]["profile"]
  <2>1. reader.since = standing /\ Reads(reader, standing)
    BY <1>1, <1>4, Zenon DEF ReaderKeepsUp
  <2>2. standing # None
    BY <1>4, <2>1, Zenon
  <2> QED
    BY <1>1, <1>3, <2>1, <2>2, Zenon DEF StandingIsWhole
<1> QED
  BY <1>2, <1>4, Zenon

\* The reader begins with what stands.
LEMMA StepStartLoading ==
    ASSUME WordBytes = 8, Undisturbed, StartLoading
    PROVE  Undisturbed'
<1>1. /\ reader' = [reader EXCEPT !.phase = "module", !.since = standing]
      /\ disk' = disk /\ builders' = builders /\ standing' = standing
  BY Zenon DEF StartLoading
<1>2. IsReader(reader)
  BY ReaderIs, Zenon
<1>3. PICK r : r = WithPhase(reader, "module")
  OBVIOUS
<1>4. reader' = WithSince(r, standing)
  BY <1>1, <1>3 DEF WithPhase, WithSince
<1>5. IsReader(r) /\ r.phase = "module"
  BY <1>2, <1>3, PhaseChanged
<1>6. PICK next : next = reader'
  OBVIOUS
<1>7. IsReader(next) /\ next.phase = "module" /\ next.since = standing
  BY <1>4, <1>5, <1>6, SinceChanged
<1>8. Reads(next, standing)
  BY <1>7 DEF Reads
<1> QED
  BY <1>1, <1>6, <1>7, <1>8, ReaderStep, Zenon

\* The reader put in another phase is the same otherwise.
LEMMA ReaderMoves ==
    ASSUME WordBytes = 8, Undisturbed
    PROVE  \A phase :
               LET moved == WithPhase(reader, phase)
               IN  /\ IsReader(moved) /\ moved.phase = phase /\ moved.since = reader.since
                   /\ moved.module = reader.module
<1>1. IsReader(reader)
  BY ReaderIs, Zenon
<1>2. PICK r : r = reader
  OBVIOUS
<1>3. ASSUME NEW phase
      PROVE  LET moved == WithPhase(r, phase)
             IN  /\ IsReader(moved) /\ moved.phase = phase /\ moved.since = r.since
                 /\ moved.module = r.module
  <2>1. IsReader(r)
    BY <1>1, <1>2, Zenon
  <2> QED
    BY <2>1, PhaseChanged
<1> QED
  BY <1>2, <1>3, Zenon

\* A load is over: the reader goes on to the profile or to the pair.
LEMMA AfterLoading ==
    ASSUME WordBytes = 8, Undisturbed, NEW result, Loaded(result),
           disk' = disk, builders' = builders, standing' = standing,
           reader.since # None => reader.phase \in {"module", "module bytes", "profile",
                                                    "profile bytes"},
           reader.since # None /\ reader.phase \in {"module", "module bytes"} =>
               result = Value(CompiledModule(standing)),
           reader.since # None /\ reader.phase \in {"profile", "profile bytes"} =>
               result = Value(from_seed(standing))
    PROVE  Undisturbed'
<1>1. PICK next : next = reader'
  OBVIOUS
<1>2. IsReader(reader) /\ (reader.since # None =>
                              reader.since = standing /\ Reads(reader, standing))
  BY ReaderIs, Zenon
<1>3. CASE reader.phase \in {"module", "module bytes"}
  <2>1. next = [reader EXCEPT !.phase = "profile", !.module = result]
    BY <1>1, <1>3, Zenon DEF Loaded
  <2>2. PICK r : r = WithPhase(reader, "profile")
    OBVIOUS
  <2>3. next = WithModule(r, result)
    BY <2>1, <2>2 DEF WithPhase, WithModule, WithProfile
  <2>4. IsReader(r) /\ r.phase = "profile" /\ r.since = reader.since
    <3>1. /\ IsReader(WithPhase(reader, "profile"))
          /\ WithPhase(reader, "profile").phase = "profile"
          /\ WithPhase(reader, "profile").since = reader.since
      BY ReaderMoves, Zenon
    <3> QED
      BY <3>1, <2>2, Zenon
  <2>5. /\ IsReader(next) /\ next.phase = "profile" /\ next.module = result
        /\ next.since = reader.since
    <3>1. /\ IsReader(WithModule(r, result))
          /\ WithModule(r, result).module = result
          /\ WithModule(r, result).since = r.since
          /\ WithModule(r, result).phase = r.phase
      BY <2>4, ModuleChanged
    <3> QED
      BY <3>1, <2>3, <2>4, Zenon
  <2>6. ASSUME next.since # None
        PROVE  next.since = standing /\ Reads(next, standing)
    <3>1. result = Value(CompiledModule(standing)) /\ next.since = standing
      BY <1>2, <1>3, <2>5, <2>6, Zenon
    <3>2. Reads(next, standing)
      BY <2>5, <3>1 DEF Reads
    <3> QED
      BY <3>1, <3>2, Zenon
  <2> QED
    BY <1>1, <2>5, <2>6, ReaderStep, Zenon
<1>4. CASE reader.phase \notin {"module", "module bytes"}
  <2>1. next = [reader EXCEPT !.phase = "use", !.profile = result]
    BY <1>1, <1>4, Zenon DEF Loaded
  <2>2. PICK r : r = WithPhase(reader, "use")
    OBVIOUS
  <2>3. next = WithProfile(r, result)
    BY <2>1, <2>2 DEF WithPhase, WithModule, WithProfile
  <2>4. IsReader(r) /\ r.phase = "use" /\ r.since = reader.since /\ r.module = reader.module
    <3>1. /\ IsReader(WithPhase(reader, "use"))
          /\ WithPhase(reader, "use").phase = "use"
          /\ WithPhase(reader, "use").since = reader.since
          /\ WithPhase(reader, "use").module = reader.module
      BY ReaderMoves, Zenon
    <3> QED
      BY <3>1, <2>2, Zenon
  <2>5. /\ IsReader(next) /\ next.phase = "use" /\ next.profile = result
        /\ next.since = reader.since /\ next.module = reader.module
    <3>1. /\ IsReader(WithProfile(r, result))
          /\ WithProfile(r, result).profile = result
          /\ WithProfile(r, result).since = r.since
          /\ WithProfile(r, result).module = r.module
          /\ WithProfile(r, result).phase = r.phase
      BY <2>4, ProfileChanged
    <3> QED
      BY <3>1, <2>3, <2>4, Zenon
  <2>6. ASSUME next.since # None
        PROVE  next.since = standing /\ Reads(next, standing)
    <3>1. /\ next.since = standing /\ Reads(reader, standing)
          /\ reader.phase \in {"profile", "profile bytes"}
      <4>1. reader.phase \in {"module", "module bytes", "profile", "profile bytes"}
        BY <2>5, <2>6, Zenon
      <4>2. reader.phase \in {"profile", "profile bytes"}
        BY <1>4, <4>1, Zenon
      <4> QED
        BY <1>2, <2>5, <2>6, <4>2, Zenon
    <3>2. result = Value(from_seed(standing))
      BY <2>5, <2>6, <3>1, Zenon
    <3>3. reader.module = Value(CompiledModule(standing))
      BY <3>1, Zenon DEF Reads
    <3>4. Reads(next, standing)
      BY <2>5, <3>2, <3>3 DEF Reads
    <3> QED
      BY <3>1, <3>4, Zenon
  <2> QED
    BY <1>1, <2>5, <2>6, ReaderStep, Zenon
<1> QED
  BY <1>3, <1>4, Zenon

\* The file the reader is at, when something stands: whole, and of a size it accepts.
LEMMA StandingInput ==
    ASSUME WordBytes = 8, Undisturbed, reader.since # None
    PROVE  /\ standing \in BuildSeeds /\ reader.since = standing
           /\ \A f \in {"module", "profile"} :
                  /\ disk[f] = Contents[standing][f] /\ disk[f] \in Seq(Byte)
                  /\ disk[f] # None
           /\ reader.phase \in {"module", "profile"} =>
                  ~SizeRefused(Len(disk[reader.phase]))
<1>1. /\ standing \in BuildSeeds /\ reader.since = standing
      /\ disk["module"] = Contents[standing]["module"]
      /\ disk["profile"] = Contents[standing]["profile"]
  BY ReaderIs, Zenon
<1>2. /\ \A f \in Files : Contents[standing][f] \in Seq(Byte) /\ Contents[standing][f] # None
      /\ Len(Contents[standing]["module"]) <= ModuleLimits.max_file_size
      /\ Len(Contents[standing]["profile"]) = kProfileSize
  BY <1>1, ContentsAre, Zenon
<1>3. "module" \in Files /\ "profile" \in Files
  BY Zenon DEF Files
<1>4. ASSUME NEW f \in {"module", "profile"}
      PROVE  /\ disk[f] = Contents[standing][f] /\ disk[f] \in Seq(Byte)
             /\ disk[f] # None
  BY <1>1, <1>2, <1>3, <1>4, Zenon
<1>5. ASSUME reader.phase \in {"module", "profile"}
      PROVE  ~SizeRefused(Len(disk[reader.phase]))
  <2>1. CASE reader.phase = "module"
    <3>1. PICK limit : limit = ModuleLimits.max_file_size /\ limit \in Nat
      BY ArtifactsAssumption
    <3>2. PICK length : length = Len(disk["module"]) /\ length \in Nat
      BY <1>4
    <3>3. length <= limit
      BY <1>1, <1>2, <3>1, <3>2, Zenon
    <3>4. ~(length > limit)
      BY <3>1, <3>2, <3>3
    <3> QED
      BY <2>1, <3>1, <3>2, <3>4, Zenon DEF SizeRefused
  <2>2. CASE reader.phase # "module"
    <3>1. reader.phase = "profile"
      BY <1>5, <2>2, Zenon
    <3>2. Len(disk["profile"]) = kProfileSize
      BY <1>1, <1>2, Zenon
    <3> QED
      BY <2>2, <3>1, <3>2, Zenon DEF SizeRefused
  <2> QED
    BY <2>1, <2>2, Zenon
<1> QED
  BY <1>1, <1>4, <1>5, Zenon

\* Opening and measuring a file: of what stands, none is missing or of a wrong size.
LEMMA StepOpenInput ==
    ASSUME WordBytes = 8, Undisturbed, OpenInput
    PROVE  Undisturbed'
<1>1. PICK content : content = disk[reader.phase]
  OBVIOUS
<1>2. /\ reader.phase \in {"module", "profile"}
      /\ IF content = None THEN Loaded(Refusal("Io"))
         ELSE IF SizeRefused(Len(content)) THEN Loaded(Refusal("InvalidModule"))
         ELSE reader' = [reader EXCEPT !.size = Len(content), !.bytes = << >>,
                             !.phase = IF @ = "module" THEN "module bytes"
                                                       ELSE "profile bytes"]
      /\ disk' = disk /\ builders' = builders /\ standing' = standing
  BY <1>1, Zenon DEF OpenInput
<1>3. IsReader(reader) /\ (reader.since # None =>
                              reader.since = standing /\ Reads(reader, standing))
  BY ReaderIs, Zenon
<1>4. ASSUME reader.since # None
      PROVE  /\ content # None /\ ~SizeRefused(Len(content)) /\ content \in Seq(Byte)
             /\ content = Contents[standing][reader.phase]
  BY <1>1, <1>2, <1>4, StandingInput, Zenon
<1>5. CASE content = None
  <2>1. reader.since = None /\ Loaded(Refusal("Io"))
    BY <1>2, <1>4, <1>5, Zenon
  <2> QED
    BY <1>2, <2>1, AfterLoading, Zenon
<1>6. CASE content # None /\ SizeRefused(Len(content))
  <2>1. reader.since = None /\ Loaded(Refusal("InvalidModule"))
    BY <1>2, <1>4, <1>6, Zenon
  <2> QED
    BY <1>2, <2>1, AfterLoading, Zenon
<1>7. CASE content # None /\ ~SizeRefused(Len(content))
  <2>1. PICK phase : phase = IF reader.phase = "module" THEN "module bytes"
                                                         ELSE "profile bytes"
    OBVIOUS
  <2>2. reader' = [reader EXCEPT !.size = Len(content), !.bytes = << >>, !.phase = phase]
    BY <1>2, <1>7, <2>1
  <2>3. PICK r : r = WithSize(reader, Len(content))
    OBVIOUS
  <2>4. PICK q : q = WithBytes(r, << >>)
    OBVIOUS
  <2>5. PICK next : next = reader'
    OBVIOUS
  <2>6. next = WithPhase(q, phase)
    BY <2>2, <2>3, <2>4, <2>5 DEF WithPhase, WithBytes, WithSize
  <2>7. /\ IsReader(r) /\ r.size = Len(content) /\ r.module = reader.module
        /\ r.since = reader.since
    BY <1>3, <2>3, SizeChanged
  <2>8. /\ IsReader(q) /\ q.size = Len(content) /\ q.bytes = << >>
        /\ q.module = reader.module /\ q.since = reader.since
    BY <2>4, <2>7, BytesChanged
  <2>9. /\ IsReader(next) /\ next.phase = phase /\ next.size = Len(content)
        /\ next.bytes = << >> /\ next.module = reader.module /\ next.since = reader.since
    BY <2>6, <2>8, PhaseChanged
  <2>10. ASSUME next.since # None
         PROVE  next.since = standing /\ Reads(next, standing)
    <3>1. reader.since # None /\ next.since = standing /\ Reads(reader, standing)
      BY <1>3, <2>9, <2>10, Zenon
    <3>2. content \in Seq(Byte) /\ content = Contents[standing][reader.phase]
      BY <1>4, <3>1, Zenon
    <3>3. ReadsOf(next, content)
      <4>1. /\ 0 \in Nat /\ 0 <= Len(content) /\ Len(<< >>) = 0
            /\ FieldAt(content, 0, 0) = << >>
        BY <3>2 DEF FieldAt
      <4> QED
        BY <2>9, <4>1, Zenon DEF ReadsOf
    <3>4. CASE reader.phase = "module"
      <4>1. next.phase = "module bytes" /\ ReadsOf(next, Contents[standing]["module"])
        BY <2>1, <2>9, <3>2, <3>3, <3>4
      <4>2. Reads(next, standing)
        BY <4>1 DEF Reads
      <4> QED
        BY <3>1, <4>2, Zenon
    <3>5. CASE reader.phase = "profile"
      <4>1. next.phase = "profile bytes" /\ ReadsOf(next, Contents[standing]["profile"])
        BY <2>1, <2>9, <3>2, <3>3, <3>5
      <4>2. next.module = Value(CompiledModule(standing))
        BY <2>9, <3>1, <3>5, Zenon DEF Reads
      <4>3. Reads(next, standing)
        BY <4>1, <4>2 DEF Reads
      <4> QED
        BY <3>1, <4>3, Zenon
    <3> QED
      BY <1>2, <3>4, <3>5, Zenon
  <2> QED
    BY <1>2, <2>5, <2>9, <2>10, ReaderStep, Zenon
<1> QED
  BY <1>5, <1>6, <1>7, Zenon

\* What the reader of a file of an undisturbed build has of it, and what the rest gives.
LEMMA ReadingIs ==
    ASSUME WordBytes = 8, Undisturbed, reader.since # None,
           reader.phase \in {"module bytes", "profile bytes"}
    PROVE  /\ standing \in BuildSeeds
           /\ disk[InputFile] = Contents[standing][InputFile]
           /\ disk[InputFile] \in Seq(Byte)
           /\ ReadsOf(reader, Contents[standing][InputFile])
<1>1. InputFile = IF reader.phase = "module bytes" THEN "module" ELSE "profile"
  BY DEF InputFile
<1>2. InputFile \in {"module", "profile"}
  BY <1>1, Zenon
<1>3. reader.since = standing /\ Reads(reader, standing)
  BY ReaderIs, Zenon
<1>4. ReadsOf(reader, Contents[standing][InputFile])
  <2>1. CASE reader.phase = "module bytes"
    <3>1. InputFile = "module"
      BY <1>1, <2>1, Zenon
    <3> QED
      BY <1>3, <2>1, <3>1, Zenon DEF Reads
  <2>2. CASE reader.phase = "profile bytes"
    <3>1. InputFile = "profile"
      BY <1>1, <2>2
    <3> QED
      BY <1>3, <2>2, <3>1, Zenon DEF Reads
  <2> QED
    BY <2>1, <2>2, Zenon
<1> QED
  BY <1>2, <1>4, StandingInput, Zenon

\* Reading some more of a file.
LEMMA StepReadPart ==
    ASSUME WordBytes = 8, Undisturbed, ReadPart
    PROVE  Undisturbed'
<1>1. PICK upTo \in Cuts :
          /\ reader.phase \in {"module bytes", "profile bytes"}
          /\ upTo > Len(reader.bytes) /\ upTo < reader.size
          /\ reader' = [reader EXCEPT !.bytes =
                           @ \o SubSeq(disk[InputFile], Len(@) + 1, upTo)]
          /\ disk' = disk /\ builders' = builders /\ standing' = standing
  BY Zenon DEF ReadPart
<1>2. PICK more : more = reader.bytes
                             \o SubSeq(disk[InputFile], Len(reader.bytes) + 1, upTo)
  OBVIOUS
<1>3. PICK next : next = reader'
  OBVIOUS
<1>4. next = WithBytes(reader, more)
  BY <1>1, <1>2, <1>3 DEF WithBytes
<1>5. IsReader(reader) /\ (reader.since # None =>
                              reader.since = standing /\ Reads(reader, standing))
  BY ReaderIs, Zenon
<1>6. /\ IsReader(next) /\ next.bytes = more /\ next.phase = reader.phase
      /\ next.size = reader.size /\ next.module = reader.module /\ next.since = reader.since
  BY <1>4, <1>5, BytesChanged
<1>7. ASSUME next.since # None
      PROVE  next.since = standing /\ Reads(next, standing)
  <2>1. reader.since # None /\ next.since = standing /\ Reads(reader, standing)
    BY <1>5, <1>6, <1>7, Zenon
  <2>2. PICK content : content = Contents[standing][InputFile]
    OBVIOUS
  <2>3. disk[InputFile] = content /\ content \in Seq(Byte) /\ ReadsOf(reader, content)
    BY <1>1, <2>1, <2>2, ReadingIs, Zenon
  <2>4. PICK count \in Nat : /\ reader.size = Len(content) /\ count <= Len(content)
                             /\ Len(reader.bytes) = count
                             /\ reader.bytes = FieldAt(content, 0, count)
    BY <2>3, Zenon DEF ReadsOf
  <2>5. upTo \in Nat /\ count <= upTo /\ upTo <= Len(content)
    <3>1. upTo \in Nat
      BY ArtifactsAssumption, Zenon
    <3>2. PICK length \in Nat : length = Len(content)
      BY <2>3
    <3>3. upTo > count /\ upTo < length
      BY <1>1, <2>4, <3>2, Zenon
    <3>4. count <= upTo /\ upTo <= length
      BY <3>1, <3>3
    <3> QED
      BY <3>1, <3>2, <3>4, Zenon
  <2>6. more = FieldAt(content, 0, count) \o SubSeq(content, count + 1, upTo)
    BY <1>2, <2>3, <2>4, Zenon
  <2>7. more = FieldAt(content, 0, upTo) /\ Len(FieldAt(content, 0, upTo)) = upTo
    BY <2>3, <2>5, <2>6, MoreRead
  <2>8. ReadsOf(next, content)
    BY <1>6, <2>4, <2>5, <2>7, Zenon DEF ReadsOf
  <2>9. CASE reader.phase = "module bytes"
    <3>1. InputFile = "module"
      BY <2>9, Zenon DEF InputFile
    <3>2. next.phase = "module bytes" /\ ReadsOf(next, Contents[standing]["module"])
      BY <1>6, <2>2, <2>8, <2>9, <3>1, Zenon
    <3>3. Reads(next, standing)
      BY <3>2 DEF Reads
    <3> QED
      BY <2>1, <3>3, Zenon
  <2>10. CASE reader.phase = "profile bytes"
    <3>1. InputFile = "profile"
      BY <2>10 DEF InputFile
    <3>2. next.phase = "profile bytes" /\ ReadsOf(next, Contents[standing]["profile"])
      BY <1>6, <2>2, <2>8, <2>10, <3>1, Zenon
    <3>3. next.module = Value(CompiledModule(standing))
      BY <1>6, <2>1, <2>10, Zenon DEF Reads
    <3>4. Reads(next, standing)
      BY <3>2, <3>3 DEF Reads
    <3> QED
      BY <2>1, <3>4, Zenon
  <2> QED
    BY <1>1, <2>9, <2>10, Zenon
<1> QED
  BY <1>1, <1>3, <1>6, <1>7, ReaderStep, Zenon

\* Reading the rest of a file, and parsing it: of what stands, it is what was built.
LEMMA StepReadRest ==
    ASSUME WordBytes = 8, Undisturbed, ReadRest
    PROVE  Undisturbed'
<1>1. PICK bytes : bytes = reader.bytes
                              \o SubSeq(disk[InputFile], Len(reader.bytes) + 1, reader.size)
  OBVIOUS
<1>2. /\ reader.phase \in {"module bytes", "profile bytes"}
      /\ IF Len(disk[InputFile]) < reader.size THEN Loaded(Refusal("Io"))
         ELSE Loaded(Parse(bytes))
      /\ disk' = disk /\ builders' = builders /\ standing' = standing
  BY <1>1, Zenon DEF ReadRest
<1>3. CASE reader.since = None
  <2>1. PICK result : Loaded(result)
    BY <1>2, Zenon
  <2> QED
    BY <1>2, <1>3, <2>1, AfterLoading, Zenon
<1>4. CASE reader.since # None
  <2>1. PICK content : content = Contents[standing][InputFile]
    OBVIOUS
  <2>2. /\ disk[InputFile] = content /\ content \in Seq(Byte) /\ ReadsOf(reader, content)
        /\ standing \in BuildSeeds
    BY <1>2, <1>4, <2>1, ReadingIs, Zenon
  <2>3. PICK count \in Nat : /\ reader.size = Len(content) /\ count <= Len(content)
                             /\ Len(reader.bytes) = count
                             /\ reader.bytes = FieldAt(content, 0, count)
    BY <2>2, Zenon DEF ReadsOf
  <2>4. PICK length \in Nat : length = Len(content)
    BY <2>2
  <2>5. ~(Len(disk[InputFile]) < reader.size)
    BY <2>2, <2>3, <2>4
  <2>6. bytes = FieldAt(content, 0, count) \o SubSeq(content, count + 1, length)
    BY <1>1, <2>2, <2>3, <2>4, Zenon
  <2>7. length <= Len(content) /\ count <= length
    BY <2>3, <2>4
  <2>8. bytes = FieldAt(content, 0, length)
    BY <2>2, <2>6, <2>7, MoreRead
  <2>9. bytes = content
    <3>1. FieldAt(content, 0, Len(content)) = content
      BY <2>2, WholeField, Zenon
    <3> QED
      BY <2>4, <2>8, <3>1, Zenon
  <2>10. Loaded(Parse(content))
    BY <1>2, <2>5, <2>9, Zenon
  <2>11. CASE reader.phase = "module bytes"
    <3>1. Parse(content) = parse_module(content) /\ content = Contents[standing]["module"]
      BY <2>1, <2>11, Zenon DEF Parse, InputFile
    <3>2. parse_module(Contents[standing]["module"]) = Value(CompiledModule(standing))
      BY <2>2, ContentsAre, Zenon
    <3>3. Loaded(Value(CompiledModule(standing)))
      BY <2>10, <3>1, <3>2, Zenon
    <3>4. reader.phase \notin {"profile", "profile bytes"}
      BY <2>11
    <3> QED
      BY <1>2, <2>11, <3>3, <3>4, AfterLoading, Zenon
  <2>12. CASE reader.phase = "profile bytes"
    <3>1. Parse(content) = parse_profile(content) /\ content = Contents[standing]["profile"]
      <4>1. reader.phase # "module bytes"
        BY <2>12
      <4> QED
        BY <2>1, <4>1, Zenon DEF Parse, InputFile
    <3>2. parse_profile(Contents[standing]["profile"]) = Value(from_seed(standing))
      BY <2>2, ContentsAre, Zenon
    <3>3. Loaded(Value(from_seed(standing)))
      BY <2>10, <3>1, <3>2, Zenon
    <3>4. reader.phase \notin {"module", "module bytes"}
      BY <2>12
    <3> QED
      BY <1>2, <2>12, <3>3, <3>4, AfterLoading, Zenon
  <2> QED
    BY <1>2, <2>11, <2>12, Zenon
<1> QED
  BY <1>3, <1>4, Zenon

\* The pair that stands has one fingerprint, so it is accepted.
LEMMA StepUse ==
    ASSUME WordBytes = 8, Undisturbed, Use
    PROVE  Undisturbed'
<1>1. PICK verdict : verdict =
          IF /\ IsValue(reader.module) /\ IsValue(reader.profile)
             /\ Match(reader.module.value, reader.profile.value)
          THEN "accepted" ELSE "refused"
  OBVIOUS
<1>2. PICK next : next = reader'
  OBVIOUS
<1>3. /\ reader.phase = "use" /\ next = WithPhase(reader, verdict)
      /\ disk' = disk /\ builders' = builders /\ standing' = standing
  BY <1>1, <1>2 DEF Use, WithPhase
<1>4. IsReader(reader) /\ (reader.since # None =>
                              /\ reader.since = standing /\ Reads(reader, standing)
                              /\ standing \in BuildSeeds)
  BY ReaderIs, Zenon
<1>5. /\ IsReader(next) /\ next.phase = verdict /\ next.module = reader.module
      /\ next.profile = reader.profile /\ next.since = reader.since
  BY <1>3, <1>4, PhaseChanged
<1>6. ASSUME next.since # None
      PROVE  next.since = standing /\ Reads(next, standing)
  <2>1. next.since = standing /\ Reads(reader, standing) /\ standing \in BuildSeeds
    BY <1>4, <1>5, <1>6, Zenon
  <2>2. /\ reader.module = Value(CompiledModule(standing))
        /\ reader.profile = Value(from_seed(standing))
    BY <1>3, <2>1, Zenon DEF Reads
  <2>3. verdict = "accepted"
    <3>1. /\ IsValue(reader.module) /\ IsValue(reader.profile)
          /\ Match(reader.module.value, reader.profile.value)
      BY <2>1, <2>2, ContentsAre, Zenon
    <3> QED
      BY <1>1, <3>1, Zenon
  <2>4. Reads(next, standing)
    BY <1>5, <2>2, <2>3 DEF Reads
  <2> QED
    BY <2>1, <2>4, Zenon
<1> QED
  BY <1>2, <1>3, <1>5, <1>6, ReaderStep, Zenon

\* A step that changes none of the files, builds and reader.
LEMMA ReaderRests ==
    ASSUME WordBytes = 8, Undisturbed, disk' = disk, builders' = builders,
           reader' = reader, standing' = standing
    PROVE  Undisturbed'
<1>1. PICK next : next = reader'
  OBVIOUS
<1>2. /\ IsReader(next)
      /\ next.since # None => next.since = standing /\ Reads(next, standing)
  BY <1>1, ReaderIs, Zenon
<1> QED
  BY <1>1, <1>2, ReaderStep, Zenon

\* The invariant holds at first, with files of an earlier build or none.
LEMMA UndisturbedInitially ==
    ASSUME ArtifactsInit
    PROVE  Undisturbed
<1>1. /\ reader = NotStarted
      /\ builders = [b \in Builders |->
                        [status |-> "idle", at |-> 1, open |-> FALSE, written |-> 0,
                         alone |-> TRUE]]
  BY Zenon DEF ArtifactsInit
<1>2. \A b \in Builders :
          builders[b].status = "idle" /\ builders[b].at = 1 /\ ~builders[b].open
  BY <1>1
<1>3. \A b \in Builders : ~Running(b)
  BY <1>2 DEF Running
<1>4. TypesHold
  <2>1. builders \in [Builders -> BuilderRecords]
    BY <1>1 DEF BuilderRecords
  <2>2. disk = [f \in Files |-> disk[f]]
    <3>1. CASE disk = [f \in Files |-> None]
      BY <3>1
    <3>2. CASE disk = [f \in Files |-> Contents[OldSeed][f]]
      BY <3>2
    <3> QED
      BY <3>1, <3>2, Zenon DEF ArtifactsInit
  <2>3. reader = [phase |-> reader.phase, bytes |-> reader.bytes, size |-> reader.size,
                  module |-> reader.module, profile |-> reader.profile,
                  since |-> reader.since]
    BY <1>1 DEF NotStarted
  <2> QED
    BY <2>1, <2>2, <2>3, Zenon DEF TypesHold
<1>5. IdleAtFirst
  BY <1>2, Zenon DEF IdleAtFirst
<1>6. AloneProgresses
  BY <1>3, Zenon DEF AloneProgresses
<1>7. StandingIsWhole
  <2>1. CASE standing = None
    BY <2>1, Zenon DEF StandingIsWhole
  <2>2. CASE disk = [f \in Files |-> Contents[OldSeed][f]] /\ standing = OldSeed
    <3>1. OldSeed \in BuildSeeds
      BY Zenon DEF BuildSeeds
    <3>2. \A f \in Files : disk[f] = Contents[OldSeed][f]
      BY <2>2
    <3> QED
      BY <1>3, <2>2, <3>1, <3>2, Zenon DEF StandingIsWhole
  <2> QED
    BY <2>1, <2>2, Zenon DEF ArtifactsInit
<1>8. ReaderKeepsUp
  <2>1. reader.since = None
    BY <1>1 DEF NotStarted
  <2> QED
    BY <2>1, Zenon DEF ReaderKeepsUp
<1> QED
  BY <1>4, <1>5, <1>6, <1>7, <1>8, Zenon DEF Undisturbed

\* Every step keeps it.
LEMMA UndisturbedStays ==
    ASSUME WordBytes = 8, Undisturbed, [ArtifactsNext]_artifactVars
    PROVE  Undisturbed'
<1>1. ASSUME NEW b \in Builders,
             StartBuild(b) \/ OpenOutput(b) \/ WritePart(b) \/ WriteRest(b) \/ StopBuild(b)
      PROVE  Undisturbed'
  <2>1. CASE StartBuild(b)
    BY <2>1, StepStartBuild, Zenon
  <2>2. CASE OpenOutput(b)
    BY <2>2, StepOpenOutput, Zenon
  <2>3. CASE WritePart(b)
    BY <2>3, StepWritePart, Zenon
  <2>4. CASE WriteRest(b)
    BY <2>4, StepWriteRest, Zenon
  <2>5. CASE StopBuild(b)
    BY <2>5, StepStopBuild, Zenon
  <2> QED
    BY <1>1, <2>1, <2>2, <2>3, <2>4, <2>5, Zenon
<1>2. CASE StartLoading
  BY <1>2, StepStartLoading, Zenon
<1>3. CASE OpenInput
  BY <1>3, StepOpenInput, Zenon
<1>4. CASE ReadPart
  BY <1>4, StepReadPart, Zenon
<1>5. CASE ReadRest
  BY <1>5, StepReadRest, Zenon
<1>6. CASE Use
  BY <1>6, StepUse, Zenon
<1>7. CASE SaveFuzzSeed
  <2>1. disk' = disk /\ builders' = builders /\ reader' = reader /\ standing' = standing
    BY <1>7, Zenon DEF SaveFuzzSeed
  <2> QED
    BY <2>1, ReaderRests, Zenon
<1>8. CASE UNCHANGED artifactVars
  <2>1. disk' = disk /\ builders' = builders /\ reader' = reader /\ standing' = standing
    BY <1>8 DEF artifactVars
  <2> QED
    BY <2>1, ReaderRests, Zenon
<1> QED
  BY <1>1, <1>2, <1>3, <1>4, <1>5, <1>6, <1>7, <1>8, Zenon
     DEF ArtifactsNext, BuildNext, LoadNext

\* What the commands accept, once a build has reported success and while no other build works
\* on the files, is what that build left (build-demo, verify, run, fuzz-seed): the inductive
\* invariant says how far the one build is and what the reader has of its files.
THEOREM SuccessfulBuildsAreAccepted ==
    ASSUME WordBytes = 8
    PROVE  ArtifactsSpec => []UndisturbedBuildIsAccepted
<1>1. ASSUME Undisturbed
      PROVE  UndisturbedBuildIsAccepted
  <2>1. ASSUME reader.phase = "refused", reader.since # None
        PROVE  FALSE
    <3>1. Reads(reader, standing)
      BY <2>1, <1>1, ReaderIs, Zenon
    <3> QED
      BY <2>1, <3>1 DEF Reads
  <2> QED
    BY <2>1, Zenon DEF UndisturbedBuildIsAccepted
<1>2. ArtifactsInit => Undisturbed
  BY UndisturbedInitially, Zenon
<1>3. Undisturbed /\ [ArtifactsNext]_artifactVars => Undisturbed'
  BY UndisturbedStays, Zenon
<1> QED
  BY <1>1, <1>2, <1>3, PTL DEF ArtifactsSpec

-----------------------------------------------------------------------------
(***************************************************************************)
(* The encoding table of a profile.                                        *)
(***************************************************************************)
\* The shuffle keeps a list in which no byte value is in two places.
THEOREM ShuffleKeepsCodesApart == TableSpec => []TableInvariant
<1>1. TableInit => TableInvariant
  BY CountsAssumption DEF TableInit, TableInvariant, TableTypeOK, NoCodeTwice, Codes
<1>2. TableInvariant /\ [Shuffle]_tableVars => TableInvariant'
  <2> SUFFICES ASSUME TableInvariant, [Shuffle]_tableVars PROVE TableInvariant'
    OBVIOUS
  <2>1. CASE UNCHANGED tableVars
    BY <2>1 DEF tableVars, TableInvariant, TableTypeOK, NoCodeTwice
  <2>2. ASSUME index > 0, NEW selected \in 0 .. index,
               candidates' = Swapped(selected), index' = index - 1
        PROVE  TableInvariant'
    <3>1. index \in Codes /\ selected \in Codes
      BY <2>2, CountsAssumption DEF TableInvariant, TableTypeOK, Codes
    <3>2. TableTypeOK'
      <4>1. candidates' \in [Codes -> Codes]
        BY <2>2, <3>1 DEF TableInvariant, TableTypeOK, Swapped
      <4>2. index' \in Int /\ index' < CodeCount
        BY <2>2, CountsAssumption DEF TableInvariant, TableTypeOK
      <4>3. QED
        BY <4>1, <4>2 DEF TableTypeOK
    <3>3. NoCodeTwice'
      BY <2>2, <3>1 DEF TableInvariant, TableTypeOK, NoCodeTwice, Swapped
    <3>4. QED
      BY <3>2, <3>3 DEF TableInvariant
  <2>3. QED
    BY <2>1, <2>2 DEF Shuffle
<1>3. QED
  BY <1>1, <1>2, PTL DEF TableSpec

\* In such a list the table reads the same in both directions.
LEMMA ApartCodesDecode ==
    ASSUME TableInvariant
    PROVE  CodesDecodeToTheirKind
<1>1. Kinds \subseteq Codes
  BY CountsAssumption DEF Kinds, Codes
<1>2. ASSUME NEW byte, NEW primitive \in Kinds, encoded[primitive] = byte
      PROVE  decode(byte) = primitive
  <2>1. \A other \in Kinds : encoded[other] = byte => other = primitive
    BY <1>1, <1>2 DEF encoded, TableInvariant, NoCodeTwice
  <2>2. IsFirst(primitive, byte)
    BY <1>2, <2>1, CountsAssumption DEF IsFirst, Kinds
  <2>3. \A other \in Kinds : IsFirst(other, byte) => other = primitive
    BY <2>1 DEF IsFirst
  <2>4. QED
    BY <1>2, <2>2, <2>3 DEF decode
<1>3. \A primitive \in Kinds : decode(encode(primitive)) = primitive
  BY <1>2 DEF encode
<1>4. ASSUME NEW byte \in Codes, decode(byte) # Unknown
      PROVE  encode(decode(byte)) = byte
  <2>1. PICK primitive \in Kinds : encoded[primitive] = byte
    BY <1>4 DEF decode
  <2>2. QED
    BY <1>2, <2>1 DEF encode
<1>5. QED
  BY <1>3, <1>4 DEF CodesDecodeToTheirKind

\* Every opcode decodes to its kind at every moment of the shuffle, so in
\* particular in the table it leaves, for any number of byte values and kinds.
THEOREM EncodingRoundTrips == TableSpec => []CodesDecodeToTheirKind
BY ShuffleKeepsCodesApart, ApartCodesDecode, PTL
=============================================================================
