----------------------------- MODULE Utf8Reference -----------------------------
(***************************************************************************)
(* The validator against the definition of UTF-8: a text is valid when it  *)
(* is the encoding of some scalar values.  The walk appends bytes from both*)
(* sides of every boundary the validator compares with.                    *)
(***************************************************************************)
EXTENDS MachineIR

CONSTANTS
    BoundaryBytes, \* the bytes a text is made of
    MaxLength      \* bound on the length of a text

VARIABLE text

Utf8Init == text = << >>

Utf8Next ==
    \E byte \in BoundaryBytes : Len(text) < MaxLength /\ text' = Append(text, byte)

Utf8Spec == Utf8Init /\ [][Utf8Next]_text

-----------------------------------------------------------------------------
\* The payload bits of a byte, and the number those of a sequence spell.
Payload(bytes, n) == bytes[n] % 64

Scalar(bytes) ==
    CASE Len(bytes) = 1 -> bytes[1]
      [] Len(bytes) = 2 -> (bytes[1] % 32) * 64 + Payload(bytes, 2)
      [] Len(bytes) = 3 ->
             (bytes[1] % 16) * 4096 + Payload(bytes, 2) * 64 + Payload(bytes, 3)
      [] Len(bytes) = 4 ->
             (bytes[1] % 8) * 262144 + Payload(bytes, 2) * 4096
                 + Payload(bytes, 3) * 64 + Payload(bytes, 4)

\* The encoding of a number, shortest form.
EncodingOf(scalar) ==
    LET tail(n) == 128 + ((scalar \div 64 ^ n) % 64)
    IN  IF scalar < 128 THEN <<scalar>>
        ELSE IF scalar < 2048 THEN <<192 + scalar \div 64, tail(0)>>
        ELSE IF scalar < 65536 THEN <<224 + scalar \div 4096, tail(1), tail(0)>>
        ELSE <<240 + scalar \div 262144, tail(2), tail(1), tail(0)>>

IsScalar(number) == number <= 1114111 /\ number \notin 55296 .. 57343

Encodes(bytes) ==
    Len(bytes) \in 1 .. 4 /\ IsScalar(Scalar(bytes)) /\ EncodingOf(Scalar(bytes)) = bytes

\* Some way of cutting the text into encodings of scalar values exists.
IsUtf8(bytes) ==
    LET upTo[n \in 0 .. Len(bytes)] ==
            n = 0 \/ \E cut \in 0 .. (n - 1) :
                         upTo[cut] /\ Encodes(SubSeq(bytes, cut + 1, n))
    IN  upTo[Len(bytes)]

\* The validator accepts exactly the encodings of sequences of scalar values: no
\* overlong form, no surrogate, nothing above 10FFFF, nothing cut short
\* (is_valid_utf8).
AcceptsExactlyUtf8 == is_valid_utf8(text) = IsUtf8(text)
=============================================================================
