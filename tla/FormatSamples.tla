---------------------------- MODULE FormatSamples ----------------------------
(***************************************************************************)
(* Small modules for the file formats, one for each seed: code, data and   *)
(* carriers are arbitrary bytes, as the formats never look into them.      *)
(***************************************************************************)
EXTENDS Naturals, Sequences

\* The bytes of a word; the seeds, and what stands for their fingerprints.
Word8(low, high) == <<low, 0, 0, 0, high, 0, 0, 0>>

Seeds == {Word8(1, 0), Word8(2, 0)}

MCFingerprintOf(seed) ==
    [n \in 1 .. 8 |-> (37 * seed[1] + 11 * n * n + seed[(n % 8) + 1]) % 256]

\* A module of the profile of a seed: its sections grow with the
\* first byte of the seed.
ModuleFor(seed) ==
    [memory_size      |-> 2 + seed[1],
     carrier_count    |-> seed[1],
     argument_count   |-> 1,
     fingerprint      |-> MCFingerprintOf(seed),
     code_size        |-> 2 + seed[1],
     code             |-> [n \in 1 .. (2 + seed[1]) |-> 40 * n + seed[1] + seed[5]],
     data             |-> [n \in 1 .. seed[1] |-> 200 + n],
     initial_carriers |-> [n \in 0 .. (seed[1] - 1) |-> Word8(n, 7 + seed[5])]]

MCModuleLimits ==
    [max_memory_size |-> 5, max_carriers |-> 3, max_code_size |-> 5, max_data_size |-> 4,
     max_file_size |-> 92]
=============================================================================
