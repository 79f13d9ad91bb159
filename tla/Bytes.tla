-------------------------------- MODULE Bytes --------------------------------
(***************************************************************************)
(* Bytes, bits and loops, for the modules that model the decoders.         *)
(***************************************************************************)
EXTENDS Integers, Sequences, FiniteSets, SequencesExt, FiniteSetsExt

Byte == 0..255

\* A raised error, where bytes were expected.
Failed == <<-1>>

\* A loop over a sequence.
Loop(step(_, _), start, s) ==
    LET after[i \in 0..Len(s)] == IF i = 0 THEN start ELSE step(after[i - 1], s[i])
    IN  after[Len(s)]

SumOf(S, f(_)) == MapThenSumSet(f, S)

\* s[from:to]: cut where the sequence ends.
Slice(s, from, to) == SubSeq(s, from + 1, IF to > Len(s) THEN Len(s) ELSE to)

UpTo(n) == [i \in 1..n |-> i]

Repeat(b, n) == [i \in 1..n |-> b]

\* Numbers as bits, most significant first.
ToBits(v, n) == [i \in 1..n |-> (v \div 2^(n - i)) % 2]

FromBits(bits) == Loop(LAMBDA acc, b : 2 * acc + b, 0, bits)

Chunks(bits, w) ==
    [i \in 1..(Len(bits) \div w) |-> FromBits(SubSeq(bits, (i - 1) * w + 1, i * w))]

\* Bytes as bits, least significant first.
LsbBits(bytes) ==
    [k \in 1..(8 * Len(bytes)) |-> (bytes[(k - 1) \div 8 + 1] \div 2^((k - 1) % 8)) % 2]

LsbChunks(bits) ==
    [i \in 1..(Len(bits) \div 8) |-> FromBits([k \in 1..8 |-> bits[8 * i + 1 - k]])]

\* A little-endian number of n bytes.
Little(v, n) == [i \in 1..n |-> (v \div 256^(i - 1)) % 256]

\* int.bit_length
BitLength(v) == CHOOSE n \in 0..30 : v < 2^n /\ (n = 0 \/ v >= 2^(n - 1))

=============================================================================
