-------------------------------- MODULE Zstd --------------------------------
(***************************************************************************)
(* The zstd decompressor of restore/_zstd_pure.py: the bit readers, FSE    *)
(* and Huffman tables and their descriptions as operators; the decoding of *)
(* a frame (blocks, literals, sequences with their repeat offsets) as a    *)
(* state machine, a step for each part of the frame.                       *)
(*                                                                         *)
(* Positions count from 0 as in the code, and the tables are functions on  *)
(* 0..size-1.                                                              *)
(***************************************************************************)
EXTENDS Bytes

CONSTANT CONT       \* bytes of the container of _FseDStreamReader: 8

VARIABLE dec        \* the decoder

-----------------------------------------------------------------------------
(* Bit readers.                                                            *)

\* _ForwardBitReader.peek; missing bits are zero.
Peek(bits, at, n) ==
    LET bit(i) == IF at + i <= Len(bits) THEN bits[at + i] ELSE 0
    IN  FromBits([i \in 1..n |-> bit(n + 1 - i)])

\* _BackwardBitReader: the bits below the sentinel, in the order they are
\* read.  Its constructor refuses no data and a final byte without sentinel.
BackwardFails(data) == data = <<>> \/ Last(data) = 0

BackwardBits(data) ==
    LET bits == LsbBits(data)
        read == [k \in DOMAIN bits |-> bits[Len(bits) + 1 - k]]
    IN  SubSeq(read, Min({k \in 1..8 : read[k] = 1}) + 1, Len(read))

\* Its read: past the start, zeros, and the position stays.
BackVal(b, at, n) == FromBits([i \in 1..n |-> IF at + i <= Len(b) THEN b[at + i] ELSE 0])

BackAt(b, at, n) == IF at >= Len(b) THEN at ELSE at + n

\* _FseDStreamReader: the data's bits, the byte the container starts at and
\* how many bits of it are consumed.
DStream(data) ==
    LET skip == 8 - (BitLength(Last(data)) - 1)
    IN  IF Len(data) >= CONT
        THEN [bits |-> LsbBits(data), ptr |-> Len(data) - CONT, consumed |-> skip]
        ELSE [bits |-> LsbBits(data), ptr |-> 0,
              consumed |-> skip + (CONT - Len(data)) * 8]

\* The value of read: the container's bits from shift on, where the shift
\* wraps around once more is read than there is.
DStreamVal(r, n) ==
    LET shift == (CONT * 8 - r.consumed - n) % (CONT * 8)
        bit(i) == IF shift + i <= CONT * 8 /\ 8 * r.ptr + shift + i <= Len(r.bits)
                  THEN r.bits[8 * r.ptr + shift + i] ELSE 0
    IN  FromBits([i \in 1..n |-> bit(n + 1 - i)])

Reload(r) ==
    LET nbytes == Min({r.consumed \div 8, r.ptr})
    IN  IF r.consumed > CONT * 8 \/ r.ptr = 0 THEN r
        ELSE [r EXCEPT !.ptr = @ - nbytes, !.consumed = @ - nbytes * 8]

DStreamNext(r, n) == IF n = 0 THEN r ELSE Reload([r EXCEPT !.consumed = @ + n])

Overflowed(r) == r.consumed > CONT * 8

-----------------------------------------------------------------------------
(* FSE.                                                                    *)

FailedTable == [log |-> -1]

\* _build_fse_table.  counts[1] is the count of symbol 0; -1 is a
\* probability below one.
BuildFse(counts, log) ==
    LET size  == 2^log
        low   == SelectSeq(UpTo(Len(counts)), LAMBDA i : counts[i] = -1)
        high  == size - 1 - Len(low)
        step  == (size \div 2) + (size \div 8) + 3
        \* the positions the spread visits, those of low symbols skipped
        order == SelectSeq([k \in 1..size |-> ((k - 1) * step) % size], LAMBDA p : p <= high)
        spread == Loop(LAMBDA acc, i : acc \o Repeat(i - 1, counts[i]), <<>>,
                       SelectSeq(UpTo(Len(counts)), LAMBDA i : counts[i] > 0))
        at    == [p \in 0..high |-> CHOOSE k \in DOMAIN order : order[k] = p]
        symbol == [s \in 0..(size - 1) |->
                      IF s > high THEN low[size - s] - 1 ELSE spread[at[s]]]
        next(s) == (IF counts[symbol[s] + 1] = -1 THEN 1 ELSE counts[symbol[s] + 1])
                   + Cardinality({t \in 0..(s - 1) : symbol[t] = symbol[s]})
        nb    == [s \in 0..(size - 1) |-> log - (BitLength(next(s)) - 1)]
    IN  [log |-> log, symbol |-> symbol, num_bits |-> nb,
         baseline |-> [s \in 0..(size - 1) |-> next(s) * 2^nb[s] - size]]

\* The loop of _read_fse_distribution; the symbol is the number of counts.
CountsState == [at : Nat, remaining : Int, threshold : Nat, counts : Seq(Int), previous_is_zero : BOOLEAN]

ReadCounts(bits, max_symbol) ==
    LET repeats(s) == Peek(bits, s.at, 2)
        nbits(s)   == BitLength(s.threshold)
        peeked(s)  == Peek(bits, s.at, nbits(s))
        band(s)    == (2 * s.threshold - 1) - s.remaining
        short(s)   == peeked(s) % s.threshold < band(s)
        count(s)   == (IF short(s) THEN peeked(s) % s.threshold
                       ELSE IF peeked(s) >= s.threshold THEN peeked(s) - band(s) ELSE peeked(s)) - 1
        zeros(s, rep) == [s EXCEPT !.at = @ + 2, !.counts = @ \o Repeat(0, rep),
                                   !.previous_is_zero = (rep = 3)]
        symbol(s, c, left) ==
            [at |-> s.at + (IF short(s) THEN nbits(s) - 1 ELSE nbits(s)),
             remaining |-> left,
             threshold |-> IF left < s.threshold /\ left > 1
                           THEN 2^(BitLength(left) - 1) ELSE s.threshold,
             counts |-> Append(s.counts, c),
             previous_is_zero |-> (c = 0)]
        read[s \in CountsState] ==
            IF s.remaining <= 1 \/ Len(s.counts) > max_symbol THEN s
            ELSE IF s.previous_is_zero THEN read[zeros(s, repeats(s))]
            ELSE read[symbol(s, count(s), s.remaining - (IF count(s) < 0 THEN 1 ELSE count(s)))]
    IN  read

\* _read_fse_distribution: the counts, the accuracy and the bits read.
ReadDistribution(bits, max_symbol, max_accuracy) ==
    LET log == Peek(bits, 0, 4) + 5
        end == ReadCounts(bits, max_symbol)[
                   [at |-> 4, remaining |-> 2^log + 1, threshold |-> 2^log,
                    counts |-> <<>>, previous_is_zero |-> FALSE]]
    IN  IF log > max_accuracy THEN FailedTable
        ELSE IF end.remaining # 1 THEN FailedTable
        ELSE [log |-> log, counts |-> end.counts, at |-> end.at]

-----------------------------------------------------------------------------
(* Huffman.                                                                *)

\* _build_huffman_from_weights.  The last weight is inferred.
BuildHuffman(weights) ==
    LET value(w)   == IF w > 0 THEN 2^(w - 1) ELSE 0
        weight_sum == SumOf(DOMAIN weights, LAMBDA i : value(weights[i]))
        max_bits   == BitLength(weight_sum - 1)
        left       == 2^max_bits - weight_sum
        all        == Append(weights, BitLength(left))
        used       == {i \in DOMAIN all : all[i] > 0}
        \* the entries before those of symbol i - 1
        start(i)   == SumOf({j \in used : all[j] < all[i] \/ (all[j] = all[i] /\ j < i)},
                            LAMBDA j : value(all[j]))
        owner      == [p \in 0..(2^max_bits - 1) |->
                          CHOOSE i \in used : p \in start(i)..(start(i) + value(all[i]) - 1)]
    IN  IF weight_sum = 0 \/ left = 0 \/ left # 2^(BitLength(left) - 1) THEN FailedTable
        ELSE [log |-> max_bits, symbols |-> [p \in DOMAIN owner |-> owner[p] - 1],
              num_bits |-> [p \in DOMAIN owner |-> max_bits + 1 - all[owner[p]]]]

\* The drain of _fse_decode_weight_stream, with the state whose turn it is
\* first: its symbol, then its transition, then the test for exhaustion.
DStreams == [bits : Seq(0..1), ptr : Nat, consumed : Nat]

DrainWeights(t) ==
    LET after(r, mine) == DStreamNext(r, t.num_bits[mine])
        next(r, mine)  == t.baseline[mine] + DStreamVal(r, t.num_bits[mine])
        drain[r \in DStreams, mine \in Nat, other \in Nat] ==
            IF Overflowed(after(r, mine)) THEN <<t.symbol[mine], t.symbol[other]>>
            ELSE <<t.symbol[mine]>> \o drain[after(r, mine), other, next(r, mine)]
    IN  drain

\* _fse_decode_weight_stream.
DecodeWeightStream(fse_bytes) ==
    LET drain(d, t, r0, r1) ==
            DrainWeights(t)[DStreamNext(r1, d.log), DStreamVal(r0, d.log), DStreamVal(r1, d.log)]
        start(d, r) == drain(d, BuildFse(d.counts, d.log), r, DStreamNext(r, d.log))
        stream(d, bytes) == IF BackwardFails(bytes) THEN Failed ELSE start(d, DStream(bytes))
        weights(d) == IF d = FailedTable THEN Failed
                      ELSE stream(d, SubSeq(fse_bytes, (d.at + 7) \div 8 + 1, Len(fse_bytes)))
    IN  weights(ReadDistribution(LsbBits(fse_bytes), 255, 6))

\* _decode_huffman_weights: the weights and the bytes of the description.
DecodeWeights(src) ==
    LET num    == src[1] - 127
        nibble(i) == LET b == src[2 + (i - 1) \div 2]
                     IN  IF i % 2 = 1 THEN b \div 16 ELSE b % 16
    IN  IF src[1] >= 128
        THEN [weights |-> [i \in 1..num |-> nibble(i)], used |-> 1 + (num + 1) \div 2]
        ELSE IF Len(src) < 1 + src[1] THEN [weights |-> Failed, used |-> 0]
        ELSE [weights |-> DecodeWeightStream(SubSeq(src, 2, 1 + src[1])), used |-> 1 + src[1]]

\* _decode_literals_huffman: max_bits are read for every symbol, and the
\* position goes back by those its code does not use.
DecodeStream(t, stream, n) ==
    LET b == BackwardBits(stream)
        symbol(s, i) == LET p == BackVal(b, s.at, t.log)
                        IN  [at |-> BackAt(b, s.at, t.log) - (t.log - t.num_bits[p]),
                             out |-> Append(s.out, t.symbols[p])]
    IN  IF BackwardFails(stream) THEN Failed
        ELSE Loop(symbol, [at |-> 0, out |-> <<>>], UpTo(n)).out

\* _decode_literals_4streams.
Decode4Streams(t, data, regen) ==
    LET size(i) == IF i < 4 THEN data[2 * i - 1] + 256 * data[2 * i]
                   ELSE Len(data) - 6 - SumOf(1..3, LAMBDA j : data[2 * j - 1] + 256 * data[2 * j])
        off(i)  == 6 + SumOf(1..(i - 1), size)
        seg     == (regen + 3) \div 4
        part(i) == DecodeStream(t, SubSeq(data, off(i) + 1, off(i) + size(i)),
                                IF i < 4 THEN seg ELSE regen - 3 * seg)
    IN  IF Len(data) < 6 THEN Failed
        ELSE IF size(4) < 0 THEN Failed
        ELSE IF \E i \in 1..4 : part(i) = Failed THEN Failed
        ELSE part(1) \o part(2) \o part(3) \o part(4)

-----------------------------------------------------------------------------
(* The literals section.                                                   *)

\* The header's fields by type and size format: regenerated size, compressed
\* size, bytes of the header, streams.
LiteralsHeader(src) ==
    LET b(i)   == src[i + 1]
        type   == b(0) % 4
        format == (b(0) \div 4) % 4
    IN  IF type < 2
        THEN [type |-> type, comp |-> 0, streams |-> 0,
              regen |-> CASE format \in {0, 2} -> b(0) \div 8
                          [] format = 1 -> (b(0) \div 16) + b(1) * 16
                          [] format = 3 -> (b(0) \div 16) + b(1) * 16 + b(2) * 4096,
              hdr |-> CASE format \in {0, 2} -> 1 [] format = 1 -> 2 [] format = 3 -> 3]
        ELSE [type |-> type, streams |-> IF format = 0 THEN 1 ELSE 4,
              regen |-> CASE format < 2 -> (b(0) \div 16) + (b(1) % 64) * 16
                          [] format = 2 -> (b(0) \div 16) + b(1) * 16 + (b(2) % 4) * 4096
                          [] format = 3 -> (b(0) \div 16) + b(1) * 16 + (b(2) % 64) * 4096,
              comp  |-> CASE format < 2 -> (b(1) \div 64) + b(2) * 4
                          [] format = 2 -> (b(2) \div 4) + b(3) * 64
                          [] format = 3 -> (b(2) \div 64) + b(3) * 4 + b(4) * 1024,
              hdr   |-> CASE format < 2 -> 3 [] format = 2 -> 4 [] format = 3 -> 5]

-----------------------------------------------------------------------------
(* The sequences section.                                                  *)

\* A row of a predefined table: new state baseline, additional bits, state
\* bits, base value.
LL_PREDEF == <<
    <<0, 0, 4, 0>>, <<16, 0, 4, 0>>, <<32, 0, 5, 1>>, <<0, 0, 5, 3>>,
    <<0, 0, 5, 4>>, <<0, 0, 5, 6>>, <<0, 0, 5, 7>>, <<0, 0, 5, 9>>,
    <<0, 0, 5, 10>>, <<0, 0, 5, 12>>, <<0, 0, 6, 14>>, <<0, 1, 5, 16>>,
    <<0, 1, 5, 20>>, <<0, 1, 5, 22>>, <<0, 2, 5, 28>>, <<0, 3, 5, 32>>,
    <<0, 4, 5, 48>>, <<32, 6, 5, 64>>, <<0, 7, 5, 128>>, <<0, 8, 6, 256>>,
    <<0, 10, 6, 1024>>, <<0, 12, 6, 4096>>, <<32, 0, 4, 0>>, <<0, 0, 4, 1>>,
    <<0, 0, 5, 2>>, <<32, 0, 5, 4>>, <<0, 0, 5, 5>>, <<32, 0, 5, 7>>,
    <<0, 0, 5, 8>>, <<32, 0, 5, 10>>, <<0, 0, 5, 11>>, <<0, 0, 6, 13>>,
    <<32, 1, 5, 16>>, <<0, 1, 5, 18>>, <<32, 1, 5, 22>>, <<0, 2, 5, 24>>,
    <<32, 3, 5, 32>>, <<0, 3, 5, 40>>, <<0, 6, 4, 64>>, <<16, 6, 4, 64>>,
    <<32, 7, 5, 128>>, <<0, 9, 6, 512>>, <<0, 11, 6, 2048>>, <<48, 0, 4, 0>>,
    <<16, 0, 4, 1>>, <<32, 0, 5, 2>>, <<32, 0, 5, 3>>, <<32, 0, 5, 5>>,
    <<32, 0, 5, 6>>, <<32, 0, 5, 8>>, <<32, 0, 5, 9>>, <<32, 0, 5, 11>>,
    <<32, 0, 5, 12>>, <<0, 0, 6, 15>>, <<32, 1, 5, 18>>, <<32, 1, 5, 20>>,
    <<32, 2, 5, 24>>, <<32, 2, 5, 28>>, <<32, 3, 5, 40>>, <<32, 4, 5, 48>>,
    <<0, 16, 6, 65536>>, <<0, 15, 6, 32768>>, <<0, 14, 6, 16384>>,
    <<0, 13, 6, 8192>>>>

OF_PREDEF == <<
    <<0, 0, 5, 0>>, <<0, 6, 4, 61>>, <<0, 9, 5, 509>>, <<0, 15, 5, 32765>>,
    <<0, 21, 5, 2097149>>, <<0, 3, 5, 5>>, <<0, 7, 4, 125>>,
    <<0, 12, 5, 4093>>, <<0, 18, 5, 262141>>, <<0, 23, 5, 8388605>>,
    <<0, 5, 5, 29>>, <<0, 8, 4, 253>>, <<0, 14, 5, 16381>>,
    <<0, 20, 5, 1048573>>, <<0, 2, 5, 1>>, <<16, 7, 4, 125>>,
    <<0, 11, 5, 2045>>, <<0, 17, 5, 131069>>, <<0, 22, 5, 4194301>>,
    <<0, 4, 5, 13>>, <<16, 8, 4, 253>>, <<0, 13, 5, 8189>>,
    <<0, 19, 5, 524285>>, <<0, 1, 5, 1>>, <<16, 6, 4, 61>>, <<0, 10, 5, 1021>>,
    <<0, 16, 5, 65533>>, <<0, 28, 5, 268435453>>, <<0, 27, 5, 134217725>>,
    <<0, 26, 5, 67108861>>, <<0, 25, 5, 33554429>>, <<0, 24, 5, 16777213>>>>

ML_PREDEF == <<
    <<0, 0, 6, 3>>, <<0, 0, 4, 4>>, <<32, 0, 5, 5>>, <<0, 0, 5, 6>>,
    <<0, 0, 5, 8>>, <<0, 0, 5, 9>>, <<0, 0, 5, 11>>, <<0, 0, 6, 13>>,
    <<0, 0, 6, 16>>, <<0, 0, 6, 19>>, <<0, 0, 6, 22>>, <<0, 0, 6, 25>>,
    <<0, 0, 6, 28>>, <<0, 0, 6, 31>>, <<0, 0, 6, 34>>, <<0, 1, 6, 37>>,
    <<0, 1, 6, 41>>, <<0, 2, 6, 47>>, <<0, 3, 6, 59>>, <<0, 4, 6, 83>>,
    <<0, 7, 6, 131>>, <<0, 9, 6, 515>>, <<16, 0, 4, 4>>, <<0, 0, 4, 5>>,
    <<32, 0, 5, 6>>, <<0, 0, 5, 7>>, <<32, 0, 5, 9>>, <<0, 0, 5, 10>>,
    <<0, 0, 6, 12>>, <<0, 0, 6, 15>>, <<0, 0, 6, 18>>, <<0, 0, 6, 21>>,
    <<0, 0, 6, 24>>, <<0, 0, 6, 27>>, <<0, 0, 6, 30>>, <<0, 0, 6, 33>>,
    <<0, 1, 6, 35>>, <<0, 1, 6, 39>>, <<0, 2, 6, 43>>, <<0, 3, 6, 51>>,
    <<0, 4, 6, 67>>, <<0, 5, 6, 99>>, <<0, 8, 6, 259>>, <<32, 0, 4, 4>>,
    <<48, 0, 4, 4>>, <<16, 0, 4, 5>>, <<32, 0, 5, 7>>, <<32, 0, 5, 8>>,
    <<32, 0, 5, 10>>, <<32, 0, 5, 11>>, <<0, 0, 6, 14>>, <<0, 0, 6, 17>>,
    <<0, 0, 6, 20>>, <<0, 0, 6, 23>>, <<0, 0, 6, 26>>, <<0, 0, 6, 29>>,
    <<0, 0, 6, 32>>, <<0, 16, 6, 65539>>, <<0, 15, 6, 32771>>,
    <<0, 14, 6, 16387>>, <<0, 13, 6, 8195>>, <<0, 12, 6, 4099>>,
    <<0, 11, 6, 2051>>, <<0, 10, 6, 1027>>>>

LL_CODE_BASE == <<0, 1, 2, 3, 4, 5, 6, 7, 8, 9, 10, 11, 12, 13, 14, 15, 16,
    18, 20, 22, 24, 28, 32, 40, 48, 64, 128, 256, 512, 1024, 2048, 4096,
    8192, 16384, 32768, 65536>>

LL_CODE_BITS == <<0, 0, 0, 0, 0, 0, 0, 0, 0, 0, 0, 0, 0, 0, 0, 0, 1, 1, 1, 1,
    2, 2, 3, 3, 4, 6, 7, 8, 9, 10, 11, 12, 13, 14, 15, 16>>

ML_CODE_BASE == <<3, 4, 5, 6, 7, 8, 9, 10, 11, 12, 13, 14, 15, 16, 17, 18,
    19, 20, 21, 22, 23, 24, 25, 26, 27, 28, 29, 30, 31, 32, 33, 34, 35, 37,
    39, 41, 43, 47, 51, 59, 67, 83, 99, 131, 259, 515, 1027, 2051, 4099,
    8195, 16387, 32771, 65539>>

ML_CODE_BITS == <<0, 0, 0, 0, 0, 0, 0, 0, 0, 0, 0, 0, 0, 0, 0, 0, 0, 0, 0, 0,
    0, 0, 0, 0, 0, 0, 0, 0, 0, 0, 0, 0, 1, 1, 1, 1, 2, 2, 3, 3, 4, 4, 5, 7,
    8, 9, 10, 11, 12, 13, 14, 15, 16>>

\* _OF_CODE_BASE; _OF_CODE_BITS[c] is c.
OfBase(c) == IF c < 2 THEN c ELSE 2^c - 3

CodeBase(key, c) == CASE key = "ll" -> LL_CODE_BASE[c + 1]
                      [] key = "ml" -> ML_CODE_BASE[c + 1]
                      [] key = "of" -> OfBase(c)

CodeBits(key, c) == CASE key = "ll" -> LL_CODE_BITS[c + 1]
                      [] key = "ml" -> ML_CODE_BITS[c + 1]
                      [] key = "of" -> c

\* _SeqDTable of an FSE table whose symbols are codes.
SeqTable(t, key) ==
    [log |-> t.log, newstate |-> t.baseline, state_nbits |-> t.num_bits,
     base_value |-> [s \in DOMAIN t.symbol |-> CodeBase(key, t.symbol[s])],
     add_bits |-> [s \in DOMAIN t.symbol |-> CodeBits(key, t.symbol[s])]]

\* Predefined mode.
Predefined(key) ==
    LET rows == CASE key = "ll" -> LL_PREDEF [] key = "of" -> OF_PREDEF [] key = "ml" -> ML_PREDEF
        all  == 0..(Len(rows) - 1)
    IN  [log |-> BitLength(Len(rows) - 1),
         newstate    |-> [s \in all |-> rows[s + 1][1]],
         state_nbits |-> [s \in all |-> rows[s + 1][3]],
         base_value  |-> [s \in all |-> rows[s + 1][4]],
         add_bits    |-> [s \in all |-> rows[s + 1][2]]]

\* RLE mode: one state.
OneCode == [log |-> 0, symbol |-> [s \in {0} |-> 0], baseline |-> [s \in {0} |-> 0],
            num_bits |-> [s \in {0} |-> 0]]

FailedSeqTable == [table |-> FailedTable, used |-> 0]

\* _resolve_seq_table: the table by its mode, and the bytes it took.
ResolveSeqTable(src, mode, prev, key) ==
    LET coded(t) == SeqTable(t, key)
        fse(d)   == IF d = FailedTable THEN FailedSeqTable
                    ELSE [table |-> coded(BuildFse(d.counts, d.log)), used |-> (d.at + 7) \div 8]
    IN  CASE mode = 0 -> [table |-> Predefined(key), used |-> 0]
          [] mode = 1 -> [table |-> coded([OneCode EXCEPT !.symbol[0] = src[1]]), used |-> 1]
          [] mode = 2 -> fse(ReadDistribution(LsbBits(src),
                                 CASE key = "ll" -> 35 [] key = "of" -> 31 [] key = "ml" -> 52,
                                 IF key = "of" THEN 8 ELSE 9))
          [] mode = 3 -> [table |-> prev[key], used |-> 0]

\* _resolve_rep0: the history after a pure repeat; its head is the offset.
ResolveRep0(rep, ll0) == <<rep[ll0 + 1], rep[2 - ll0], rep[3]>>

\* Mutant of ResolveRepCode: the third offset is always replaced.
ResolveRepCodeShifting(rep, code) ==
    LET temp == IF code = 3 THEN rep[1] - 1 ELSE rep[code + 1]
    IN  <<temp, rep[1], rep[2]>>

\* _resolve_rep_code, likewise; 0 in front is an error.
ResolveRepCode(rep, code) ==
    LET temp == IF code = 3 THEN rep[1] - 1 ELSE rep[code + 1]
    IN  <<temp, rep[1], IF code # 1 THEN rep[2] ELSE rep[3]>>

\* The history after a sequence's offset field.
NextHistory(rep, of_base, of_bits, ll_base, extra) ==
    LET ll0 == IF ll_base = 0 THEN 1 ELSE 0
    IN  IF of_bits > 1 THEN <<of_base + extra, rep[1], rep[2]>>
        ELSE IF of_bits = 0 THEN ResolveRep0(rep, ll0)
        ELSE ResolveRepCode(rep, of_base + ll0 + extra)

\* Fields of the bitstream, one for each key in turn.
BackFields(b, at, keys, width(_)) ==
    Loop(LAMBDA x, k : [at |-> BackAt(b, x.at, width(k)),
                        val |-> [x.val EXCEPT ![k] = BackVal(b, x.at, width(k))]],
         [at |-> at, val |-> [k \in {"ll", "of", "ml"} |-> 0]], keys)

-----------------------------------------------------------------------------
(* Decoding a frame.  pc names what is read next.                          *)

NoDecoder == [pc |-> "idle", data |-> <<>>, pos |-> 0, out |-> <<>>, last |-> FALSE, checksum |-> FALSE,
              huffman |-> FailedTable, tables |-> [k \in {"ll", "of", "ml"} |-> FailedTable],
              rep |-> <<1, 4, 8>>, block |-> <<>>, section |-> <<>>, header |-> [type |-> 0],
              weights |-> <<>>, lits |-> <<>>, num |-> 0, used |-> 0, keys |-> <<>>, bits |-> <<>>,
              at |-> 0, state |-> [k \in {"ll", "of", "ml"} |-> 0], seqs |-> <<>>]

StartDecoder(data) == [NoDecoder EXCEPT !.pc = "frame", !.data = data]

Raise == dec' = [dec EXCEPT !.pc = "failed"]

MAGIC == <<40, 181, 47, 253>>

\* _decompress_frame: the frame header.  A dictionary is refused.
FrameHeader ==
    /\ dec.pc = "frame"
    /\ LET data   == dec.data
           fhd    == data[5]
           single == (fhd \div 32) % 2 = 1
           dict   == CASE fhd % 4 = 0 -> 0 [] fhd % 4 = 1 -> 1 [] fhd % 4 = 2 -> 2 [] fhd % 4 = 3 -> 4
           fcs    == CASE fhd \div 64 = 0 -> (IF single THEN 1 ELSE 0)
                       [] fhd \div 64 = 1 -> 2 [] fhd \div 64 = 2 -> 4 [] fhd \div 64 = 3 -> 8
           win    == IF single THEN 5 ELSE 6
       IN  IF \/ Len(data) < 5 \/ ~IsPrefix(MAGIC, data)
              \/ \E b \in Range(Slice(data, win, win + dict)) : b # 0
           THEN Raise
           ELSE dec' = [dec EXCEPT !.pc = "block", !.pos = win + dict + fcs,
                                   !.checksum = ((fhd \div 4) % 2 = 1)]

AfterBlock(last) == IF last THEN "checksum" ELSE "block"

\* One turn of the block loop of _decompress_frame.
BlockHeader ==
    /\ dec.pc = "block"
    /\ LET byte(i) == dec.data[dec.pos + i]
           bh    == byte(1) + 256 * byte(2) + 65536 * byte(3)
           type  == (bh \div 2) % 4
           size  == bh \div 8
           after == SubSeq(dec.data, dec.pos + 4, Len(dec.data))
           block == Slice(after, 0, size)
           next  == [dec EXCEPT !.last = (bh % 2 = 1), !.pc = AfterBlock(bh % 2 = 1),
                                !.pos = @ + 3 + (IF type = 1 THEN 1 ELSE size)]
       IN  IF dec.pos + 3 > Len(dec.data) \/ type = 3 \/ (type = 2 /\ Len(block) < size) THEN Raise
           ELSE dec' = CASE type = 0 -> [next EXCEPT !.out = @ \o block]
                         [] type = 1 -> [next EXCEPT !.out = @ \o Repeat(after[1], size)]
                         [] type = 2 -> [next EXCEPT !.pc = "literals", !.block = block]

\* _decode_literals: raw and RLE literals, or the payload of Huffman ones.
\* block keeps what follows the section.
Literals ==
    /\ dec.pc = "literals"
    /\ \E h \in {LiteralsHeader(dec.block)} :
          LET after(n) == SubSeq(dec.block, h.hdr + n + 1, Len(dec.block))
          IN  IF Len(after(0)) < (IF h.type = 0 THEN h.regen ELSE h.comp) THEN Raise
              ELSE dec' = CASE h.type = 0 -> [dec EXCEPT !.pc = "sequences", !.block = after(h.regen),
                                                         !.lits = SubSeq(after(0), 1, h.regen)]
                            [] h.type = 1 -> [dec EXCEPT !.pc = "sequences", !.block = after(1),
                                                         !.lits = Repeat(after(0)[1], h.regen)]
                            [] OTHER -> [dec EXCEPT !.pc = IF h.type = 2 THEN "weights" ELSE "streams",
                                                    !.block = after(h.comp), !.header = h,
                                                    !.section = SubSeq(after(0), 1, h.comp)]

\* The description of a Huffman table, in front of the streams.
Weights ==
    /\ dec.pc = "weights"
    /\ \E w \in {DecodeWeights(dec.section)} :
          IF w.weights = Failed THEN Raise
          ELSE dec' = [dec EXCEPT !.pc = "tree", !.weights = w.weights,
                                  !.section = SubSeq(@, w.used + 1, Len(@))]

Tree ==
    /\ dec.pc = "tree"
    /\ dec' = [dec EXCEPT !.pc = "streams", !.huffman = BuildHuffman(dec.weights)]

\* One stream or four, with the table of this section or of an earlier one.
Streams ==
    /\ dec.pc = "streams"
    /\ IF dec.huffman = FailedTable THEN Raise
       ELSE dec' = [dec EXCEPT !.pc = "sequences",
                               !.lits = IF dec.header.streams = 1
                                        THEN DecodeStream(dec.huffman, dec.section, dec.header.regen)
                                        ELSE Decode4Streams(dec.huffman, dec.section, dec.header.regen)]

\* _decode_sequences: their number, and the modes of the tables.
SequencesHeader ==
    /\ dec.pc = "sequences"
    /\ LET b0  == dec.block[1]
           num == CASE b0 < 128 -> b0
                    [] b0 >= 128 /\ b0 < 255 -> (b0 - 128) * 256 + dec.block[2]
                    [] b0 = 255 -> dec.block[2] + dec.block[3] * 256 + 32512
       IN  IF dec.lits = Failed THEN Raise
           ELSE dec' = IF b0 = 0 THEN [dec EXCEPT !.pc = "execute", !.seqs = <<>>, !.at = 0]
                       ELSE [dec EXCEPT !.pc = "tables", !.num = num, !.seqs = <<>>,
                                        !.used = IF b0 < 128 THEN 2 ELSE IF b0 < 255 THEN 3 ELSE 4,
                                        !.keys = <<"ll", "of", "ml">>]

Mode(key) ==
    LET b0 == dec.block[1]
    IN  (dec.block[IF b0 < 128 THEN 2 ELSE IF b0 < 255 THEN 3 ELSE 4]
            \div (CASE key = "ll" -> 64 [] key = "of" -> 16 [] key = "ml" -> 4)) % 4

SequenceTable ==
    /\ dec.pc = "tables" /\ dec.keys # <<>>
    /\ \E r \in {ResolveSeqTable(SubSeq(dec.block, dec.used + 1, Len(dec.block)),
                                 Mode(Head(dec.keys)), dec.tables, Head(dec.keys))} :
          IF r.table = FailedTable THEN Raise
          ELSE dec' = [dec EXCEPT !.tables[Head(dec.keys)] = r.table, !.used = @ + r.used,
                                  !.keys = Tail(@)]

\* The first states.
SequenceStates ==
    /\ dec.pc = "tables" /\ dec.keys = <<>>
    /\ LET stream == SubSeq(dec.block, dec.used + 1, Len(dec.block))
           log(k) == dec.tables[k].log
       IN  IF BackwardFails(stream) THEN Raise
           ELSE \E b \in {BackwardBits(stream)} : \E x \in {BackFields(b, 0, <<"ll", "of", "ml">>, log)} :
                   dec' = [dec EXCEPT !.pc = "sequence", !.bits = b, !.at = x.at, !.state = x.val]

\* One sequence: offset, match length and literals length are read, then (but
\* for the last) the states of LL, ML and OF.
Sequence ==
    /\ dec.pc = "sequence"
    /\ LET base(k)  == dec.tables[k].base_value[dec.state[k]]
           width(k) == dec.tables[k].add_bits[dec.state[k]]
           nbits(k) == dec.tables[k].state_nbits[dec.state[k]]
       IN  \E x \in {BackFields(dec.bits, dec.at, <<"of", "ml", "ll">>, width)} :
           \E rep \in {NextHistory(dec.rep, base("of"), width("of"), base("ll"), x.val["of"])} :
              LET one == [dec EXCEPT !.rep = rep, !.num = @ - 1,
                             !.seqs = Append(@, <<base("ll") + x.val["ll"], rep[1], base("ml") + x.val["ml"]>>)]
              IN  IF rep[1] = 0 THEN Raise
                  ELSE IF dec.num = 1 THEN dec' = [one EXCEPT !.pc = "execute", !.at = 0]
                  ELSE \E y \in {BackFields(dec.bits, x.at, <<"ll", "ml", "of">>, nbits)} :
                          dec' = [one EXCEPT !.at = y.at,
                                     !.state = [k \in DOMAIN @ |-> dec.tables[k].newstate[@[k]] + y.val[k]]]

\* _execute_sequences: literals, then a match, which may overlap what it
\* writes; at the end the literals that are left.  at counts the literals.
Execute ==
    /\ dec.pc = "execute"
    /\ IF dec.seqs = <<>>
       THEN dec' = [dec EXCEPT !.pc = AfterBlock(dec.last), !.seqs = <<>>,
                               !.out = @ \o SubSeq(dec.lits, dec.at + 1, Len(dec.lits))]
       ELSE LET q == Head(dec.seqs)
            IN  \E o \in {dec.out \o SubSeq(dec.lits, dec.at + 1, dec.at + q[1])} :
                   IF q[3] > 0 /\ Len(o) < q[2] THEN Raise
                   ELSE dec' = [dec EXCEPT !.at = @ + q[1], !.seqs = Tail(@),
                                   !.out = Loop(LAMBDA acc, j : Append(acc, acc[Len(o) - q[2] + j]), o, UpTo(q[3]))]

\* _xxh64, cut to four bytes: some function of the content.
XXH64(content) == Loop(LAMBDA acc, b : (acc * 31 + b + 1) % 65521, 1, content)

ContentChecksum ==
    /\ dec.pc = "checksum"
    /\ IF dec.checksum /\ Slice(dec.data, dec.pos, dec.pos + 4) # Little(XXH64(dec.out), 4) THEN Raise
       ELSE dec' = [dec EXCEPT !.pc = "done"]

DecodeStep ==
    \/ FrameHeader \/ BlockHeader \/ Literals \/ Weights \/ Tree \/ Streams
    \/ SequencesHeader \/ SequenceTable \/ SequenceStates \/ Sequence \/ Execute \/ ContentChecksum

=============================================================================
