----------------------------- MODULE ZstdFormat -----------------------------
(***************************************************************************)
(* Frames as RFC 8878 has them: what a compressor (rustic's) writes for a  *)
(* plan of blocks, and the content the plan stands for.  The decoder of    *)
(* Zstd is checked against it; nothing here is taken from the decoder but  *)
(* the FSE table, whose shape is a property of its own (TableDecodable).   *)
(***************************************************************************)
EXTENDS Zstd

\* A bit stream read backwards: the padding, the sentinel and the bits in the
\* order they are read, from the last byte to the first.
PackBack(bits) ==
    LET pad == 7 - (Len(bits) % 8)
    IN  Reverse(Chunks(Repeat(0, pad) \o <<1>> \o bits, 8))

\* Section 4.1.1: the counts of a table of 2^log, from symbol i on, with
\* left still to give.  A value takes a bit less when it is small.
LsbOf(v, n) == [i \in 1..n |-> (v \div 2^(i - 1)) % 2]

RECURSIVE WriteCounts(_, _, _)
WriteCounts(counts, i, left) ==
    LET c     == counts[i]
        v     == c + 1
        nb    == BitLength(left + 1)
        small == 2^nb - 2 - left
        code  == IF v < small THEN LsbOf(v, nb - 1)
                 ELSE IF v < 2^(nb - 1) THEN LsbOf(v, nb) ELSE LsbOf(v + small, nb)
        zeros == CHOOSE z \in 0..(Len(counts) - i) :
                     /\ \A j \in 1..z : counts[i + j] = 0
                     /\ counts[i + z + 1] # 0
        flags == Loop(LAMBDA acc, j : acc \o <<1, 1>>, <<>>, UpTo(zeros \div 3)) \o LsbOf(zeros % 3, 2)
    IN  IF left = 0 THEN <<>>
        ELSE IF c = 0 THEN code \o flags \o WriteCounts(counts, i + zeros + 1, left)
        ELSE code \o WriteCounts(counts, i + 1, left - (IF c < 0 THEN 1 ELSE c))

WriteDistribution(counts, log) ==
    LET bits == LsbOf(log - 5, 4) \o WriteCounts(counts, 1, 2^log)
    IN  LsbChunks(bits \o Repeat(0, (8 - (Len(bits) % 8)) % 8))

\* The states through which a table spells symbols: the first state of the
\* last one, and before it the state that leads there.
FirstState(t, c) == CHOOSE s \in DOMAIN t.symbol :
                        t.symbol[s] = c /\ \A u \in DOMAIN t.symbol : t.symbol[u] = c => s <= u

Leads(t, s, next) == next \in t.baseline[s]..(t.baseline[s] + 2^t.num_bits[s] - 1)

StatePath(t, codes) ==
    LET n == Len(codes)
        path[i \in 1..n] == IF i = n THEN FirstState(t, codes[n])
                            ELSE CHOOSE s \in DOMAIN t.symbol :
                                     t.symbol[s] = codes[i] /\ Leads(t, s, path[i + 1])
    IN  path

Transition(t, path, i) == ToBits(path[i + 1] - t.baseline[path[i]], t.num_bits[path[i]])

\* Section 4.2.1.2: two states take turns; weights has at least two.
WriteWeightStream(counts, log, weights) ==
    LET t    == BuildFse(counts, log)
        of(k) == SelectSeq(UpTo(Len(weights)), LAMBDA i : i % 2 = k)
        codes(k) == [j \in DOMAIN of(k) |-> weights[of(k)[j]]]
        path == [k \in {0, 1} |-> StatePath(t, codes(k))]
        step(acc, i) == acc \o Transition(t, path[i % 2], (i + 1) \div 2)
        start == ToBits(path[1][1], log) \o ToBits(path[0][1], log)
    IN  WriteDistribution(counts, log)
            \o PackBack(Loop(step, start, UpTo(Len(weights) - 2)))

\* Section 4.2.1.3: codes by increasing weight, then by symbol.  weights has
\* all symbols, the last one included.
HuffmanBits(weights) == BitLength(SumOf(DOMAIN weights, LAMBDA i : 2^weights[i] \div 2) - 1)

HuffmanCode(weights, c) ==
    LET w == weights[c + 1]
        before == {j \in DOMAIN weights : weights[j] > 0 /\
                       (weights[j] < w \/ (weights[j] = w /\ j < c + 1))}
    IN  ToBits(SumOf(before, LAMBDA j : 2^(weights[j] - 1)) \div 2^(w - 1),
               HuffmanBits(weights) + 1 - w)

HuffmanStream(weights, lits) ==
    PackBack(Loop(LAMBDA acc, c : acc \o HuffmanCode(weights, c), <<>>, lits))

\* The tree without its last weight: directly (fse = <<>>), or by FSE with
\* these counts at 32 states.
WriteTree(weights, fse) ==
    LET direct(w) == [i \in 1..(Len(w) \div 2) |-> w[2 * i - 1] * 16 + w[2 * i]]
        even(w) == IF Len(w) % 2 = 1 THEN Append(w, 0) ELSE w
        sized(stream) == <<Len(stream)>> \o stream
    IN  IF fse = <<>> THEN <<127 + Len(weights) - 1>> \o direct(even(Front(weights)))
        ELSE sized(WriteWeightStream(fse, 5, Front(weights)))

FourStreams(weights, lits) ==
    LET seg == (Len(lits) + 3) \div 4
        s(i) == HuffmanStream(weights, SubSeq(lits, (i - 1) * seg + 1,
                                              IF i = 4 THEN Len(lits) ELSE i * seg))
    IN  Little(Len(s(1)), 2) \o Little(Len(s(2)), 2) \o Little(Len(s(3)), 2)
            \o s(1) \o s(2) \o s(3) \o s(4)

\* A literals section: its kind, the size format, the literals and, for
\* Huffman, the weights and the counts they are written with.
WriteLiterals(p) ==
    LET n  == Len(p.lits)
        st == IF p.format = 0 THEN HuffmanStream(p.weights, p.lits)
              ELSE FourStreams(p.weights, p.lits)
        type == CASE p.kind = "raw" -> 0 [] p.kind = "rle" -> 1
                  [] p.kind = "huffman" -> 2 [] p.kind = "treeless" -> 3
        wide == CASE p.format < 2 -> 10 [] p.format = 2 -> 14 [] p.format = 3 -> 18
        coded(body) == LsbChunks(LsbOf(type, 2) \o LsbOf(p.format, 2) \o LsbOf(n, wide)
                                     \o LsbOf(Len(body), wide)) \o body
    IN  IF type < 2
        THEN (IF p.format \in {0, 2} THEN <<type + 4 * p.format + 8 * n>>
              ELSE Little(type + 4 * p.format + 16 * n, IF p.format = 1 THEN 2 ELSE 3))
             \o (IF type = 0 THEN p.lits ELSE <<p.lits[1]>>)
        ELSE coded((IF type = 2 THEN WriteTree(p.weights, p.fse) ELSE <<>>) \o st)

-----------------------------------------------------------------------------
(* Sequences.  One is <<literals length, offset value, match length>>.     *)

\* Section 3.1.1.5: the offset and the history by an offset value.
HistoryOf(rep, value, ll) ==
    LET i == IF ll = 0 THEN value + 1 ELSE value
    IN  IF value > 3 THEN <<value - 3, rep[1], rep[2]>>
        ELSE CASE i = 1 -> rep
               [] i = 2 -> <<rep[2], rep[1], rep[3]>>
               [] i = 3 -> <<rep[3], rep[1], rep[2]>>
               [] i = 4 -> <<rep[1] - 1, rep[1], rep[2]>>

Code(key, v) ==
    CASE key = "of" -> BitLength(v) - 1
      [] key = "ll" -> CHOOSE c \in 0..35 : v \in LL_CODE_BASE[c + 1]..(LL_CODE_BASE[c + 1] + 2^LL_CODE_BITS[c + 1] - 1)
      [] key = "ml" -> CHOOSE c \in 0..52 : v \in ML_CODE_BASE[c + 1]..(ML_CODE_BASE[c + 1] + 2^ML_CODE_BITS[c + 1] - 1)

Extra(key, v) ==
    LET c == Code(key, v)
    IN  CASE key = "of" -> ToBits(v - 2^c, c)
          [] key = "ll" -> ToBits(v - LL_CODE_BASE[c + 1], LL_CODE_BITS[c + 1])
          [] key = "ml" -> ToBits(v - ML_CODE_BASE[c + 1], ML_CODE_BITS[c + 1])

Field(key) == CASE key = "ll" -> 1 [] key = "of" -> 2 [] key = "ml" -> 3

CodesOf(key, seqs) == [i \in DOMAIN seqs |-> Code(key, seqs[i][Field(key)])]

\* The default distributions of section 3.1.1.3.2.2.
DefaultLL == <<4, 3, 2, 2, 2, 2, 2, 2, 2, 2, 2, 2, 2, 1, 1, 1, 2, 2, 2, 2, 2, 2, 2, 2,
               2, 3, 2, 1, 1, 1, 1, 1, -1, -1, -1, -1>>
DefaultML == <<1, 4, 3>> \o Repeat(2, 6) \o Repeat(1, 37) \o Repeat(-1, 7)
DefaultOF == Repeat(1, 6) \o <<2, 2, 2>> \o Repeat(1, 15) \o Repeat(-1, 5)

DefaultTable == [ll |-> BuildFse(DefaultLL, 6), of |-> BuildFse(DefaultOF, 5),
                 ml |-> BuildFse(DefaultML, 6)]

\* A distribution at 32 states over the codes in use: three for each, the
\* rest for the smallest.
CountsOf(codes) ==
    LET used == Range(codes)
    IN  [i \in 1..(Max(used) + 1) |->
            IF i - 1 = Min(used) THEN 32 - 3 * (Cardinality(used) - 1)
            ELSE IF i - 1 \in used THEN 3 ELSE 0]

\* The table a mode gives, and the bytes that describe it.
ModeTable(mode, key, codes, prev) ==
    CASE mode = 0 -> DefaultTable[key]
      [] mode = 1 -> [OneCode EXCEPT !.symbol[0] = codes[1]]
      [] mode = 2 -> BuildFse(CountsOf(codes), 5)
      [] mode = 3 -> prev[key]

ModeBytes(mode, codes) ==
    CASE mode = 1 -> <<codes[1]>> [] mode = 2 -> WriteDistribution(CountsOf(codes), 5)
      [] OTHER -> <<>>

TablesOf(p, prev) ==
    [k \in {"ll", "of", "ml"} |-> IF p.seqs = <<>> THEN prev[k]
                                  ELSE ModeTable(p.mode, k, CodesOf(k, p.seqs), prev)]

WriteSequenceStream(p, t, path) ==
    LET one(acc, i) ==
            acc \o Extra("of", p.seqs[i][2]) \o Extra("ml", p.seqs[i][3]) \o Extra("ll", p.seqs[i][1])
                \o (IF i = Len(p.seqs) THEN <<>>
                    ELSE Transition(t.ll, path.ll, i) \o Transition(t.ml, path.ml, i)
                         \o Transition(t.of, path.of, i))
    IN  PackBack(Loop(one, ToBits(path.ll[1], t.ll.log) \o ToBits(path.of[1], t.of.log)
                               \o ToBits(path.ml[1], t.ml.log), UpTo(Len(p.seqs))))

WriteSequences(p, prev) ==
    LET bytes(k) == ModeBytes(p.mode, CodesOf(k, p.seqs))
        stream(t) == WriteSequenceStream(p, t, [k \in {"ll", "of", "ml"} |->
                                                    StatePath(t[k], CodesOf(k, p.seqs))])
    IN  IF p.seqs = <<>> THEN <<0>>
        ELSE <<Len(p.seqs), p.mode * (64 + 16 + 4)>> \o bytes("ll") \o bytes("of") \o bytes("ml")
             \o stream(TablesOf(p, prev))

-----------------------------------------------------------------------------
(* Frames.  A block is raw, RLE or a literals section with sequences.      *)

WriteBlock(p, prev, last) ==
    LET type == CASE p.block = "raw" -> 0 [] p.block = "rle" -> 1 [] p.block = "compressed" -> 2
        headed(body) ==
            Little((IF last THEN 1 ELSE 0) + 2 * type
                       + 8 * (IF type = 1 THEN Len(p.lits) ELSE Len(body)), 3) \o body
    IN  headed(CASE type = 0 -> p.lits [] type = 1 -> <<p.lits[1]>>
                 [] type = 2 -> WriteLiterals(p) \o WriteSequences(p, prev))

\* What a block adds to the output, and the offset history after it.
Written(s, p) ==
    LET play(a, q) ==
            LET rep == HistoryOf(a.rep, q[2], q[1])
                o   == a.out \o SubSeq(p.lits, a.pos + 1, a.pos + q[1])
                n   == Len(o)
                m[i \in 1..(n + q[3])] == IF i <= n THEN o[i] ELSE m[i - rep[1]]
            IN  [out |-> [i \in 1..(n + q[3]) |-> m[i]], pos |-> a.pos + q[1], rep |-> rep]
        end == Loop(play, [out |-> s.out, pos |-> 0, rep |-> s.rep], p.seqs)
    IN  IF p.block = "compressed"
        THEN [out |-> end.out \o SubSeq(p.lits, end.pos + 1, Len(p.lits)), rep |-> end.rep]
        ELSE [s EXCEPT !.out = @ \o p.lits]

Content(plan) == Loop(Written, [out |-> <<>>, rep |-> <<1, 4, 8>>], plan).out

\* The header's choices: a window descriptor or a single segment, the bytes
\* of the content size, a checksum.
WriteFrame(plan, header) ==
    LET content == Content(plan)
        none == [k \in {"ll", "of", "ml"} |-> OneCode]
        one(s, i) == [out |-> s.out \o WriteBlock(plan[i], s.prev, i = Len(plan)),
                      prev |-> IF plan[i].block = "compressed" THEN TablesOf(plan[i], s.prev)
                               ELSE s.prev]
        blocks == Loop(one, [out |-> <<>>, prev |-> none], UpTo(Len(plan))).out
        size == CASE header.fcs = 0 -> (IF header.single THEN <<Len(content)>> ELSE <<>>)
                  [] header.fcs = 1 -> <<0, 0>> [] header.fcs = 2 -> Little(Len(content), 4)
                  [] header.fcs = 3 -> Little(Len(content), 4) \o <<0, 0, 0, 0>>
    IN  MAGIC
        \o <<64 * header.fcs + (IF header.single THEN 32 ELSE 0) + (IF header.checksum THEN 4 ELSE 0)>>
        \o (IF header.single THEN <<>> ELSE <<88>>) \o size \o blocks
        \o (IF header.checksum THEN Little(XXH64(content), 4) ELSE <<>>)

=============================================================================
