--------------------------- MODULE RecoveryProofs ---------------------------
(***************************************************************************)
(* Proofs about Recovery: what the restore scripts leave in the cache, what *)
(* an exit of 3 means, that a file in the target is whole, and that the     *)
(* reader accounts for every node of a snapshot, for any discs, damage,     *)
(* trees and numbers of runs, stops and prompts.                            *)
(***************************************************************************)
EXTENDS Recovery, FiniteSetTheorems, SequenceTheorems, WellFoundedInduction, TLAPS

-----------------------------------------------------------------------------
(* Numbers, order and loops                                                *)

\* A set of natural numbers has a least one.
LEMMA LeastExists ==
    ASSUME NEW S \in SUBSET Nat, S # {}
    PROVE  \E x \in S : \A y \in S : x <= y
<1>1. PICK x \in S : \A y \in S : ~(<<y, x>> \in OpToRel(<, Nat))
  BY NatLessThanWellFounded, WFMin
<1>2. \A y \in S : ~(y < x)
  BY <1>1 DEF OpToRel
<1> QED
  BY <1>2

\* Induction, with a set for the numbers of which something holds.
LEMMA SetInduction ==
    ASSUME NEW G, 0 \in G, \A n \in Nat : n \in G => n + 1 \in G
    PROVE  \A n \in Nat : n \in G
<1> SUFFICES ASSUME NEW n \in Nat, n \notin G PROVE FALSE
  OBVIOUS
<1> DEFINE B == {m \in Nat : m \notin G}
<1>1. B \in SUBSET Nat /\ B # {}
  OBVIOUS
<1>2. PICK x \in B : \A y \in B : x <= y
  <2> HIDE DEF B
  <2> QED
    BY <1>1, LeastExists
<1>3. x # 0 /\ x - 1 \in Nat /\ x - 1 \notin B
  BY <1>2
<1>4. (x - 1) + 1 \in G
  BY <1>3
<1>5. (x - 1) + 1 = x
  BY <1>3
<1> QED
  BY <1>2, <1>4, <1>5

\* A set of numbers up to N has a greatest one.
LEMMA GreatestExists ==
    ASSUME NEW N \in Nat, NEW S \in SUBSET (0..N), S # {}
    PROVE  \E x \in S : \A y \in S : y <= x
<1> DEFINE T == {N - x : x \in S}
<1>0. \A x \in S : x \in Int /\ N - x \in Nat
  OBVIOUS
<1>1. T \in SUBSET Nat /\ T # {}
  BY <1>0
<1>2. PICK z \in T : \A y \in T : z <= y
  <2> HIDE DEF T
  <2> QED
    BY <1>1, LeastExists
<1>3. PICK x \in S : z = N - x
  BY <1>2
<1>4. \A y \in S : N - x <= N - y
  BY <1>2, <1>3
<1>5. \A y \in S : y <= x
  BY <1>0, <1>4
<1> QED
  BY <1>5

\* Min and Max of labels.
LEMMA MinLabel ==
    ASSUME NEW S \in SUBSET Labels, S # {}
    PROVE  Min(S) \in S
<1>1. S \in SUBSET Nat
  BY SingleDriveAssumption DEF Labels
<1>2. \E x \in S : \A y \in S : x <= y
  BY <1>1, LeastExists
<1> QED
  BY <1>2 DEF Min

\* The same for the greatest label.
LEMMA MaxLabel ==
    ASSUME NEW S \in SUBSET Labels, S # {}
    PROVE  Max(S) \in S
<1>1. S \in SUBSET (0..Volumes) /\ Volumes \in Nat
  BY SingleDriveAssumption DEF Labels
<1>2. \E x \in S : \A y \in S : y <= x
  BY <1>1, GreatestExists
<1>3. \E x \in S : \A y \in S : x >= y
  BY <1>1, <1>2
<1> QED
  BY <1>3 DEF Max

\* The place of a number in a set: how many are below it.
Rank(S, x) == Cardinality({y \in S : y < x})

\* Every place of a finite set of numbers is somebody's.
LEMMA RankExists ==
    ASSUME NEW S \in SUBSET Nat, IsFiniteSet(S)
    PROVE  \A k \in Nat : k < Cardinality(S) => \E x \in S : Rank(S, x) = k
<1> DEFINE G == {k \in Nat : k < Cardinality(S) => \E x \in S : Rank(S, x) = k}
<1>0. Cardinality(S) \in Nat
  BY FS_CardinalityType
<1>1. 0 \in G
  <2> SUFFICES ASSUME 0 < Cardinality(S) PROVE \E x \in S : Rank(S, x) = 0
    OBVIOUS
  <2>1. S # {}
    BY FS_EmptySet
  <2>2. PICK x \in S : \A y \in S : x <= y
    BY <2>1, LeastExists
  <2>3. {y \in S : y < x} = {}
    <3>1. \A y \in S : ~(y < x)
      BY <2>2
    <3> QED
      BY <3>1
  <2> QED
    BY <2>3, FS_EmptySet DEF Rank
<1>2. ASSUME NEW k \in Nat, k \in G PROVE k + 1 \in G
  <2> SUFFICES ASSUME k + 1 < Cardinality(S) PROVE \E x \in S : Rank(S, x) = k + 1
    OBVIOUS
  <2>1. PICK x \in S : Rank(S, x) = k
    BY <1>0, <1>2
  <2> DEFINE B == {y \in S : y < x}
             A == {y \in S : x < y}
  <2>2. IsFiniteSet(B) /\ x \notin B
    BY FS_Subset
  <2>3. IsFiniteSet(B \cup {x}) /\ Cardinality(B \cup {x}) = k + 1
    BY <2>1, <2>2, FS_AddElement DEF Rank
  <2>4. A # {}
    <3>1. B \cup {x} # S
      BY <1>0, <2>3
    <3>2. PICK y \in S : y \notin B /\ y # x
      BY <3>1
    <3>3. x < y
      BY <3>2
    <3> QED
      BY <3>3
  <2>5. A \in SUBSET Nat
    OBVIOUS
  <2>6. PICK z \in A : \A y \in A : z <= y
    <3> HIDE DEF A
    <3> QED
      BY <2>4, <2>5, LeastExists
  <2>7. {y \in S : y < z} = B \cup {x}
    <3>1. z \in S /\ x < z
      BY <2>6
    <3>2. \A y \in S : y < z <=> y < x \/ y = x
      <4> SUFFICES ASSUME NEW y \in S PROVE y < z <=> y < x \/ y = x
        OBVIOUS
      <4>1. x < y => z <= y
        BY <2>6
      <4>2. x \in Nat /\ y \in Nat /\ z \in Nat
        BY <3>1
      <4> HIDE DEF A, B
      <4> QED
        BY <3>1, <4>1, <4>2
    <3> QED
      BY <3>2
  <2> QED
    BY <2>3, <2>6, <2>7 DEF Rank
<1>3. \A k \in Nat : k \in G
  <2> HIDE DEF G
  <2> QED
    BY <1>1, <1>2, SetInduction
<1> QED
  BY <1>3

\* sorted is a sequence of the elements of its set.
LEMMA SortedType ==
    ASSUME NEW S \in SUBSET Nat, IsFiniteSet(S)
    PROVE  sorted(S) \in Seq(S) /\ Len(sorted(S)) = Cardinality(S) /\ Cardinality(S) \in Nat
<1>1. Cardinality(S) \in Nat
  BY FS_CardinalityType
<1>2. ASSUME NEW i \in 1..Cardinality(S)
      PROVE  (CHOOSE x \in S : Cardinality({y \in S : y < x}) = i - 1) \in S
  <2>1. i - 1 \in Nat /\ i - 1 < Cardinality(S)
    BY <1>1
  <2>2. \E x \in S : Cardinality({y \in S : y < x}) = i - 1
    BY <2>1, RankExists DEF Rank
  <2> QED
    BY <2>2
<1>3. sorted(S) \in [1..Cardinality(S) -> S]
  BY <1>2 DEF sorted
<1> QED
  BY <1>1, <1>3

\* What is below n of a loop, as a function of the step.
LoopStates(D, a, f, n) ==
    f = [i \in 0..n |-> IF i = 0 THEN a ELSE D[<<f[i - 1], i>>]]

\* A loop whose step keeps to a set of states has its states in it.
LEMMA LoopExists ==
    ASSUME NEW n \in Nat, NEW X, NEW a \in X, NEW D \in [X \X (1..n) -> X]
    PROVE  \E f \in [0..n -> X] : LoopStates(D, a, f, n)
<1> DEFINE G == {k \in Nat : k <= n => \E f \in [0..k -> X] : LoopStates(D, a, f, k)}
<1>1. 0 \in G
  <2> DEFINE f == [i \in 0..0 |-> a]
  <2>1. f \in [0..0 -> X]
    OBVIOUS
  <2>2. f = [i \in 0..0 |-> IF i = 0 THEN a ELSE D[<<f[i - 1], i>>]]
    OBVIOUS
  <2> HIDE DEF f
  <2> QED
    BY <2>1, <2>2 DEF LoopStates
<1>2. ASSUME NEW k \in Nat, k \in G PROVE k + 1 \in G
  <2> SUFFICES ASSUME k + 1 <= n
               PROVE  \E f \in [0..(k + 1) -> X] : LoopStates(D, a, f, k + 1)
    OBVIOUS
  <2>1. PICK f \in [0..k -> X] : LoopStates(D, a, f, k)
    BY <1>2
  <2>2. k + 1 \in 1..n /\ f[k] \in X
    OBVIOUS
  <2> DEFINE v == D[<<f[k], k + 1>>]
             g == [i \in 0..(k + 1) |-> IF i = k + 1 THEN v ELSE f[i]]
  <2>3. v \in X
    BY <2>2
  <2>4. g \in [0..(k + 1) -> X]
    BY <2>3
  <2>5. ASSUME NEW i \in 0..(k + 1)
        PROVE  g[i] = IF i = 0 THEN a ELSE D[<<g[i - 1], i>>]
    <3>1. CASE i = k + 1
      <4>1. g[i] = v /\ g[i - 1] = f[k]
        BY <3>1
      <4> HIDE DEF g
      <4> QED
        BY <3>1, <4>1
    <3>2. CASE i # k + 1
      <4>1. i \in 0..k /\ g[i] = f[i]
        BY <3>2
      <4>2. f[i] = IF i = 0 THEN a ELSE D[<<f[i - 1], i>>]
        BY <2>1, <4>1 DEF LoopStates
      <4>3. i # 0 => g[i - 1] = f[i - 1]
        BY <4>1
      <4> HIDE DEF g
      <4> QED
        BY <4>1, <4>2, <4>3
    <3> QED
      BY <3>1, <3>2
  <2>6. g = [i \in 0..(k + 1) |-> g[i]]
    OBVIOUS
  <2> HIDE DEF g
  <2>7. LoopStates(D, a, g, k + 1)
    BY <2>5, <2>6 DEF LoopStates
  <2> QED
    BY <2>4, <2>7
<1>3. \A k \in Nat : k \in G
  <2> HIDE DEF G
  <2> QED
    BY <1>1, <1>2, SetInduction
<1> QED
  BY <1>3

-----------------------------------------------------------------------------
(* phase_ingest                                                            *)

\* What ingesting disc m into the cache c can come to.
IngestStates(w, m, c) ==
    [cache : {d \in CacheStates : d.meta = c.meta /\ d.list = c.list /\ d.corrupt = c.corrupt},
     bad : SUBSET {q \in Packs : w.state[m, q] = "bad"}, failed : BOOLEAN]

\* One pack of a disc.
LEMMA IngestPackType ==
    ASSUME NEW w, DiscsOK(w), NEW m \in Labels, NEW c \in CacheStates, NEW p,
           NEW s \in IngestStates(w, m, c)
    PROVE  IngestPack(w, m, s, p) \in IngestStates(w, m, c)
<1>1. CASE s.failed \/ s.cache.pack[p] # "none" \/ p \notin w.on[m]
  BY <1>1 DEF IngestPack
<1>2. CASE ~(s.failed \/ s.cache.pack[p] # "none" \/ p \notin w.on[m])
  <2>1. p \in Packs /\ w.state[m, p] \in {"good", "bad", "eio"}
    BY <1>2 DEF DiscsOK
  <2>2. ASSUME NEW v \in {"good", "bad"}
        PROVE  [s.cache EXCEPT !.pack[p] = v] \in {d \in CacheStates : d.meta = c.meta /\ d.list = c.list /\ d.corrupt = c.corrupt}
    BY DEF IngestStates, CacheStates
  <2>3. CASE w.state[m, p] = "good"
    <3>1. IngestPack(w, m, s, p) = [s EXCEPT !.cache.pack[p] = "good"]
      BY <1>2, <2>3 DEF IngestPack
    <3>2. [s EXCEPT !.cache.pack[p] = "good"] = [s EXCEPT !.cache = [s.cache EXCEPT !.pack[p] = "good"]]
      BY DEF IngestStates, CacheStates
    <3> QED
      BY <2>2, <3>1, <3>2 DEF IngestStates
  <2>4. CASE w.state[m, p] = "bad"
    <3>1. IngestPack(w, m, s, p) = [s EXCEPT !.bad = @ \cup {p}]
      BY <1>2, <2>4 DEF IngestPack
    <3>2. s.bad \cup {p} \in SUBSET {q \in Packs : w.state[m, q] = "bad"}
      BY <2>1, <2>4 DEF IngestStates
    <3> DEFINE B == s.bad \cup {p}
    <3>3. IngestPack(w, m, s, p) = [s EXCEPT !.bad = B]
      BY <3>1
    <3> HIDE DEF B
    <3> QED
      BY <3>2, <3>3 DEF IngestStates, B
  <2>5. CASE w.state[m, p] = "eio"
    <3>1. IngestPack(w, m, s, p) = [s EXCEPT !.cache.pack[p] = "bad", !.failed = TRUE]
      BY <1>2, <2>5 DEF IngestPack
    <3>2. [s EXCEPT !.cache.pack[p] = "bad", !.failed = TRUE]
             = [s EXCEPT !.cache = [s.cache EXCEPT !.pack[p] = "bad"], !.failed = TRUE]
      BY DEF IngestStates, CacheStates
    <3> QED
      BY <2>2, <3>1, <3>2 DEF IngestStates
  <2> QED
    BY <2>1, <2>3, <2>4, <2>5
<1> QED
  BY <1>1, <1>2

\* Any sequence of packs.
LEMMA IngestSomeType ==
    ASSUME NEW w, DiscsOK(w), NEW m \in Labels, NEW c \in CacheStates,
           NEW packs, Len(packs) \in Nat
    PROVE  IngestSome(w, c, m, packs) \in IngestStates(w, m, c)
<1> DEFINE X == IngestStates(w, m, c)
           n == Len(packs)
           a == [cache |-> c, bad |-> {}, failed |-> FALSE]
           D == [z \in X \X (1..n) |-> IngestPack(w, m, z[1], packs[z[2]])]
           Is(f) == f = [i \in 0..n |-> IF i = 0 THEN a ELSE IngestPack(w, m, f[i - 1], packs[i])]
           it == CHOOSE f : Is(f)
<1>1. IngestSome(w, c, m, packs) = it[n]
  BY DEF IngestSome, Loop
<1>2. a \in X
  BY DEF IngestStates
<1>3. D \in [X \X (1..n) -> X]
  BY IngestPackType
<1>4. \E f : Is(f)
  <2>1. PICK f \in [0..n -> X] : LoopStates(D, a, f, n)
    <3> HIDE DEF D, X, a
    <3> QED
      BY <1>2, <1>3, LoopExists
  <2>2. \A i \in 0..n : f[i] = IF i = 0 THEN a ELSE IngestPack(w, m, f[i - 1], packs[i])
    <3> SUFFICES ASSUME NEW i \in 0..n
                 PROVE  f[i] = IF i = 0 THEN a ELSE IngestPack(w, m, f[i - 1], packs[i])
      OBVIOUS
    <3>1. f[i] = IF i = 0 THEN a ELSE D[<<f[i - 1], i>>]
      BY <2>1 DEF LoopStates
    <3>2. i # 0 => D[<<f[i - 1], i>>] = IngestPack(w, m, f[i - 1], packs[i])
      <4> SUFFICES ASSUME i # 0 PROVE D[<<f[i - 1], i>>] = IngestPack(w, m, f[i - 1], packs[i])
        OBVIOUS
      <4>1. f[i - 1] \in X /\ i \in 1..n
        OBVIOUS
      <4> HIDE DEF X
      <4> QED
        BY <4>1
    <3> HIDE DEF D, a
    <3> QED
      BY <3>1, <3>2
  <2>3. f = [i \in 0..n |-> f[i]]
    OBVIOUS
  <2> HIDE DEF a
  <2> QED
    BY <2>2, <2>3
<1>5. Is(it)
  <2> HIDE DEF Is
  <2> QED
    BY <1>4, Zenon
<1>6. \A i \in 0..n : it[i] = IF i = 0 THEN a ELSE IngestPack(w, m, it[i - 1], packs[i])
  <2> HIDE DEF it, a
  <2> QED
    BY <1>5
<1>7. \A i \in Nat : i \in {k \in Nat : k <= n => it[k] \in X}
  <2> DEFINE G == {k \in Nat : k <= n => it[k] \in X}
  <2> HIDE DEF it, X, a
  <2>1. 0 \in G
    BY <1>2, <1>6
  <2>2. ASSUME NEW k \in Nat, k \in G PROVE k + 1 \in G
    <3> SUFFICES ASSUME k + 1 <= n PROVE it[k + 1] \in X
      OBVIOUS
    <3>1. it[k] \in X /\ k + 1 \in 0..n /\ k + 1 # 0 /\ (k + 1) - 1 = k
      BY <2>2
    <3>2. it[k + 1] = IngestPack(w, m, it[k], packs[k + 1])
      BY <1>6, <3>1
    <3> QED
      BY <3>1, <3>2, IngestPackType DEF X
  <2> HIDE DEF G
  <2>3. \A i \in Nat : i \in G
    BY <2>1, <2>2, SetInduction
  <2> QED
    BY <2>3 DEF G
<1>8. it[n] \in X
  <2> HIDE DEF it, X
  <2> QED
    BY <1>7
<1> QED
  BY <1>1, <1>8

\* The file of pack p on disc m does not hash right.
Damaged(w, m, p) == w.state[m, p] = "bad"

\* The state that is written says of every pack it notes that the disc wanted
\* has a damaged file of it, if that is the disc that was read.
LEMMA IngestType ==
    ASSUME NEW w, DiscsOK(w), NEW m \in Labels, NEW c \in CacheStates, NEW label \in Labels,
           c.list \in Labels
    PROVE  /\ Ingest(w, c, m, label) \in CacheStates
           /\ Ingest(w, c, m, label).list = c.list
           /\ Ingest(w, c, m, label).meta = c.meta
           /\ \A p \in Packs : \/ Ingest(w, c, m, label).corrupt[p] = c.corrupt[p]
                               \/ Ingest(w, c, m, label).corrupt[p] = label /\ Damaged(w, m, p)
<1> DEFINE S == {p \in Listed(w, c.list) : label \in LabelsOf(w, c.list, p)}
           s == IngestSome(w, c, m, Wanted(w, c.list, label))
<1>1. S \in SUBSET Nat /\ IsFiniteSet(S)
  <2>1. S \in SUBSET Packs
    BY DEF Listed
  <2> QED
    BY <2>1, SingleDriveAssumption, FS_Subset
<1>2. Len(Wanted(w, c.list, label)) \in Nat
  BY <1>1, SortedType DEF Wanted
<1>3. s \in IngestStates(w, m, c)
  BY <1>2, IngestSomeType
<1> HIDE DEF s
<1>4. /\ s.cache \in CacheStates /\ s.cache.meta = c.meta /\ s.cache.list = c.list
      /\ s.cache.corrupt = c.corrupt /\ \A p \in s.bad : Damaged(w, m, p)
  BY <1>3 DEF IngestStates, Damaged
<1> DEFINE k == [p \in Packs |-> IF p \in s.bad THEN label ELSE s.cache.corrupt[p]]
<1>5. Ingest(w, c, m, label) = IF s.failed \/ c.torn THEN s.cache ELSE [s.cache EXCEPT !.corrupt = k]
  BY DEF Ingest, s
<1>6. k \in [Packs -> {0} \cup Labels]
  BY <1>4 DEF CacheStates
<1>7. CASE s.failed \/ c.torn
  BY <1>4, <1>5, <1>7
<1>8. CASE ~(s.failed \/ c.torn)
  <2>1. Ingest(w, c, m, label) = [s.cache EXCEPT !.corrupt = k]
    BY <1>5, <1>8
  <2>2. \A p \in Packs : k[p] = c.corrupt[p] \/ (k[p] = label /\ Damaged(w, m, p))
    BY <1>4
  <2> HIDE DEF k
  <2>3. /\ [s.cache EXCEPT !.corrupt = k] \in CacheStates
        /\ [s.cache EXCEPT !.corrupt = k].corrupt = k
        /\ [s.cache EXCEPT !.corrupt = k].list = s.cache.list
        /\ [s.cache EXCEPT !.corrupt = k].meta = s.cache.meta
    BY <1>4, <1>6 DEF CacheStates
  <2> QED
    BY <1>4, <2>1, <2>2, <2>3
<1> QED
  BY <1>7, <1>8

\* A stop in the middle of it leaves a cache.
LEMMA IngestKilledType ==
    ASSUME NEW w, DiscsOK(w), NEW m \in Labels, NEW c \in CacheStates,
           NEW S, NEW packs \in Seq(S), NEW n \in 0..Len(packs)
    PROVE  IngestKilled(w, c, m, packs, n) \in CacheStates
<1> DEFINE s == IngestSome(w, c, m, SubSeq(packs, 1, n)).cache
<1>1. Len(SubSeq(packs, 1, n)) \in Nat
  <2>1. 1 \in 1..(Len(packs) + 1) /\ n \in 0..Len(packs) /\ n \in Nat
    OBVIOUS
  <2>2. SubSeq(packs, 1, n) \in Seq(S)
    BY <2>1, SubSeqProperties
  <2> QED
    BY <2>2
<1>2. s \in CacheStates
  BY <1>1, IngestSomeType DEF IngestStates
<1> HIDE DEF s
<1>3. [s EXCEPT !.pack[packs[n + 1]] = "bad"] \in CacheStates
  BY <1>2 DEF CacheStates
<1> QED
  BY <1>2, <1>3 DEF IngestKilled, s

\* So does one while the state file is written.
LEMMA IngestTornType ==
    ASSUME NEW w, DiscsOK(w), NEW m \in Labels, NEW c \in CacheStates, NEW packs, Len(packs) \in Nat
    PROVE  IngestTorn(w, c, m, packs) \in CacheStates
<1> DEFINE s == IngestSome(w, c, m, packs)
<1>1. s.cache \in CacheStates
  BY IngestSomeType DEF IngestStates
<1> HIDE DEF s
<1>2. [s.cache EXCEPT !.torn = TRUE] \in CacheStates
  BY <1>1 DEF CacheStates
<1> QED
  BY <1>1, <1>2 DEF IngestTorn, s

-----------------------------------------------------------------------------
(* Metadata                                                                *)

MetaStates == [METADATA_SUBDIRS -> (-Volumes)..Volumes]

\* What is copied, and what a stop leaves of copying and removing.
LEMMA MetaTypes ==
    ASSUME NEW meta \in MetaStates, NEW i \in Labels
    PROVE  /\ NoMeta \in MetaStates /\ Seed(meta, i) \in MetaStates
           /\ SeedKilled(meta, i) \in SUBSET MetaStates /\ ClearKilled(meta) \in SUBSET MetaStates
<1>1. /\ Volumes \in Nat /\ 0 \in (-Volumes)..Volumes /\ i \in (-Volumes)..Volumes
      /\ -i \in (-Volumes)..Volumes
  BY SingleDriveAssumption DEF Labels
<1>2. \A k \in METADATA_SUBDIRS : meta[k] \in (-Volumes)..Volumes /\ -meta[k] \in (-Volumes)..Volumes
  BY <1>1 DEF MetaStates
<1>3. NoMeta \in MetaStates
  BY <1>1 DEF NoMeta, MetaStates
<1>4. Seed(meta, i) \in MetaStates
  BY <1>1, <1>2 DEF Seed, MetaStates
<1>5. SeedKilled(meta, i) \in SUBSET MetaStates
  BY <1>1, <1>2 DEF SeedKilled, MetaStates
<1>6. ClearKilled(meta) \in SUBSET MetaStates
  BY <1>1, <1>2 DEF ClearKilled, MetaStates
<1> QED
  BY <1>3, <1>4, <1>5, <1>6

\* A cache with other metadata.
LEMMA WithMeta ==
    ASSUME NEW c \in CacheStates, NEW m \in MetaStates
    PROVE  [c EXCEPT !.meta = m] \in CacheStates /\ c.meta \in MetaStates
  BY DEF CacheStates, MetaStates

-----------------------------------------------------------------------------
(* Images and the pick list                                                *)

\* All images, one after the other.
LEMMA GatherAllType ==
    ASSUME NEW w, DiscsOK(w), NEW c \in CacheStates, NEW images \in Seq(Labels)
    PROVE  GatherAll(w, c, images) \in {d \in CacheStates : d.corrupt = c.corrupt}
<1> DEFINE X == {d \in CacheStates : d.corrupt = c.corrupt}
           n == Len(images)
           T(d, m) == IngestSome(w, d, m, sorted(w.on[m])).cache
           D == [z \in X \X (1..n) |-> T(z[1], images[z[2]])]
           Is(f) == f = [i \in 0..n |-> IF i = 0 THEN c ELSE T(f[i - 1], images[i])]
           it == CHOOSE f : Is(f)
<1>1. GatherAll(w, c, images) = it[n]
  BY DEF GatherAll, Loop
<1>2. c \in X /\ n \in Nat
  OBVIOUS
<1>3. ASSUME NEW d \in X, NEW m \in Labels PROVE T(d, m) \in X
  <2>1. w.on[m] \in SUBSET Nat /\ IsFiniteSet(w.on[m])
    <3>1. w.on[m] \in SUBSET Packs
      BY DEF DiscsOK
    <3> QED
      BY <3>1, SingleDriveAssumption, FS_Subset
  <2>2. Len(sorted(w.on[m])) \in Nat
    BY <2>1, SortedType
  <2>3. IngestSome(w, d, m, sorted(w.on[m])) \in IngestStates(w, m, d)
    BY <2>2, IngestSomeType
  <2> QED
    BY <2>3 DEF IngestStates
<1> HIDE DEF T
<1>4. D \in [X \X (1..n) -> X]
  <2>1. \A z \in X \X (1..n) : T(z[1], images[z[2]]) \in X
    <3> SUFFICES ASSUME NEW z \in X \X (1..n) PROVE T(z[1], images[z[2]]) \in X
      OBVIOUS
    <3>1. z[1] \in X /\ images[z[2]] \in Labels
      BY ElementOfSeq
    <3> HIDE DEF X
    <3> QED
      BY <1>3, <3>1
  <2> QED
    BY <2>1
<1>5. \E f : Is(f)
  <2>1. PICK f \in [0..n -> X] : LoopStates(D, c, f, n)
    <3> HIDE DEF D, X, n
    <3> QED
      BY <1>2, <1>4, LoopExists
  <2>2. \A i \in 0..n : f[i] = IF i = 0 THEN c ELSE T(f[i - 1], images[i])
    <3> SUFFICES ASSUME NEW i \in 0..n
                 PROVE  f[i] = IF i = 0 THEN c ELSE T(f[i - 1], images[i])
      OBVIOUS
    <3>1. f[i] = IF i = 0 THEN c ELSE D[<<f[i - 1], i>>]
      BY <2>1 DEF LoopStates
    <3>2. i # 0 => D[<<f[i - 1], i>>] = T(f[i - 1], images[i])
      <4> SUFFICES ASSUME i # 0 PROVE D[<<f[i - 1], i>>] = T(f[i - 1], images[i])
        OBVIOUS
      <4>1. f[i - 1] \in X /\ i \in 1..n
        OBVIOUS
      <4> HIDE DEF X
      <4> QED
        BY <4>1
    <3> HIDE DEF D
    <3> QED
      BY <3>1, <3>2
  <2>3. f = [i \in 0..n |-> f[i]]
    OBVIOUS
  <2> QED
    BY <2>2, <2>3
<1>6. Is(it)
  <2> HIDE DEF Is
  <2> QED
    BY <1>5, Zenon
<1>7. \A i \in 0..n : it[i] = IF i = 0 THEN c ELSE T(it[i - 1], images[i])
  <2> HIDE DEF it
  <2> QED
    BY <1>6
<1>8. \A i \in Nat : i \in {k \in Nat : k <= n => it[k] \in X}
  <2> DEFINE G == {k \in Nat : k <= n => it[k] \in X}
  <2> HIDE DEF it, X
  <2>1. 0 \in G
    BY <1>2, <1>7
  <2>2. ASSUME NEW k \in Nat, k \in G PROVE k + 1 \in G
    <3> SUFFICES ASSUME k + 1 <= n PROVE it[k + 1] \in X
      OBVIOUS
    <3>1. it[k] \in X /\ k + 1 \in 0..n /\ k + 1 # 0 /\ (k + 1) - 1 = k /\ k + 1 \in 1..n
      BY <1>2, <2>2
    <3>2. it[k + 1] = T(it[k], images[k + 1])
      BY <1>7, <3>1
    <3>3. images[k + 1] \in Labels
      BY <3>1, ElementOfSeq
    <3> QED
      BY <1>3, <3>1, <3>2, <3>3
  <2> HIDE DEF G
  <2>3. \A i \in Nat : i \in G
    BY <2>1, <2>2, SetInduction
  <2> QED
    BY <2>3 DEF G
<1>9. it[n] \in X
  <2> HIDE DEF it, X
  <2> QED
    BY <1>2, <1>8
<1> QED
  BY <1>1, <1>9

\* Sets of labels and of packs, in order.
LEMMA SortedLabels ==
    ASSUME NEW S \in SUBSET Labels
    PROVE  sorted(S) \in Seq(Labels)
<1>1. S \in SUBSET Nat /\ IsFiniteSet(S)
  <2>1. IsFiniteSet(Labels) /\ Labels \in SUBSET Nat
    BY SingleDriveAssumption, FS_Interval DEF Labels
  <2> QED
    BY <2>1, FS_Subset
<1>2. sorted(S) \in Seq(S)
  BY <1>1, SortedType
<1> QED
  BY <1>2

\* The same for packs.
LEMMA SortedPacks ==
    ASSUME NEW S \in SUBSET Packs
    PROVE  sorted(S) \in Seq(Packs) /\ Len(sorted(S)) = Cardinality(S)
<1>1. S \in SUBSET Nat /\ IsFiniteSet(S)
  BY SingleDriveAssumption, FS_Subset
<1>2. sorted(S) \in Seq(S) /\ Len(sorted(S)) = Cardinality(S)
  BY <1>1, SortedType
<1> QED
  BY <1>2

\* The discs of a pick list are labels.
LEMMA PickListType ==
    ASSUME NEW w, DiscsOK(w), NEW i \in Labels
    PROVE  PickListVolumes(w, i) \in Seq(Labels)
<1>1. ASSUME NEW p \in Listed(w, i) PROVE Primary(w, i, p) \in Labels
  <2>1. LabelsOf(w, i, p) \in SUBSET Labels /\ LabelsOf(w, i, p) # {}
    BY DEF Listed, LabelsOf, DiscsOK
  <2> QED
    BY <2>1, MinLabel DEF Primary
<1>2. {Primary(w, i, p) : p \in Listed(w, i)} \in SUBSET Labels
  BY <1>1
<1> QED
  BY <1>2, SortedLabels DEF PickListVolumes

\* A stop while images are extracted leaves a cache.
LEMMA GatherKilledType ==
    ASSUME NEW w, DiscsOK(w), w.at # {}, NEW c \in CacheStates, NEW k \in DOMAIN Images(w), NEW p \in Packs
    PROVE  GatherKilled(w, c, Images(w), k, p) \in CacheStates
<1> DEFINE images == Images(w)
<1>1. images \in Seq(Labels)
  BY SortedLabels DEF Images, DiscsOK
<1> HIDE DEF images
<1>2. k \in 1..Len(images) /\ images[k] \in Labels
  BY <1>1, ElementOfSeq DEF images
<1>3. SubSeq(images, 1, k - 1) \in Seq(Labels)
  <2>1. Len(images) \in Nat /\ 1 \in 1..(Len(images) + 1) /\ k - 1 \in 0..Len(images)
    BY <1>1, <1>2
  <2> QED
    BY <1>1, <2>1, SubSeqProperties
<1> DEFINE d == GatherAll(w, c, SubSeq(images, 1, k - 1))
           S == w.on[images[k]]
           B == {q \in S : q < p}
<1>4. d \in CacheStates
  BY <1>3, GatherAllType
<1>5. S \in SUBSET Packs
  BY <1>2 DEF DiscsOK
<1>6. sorted(S) \in Seq(Packs) /\ Len(sorted(S)) = Cardinality(S)
  <2> HIDE DEF S
  <2> QED
    BY <1>5, SortedPacks
<1>7. Cardinality(B) \in 0..Len(sorted(S))
  <2>1. IsFiniteSet(S)
    BY <1>5, SingleDriveAssumption, FS_Subset
  <2>2. B \in SUBSET S
    OBVIOUS
  <2> HIDE DEF B, S
  <2>3. IsFiniteSet(B) /\ Cardinality(B) <= Cardinality(S)
    BY <2>1, <2>2, FS_Subset
  <2>4. Cardinality(B) \in Nat /\ Cardinality(S) \in Nat
    BY <2>1, <2>3, FS_CardinalityType
  <2> QED
    BY <1>6, <2>3, <2>4
<1> DEFINE n == Cardinality(B)
           packs == sorted(S)
<1>8. n \in 0..Len(packs) /\ packs \in Seq(Packs)
  BY <1>6, <1>7
<1> DEFINE e == IngestKilled(w, d, images[k], packs, n)
           meta == Seed(c.meta, Max(w.at))
<1>9. GatherKilled(w, c, Images(w), k, p) = [e EXCEPT !.meta = meta]
  BY DEF GatherKilled, images
<1>10. meta \in MetaStates
  <2>1. w.at \in SUBSET Labels /\ w.at # {}
    BY DEF DiscsOK
  <2>2. Max(w.at) \in Labels
    BY <2>1, MaxLabel
  <2>3. c.meta \in MetaStates
    BY DEF CacheStates, MetaStates
  <2> QED
    BY <2>2, <2>3, MetaTypes
<1> HIDE DEF d, packs, n
<1>11. e \in CacheStates
  BY <1>2, <1>4, <1>8, IngestKilledType
<1> HIDE DEF e, meta
<1> QED
  BY <1>9, <1>10, <1>11, WithMeta

-----------------------------------------------------------------------------
(* The scripts                                                             *)

\* What the discs of a situation are.
LEMMA DriveFacts ==
    ASSUME DriveInv
    PROVE  /\ DiscsOK(world) /\ sh \in ScriptStates /\ cache \in CacheStates
           /\ \A i \in Labels : world.session[i] \in DOMAIN SnapshotsOf
           /\ DOMAIN world.blob \cap DOMAIN TreeOf = {}
           /\ \A run \in RunsIn(world) : ScriptRun(run) \/ ReaderRun(run)
<1>1. PICK c \in Cases : world = c.world
  BY DEF DriveInv
<1>2. sh \in ScriptStates /\ cache \in CacheStates
  BY DEF DriveInv
<1>3. /\ DiscsOK(c.world) /\ \A i \in Labels : c.world.session[i] \in DOMAIN SnapshotsOf
      /\ DOMAIN c.world.blob \cap DOMAIN TreeOf = {}
  BY CasesAssumption
<1>4. \A run \in RunsIn(c.world) : ScriptRun(run) \/ ReaderRun(run)
  BY RunsAssumption
<1> QED
  BY <1>1, <1>2, <1>3, <1>4

\* An empty work directory.
LEMMA NoCacheType == NoCache \in CacheStates /\ \A p \in Packs : NoCache.corrupt[p] = 0
<1>1. NoMeta \in [METADATA_SUBDIRS -> (-Volumes)..Volumes]
  BY SingleDriveAssumption DEF NoMeta
<1> QED
  BY <1>1 DEF NoCache, CacheStates

\* The end of a script, with any answer but 3.
LEMMA ExitKeeps ==
    ASSUME DriveInv, NEW code \in Nat, code # 3, Exit(code), rd'.pc = "idle"
    PROVE  DriveInv'
<1>1. world' = world /\ sh' = [sh EXCEPT !.pc = "idle", !.rc = code, !.mnt = 0]
  BY DEF Exit
<1>2. sh \in ScriptStates /\ cache \in CacheStates
  BY DEF DriveInv
<1>3. sh' \in ScriptStates /\ sh'.pc = "idle" /\ sh'.rc = code /\ sh'.calm = sh.calm
  BY <1>1, <1>2 DEF ScriptStates
<1>4. cache' = cache \/ cache' = NoCache
  BY DEF Exit
<1>5. cache' \in CacheStates
  BY <1>2, <1>4, NoCacheType
<1>6. sh'.calm => \A p \in Packs : cache'.corrupt[p] # 0 => world.state[cache'.corrupt[p], p] = "bad"
  BY <1>3, <1>4, NoCacheType DEF DriveInv
<1>7. CompleteIsIntact' /\ ExitThreeForCause'
  BY <1>3 DEF CompleteIsIntact, ExitThreeForCause
<1>8. \E c \in Cases : world' = c.world
  BY <1>1 DEF DriveInv
<1> QED
  BY <1>1, <1>3, <1>5, <1>6, <1>7, <1>8 DEF DriveInv

\* A stop, whatever is left in the work directory.
LEMMA StopKeeps ==
    ASSUME DriveInv, world' = world, cache' \in CacheStates, rd'.pc = "idle",
           sh' \in ScriptStates, sh'.pc = "idle", sh'.rc = 137, sh'.calm = FALSE
    PROVE  DriveInv'
<1>1. CompleteIsIntact' /\ ExitThreeForCause'
  BY DEF CompleteIsIntact, ExitThreeForCause
<1>2. \E c \in Cases : world' = c.world
  BY DEF DriveInv
<1> QED
  BY <1>1, <1>2 DEF DriveInv

\* A script that goes on, neither to its last phase nor to its end.
LEMMA GoesOn ==
    ASSUME DriveInv, world' = world, sh' \in ScriptStates, cache' \in CacheStates,
           sh'.pc \in {"boot", "loop", "upgrade", "ingest", "extract"}, rd'.pc = "idle",
           sh'.pc = "extract" => sh'.tool = "directory",
           sh'.pc \in {"loop", "upgrade", "ingest"} => cache'.list \in Labels,
           sh'.pc \in {"upgrade", "ingest"} =>
               sh'.mnt \in Labels /\ sh'.want \in Labels /\ (sh'.calm => sh'.mnt = sh'.want),
           sh'.calm => \A p \in Packs :
               cache'.corrupt[p] # 0 => world.state[cache'.corrupt[p], p] = "bad"
    PROVE  DriveInv'
<1>1. CompleteIsIntact' /\ ExitThreeForCause'
  BY DEF CompleteIsIntact, ExitThreeForCause
<1>2. \E c \in Cases : world' = c.world
  BY DEF DriveInv
<1> QED
  BY <1>1, <1>2 DEF DriveInv

\* The pick list and the metadata are taken from a disc.
LEMMA BootstrapType ==
    ASSUME NEW c \in CacheStates, NEW i \in Labels, NEW reseed \in BOOLEAN
    PROVE  /\ Bootstrap(c, i, reseed) \in CacheStates
           /\ Bootstrap(c, i, reseed).list = i
           /\ Bootstrap(c, i, reseed).corrupt = c.corrupt
<1> DEFINE m == Seed(IF reseed THEN NoMeta ELSE c.meta, i)
<1>1. m \in [METADATA_SUBDIRS -> (-Volumes)..Volumes]
  <2>1. c.meta \in MetaStates
    BY DEF CacheStates, MetaStates
  <2>2. NoMeta \in MetaStates
    BY <2>1, MetaTypes
  <2> QED
    BY <2>1, <2>2, MetaTypes DEF MetaStates
<1>2. Bootstrap(c, i, reseed) = [c EXCEPT !.list = i, !.meta = m]
  BY DEF Bootstrap
<1> HIDE DEF m
<1> QED
  BY <1>1, <1>2 DEF CacheStates

\* Phase 1.
LEMMA BootDiscKeeps ==
    ASSUME DriveInv, rd'.pc = "idle", NEW i \in Labels, BootDisc(i)
    PROVE  DriveInv'
<1>1. /\ world' = world /\ cache' = Bootstrap(cache, i, FALSE)
      /\ sh' = [sh EXCEPT !.pc = "loop", !.mnt = i, !.fresh = i, !.vols = PickListVolumes(world, i)]
  BY DEF BootDisc
<1>2. sh \in ScriptStates /\ cache \in CacheStates /\ PickListVolumes(world, i) \in Seq(Labels)
  BY DriveFacts, PickListType
<1>3. sh' \in ScriptStates /\ sh'.pc = "loop" /\ sh'.calm = sh.calm
  <2> DEFINE v == PickListVolumes(world, i)
  <2> HIDE DEF v
  <2>1. sh' = [sh EXCEPT !.pc = "loop", !.mnt = i, !.fresh = i, !.vols = v]
    BY <1>1 DEF v
  <2> QED
    BY <1>2, <2>1 DEF ScriptStates, v
<1>4. cache' \in CacheStates /\ cache'.list = i /\ cache'.corrupt = cache.corrupt
  BY <1>1, <1>2, BootstrapType
<1>5. sh'.calm => \A p \in Packs : cache'.corrupt[p] # 0 => world.state[cache'.corrupt[p], p] = "bad"
  BY <1>3, <1>4 DEF DriveInv
<1> QED
  BY <1>1, <1>3, <1>4, <1>5, GoesOn

\* A torn state file ends the script.
LEMMA BootStuckKeeps ==
    ASSUME DriveInv, rd'.pc = "idle", NEW i \in Labels, BootStuck(i)
    PROVE  DriveInv'
<1>1. /\ world' = world /\ cache' = Bootstrap(cache, i, FALSE)
      /\ sh' = [sh EXCEPT !.pc = "idle", !.rc = 1, !.fresh = i]
  BY DEF BootStuck
<1>2. sh \in ScriptStates /\ cache \in CacheStates
  BY DriveFacts
<1>3. sh' \in ScriptStates /\ sh'.pc = "idle" /\ sh'.rc = 1 /\ sh'.calm = sh.calm
  BY <1>1, <1>2 DEF ScriptStates
<1>4. cache' \in CacheStates /\ cache'.corrupt = cache.corrupt
  BY <1>1, <1>2, BootstrapType
<1>5. sh'.calm => \A p \in Packs : cache'.corrupt[p] # 0 => world.state[cache'.corrupt[p], p] = "bad"
  BY <1>3, <1>4 DEF DriveInv
<1>6. CompleteIsIntact' /\ ExitThreeForCause'
  BY <1>3 DEF CompleteIsIntact, ExitThreeForCause
<1>7. \E c \in Cases : world' = c.world
  BY <1>1 DEF DriveInv
<1> QED
  BY <1>1, <1>3, <1>4, <1>5, <1>6, <1>7 DEF DriveInv

\* The wanted disc, or another one, is in the drive.
LEMMA InsertDiscKeeps ==
    ASSUME DriveInv, rd'.pc = "idle", NEW i \in Labels, InsertDisc(i)
    PROVE  DriveInv'
<1>1. /\ world' = world /\ cache' = cache
      /\ sh' = [sh EXCEPT !.mnt = i, !.want = Turn, !.idx = @ + 1, !.pc = "upgrade",
                          !.calm = @ /\ i = Turn]
      /\ sh.pc = "loop" /\ sh.idx < Len(sh.vols)
  BY DEF InsertDisc, Looping
<1>2. sh \in ScriptStates /\ cache \in CacheStates
  BY DriveFacts
<1>3. Turn \in Labels
  <2>1. sh.vols \in Seq(Labels) /\ sh.idx + 1 \in 1..Len(sh.vols)
    BY <1>1, <1>2 DEF ScriptStates
  <2> QED
    BY <2>1, ElementOfSeq DEF Turn
<1>4. /\ sh' \in ScriptStates /\ sh'.pc = "upgrade" /\ sh'.mnt = i /\ sh'.want = Turn
      /\ sh'.calm = (sh.calm /\ i = Turn)
  <2> DEFINE t == Turn
             b == sh.calm /\ i = Turn
  <2>1. t \in Labels /\ b \in BOOLEAN /\ sh' = [sh EXCEPT !.mnt = i, !.want = t, !.idx = sh.idx + 1,
                                              !.pc = "upgrade", !.calm = b]
    BY <1>1, <1>3
  <2> HIDE DEF t, b
  <2>2. sh.idx + 1 \in Nat /\ sh \in ScriptStates
    BY <1>2 DEF ScriptStates
  <2>3. sh' \in ScriptStates
    BY <2>1, <2>2 DEF ScriptStates
  <2>4. sh'.pc = "upgrade" /\ sh'.mnt = i /\ sh'.want = t /\ sh'.calm = b
    BY <2>1, <2>2 DEF ScriptStates
  <2> QED
    BY <2>3, <2>4 DEF t, b
<1>5. sh'.calm => \A p \in Packs : cache'.corrupt[p] # 0 => world.state[cache'.corrupt[p], p] = "bad"
  BY <1>1, <1>4 DEF DriveInv
<1>6. cache.list \in Labels
  BY <1>1 DEF DriveInv
<1> QED
  BY <1>1, <1>2, <1>3, <1>4, <1>5, <1>6, GoesOn

\* A disc is skipped.
LEMMA SkipDiscKeeps ==
    ASSUME DriveInv, rd'.pc = "idle", SkipDisc
    PROVE  DriveInv'
<1>1. /\ world' = world /\ cache' = cache /\ sh.pc = "loop"
      /\ sh' = [sh EXCEPT !.idx = @ + 1, !.mnt = 0, !.calm = FALSE]
  BY DEF SkipDisc, Looping
<1>2. sh \in ScriptStates /\ cache \in CacheStates /\ cache.list \in Labels
  BY <1>1 DEF DriveInv
<1>3. sh' \in ScriptStates /\ sh'.pc = "loop" /\ sh'.calm = FALSE
  <2>1. sh.idx + 1 \in Nat
    BY <1>2 DEF ScriptStates
  <2>2. sh' \in ScriptStates
    BY <1>1, <1>2, <2>1 DEF ScriptStates
  <2>3. sh'.pc = "loop" /\ sh'.calm = FALSE
    BY <1>1, <1>2 DEF ScriptStates
  <2> QED
    BY <2>2, <2>3
<1> QED
  BY <1>1, <1>2, <1>3, GoesOn

\* The organic upgrade.
LEMMA UpgradeKeeps ==
    ASSUME DriveInv, rd'.pc = "idle", Upgrade
    PROVE  DriveInv'
<1>1. world' = world /\ sh.pc = "upgrade"
  BY DEF Upgrade
<1>2. /\ sh \in ScriptStates /\ cache \in CacheStates /\ cache.list \in Labels
      /\ sh.mnt \in Labels /\ sh.want \in Labels /\ (sh.calm => sh.mnt = sh.want)
  BY <1>1 DEF DriveInv
<1>3. PickListVolumes(world, sh.mnt) \in Seq(Labels)
  BY <1>2, DriveFacts, PickListType
<1>4. CASE sh.mnt > sh.fresh
  <2>1. /\ cache' = Bootstrap(cache, sh.mnt, TRUE)
        /\ sh' = [sh EXCEPT !.pc = "ingest", !.fresh = sh.mnt, !.vols = PickListVolumes(world, sh.mnt)]
    BY <1>4 DEF Upgrade
  <2> DEFINE v == PickListVolumes(world, sh.mnt)
  <2> HIDE DEF v
  <2>2. sh' = [sh EXCEPT !.pc = "ingest", !.fresh = sh.mnt, !.vols = v] /\ v \in Seq(Labels)
    BY <1>3, <2>1 DEF v
  <2>3. /\ sh' \in ScriptStates /\ sh'.pc = "ingest" /\ sh'.calm = sh.calm
        /\ sh'.mnt = sh.mnt /\ sh'.want = sh.want
    BY <1>2, <2>2 DEF ScriptStates
  <2>4. cache' \in CacheStates /\ cache'.list = sh.mnt /\ cache'.corrupt = cache.corrupt
    BY <1>2, <2>1, BootstrapType
  <2>5. sh'.calm => \A p \in Packs : cache'.corrupt[p] # 0 => world.state[cache'.corrupt[p], p] = "bad"
    BY <2>3, <2>4 DEF DriveInv
  <2> QED
    BY <1>1, <1>2, <2>3, <2>4, <2>5, GoesOn
<1>5. CASE ~(sh.mnt > sh.fresh)
  <2>1. cache' = cache /\ sh' = [sh EXCEPT !.pc = "ingest"]
    BY <1>5 DEF Upgrade
  <2>2. /\ sh' \in ScriptStates /\ sh'.pc = "ingest" /\ sh'.calm = sh.calm
        /\ sh'.mnt = sh.mnt /\ sh'.want = sh.want
    BY <1>2, <2>1 DEF ScriptStates
  <2>3. sh'.calm => \A p \in Packs : cache'.corrupt[p] # 0 => world.state[cache'.corrupt[p], p] = "bad"
    BY <2>1, <2>2 DEF DriveInv
  <2> QED
    BY <1>1, <1>2, <2>1, <2>2, <2>3, GoesOn
<1> QED
  BY <1>4, <1>5

\* A disc is ingested.
LEMMA IngestDiscKeeps ==
    ASSUME DriveInv, rd'.pc = "idle", IngestDisc
    PROVE  DriveInv'
<1>1. /\ world' = world /\ sh.pc = "ingest" /\ sh' = [sh EXCEPT !.pc = "loop"]
      /\ cache' = Ingest(world, cache, sh.mnt, sh.want)
  BY DEF IngestDisc
<1>2. /\ sh \in ScriptStates /\ cache \in CacheStates /\ cache.list \in Labels
      /\ sh.mnt \in Labels /\ sh.want \in Labels /\ (sh.calm => sh.mnt = sh.want)
  BY <1>1 DEF DriveInv
<1>3. DiscsOK(world)
  BY DriveFacts
<1>4. sh' \in ScriptStates /\ sh'.pc = "loop" /\ sh'.calm = sh.calm
  <2>1. sh \in ScriptStates /\ sh' = [sh EXCEPT !.pc = "loop"]
    BY <1>1, <1>2
  <2> QED
    BY <2>1 DEF ScriptStates
<1>5. /\ cache' \in CacheStates /\ cache'.list = cache.list
      /\ \A p \in Packs : \/ cache'.corrupt[p] = cache.corrupt[p]
                          \/ cache'.corrupt[p] = sh.want /\ Damaged(world, sh.mnt, p)
  BY <1>1, <1>2, <1>3, IngestType
<1>6. sh'.calm => \A p \in Packs : cache'.corrupt[p] # 0 => world.state[cache'.corrupt[p], p] = "bad"
  BY <1>2, <1>4, <1>5 DEF DriveInv, Damaged
<1> QED
  BY <1>1, <1>2, <1>4, <1>5, <1>6, GoesOn

\* The answer of phase 3: 0 when all that is listed hashes right, 3 when a pack
\* is missing whose every source but one noted as corrupt is gone.
LEMMA FinalizeFacts ==
    ASSUME NEW w, DiscsOK(w), NEW c \in CacheStates, c.list \in Labels
    PROVE  /\ Finalize(w, c) \in CacheStates
           /\ Finalize(w, c).list = c.list /\ Finalize(w, c).corrupt = c.corrupt
           /\ FinalizeRc(w, Finalize(w, c)) \in {0, 1, 3}
           /\ FinalizeRc(w, Finalize(w, c)) = 0 =>
                 \A p \in Listed(w, c.list) : Finalize(w, c).pack[p] = "good"
           /\ FinalizeRc(w, Finalize(w, c)) = 3 =>
                 \E p \in Listed(w, c.list) :
                                  /\ Finalize(w, c).pack[p] = "none"
                                  /\ \A i \in LabelsOf(w, c.list, p) : i = c.corrupt[p]
<1> DEFINE k == [p \in Packs |-> IF p \in Listed(w, c.list) /\ c.pack[p] = "bad" THEN "none" ELSE c.pack[p]]
           d == Finalize(w, c)
<1>1. d = [c EXCEPT !.pack = k]
  BY DEF Finalize
<1>2. k \in [Packs -> {"none", "good", "bad"}]
  BY DEF CacheStates
<1>3. \A p \in Listed(w, c.list) : p \in Packs /\ k[p] # "bad"
  BY DEF Listed
<1> HIDE DEF k, d
<1>4. d \in CacheStates /\ d.list = c.list /\ d.corrupt = c.corrupt /\ d.pack = k
  BY <1>1, <1>2 DEF CacheStates
<1> DEFINE missing == {p \in Listed(w, d.list) : d.pack[p] = "none"}
<1>5. FinalizeRc(w, d) = IF d.torn THEN 1 ELSE IF missing = {} THEN 0
                         ELSE IF \E p \in missing : Viable(w, d, p) = {} THEN 3 ELSE 1
  BY DEF FinalizeRc
<1>6. FinalizeRc(w, d) \in {0, 1, 3}
  BY <1>5
<1>7. FinalizeRc(w, d) = 0 => \A p \in Listed(w, c.list) : d.pack[p] = "good"
  <2>1. FinalizeRc(w, d) = 0 => missing = {}
    <3> HIDE DEF missing
    <3> QED
      BY <1>5
  <2>2. missing = {} => \A p \in Listed(w, c.list) : d.pack[p] = "good"
    BY <1>2, <1>3, <1>4
  <2> QED
    BY <2>1, <2>2
<1>8. FinalizeRc(w, d) = 3 => \E p \in Listed(w, c.list) :
                                               /\ d.pack[p] = "none"
                                               /\ \A i \in LabelsOf(w, c.list, p) : i = c.corrupt[p]
  <2> SUFFICES ASSUME FinalizeRc(w, d) = 3
               PROVE  \E p \in Listed(w, c.list) :
                                       /\ d.pack[p] = "none"
                                       /\ \A i \in LabelsOf(w, c.list, p) : i = c.corrupt[p]
    OBVIOUS
  <2>1. PICK p \in missing : Viable(w, d, p) = {}
    <3> HIDE DEF missing
    <3> QED
      BY <1>5
  <2>2. p \in Listed(w, c.list) /\ d.pack[p] = "none"
    BY <1>3, <1>4, <2>1
  <2>3. \A i \in LabelsOf(w, c.list, p) : i = c.corrupt[p]
    BY <1>4, <2>1 DEF Viable
  <2> QED
    BY <2>2, <2>3
<1> QED
  BY <1>4, <1>6, <1>7, <1>8 DEF d

\* Phase 3.
LEMMA FinalizeKeeps ==
    ASSUME DriveInv, rd'.pc = "idle", FinalizeCache
    PROVE  DriveInv'
<1> DEFINE c == Finalize(world, cache)
           code == FinalizeRc(world, c)
<1>1. /\ world' = world /\ sh.pc = "loop"
      /\ cache' = IF code = 0 \/ sh.keep THEN c ELSE NoCache
      /\ sh' = [sh EXCEPT !.mnt = 0, !.rc = code, !.pc = IF code = 0 THEN "restore" ELSE "idle"]
  BY DEF FinalizeCache
<1>2. sh \in ScriptStates /\ cache \in CacheStates /\ cache.list \in Labels /\ DiscsOK(world)
  BY <1>1, DriveFacts DEF DriveInv
<1>3. /\ c \in CacheStates /\ c.list = cache.list /\ c.corrupt = cache.corrupt /\ code \in {0, 1, 3}
      /\ code = 0 => \A p \in Listed(world, cache.list) : c.pack[p] = "good"
      /\ code = 3 => \E p \in Listed(world, cache.list) :
                                      /\ c.pack[p] = "none"
                                      /\ \A i \in LabelsOf(world, cache.list, p) : i = cache.corrupt[p]
  BY <1>2, FinalizeFacts, ZenonT(40)
<1> HIDE DEF c, code
<1>4. sh' \in ScriptStates
  <2> DEFINE next == IF code = 0 THEN "restore" ELSE "idle"
  <2>1. next \in {"restore", "idle"} /\ code \in Nat /\ sh' = [sh EXCEPT !.mnt = 0, !.rc = code, !.pc = next]
    BY <1>1, <1>3
  <2> HIDE DEF next
  <2> QED
    BY <1>2, <2>1 DEF ScriptStates
<1>5. /\ sh'.pc = (IF code = 0 THEN "restore" ELSE "idle") /\ sh'.rc = code /\ sh'.calm = sh.calm
      /\ sh'.keep = sh.keep
  BY <1>1, <1>2 DEF ScriptStates
<1>6. cache' \in CacheStates
  BY <1>1, <1>3, NoCacheType
<1>7. sh'.calm => \A p \in Packs : cache'.corrupt[p] # 0 => world.state[cache'.corrupt[p], p] = "bad"
  <2>1. CASE cache' = c
    BY <1>3, <1>5, <2>1, ZenonT(40) DEF DriveInv
  <2>2. CASE cache' = NoCache
    BY <2>2, NoCacheType
  <2> QED
    BY <1>1, <2>1, <2>2
<1>8. CompleteIsIntact'
  <2> SUFFICES ASSUME sh'.pc \in {"restore", "reading"}
               PROVE  \A p \in Listed(world', cache'.list) : cache'.pack[p] = "good"
    BY DEF CompleteIsIntact
  <2>1. code = 0
    BY <1>5
  <2>2. cache' = c
    BY <1>1, <2>1
  <2> QED
    BY <1>1, <1>3, <2>1, <2>2
<1>9. ExitThreeForCause'
  <2> SUFFICES ASSUME sh'.rc = 3, sh'.keep, sh'.calm
               PROVE  \E p \in Listed(world, cache'.list) :
                         /\ cache'.pack[p] = "none"
                         /\ \A i \in LabelsOf(world, cache'.list, p) : world.state[i, p] = "bad"
    BY <1>1 DEF ExitThreeForCause
  <2>1. code = 3 /\ cache' = c
    BY <1>1, <1>5
  <2>2. PICK p \in Listed(world, cache.list) :
                           /\ c.pack[p] = "none"
                           /\ \A i \in LabelsOf(world, cache.list, p) : i = cache.corrupt[p]
    BY <1>3, <2>1
  <2>3. \A i \in LabelsOf(world, cache.list, p) : i \in Labels /\ i # 0
    <3>1. world.live[cache.list] \in SUBSET Labels
      BY <1>2 DEF DiscsOK
    <3> QED
      BY <3>1, SingleDriveAssumption DEF LabelsOf, Labels
  <2>4. cache.corrupt[p] # 0 => world.state[cache.corrupt[p], p] = "bad"
    BY <1>5, <2>2 DEF DriveInv, Listed
  <2>5. \A i \in LabelsOf(world, cache.list, p) : world.state[i, p] = "bad"
    BY <2>2, <2>3, <2>4
  <2> QED
    BY <1>3, <2>1, <2>2, <2>5
<1>10. \E z \in Cases : world' = z.world
  BY <1>1 DEF DriveInv
<1>11. sh'.pc \in {"restore", "idle"}
  BY <1>5
<1> QED
  BY <1>1, <1>4, <1>6, <1>7, <1>8, <1>9, <1>10, <1>11 DEF DriveInv

\* Directory mode.
LEMMA ExtractKeeps ==
    ASSUME DriveInv, rd'.pc = "idle", ExtractImages
    PROVE  DriveInv'
<1> DEFINE all == GatherAll(world, cache, Images(world))
<1>1. /\ sh.pc = "extract" /\ sh.tool = "directory" /\ sh \in ScriptStates /\ cache \in CacheStates
      /\ DiscsOK(world)
  BY DriveFacts DEF DriveInv, ExtractImages
<1>2. CASE Exit(1)
  BY <1>2, ExitKeeps
<1>3. CASE ~Exit(1)
  <2> DEFINE i == Max(world.at)
             meta == Seed(cache.meta, i)
  <2>1. /\ world' = world /\ cache' = [all EXCEPT !.meta = meta, !.list = i]
        /\ sh' = [sh EXCEPT !.pc = "restore", !.fresh = i] /\ world.at # {}
    BY <1>3 DEF ExtractImages
  <2>2. i \in Labels
    <3>1. world.at \in SUBSET Labels
      BY <1>1 DEF DiscsOK
    <3>2. i \in world.at
      BY <2>1, <3>1, MaxLabel
    <3> QED
      BY <3>1, <3>2
  <2>3. all \in CacheStates /\ all.corrupt = cache.corrupt
    <3>1. Images(world) \in Seq(Labels)
      BY <1>1, SortedLabels DEF Images, DiscsOK
    <3> QED
      BY <1>1, <3>1, GatherAllType
  <2>9. meta \in [METADATA_SUBDIRS -> (-Volumes)..Volumes]
    <3> HIDE DEF i
    <3> QED
      BY <1>1, <2>2, MetaTypes, WithMeta DEF MetaStates, CacheStates
  <2> HIDE DEF i, all, meta
  <2>4. cache' \in CacheStates /\ cache'.corrupt = cache.corrupt
    BY <2>1, <2>2, <2>3, <2>9 DEF CacheStates
  <2>5. /\ sh' \in ScriptStates /\ sh'.pc = "restore" /\ sh'.tool = "directory" /\ sh'.calm = sh.calm
    BY <1>1, <2>1, <2>2 DEF ScriptStates
  <2>6. sh'.calm => \A p \in Packs : cache'.corrupt[p] # 0 => world.state[cache'.corrupt[p], p] = "bad"
    BY <2>4, <2>5 DEF DriveInv
  <2>7. CompleteIsIntact' /\ ExitThreeForCause'
    BY <2>5 DEF CompleteIsIntact, ExitThreeForCause
  <2>8. \E z \in Cases : world' = z.world
    BY <2>1 DEF DriveInv
  <2> QED
    BY <2>1, <2>4, <2>5, <2>6, <2>7, <2>8 DEF DriveInv
<1> QED
  BY <1>2, <1>3

\* A stop in phase 3 leaves a cache.
LEMMA FinalizeKilledType ==
    ASSUME NEW w, DiscsOK(w), NEW c \in CacheStates, c.list \in Labels
    PROVE  FinalizeKilled(w, c) \in SUBSET CacheStates
<1> DEFINE f == Finalize(w, c)
           bad == {p \in Listed(w, c.list) : c.pack[p] = "bad"}
           left(gone) == [p \in Packs |-> IF p \in gone THEN "none" ELSE c.pack[p]]
<1>1. f \in CacheStates
  BY FinalizeFacts
<1> HIDE DEF f
<1>2. [f EXCEPT !.torn = TRUE] \in CacheStates
  BY <1>1 DEF CacheStates
<1>3. \A gone : left(gone) \in [Packs -> {"none", "good", "bad"}]
  BY DEF CacheStates
<1>4. FinalizeKilled(w, c) =
         {[c EXCEPT !.pack = left(gone)] : gone \in SUBSET bad} \cup {[f EXCEPT !.torn = TRUE]}
  BY DEF FinalizeKilled, f
<1> HIDE DEF left, bad
<1>5. \A gone : [c EXCEPT !.pack = left(gone)] \in CacheStates
  BY <1>3 DEF CacheStates
<1> QED
  BY <1>2, <1>4, <1>5

\* Whatever a stop leaves is a cache.
LEMMA InterruptedType ==
    ASSUME DriveInv
    PROVE  \A c \in Interrupted : c \in CacheStates
<1>1. sh \in ScriptStates /\ cache \in CacheStates /\ DiscsOK(world) /\ world.at \in SUBSET Labels
  BY DriveFacts DEF DiscsOK
<1>2. cache.meta \in MetaStates
  BY <1>1 DEF CacheStates, MetaStates
<1>3. \A m \in MetaStates : [cache EXCEPT !.meta = m] \in CacheStates
  BY <1>1, WithMeta
<1>4. ASSUME sh.pc = "boot", world.at # {} PROVE \A c \in Interrupted : c \in CacheStates
  <2>1. Interrupted = {[cache EXCEPT !.meta = m] : m \in UNION {SeedKilled(cache.meta, i) : i \in world.at}}
    BY <1>4 DEF Interrupted
  <2>2. \A i \in world.at : SeedKilled(cache.meta, i) \in SUBSET MetaStates
    BY <1>1, <1>2, MetaTypes
  <2> QED
    BY <1>3, <2>1, <2>2
<1>5. ASSUME sh.pc = "upgrade", sh.mnt > sh.fresh PROVE \A c \in Interrupted : c \in CacheStates
  <2>1. Interrupted =
           {[cache EXCEPT !.meta = m] : m \in ClearKilled(cache.meta) \cup SeedKilled(NoMeta, sh.mnt)}
    BY <1>5 DEF Interrupted
  <2>2. sh.mnt \in Labels
    BY <1>5 DEF DriveInv
  <2>3. NoMeta \in MetaStates /\ ClearKilled(cache.meta) \in SUBSET MetaStates
    BY <1>2, <2>2, MetaTypes
  <2>4. SeedKilled(NoMeta, sh.mnt) \in SUBSET MetaStates
    BY <2>2, <2>3, MetaTypes
  <2> QED
    BY <1>3, <2>1, <2>3, <2>4
<1>6. ASSUME sh.pc = "ingest" PROVE \A c \in Interrupted : c \in CacheStates
  <2> DEFINE packs == Wanted(world, cache.list, sh.want)
  <2>1. Interrupted =
           {IngestKilled(world, cache, sh.mnt, packs, n) : n \in 0..(Len(packs) - 1)}
           \cup {IngestTorn(world, cache, sh.mnt, packs)}
    BY <1>6 DEF Interrupted
  <2>2. packs \in Seq(Packs)
    <3>1. {p \in Listed(world, cache.list) : sh.want \in LabelsOf(world, cache.list, p)} \in SUBSET Packs
      BY DEF Listed
    <3> QED
      BY <3>1, SortedPacks DEF Wanted
  <2>3. sh.mnt \in Labels
    BY <1>6 DEF DriveInv
  <2> HIDE DEF packs
  <2>4. ASSUME NEW n \in 0..(Len(packs) - 1)
        PROVE  IngestKilled(world, cache, sh.mnt, packs, n) \in CacheStates
    <3>1. n \in 0..Len(packs)
      BY <2>2
    <3> QED
      BY <1>1, <2>2, <2>3, <3>1, IngestKilledType
  <2>5. IngestTorn(world, cache, sh.mnt, packs) \in CacheStates
    <3>1. Len(packs) \in Nat
      BY <2>2
    <3> QED
      BY <1>1, <2>3, <3>1, IngestTornType
  <2> QED
    BY <2>1, <2>4, <2>5
<1>7. ASSUME sh.pc = "loop", sh.idx >= Len(sh.vols) PROVE \A c \in Interrupted : c \in CacheStates
  <2>1. Interrupted = FinalizeKilled(world, cache)
    BY <1>7 DEF Interrupted
  <2>2. cache.list \in Labels
    BY <1>7 DEF DriveInv
  <2> QED
    BY <1>1, <2>1, <2>2, FinalizeKilledType
<1>8. ASSUME sh.pc = "extract", world.at # {} PROVE \A c \in Interrupted : c \in CacheStates
  <2>1. Interrupted =
           {GatherKilled(world, cache, Images(world), k, p) : k \in DOMAIN Images(world), p \in Packs}
           \cup {[cache EXCEPT !.meta = m] : m \in SeedKilled(cache.meta, Max(world.at))}
    BY <1>8 DEF Interrupted
  <2>2. \A k \in DOMAIN Images(world), p \in Packs :
           GatherKilled(world, cache, Images(world), k, p) \in CacheStates
    BY <1>1, <1>8, GatherKilledType
  <2>3. SeedKilled(cache.meta, Max(world.at)) \in SUBSET MetaStates
    <3>1. Max(world.at) \in Labels
      BY <1>1, <1>8, MaxLabel
    <3> QED
      BY <1>2, <3>1, MetaTypes
  <2> QED
    BY <1>3, <2>1, <2>2, <2>3
<1>9. ASSUME /\ ~(sh.pc = "boot" /\ world.at # {}) /\ ~(sh.pc = "upgrade" /\ sh.mnt > sh.fresh)
             /\ sh.pc # "ingest" /\ ~(sh.pc = "loop" /\ sh.idx >= Len(sh.vols))
             /\ ~(sh.pc = "extract" /\ world.at # {})
      PROVE  \A c \in Interrupted : c \in CacheStates
  <2>1. Interrupted = {cache}
    BY <1>9 DEF Interrupted
  <2> QED
    BY <1>1, <2>1
<1> QED
  BY <1>4, <1>5, <1>6, <1>7, <1>8, <1>9

\* A script is stopped.
LEMMA KillKeeps ==
    ASSUME DriveInv, rd'.pc = "idle", Kill
    PROVE  DriveInv'
<1>1. /\ world' = world /\ sh.pc \in {"boot", "loop", "upgrade", "ingest", "extract"}
      /\ sh' = [sh EXCEPT !.pc = "idle", !.rc = 137, !.mnt = 0, !.kills = @ + 1, !.calm = FALSE]
  BY DEF Kill
<1>2. sh \in ScriptStates /\ cache \in CacheStates /\ DiscsOK(world)
  BY DriveFacts
<1>3. sh' \in ScriptStates /\ sh'.pc = "idle" /\ sh'.rc = 137 /\ sh'.calm = FALSE
  <2>1. sh.kills + 1 \in Nat
    BY <1>2 DEF ScriptStates
  <2>2. sh' \in ScriptStates
    BY <1>1, <1>2, <2>1, ZenonT(40) DEF ScriptStates
  <2>3. sh'.pc = "idle" /\ sh'.rc = 137 /\ sh'.calm = FALSE
    BY <1>1, <1>2 DEF ScriptStates
  <2> QED
    BY <2>2, <2>3
<1>4. \A c \in Interrupted : c \in CacheStates
  BY <1>1, InterruptedType
<1>5. cache' \in CacheStates
  BY <1>4, NoCacheType DEF Kill
<1> QED
  BY <1>1, <1>3, <1>5, StopKeeps

\* Every step of a script.
LEMMA DriveStepKeeps ==
    ASSUME DriveInv, DriveStep, rd' = rd
    PROVE  DriveInv'
<1>1. rd'.pc = "idle"
  <2>1. sh.pc # "reading"
    <3>1. CASE Kill
      BY <3>1 DEF Kill
    <3>2. CASE BootFails \/ SkipDisc \/ Upgrade \/ IngestDisc
      BY <3>2 DEF BootFails, SkipDisc, Looping, Upgrade, IngestDisc
    <3>3. CASE FinalizeCache \/ ExtractImages \/ RepoNotFound
      BY <3>3 DEF FinalizeCache, ExtractImages, RepoNotFound
    <3>4. ASSUME NEW i \in Labels, BootDisc(i) \/ BootStuck(i) \/ InsertDisc(i) PROVE sh.pc # "reading"
      BY <3>4 DEF BootDisc, BootStuck, InsertDisc, Looping
    <3> QED
      BY <3>1, <3>2, <3>3, <3>4 DEF DriveStep
  <2> QED
    BY <2>1 DEF DriveInv
<1>2. ASSUME NEW i \in Labels, BootDisc(i) \/ BootStuck(i) PROVE DriveInv'
  BY <1>1, <1>2, BootDiscKeeps, BootStuckKeeps
<1>3. ASSUME NEW i \in Labels, InsertDisc(i) PROVE DriveInv'
  BY <1>1, <1>3, InsertDiscKeeps
<1>4. ASSUME BootFails \/ RepoNotFound PROVE DriveInv'
  BY <1>1, <1>4, ExitKeeps DEF BootFails, RepoNotFound
<1>5. ASSUME SkipDisc \/ Upgrade \/ IngestDisc PROVE DriveInv'
  BY <1>1, <1>5, SkipDiscKeeps, UpgradeKeeps, IngestDiscKeeps
<1>6. ASSUME FinalizeCache \/ ExtractImages \/ Kill PROVE DriveInv'
  BY <1>1, <1>6, FinalizeKeeps, ExtractKeeps, KillKeeps
<1> QED
  BY <1>2, <1>3, <1>4, <1>5, <1>6 DEF DriveStep

-----------------------------------------------------------------------------
(* The scripts with the heir and the reader                                *)

\* The fields a reader has.
ReaderFields == {"pc", "todo", "stack", "at", "failed", "links", "index", "hand", "interactive",
                 "strict", "disc", "asks", "quit", "root", "rc"}

\* They are those of NoReader.
LEMMA FieldsAre == DOMAIN NoReader = ReaderFields
  BY DEF NoReader, ReaderFields

\* Nothing of the scripts changes; the reader is at work only in their last phase.
LEMMA DriveUnchanged ==
    ASSUME DriveInv, UNCHANGED driveVars, rd'.pc # "idle" => sh.pc = "reading"
    PROVE  DriveInv'
  BY DEF DriveInv, driveVars, CompleteIsIntact, ExitThreeForCause

\* Before the first run.
LEMMA DriveAtStart ==
    ASSUME RecoveryInit
    PROVE  DriveInv
<1>1. sh = NoScript /\ cache = NoCache /\ rd = NoReader /\ \E c \in Cases : world = c.world
  BY DEF RecoveryInit, DriveInit, ReaderInit
<1>2. NoScript \in ScriptStates /\ NoScript.pc = "idle" /\ NoScript.rc = 0
  <2>1. <<>> \in Seq(Labels)
    OBVIOUS
  <2> QED
    BY <2>1 DEF NoScript, ScriptStates
<1>3. NoReader.pc = "idle"
  BY DEF NoReader
<1>4. CompleteIsIntact /\ ExitThreeForCause
  BY <1>1, <1>2 DEF CompleteIsIntact, ExitThreeForCause
<1> QED
  BY <1>1, <1>2, <1>3, <1>4, NoCacheType DEF DriveInv

\* A script is started.
LEMMA RunScriptKeeps ==
    ASSUME DriveInv, NEW run \in RunsIn(world), RunScript(run)
    PROVE  DriveInv'
<1>1. /\ sh.pc = "idle" /\ world' = world /\ cache' = cache /\ rd' = rd /\ run.tool # "reader"
      /\ sh' = [NoScript EXCEPT !.tool = run.tool, !.keep = run.keep, !.rustic = run.rustic,
                              !.runs = sh.runs + 1, !.kills = sh.kills, !.calm = sh.calm,
                              !.pc = IF run.tool = "directory" THEN "extract" ELSE "boot"]
  BY DEF RunScript, Start, readerVars
<1>2. sh \in ScriptStates /\ cache \in CacheStates /\ ScriptRun(run)
  BY <1>1, DriveFacts DEF ReaderRun
<1> DEFINE first == IF run.tool = "directory" THEN "extract" ELSE "boot"
<1>3. /\ first \in {"extract", "boot"} /\ sh.runs + 1 \in Nat /\ sh.kills \in Nat /\ sh.calm \in BOOLEAN
      /\ first = "extract" => run.tool = "directory"
  BY <1>2 DEF ScriptStates
<1>4. run.tool \in {"single", "auto", "directory"} /\ run.keep \in BOOLEAN /\ run.rustic \in BOOLEAN
  BY <1>2 DEF ScriptRun
<1>5. <<>> \in Seq(Labels)
  OBVIOUS
<1> HIDE DEF first
<1>6. sh' = [tool |-> run.tool, pc |-> first, mnt |-> 0, idx |-> 0, vols |-> <<>>, want |-> 0,
             fresh |-> 0, rc |-> 0, runs |-> sh.runs + 1, kills |-> sh.kills, keep |-> run.keep,
             rustic |-> run.rustic, calm |-> sh.calm]
  BY <1>1 DEF NoScript, first
<1>7. sh' \in ScriptStates
  BY <1>3, <1>4, <1>5, <1>6 DEF ScriptStates
<1>8. sh'.pc = first /\ sh'.tool = run.tool /\ sh'.calm = sh.calm
  BY <1>6
<1>9. sh'.calm => \A p \in Packs : cache'.corrupt[p] # 0 => world.state[cache'.corrupt[p], p] = "bad"
  BY <1>1, <1>8 DEF DriveInv
<1>10. rd'.pc = "idle"
  BY <1>1 DEF DriveInv
<1> QED
  BY <1>1, <1>2, <1>3, <1>7, <1>8, <1>9, <1>10, GoesOn

\* The reader is started by hand.
LEMMA RunReaderKeeps ==
    ASSUME DriveInv, NEW i \in Labels, NEW run, RunReader(i, run)
    PROVE  DriveInv'
<1>1. /\ sh.pc = "idle" /\ world' = world /\ cache' = cache
      /\ sh' = [NoScript EXCEPT !.tool = "reader", !.pc = "reading", !.runs = sh.runs + 1,
                                !.kills = sh.kills, !.calm = sh.calm, !.fresh = i]
  BY DEF RunReader
<1>2. sh \in ScriptStates /\ cache \in CacheStates
  BY DriveFacts
<1>3. sh' = [tool |-> "reader", pc |-> "reading", mnt |-> 0, idx |-> 0, vols |-> <<>>, want |-> 0,
             fresh |-> i, rc |-> 0, runs |-> sh.runs + 1, kills |-> sh.kills, keep |-> FALSE,
             rustic |-> FALSE, calm |-> sh.calm]
  BY <1>1 DEF NoScript
<1>4. sh.runs + 1 \in Nat /\ sh.kills \in Nat /\ sh.calm \in BOOLEAN /\ <<>> \in Seq(Labels)
  BY <1>2 DEF ScriptStates
<1>5. sh' \in ScriptStates
  BY <1>3, <1>4 DEF ScriptStates
<1>6. sh'.pc = "reading" /\ sh'.tool = "reader" /\ sh'.calm = sh.calm
  BY <1>3
<1>7. sh'.calm => \A p \in Packs : cache'.corrupt[p] # 0 => world.state[cache'.corrupt[p], p] = "bad"
  BY <1>1, <1>6 DEF DriveInv
<1>8. CompleteIsIntact' /\ ExitThreeForCause'
  BY <1>6 DEF CompleteIsIntact, ExitThreeForCause
<1>9. \E c \in Cases : world' = c.world
  BY <1>1 DEF DriveInv
<1> QED
  BY <1>1, <1>2, <1>5, <1>6, <1>7, <1>8, <1>9 DEF DriveInv

\* The reader is started on the cache, which stays what it is.
LEMMA ReadCacheKeeps ==
    ASSUME DriveInv, NEW interactive, ReadCache(interactive)
    PROVE  DriveInv'
<1>1. sh.pc = "restore" /\ world' = world /\ cache' = cache /\ sh' = [sh EXCEPT !.pc = "reading"]
  BY DEF ReadCache
<1>2. sh \in ScriptStates /\ cache \in CacheStates
  BY DriveFacts
<1>3. sh' \in ScriptStates /\ sh'.pc = "reading" /\ sh'.tool = sh.tool /\ sh'.calm = sh.calm
  BY <1>1, <1>2 DEF ScriptStates
<1>4. CompleteIsIntact' /\ ExitThreeForCause'
  BY <1>1, <1>3 DEF DriveInv, CompleteIsIntact, ExitThreeForCause
<1>5. sh'.calm => \A p \in Packs : cache'.corrupt[p] # 0 => world.state[cache'.corrupt[p], p] = "bad"
  BY <1>1, <1>3 DEF DriveInv
<1>6. \E c \in Cases : world' = c.world
  BY <1>1 DEF DriveInv
<1> QED
  BY <1>1, <1>2, <1>3, <1>4, <1>5, <1>6 DEF DriveInv

\* The reader is stopped.
LEMMA KillReaderKeeps ==
    ASSUME DriveInv, KillReader
    PROVE  DriveInv'
<1>1. /\ world' = world /\ cache' \in {cache, NoCache} /\ rd' = [NoReader EXCEPT !.rc = 137]
      /\ sh' = [sh EXCEPT !.pc = "idle", !.rc = 137, !.kills = @ + 1, !.calm = FALSE]
  BY DEF KillReader
<1>2. sh \in ScriptStates /\ cache \in CacheStates
  BY DriveFacts
<1>3. sh' \in ScriptStates /\ sh'.pc = "idle" /\ sh'.rc = 137 /\ sh'.calm = FALSE
  <2>1. sh.kills + 1 \in Nat
    BY <1>2 DEF ScriptStates
  <2>2. sh' \in ScriptStates
    BY <1>1, <1>2, <2>1, ZenonT(40) DEF ScriptStates
  <2>3. sh'.pc = "idle" /\ sh'.rc = 137 /\ sh'.calm = FALSE
    BY <1>1, <1>2 DEF ScriptStates
  <2> QED
    BY <2>2, <2>3
<1>4. rd'.pc = "idle"
  BY <1>1 DEF NoReader
<1> QED
  BY <1>1, <1>2, <1>3, <1>4, NoCacheType, StopKeeps

\* Every step keeps DriveInv, when the reader answers as it does.
LEMMA DriveNext ==
    ASSUME DriveInv, ReaderOK(rd), [Next]_vars
    PROVE  DriveInv'
<1>1. CASE UNCHANGED <<driveVars, readerVars>>
  BY <1>1, DriveUnchanged DEF readerVars, DriveInv
<1>2. CASE ReadShares \/ CheckShares \/ CombineShares
  BY <1>1, <1>2 DEF ReadShares, CheckShares, CombineShares
<1>3. ASSUME NEW run \in RunsIn(world), RunScript(run) PROVE DriveInv'
  BY <1>3, RunScriptKeeps
<1>4. ASSUME NEW i \in Labels, NEW run \in RunsIn(world), RunReader(i, run) PROVE DriveInv'
  BY <1>4, RunReaderKeeps
<1>5. CASE RusticRestore
  <2>1. sh.pc = "restore" /\ rd' = rd /\ (Exit(0) \/ Exit(1))
    BY <1>5 DEF RusticRestore
  <2>2. rd'.pc = "idle"
    BY <2>1 DEF DriveInv
  <2> QED
    BY <2>1, <2>2, ExitKeeps
<1>6. ASSUME NEW interactive \in BOOLEAN, ReadCache(interactive) PROVE DriveInv'
  BY <1>6, ReadCacheKeeps
<1>7. CASE ReaderEnds
  <2> DEFINE code == IF sh.tool = "directory" /\ rd.rc # 0 THEN 1 ELSE rd.rc
  <2>1. code \in Nat /\ code # 3 /\ Exit(code) /\ rd' = [rd EXCEPT !.pc = "idle"]
    BY <1>7 DEF ReaderEnds, ReaderOK, Codes
  <2>2. rd'.pc = "idle"
    BY <2>1, FieldsAre DEF ReaderOK, ReaderFields
  <2> HIDE DEF code
  <2> QED
    BY <2>1, <2>2, ExitKeeps
<1>8. CASE KillReader
  BY <1>8, KillReaderKeeps
<1>9. CASE DriveStep /\ UNCHANGED <<readerVars, heir>>
  BY <1>9, DriveStepKeeps DEF readerVars
<1>10. CASE sh.pc = "reading" /\ UNCHANGED driveVars
  BY <1>10, DriveUnchanged
<1>11. CASE UNCHANGED vars
  BY <1>1, <1>11 DEF vars
<1> QED
  BY <1>2, <1>3, <1>4, <1>5, <1>6, <1>7, <1>8, <1>9, <1>10, <1>11 DEF Next

-----------------------------------------------------------------------------
(* Trees and snapshots                                                     *)

\* A tree is among those under it.
LEMMA TreesUnderSelf ==
    ASSUME NEW t \in DOMAIN TreeOf
    PROVE  t \in TreesUnder(t)
  BY DEF TreesUnder

\* The trees under a tree are closed.
LEMMA TreesUnderClosed ==
    ASSUME NEW t, NEW u \in TreesUnder(t), NEW n \in Subtrees(u)
    PROVE  n.subtree \in TreesUnder(t)
<1>1. u \in DOMAIN TreeOf /\ \A S \in ClosedTrees : t \in S => u \in S
  BY DEF TreesUnder
<1>2. n.subtree \in DOMAIN TreeOf
  BY <1>1, TreesAssumption
<1>3. ASSUME NEW S \in ClosedTrees, t \in S PROVE n.subtree \in S
  BY <1>1, <1>3 DEF ClosedTrees
<1> QED
  BY <1>2, <1>3 DEF TreesUnder

\* They are the least closed set with the tree.
LEMMA TreesUnderLeast ==
    ASSUME NEW t, NEW S \in ClosedTrees, t \in S
    PROVE  TreesUnder(t) \subseteq S
  BY DEF TreesUnder

\* What is under a tree is under every tree above it.
LEMMA TreesUnderTrans ==
    ASSUME NEW t, NEW u \in TreesUnder(t)
    PROVE  /\ u \in DOMAIN TreeOf
           /\ ToSet(TreeOf[u]) \subseteq NodesUnder(t)
           /\ NodesUnder(u) \subseteq NodesUnder(t)
<1>1. u \in DOMAIN TreeOf
  BY DEF TreesUnder
<1>2. TreesUnder(t) \in ClosedTrees
  <2>1. TreesUnder(t) \in SUBSET (DOMAIN TreeOf)
    BY DEF TreesUnder
  <2>2. \A v \in TreesUnder(t) : \A n \in Subtrees(v) : n.subtree \in TreesUnder(t)
    BY TreesUnderClosed
  <2> QED
    BY <2>1, <2>2 DEF ClosedTrees
<1>3. TreesUnder(u) \subseteq TreesUnder(t)
  BY <1>2, TreesUnderLeast
<1>4. ToSet(TreeOf[u]) \subseteq NodesUnder(t)
  BY DEF NodesUnder
<1>5. NodesUnder(u) \subseteq NodesUnder(t)
  BY <1>3 DEF NodesUnder
<1> QED
  BY <1>1, <1>4, <1>5

\* A node under a tree is one of its own or is under one of its directories.
LEMMA NodesUnfold ==
    ASSUME NEW t \in DOMAIN TreeOf, NEW n \in NodesUnder(t)
    PROVE  \E k \in DOMAIN TreeOf[t] :
              \/ n = TreeOf[t][k]
              \/ TreeOf[t][k].type = "dir" /\ n \in NodesUnder(TreeOf[t][k].subtree)
<1> DEFINE U == UNION {TreesUnder(m.subtree) : m \in Subtrees(t)}
           S == {t} \cup U
<1>1. PICK u \in TreesUnder(t) : n \in ToSet(TreeOf[u])
  BY DEF NodesUnder
<1>2. S \in ClosedTrees
  <2>1. S \in SUBSET (DOMAIN TreeOf)
    BY DEF TreesUnder
  <2>2. ASSUME NEW m \in Subtrees(t) PROVE m.subtree \in S
    <3>1. m.subtree \in TreesUnder(m.subtree)
      BY TreesAssumption, TreesUnderSelf
    <3> QED
      BY <3>1
  <2>3. ASSUME NEW v \in U, NEW m \in Subtrees(v) PROVE m.subtree \in S
    <3>1. PICK d \in Subtrees(t) : v \in TreesUnder(d.subtree)
      BY <2>3
    <3>2. m.subtree \in TreesUnder(d.subtree)
      BY <3>1, TreesUnderClosed
    <3> QED
      BY <3>1, <3>2
  <2> QED
    BY <2>1, <2>2, <2>3 DEF ClosedTrees
<1>3. u \in S
  <2>1. t \in S
    OBVIOUS
  <2> HIDE DEF S
  <2> QED
    BY <1>1, <1>2, <2>1, TreesUnderLeast
<1>4. CASE u = t
  BY <1>1, <1>4 DEF ToSet
<1>5. CASE u # t
  <2>1. PICK d \in Subtrees(t) : u \in TreesUnder(d.subtree)
    BY <1>3, <1>5
  <2>2. PICK k \in DOMAIN TreeOf[t] : d = TreeOf[t][k]
    BY DEF Subtrees, ToSet
  <2>3. d.type = "dir" /\ n \in NodesUnder(d.subtree)
    BY <1>1, <2>1 DEF NodesUnder, Subtrees
  <2> QED
    BY <2>2, <2>3
<1> QED
  BY <1>4, <1>5

\* A node of a tree.
LEMMA NodeFacts ==
    ASSUME NEW t \in DOMAIN TreeOf, NEW k \in DOMAIN TreeOf[t]
    PROVE  /\ TreeOf[t][k] \in Nodes /\ TreeOf[t][k].name \in NodeNames
           /\ TreeOf[t][k].type \in {"file", "dir", "symlink", "other"}
           /\ TreeOf[t][k].type = "symlink" => TreeOf[t][k].link \in {"in", "up", "abs"}
           /\ TreeOf[t][k].type = "dir" => TreeOf[t][k].subtree \in DOMAIN TreeOf
<1>1. TreeOf[t][k] \in ToSet(TreeOf[t])
  BY DEF ToSet
<1>2. TreeOf[t][k] \in Nodes
  BY <1>1 DEF Nodes
<1>3. TreeOf[t][k].type = "dir" => TreeOf[t][k].subtree \in DOMAIN TreeOf
  BY <1>1, TreesAssumption DEF Subtrees
<1> QED
  BY <1>2, <1>3, TreesAssumption DEF NodeNames

\* Files of snapshots, in some places, with what SnapshotsAssumption says of each.
SnapshotFiles(snaps) ==
    /\ \E n \in Nat : DOMAIN snaps \in SUBSET (1..n)
    /\ \A i \in DOMAIN snaps : snaps[i].time \in Int /\ snaps[i].tree \in DOMAIN TreeOf

\* The latest snapshot is there when there is any.
LEMMA LatestType ==
    ASSUME NEW snaps, SnapshotFiles(snaps)
    PROVE  LatestSnapshot(snaps) \in DOMAIN TreeOf \cup {NoTree}
<1> DEFINE S == DOMAIN snaps
<1>1. PICK N \in Nat : S \in SUBSET (1..N)
  BY DEF SnapshotFiles
<1>2. \A i \in S : snaps[i].time \in Int /\ snaps[i].tree \in DOMAIN TreeOf /\ i \in Int
  BY <1>1 DEF SnapshotFiles
<1>3. CASE S = {}
  BY <1>3 DEF LatestSnapshot
<1>4. CASE S # {}
  <2> DEFINE After(i, j) == snaps[j].time < snaps[i].time \/ (snaps[j].time = snaps[i].time /\ j <= i)
             Below(k) == {i \in S : i <= k}
             G == {k \in Nat : Below(k) # {} => \E i \in Below(k) : \A j \in Below(k) : After(i, j)}
  <2>1. 0 \in G
    <3>1. Below(0) = {}
      BY <1>1
    <3> QED
      BY <3>1
  <2>2. ASSUME NEW k \in Nat, k \in G PROVE k + 1 \in G
    <3>1. CASE k + 1 \notin S
      <4>1. Below(k + 1) = Below(k)
        BY <1>2, <3>1
      <4> HIDE DEF Below, After
      <4> QED
        BY <2>2, <4>1
    <3>2. CASE k + 1 \in S /\ Below(k) = {}
      <4>1. Below(k + 1) = {k + 1}
        BY <1>2, <3>2
      <4>2. After(k + 1, k + 1)
        BY <1>2, <3>2
      <4> HIDE DEF Below, After
      <4> QED
        BY <4>1, <4>2
    <3>3. CASE k + 1 \in S /\ Below(k) # {}
      <4>1. PICK i \in Below(k) : \A j \in Below(k) : After(i, j)
        BY <2>2, <3>3
      <4>2. /\ i \in S /\ i \in Below(k + 1) /\ k + 1 \in Below(k + 1)
            /\ \A j \in Below(k + 1) : j \in S /\ (j \in Below(k) \/ j = k + 1)
            /\ \A j \in Below(k) : j <= k
        BY <1>2, <3>3
      <4>3. CASE snaps[k + 1].time >= snaps[i].time
        <5>1. ASSUME NEW j \in Below(k + 1) PROVE After(k + 1, j)
          <6>1. CASE j = k + 1
            BY <1>2, <3>3, <6>1
          <6>2. CASE j \in Below(k)
            <7>1. After(i, j) /\ j \in S /\ i \in S
              BY <4>1, <4>2, <6>2
            <7>2. snaps[j].time \in Int /\ snaps[i].time \in Int /\ snaps[k + 1].time \in Int /\ j <= k /\ j \in Int
              BY <1>2, <3>3, <4>2, <6>2, <7>1
            <7> QED
              BY <4>3, <7>1, <7>2
          <6> QED
            BY <4>2, <6>1, <6>2
        <5> HIDE DEF After, Below
        <5> QED
          BY <4>2, <5>1
      <4>4. CASE snaps[k + 1].time < snaps[i].time
        <5>1. \A j \in Below(k + 1) : After(i, j)
          BY <4>1, <4>2, <4>4
        <5> HIDE DEF After, Below
        <5> QED
          BY <4>2, <5>1
      <4>5. snaps[k + 1].time >= snaps[i].time \/ snaps[k + 1].time < snaps[i].time
        BY <1>2, <3>3, <4>2
      <4> HIDE DEF After, Below
      <4> QED
        BY <4>3, <4>4, <4>5
    <3> HIDE DEF After, Below, G
    <3> QED
      BY <3>1, <3>2, <3>3
  <2>3. N \in G
    <3> HIDE DEF G
    <3> QED
      BY <1>1, <2>1, <2>2, SetInduction
  <2>4. Below(N) = S
    BY <1>1
  <2>5. \E i \in S : \A j \in S : After(i, j)
    <3> HIDE DEF After, Below
    <3> QED
      BY <1>4, <2>3, <2>4
  <2> DEFINE latest == CHOOSE i \in S : \A j \in S : After(i, j)
  <2>6. latest \in S
    <3> HIDE DEF After
    <3> QED
      BY <2>5
  <2>7. LatestSnapshot(snaps) = snaps[latest].tree
    BY <1>4 DEF LatestSnapshot
  <2> HIDE DEF latest
  <2> QED
    BY <1>2, <2>6, <2>7
<1> QED
  BY <1>3, <1>4

\* A snapshot asked for by its id.
LEMMA FindType ==
    ASSUME NEW snaps, SnapshotFiles(snaps), NEW id
    PROVE  FindSnapshot(snaps, id) \in DOMAIN TreeOf \cup {NoTree}
<1>1. \A i \in DOMAIN snaps : snaps[i].tree \in DOMAIN TreeOf
  BY DEF SnapshotFiles
<1>2. DOMAIN snaps \in SUBSET Nat
  BY DEF SnapshotFiles
<1> DEFINE exact == {i \in DOMAIN snaps : snaps[i].id = id}
           prefix == {i \in DOMAIN snaps : IsPrefix(id, snaps[i].id)}
<1>3. FindSnapshot(snaps, id) = IF exact # {} THEN snaps[Min(exact)].tree
                                ELSE IF Cardinality(prefix) = 1 THEN snaps[CHOOSE i \in prefix : TRUE].tree
                                ELSE NoTree
  BY DEF FindSnapshot
<1>4. exact \in SUBSET (DOMAIN snaps) /\ prefix \in SUBSET (DOMAIN snaps)
  OBVIOUS
<1> HIDE DEF exact, prefix
<1>5. CASE exact # {}
  <2>1. exact \in SUBSET Nat
    BY <1>2, <1>4
  <2>2. \E x \in exact : \A y \in exact : x <= y
    BY <1>5, <2>1, LeastExists
  <2>3. Min(exact) \in exact
    BY <2>2 DEF Min
  <2> QED
    BY <1>1, <1>3, <1>4, <1>5, <2>3
<1>6. CASE exact = {} /\ Cardinality(prefix) = 1
  <2>1. prefix # {}
    BY <1>6, FS_EmptySet
  <2>2. (CHOOSE i \in prefix : TRUE) \in prefix
    BY <2>1
  <2> QED
    BY <1>1, <1>3, <1>4, <1>6, <2>2
<1>7. CASE exact = {} /\ Cardinality(prefix) # 1
  BY <1>3, <1>7
<1> QED
  BY <1>5, <1>6, <1>7

\* The tree of a snapshot that is asked for.
LEMMA SnapshotTreeType ==
    ASSUME NEW snaps, SnapshotFiles(snaps), NEW snapshot
    PROVE  SnapshotTree(snaps, snapshot) \in DOMAIN TreeOf \cup {NoTree}
<1>1. LatestSnapshot(snaps) \in DOMAIN TreeOf \cup {NoTree}
  BY LatestType
<1>2. FindSnapshot(snaps, snapshot) \in DOMAIN TreeOf \cup {NoTree}
  BY FindType
<1> QED
  BY <1>1, <1>2 DEF SnapshotTree

\* The snapshots on a disc.
LEMMA SnapshotsOnDisc ==
    ASSUME DriveInv, NEW i \in Labels
    PROVE  SnapshotFiles(SnapshotsOf[world.session[i]])
<1> DEFINE s == world.session[i]
           all == SnapshotsOf[s]
<1>1. s \in DOMAIN SnapshotsOf
  BY DriveFacts
<1> HIDE DEF s
<1>2. all \in Seq(ToSet(all)) /\ \A k \in DOMAIN all : all[k].time \in Int /\ all[k].tree \in DOMAIN TreeOf
  BY <1>1, SnapshotsAssumption
<1> HIDE DEF all
<1>3. Len(all) \in Nat /\ DOMAIN all = 1..Len(all)
  BY <1>2
<1>4. SnapshotFiles(all)
  BY <1>2, <1>3 DEF SnapshotFiles
<1> QED
  BY <1>4 DEF all, s

\* Those in the cache, whole or cut short.
LEMMA SnapshotsCached ==
    ASSUME DriveInv
    PROVE  \A snaps \in Cached(SnapshotsOf, 2) : SnapshotFiles(snaps)
<1> DEFINE m == cache.meta[2]
           i == IF m > 0 THEN m ELSE -m
           all == SnapshotsOf[world.session[i]]
<1>1. m \in (-Volumes)..Volumes
  <2>1. cache.meta \in [METADATA_SUBDIRS -> (-Volumes)..Volumes]
    BY DriveFacts DEF CacheStates
  <2> QED
    BY <2>1 DEF METADATA_SUBDIRS
<1>2. CASE m = 0
  <2>1. Cached(SnapshotsOf, 2) = {<<>>}
    BY <1>2 DEF Cached
  <2>2. DOMAIN <<>> = {}
    OBVIOUS
  <2> QED
    BY <2>1, <2>2 DEF SnapshotFiles
<1>3. CASE m # 0
  <2>1. i \in Labels
    BY <1>1, <1>3, SingleDriveAssumption DEF Labels
  <2>2. Cached(SnapshotsOf, 2) = Files(all, m < 0)
    BY <1>3 DEF Cached
  <2> HIDE DEF i, m
  <2>3. SnapshotFiles(all)
    BY <2>1, SnapshotsOnDisc
  <2> HIDE DEF all
  <2>4. ASSUME NEW kept \in SUBSET (DOMAIN all) PROVE SnapshotFiles([k \in kept |-> all[k]])
    BY <2>3 DEF SnapshotFiles
  <2> QED
    BY <2>2, <2>3, <2>4 DEF Files
<1> QED
  BY <1>2, <1>3

-----------------------------------------------------------------------------
(* The stack of a traversal                                                *)

\* Node n is m or is under it.
IsOrUnder(m, n) == n = m \/ (m.type = "dir" /\ n \in NodesUnder(m.subtree))

\* Node n is still to come in the topmost directory.
PendingAtTop(stack, n) ==
    \E k \in DOMAIN TreeOf[Last(stack).tree] :
        k >= Last(stack).at /\ IsOrUnder(TreeOf[Last(stack).tree][k], n)

\* A stack without its top, and its top.
LEMMA FrontLast ==
    ASSUME NEW S, NEW stack \in Seq(S), stack # <<>>
    PROVE  /\ Len(stack) \in Nat \ {0} /\ DOMAIN stack = 1..Len(stack)
           /\ Last(stack) = stack[Len(stack)] /\ Last(stack) \in S
           /\ Front(stack) \in Seq(S) /\ Len(Front(stack)) = Len(stack) - 1
           /\ \A i \in 1..(Len(stack) - 1) : Front(stack)[i] = stack[i]
<1>1. Len(stack) \in Nat \ {0} /\ DOMAIN stack = 1..Len(stack)
  BY EmptySeq, LenProperties
<1>2. Last(stack) = stack[Len(stack)] /\ Last(stack) \in S
  BY <1>1, ElementOfSeq DEF Last
<1> DEFINE n == Len(stack) - 1
<1>3. n \in Nat /\ 1 \in Int /\ n \in Int
  BY <1>1
<1>4. \A i \in 1..n : stack[i] \in S
  BY <1>1, ElementOfSeq
<1> HIDE DEF n
<1>5. /\ SubSeq(stack, 1, n) \in Seq(S)
      /\ Len(SubSeq(stack, 1, n)) = IF 1 <= n THEN n - 1 + 1 ELSE 0
      /\ \A i \in 1..(n - 1 + 1) : SubSeq(stack, 1, n)[i] = stack[1 + i - 1]
  BY <1>3, <1>4, SubSeqProperties
<1>6. Len(SubSeq(stack, 1, n)) = n
  BY <1>3, <1>5
<1>7. \A i \in 1..n : SubSeq(stack, 1, n)[i] = stack[i]
  <2> SUFFICES ASSUME NEW i \in 1..n PROVE SubSeq(stack, 1, n)[i] = stack[i]
    OBVIOUS
  <2>1. i \in 1..(n - 1 + 1) /\ 1 + i - 1 = i
    BY <1>3
  <2> QED
    BY <1>5, <2>1
<1> QED
  BY <1>1, <1>2, <1>5, <1>6, <1>7 DEF Front, n

\* The frames of a stack that is one node further.
LEMMA OnwardFacts ==
    ASSUME NEW stack \in Seq(StackFrames), stack # <<>>
    PROVE  /\ Onward(stack) \in Seq(StackFrames) /\ Len(Onward(stack)) = Len(stack)
           /\ Onward(stack) # <<>>
           /\ \A i \in 1..(Len(stack) - 1) : Onward(stack)[i] = stack[i]
           /\ Onward(stack)[Len(stack)].tree = Last(stack).tree
           /\ Onward(stack)[Len(stack)].at = Last(stack).at + 1
<1>1. /\ Len(stack) \in Nat \ {0} /\ Last(stack) = stack[Len(stack)] /\ Last(stack) \in StackFrames
      /\ Front(stack) \in Seq(StackFrames) /\ Len(Front(stack)) = Len(stack) - 1
      /\ \A i \in 1..(Len(stack) - 1) : Front(stack)[i] = stack[i]
  BY FrontLast
<1> DEFINE top == [Last(stack) EXCEPT !.at = @ + 1]
           f == Front(stack)
<1>2. top \in StackFrames /\ top.tree = Last(stack).tree /\ top.at = Last(stack).at + 1
  BY <1>1, SMTT(30) DEF StackFrames
<1> HIDE DEF top, f
<1>3. <<top>> \in Seq(StackFrames) /\ Len(<<top>>) = 1 /\ <<top>>[1] = top
  BY <1>2
<1>4. /\ f \o <<top>> \in Seq(StackFrames) /\ Len(f \o <<top>>) = Len(f) + 1
      /\ \A i \in 1..(Len(f) + 1) : (f \o <<top>>)[i] = IF i <= Len(f) THEN f[i] ELSE <<top>>[i - Len(f)]
  BY <1>1, <1>3, ConcatProperties DEF f
<1>5. Onward(stack) = f \o <<top>>
  BY DEF Onward, f, top
<1>6. Len(f) = Len(stack) - 1 /\ Len(f) \in Nat
  BY <1>1 DEF f
<1> DEFINE new == f \o <<top>>
<1> HIDE DEF new
<1>7. /\ new \in Seq(StackFrames) /\ Len(new) = Len(stack)
      /\ \A i \in 1..Len(stack) : new[i] = IF i <= Len(f) THEN f[i] ELSE <<top>>[i - Len(f)]
  <2>1. Len(f) + 1 = Len(stack)
    BY <1>1, <1>6
  <2> QED
    BY <1>4, <2>1 DEF new
<1>8. new[Len(stack)] = top
  <2>1. Len(stack) \in 1..Len(stack) /\ ~(Len(stack) <= Len(f)) /\ Len(stack) - Len(f) = 1
    BY <1>1, <1>6
  <2>2. new[Len(stack)] = <<top>>[Len(stack) - Len(f)]
    BY <1>7, <2>1
  <2> QED
    BY <1>3, <2>1, <2>2
<1>9. \A i \in 1..(Len(stack) - 1) : new[i] = stack[i]
  <2> SUFFICES ASSUME NEW i \in 1..(Len(stack) - 1) PROVE new[i] = stack[i]
    OBVIOUS
  <2>1. i \in 1..Len(stack) /\ i <= Len(f) /\ f[i] = stack[i]
    BY <1>1, <1>6 DEF f
  <2> QED
    BY <1>7, <2>1
<1>10. new # <<>>
  BY <1>1, <1>7
<1> QED
  BY <1>2, <1>5, <1>7, <1>8, <1>9, <1>10 DEF new

\* What is to come is in a frame below the top, or at the top.
LEMMA PendingSplit ==
    ASSUME NEW stack \in Seq(StackFrames), stack # <<>>, NEW n, Pending(stack, n)
    PROVE  \/ PendingAtTop(stack, n)
           \/ \E i \in 1..(Len(stack) - 1) : \E k \in DOMAIN TreeOf[stack[i].tree] :
                 k > stack[i].at /\ IsOrUnder(TreeOf[stack[i].tree][k], n)
<1>0. PICK i \in DOMAIN stack : \E k \in Ahead(stack, i) : IsOrUnder(TreeOf[stack[i].tree][k], n)
  BY DEF Pending, IsOrUnder
<1>1. PICK k \in Ahead(stack, i) : IsOrUnder(TreeOf[stack[i].tree][k], n)
  BY <1>0
<1>2. Len(stack) \in Nat \ {0} /\ DOMAIN stack = 1..Len(stack) /\ Last(stack) = stack[Len(stack)]
  BY FrontLast
<1>3. k \in DOMAIN TreeOf[stack[i].tree]
  BY <1>1 DEF Ahead
<1>4. CASE i = Len(stack)
  <2>1. k >= Last(stack).at
    BY <1>1, <1>2, <1>4 DEF Ahead
  <2> QED
    BY <1>1, <1>2, <1>3, <1>4, <2>1 DEF PendingAtTop
<1>5. CASE i # Len(stack)
  <2>1. k > stack[i].at
    BY <1>1, <1>5 DEF Ahead
  <2>2. i \in 1..(Len(stack) - 1)
    BY <1>2, <1>5
  <2> QED
    BY <1>1, <1>3, <2>1, <2>2
<1> QED
  BY <1>4, <1>5

\* What is to come at the top, or after the node a lower frame is at, is to come.
LEMMA PendingTop ==
    ASSUME NEW stack \in Seq(StackFrames), stack # <<>>, NEW n, PendingAtTop(stack, n)
    PROVE  Pending(stack, n)
<1>1. Len(stack) \in Nat \ {0} /\ DOMAIN stack = 1..Len(stack) /\ Last(stack) = stack[Len(stack)]
  BY FrontLast
<1>2. PICK k \in DOMAIN TreeOf[Last(stack).tree] :
         k >= Last(stack).at /\ IsOrUnder(TreeOf[Last(stack).tree][k], n)
  BY DEF PendingAtTop
<1>3. Len(stack) \in DOMAIN stack
  BY <1>1
<1>4. k \in Ahead(stack, Len(stack))
  BY <1>1, <1>2 DEF Ahead
<1> QED
  BY <1>1, <1>2, <1>3, <1>4 DEF Pending, IsOrUnder

\* The same for a frame below the top.
LEMMA PendingBelow ==
    ASSUME NEW stack \in Seq(StackFrames), NEW n, NEW i \in 1..(Len(stack) - 1),
           NEW k \in DOMAIN TreeOf[stack[i].tree], k > stack[i].at,
           IsOrUnder(TreeOf[stack[i].tree][k], n)
    PROVE  Pending(stack, n)
<1>1. i \in DOMAIN stack /\ i # Len(stack)
  BY LenProperties
<1>2. k \in Ahead(stack, i)
  BY <1>1 DEF Ahead
<1> QED
  BY <1>1, <1>2 DEF Pending, IsOrUnder

\* One node further, only the node that was current is no longer to come.
LEMMA PendingOnward ==
    ASSUME NEW stack \in Seq(StackFrames), stack # <<>>, NEW n, Pending(stack, n)
    PROVE  \/ Pending(Onward(stack), n)
           \/ IsOrUnder(TreeOf[Last(stack).tree][Last(stack).at], n)
<1> DEFINE new == Onward(stack)
           L == Len(stack)
<1>1. L \in Nat \ {0} /\ Last(stack) = stack[L] /\ Last(stack) \in StackFrames
  BY FrontLast
<1>2. /\ new \in Seq(StackFrames) /\ Len(new) = L /\ new # <<>>
      /\ \A i \in 1..(L - 1) : new[i] = stack[i]
      /\ new[L].tree = Last(stack).tree /\ new[L].at = Last(stack).at + 1
  BY OnwardFacts
<1> HIDE DEF new
<1>3. CASE PendingAtTop(stack, n)
  <2>1. PICK k \in DOMAIN TreeOf[Last(stack).tree] :
           k >= Last(stack).at /\ IsOrUnder(TreeOf[Last(stack).tree][k], n)
    BY <1>3 DEF PendingAtTop
  <2>2. CASE k = Last(stack).at
    BY <2>1, <2>2
  <2>3. CASE k # Last(stack).at
    <3>1. k \in Nat /\ Last(stack).at \in Nat
      <4>1. TreeOf[Last(stack).tree] \in Seq(Nodes) /\ Last(stack).at \in Nat
        BY <1>1, TreesAssumption DEF StackFrames
      <4> QED
        BY <2>1, <4>1
    <3>2. Last(new) = new[L]
      BY <1>2, FrontLast
    <3>3. k >= new[L].at
      BY <1>2, <2>1, <2>3, <3>1
    <3>4. PendingAtTop(new, n)
      BY <1>2, <2>1, <3>2, <3>3 DEF PendingAtTop
    <3> QED
      BY <1>2, <3>4, PendingTop DEF new
  <2> QED
    BY <2>2, <2>3
<1>4. CASE ~PendingAtTop(stack, n)
  <2>0. PICK i \in 1..(L - 1) : \E k \in DOMAIN TreeOf[stack[i].tree] :
           k > stack[i].at /\ IsOrUnder(TreeOf[stack[i].tree][k], n)
    BY <1>4, PendingSplit
  <2>1. PICK k \in DOMAIN TreeOf[stack[i].tree] :
           k > stack[i].at /\ IsOrUnder(TreeOf[stack[i].tree][k], n)
    BY <2>0
  <2>2. new[i] = stack[i] /\ i \in 1..(Len(new) - 1)
    BY <1>2
  <2>3. Pending(new, n)
    BY <1>2, <2>1, <2>2, PendingBelow
  <2> QED
    BY <2>3 DEF new
<1> QED
  BY <1>3, <1>4

\* Into a directory: only the directory itself is no longer to come.
LEMMA PendingEnter ==
    ASSUME NEW stack \in Seq(StackFrames), stack # <<>>, NEW n, Pending(stack, n),
           NEW d, d = TreeOf[Last(stack).tree][Last(stack).at], d.type = "dir",
           d.subtree \in DOMAIN TreeOf
    PROVE  Pending(Append(stack, [tree |-> d.subtree, at |-> 1]), n) \/ n = d
<1> DEFINE frame == [tree |-> d.subtree, at |-> 1]
           new == Append(stack, frame)
           L == Len(stack)
<1>1. L \in Nat \ {0} /\ Last(stack) = stack[L] /\ Last(stack) \in StackFrames
  BY FrontLast
<1>2. frame \in StackFrames /\ frame.tree = d.subtree /\ frame.at = 1
  BY DEF StackFrames
<1> HIDE DEF frame
<1>3. /\ new \in Seq(StackFrames) /\ new # <<>> /\ Len(new) = L + 1
      /\ \A i \in 1..L : new[i] = stack[i]
      /\ new[L + 1] = frame
  BY <1>2, AppendProperties
<1> HIDE DEF new
<1>4. Last(new) = frame
  BY <1>3, FrontLast
<1>5. CASE PendingAtTop(stack, n)
  <2>1. PICK k \in DOMAIN TreeOf[Last(stack).tree] :
           k >= Last(stack).at /\ IsOrUnder(TreeOf[Last(stack).tree][k], n)
    BY <1>5 DEF PendingAtTop
  <2>2. CASE k = Last(stack).at
    <3>1. n = d \/ n \in NodesUnder(d.subtree)
      BY <2>1, <2>2 DEF IsOrUnder
    <3>2. ASSUME n \in NodesUnder(d.subtree) PROVE Pending(new, n)
      <4>1. PICK j \in DOMAIN TreeOf[d.subtree] : IsOrUnder(TreeOf[d.subtree][j], n)
        BY <3>2, NodesUnfold DEF IsOrUnder
      <4>2. j >= 1
        <5>1. TreeOf[d.subtree] \in Seq(Nodes)
          BY TreesAssumption
        <5> QED
          BY <4>1, <5>1
      <4>3. PendingAtTop(new, n)
        BY <1>2, <1>4, <4>1, <4>2 DEF PendingAtTop
      <4> QED
        BY <1>3, <4>3, PendingTop
    <3> QED
      BY <3>1, <3>2 DEF new, frame
  <2>3. CASE k # Last(stack).at
    <3>1. k \in Nat /\ Last(stack).at \in Nat
      <4>1. TreeOf[Last(stack).tree] \in Seq(Nodes) /\ Last(stack).at \in Nat
        BY <1>1, TreesAssumption DEF StackFrames
      <4> QED
        BY <2>1, <4>1
    <3>2. k > stack[L].at /\ L \in 1..L /\ L \in 1..(Len(new) - 1)
      BY <1>1, <1>3, <2>1, <2>3, <3>1
    <3>3. new[L] = stack[L]
      BY <1>3, <3>2
    <3>4. Pending(new, n)
      BY <1>1, <1>3, <2>1, <3>2, <3>3, PendingBelow
    <3> QED
      BY <3>4 DEF new, frame
  <2> QED
    BY <2>2, <2>3
<1>6. CASE ~PendingAtTop(stack, n)
  <2>0. PICK i \in 1..(L - 1) : \E k \in DOMAIN TreeOf[stack[i].tree] :
           k > stack[i].at /\ IsOrUnder(TreeOf[stack[i].tree][k], n)
    BY <1>6, PendingSplit
  <2>1. PICK k \in DOMAIN TreeOf[stack[i].tree] :
           k > stack[i].at /\ IsOrUnder(TreeOf[stack[i].tree][k], n)
    BY <2>0
  <2>2. i \in 1..L /\ i \in 1..(Len(new) - 1)
    BY <1>1, <1>3
  <2>3. new[i] = stack[i]
    BY <1>3, <2>2
  <2>4. Pending(new, n)
    BY <1>3, <2>1, <2>2, <2>3, PendingBelow
  <2> QED
    BY <2>4 DEF new, frame
<1> QED
  BY <1>5, <1>6

\* Out of a directory: what was to come there is no longer.
LEMMA PendingLeave ==
    ASSUME NEW stack \in Seq(StackFrames), stack # <<>>, NEW n, Pending(stack, n)
    PROVE  \/ PendingAtTop(stack, n)
           \/ Len(stack) # 1 /\ Front(stack) # <<>> /\ Pending(Onward(Front(stack)), n)
<1> DEFINE f == Front(stack)
           L == Len(stack)
<1>1. /\ L \in Nat \ {0} /\ f \in Seq(StackFrames) /\ Len(f) = L - 1
      /\ \A i \in 1..(L - 1) : f[i] = stack[i]
  BY FrontLast
<1> SUFFICES ASSUME ~PendingAtTop(stack, n)
             PROVE  L # 1 /\ f # <<>> /\ Pending(Onward(f), n)
  OBVIOUS
<1> HIDE DEF f
<1>0. PICK i \in 1..(L - 1) : \E k \in DOMAIN TreeOf[stack[i].tree] :
         k > stack[i].at /\ IsOrUnder(TreeOf[stack[i].tree][k], n)
  BY PendingSplit
<1>2. PICK k \in DOMAIN TreeOf[stack[i].tree] :
         k > stack[i].at /\ IsOrUnder(TreeOf[stack[i].tree][k], n)
  BY <1>0
<1>3. L # 1 /\ f # <<>> /\ L - 1 \in Nat
  BY <1>1, <1>2
<1> DEFINE new == Onward(f)
<1>4. /\ new \in Seq(StackFrames) /\ Len(new) = L - 1 /\ new # <<>>
      /\ \A j \in 1..(L - 1 - 1) : new[j] = f[j]
      /\ new[L - 1].tree = Last(f).tree /\ new[L - 1].at = Last(f).at + 1
  BY <1>1, <1>3, OnwardFacts
<1> HIDE DEF new
<1>5. Last(f) = f[L - 1] /\ Last(f) \in StackFrames /\ Last(new) = new[L - 1]
  BY <1>1, <1>3, <1>4, FrontLast
<1>6. f[i] = stack[i]
  BY <1>1
<1>7. CASE i = L - 1
  <2>1. k \in Nat /\ Last(f).at \in Nat
    <3>1. TreeOf[Last(f).tree] \in Seq(Nodes) /\ Last(f).at \in Nat
      BY <1>5, TreesAssumption DEF StackFrames
    <3> QED
      BY <1>2, <1>5, <1>6, <1>7, <3>1
  <2>2. k >= new[L - 1].at
    BY <1>2, <1>4, <1>5, <1>6, <1>7, <2>1
  <2>3. PendingAtTop(new, n)
    BY <1>2, <1>4, <1>5, <1>6, <1>7, <2>2 DEF PendingAtTop
  <2> QED
    BY <1>3, <1>4, <2>3, PendingTop DEF new
<1>8. CASE i # L - 1
  <2>1. i \in 1..(L - 1 - 1) /\ i \in 1..(Len(new) - 1)
    BY <1>1, <1>4, <1>8
  <2>2. new[i] = stack[i]
    BY <1>4, <1>6, <2>1
  <2>3. Pending(new, n)
    BY <1>2, <1>4, <2>1, <2>2, PendingBelow
  <2> QED
    BY <1>3, <2>3 DEF new
<1> QED
  BY <1>7, <1>8

-----------------------------------------------------------------------------
(* A reader r and a target tg                                              *)

\* Steps on a reader: the traversal moves; the run ends; names are noted; links are.
Moved(r, pc, asks, at, stack) == [r EXCEPT !.pc = pc, !.asks = asks, !.at = at, !.stack = stack]

Ended(r, pc, rc) == [r EXCEPT !.pc = pc, !.rc = rc]

Noted(r, failed) == [r EXCEPT !.failed = failed]

WithLinks(r, links) == [r EXCEPT !.links = links]

\* What each leaves alone.
LEMMA MovedFields ==
    ASSUME NEW r, ReaderOK(r), NEW pc \in ReaderPcs, NEW stack \in Seq(StackFrames), NEW asks, NEW at
    PROVE  LET q == Moved(r, pc, asks, at, stack)
           IN  /\ ReaderOK(q) /\ q.pc = pc /\ q.stack = stack /\ q.failed = r.failed
               /\ q.links = r.links /\ q.root = r.root /\ q.rc = r.rc /\ q.strict = r.strict
<1> DEFINE q == Moved(r, pc, asks, at, stack)
<1>1. q = [r EXCEPT !.pc = pc, !.asks = asks, !.at = at, !.stack = stack]
  BY DEF Moved
<1> HIDE DEF q
<1>2. /\ ReaderOK(q) /\ q.pc = pc /\ q.stack = stack /\ q.failed = r.failed
      /\ q.links = r.links /\ q.root = r.root /\ q.rc = r.rc /\ q.strict = r.strict
  BY <1>1, FieldsAre DEF ReaderOK, ReaderFields
<1> QED
  BY <1>2 DEF q

\* The same for the end of a run.
LEMMA EndedFields ==
    ASSUME NEW r, ReaderOK(r), NEW pc \in ReaderPcs, NEW rc \in Codes
    PROVE  LET q == Ended(r, pc, rc)
           IN  /\ ReaderOK(q) /\ q.pc = pc /\ q.stack = r.stack /\ q.failed = r.failed
               /\ q.links = r.links /\ q.root = r.root /\ q.rc = rc
<1> DEFINE q == Ended(r, pc, rc)
<1>1. q = [r EXCEPT !.pc = pc, !.rc = rc]
  BY DEF Ended
<1> HIDE DEF q
<1>2. /\ ReaderOK(q) /\ q.pc = pc /\ q.stack = r.stack /\ q.failed = r.failed
      /\ q.links = r.links /\ q.root = r.root /\ q.rc = rc
  BY <1>1, FieldsAre DEF ReaderOK, ReaderFields
<1> QED
  BY <1>2 DEF q

\* The same for names.
LEMMA NotedFields ==
    ASSUME NEW r, ReaderOK(r), NEW failed \in NameSets
    PROVE  LET q == Noted(r, failed)
           IN  /\ ReaderOK(q) /\ q.pc = r.pc /\ q.stack = r.stack /\ q.failed = failed
               /\ q.links = r.links /\ q.root = r.root /\ q.rc = r.rc
<1> DEFINE q == Noted(r, failed)
<1>1. q = [r EXCEPT !.failed = failed]
  BY DEF Noted
<1> HIDE DEF q
<1>2. /\ ReaderOK(q) /\ q.pc = r.pc /\ q.stack = r.stack /\ q.failed = failed
      /\ q.links = r.links /\ q.root = r.root /\ q.rc = r.rc
  BY <1>1, FieldsAre DEF ReaderOK, ReaderFields
<1> QED
  BY <1>2 DEF q

\* The same for links.
LEMMA WithLinksFields ==
    ASSUME NEW r, ReaderOK(r), NEW links \in LinkSets
    PROVE  LET q == WithLinks(r, links)
           IN  /\ ReaderOK(q) /\ q.pc = r.pc /\ q.stack = r.stack /\ q.failed = r.failed
               /\ q.links = links /\ q.root = r.root /\ q.rc = r.rc
<1> DEFINE q == WithLinks(r, links)
<1>1. q = [r EXCEPT !.links = links]
  BY DEF WithLinks
<1> HIDE DEF q
<1>2. /\ ReaderOK(q) /\ q.pc = r.pc /\ q.stack = r.stack /\ q.failed = r.failed
      /\ q.links = links /\ q.root = r.root /\ q.rc = r.rc
  BY <1>1, FieldsAre DEF ReaderOK, ReaderFields
<1> QED
  BY <1>2 DEF q

\* Advance moves one node on.
LEMMA AdvanceIs ==
    ASSUME NEW r, ReaderOK(r), r.pc # "done"
    PROVE  Advance(r) = Moved(r, "walk", 0, 0, Onward(r.stack))
<1> DEFINE p == [r EXCEPT !.pc = "walk", !.asks = 0, !.at = 0]
<1>1. p.stack = r.stack
  BY FieldsAre DEF ReaderOK, ReaderFields
<1>2. Advance(r) = [p EXCEPT !.stack = Onward(p.stack)]
  BY <1>1 DEF Advance
<1> HIDE DEF p
<1>3. Advance(r) = [p EXCEPT !.stack = Onward(r.stack)]
  BY <1>1, <1>2
<1> QED
  BY <1>3 DEF p, Moved

\* A step that notes a failure.
LEMMA FailsFields ==
    ASSUME NEW r, ReaderOK(r), NEW name \in Names
    PROVE  LET q == Fails(r, name)
           IN  /\ ReaderOK(q) /\ q.stack = r.stack /\ q.links = r.links /\ q.root = r.root
               /\ \/ q.pc = "done" /\ q.rc = 1
                  \/ q.pc = r.pc /\ q.failed = r.failed \cup {name}
<1> DEFINE failed == r.failed \cup {name}
<1>1. failed \in NameSets /\ "done" \in ReaderPcs
  BY DEF ReaderOK, NameSets, ReaderPcs
<1>2. Fails(r, name) = IF r.strict THEN Ended(r, "done", 1) ELSE Noted(r, failed)
  BY DEF Fails, Ended, Noted
<1>3. CASE r.strict
  <2> DEFINE pc == "done"
             rc == 1
             q == Ended(r, pc, rc)
  <2>1. Fails(r, name) = q
    BY <1>2, <1>3
  <2>2. pc \in ReaderPcs /\ rc \in Codes
    BY <1>1 DEF Codes
  <2> HIDE DEF pc, rc
  <2>3. /\ ReaderOK(q) /\ q.pc = pc /\ q.stack = r.stack /\ q.links = r.links /\ q.root = r.root /\ q.rc = rc
    BY <2>2, EndedFields
  <2> HIDE DEF q
  <2> QED
    BY <2>1, <2>3, Zenon DEF pc, rc
<1>4. CASE ~r.strict
  <2> DEFINE q == Noted(r, failed)
  <2>1. Fails(r, name) = q
    BY <1>2, <1>4
  <2> HIDE DEF failed
  <2>2. /\ ReaderOK(q) /\ q.pc = r.pc /\ q.stack = r.stack /\ q.failed = failed /\ q.links = r.links
        /\ q.root = r.root
    BY <1>1, NotedFields, Zenon
  <2> HIDE DEF q
  <2> QED
    BY <2>1, <2>2, Zenon DEF failed
<1> QED
  BY <1>3, <1>4

\* A reader that has given up with 1 owes nothing.
LEMMA DoneGood ==
    ASSUME NEW r, ReaderOK(r), NEW tg, r.pc = "done", r.rc = 1
    PROVE  ReaderGood(r, tg)
  BY DEF ReaderGood

\* The topmost frame of a traversal.
LEMMA TopFacts ==
    ASSUME NEW r, ReaderOK(r), NEW tg, OnTheWay(r, tg)
    PROVE  /\ r.stack \in Seq(StackFrames) /\ r.stack # <<>> /\ Last(r.stack) \in StackFrames
           /\ Last(r.stack).tree \in DOMAIN TreeOf /\ Last(r.stack).tree \in TreesUnder(r.root)
           /\ TreeOf[Last(r.stack).tree] \in Seq(Nodes) /\ Last(r.stack).at \in Nat \ {0}
           /\ HasNode(r) => /\ CurrentNode(r) \in NodesUnder(r.root) /\ CurrentNode(r) \in Nodes
                            /\ CurrentNode(r).name \in NodeNames
<1>1. r.stack \in Seq(StackFrames) /\ r.stack # <<>>
  BY DEF ReaderOK, OnTheWay
<1>2. Last(r.stack) \in StackFrames /\ Last(r.stack) = r.stack[Len(r.stack)] /\ Len(r.stack) \in DOMAIN r.stack
  BY <1>1, FrontLast
<1>3. Last(r.stack).tree \in DOMAIN TreeOf /\ Last(r.stack).at \in Nat \ {0}
  BY <1>2 DEF StackFrames
<1>4. Last(r.stack).tree \in TreesUnder(r.root)
  BY <1>2 DEF OnTheWay
<1>5. TreeOf[Last(r.stack).tree] \in Seq(Nodes)
  BY <1>3, TreesAssumption
<1>6. HasNode(r) => CurrentNode(r) \in ToSet(TreeOf[Last(r.stack).tree])
  BY DEF HasNode, CurrentNode, ToSet
<1>7. HasNode(r) => CurrentNode(r) \in NodesUnder(r.root)
  BY <1>4, <1>6, TreesUnderTrans
<1>8. HasNode(r) => CurrentNode(r) \in Nodes /\ CurrentNode(r).name \in NodeNames
  BY <1>3, NodeFacts DEF HasNode, CurrentNode
<1> QED
  BY <1>1, <1>2, <1>3, <1>4, <1>5, <1>7, <1>8

\* A traversal whose stack changes: what is no longer to come is settled.
LEMMA StackMoves ==
    ASSUME NEW r, ReaderOK(r), NEW tg, OnTheWay(r, tg), NEW q, ReaderOK(q),
           q.failed = r.failed, q.links = r.links, q.root = r.root, q.stack # <<>>,
           \A i \in DOMAIN q.stack : q.stack[i].tree \in TreesUnder(r.root),
           \A n \in NodesUnder(r.root) : Pending(r.stack, n) =>
               Pending(q.stack, n) \/ Settled(n, r.failed, tg)
    PROVE  OnTheWay(q, tg)
<1>1. LinksLead(q, tg)
  BY DEF OnTheWay, LinksLead
<1>2. \A n \in NodesUnder(q.root) : Settled(n, q.failed, tg) \/ Pending(q.stack, n)
  BY DEF OnTheWay
<1> QED
  BY <1>1, <1>2 DEF OnTheWay

\* The next node, once the current one is settled.
LEMMA AdvanceGood ==
    ASSUME NEW r, ReaderOK(r), NEW tg,
           \/ r.pc = "done" /\ r.rc = 1
           \/ /\ r.pc # "done" /\ OnTheWay(r, tg)
              /\ \A n \in NodesUnder(r.root) : IsOrUnder(CurrentNode(r), n) => Settled(n, r.failed, tg)
    PROVE  ReaderGood(Advance(r), tg)
<1>1. CASE r.pc = "done"
  BY <1>1, DoneGood DEF Advance
<1>2. CASE r.pc # "done"
  <2> DEFINE stack == Onward(r.stack)
             q == Advance(r)
  <2>1. q = Moved(r, "walk", 0, 0, stack)
    BY <1>2, AdvanceIs
  <2>2. r.stack \in Seq(StackFrames) /\ r.stack # <<>>
    BY <1>2, TopFacts
  <2>3. /\ Len(r.stack) \in Nat \ {0} /\ DOMAIN r.stack = 1..Len(r.stack) /\ Last(r.stack) = r.stack[Len(r.stack)]
    BY <2>2, FrontLast
  <2>4. /\ stack \in Seq(StackFrames) /\ Len(stack) = Len(r.stack) /\ stack # <<>>
        /\ \A i \in 1..(Len(r.stack) - 1) : stack[i] = r.stack[i]
        /\ stack[Len(r.stack)].tree = Last(r.stack).tree
    BY <2>2, OnwardFacts
  <2> HIDE DEF stack, q
  <2>5. "walk" \in ReaderPcs
    BY DEF ReaderPcs
  <2>6. /\ ReaderOK(q) /\ q.pc = "walk" /\ q.stack = stack /\ q.failed = r.failed /\ q.links = r.links
        /\ q.root = r.root
    BY <2>1, <2>4, <2>5, MovedFields
  <2>7. \A i \in DOMAIN q.stack : q.stack[i].tree \in TreesUnder(r.root)
    <3>1. ASSUME NEW i \in DOMAIN stack PROVE stack[i].tree = r.stack[i].tree /\ i \in DOMAIN r.stack
      <4>1. i \in 1..Len(r.stack)
        BY <2>4
      <4>2. i = Len(r.stack) \/ i \in 1..(Len(r.stack) - 1)
        BY <2>3, <4>1
      <4> QED
        BY <2>3, <2>4, <4>1, <4>2
    <3> QED
      BY <1>2, <2>6, <3>1 DEF OnTheWay
  <2>8. \A n \in NodesUnder(r.root) : Pending(r.stack, n) => Pending(q.stack, n) \/ Settled(n, r.failed, tg)
    BY <1>2, <2>2, <2>6, PendingOnward DEF stack, CurrentNode
  <2>9. OnTheWay(q, tg)
    BY <1>2, <2>4, <2>6, <2>7, <2>8, StackMoves
  <2>10. ReaderGood(q, tg)
    BY <2>6, <2>9 DEF ReaderGood
  <2> QED
    BY <2>10 DEF q
<1> QED
  BY <1>1, <1>2

\* Out of a directory, once all that was to come there is settled.
LEMMA LeaveGood ==
    ASSUME NEW r, ReaderOK(r), NEW tg,
           \/ r.pc = "done" /\ r.rc = 1
           \/ /\ r.pc # "done" /\ OnTheWay(r, tg)
              /\ \A n \in NodesUnder(r.root) : PendingAtTop(r.stack, n) => Settled(n, r.failed, tg)
    PROVE  ReaderGood(Leave(r), tg)
<1>1. CASE r.pc = "done"
  BY <1>1, DoneGood DEF Leave
<1>2. CASE r.pc # "done" /\ Len(r.stack) = 1
  <2> DEFINE q == Leave(r)
  <2>1. q = [r EXCEPT !.pc = "finish", !.stack = <<>>]
    BY <1>2 DEF Leave
  <2>2. r.stack \in Seq(StackFrames) /\ r.stack # <<>>
    BY <1>2, TopFacts
  <2>3. "finish" \in ReaderPcs /\ <<>> \in Seq(StackFrames)
    BY DEF ReaderPcs
  <2> HIDE DEF q
  <2>4. /\ ReaderOK(q) /\ q.pc = "finish" /\ q.stack = <<>> /\ q.failed = r.failed /\ q.root = r.root
    BY <2>1, <2>3, FieldsAre DEF ReaderOK, ReaderFields
  <2>5. \A n \in NodesUnder(r.root) : Settled(n, r.failed, tg)
    BY <1>2, <2>2, PendingLeave DEF OnTheWay
  <2>6. AllSettled(q, tg)
    BY <1>2, <2>4, <2>5 DEF AllSettled, OnTheWay
  <2> QED
    BY <2>4, <2>6 DEF ReaderGood, q
<1>3. CASE r.pc # "done" /\ Len(r.stack) # 1
  <2> DEFINE f == Front(r.stack)
             p == [r EXCEPT !.stack = f]
             stack == Onward(f)
             q == Leave(r)
  <2>1. q = Advance(p)
    BY <1>3 DEF Leave
  <2>2. r.stack \in Seq(StackFrames) /\ r.stack # <<>>
    BY <1>3, TopFacts
  <2>3. /\ Len(r.stack) \in Nat \ {0} /\ DOMAIN r.stack = 1..Len(r.stack)
        /\ f \in Seq(StackFrames) /\ Len(f) = Len(r.stack) - 1
        /\ \A i \in 1..(Len(r.stack) - 1) : f[i] = r.stack[i]
    BY <2>2, FrontLast
  <2> HIDE DEF f
  <2>4. f # <<>> /\ Len(f) \in Nat \ {0}
    <3>1. Len(f) \in Nat \ {0}
      BY <1>3, <2>3
    <3>2. Len(<<>>) = 0
      OBVIOUS
    <3> QED
      BY <3>1, <3>2
  <2>5. ReaderOK(p) /\ p.pc = r.pc /\ p.stack = f /\ p.failed = r.failed /\ p.links = r.links /\ p.root = r.root
    BY <2>3, FieldsAre DEF ReaderOK, ReaderFields
  <2> HIDE DEF p
  <2>6. q = Moved(p, "walk", 0, 0, stack)
    BY <1>3, <2>1, <2>5, AdvanceIs
  <2>7. /\ stack \in Seq(StackFrames) /\ Len(stack) = Len(f) /\ stack # <<>>
        /\ \A i \in 1..(Len(f) - 1) : stack[i] = f[i]
        /\ stack[Len(f)].tree = Last(f).tree
    BY <2>3, <2>4, OnwardFacts
  <2>8. Last(f) = f[Len(f)] /\ "walk" \in ReaderPcs
    BY <2>3, <2>4, FrontLast DEF ReaderPcs
  <2> HIDE DEF stack, q
  <2>9. /\ ReaderOK(q) /\ q.pc = "walk" /\ q.stack = stack /\ q.failed = r.failed /\ q.links = r.links
        /\ q.root = r.root
    BY <2>5, <2>6, <2>7, <2>8, MovedFields
  <2>10. \A i \in DOMAIN q.stack : q.stack[i].tree \in TreesUnder(r.root)
    <3>1. ASSUME NEW i \in DOMAIN stack PROVE stack[i].tree = r.stack[i].tree /\ i \in DOMAIN r.stack
      <4>1. i \in 1..Len(f)
        BY <2>7
      <4>2. (i = Len(f) \/ i \in 1..(Len(f) - 1)) /\ i \in 1..(Len(r.stack) - 1) /\ i \in DOMAIN r.stack
        BY <2>3, <2>4, <4>1
      <4>3. stack[i].tree = f[i].tree
        BY <2>7, <2>8, <4>2
      <4> QED
        BY <2>3, <4>2, <4>3
    <3> QED
      BY <1>3, <2>9, <3>1 DEF OnTheWay
  <2>11. \A n \in NodesUnder(r.root) : Pending(r.stack, n) => Pending(q.stack, n) \/ Settled(n, r.failed, tg)
    BY <1>3, <2>2, <2>9, PendingLeave DEF stack, f
  <2>12. OnTheWay(q, tg)
    BY <1>3, <2>7, <2>9, <2>10, <2>11, StackMoves
  <2>13. ReaderGood(q, tg)
    BY <2>9, <2>12 DEF ReaderGood
  <2> QED
    BY <2>13 DEF q
<1> QED
  BY <1>1, <1>2, <1>3

\* More names account for more.
LEMMA CoveredMore ==
    ASSUME NEW n, NEW a, NEW b, a \subseteq b, CoveredBy(n, a)
    PROVE  CoveredBy(n, b)
  BY Zenon DEF CoveredBy

\* A name accounts for its node.
LEMMA NameCovers ==
    ASSUME NEW n, NEW names, n.name \in names
    PROVE  CoveredBy(n, names)
  BY Zenon DEF CoveredBy

\* The name of a tree's directory accounts for all that is under it.
LEMMA DirCovers ==
    ASSUME NEW t, NEW n \in NodesUnder(t), NEW names, DirName(t) \in names
    PROVE  CoveredBy(n, names)
<1>1. CASE \E d \in Nodes : d.type = "dir" /\ d.subtree = t
  <2> DEFINE IsDir(d) == d.type = "dir" /\ d.subtree = t
             c == CHOOSE d \in Nodes : IsDir(d)
  <2>1. \E d \in Nodes : IsDir(d)
    BY <1>1
  <2>2. DirName(t) = c.name
    BY <1>1, Zenon DEF DirName
  <2>3. c \in Nodes /\ IsDir(c)
    <3> HIDE DEF IsDir
    <3> QED
      BY <2>1, Zenon
  <2> HIDE DEF c
  <2> QED
    BY <2>2, <2>3, Zenon DEF CoveredBy
<1>2. CASE ~ \E d \in Nodes : d.type = "dir" /\ d.subtree = t
  <2>1. DirName(t) = ""
    BY <1>2, Zenon DEF DirName
  <2> QED
    BY <2>1, Zenon DEF CoveredBy
<1> QED
  BY <1>1, <1>2, Zenon

\* It is a name, or none.
LEMMA DirNameType ==
    ASSUME NEW t
    PROVE  DirName(t) \in Names
<1>1. CASE \E d \in Nodes : d.type = "dir" /\ d.subtree = t
  <2> DEFINE IsDir(d) == d.type = "dir" /\ d.subtree = t
             c == CHOOSE d \in Nodes : IsDir(d)
  <2>1. \E d \in Nodes : IsDir(d)
    BY <1>1
  <2>2. DirName(t) = c.name
    BY <1>1, Zenon DEF DirName
  <2>3. c \in Nodes
    <3> HIDE DEF IsDir
    <3> QED
      BY <2>1, Zenon
  <2> HIDE DEF c
  <2>4. c.name \in NodeNames
    BY <2>3 DEF NodeNames
  <2> QED
    BY <2>2, <2>4, Zenon DEF Names
<1>2. CASE ~ \E d \in Nodes : d.type = "dir" /\ d.subtree = t
  BY <1>2, Zenon DEF DirName, Names
<1> QED
  BY <1>1, <1>2, Zenon

\* The name of a node is one.
LEMMA NodeNameType ==
    ASSUME NEW name \in NodeNames
    PROVE  name \in Names
  BY Zenon DEF Names

\* Notes and moves that leave the stack alone keep a traversal on its way.
LEMMA SameWay ==
    ASSUME NEW r, NEW tg, OnTheWay(r, tg), NEW q, q.stack = r.stack, q.root = r.root, q.links = r.links,
           r.failed \subseteq q.failed
    PROVE  OnTheWay(q, tg)
<1>1. \A n \in NodesUnder(q.root) : Settled(n, q.failed, tg) \/ Pending(q.stack, n)
  BY CoveredMore DEF OnTheWay, Settled
<1>2. LinksLead(q, tg)
  BY DEF OnTheWay, LinksLead
<1> QED
  BY <1>1, <1>2 DEF OnTheWay

\* A target in which no less is restored keeps it too.
LEMMA NoLess ==
    ASSUME NEW r, NEW tg, OnTheWay(r, tg), NEW tg2, LinksLead(r, tg2),
           \A n \in NodesUnder(r.root) : RestoredIn(tg, n) => RestoredIn(tg2, n)
    PROVE  OnTheWay(r, tg2)
<1>1. \A n \in NodesUnder(r.root) : Settled(n, r.failed, tg2) \/ Pending(r.stack, n)
  BY DEF OnTheWay, Settled
<1> QED
  BY <1>1 DEF OnTheWay

\* A target with the same files and links.
LEMMA SameContent ==
    ASSUME NEW r, NEW tg, OnTheWay(r, tg), NEW tg2, tg2.file = tg.file, tg2.link = tg.link
    PROVE  OnTheWay(r, tg2)
<1>1. LinksLead(r, tg2)
  BY DEF OnTheWay, LinksLead
<1>2. \A n : RestoredIn(tg, n) => RestoredIn(tg2, n)
  BY DEF RestoredIn
<1> QED
  BY <1>1, <1>2, NoLess

\* Nodes to come at the top are under the topmost tree.
LEMMA TopIsUnder ==
    ASSUME NEW stack, NEW n, PendingAtTop(stack, n), Last(stack).tree \in DOMAIN TreeOf
    PROVE  n \in NodesUnder(Last(stack).tree)
<1> DEFINE t == Last(stack).tree
<1>1. PICK k \in DOMAIN TreeOf[t] : IsOrUnder(TreeOf[t][k], n)
  BY DEF PendingAtTop
<1>2. t \in DOMAIN TreeOf /\ t \in TreesUnder(t)
  BY TreesUnderSelf
<1> HIDE DEF t
<1>3. TreeOf[t][k] \in ToSet(TreeOf[t])
  BY DEF ToSet
<1>4. CASE n = TreeOf[t][k]
  BY <1>2, <1>3, <1>4, TreesUnderTrans DEF t
<1>5. CASE n # TreeOf[t][k]
  <2> DEFINE d == TreeOf[t][k]
  <2>1. d \in Subtrees(t) /\ n \in NodesUnder(d.subtree)
    BY <1>1, <1>3, <1>5 DEF IsOrUnder, Subtrees
  <2> HIDE DEF d
  <2>2. d.subtree \in TreesUnder(t)
    BY <1>2, <2>1, TreesUnderClosed
  <2> QED
    BY <2>1, <2>2, TreesUnderTrans DEF t
<1> QED
  BY <1>4, <1>5

\* A tree that cannot be read: its directory is noted and left.
LEMMA LeaveFails ==
    ASSUME NEW r, ReaderOK(r), NEW tg, OnTheWay(r, tg), r.pc # "done"
    PROVE  ReaderGood(Leave(Fails(r, DirName(Last(r.stack).tree))), tg)
<1> DEFINE t == Last(r.stack).tree
           name == DirName(t)
           q == Fails(r, name)
<1>1. t \in DOMAIN TreeOf /\ name \in Names
  BY TopFacts, DirNameType
<1> HIDE DEF name
<1>2. /\ ReaderOK(q) /\ q.stack = r.stack /\ q.links = r.links /\ q.root = r.root
      /\ \/ q.pc = "done" /\ q.rc = 1
         \/ q.pc = r.pc /\ q.failed = r.failed \cup {name}
  BY <1>1, FailsFields
<1> HIDE DEF q
<1>3. CASE q.pc = "done" /\ q.rc = 1
  BY <1>2, <1>3, LeaveGood DEF q, name
<1>4. CASE q.pc = r.pc /\ q.failed = r.failed \cup {name}
  <2>1. OnTheWay(q, tg)
    BY <1>2, <1>4, SameWay
  <2>2. \A n \in NodesUnder(q.root) : PendingAtTop(q.stack, n) => Settled(n, q.failed, tg)
    <3> SUFFICES ASSUME NEW n, PendingAtTop(q.stack, n) PROVE CoveredBy(n, q.failed)
      BY DEF Settled
    <3>1. n \in NodesUnder(t)
      BY <1>1, <1>2, TopIsUnder
    <3> QED
      BY <1>4, <3>1, DirCovers DEF name
  <2> QED
    BY <1>2, <1>4, <2>1, <2>2, LeaveGood DEF q, name
<1> QED
  BY <1>2, <1>3, <1>4

\* A file that cannot be read: it is noted and passed.
LEMMA AdvanceFails ==
    ASSUME NEW r, ReaderOK(r), NEW tg, OnTheWay(r, tg), r.pc # "done", HasNode(r),
           CurrentNode(r).type = "file"
    PROVE  ReaderGood(Advance(Fails(r, CurrentNode(r).name)), tg)
<1> DEFINE name == CurrentNode(r).name
           q == Fails(r, name)
<1>1. name \in Names
  BY TopFacts, NodeNameType
<1> HIDE DEF name
<1>2. /\ ReaderOK(q) /\ q.stack = r.stack /\ q.links = r.links /\ q.root = r.root
      /\ \/ q.pc = "done" /\ q.rc = 1
         \/ q.pc = r.pc /\ q.failed = r.failed \cup {name}
  BY <1>1, FailsFields
<1> HIDE DEF q
<1>3. CASE q.pc = "done" /\ q.rc = 1
  BY <1>2, <1>3, AdvanceGood DEF q, name
<1>4. CASE q.pc = r.pc /\ q.failed = r.failed \cup {name}
  <2>1. OnTheWay(q, tg)
    BY <1>2, <1>4, SameWay
  <2>2. CurrentNode(q) = CurrentNode(r)
    BY <1>2 DEF CurrentNode
  <2>3. \A n \in NodesUnder(q.root) : IsOrUnder(CurrentNode(q), n) => Settled(n, q.failed, tg)
    <3> SUFFICES ASSUME NEW n, IsOrUnder(CurrentNode(q), n) PROVE CoveredBy(n, q.failed)
      BY DEF Settled
    <3>1. n = CurrentNode(r)
      BY <2>2 DEF IsOrUnder
    <3> QED
      BY <1>4, <3>1, NameCovers DEF name
  <2> QED
    BY <1>2, <1>4, <2>1, <2>3, AdvanceGood DEF q, name
<1> QED
  BY <1>2, <1>3, <1>4

\* A node that is restored is passed.
LEMMA AdvancePast ==
    ASSUME NEW r, ReaderOK(r), NEW tg, OnTheWay(r, tg), r.pc # "done", HasNode(r),
           CurrentNode(r).type # "dir", Settled(CurrentNode(r), r.failed, tg)
    PROVE  ReaderGood(Advance(r), tg)
<1>1. \A n \in NodesUnder(r.root) : IsOrUnder(CurrentNode(r), n) => Settled(n, r.failed, tg)
  BY DEF IsOrUnder
<1> QED
  BY <1>1, AdvanceGood

\* A traversal that stays where it is.
LEMMA StaysGood ==
    ASSUME NEW r, NEW tg, OnTheWay(r, tg), NEW q, ReaderOK(q), q.stack = r.stack, q.root = r.root,
           q.links = r.links, q.failed = r.failed, q.pc \notin {"idle", "done", "finish"},
           q.pc \in {"file", "decode", "ask file"} => HasNode(r) /\ CurrentNode(r).type = "file"
    PROVE  ReaderGood(q, tg)
<1>1. OnTheWay(q, tg)
  BY SameWay
<1>2. HasNode(q) = HasNode(r) /\ CurrentNode(q) = CurrentNode(r)
  BY DEF HasNode, CurrentNode
<1> QED
  BY <1>1, <1>2 DEF ReaderGood

-----------------------------------------------------------------------------
(* The target                                                              *)

\* The target's parts.
LEMMA TargetFields ==
    ASSUME NEW tg \in TargetStates
    PROVE  /\ tg.file \in FileStates /\ tg.link \in [NodeNames -> BOOLEAN]
           /\ tg.partial \in SUBSET NodeNames /\ tg.manifest \in NameSets
  BY DEF TargetStates

\* A target with another set of partial files.
LEMMA PartialType ==
    ASSUME NEW tg \in TargetStates, NEW partial \in SUBSET NodeNames
    PROVE  LET t2 == [tg EXCEPT !.partial = partial]
           IN  t2 \in TargetStates /\ t2.file = tg.file /\ t2.link = tg.link
  BY DEF TargetStates

\* A target with another manifest.
LEMMA ManifestType ==
    ASSUME NEW tg \in TargetStates, NEW manifest \in NameSets
    PROVE  LET t2 == [tg EXCEPT !.manifest = manifest]
           IN  t2 \in TargetStates /\ t2.file = tg.file /\ t2.link = tg.link /\ t2.manifest = manifest
  BY DEF TargetStates

\* The content of a file is one a name may have.
LEMMA FileStateType ==
    ASSUME NEW file \in FileStates, NEW n \in Nodes, n.type = "file"
    PROVE  [file EXCEPT ![n.name] = n.content] \in FileStates
<1> DEFINE C == {<<>>} \cup {m.content : m \in {k \in Nodes : k.type = "file"}}
<1>1. n.content \in C /\ n.name \in NodeNames
  BY DEF NodeNames
<1>2. FileStates = [NodeNames -> C]
  BY DEF FileStates
<1> HIDE DEF C
<1> QED
  BY <1>1, <1>2

\* With the files as they were, they are as whole as they were.
LEMMA WholeKept ==
    ASSUME FilesAreWhole, target'.file = target.file
    PROVE  FilesAreWhole'
  BY DEF FilesAreWhole

\* A whole file more.
LEMMA WholeWritten ==
    ASSUME FilesAreWhole, target \in TargetStates, NEW n \in Nodes, n.type = "file",
           target'.file = [target.file EXCEPT ![n.name] = n.content]
    PROVE  FilesAreWhole'
<1>1. target.file \in FileStates /\ DOMAIN target.file = NodeNames
  BY TargetFields DEF FileStates
<1>2. \A name \in NodeNames : target'.file[name] = IF name = n.name THEN n.content ELSE target.file[name]
  BY <1>1
<1> QED
  BY <1>2 DEF FilesAreWhole

\* A file of the snapshot is written: nothing that was restored is lost, since
\* its name is that of one node.
LEMMA FileWritten ==
    ASSUME NEW r, ReaderOK(r), NEW tg \in TargetStates, OnTheWay(r, tg), HasNode(r),
           CurrentNode(r).type = "file", NEW tg2, tg2.link = tg.link,
           tg2.file = [tg.file EXCEPT ![CurrentNode(r).name] = CurrentNode(r).content]
    PROVE  OnTheWay(r, tg2) /\ RestoredIn(tg2, CurrentNode(r))
<1> DEFINE c == CurrentNode(r)
<1>1. c \in NodesUnder(r.root) /\ c.name \in NodeNames /\ r.root \in DOMAIN TreeOf
  BY TopFacts DEF OnTheWay
<1>2. \A m \in NodesUnder(r.root) : m.name = c.name => m = c
  BY <1>1, TreesAssumption
<1> HIDE DEF c
<1>3. DOMAIN tg.file = NodeNames
  BY TargetFields DEF FileStates
<1>4. tg2.file[c.name] = c.content /\ c.type = "file"
  BY <1>1, <1>3 DEF c
<1>5. \A name : name # c.name => tg2.file[name] = tg.file[name]
  BY <1>3 DEF c
<1>6. \A n \in NodesUnder(r.root) : RestoredIn(tg, n) => RestoredIn(tg2, n)
  <2> SUFFICES ASSUME NEW n \in NodesUnder(r.root), RestoredIn(tg, n) PROVE RestoredIn(tg2, n)
    OBVIOUS
  <2>1. CASE n = c
    BY <1>4, <2>1 DEF RestoredIn
  <2>2. CASE n # c
    BY <1>2, <1>5, <2>2 DEF RestoredIn
  <2> QED
    BY <2>1, <2>2
<1>7. LinksLead(r, tg2)
  <2> SUFFICES ASSUME NEW l \in r.links
               PROVE  \E m \in NodesUnder(r.root) :
                         m.type = "file" /\ m.name = l.name /\ m.inode = l.inode /\ tg2.file[l.name] = m.content
    BY DEF LinksLead
  <2>1. PICK m \in NodesUnder(r.root) :
           m.type = "file" /\ m.name = l.name /\ m.inode = l.inode /\ tg.file[l.name] = m.content
    BY DEF OnTheWay, LinksLead
  <2>2. tg2.file[l.name] = m.content
    BY <1>2, <1>4, <1>5, <2>1
  <2> QED
    BY <2>1, <2>2
<1>8. RestoredIn(tg2, c)
  BY <1>4 DEF RestoredIn
<1> QED
  BY <1>6, <1>7, <1>8, NoLess DEF c

-----------------------------------------------------------------------------
(* The reader's steps                                                      *)

\* What a step that leaves the target alone has to show.
LEMMA SameTarget ==
    ASSUME ReaderInv, target' = target, ReaderGood(rd', target)
    PROVE  ReaderInv'
<1>1. FilesAreWhole'
  BY WholeKept DEF ReaderInv
<1>2. ReaderGood(rd, target)'
  BY DEF ReaderGood, ReaderOK, OnTheWay, HasNode, CurrentNode, AllSettled, RestoredIn, Settled, LinksLead
<1> QED
  BY <1>1, <1>2 DEF ReaderInv

\* The same when it leaves the names there alone.
LEMMA NewTarget ==
    ASSUME target' \in TargetStates, FilesAreWhole', ReaderGood(rd', target')
    PROVE  ReaderInv'
  BY DEF ReaderInv

\* A reader that is under way.
LEMMA UnderWay ==
    ASSUME ReaderInv, rd.pc \notin {"idle", "done", "finish"}
    PROVE  /\ ReaderOK(rd) /\ OnTheWay(rd, target) /\ target \in TargetStates /\ FilesAreWhole
           /\ Top.tree \in DOMAIN TreeOf
  BY TopFacts DEF ReaderInv, ReaderGood, Top

\* A reader that is at a node.
LEMMA AtNode ==
    ASSUME ReaderInv, Walking
    PROVE  /\ ReaderOK(rd) /\ OnTheWay(rd, target) /\ target \in TargetStates /\ FilesAreWhole
           /\ rd.pc = "walk" /\ HasNode(rd) /\ Node = CurrentNode(rd)
           /\ Node \in Nodes /\ Node \in NodesUnder(rd.root) /\ Node.name \in NodeNames
<1>1. rd.pc = "walk" /\ ReaderOK(rd) /\ OnTheWay(rd, target) /\ target \in TargetStates /\ FilesAreWhole
  BY UnderWay DEF Walking
<1>2. TreeOf[Top.tree] \in Seq(Nodes) /\ Top.at \in Nat \ {0} /\ Top.at <= Len(TreeOf[Top.tree])
  BY <1>1, TopFacts DEF Walking, Top
<1>3. DOMAIN TreeOf[Top.tree] = 1..Len(TreeOf[Top.tree]) /\ Len(TreeOf[Top.tree]) \in Nat
  BY <1>2, LenProperties
<1>4. HasNode(rd) /\ Node = CurrentNode(rd)
  BY <1>2, <1>3 DEF HasNode, Node, CurrentNode, Top
<1> QED
  BY <1>1, <1>4, TopFacts

\* A reader that is in a file.
LEMMA InFile ==
    ASSUME ReaderInv, rd.pc \in {"file", "decode", "ask file"}
    PROVE  /\ ReaderOK(rd) /\ OnTheWay(rd, target) /\ target \in TargetStates /\ FilesAreWhole
           /\ HasNode(rd) /\ Node = CurrentNode(rd) /\ Node.type = "file"
           /\ Node \in Nodes /\ Node \in NodesUnder(rd.root) /\ Node.name \in NodeNames
<1>1. /\ ReaderOK(rd) /\ OnTheWay(rd, target) /\ target \in TargetStates /\ FilesAreWhole
      /\ HasNode(rd) /\ CurrentNode(rd).type = "file"
  BY DEF ReaderInv, ReaderGood
<1>2. Node = CurrentNode(rd)
  BY DEF Node, CurrentNode, Top
<1> QED
  BY <1>1, <1>2, TopFacts

\* Steps between two nodes, or within one: the pc and what the invariant does
\* not speak of.
LEMMA PcMoves ==
    ASSUME ReaderInv, rd.pc \notin {"idle", "done", "finish"}, target' = target,
           NEW pc \in ReaderPcs \ {"idle", "done", "finish"},
           pc \in {"file", "decode", "ask file"} => HasNode(rd) /\ CurrentNode(rd).type = "file",
           DOMAIN rd' = DOMAIN rd, rd'.pc = pc, rd'.stack = rd.stack, rd'.failed = rd.failed,
           rd'.links = rd.links, rd'.strict = rd.strict, rd'.rc = rd.rc, rd'.root = rd.root
    PROVE  ReaderInv'
<1> DEFINE q == rd'
<1>1. ReaderOK(rd) /\ OnTheWay(rd, target)
  BY UnderWay
<1>2. ReaderOK(q)
  BY <1>1 DEF ReaderOK
<1>3. q.pc \notin {"idle", "done", "finish"} /\ q.pc = pc
  OBVIOUS
<1>4. q.stack = rd.stack /\ q.root = rd.root /\ q.links = rd.links /\ q.failed = rd.failed
  OBVIOUS
<1> HIDE DEF q
<1>5. ReaderGood(q, target)
  BY <1>1, <1>2, <1>3, <1>4, StaysGood
<1> QED
  BY <1>5, SameTarget DEF q

\* What reading a blob answers.
LEMMA ReadBlobType ==
    ASSUME NEW b
    PROVE  /\ ReadBlob(b) \in {"ok", "fail", "ask", "decode"}
           /\ b \notin DOMAIN world.blob => ReadBlob(b) \in {"ok", "fail", "ask"}
<1> DEFINE p == rd.index[b]
           f == FoundAs(p)
<1>1. CASE b \notin DOMAIN rd.index
  BY <1>1 DEF ReadBlob
<1>2. CASE b \in DOMAIN rd.index
  <2>1. ReadBlob(b) = CASE f # "none" /\ p # world.pack[b] -> "fail"
               [] f = "none" -> IF rd.interactive THEN "ask" ELSE "fail"
               [] f = "eio" -> "fail"
               [] f = "bad" /\ b \in world.hit -> "fail"
               [] b \in DOMAIN world.blob -> IF IsCompressed(world.blob[b]) THEN "decode" ELSE "ok"
               [] OTHER -> "ok"
    BY <1>2 DEF ReadBlob
  <2> HIDE DEF p, f
  <2> QED
    BY <2>1
<1> QED
  BY <1>1, <1>2

\* The counting pre-pass reads trees and moves nothing.
LEMMA CountTreeKeeps ==
    ASSUME ReaderInv, CountTree
    PROVE  ReaderInv'
<1>1. rd.pc = "count" /\ target' = target /\ ReaderOK(rd)
  BY UnderWay DEF CountTree
<1>2. /\ DOMAIN rd' = DOMAIN rd /\ rd'.stack = rd.stack /\ rd'.failed = rd.failed
      /\ rd'.links = rd.links /\ rd'.strict = rd.strict /\ rd'.rc = rd.rc /\ rd'.root = rd.root
      /\ rd'.pc \in {"count", "ask count"}
  <2> DEFINE t == Last(rd.todo)
             subs == SelectSeq(TreeOf[t], LAMBDA n : n.type = "dir")
             more == Front(rd.todo) \o [i \in DOMAIN subs |-> subs[i].subtree]
             read == ReadBlob(t)
  <2>1. CASE read = "ask"
    <3>1. rd' = [rd EXCEPT !.pc = "ask count"]
      BY <2>1 DEF CountTree
    <3> QED
      BY <1>1, <3>1, FieldsAre DEF ReaderOK, ReaderFields
  <2>2. CASE read = "fail"
    <3>1. rd' = [rd EXCEPT !.todo = <<>>, !.asks = 0]
      BY <2>2 DEF CountTree
    <3> QED
      BY <1>1, <3>1, FieldsAre DEF ReaderOK, ReaderFields
  <2>3. CASE read # "ask" /\ read # "fail"
    <3>1. rd' = [rd EXCEPT !.todo = more, !.asks = 0]
      BY <2>3 DEF CountTree
    <3> HIDE DEF more
    <3> QED
      BY <1>1, <3>1, FieldsAre DEF ReaderOK, ReaderFields
  <2> QED
    BY <2>1, <2>2, <2>3
<1> DEFINE pc == rd'.pc
<1>3. pc \in ReaderPcs \ {"idle", "done", "finish"} /\ pc \notin {"file", "decode", "ask file"}
  BY <1>2 DEF ReaderPcs
<1>4. rd.pc \notin {"idle", "done", "finish"}
  BY <1>1
<1> QED
  BY <1>1, <1>2, <1>3, <1>4, PcMoves

\* The walk starts.
LEMMA CountDoneKeeps ==
    ASSUME ReaderInv, CountDone
    PROVE  ReaderInv'
<1>1. rd.pc = "count" /\ target' = target /\ ReaderOK(rd) /\ rd' = [rd EXCEPT !.pc = "tree"]
  BY UnderWay DEF CountDone
<1>2. /\ DOMAIN rd' = DOMAIN rd /\ rd'.stack = rd.stack /\ rd'.failed = rd.failed
      /\ rd'.links = rd.links /\ rd'.strict = rd.strict /\ rd'.rc = rd.rc /\ rd'.root = rd.root
      /\ rd'.pc = "tree"
  BY <1>1, FieldsAre DEF ReaderOK, ReaderFields
<1> DEFINE pc == rd'.pc
<1>3. pc \in ReaderPcs \ {"idle", "done", "finish"} /\ pc \notin {"file", "decode", "ask file"}
  BY <1>2 DEF ReaderPcs
<1>4. rd.pc \notin {"idle", "done", "finish"}
  BY <1>1
<1> QED
  BY <1>1, <1>2, <1>3, <1>4, PcMoves

\* A tree is read, or its directory is noted and left.
LEMMA ReadTreeKeeps ==
    ASSUME DriveInv, ReaderInv, ReadTree
    PROVE  ReaderInv'
<1>1. rd.pc = "tree" /\ target' = target
  BY DEF ReadTree
<1>2. ReaderOK(rd) /\ OnTheWay(rd, target) /\ Top.tree \in DOMAIN TreeOf
  BY <1>1, UnderWay
<1>3. ReadBlob(Top.tree) \in {"ok", "fail", "ask"}
  BY <1>2, DriveFacts, ReadBlobType
<1>4. rd.pc \notin {"idle", "done", "finish"}
  BY <1>1
<1>5. CASE ReadBlob(Top.tree) = "fail"
  <2>1. rd' = Leave(Fails(rd, DirName(Last(rd.stack).tree)))
    BY <1>5 DEF ReadTree, Top
  <2>2. rd.pc # "done"
    BY <1>1
  <2> QED
    BY <1>1, <1>2, <2>1, <2>2, LeaveFails, SameTarget
<1>6. CASE ReadBlob(Top.tree) = "ask"
  <2>1. rd' = [rd EXCEPT !.pc = "ask tree"]
    BY <1>6 DEF ReadTree
  <2>2. /\ DOMAIN rd' = DOMAIN rd /\ rd'.stack = rd.stack /\ rd'.failed = rd.failed
        /\ rd'.links = rd.links /\ rd'.strict = rd.strict /\ rd'.rc = rd.rc /\ rd'.root = rd.root
        /\ rd'.pc = "ask tree"
    BY <1>2, <2>1, FieldsAre DEF ReaderOK, ReaderFields
  <2> DEFINE pc == rd'.pc
  <2>3. pc \in ReaderPcs \ {"idle", "done", "finish"} /\ pc \notin {"file", "decode", "ask file"}
    BY <2>2 DEF ReaderPcs
  <2> QED
    BY <1>1, <1>4, <2>2, <2>3, PcMoves
<1>7. CASE ReadBlob(Top.tree) = "ok"
  <2>1. rd' = [rd EXCEPT !.pc = "walk", !.asks = 0]
    BY <1>7 DEF ReadTree
  <2>2. /\ DOMAIN rd' = DOMAIN rd /\ rd'.stack = rd.stack /\ rd'.failed = rd.failed
        /\ rd'.links = rd.links /\ rd'.strict = rd.strict /\ rd'.rc = rd.rc /\ rd'.root = rd.root
        /\ rd'.pc = "walk"
    BY <1>2, <2>1, FieldsAre DEF ReaderOK, ReaderFields
  <2> DEFINE pc == rd'.pc
  <2>3. pc \in ReaderPcs \ {"idle", "done", "finish"} /\ pc \notin {"file", "decode", "ask file"}
    BY <2>2 DEF ReaderPcs
  <2> QED
    BY <1>1, <1>4, <2>2, <2>3, PcMoves
<1> QED
  BY <1>3, <1>5, <1>6, <1>7

\* The end of a directory: nothing is to come there.
LEMMA TreeDoneKeeps ==
    ASSUME ReaderInv, TreeDone
    PROVE  ReaderInv'
<1>1. rd.pc = "walk" /\ target' = target /\ rd' = Leave(rd) /\ Top.at > Len(TreeOf[Top.tree])
  BY DEF TreeDone
<1>2. ReaderOK(rd) /\ OnTheWay(rd, target)
  BY <1>1, UnderWay
<1>3. TreeOf[Top.tree] \in Seq(Nodes) /\ Top.at \in Nat \ {0}
  BY <1>2, TopFacts DEF Top
<1>4. DOMAIN TreeOf[Top.tree] = 1..Len(TreeOf[Top.tree]) /\ Len(TreeOf[Top.tree]) \in Nat
  BY <1>3, LenProperties
<1>5. \A n : ~PendingAtTop(rd.stack, n)
  BY <1>1, <1>3, <1>4 DEF PendingAtTop, Top
<1>6. rd.pc # "done"
  BY <1>1
<1>7. ReaderGood(Leave(rd), target)
  BY <1>2, <1>5, <1>6, LeaveGood
<1> QED
  BY <1>1, <1>7, SameTarget

\* Into a directory, which is not itself restored.
LEMMA EnterDirKeeps ==
    ASSUME ReaderInv, EnterDir
    PROVE  ReaderInv'
<1> DEFINE d == Node
           frame == [tree |-> d.subtree, at |-> 1]
           stack == Append(rd.stack, frame)
           q == rd'
<1>1. /\ Walking /\ d.type = "dir" /\ target' = target
      /\ rd' = [rd EXCEPT !.pc = "tree", !.stack = stack]
  BY DEF EnterDir
<1>2. /\ ReaderOK(rd) /\ OnTheWay(rd, target) /\ HasNode(rd) /\ d = CurrentNode(rd)
      /\ d \in Nodes /\ d \in NodesUnder(rd.root)
  BY <1>1, AtNode
<1>3. /\ rd.stack \in Seq(StackFrames) /\ rd.stack # <<>> /\ Last(rd.stack).tree \in TreesUnder(rd.root)
      /\ Last(rd.stack).tree \in DOMAIN TreeOf /\ Last(rd.stack).at \in DOMAIN TreeOf[Last(rd.stack).tree]
      /\ d = TreeOf[Last(rd.stack).tree][Last(rd.stack).at]
  BY <1>2, TopFacts DEF HasNode, CurrentNode
<1> HIDE DEF d
<1>4. d.subtree \in DOMAIN TreeOf /\ d \in Subtrees(Last(rd.stack).tree)
  BY <1>1, <1>3, NodeFacts DEF Subtrees, ToSet
<1>5. d.subtree \in TreesUnder(rd.root)
  BY <1>3, <1>4, TreesUnderClosed
<1>6. frame \in StackFrames /\ frame.tree = d.subtree
  BY <1>4 DEF StackFrames
<1> HIDE DEF frame
<1>7. /\ stack \in Seq(StackFrames) /\ stack # <<>> /\ Len(stack) = Len(rd.stack) + 1
      /\ \A i \in 1..Len(rd.stack) : stack[i] = rd.stack[i]
      /\ stack[Len(rd.stack) + 1] = frame
  BY <1>3, <1>6, AppendProperties
<1>8. Len(rd.stack) \in Nat /\ DOMAIN rd.stack = 1..Len(rd.stack) /\ DOMAIN stack = 1..Len(stack)
  BY <1>3, <1>7, LenProperties
<1>9. \A n \in NodesUnder(rd.root) : Pending(rd.stack, n) => Pending(stack, n) \/ Settled(n, rd.failed, target)
  <2>1. RestoredIn(target, d)
    BY <1>1 DEF RestoredIn
  <2>2. \A n : Pending(rd.stack, n) => Pending(stack, n) \/ n = d
    BY <1>1, <1>3, <1>4, PendingEnter DEF frame
  <2> QED
    BY <2>1, <2>2 DEF Settled
<1> HIDE DEF stack
<1>10. /\ ReaderOK(q) /\ q.pc = "tree" /\ q.stack = stack /\ q.failed = rd.failed /\ q.links = rd.links
       /\ q.root = rd.root
  BY <1>1, <1>2, <1>7, FieldsAre DEF ReaderOK, ReaderFields, ReaderPcs
<1> HIDE DEF q
<1>11. \A i \in DOMAIN q.stack : q.stack[i].tree \in TreesUnder(rd.root)
  <2> SUFFICES ASSUME NEW i \in DOMAIN stack PROVE stack[i].tree \in TreesUnder(rd.root)
    BY <1>10
  <2>1. CASE i = Len(rd.stack) + 1
    BY <1>5, <1>6, <1>7, <2>1
  <2>2. CASE i # Len(rd.stack) + 1
    <3>1. i \in DOMAIN rd.stack /\ stack[i] = rd.stack[i]
      BY <1>7, <1>8, <2>2
    <3> QED
      BY <1>2, <3>1 DEF OnTheWay
  <2> QED
    BY <2>1, <2>2
<1>12. OnTheWay(q, target)
  BY <1>2, <1>7, <1>9, <1>10, <1>11, StackMoves
<1>13. ReaderGood(q, target)
  BY <1>10, <1>12 DEF ReaderGood
<1> QED
  BY <1>1, <1>13, SameTarget DEF q

\* A target with another file.
LEMMA FiledType ==
    ASSUME NEW tg \in TargetStates, NEW n \in Nodes, n.type = "file"
    PROVE  LET t2 == [tg EXCEPT !.file[n.name] = n.content]
           IN  /\ t2 \in TargetStates /\ t2.link = tg.link
               /\ t2.file = [tg.file EXCEPT ![n.name] = n.content]
<1> DEFINE file == [tg.file EXCEPT ![n.name] = n.content]
           t2 == [tg EXCEPT !.file[n.name] = n.content]
<1>1. file \in FileStates
  BY TargetFields, FileStateType
<1>2. t2 = [tg EXCEPT !.file = file]
  BY DEF TargetStates
<1> HIDE DEF file, t2
<1>3. t2 \in TargetStates /\ t2.link = tg.link /\ t2.file = file
  BY <1>1, <1>2 DEF TargetStates
<1> QED
  BY <1>3 DEF file, t2

\* A hard link to a file that was restored has its content.
LEMMA LinkFileKeeps ==
    ASSUME ReaderInv, LinkFile
    PROVE  ReaderInv'
<1> DEFINE c == Node
           Leads(l) == l.inode = c.inode
           source == CHOOSE l \in rd.links : Leads(l)
<1>1. /\ Walking /\ c.type = "file" /\ Linked /\ rd' = Advance(rd)
      /\ target' = [target EXCEPT !.file[c.name] = target.file[source.name]]
  BY DEF LinkFile
<1>2. /\ ReaderOK(rd) /\ OnTheWay(rd, target) /\ target \in TargetStates /\ FilesAreWhole
      /\ rd.pc = "walk" /\ HasNode(rd) /\ c = CurrentNode(rd) /\ c \in Nodes /\ c \in NodesUnder(rd.root)
  BY <1>1, AtNode
<1>3. c.inode # 0 /\ \E l \in rd.links : Leads(l)
  BY <1>1 DEF Linked
<1>4. source \in rd.links /\ Leads(source)
  <2> HIDE DEF Leads
  <2> QED
    BY <1>3, Zenon
<1> HIDE DEF source, c
<1>5. PICK m \in NodesUnder(rd.root) :
         m.type = "file" /\ m.name = source.name /\ m.inode = source.inode /\ target.file[source.name] = m.content
  BY <1>2, <1>4 DEF OnTheWay, LinksLead
<1>6. rd.root \in DOMAIN TreeOf
  BY <1>2 DEF OnTheWay
<1>7. target.file[source.name] = c.content
  BY <1>1, <1>2, <1>3, <1>4, <1>5, <1>6, TreesAssumption
<1>8. target' = [target EXCEPT !.file[c.name] = c.content]
  BY <1>1, <1>7
<1>9. /\ target' \in TargetStates /\ target'.link = target.link
      /\ target'.file = [target.file EXCEPT ![c.name] = c.content]
  <2> DEFINE t2 == [target EXCEPT !.file[c.name] = c.content]
  <2>1. t2 \in TargetStates /\ t2.link = target.link /\ t2.file = [target.file EXCEPT ![c.name] = c.content]
    BY <1>1, <1>2, FiledType
  <2> HIDE DEF t2
  <2> QED
    BY <1>8, <2>1 DEF t2
<1>10. FilesAreWhole'
  BY <1>1, <1>2, <1>9, WholeWritten
<1> DEFINE tg2 == target'
<1>11. tg2.link = target.link /\ tg2.file = [target.file EXCEPT ![CurrentNode(rd).name] = CurrentNode(rd).content]
  BY <1>2, <1>9
<1> HIDE DEF tg2
<1>12. OnTheWay(rd, tg2) /\ RestoredIn(tg2, CurrentNode(rd))
  BY <1>1, <1>2, <1>11, FileWritten
<1>13. /\ rd.pc # "done" /\ CurrentNode(rd).type # "dir"
       /\ Settled(CurrentNode(rd), rd.failed, tg2)
  BY <1>1, <1>2, <1>12 DEF Settled
<1>14. ReaderGood(rd', tg2)
  BY <1>1, <1>2, <1>12, <1>13, AdvancePast
<1> QED
  BY <1>9, <1>10, <1>14, NewTarget DEF tg2

\* Steps that change the partial files only.
LEMMA PartialKeeps ==
    ASSUME ReaderInv, rd.pc \notin {"idle", "done", "finish"}, NEW partial \in SUBSET NodeNames,
           target' = [target EXCEPT !.partial = partial],
           \A tg : OnTheWay(rd, tg) => ReaderGood(rd', tg)
    PROVE  ReaderInv'
<1>1. OnTheWay(rd, target) /\ target \in TargetStates /\ FilesAreWhole
  BY UnderWay
<1>2. target' \in TargetStates /\ target'.file = target.file /\ target'.link = target.link
  BY <1>1, PartialType
<1>3. FilesAreWhole'
  BY <1>1, <1>2, WholeKept
<1> DEFINE tg2 == target'
<1>4. tg2.file = target.file /\ tg2.link = target.link
  BY <1>2
<1> HIDE DEF tg2
<1>5. ReaderGood(rd', tg2)
  BY <1>1, <1>4, SameContent
<1> QED
  BY <1>2, <1>3, <1>5, NewTarget DEF tg2

\* A file is begun under its partial name.
LEMMA OpenFileKeeps ==
    ASSUME ReaderInv, OpenFile
    PROVE  ReaderInv'
<1> DEFINE partial == target.partial \cup {Node.name}
<1>1. /\ Walking /\ Node.type = "file" /\ rd' = [rd EXCEPT !.pc = "file", !.at = 1]
      /\ target' = [target EXCEPT !.partial = partial]
  BY DEF OpenFile
<1>2. /\ ReaderOK(rd) /\ rd.pc = "walk" /\ HasNode(rd) /\ Node = CurrentNode(rd) /\ target \in TargetStates
      /\ Node.name \in NodeNames
  BY <1>1, AtNode
<1>3. partial \in SUBSET NodeNames
  BY <1>2, TargetFields
<1> HIDE DEF partial
<1> DEFINE q == rd'
<1>4. /\ ReaderOK(q) /\ q.pc = "file" /\ q.stack = rd.stack /\ q.failed = rd.failed /\ q.links = rd.links
      /\ q.root = rd.root
  BY <1>1, <1>2, FieldsAre DEF ReaderOK, ReaderFields, ReaderPcs
<1> HIDE DEF q
<1>5. \A tg : OnTheWay(rd, tg) => ReaderGood(q, tg)
  BY <1>1, <1>2, <1>4, StaysGood
<1>6. rd.pc \notin {"idle", "done", "finish"}
  BY <1>2
<1> QED
  BY <1>1, <1>3, <1>5, <1>6, PartialKeeps DEF q

\* A file that fails is passed, and its partial file removed.
LEMMA FileFails ==
    ASSUME ReaderInv, rd.pc \in {"file", "decode", "ask file"},
           NEW r, ReaderOK(r), r.pc = rd.pc, r.stack = rd.stack, r.failed = rd.failed, r.links = rd.links,
           r.root = rd.root, rd' = Advance(Fails(r, Node.name)),
           target' = [target EXCEPT !.partial = @ \ {Node.name}]
    PROVE  ReaderInv'
<1> DEFINE partial == target.partial \ {Node.name}
<1>1. /\ HasNode(rd) /\ Node = CurrentNode(rd) /\ Node.type = "file" /\ target \in TargetStates
  BY InFile
<1>2. partial \in SUBSET NodeNames /\ target' = [target EXCEPT !.partial = partial]
  BY <1>1, TargetFields
<1> HIDE DEF partial
<1>3. HasNode(r) /\ CurrentNode(r) = CurrentNode(rd) /\ r.pc # "done"
  BY <1>1 DEF HasNode, CurrentNode
<1>4. ASSUME NEW tg, OnTheWay(rd, tg) PROVE ReaderGood(rd', tg)
  <2>1. OnTheWay(r, tg)
    BY <1>4, SameWay
  <2> QED
    BY <1>1, <1>3, <2>1, AdvanceFails
<1> QED
  BY <1>2, <1>4, PartialKeeps

\* A blob of the content is read, asked for, decoded or given up.
LEMMA ReadContentKeeps ==
    ASSUME ReaderInv, ReadContent
    PROVE  ReaderInv'
<1> DEFINE b == Node.content[rd.at]
           read == ReadBlob(b)
<1>1. /\ rd.pc = "file"
      /\ rd' = CASE read = "ask"    -> [rd EXCEPT !.pc = "ask file"]
                 [] read = "fail"   -> Advance(Fails(rd, Node.name))
                 [] read = "ok"     -> [rd EXCEPT !.at = @ + 1, !.asks = 0]
                 [] read = "decode" -> [rd EXCEPT !.pc = "decode", !.asks = 0]
      /\ target' = IF read = "fail" THEN [target EXCEPT !.partial = @ \ {Node.name}] ELSE target
  BY DEF ReadContent
<1>2. ReaderOK(rd) /\ HasNode(rd) /\ CurrentNode(rd).type = "file"
  BY <1>1, InFile
<1>3. read \in {"ok", "fail", "ask", "decode"}
  BY ReadBlobType
<1> HIDE DEF read
<1>4. CASE read = "fail"
  <2>1. rd' = Advance(Fails(rd, Node.name)) /\ target' = [target EXCEPT !.partial = @ \ {Node.name}]
    BY <1>1, <1>4
  <2> QED
    BY <1>1, <1>2, <2>1, FileFails
<1>5. CASE read # "fail"
  <2>1. rd' \in {[rd EXCEPT !.pc = "ask file"], [rd EXCEPT !.at = @ + 1, !.asks = 0],
                 [rd EXCEPT !.pc = "decode", !.asks = 0]}
    BY <1>1, <1>3, <1>5
  <2>2. /\ DOMAIN rd' = DOMAIN rd /\ rd'.stack = rd.stack /\ rd'.failed = rd.failed
        /\ rd'.links = rd.links /\ rd'.strict = rd.strict /\ rd'.rc = rd.rc /\ rd'.root = rd.root
        /\ rd'.pc \in {"file", "decode", "ask file"}
    <3>1. CASE rd' = [rd EXCEPT !.pc = "ask file"]
      BY <1>2, <3>1, FieldsAre DEF ReaderOK, ReaderFields
    <3>2. CASE rd' = [rd EXCEPT !.at = @ + 1, !.asks = 0]
      BY <1>1, <1>2, <3>2, FieldsAre DEF ReaderOK, ReaderFields
    <3>3. CASE rd' = [rd EXCEPT !.pc = "decode", !.asks = 0]
      BY <1>2, <3>3, FieldsAre DEF ReaderOK, ReaderFields
    <3> QED
      BY <2>1, <3>1, <3>2, <3>3
  <2>3. target' = target /\ rd.pc \notin {"idle", "done", "finish"}
    BY <1>1, <1>5
  <2> DEFINE pc == rd'.pc
  <2>4. pc \in ReaderPcs \ {"idle", "done", "finish"}
    BY <2>2 DEF ReaderPcs
  <2> QED
    BY <1>2, <2>2, <2>3, <2>4, PcMoves
<1> QED
  BY <1>4, <1>5

\* The decoder has answered.
LEMMA ReadDecodedKeeps ==
    ASSUME ReaderInv, ReadDecoded
    PROVE  ReaderInv'
<1>1. /\ rd.pc = "decode"
      /\ \/ rd' = [rd EXCEPT !.pc = "file", !.at = @ + 1] /\ target' = target
         \/ /\ rd' = Advance(Fails(rd, Node.name))
            /\ target' = [target EXCEPT !.partial = @ \ {Node.name}]
  BY DEF ReadDecoded
<1>2. ReaderOK(rd) /\ HasNode(rd) /\ CurrentNode(rd).type = "file"
  BY <1>1, InFile
<1>3. CASE rd' = [rd EXCEPT !.pc = "file", !.at = @ + 1] /\ target' = target
  <2>1. /\ DOMAIN rd' = DOMAIN rd /\ rd'.stack = rd.stack /\ rd'.failed = rd.failed
        /\ rd'.links = rd.links /\ rd'.strict = rd.strict /\ rd'.rc = rd.rc /\ rd'.root = rd.root
        /\ rd'.pc = "file"
    BY <1>2, <1>3, FieldsAre DEF ReaderOK, ReaderFields
  <2>2. rd.pc \notin {"idle", "done", "finish"}
    BY <1>1
  <2> DEFINE pc == rd'.pc
  <2>3. pc \in ReaderPcs \ {"idle", "done", "finish"}
    BY <2>1 DEF ReaderPcs
  <2> QED
    BY <1>2, <1>3, <2>1, <2>2, <2>3, PcMoves
<1>4. CASE /\ rd' = Advance(Fails(rd, Node.name))
           /\ target' = [target EXCEPT !.partial = @ \ {Node.name}]
  BY <1>1, <1>2, <1>4, FileFails
<1> QED
  BY <1>1, <1>3, <1>4

\* A file is put under its own name, and links may lead to it.
LEMMA CloseFileKeeps ==
    ASSUME ReaderInv, CloseFile
    PROVE  ReaderInv'
<1> DEFINE c == Node
           link == [inode |-> c.inode, name |-> c.name]
           links == {l \in rd.links : l.inode # c.inode} \cup {link}
           partial == target.partial \ {c.name}
           t1 == [target EXCEPT !.file[c.name] = c.content]
           tg2 == target'
           q == WithLinks(rd, links)
<1>1. /\ rd.pc = "file" /\ rd' = Advance(q)
      /\ target' = [target EXCEPT !.file[c.name] = c.content, !.partial = @ \ {c.name}]
  BY DEF CloseFile, WithLinks
<1>2. /\ ReaderOK(rd) /\ OnTheWay(rd, target) /\ target \in TargetStates /\ FilesAreWhole
      /\ HasNode(rd) /\ c = CurrentNode(rd) /\ c.type = "file" /\ c \in Nodes /\ c \in NodesUnder(rd.root)
      /\ c.name \in NodeNames
  BY <1>1, InFile
<1> HIDE DEF c
<1>3. /\ t1 \in TargetStates /\ t1.link = target.link
      /\ t1.file = [target.file EXCEPT ![c.name] = c.content]
  BY <1>2, FiledType
<1>4. t1.partial = target.partial
  BY <1>2 DEF TargetStates
<1>5. target' = [t1 EXCEPT !.partial = partial]
  BY <1>1, <1>4
<1> HIDE DEF t1
<1>6. partial \in SUBSET NodeNames
  BY <1>2, TargetFields
<1> HIDE DEF partial
<1>7. /\ target' \in TargetStates /\ target'.link = target.link
      /\ target'.file = [target.file EXCEPT ![c.name] = c.content]
  <2> DEFINE t2 == [t1 EXCEPT !.partial = partial]
  <2>1. t2 \in TargetStates /\ t2.file = t1.file /\ t2.link = t1.link
    BY <1>3, <1>6, PartialType
  <2> HIDE DEF t2
  <2> QED
    BY <1>3, <1>5, <2>1 DEF t2
<1>8. FilesAreWhole'
  BY <1>2, <1>7, WholeWritten
<1>9. tg2.link = target.link /\ tg2.file = [target.file EXCEPT ![CurrentNode(rd).name] = CurrentNode(rd).content]
  BY <1>2, <1>7
<1> HIDE DEF tg2
<1>10. OnTheWay(rd, tg2) /\ RestoredIn(tg2, CurrentNode(rd))
  BY <1>2, <1>9, FileWritten
<1>11. link.inode = c.inode /\ link.name = c.name
  OBVIOUS
<1>12. links \in LinkSets
  <2> DEFINE I == {n.inode : n \in Nodes}
  <2>1. c.inode \in I
    BY <1>2
  <2>2. rd.links \in SUBSET [inode : I, name : NodeNames]
    BY <1>2 DEF ReaderOK, LinkSets
  <2> HIDE DEF I
  <2>3. link \in [inode : I, name : NodeNames]
    BY <1>2, <2>1
  <2>4. links \in SUBSET [inode : I, name : NodeNames]
    BY <2>2, <2>3
  <2> QED
    BY <2>4 DEF LinkSets, I
<1> HIDE DEF link
<1>13. \A l \in links : l \in rd.links \/ l = link
  OBVIOUS
<1> HIDE DEF links
<1>14. /\ ReaderOK(q) /\ q.pc = rd.pc /\ q.stack = rd.stack /\ q.failed = rd.failed /\ q.links = links
       /\ q.root = rd.root
  BY <1>2, <1>12, WithLinksFields
<1> HIDE DEF q
<1>15. LinksLead(q, tg2)
  <2> SUFFICES ASSUME NEW l \in links
               PROVE  \E m \in NodesUnder(rd.root) :
                         m.type = "file" /\ m.name = l.name /\ m.inode = l.inode /\ tg2.file[l.name] = m.content
    BY <1>14 DEF LinksLead
  <2>1. CASE l \in rd.links
    BY <1>10, <2>1 DEF OnTheWay, LinksLead
  <2>2. CASE l = link
    <3>1. tg2.file[c.name] = c.content
      BY <1>2, <1>10 DEF RestoredIn
    <3> QED
      BY <1>2, <1>11, <2>2, <3>1
  <2> QED
    BY <1>13, <2>1, <2>2
<1>16. OnTheWay(q, tg2)
  BY <1>10, <1>14, <1>15, SMTT(30) DEF OnTheWay
<1>17. /\ q.pc # "done" /\ HasNode(q) /\ CurrentNode(q) = CurrentNode(rd) /\ CurrentNode(q).type # "dir"
       /\ Settled(CurrentNode(q), q.failed, tg2)
  BY <1>1, <1>2, <1>10, <1>14 DEF HasNode, CurrentNode, Settled
<1>18. ReaderGood(rd', tg2)
  BY <1>1, <1>14, <1>16, <1>17, AdvancePast
<1> QED
  BY <1>7, <1>8, <1>18, NewTarget DEF tg2

\* A symbolic link is made, noted or left out.
LEMMA MakeLinkKeeps ==
    ASSUME ReaderInv, MakeLink
    PROVE  ReaderInv'
<1> DEFINE c == Node
<1>1. /\ Walking /\ c.type = "symlink"
      /\ rd' = Advance(IF c.link = "up" THEN [rd EXCEPT !.failed = @ \cup {c.name}] ELSE rd)
      /\ target' = IF c.link = "in" THEN [target EXCEPT !.link[c.name] = TRUE] ELSE target
  BY DEF MakeLink
<1>2. /\ ReaderOK(rd) /\ OnTheWay(rd, target) /\ target \in TargetStates /\ FilesAreWhole
      /\ rd.pc = "walk" /\ HasNode(rd) /\ c = CurrentNode(rd) /\ c \in Nodes /\ c.name \in NodeNames
  BY <1>1, AtNode
<1>3. c.link \in {"in", "up", "abs"} /\ rd.pc # "done" /\ CurrentNode(rd).type # "dir"
  BY <1>1, <1>2, TreesAssumption
<1> HIDE DEF c
<1>4. CASE c.link = "in"
  <2> DEFINE link == [target.link EXCEPT ![c.name] = TRUE]
             tg2 == target'
  <2>1. link \in [NodeNames -> BOOLEAN] /\ \A name \in NodeNames : target.link[name] => link[name]
    BY <1>2, TargetFields
  <2>2. link[c.name]
    BY <1>2, TargetFields
  <2>3. target' = [target EXCEPT !.link = link] /\ rd' = Advance(rd)
    BY <1>1, <1>2, <1>4 DEF TargetStates
  <2> HIDE DEF link
  <2>4. tg2 \in TargetStates /\ tg2.file = target.file /\ tg2.link = link
    BY <1>2, <2>1, <2>3 DEF TargetStates
  <2>5. FilesAreWhole'
    BY <1>2, <2>4, WholeKept
  <2> HIDE DEF tg2
  <2>6. \A n \in NodesUnder(rd.root) : RestoredIn(target, n) => RestoredIn(tg2, n)
    <3> SUFFICES ASSUME NEW n \in NodesUnder(rd.root), RestoredIn(target, n) PROVE RestoredIn(tg2, n)
      OBVIOUS
    <3>1. n.name \in NodeNames
      BY DEF NodesUnder, TreesUnder, Nodes, NodeNames
    <3> QED
      BY <2>1, <2>4, <3>1 DEF RestoredIn
  <2>7. LinksLead(rd, tg2)
    BY <1>2, <2>4 DEF OnTheWay, LinksLead
  <2>8. OnTheWay(rd, tg2)
    BY <1>2, <2>6, <2>7, NoLess
  <2>9. Settled(CurrentNode(rd), rd.failed, tg2)
    BY <1>1, <1>2, <2>2, <2>4 DEF Settled, RestoredIn
  <2>10. ReaderGood(rd', tg2)
    BY <1>2, <1>3, <2>3, <2>8, <2>9, AdvancePast
  <2> QED
    BY <2>4, <2>5, <2>10, NewTarget DEF tg2
<1>5. CASE c.link = "up"
  <2> DEFINE failed == rd.failed \cup {c.name}
             q == Noted(rd, failed)
  <2>1. rd' = Advance(q) /\ target' = target
    BY <1>1, <1>5 DEF Noted
  <2>2. c.name \in Names
    BY <1>2, NodeNameType
  <2>3. failed \in NameSets /\ rd.failed \subseteq failed /\ c.name \in failed
    BY <1>2, <2>2 DEF ReaderOK, NameSets
  <2> HIDE DEF failed
  <2>4. /\ ReaderOK(q) /\ q.pc = rd.pc /\ q.stack = rd.stack /\ q.failed = failed /\ q.links = rd.links
        /\ q.root = rd.root
    BY <1>2, <2>3, NotedFields, Zenon
  <2> HIDE DEF q
  <2>5. OnTheWay(q, target)
    BY <1>2, <2>3, <2>4, SameWay
  <2>6. HasNode(q) /\ CurrentNode(q) = c
    BY <1>2, <2>4 DEF HasNode, CurrentNode
  <2>7. Settled(CurrentNode(q), q.failed, target)
    BY <2>3, <2>4, <2>6, NameCovers DEF Settled
  <2>8. ReaderGood(rd', target)
    BY <1>2, <1>3, <2>1, <2>4, <2>5, <2>6, <2>7, AdvancePast
  <2> QED
    BY <2>1, <2>8, SameTarget
<1>6. CASE c.link = "abs"
  <2>1. rd' = Advance(rd) /\ target' = target
    BY <1>1, <1>6
  <2>2. Settled(CurrentNode(rd), rd.failed, target)
    BY <1>1, <1>2, <1>6 DEF Settled, PassedOver
  <2>3. ReaderGood(rd', target)
    BY <1>2, <1>3, <2>1, <2>2, AdvancePast
  <2> QED
    BY <2>1, <2>3, SameTarget
<1> QED
  BY <1>3, <1>4, <1>5, <1>6

\* A node of another type is not restored.
LEMMA SkipNodeKeeps ==
    ASSUME ReaderInv, SkipNode
    PROVE  ReaderInv'
<1>1. Walking /\ Node.type = "other" /\ rd' = Advance(rd) /\ target' = target
  BY DEF SkipNode
<1>2. /\ ReaderOK(rd) /\ OnTheWay(rd, target) /\ rd.pc = "walk" /\ HasNode(rd) /\ Node = CurrentNode(rd)
  BY <1>1, AtNode
<1>3. Settled(CurrentNode(rd), rd.failed, target) /\ rd.pc # "done" /\ CurrentNode(rd).type # "dir"
  BY <1>1, <1>2 DEF Settled, PassedOver
<1>4. ReaderGood(rd', target)
  BY <1>1, <1>2, <1>3, AdvancePast
<1> QED
  BY <1>1, <1>4, SameTarget

\* Another disc is put in; the blob is asked for again or read.
LEMMA SwapDiscKeeps ==
    ASSUME ReaderInv, NEW i \in Labels, SwapDisc(i)
    PROVE  ReaderInv'
<1> DEFINE disc == IF rd.hand THEN i ELSE 0
           r == [rd EXCEPT !.disc = disc, !.asks = @ + 1]
<1>1. /\ rd.pc \in {"ask count", "ask tree", "ask file"} /\ target' = target
      /\ rd' = r \/ rd' = [r EXCEPT !.pc = Asked(rd)]
  BY DEF SwapDisc, Asking
<1>2. ReaderOK(rd) /\ rd.pc \notin {"idle", "done", "finish"}
  BY <1>1, UnderWay
<1> HIDE DEF disc
<1>3. /\ DOMAIN r = DOMAIN rd /\ r.stack = rd.stack /\ r.failed = rd.failed /\ r.links = rd.links
      /\ r.strict = rd.strict /\ r.rc = rd.rc /\ r.root = rd.root /\ r.pc = rd.pc
  BY <1>2, FieldsAre DEF ReaderOK, ReaderFields
<1>4. DOMAIN r = ReaderFields
  BY <1>2, <1>3, FieldsAre DEF ReaderOK
<1> HIDE DEF r
<1>5. Asked(rd) \in {"count", "tree", "file"} /\ (Asked(rd) = "file" => rd.pc = "ask file")
  BY <1>1 DEF Asked
<1>6. /\ DOMAIN rd' = DOMAIN rd /\ rd'.stack = rd.stack /\ rd'.failed = rd.failed
      /\ rd'.links = rd.links /\ rd'.strict = rd.strict /\ rd'.rc = rd.rc /\ rd'.root = rd.root
      /\ rd'.pc = rd.pc \/ rd'.pc = Asked(rd)
  <2>1. CASE rd' = r
    BY <1>3, <2>1
  <2>2. CASE rd' = [r EXCEPT !.pc = Asked(rd)]
    <3> DEFINE pc == Asked(rd)
    <3> HIDE DEF pc
    <3>1. rd' = [r EXCEPT !.pc = pc]
      BY <2>2 DEF pc
    <3>2. /\ DOMAIN rd' = DOMAIN r /\ rd'.stack = r.stack /\ rd'.failed = r.failed /\ rd'.links = r.links
          /\ rd'.strict = r.strict /\ rd'.rc = r.rc /\ rd'.root = r.root /\ rd'.pc = pc
      BY <1>4, <3>1 DEF ReaderFields
    <3> QED
      BY <1>3, <3>2 DEF pc
  <2> QED
    BY <1>1, <2>1, <2>2
<1>7. rd.pc = "ask file" => HasNode(rd) /\ CurrentNode(rd).type = "file"
  BY InFile
<1> DEFINE pc == rd'.pc
<1>8. /\ pc \in ReaderPcs \ {"idle", "done", "finish"}
      /\ pc \in {"file", "decode", "ask file"} => rd.pc = "ask file"
  BY <1>1, <1>5, <1>6 DEF ReaderPcs
<1> QED
  BY <1>1, <1>2, <1>6, <1>7, <1>8, PcMoves

\* Nobody puts in a disc: what was asked for fails.
LEMMA GiveUpKeeps ==
    ASSUME ReaderInv, GiveUp
    PROVE  ReaderInv'
<1> DEFINE r == [rd EXCEPT !.quit = TRUE, !.asks = 0]
<1>1. rd.pc \in {"ask count", "ask tree", "ask file"}
  BY DEF GiveUp, Asking
<1>2. ReaderOK(rd) /\ OnTheWay(rd, target) /\ rd.pc \notin {"idle", "done", "finish"}
  BY <1>1, UnderWay
<1>3. /\ ReaderOK(r) /\ r.stack = rd.stack /\ r.failed = rd.failed /\ r.links = rd.links
      /\ r.root = rd.root /\ r.pc = rd.pc
  BY <1>2, FieldsAre DEF ReaderOK, ReaderFields
<1>4. /\ rd' = CASE r.pc = "ask count" -> [r EXCEPT !.pc = "count", !.todo = <<>>]
                 [] r.pc = "ask tree"  -> Leave(Fails(r, DirName(Top.tree)))
                 [] r.pc = "ask file"  -> Advance(Fails(r, Node.name))
      /\ target' = IF rd.pc = "ask file" THEN [target EXCEPT !.partial = @ \ {Node.name}] ELSE target
  BY DEF GiveUp
<1> HIDE DEF r
<1>5. CASE rd.pc = "ask count"
  <2> DEFINE q == rd'
  <2>1. q = [r EXCEPT !.pc = "count", !.todo = <<>>] /\ target' = target
    BY <1>3, <1>4, <1>5
  <2> HIDE DEF q
  <2>2. ReaderOK(q) /\ q.stack = r.stack /\ q.failed = r.failed /\ q.links = r.links /\ q.root = r.root /\ q.pc = "count"
    BY <1>3, <2>1, FieldsAre DEF ReaderOK, ReaderFields, ReaderPcs
  <2>3. ReaderGood(q, target)
    BY <1>2, <1>3, <2>2, StaysGood
  <2> QED
    BY <2>1, <2>3, SameTarget DEF q
<1>6. CASE rd.pc = "ask tree"
  <2>1. rd' = Leave(Fails(r, DirName(Last(r.stack).tree))) /\ target' = target /\ r.pc # "done"
    BY <1>3, <1>4, <1>6 DEF Top
  <2>2. OnTheWay(r, target)
    BY <1>2, <1>3, SameWay
  <2>3. ReaderGood(rd', target)
    BY <1>3, <2>1, <2>2, LeaveFails
  <2> QED
    BY <2>1, <2>3, SameTarget
<1>7. CASE rd.pc = "ask file"
  <2>1. rd' = Advance(Fails(r, Node.name)) /\ target' = [target EXCEPT !.partial = @ \ {Node.name}]
    BY <1>3, <1>4, <1>7
  <2> QED
    BY <1>3, <1>7, <2>1, FileFails
<1> QED
  BY <1>1, <1>5, <1>6, <1>7

\* Nothing accounts for a node when no name is noted.
LEMMA NoNames ==
    ASSUME NEW n
    PROVE  ~CoveredBy(n, {})
  BY Zenon DEF CoveredBy

\* The end: 0 when no name was noted; the names are the manifest otherwise.
LEMMA FinishKeeps ==
    ASSUME ReaderInv, Finish
    PROVE  ReaderInv'
<1> DEFINE rc == IF rd.failed = {} THEN 0 ELSE 2
           q == rd'
           tg2 == target'
<1>1. /\ rd.pc = "finish" /\ rd' = Ended(rd, "done", rc)
      /\ target' = IF rd.failed = {} THEN target ELSE [target EXCEPT !.manifest = rd.failed]
  BY DEF Finish, Ended
<1>2. ReaderOK(rd) /\ AllSettled(rd, target) /\ target \in TargetStates /\ FilesAreWhole /\ rd.failed \in NameSets
  BY <1>1 DEF ReaderInv, ReaderGood, ReaderOK
<1>3. rc \in Codes /\ "done" \in ReaderPcs
  BY DEF Codes, ReaderPcs
<1>4. rc = 0 <=> rd.failed = {}
  OBVIOUS
<1> HIDE DEF rc
<1>5. ReaderOK(q) /\ q.pc = "done" /\ q.root = rd.root /\ q.rc = rc
  BY <1>1, <1>2, <1>3, EndedFields
<1> HIDE DEF q
<1>6. CASE rd.failed = {}
  <2>1. \A n \in NodesUnder(q.root) : RestoredIn(target, n) \/ PassedOver(n)
    BY <1>2, <1>5, <1>6, NoNames DEF AllSettled, Settled
  <2>2. ReaderGood(q, target)
    BY <1>4, <1>5, <1>6, <2>1 DEF ReaderGood
  <2> QED
    BY <1>1, <1>6, <2>2, SameTarget DEF q
<1>7. CASE rd.failed # {}
  <2>1. /\ tg2 \in TargetStates /\ tg2.file = target.file /\ tg2.link = target.link
        /\ tg2.manifest = rd.failed
    BY <1>1, <1>2, <1>7, ManifestType
  <2>2. FilesAreWhole'
    BY <1>2, <2>1, WholeKept
  <2> HIDE DEF tg2
  <2>3. \A n : RestoredIn(target, n) => RestoredIn(tg2, n)
    BY <2>1 DEF RestoredIn
  <2>4. \A n \in NodesUnder(q.root) : Settled(n, tg2.manifest, tg2)
    BY <1>2, <1>5, <2>1, <2>3 DEF AllSettled, Settled
  <2>5. ReaderGood(q, tg2)
    BY <1>4, <1>5, <1>7, <2>4 DEF ReaderGood
  <2> QED
    BY <2>1, <2>2, <2>5, NewTarget DEF tg2, q
<1> QED
  BY <1>6, <1>7

\* A step of the reader.
LEMMA ReaderStepKeeps ==
    ASSUME DriveInv, ReaderInv, ReaderStep
    PROVE  ReaderInv'
<1>1. CASE CountTree \/ CountDone
  BY <1>1, CountTreeKeeps, CountDoneKeeps
<1>2. CASE ReadTree \/ TreeDone \/ EnterDir
  BY <1>2, ReadTreeKeeps, TreeDoneKeeps, EnterDirKeeps
<1>3. CASE LinkFile \/ OpenFile \/ CloseFile
  BY <1>3, LinkFileKeeps, OpenFileKeeps, CloseFileKeeps
<1>4. CASE MakeLink \/ SkipNode
  BY <1>4, MakeLinkKeeps, SkipNodeKeeps
<1>5. CASE GiveUp \/ Finish
  BY <1>5, GiveUpKeeps, FinishKeeps
<1>6. CASE \E i \in Labels : SwapDisc(i)
  BY <1>6, SwapDiscKeeps
<1>7. CASE ReadContent \/ ReadDecoded
  BY <1>7, ReadContentKeeps, ReadDecodedKeeps
<1>8. CASE rd' = rd /\ target' = target
  BY <1>8, SameTarget DEF ReaderInv
<1> QED
  BY <1>1, <1>2, <1>3, <1>4, <1>5, <1>6, <1>7, <1>8 DEF ReaderStep

-----------------------------------------------------------------------------
(* The reader's runs                                                       *)

\* A reader that is not at work, or has ended with 1.
LEMMA RestingType ==
    ASSUME NEW q, DOMAIN q = DOMAIN NoReader, q.stack = <<>>, q.failed = {}, q.links = {}, q.strict = FALSE,
           \/ q.pc = "idle" /\ q.rc \in Codes
           \/ q.pc = "done" /\ q.rc = 1
    PROVE  \A tg : ReaderGood(q, tg)
<1>1. ReaderOK(q)
  <2>1. q.stack \in Seq(StackFrames)
    OBVIOUS
  <2>2. q.failed \in NameSets /\ q.links \in LinkSets /\ q.pc \in ReaderPcs /\ q.rc \in Codes
    BY DEF NameSets, LinkSets, ReaderPcs, Codes
  <2> QED
    BY <2>1, <2>2 DEF ReaderOK
<1>2. CASE q.pc = "idle"
  BY <1>1, <1>2 DEF ReaderGood
<1>3. CASE q.pc = "done" /\ q.rc = 1
  BY <1>1, <1>3, DoneGood
<1> QED
  BY <1>2, <1>3

\* A traversal at its beginning: all nodes are to come.
LEMMA FreshGood ==
    ASSUME NEW q, DOMAIN q = DOMAIN NoReader, NEW t \in DOMAIN TreeOf, q.pc = "count",
           q.stack = <<[tree |-> t, at |-> 1]>>, q.root = t, q.failed = {}, q.links = {},
           q.strict \in BOOLEAN, q.rc = 0
    PROVE  \A tg : ReaderGood(q, tg)
<1> DEFINE frame == [tree |-> t, at |-> 1]
           stack == <<frame>>
<1>1. frame \in StackFrames /\ frame.tree = t /\ frame.at = 1
  BY DEF StackFrames
<1>2. q.stack = stack
  OBVIOUS
<1> HIDE DEF frame
<1>3. /\ stack \in Seq(StackFrames) /\ stack # <<>> /\ Len(stack) = 1 /\ DOMAIN stack = 1..1
      /\ stack[1] = frame
  BY <1>1
<1>4. Last(stack) = frame
  BY <1>3 DEF Last
<1> HIDE DEF stack
<1>5. ReaderOK(q)
  <2>1. q.failed \in NameSets /\ q.links \in LinkSets /\ q.pc \in ReaderPcs /\ q.rc \in Codes
    BY DEF NameSets, LinkSets, ReaderPcs, Codes
  <2> QED
    BY <1>2, <1>3, <2>1 DEF ReaderOK
<1>6. ASSUME NEW n \in NodesUnder(t) PROVE Pending(stack, n)
  <2>1. PICK k \in DOMAIN TreeOf[t] : IsOrUnder(TreeOf[t][k], n)
    BY NodesUnfold DEF IsOrUnder
  <2>2. k \in Nat \ {0}
    <3>1. TreeOf[t] \in Seq(Nodes)
      BY TreesAssumption
    <3> QED
      BY <2>1, <3>1, LenProperties
  <2>3. PendingAtTop(stack, n)
    BY <1>1, <1>4, <2>1, <2>2 DEF PendingAtTop
  <2> QED
    BY <1>3, <2>3, PendingTop
<1>7. \A i \in DOMAIN q.stack : q.stack[i].tree \in TreesUnder(q.root)
  BY <1>1, <1>2, <1>3, TreesUnderSelf
<1>8. ASSUME NEW tg PROVE OnTheWay(q, tg)
  <2>1. LinksLead(q, tg)
    BY DEF LinksLead
  <2> QED
    BY <1>2, <1>3, <1>6, <1>7, <2>1 DEF OnTheWay
<1> QED
  BY <1>5, <1>8 DEF ReaderGood

\* A run opens the repository and finds its snapshot, or ends with 1.
LEMMA OpenGood ==
    ASSUME NEW snaps, SnapshotFiles(snaps), NEW strict \in BOOLEAN,
           NEW index, NEW disc, NEW interactive, NEW opened, NEW snapshot
    PROVE  \A tg : ReaderGood(Open(index, snaps, disc, interactive, strict, opened, snapshot), tg)
<1> DEFINE tree  == SnapshotTree(snaps, snapshot)
           place == LoadIndex(index)
           hand  == disc # 0
           q     == Open(index, snaps, disc, interactive, strict, opened, snapshot)
<1>1. tree \in DOMAIN TreeOf \cup {NoTree}
  BY SnapshotTreeType
<1>2. q = IF tree = NoTree \/ ~opened
          THEN [NoReader EXCEPT !.pc = "done", !.rc = 1]
          ELSE [NoReader EXCEPT !.pc = "count", !.todo = <<tree>>, !.stack = <<[tree |-> tree, at |-> 1]>>,
                                !.index = place, !.root = tree, !.hand = hand, !.disc = disc,
                                !.interactive = interactive, !.strict = strict]
  BY DEF Open
<1> HIDE DEF q, tree, place, hand
<1>3. /\ NoReader.stack = <<>> /\ NoReader.failed = {} /\ NoReader.links = {} /\ NoReader.strict = FALSE
      /\ NoReader.rc = 0
  BY DEF NoReader
<1>4. CASE tree = NoTree \/ ~opened
  <2>1. q = [NoReader EXCEPT !.pc = "done", !.rc = 1]
    BY <1>2, <1>4
  <2>2. /\ DOMAIN q = DOMAIN NoReader /\ q.stack = <<>> /\ q.failed = {} /\ q.links = {} /\ q.strict = FALSE
        /\ q.pc = "done" /\ q.rc = 1
    BY <1>3, <2>1, FieldsAre DEF ReaderFields
  <2>3. \A tg : ReaderGood(q, tg)
    BY <2>2, RestingType
  <2> QED
    BY <2>3 DEF q
<1>5. CASE tree # NoTree /\ opened
  <2> DEFINE stack == <<[tree |-> tree, at |-> 1]>>
             todo == <<tree>>
  <2>1. q = [NoReader EXCEPT !.pc = "count", !.todo = todo, !.stack = stack,
                             !.index = place, !.root = tree, !.hand = hand, !.disc = disc,
                             !.interactive = interactive, !.strict = strict]
    BY <1>2, <1>5
  <2> HIDE DEF stack, todo
  <2>2. /\ DOMAIN q = DOMAIN NoReader /\ q.stack = stack /\ q.failed = {} /\ q.links = {}
        /\ q.strict = strict /\ q.pc = "count" /\ q.rc = 0 /\ q.root = tree
    BY <1>3, <2>1, FieldsAre DEF ReaderFields
  <2>3. tree \in DOMAIN TreeOf
    BY <1>1, <1>5
  <2>4. \A tg : ReaderGood(q, tg)
    BY <2>2, <2>3, FreshGood DEF stack
  <2> QED
    BY <2>4 DEF q
<1> QED
  BY <1>4, <1>5

\* What rustic does to the target: nothing, or all of a tree.
RusticFrom(tree) ==
    \/ target' = target
    \/ /\ tree # NoTree
       /\ target' = [target EXCEPT !.file = [n \in NodeNames |->
                                 IF \E m \in NodesUnder(tree) : m.name = n /\ m.type = "file"
                                 THEN (CHOOSE m \in NodesUnder(tree) : m.name = n).content
                                 ELSE target.file[n]],
                              !.link = [n \in NodeNames |->
                                 target.link[n] \/ \E m \in NodesUnder(tree) : m.name = n /\ m.type = "symlink"]]

\* What rustic restores are whole files, since a name is of one node.
LEMMA RusticRestoreKeeps ==
    ASSUME DriveInv, ReaderInv, RusticRestore
    PROVE  ReaderInv'
<1>0. PICK snaps \in Cached(SnapshotsOf, 2) : RusticFrom(SnapshotTree(snaps, heir.snapshot))
  BY DEF RusticRestore, RusticFrom
<1> DEFINE tree == SnapshotTree(snaps, heir.snapshot)
           N == NodesUnder(tree)
           Named(n, m) == m.name = n
           Pick(n) == CHOOSE m \in N : Named(n, m)
           file == [n \in NodeNames |->
                       IF \E m \in N : m.name = n /\ m.type = "file" THEN Pick(n).content ELSE target.file[n]]
           link == [n \in NodeNames |->
                       target.link[n] \/ \E m \in N : m.name = n /\ m.type = "symlink"]
<1>1. /\ sh.pc = "restore" /\ rd' = rd
      /\ \/ target' = target
         \/ tree # NoTree /\ target' = [target EXCEPT !.file = file, !.link = link]
  BY <1>0 DEF RusticRestore, RusticFrom
<1>2. rd.pc = "idle"
  BY <1>1 DEF DriveInv
<1>3. ReaderOK(rd) /\ target \in TargetStates /\ FilesAreWhole
  BY DEF ReaderInv, ReaderGood
<1>4. \A tg : ReaderGood(rd', tg)
  BY <1>1, <1>2, <1>3 DEF ReaderGood
<1>5. tree \in DOMAIN TreeOf \cup {NoTree}
  BY SnapshotsCached, SnapshotTreeType
<1> HIDE DEF tree
<1>6. CASE target' = target
  BY <1>4, <1>6, SameTarget
<1>7. CASE tree # NoTree /\ target' = [target EXCEPT !.file = file, !.link = link]
  <2>1. tree \in DOMAIN TreeOf /\ \A m, n \in N : m.name = n.name => m = n
    BY <1>5, <1>7, TreesAssumption
  <2>2. N \subseteq Nodes
    BY DEF NodesUnder, TreesUnder, Nodes
  <2> HIDE DEF N
  <2>3. ASSUME NEW n, NEW m \in N, m.name = n PROVE Pick(n) = m
    <3>1. Pick(n) \in N /\ Named(n, Pick(n))
      <4>1. \E k \in N : Named(n, k)
        BY <2>3
      <4> HIDE DEF Named
      <4> QED
        BY <4>1, Zenon
    <3> HIDE DEF Pick
    <3> QED
      BY <2>1, <2>3, <3>1
  <2> HIDE DEF Pick
  <2>4. /\ target.file \in FileStates /\ target.link \in [NodeNames -> BOOLEAN]
        /\ target.partial \in SUBSET NodeNames /\ target.manifest \in NameSets
    BY <1>3, TargetFields
  <2>5. \A n \in NodeNames : \/ file[n] = target.file[n]
                             \/ \E m \in Nodes : m.name = n /\ m.type = "file" /\ file[n] = m.content
    BY <2>2, <2>3
  <2>6. file \in FileStates
    <3> DEFINE C == {<<>>} \cup {m.content : m \in {k \in Nodes : k.type = "file"}}
    <3>1. FileStates = [NodeNames -> C]
      BY DEF FileStates
    <3>2. \A m \in Nodes : m.type = "file" => m.content \in C
      OBVIOUS
    <3>3. \A n \in NodeNames : target.file[n] \in C
      BY <2>4, <3>1
    <3> HIDE DEF C
    <3>4. \A n \in NodeNames : file[n] \in C
      BY <2>5, <3>2, <3>3
    <3> QED
      BY <3>1, <3>4
  <2>7. link \in [NodeNames -> BOOLEAN]
    OBVIOUS
  <2> HIDE DEF file, link
  <2>8. target' \in TargetStates /\ target'.file = file
    BY <1>3, <1>7, <2>6, <2>7 DEF TargetStates
  <2>9. FilesAreWhole'
    BY <1>3, <2>5, <2>8 DEF FilesAreWhole
  <2> QED
    BY <1>4, <2>8, <2>9, NewTarget
<1> QED
  BY <1>1, <1>6, <1>7

\* The run of the reader has ended.
LEMMA ReaderEndsKeeps ==
    ASSUME ReaderInv, ReaderEnds
    PROVE  ReaderInv'
<1> DEFINE q == rd'
<1>1. rd' = [rd EXCEPT !.pc = "idle"] /\ target' = target
  BY DEF ReaderEnds
<1>2. ReaderOK(rd)
  BY DEF ReaderInv, ReaderGood
<1>3. ReaderOK(q) /\ q.pc = "idle"
  BY <1>1, <1>2, FieldsAre DEF ReaderOK, ReaderFields, ReaderPcs
<1> HIDE DEF q
<1>4. ReaderGood(q, target)
  BY <1>3 DEF ReaderGood
<1> QED
  BY <1>1, <1>4, SameTarget DEF q

\* The reader is stopped: the files under their own names are whole.
LEMMA ReaderKilledKeeps ==
    ASSUME ReaderInv, KillReader
    PROVE  ReaderInv'
<1> DEFINE q == rd'
<1>1. rd' = [NoReader EXCEPT !.rc = 137] /\ target' = target
  BY DEF KillReader
<1>2. /\ NoReader.stack = <<>> /\ NoReader.failed = {} /\ NoReader.links = {} /\ NoReader.strict = FALSE
      /\ NoReader.pc = "idle"
  BY DEF NoReader
<1>3. /\ DOMAIN q = DOMAIN NoReader /\ q.stack = <<>> /\ q.failed = {} /\ q.links = {} /\ q.strict = FALSE
      /\ q.pc = "idle" /\ q.rc = 137
  BY <1>1, <1>2, FieldsAre DEF ReaderFields
<1>4. q.rc \in Codes
  BY <1>3 DEF Codes
<1> HIDE DEF q
<1>5. ReaderGood(q, target)
  BY <1>3, <1>4, RestingType
<1> QED
  BY <1>1, <1>5, SameTarget DEF q

\* Every step keeps ReaderInv.
LEMMA ReaderNext ==
    ASSUME DriveInv, ReaderInv, [Next]_vars
    PROVE  ReaderInv'
<1>1. CASE rd' = rd /\ target' = target
  BY <1>1, SameTarget DEF ReaderInv
<1>2. CASE ReadShares \/ CheckShares \/ CombineShares
  BY <1>1, <1>2 DEF ReadShares, CheckShares, CombineShares, readerVars
<1>3. ASSUME NEW run \in RunsIn(world), RunScript(run) PROVE ReaderInv'
  BY <1>1, <1>3 DEF RunScript, readerVars
<1>4. ASSUME NEW i \in Labels, NEW run \in RunsIn(world), RunReader(i, run) PROVE ReaderInv'
  <2>1. /\ run.tool = "reader" /\ target' = target
        /\ rd' = Open(IndexOf[world.session[i]], SnapshotsOf[world.session[i]], i, run.interactive,
                      run.strict, LoadKey(world, Right), run.snapshot)
    BY <1>4 DEF RunReader
  <2>2. run.strict \in BOOLEAN
    BY <2>1, DriveFacts DEF ScriptRun, ReaderRun
  <2>3. ReaderGood(rd', target)
    BY <2>1, <2>2, SnapshotsOnDisc, OpenGood
  <2> QED
    BY <2>1, <2>3, SameTarget
<1>5. CASE RusticRestore
  BY <1>5, RusticRestoreKeeps
<1>6. ASSUME NEW interactive \in BOOLEAN, ReadCache(interactive) PROVE ReaderInv'
  <2>1. /\ target' = target
        /\ \E index \in Cached(IndexOf, 1), snaps \in Cached(SnapshotsOf, 2), opened \in Opened :
              rd' = Open(index, snaps, 0, interactive, FALSE, opened, <<>>)
    BY <1>6 DEF ReadCache
  <2>2. PICK index \in Cached(IndexOf, 1), snaps \in Cached(SnapshotsOf, 2), opened \in Opened :
           rd' = Open(index, snaps, 0, interactive, FALSE, opened, <<>>)
    BY <2>1
  <2>3. ReaderGood(rd', target)
    BY <2>2, SnapshotsCached, OpenGood
  <2> QED
    BY <2>1, <2>3, SameTarget
<1>7. CASE ReaderEnds
  BY <1>7, ReaderEndsKeeps
<1>8. CASE KillReader
  BY <1>8, ReaderKilledKeeps
<1>9. CASE DriveStep /\ UNCHANGED <<readerVars, heir>>
  BY <1>1, <1>9 DEF readerVars
<1>10. CASE ReaderStep
  BY <1>10, ReaderStepKeeps
<1>11. CASE UNCHANGED vars
  BY <1>1, <1>11 DEF vars, readerVars
<1> QED
  BY <1>2, <1>3, <1>4, <1>5, <1>6, <1>7, <1>8, <1>9, <1>10, <1>11 DEF Next

\* Before the first run nothing is read and nothing restored.
LEMMA ReaderAtStart ==
    ASSUME RecoveryInit
    PROVE  ReaderInv
<1>1. rd = NoReader /\ target = NoTarget
  BY DEF RecoveryInit, ReaderInit
<1>2. /\ NoReader.stack = <<>> /\ NoReader.failed = {} /\ NoReader.links = {} /\ NoReader.strict = FALSE
      /\ NoReader.pc = "idle" /\ NoReader.rc = 0
  BY DEF NoReader
<1>3. 0 \in Codes
  BY DEF Codes
<1>4. ReaderGood(NoReader, target)
  BY <1>2, <1>3, RestingType
<1> DEFINE file == [n \in NodeNames |-> <<>>]
           link == [n \in NodeNames |-> FALSE]
<1>5. file \in FileStates /\ link \in [NodeNames -> BOOLEAN]
  BY DEF FileStates
<1>6. {} \in SUBSET NodeNames /\ {} \in NameSets
  BY DEF NameSets
<1>7. NoTarget = [file |-> file, link |-> link, partial |-> {}, manifest |-> {}]
  BY DEF NoTarget
<1>8. \A n \in NodeNames : file[n] = <<>>
  OBVIOUS
<1> HIDE DEF file, link
<1>9. NoTarget \in TargetStates /\ NoTarget.file = file
  BY <1>5, <1>6, <1>7 DEF TargetStates
<1>10. FilesAreWhole
  BY <1>1, <1>8, <1>9 DEF FilesAreWhole
<1> QED
  BY <1>1, <1>4, <1>9, <1>10 DEF ReaderInv

-----------------------------------------------------------------------------
(* The theorems                                                            *)

\* The scripts' and the reader's invariants hold of every recovery.
THEOREM RecoveryInvariance == Spec => [](DriveInv /\ ReaderInv)
<1>1. RecoveryInit => DriveInv /\ ReaderInv
  BY DriveAtStart, ReaderAtStart
<1>2. DriveInv /\ ReaderInv /\ [Next]_vars => (DriveInv /\ ReaderInv)'
  <2> SUFFICES ASSUME DriveInv, ReaderInv, [Next]_vars PROVE DriveInv' /\ ReaderInv'
    OBVIOUS
  <2>1. ReaderOK(rd)
    BY DEF ReaderInv, ReaderGood
  <2> QED
    BY <2>1, DriveNext, ReaderNext
<1> QED
  BY <1>1, <1>2, PTL DEF Spec

\* When single-drive restore reaches its last phase, all packs of the pick list
\* are in the cache and hash right.
THEOREM LastPhaseIsIntact == Spec => []CompleteIsIntact
<1>1. DriveInv => CompleteIsIntact
  BY DEF DriveInv
<1> QED
  BY <1>1, RecoveryInvariance, PTL

\* Exit 3 means that some pack has no source left.
THEOREM ExitThreeIsMeant == Spec => []ExitThreeForCause
<1>1. DriveInv => ExitThreeForCause
  BY DEF DriveInv
<1> QED
  BY <1>1, RecoveryInvariance, PTL

\* A file under its own name in the target is whole, at every moment.
THEOREM NoTornFile == Spec => []FilesAreWhole
<1>1. ReaderInv => FilesAreWhole
  BY DEF ReaderInv
<1> QED
  BY <1>1, RecoveryInvariance, PTL

\* The reader answers 0 only when all is restored, and 2 only when its manifest
\* accounts for what is not.
THEOREM ReaderIsHonest == Spec => []NothingSilent
<1>1. ReaderInv => NothingSilent
  BY DEF ReaderInv, ReaderGood, NothingSilent, Settled, Restored
<1> QED
  BY <1>1, RecoveryInvariance, PTL

=============================================================================
