--------------------------- MODULE KeySplitProofs ---------------------------
(***************************************************************************)
(* Proofs about KeySplit for any names, shapes, numbers of cards, splits   *)
(* and edits: a split that returned 0 can be recovered from any K of its   *)
(* cards, the records are of such splits, and a disc that may be staged    *)
(* tells the heir what was done.                                           *)
(*                                                                         *)
(* The round trip tries the first MaxSubsets K-subsets only; that these    *)
(* reach every card is EveryCardTried, from N - K + 1 <= MaxSubsets.       *)
(***************************************************************************)
EXTENDS KeySplit, FiniteSetTheorems, TLAPS

-----------------------------------------------------------------------------
(* The inductive invariant.                                                *)

Total(sid) == splits[sid].shape[2]

\* Every shape that is configured or split is one split_secret accepts.
ShapeInv ==
    /\ \A k \in ConfKeys : CanSplit(conf[k].shape)
    /\ \A s \in 1..Len(splits) : CanSplit(splits[s].shape)
    /\ Len(splits) <= MaxSplits

\* While `key split' runs, the cards it has written are its own, and before
\* it records the split they are whole; its split has not returned yet.
JobInv ==
    job # IdleJob =>
        /\ job.pc # "idle" /\ Sid \in 1..Len(splits) /\ Sid \notin done
        /\ job.n = splits[Sid].n /\ job.i \in 1..Total(Sid)
        /\ \A j \in 1..Total(Sid) : j < job.i \/ job.pc \in {"check", "record"} =>
               dir[job.n][j].card \in {Card(Sid, j, TRUE), Card(Sid, j, FALSE)}
        /\ job.pc = "record" =>
               \A j \in 1..Total(Sid) : dir[job.n][j].card = Card(Sid, j, TRUE)

\* The cards the holders have are the whole cards of splits that returned 0.
HeldInv ==
    /\ \A c \in held : c.sid \in done
    /\ \A s \in done : {c \in held : c.sid = s} = {Card(s, i, TRUE) : i \in 1..Total(s)}

IInv == TypeOK /\ ShapeInv /\ JobInv /\ HeldInv /\ RowsAreSplits

-----------------------------------------------------------------------------
(* Combining cards.                                                        *)

\* Any K whole cards of one split give back its password.
LEMMA WholeCardsCombine ==
    ASSUME NEW sid, NEW n \in Nat, NEW S \in SUBSET {Card(sid, i, TRUE) : i \in 1..n},
           splits[sid].shape[1] \in Nat, splits[sid].shape[1] >= 1,
           Cardinality(S) >= splits[sid].shape[1]
    PROVE  Combine(S) = splits[sid].pw
  <1> DEFINE K == splits[sid].shape[1]
             numbers == {c.i : c \in S}
             f == [c \in S |-> c.i]
  <1>1. \A c \in S : c.i \in 1..n /\ c.sid = sid /\ c.ok /\ c = Card(sid, c.i, TRUE)
    BY DEF Card
  <1>2. IsFiniteSet(numbers) /\ IsFiniteSet(S) /\ Cardinality(numbers) = Cardinality(S)
    <2>1. numbers \in SUBSET (1..n)
      BY <1>1
    <2>2. IsFiniteSet(1..n)
      BY FS_Interval
    <2>3. IsFiniteSet(numbers)
      BY <2>1, <2>2, FS_Subset
    <2> DEFINE g == [i \in numbers |-> Card(sid, i, TRUE)]
    <2>4. g \in Bijection(numbers, S)
      <3>1. g \in [numbers -> S]
        BY <1>1
      <3>2. \A a, b \in numbers : g[a] = g[b] => a = b
        BY DEF Card
      <3>3. \A t \in S : \E a \in numbers : g[a] = t
        BY <1>1
      <3> QED BY <3>1, <3>2, <3>3 DEF Bijection, Injection, Surjection, IsInjective
    <2>5. ExistsBijection(numbers, S)
      BY <2>4 DEF ExistsBijection
    <2> QED BY <2>3, <2>5, FS_Bijection
  <1>3. S # {}
    BY <1>2, FS_EmptySet
  <1>4. {c.sid : c \in S} = {sid}
    BY <1>1, <1>3
  <1>5. Cardinality({sid}) = 1 /\ (CHOOSE s \in {sid} : TRUE) = sid
    BY FS_Singleton
  <1>6. \A c \in S : c.ok
    BY <1>1
  <1>7. Cardinality(numbers) >= K
    BY <1>2
  <1> HIDE DEF numbers, f
  <1> QED BY <1>3, <1>4, <1>5, <1>6, <1>7 DEF Combine, numbers

\* What combines at all has only whole cards in it.
LEMMA CombinedIsWhole ==
    ASSUME NEW cards, Combine(cards) # Refused
    PROVE  \A c \in cards : c.ok
  BY DEF Combine

-----------------------------------------------------------------------------
(* The subsets of the round trip.                                          *)

\* Of the K-subsets of 1..n that hold 1..K-1 and i, at most i - K come before
\* in the order of itertools.combinations.
LEMMA FewComeBefore ==
    ASSUME NEW k \in Nat, NEW n \in Nat, 1 <= k, k <= n, NEW i \in k..n
    PROVE  LET S == (1..(k - 1)) \cup {i}
               all == {T \in SUBSET (1..n) : Cardinality(T) = k}
               pre == {T \in all : Before(T, S)}
           IN  S \in all /\ IsFiniteSet(pre) /\ Cardinality(pre) <= i - k
  <1> DEFINE S == (1..(k - 1)) \cup {i}
             all == {T \in SUBSET (1..n) : Cardinality(T) = k}
             pre == {T \in all : Before(T, S)}
             f == [x \in k..(i - 1) |-> (1..(k - 1)) \cup {x}]
  <1>1. \A x \in k..n : IsFiniteSet((1..(k - 1)) \cup {x}) /\ Cardinality((1..(k - 1)) \cup {x}) = k
    <2> SUFFICES ASSUME NEW x \in k..n
                 PROVE  IsFiniteSet((1..(k - 1)) \cup {x}) /\ Cardinality((1..(k - 1)) \cup {x}) = k
      OBVIOUS
    <2> DEFINE A == 1..(k - 1)
    <2>1. IsFiniteSet(A) /\ Cardinality(A) = k - 1
      BY FS_Interval
    <2>2. x \notin A
      OBVIOUS
    <2> HIDE DEF A
    <2>3. IsFiniteSet(A \cup {x}) /\ Cardinality(A \cup {x}) = k - 1 + 1
      BY <2>1, <2>2, FS_AddElement
    <2> QED BY <2>3 DEF A
  <1>2. S \in all
    <2>1. S \in SUBSET (1..n)
      OBVIOUS
    <2> QED BY <1>1, <2>1
  <1>3. IsFiniteSet(k..(i - 1)) /\ Cardinality(k..(i - 1)) = i - k
    BY FS_Interval
  <1>4. \A T \in pre : \E x \in k..(i - 1) : T = (1..(k - 1)) \cup {x}
    <2> SUFFICES ASSUME NEW T \in pre PROVE \E x \in k..(i - 1) : T = (1..(k - 1)) \cup {x}
      OBVIOUS
    <2>1. T \in SUBSET (1..n) /\ Cardinality(T) = k
      OBVIOUS
    <2>2. IsFiniteSet(T)
      <3>1. IsFiniteSet(1..n)
        BY FS_Interval
      <3> QED BY <2>1, <3>1, FS_Subset
    <2>3. PICK x \in T \ S : \A y \in (T \cup S) \ (T \cap S) : x <= y
      BY DEF Before
    <2>4. x \in k..n /\ x # i
      BY <2>1, <2>3
    <2>5. \A y \in S : y < x => y \in T
      BY <2>1, <2>3
    <2>6. 1..(k - 1) \subseteq T
      BY <2>4, <2>5
    <2>7. x < i
      <3> SUFFICES ASSUME x > i PROVE FALSE
        BY <2>4
      <3>1. S \in SUBSET T /\ S # T
        BY <2>3, <2>5, <2>6
      <3>2. Cardinality(S) = k
        BY <1>2
      <3> HIDE DEF S
      <3> QED BY <2>1, <2>2, <3>1, <3>2, FS_Subset
    <2>8. T = (1..(k - 1)) \cup {x}
      <3> DEFINE R == (1..(k - 1)) \cup {x}
      <3>1. R \in SUBSET T /\ Cardinality(R) = k
        BY <1>1, <2>3, <2>4, <2>6
      <3> HIDE DEF R
      <3>2. T = R
        BY <2>1, <2>2, <3>1, FS_Subset
      <3> QED BY <3>2 DEF R
    <2> QED BY <2>4, <2>7, <2>8
  <1>5. IsFiniteSet(pre) /\ Cardinality(pre) <= i - k
    <2> DEFINE range == {f[x] : x \in k..(i - 1)}
    <2>1. f \in Surjection(k..(i - 1), range)
      BY DEF Surjection
    <2>2. IsFiniteSet(range) /\ Cardinality(range) <= i - k
      BY <2>1, <1>3, FS_Surjection
    <2>3. pre \in SUBSET range
      BY <1>4
    <2>4. Cardinality(range) \in Nat
      BY <2>2, FS_CardinalityType
    <2> HIDE DEF pre, range
    <2>5. IsFiniteSet(pre) /\ Cardinality(pre) <= Cardinality(range)
      BY <2>2, <2>3, FS_Subset
    <2>6. Cardinality(pre) \in Nat
      BY <2>5, FS_CardinalityType
    <2> QED BY <2>2, <2>4, <2>5, <2>6
  <1> QED BY <1>2, <1>5

\* The first max subsets reach every card, when max >= N - K + 1.
LEMMA EveryCardTried ==
    ASSUME NEW k \in Nat, NEW n \in Nat, 1 <= k, k <= n, NEW max \in Nat, n - k + 1 <= max,
           NEW i \in 1..n
    PROVE  \E S \in FirstSubsets(k, n, max) : i \in S
  <1> DEFINE j == IF i < k THEN k ELSE i
             S == (1..(k - 1)) \cup {j}
             all == {T \in SUBSET (1..n) : Cardinality(T) = k}
             pre == {T \in all : Before(T, S)}
  <1>1. j \in k..n /\ i \in S
    OBVIOUS
  <1>2. S \in all /\ IsFiniteSet(pre) /\ Cardinality(pre) <= j - k
    <2> HIDE DEF j
    <2> QED BY <1>1, FewComeBefore
  <1>3. Cardinality(pre) \in Nat
    BY <1>2, FS_CardinalityType
  <1>4. Cardinality(pre) < max
    <2> HIDE DEF j, pre
    <2> QED BY <1>1, <1>2, <1>3
  <1> QED BY <1>1, <1>2, <1>4 DEF FirstSubsets

\* When the round trip succeeds on cards of the split, every one is whole.
LEMMA RoundtripWhole ==
    ASSUME NEW shape \in Shapes, CanSplit(shape), NEW cards, NEW pw \in Passwords,
           Roundtrip(cards, shape, pw), NEW i \in 1..shape[2]
    PROVE  cards[i].ok
  <1>1. /\ shape[1] \in Nat /\ shape[2] \in Nat /\ 1 <= shape[1] /\ shape[1] <= shape[2]
        /\ shape[2] - shape[1] + 1 <= MaxSubsets /\ MaxSubsets \in Nat /\ pw # Refused
    BY KeyAssumption DEF CanSplit
  <1>2. PICK S \in FirstSubsets(shape[1], shape[2], MaxSubsets) : i \in S
    BY <1>1, EveryCardTried
  <1>3. Combine({cards[j] : j \in S}) # Refused
    BY <1>1, <1>2 DEF Roundtrip
  <1>4. \A c \in {cards[j] : j \in S} : c.ok
    BY <1>3, CombinedIsWhole
  <1> QED BY <1>2, <1>4

-----------------------------------------------------------------------------
(* The invariant at first.                                                 *)

\* Whatever an earlier build recorded, the invariant holds at first.
LEMMA KeyInit == Init => IInv
  <1> SUFFICES ASSUME Init PROVE IInv
    OBVIOUS
  <1>1. PICK k \in Keys, r \in RepoIds, pw \in Passwords, s \in Shapes, legacy \in BOOLEAN :
            /\ CanSplit(s)
            /\ conf = [x \in ConfKeys |-> [split |-> legacy, shape |-> s]]
            /\ pwfile = [x \in Keys |-> pw] /\ opens = [x \in Keys |-> pw]
            /\ repos = [q \in RepoIds |-> IF q = r THEN [name |-> k, key |-> k] ELSE NoRepo]
            /\ splits = IF legacy THEN <<[n |-> k, shape |-> s, pw |-> pw, checked |-> TRUE]>>
                                  ELSE <<>>
            /\ escrow = [x \in RepoIds \cup Names |->
                            IF legacy /\ x = k THEN Row(1, s) ELSE NoRow]
            /\ done = IF legacy THEN {1} ELSE {}
            /\ held = IF legacy THEN {Card(1, i, TRUE) : i \in 1..s[2]} ELSE {}
            /\ dir = [n \in Names |-> [i \in 1..MaxCards |-> NoFiles]]
            /\ job = IdleJob /\ edits = 0
    BY Zenon DEF Init
  <1>2. /\ s \in (0..MaxCards) \X (0..MaxCards) /\ s[1] \in 0..MaxCards /\ s[2] \in 1..MaxCards
        /\ s = <<s[1], s[2]>> /\ 1 \in 1..MaxSplits /\ MaxCards \in Nat /\ MaxSplits \in Nat /\ MaxEdits \in Nat
    BY <1>1, KeyAssumption DEF CanSplit
  <1>3. k \in Names /\ k \notin RepoIds /\ \A n \in Names : n \notin RepoIds
    BY KeyAssumption DEF Names
  <1>4. TypeOK
    <2>1. conf \in [ConfKeys -> [split : BOOLEAN, shape : Shapes]]
      BY <1>1
    <2>2. pwfile \in [Keys -> Passwords] /\ opens \in [Keys -> Passwords]
      BY <1>1
    <2>3. repos \in [RepoIds -> {NoRepo} \cup [name : Names, key : ConfKeys]]
      BY <1>1, <1>3 DEF ConfKeys
    <2>4. escrow \in [RepoIds \cup Names -> [sid : 0..MaxSplits, shape : (0..MaxCards) \X (0..MaxCards)]]
      <3>1. Row(1, s) \in [sid : 0..MaxSplits, shape : (0..MaxCards) \X (0..MaxCards)]
        BY <1>2 DEF Row
      <3>2. NoRow \in [sid : 0..MaxSplits, shape : (0..MaxCards) \X (0..MaxCards)]
        BY <1>2 DEF Row, NoRow
      <3> QED BY <1>1, <3>1, <3>2
    <2>5. dir \in [Names -> [1..MaxCards -> [share : BOOLEAN, card : File]]]
      <3>1. NoFiles \in [share : BOOLEAN, card : File]
        BY DEF NoFiles, File
      <3> QED BY <1>1, <3>1
    <2>6. splits \in Seq([n : Names, shape : Shapes, pw : Passwords, checked : BOOLEAN])
      <3>1. [n |-> k, shape |-> s, pw |-> pw, checked |-> TRUE]
               \in [n : Names, shape : Shapes, pw : Passwords, checked : BOOLEAN]
        BY <1>3
      <3> DEFINE e == [n |-> k, shape |-> s, pw |-> pw, checked |-> TRUE]
                 E == [n : Names, shape : Shapes, pw : Passwords, checked : BOOLEAN]
      <3>2. e \in E /\ splits = IF legacy THEN <<e>> ELSE <<>>
        BY <1>1, <3>1
      <3> HIDE DEF e, E
      <3>3. splits \in Seq(E)
        BY <3>2
      <3> QED BY <3>3 DEF E
    <2>7. job \in [pc : {"idle", "share", "card", "check", "record"}, n : Names \cup {None},
                   conf : BOOLEAN, i : 0..MaxCards]
      BY <1>1, <1>2 DEF IdleJob
    <2>8. done \subseteq 1..Len(splits)
      BY <1>1
    <2>9. held \subseteq File \ {NoCard}
      <3>1. ASSUME NEW i \in 1..s[2] PROVE Card(1, i, TRUE) \in File \ {NoCard}
        BY <1>2 DEF File, NoCard, Card
      <3> QED BY <1>1, <3>1
    <2>10. edits \in 0..MaxEdits
      BY <1>1, <1>2
    <2> QED BY <2>1, <2>2, <2>3, <2>4, <2>5, <2>6, <2>7, <2>8, <2>9, <2>10 DEF TypeOK
  <1>5. ShapeInv
    BY <1>1, <1>2 DEF ShapeInv
  <1>6. JobInv
    BY <1>1 DEF JobInv
  <1>7. HeldInv
    BY <1>1 DEF HeldInv, Total, Card
  <1>8. RowsAreSplits
    <2> SUFFICES ASSUME NEW x \in DOMAIN escrow, escrow[x] # NoRow
                 PROVE  /\ escrow[x].sid \in done
                        /\ escrow[x].shape = splits[escrow[x].sid].shape
                        /\ IF x \in RepoIds
                           THEN repos[x] # NoRepo /\ splits[escrow[x].sid].n = repos[x].name
                           ELSE Named(x) # {} /\ splits[escrow[x].sid].n = x
      BY DEF RowsAreSplits
    <2>1. legacy /\ x = k /\ escrow[x] = Row(1, s)
      BY <1>1
    <2>2. r \in Named(k)
      BY <1>1, <1>3, KeyAssumption DEF Named, NoRepo
    <2>3. splits = <<[n |-> k, shape |-> s, pw |-> pw, checked |-> TRUE]>> /\ done = {1}
      BY <1>1, <2>1
    <2> QED BY <2>1, <2>2, <2>3, <1>3 DEF Row
  <1> QED BY <1>4, <1>5, <1>6, <1>7, <1>8 DEF IInv

-----------------------------------------------------------------------------
(* Steps.                                                                  *)

JobStates == [pc : {"idle", "share", "card", "check", "record"}, n : Names \cup {None},
              conf : BOOLEAN, i : 0..MaxCards]

Splits == [n : Names, shape : Shapes, pw : Passwords, checked : BOOLEAN]

\* The shape of a split that was begun.
LEMMA TotalRange ==
    ASSUME TypeOK, ShapeInv, NEW s \in 1..Len(splits)
    PROVE  /\ splits[s] \in Splits /\ splits[s].shape \in Shapes /\ splits[s].n \in Names
           /\ splits[s].shape[1] \in Nat /\ splits[s].shape[1] >= 1
           /\ splits[s].shape[1] <= Total(s) /\ Total(s) \in 1..MaxCards
           /\ splits[s].shape \in (0..MaxCards) \X (0..MaxCards)
  <1>1. splits[s] \in Splits
    <2>1. splits \in Seq(Splits)
      BY DEF TypeOK, Splits
    <2> QED BY <2>1
  <1>2. splits[s].shape \in Shapes /\ splits[s].n \in Names
    BY <1>1 DEF Splits
  <1> QED
    BY <1>1, <1>2, KeyAssumption DEF ShapeInv, CanSplit, Total

\* A step that ends the command, or does not touch it, and leaves the rest.
LEMMA CardsFrame ==
    ASSUME HeldInv, splits' = splits, done' = done, held' = held
    PROVE  HeldInv'
  BY DEF HeldInv, Total

\* The records stay true when no record, repository or split changes.
LEMMA RowsFrame ==
    ASSUME RowsAreSplits, UNCHANGED <<escrow, repos, splits>>, done \subseteq done'
    PROVE  RowsAreSplits'
  BY DEF RowsAreSplits, Named

\* The shapes stay valid when neither the configuration nor a split changes.
LEMMA ShapeFrame ==
    ASSUME ShapeInv, UNCHANGED <<conf, splits>>
    PROVE  ShapeInv'
  BY DEF ShapeInv

\* Nothing is claimed of the directory when no command runs.
LEMMA IdleFrame == job' = IdleJob => JobInv'
  BY DEF JobInv

\* A job that goes on over the same directory.
LEMMA JobFrame ==
    ASSUME JobInv, UNCHANGED <<job, splits, done>>, job # IdleJob => dir'[job.n] = dir[job.n]
    PROVE  JobInv'
  BY DEF JobInv, Sid, Total

\* Dying at any point, and the refusals, leave what there is.
LEMMA DieStep == ASSUME IInv, SplitDie PROVE IInv'
  <1> USE DEF IInv
  <1>1. /\ job' = IdleJob /\ UNCHANGED <<conf, pwfile, opens, repos, escrow, dir, splits, done, held, edits>>
    BY DEF SplitDie, ownerVars, catalogVars
  <1>2. TypeOK'
    <2>1. IdleJob \in JobStates
      BY KeyAssumption DEF IdleJob, JobStates
    <2> QED BY <1>1, <2>1 DEF TypeOK, JobStates
  <1> QED BY <1>1, <1>2, CardsFrame, RowsFrame, ShapeFrame, IdleFrame

\* The owner's edits, and new repositories.
LEMMA EditStep ==
    ASSUME IInv, NEW k \in ConfKeys, EditConf(k) \/ (k \in Keys /\ EditPassword(k))
    PROVE  IInv'
  <1> USE DEF IInv
  <1>1. EditConf(k) \/ (k \in Keys /\ EditPassword(k))
    OBVIOUS
  <1>2. edits' \in 0..MaxEdits
    <2>1. edits \in 0..MaxEdits /\ edits < MaxEdits /\ edits' = edits + 1 /\ MaxEdits \in Nat
      BY <1>1, KeyAssumption DEF EditConf, EditPassword, TypeOK
    <2> QED BY <2>1
  <1>3. UNCHANGED <<repos, escrow, dir, splits, job, done, held>>
    BY <1>1 DEF EditConf, EditPassword, catalogVars
  <1>4. conf' \in [ConfKeys -> [split : BOOLEAN, shape : Shapes]] /\ \A x \in ConfKeys : CanSplit(conf'[x].shape)
    <2>1. CASE EditConf(k)
      <3>1. PICK b \in BOOLEAN, s \in {x \in Shapes : CanSplit(x)} :
                conf' = [conf EXCEPT ![k] = [split |-> b, shape |-> s]]
        BY <2>1 DEF EditConf
      <3> QED BY <3>1 DEF TypeOK, ShapeInv
    <2>2. CASE EditPassword(k)
      BY <2>2 DEF EditPassword, TypeOK, ShapeInv
    <2> QED BY <1>1, <2>1, <2>2
  <1>5. pwfile' \in [Keys -> Passwords] /\ opens' \in [Keys -> Passwords]
    <2>1. pwfile \in [Keys -> Passwords] /\ opens \in [Keys -> Passwords]
      BY DEF TypeOK
    <2>2. CASE EditConf(k)
      BY <2>1, <2>2 DEF EditConf
    <2>3. CASE EditPassword(k)
      BY <2>1, <2>3 DEF EditPassword
    <2> QED BY <1>1, <2>2, <2>3
  <1>6. TypeOK'
    BY <1>2, <1>3, <1>4, <1>5 DEF TypeOK
  <1>7. ShapeInv'
    BY <1>3, <1>4 DEF ShapeInv
  <1> QED BY <1>3, <1>6, <1>7, CardsFrame, RowsFrame, JobFrame

\* A new repository has no record, and inherits none under its name.
LEMMA RepoAddStep ==
    ASSUME IInv, NEW r \in RepoIds, NEW n \in Names, NEW k \in ConfKeys, RepoAdd(r, n, k)
    PROVE  IInv'
  <1> USE DEF IInv
  <1>1. /\ UNCHANGED <<conf, pwfile, opens, escrow, dir, splits, job, done, held>>
        /\ repos[r] = NoRepo /\ escrow[r] = NoRow
        /\ repos' = [repos EXCEPT ![r] = [name |-> n, key |-> k]] /\ edits' \in 0..MaxEdits
    BY KeyAssumption DEF RepoAdd, ownerVars, TypeOK
  <1>2. TypeOK'
    BY <1>1 DEF TypeOK
  <1>3. RowsAreSplits'
    <2> SUFFICES ASSUME NEW x \in DOMAIN escrow, escrow[x] # NoRow
                 PROVE  /\ escrow[x].sid \in done
                        /\ escrow[x].shape = splits[escrow[x].sid].shape
                        /\ IF x \in RepoIds
                           THEN repos'[x] # NoRepo /\ splits[escrow[x].sid].n = repos'[x].name
                           ELSE Named(x)' # {} /\ splits[escrow[x].sid].n = x
      BY <1>1 DEF RowsAreSplits
    <2>1. x # r
      BY <1>1
    <2>2. x \in RepoIds => repos'[x] = repos[x]
      BY <1>1, <2>1 DEF TypeOK
    <2>3. Named(x) \subseteq Named(x)'
      <3>1. ASSUME NEW q \in Named(x) PROVE q \in Named(x)'
        <4>1. q \in RepoIds /\ repos[q] # NoRepo /\ repos[q].name = x
          BY DEF Named
        <4>2. repos'[q] = repos[q]
          BY <1>1, <4>1 DEF TypeOK
        <4> QED BY <4>1, <4>2 DEF Named
      <3> QED BY <3>1
    <2> QED BY <2>2, <2>3 DEF RowsAreSplits
  <1> QED BY <1>1, <1>2, <1>3, CardsFrame, ShapeFrame, JobFrame

\* A repository that goes takes both its records with it.
LEMMA RepoRemoveStep ==
    ASSUME IInv, NEW r \in RepoIds, RepoRemove(r)
    PROVE  IInv'
  <1> USE DEF IInv
  <1>1. /\ UNCHANGED <<conf, pwfile, opens, dir, splits, job, done, held>>
        /\ repos[r] # NoRepo /\ edits' \in 0..MaxEdits
        /\ repos' = [repos EXCEPT ![r] = NoRepo]
        /\ escrow' = [escrow EXCEPT ![r] = NoRow, ![repos[r].name] = NoRow]
    BY KeyAssumption DEF RepoRemove, ownerVars, TypeOK
  <1>2. repos[r].name \in Names
    BY <1>1 DEF TypeOK
  <1>t. /\ repos \in [RepoIds -> {NoRepo} \cup [name : Names, key : ConfKeys]]
        /\ escrow \in [RepoIds \cup Names -> [sid : 0..MaxSplits, shape : (0..MaxCards) \X (0..MaxCards)]]
    BY DEF TypeOK
  <1>3. /\ repos' \in [RepoIds -> {NoRepo} \cup [name : Names, key : ConfKeys]]
        /\ \A q \in RepoIds : q # r => repos'[q] = repos[q]
    BY <1>1, <1>t
  <1>4. /\ escrow' \in [RepoIds \cup Names -> [sid : 0..MaxSplits, shape : (0..MaxCards) \X (0..MaxCards)]]
        /\ \A x \in RepoIds \cup Names : x \notin {r, repos[r].name} => escrow'[x] = escrow[x]
        /\ escrow'[r] = NoRow /\ escrow'[repos[r].name] = NoRow
    <2> DEFINE E == [sid : 0..MaxSplits, shape : (0..MaxCards) \X (0..MaxCards)]
               nm == repos[r].name
    <2>1. NoRow \in E
      BY KeyAssumption DEF NoRow, Row
    <2>2. escrow \in [RepoIds \cup Names -> E] /\ nm \in Names
      BY <1>2, <1>t
    <2>3. escrow' = [escrow EXCEPT ![r] = NoRow, ![nm] = NoRow]
      BY <1>1
    <2> HIDE DEF E, nm
    <2>4. /\ escrow' \in [RepoIds \cup Names -> E]
          /\ \A x \in RepoIds \cup Names : x \notin {r, nm} => escrow'[x] = escrow[x]
          /\ escrow'[r] = NoRow /\ escrow'[nm] = NoRow
      BY <2>1, <2>2, <2>3
    <2> QED BY <2>4 DEF E, nm
  <1>5. TypeOK'
    BY <1>1, <1>3, <1>4 DEF TypeOK
  <1>6. RowsAreSplits'
    <2> SUFFICES ASSUME NEW x \in RepoIds \cup Names, escrow'[x] # NoRow
                 PROVE  /\ escrow'[x].sid \in done
                        /\ escrow'[x].shape = splits[escrow'[x].sid].shape
                        /\ IF x \in RepoIds
                           THEN repos'[x] # NoRepo /\ splits[escrow'[x].sid].n = repos'[x].name
                           ELSE Named(x)' # {} /\ splits[escrow'[x].sid].n = x
      BY <1>1, <1>4 DEF RowsAreSplits
    <2>1. x # r /\ x # repos[r].name /\ escrow'[x] = escrow[x] /\ x \in DOMAIN escrow
      BY <1>4, <1>t
    <2>2. x \in RepoIds => repos'[x] = repos[x]
      BY <1>3, <2>1
    <2>3. Named(x) \subseteq Named(x)'
      <3>1. ASSUME NEW q \in Named(x) PROVE q \in Named(x)'
        <4>1. q \in RepoIds /\ repos[q] # NoRepo /\ repos[q].name = x
          BY DEF Named
        <4>2. repos'[q] = repos[q]
          BY <1>3, <2>1, <4>1
        <4> QED BY <4>1, <4>2 DEF Named
      <3> QED BY <3>1
    <2> QED BY <2>1, <2>2, <2>3 DEF RowsAreSplits
  <1> QED BY <1>1, <1>5, <1>6, CardsFrame, ShapeFrame, JobFrame

\* The owner takes files of a split that is not being written.
LEMMA TakeStep ==
    ASSUME IInv, NEW n \in Names, NEW i \in 1..MaxCards, TakeFiles(n, i)
    PROVE  IInv'
  <1> USE DEF IInv
  <1>1. /\ UNCHANGED <<conf, pwfile, opens, repos, escrow, splits, job, done, held>>
        /\ job.n # n /\ dir' = [dir EXCEPT ![n][i] = NoFiles] /\ edits' \in 0..MaxEdits
    BY KeyAssumption DEF TakeFiles, ownerVars, catalogVars, TypeOK
  <1>2. /\ dir \in [Names -> [1..MaxCards -> [share : BOOLEAN, card : File]]]
        /\ NoFiles \in [share : BOOLEAN, card : File]
    BY DEF TypeOK, NoFiles, File
  <1>3. /\ dir' \in [Names -> [1..MaxCards -> [share : BOOLEAN, card : File]]]
        /\ \A m \in Names : m # n => dir'[m] = dir[m]
    <2> DEFINE F == [share : BOOLEAN, card : File]
    <2>1. dir \in [Names -> [1..MaxCards -> F]] /\ NoFiles \in F
      BY <1>2
    <2> HIDE DEF F
    <2>2. /\ dir' \in [Names -> [1..MaxCards -> F]]
          /\ \A m \in Names : m # n => dir'[m] = dir[m]
      BY <1>1, <2>1
    <2> QED BY <2>2 DEF F
  <1>4. TypeOK'
    BY <1>1, <1>3 DEF TypeOK
  <1>5. JobInv'
    <2>1. job # IdleJob => job.n \in Names
      BY TotalRange DEF JobInv
    <2> QED BY <1>1, <1>3, <2>1, JobFrame
  <1> QED BY <1>1, <1>4, <1>5, CardsFrame, RowsFrame, ShapeFrame

\* A new split: nothing of the earlier ones changes.
LEMMA BeginStep ==
    ASSUME IInv, NEW n \in Names, NEW c \in BOOLEAN, NEW v \in BOOLEAN, NEW u \in BOOLEAN,
           NEW shape \in Shapes, SplitBegin(n, c, v, u, shape)
    PROVE  IInv'
  <1> USE DEF IInv
  <1>1. /\ UNCHANGED <<conf, pwfile, opens, repos, escrow, dir, done, held, edits>>
        /\ CanSplit(shape) /\ Len(splits) < MaxSplits
        /\ job' = [pc |-> "share", n |-> n, conf |-> c, i |-> 1]
    BY DEF SplitBegin, ownerVars, catalogVars, Sid
  <1>2. PICK e \in Splits : splits' = Append(splits, e) /\ e.n = n /\ e.shape = shape
    <2>1. PICK pw \in IF n \in Keys THEN {pwfile[n]} ELSE Passwords :
              splits' = Append(splits, [n |-> n, shape |-> shape, pw |-> pw, checked |-> c /\ v])
      BY DEF SplitBegin
    <2>2. pw \in Passwords
      BY DEF TypeOK
    <2>3. (c /\ v) \in BOOLEAN
      OBVIOUS
    <2> DEFINE e == [n |-> n, shape |-> shape, pw |-> pw, checked |-> c /\ v]
    <2>4. e \in Splits /\ e.n = n /\ e.shape = shape
      BY <2>2, <2>3 DEF Splits
    <2> QED BY <2>1, <2>4
  <1>3. /\ splits \in Seq(Splits) /\ splits' \in Seq(Splits) /\ Len(splits) \in Nat
        /\ Len(splits') = Len(splits) + 1 /\ splits'[Len(splits) + 1] = e
        /\ \A s \in 1..Len(splits) : splits'[s] = splits[s]
    <2>1. splits \in Seq(Splits)
      BY DEF TypeOK, Splits
    <2> QED BY <1>2, <2>1
  <1>4. done \subseteq 1..Len(splits)
    BY DEF TypeOK
  <1>5. shape[2] \in 1..MaxCards
    BY <1>1, KeyAssumption DEF CanSplit
  <1>6. TypeOK'
    <2>1. job' \in JobStates
      BY <1>1, <1>5, KeyAssumption DEF JobStates
    <2>2. done \subseteq 1..Len(splits')
      BY <1>3, <1>4
    <2> QED BY <1>1, <1>3, <2>1, <2>2 DEF TypeOK, JobStates, Splits
  <1>7. ShapeInv'
    BY <1>1, <1>2, <1>3, KeyAssumption DEF ShapeInv
  <1>8. HeldInv'
    BY <1>1, <1>3, <1>4 DEF HeldInv, Total
  <1>9. RowsAreSplits'
    <2>1. \A s \in done : splits'[s] = splits[s]
      BY <1>3, <1>4
    <2>2. \A x : Named(x)' = Named(x)
      BY <1>1 DEF Named
    <2> SUFFICES ASSUME NEW x \in DOMAIN escrow, escrow[x] # NoRow
                 PROVE  /\ escrow[x].sid \in done
                        /\ escrow[x].shape = splits'[escrow[x].sid].shape
                        /\ IF x \in RepoIds
                           THEN repos[x] # NoRepo /\ splits'[escrow[x].sid].n = repos[x].name
                           ELSE Named(x) # {} /\ splits'[escrow[x].sid].n = x
      BY <1>1, <2>2 DEF RowsAreSplits
    <2>3. escrow[x].sid \in done
      BY DEF RowsAreSplits
    <2> QED BY <2>1, <2>3 DEF RowsAreSplits
  <1>10. JobInv'
    <2>1. Sid' = Len(splits) + 1 /\ Sid' \in 1..Len(splits)' /\ Sid' \notin done' /\ splits'[Sid'] = e
      BY <1>1, <1>3, <1>4 DEF Sid
    <2>2. job'.pc = "share" /\ job'.n = n /\ job'.i = 1
      BY <1>1
    <2>3. Total(Sid)' = shape[2]
      BY <1>2, <2>1 DEF Total
    <2>4. job'.i \in 1..Total(Sid)' /\ \A j \in 1..Total(Sid)' : ~(j < job'.i)
      BY <1>5, <2>2, <2>3
    <2> QED BY <1>2, <2>1, <2>2, <2>4 DEF JobInv
  <1> QED BY <1>6, <1>7, <1>8, <1>9, <1>10

\* One file of one number changes, and the directory stays one of files.
LEMMA DirStep ==
    ASSUME TypeOK, NEW n \in Names, NEW i \in 1..MaxCards, NEW f \in [share : BOOLEAN, card : File],
           dir' = [dir EXCEPT ![n][i] = f]
    PROVE  /\ dir' \in [Names -> [1..MaxCards -> [share : BOOLEAN, card : File]]]
           /\ dir'[n][i] = f /\ \A j \in 1..MaxCards : j # i => dir'[n][j] = dir[n][j]
  <1> DEFINE F == [share : BOOLEAN, card : File]
  <1>1. dir \in [Names -> [1..MaxCards -> F]] /\ f \in F
    BY DEF TypeOK
  <1> HIDE DEF F
  <1>2. /\ dir' \in [Names -> [1..MaxCards -> F]]
        /\ dir'[n][i] = f /\ \A j \in 1..MaxCards : j # i => dir'[n][j] = dir[n][j]
    BY <1>1
  <1> QED BY <1>2 DEF F

\* What is known of the running command, in its own terms.
LEMMA JobFacts ==
    ASSUME IInv, job # IdleJob
    PROVE  /\ MaxCards \in Nat /\ MaxSplits \in Nat
           /\ job.n \in Names /\ job.i \in 1..MaxCards /\ job.i \in 1..Total(Sid)
           /\ Sid \in 1..Len(splits) /\ Sid \in 1..MaxSplits /\ Sid \notin done
           /\ Total(Sid) \in 1..MaxCards /\ job \in JobStates /\ splits[Sid] \in Splits
           /\ splits[Sid].n = job.n /\ dir[job.n][job.i] \in [share : BOOLEAN, card : File]
  <1> USE DEF IInv
  <1>1. /\ Sid \in 1..Len(splits) /\ Sid \notin done /\ job.n = splits[Sid].n
        /\ job.i \in 1..Total(Sid)
    BY DEF JobInv
  <1>2. splits[Sid] \in Splits /\ splits[Sid].n \in Names /\ Total(Sid) \in 1..MaxCards
    BY <1>1, TotalRange
  <1>3. Len(splits) \in Nat /\ Len(splits) <= MaxSplits
    <2>1. splits \in Seq(Splits)
      BY DEF TypeOK, Splits
    <2> QED BY <2>1 DEF ShapeInv
  <1>4. job.i \in 1..MaxCards /\ Sid \in 1..MaxSplits
    BY <1>1, <1>2, <1>3, KeyAssumption
  <1>5. job \in JobStates
    BY DEF TypeOK, JobStates
  <1>6. dir[job.n][job.i] \in [share : BOOLEAN, card : File]
    <2> DEFINE F == [share : BOOLEAN, card : File]
    <2>1. dir \in [Names -> [1..MaxCards -> F]]
      BY DEF TypeOK
    <2> HIDE DEF F
    <2>2. dir[job.n][job.i] \in F
      BY <1>1, <1>2, <1>4, <2>1
    <2> QED BY <2>2 DEF F
  <1> QED BY <1>1, <1>2, <1>4, <1>5, <1>6, KeyAssumption

\* The share file of the next number, or the refusal of an existing one.
LEMMA ShareStep == ASSUME IInv, SplitShare PROVE IInv'
  <1> USE DEF IInv
  <1>1. /\ UNCHANGED <<conf, pwfile, opens, repos, escrow, splits, done, held, edits>>
        /\ job.pc = "share" /\ job # IdleJob
    BY DEF SplitShare, ownerVars, catalogVars, IdleJob
  <1>2. CASE job' = IdleJob /\ dir' = dir
    <2>1. TypeOK'
      <3>1. IdleJob \in JobStates
        BY KeyAssumption DEF IdleJob, JobStates
      <3> QED BY <1>1, <1>2, <3>1 DEF TypeOK, JobStates
    <2> QED BY <1>1, <1>2, <2>1, CardsFrame, RowsFrame, ShapeFrame, IdleFrame
  <1>3. CASE /\ dir' = [dir EXCEPT ![job.n][job.i].share = TRUE]
             /\ job' = [job EXCEPT !.pc = "card"]
    <2> DEFINE old == dir[job.n][job.i]
               f == [old EXCEPT !.share = TRUE]
    <2>1. /\ MaxCards \in Nat /\ MaxSplits \in Nat
          /\ job.n \in Names /\ job.i \in 1..MaxCards /\ job.i \in 1..Total(Sid) /\ Total(Sid) \in 1..MaxCards
          /\ job \in JobStates /\ old \in [share : BOOLEAN, card : File]
      BY <1>1, JobFacts
    <2>2. f \in [share : BOOLEAN, card : File] /\ f.card = old.card
      BY <2>1
    <2>3. dir' = [dir EXCEPT ![job.n][job.i] = f]
      BY <1>3
    <2>4. /\ dir' \in [Names -> [1..MaxCards -> [share : BOOLEAN, card : File]]]
          /\ dir'[job.n][job.i] = f
          /\ \A j \in 1..MaxCards : j # job.i => dir'[job.n][j] = dir[job.n][j]
      <3> HIDE DEF f
      <3> QED BY <2>1, <2>2, <2>3, DirStep, ZenonT(60)
    <2>5. job' \in JobStates /\ job'.pc = "card" /\ job'.n = job.n /\ job'.i = job.i
      BY <1>3, <2>1 DEF JobStates
    <2>6. TypeOK'
      BY <1>1, <2>4, <2>5 DEF TypeOK, JobStates
    <2>7. \A j \in 1..Total(Sid) : dir'[job.n][j].card = dir[job.n][j].card
      BY <2>1, <2>2, <2>4
    <2>8. JobInv'
      <3> HIDE DEF f
      <3>1. Sid' = Sid /\ Total(Sid)' = Total(Sid)
        BY <1>1 DEF Sid, Total
      <3>2. ASSUME NEW j \in 1..Total(Sid), j < job.i
            PROVE  dir'[job.n][j].card \in {Card(Sid, j, TRUE), Card(Sid, j, FALSE)}
        BY <1>1, <2>7, <3>2 DEF JobInv
      <3> QED BY <1>1, <2>5, <3>1, <3>2 DEF JobInv
    <2> QED BY <1>1, <2>6, <2>8, CardsFrame, RowsFrame, ShapeFrame
  <1> QED BY <1>2, <1>3 DEF SplitShare

\* The card of the same number, whole or cut short.
LEMMA CardStep == ASSUME IInv, NEW whole \in BOOLEAN, SplitCard(whole) PROVE IInv'
  <1> USE DEF IInv
  <1>1. /\ UNCHANGED <<conf, pwfile, opens, repos, escrow, splits, done, held, edits>>
        /\ job.pc = "card" /\ job # IdleJob
    BY DEF SplitCard, ownerVars, catalogVars, IdleJob
  <1>2. CASE job' = IdleJob /\ dir' = dir
    <2>1. TypeOK'
      <3>1. IdleJob \in JobStates
        BY KeyAssumption DEF IdleJob, JobStates
      <3> QED BY <1>1, <1>2, <3>1 DEF TypeOK, JobStates
    <2> QED BY <1>1, <1>2, <2>1, CardsFrame, RowsFrame, ShapeFrame, IdleFrame
  <1>3. CASE /\ dir' = [dir EXCEPT ![job.n][job.i].card = Card(Sid, job.i, whole)]
             /\ job' = IF job.i < splits[Sid].shape[2]
                       THEN [job EXCEPT !.pc = "share", !.i = @ + 1]
                       ELSE [job EXCEPT !.pc = "check"]
    <2> DEFINE old == dir[job.n][job.i]
               new == Card(Sid, job.i, whole)
               f == [old EXCEPT !.card = new]
    <2>1. /\ MaxCards \in Nat /\ MaxSplits \in Nat
          /\ job.n \in Names /\ job.i \in 1..MaxCards /\ job.i \in 1..Total(Sid) /\ Total(Sid) \in 1..MaxCards
          /\ Sid \in 1..MaxSplits /\ job \in JobStates /\ old \in [share : BOOLEAN, card : File]
      BY <1>1, JobFacts
    <2>2. new \in File /\ new \in {Card(Sid, job.i, TRUE), Card(Sid, job.i, FALSE)}
      BY <2>1 DEF File, Card
    <2>3. f \in [share : BOOLEAN, card : File] /\ f.card = new
      <3> HIDE DEF new
      <3> QED BY <2>1, <2>2
    <2>4. dir' = [dir EXCEPT ![job.n][job.i] = f]
      BY <1>3
    <2>5. /\ dir' \in [Names -> [1..MaxCards -> [share : BOOLEAN, card : File]]]
          /\ dir'[job.n][job.i] = f
          /\ \A j \in 1..MaxCards : j # job.i => dir'[job.n][j] = dir[job.n][j]
      <3> HIDE DEF f
      <3> QED BY <2>1, <2>3, <2>4, DirStep
    <2>6. ASSUME NEW j \in 1..Total(Sid), j <= job.i
          PROVE  dir'[job.n][j].card \in {Card(Sid, j, TRUE), Card(Sid, j, FALSE)}
      <3> HIDE DEF f, new
      <3>1. CASE j = job.i
        BY <2>2, <2>3, <2>5, <3>1
      <3>2. CASE j # job.i
        <4>1. j < job.i /\ dir'[job.n][j] = dir[job.n][j]
          BY <2>1, <2>5, <2>6, <3>2
        <4> QED BY <1>1, <4>1 DEF JobInv
      <3> QED BY <3>1, <3>2
    <2>7. Sid' = Sid /\ Total(Sid)' = Total(Sid)
      BY <1>1 DEF Sid, Total
    <2> HIDE DEF f, new
    <2>8. CASE job.i < Total(Sid)
      <3>1. job' = [job EXCEPT !.pc = "share", !.i = @ + 1]
        BY <1>3, <2>8 DEF Total
      <3>2. job' \in JobStates /\ job'.pc = "share" /\ job'.n = job.n /\ job'.i = job.i + 1
        <4>1. job.i + 1 \in 0..MaxCards
          BY <2>1, <2>8
        <4> QED BY <2>1, <3>1, <4>1 DEF JobStates
      <3>3. TypeOK'
        BY <1>1, <2>5, <3>2 DEF TypeOK, JobStates
      <3>4. JobInv'
        <4>1. job'.i \in 1..Total(Sid)
          BY <2>1, <2>8, <3>2
        <4>2. ASSUME NEW j \in 1..Total(Sid), j < job'.i
              PROVE  dir'[job.n][j].card \in {Card(Sid, j, TRUE), Card(Sid, j, FALSE)}
          <5>1. j <= job.i
            BY <2>1, <3>2, <4>2
          <5> QED BY <2>6, <5>1
        <4> QED BY <1>1, <2>7, <3>2, <4>1, <4>2 DEF JobInv
      <3> QED BY <1>1, <3>3, <3>4, CardsFrame, RowsFrame, ShapeFrame
    <2>9. CASE job.i = Total(Sid)
      <3>1. job' = [job EXCEPT !.pc = "check"]
        BY <1>3, <2>1, <2>9 DEF Total
      <3>2. job' \in JobStates /\ job'.pc = "check" /\ job'.n = job.n /\ job'.i = job.i
        BY <2>1, <3>1 DEF JobStates
      <3>3. TypeOK'
        BY <1>1, <2>5, <3>2 DEF TypeOK, JobStates
      <3>4. JobInv'
        <4>1. ASSUME NEW j \in 1..Total(Sid)
              PROVE  dir'[job.n][j].card \in {Card(Sid, j, TRUE), Card(Sid, j, FALSE)}
          <5>1. j <= job.i
            BY <2>1, <2>9
          <5> QED BY <2>6, <5>1
        <4> QED BY <1>1, <2>1, <2>7, <3>2, <4>1 DEF JobInv
      <3> QED BY <1>1, <3>3, <3>4, CardsFrame, RowsFrame, ShapeFrame
    <2> QED BY <2>1, <2>8, <2>9
  <1> QED BY <1>2, <1>3 DEF SplitCard

\* A command that returns 0 with whole cards hands out whole cards.
LEMMA ReturnStep ==
    ASSUME IInv, job # IdleJob, Return0, splits' = splits,
           \A j \in 1..Total(Sid) : dir[job.n][j].card = Card(Sid, j, TRUE)
    PROVE  /\ HeldInv' /\ done \subseteq done' /\ Sid \in done' /\ done' \subseteq 1..Len(splits)
           /\ held' \subseteq File \ {NoCard}
  <1> USE DEF IInv
  <1> DEFINE mine == {Card(Sid, j, TRUE) : j \in 1..Total(Sid)}
  <1>1. /\ MaxCards \in Nat /\ MaxSplits \in Nat
        /\ Sid \in 1..Len(splits) /\ Sid \in 1..MaxSplits /\ Sid \notin done /\ Total(Sid) \in 1..MaxCards
    BY JobFacts
  <1>2. {Written[i] : i \in DOMAIN Written} = mine
    BY DEF Written, Total
  <1>3. done' = done \cup {Sid} /\ held' = held \cup mine
    BY <1>2 DEF Return0
  <1>4. \A c \in mine : c.sid = Sid /\ c \in File \ {NoCard}
    <2> SUFFICES ASSUME NEW j \in 1..Total(Sid)
                 PROVE  Card(Sid, j, TRUE).sid = Sid /\ Card(Sid, j, TRUE) \in File \ {NoCard}
      OBVIOUS
    <2>1. j \in 1..MaxCards
      BY <1>1
    <2> QED BY <1>1, <2>1 DEF Card, File, NoCard
  <1>5. \A s \in done' : Total(s)' = Total(s)
    BY DEF Total
  <1> HIDE DEF mine
  <1>6. \A c \in held' : c.sid \in done'
    BY <1>3, <1>4 DEF HeldInv
  <1>7. ASSUME NEW s \in done'
        PROVE  {c \in held' : c.sid = s} = {Card(s, i, TRUE) : i \in 1..Total(s)}
    <2>1. CASE s = Sid
      <3>1. {c \in held' : c.sid = s} = mine
        BY <1>1, <1>3, <1>4, <2>1 DEF HeldInv
      <3> QED BY <2>1, <3>1 DEF mine
    <2>2. CASE s # Sid
      <3>1. s \in done /\ {c \in held' : c.sid = s} = {c \in held : c.sid = s}
        BY <1>3, <1>4, <2>2
      <3> QED BY <3>1 DEF HeldInv
    <2> QED BY <2>1, <2>2
  <1>8. HeldInv'
    BY <1>5, <1>6, <1>7 DEF HeldInv
  <1>9. done \subseteq 1..Len(splits) /\ held \subseteq File \ {NoCard}
    BY DEF TypeOK
  <1> QED BY <1>1, <1>3, <1>4, <1>8, <1>9

\* The round trip on the files: only whole cards pass it.
LEMMA CheckStep == ASSUME IInv, SplitCheck PROVE IInv'
  <1> USE DEF IInv
  <1>1. /\ UNCHANGED <<conf, pwfile, opens, repos, escrow, dir, splits, edits>>
        /\ job.pc = "check" /\ job # IdleJob
    BY DEF SplitCheck, ownerVars, catalogVars, IdleJob
  <1>2. IdleJob \in JobStates
    BY KeyAssumption DEF IdleJob, JobStates
  <1>3. CASE job' = IdleJob /\ UNCHANGED <<done, held>>
    <2>1. TypeOK'
      BY <1>1, <1>2, <1>3 DEF TypeOK, JobStates
    <2> QED BY <1>1, <1>3, <2>1, CardsFrame, RowsFrame, ShapeFrame, IdleFrame
  <1>4. CASE Roundtrip(Written, splits[Sid].shape, splits[Sid].pw)
    <2>1. /\ Sid \in 1..Len(splits) /\ splits[Sid] \in Splits /\ job \in JobStates
          /\ splits[Sid].shape \in Shapes /\ splits[Sid].pw \in Passwords /\ CanSplit(splits[Sid].shape)
      BY <1>1, JobFacts DEF Splits, ShapeInv
    <2>2. \A j \in 1..Total(Sid) : Written[j].ok
      BY <1>4, <2>1, RoundtripWhole DEF Total
    <2>3. \A j \in 1..Total(Sid) : Written[j] = dir[job.n][j].card
      BY DEF Written, Total
    <2>4. \A j \in 1..Total(Sid) : Written[j] \in {Card(Sid, j, TRUE), Card(Sid, j, FALSE)}
      BY <1>1, <2>3 DEF JobInv
    <2>5. \A j \in 1..Total(Sid) : dir[job.n][j].card = Card(Sid, j, TRUE)
      <3> SUFFICES ASSUME NEW j \in 1..Total(Sid) PROVE dir[job.n][j].card = Card(Sid, j, TRUE)
        OBVIOUS
      <3>1. Written[j] # Card(Sid, j, FALSE)
        <4>1. ~Card(Sid, j, FALSE).ok
          BY DEF Card
        <4> QED BY <2>2, <4>1, Zenon
      <3> QED BY <2>3, <2>4, <3>1
    <2>6. CASE job' = [job EXCEPT !.pc = "record"] /\ UNCHANGED <<done, held>>
      <3>1. job' \in JobStates /\ job'.pc = "record" /\ job'.n = job.n /\ job'.i = job.i
        BY <2>1, <2>6 DEF JobStates
      <3>2. TypeOK'
        BY <1>1, <2>6, <3>1 DEF TypeOK, JobStates
      <3>3. Sid' = Sid /\ Total(Sid)' = Total(Sid)
        BY <1>1 DEF Sid, Total
      <3>4. JobInv'
        BY <1>1, <2>5, <2>6, <3>1, <3>3 DEF JobInv
      <3> QED BY <1>1, <2>6, <3>2, <3>4, CardsFrame, RowsFrame, ShapeFrame
    <2>7. CASE Return0
      <3>1. /\ HeldInv' /\ done \subseteq done' /\ done' \subseteq 1..Len(splits)
            /\ held' \subseteq File \ {NoCard}
        BY <1>1, <2>5, <2>7, ReturnStep
      <3>2. job' = IdleJob
        BY <2>7 DEF Return0
      <3>3. TypeOK'
        BY <1>1, <1>2, <3>1, <3>2 DEF TypeOK, JobStates
      <3> QED BY <1>1, <3>1, <3>2, <3>3, RowsFrame, ShapeFrame, IdleFrame
    <2> QED BY <1>3, <1>4, <2>6, <2>7 DEF SplitCheck
  <1> QED BY <1>3, <1>4 DEF SplitCheck

\* The record of the split replaces the one of the repository's earlier split.
LEMMA RecordStep == ASSUME IInv, NEW reachable \in BOOLEAN, SplitRecord(reachable) PROVE IInv'
  <1> USE DEF IInv
  <1> DEFINE E == [sid : 0..MaxSplits, shape : (0..MaxCards) \X (0..MaxCards)]
             row == Row(Sid, splits[Sid].shape)
  <1>1. /\ UNCHANGED <<conf, pwfile, opens, repos, dir, splits, edits>>
        /\ job.pc = "record" /\ job # IdleJob /\ Return0 /\ job' = IdleJob
    BY DEF SplitRecord, ownerVars, IdleJob, Return0
  <1>2. IdleJob \in JobStates
    BY KeyAssumption DEF IdleJob, JobStates
  <1>3. \A j \in 1..Total(Sid) : dir[job.n][j].card = Card(Sid, j, TRUE)
    BY <1>1 DEF JobInv
  <1>4. /\ HeldInv' /\ done \subseteq done' /\ Sid \in done' /\ done' \subseteq 1..Len(splits)
        /\ held' \subseteq File \ {NoCard}
    BY <1>1, <1>3, ReturnStep
  <1>5. /\ job.n \in Names /\ splits[Sid].n = job.n /\ Sid \in 1..MaxSplits /\ MaxSplits \in Nat
        /\ Sid \in 1..Len(splits)
    BY <1>1, JobFacts
  <1>6. row \in E /\ NoRow \in E
    <2>1. splits[Sid].shape \in (0..MaxCards) \X (0..MaxCards)
      BY <1>5, TotalRange
    <2>2. row \in E
      BY <1>5, <2>1 DEF Row
    <2>3. NoRow \in E
      BY KeyAssumption DEF NoRow, Row
    <2> QED BY <2>2, <2>3
  <1>7. escrow \in [RepoIds \cup Names -> E]
    BY DEF TypeOK
  <1>8. CASE escrow' = escrow
    <2>1. TypeOK'
      BY <1>1, <1>2, <1>4, <1>8 DEF TypeOK, JobStates
    <2> QED BY <1>1, <1>4, <1>8, <2>1, RowsFrame, ShapeFrame, IdleFrame
  <1>9. CASE escrow' = RecordedByName(job.n)
    <2>1. /\ escrow' \in [RepoIds \cup Names -> E]
          /\ \A x \in RepoIds \cup Names :
                 escrow'[x] = IF x \in Named(job.n) THEN row ELSE IF x = job.n THEN NoRow ELSE escrow[x]
      <3>1. escrow' = [x \in RepoIds \cup Names |->
                          IF x \in Named(job.n) THEN row ELSE IF x = job.n THEN NoRow ELSE escrow[x]]
        BY <1>7, <1>9 DEF RecordedByName
      <3> HIDE DEF E, row
      <3> QED BY <1>6, <1>7, <3>1
    <2>2. TypeOK'
      BY <1>1, <1>2, <1>4, <2>1 DEF TypeOK, JobStates
    <2>3. \A x : Named(x)' = Named(x)
      BY <1>1 DEF Named
    <2>4. RowsAreSplits'
      <3> SUFFICES ASSUME NEW x \in RepoIds \cup Names, escrow'[x] # NoRow
                   PROVE  /\ escrow'[x].sid \in done'
                          /\ escrow'[x].shape = splits[escrow'[x].sid].shape
                          /\ IF x \in RepoIds
                             THEN repos[x] # NoRepo /\ splits[escrow'[x].sid].n = repos[x].name
                             ELSE Named(x) # {} /\ splits[escrow'[x].sid].n = x
        BY <1>1, <2>1, <2>3 DEF RowsAreSplits
      <3>1. CASE x \in Named(job.n)
        <4>1. escrow'[x] = row /\ row.sid = Sid /\ row.shape = splits[Sid].shape
          BY <2>1, <3>1 DEF Row
        <4>2. x \in RepoIds /\ repos[x] # NoRepo /\ repos[x].name = job.n
          BY <3>1 DEF Named
        <4> HIDE DEF row
        <4> QED BY <1>4, <1>5, <4>1, <4>2
      <3>2. CASE x \notin Named(job.n)
        <4>1. escrow'[x] = escrow[x] /\ x \in DOMAIN escrow
          BY <1>7, <2>1, <3>2
        <4> QED BY <1>4, <4>1 DEF RowsAreSplits
      <3> QED BY <3>1, <3>2
    <2> QED BY <1>1, <1>4, <2>2, <2>4, ShapeFrame, IdleFrame
  <1> QED BY <1>8, <1>9 DEF SplitRecord

\* The invariant is inductive.
LEMMA KeyInductive == Spec => []IInv
  <1>1. IInv /\ [Next]_vars => IInv'
    <2> SUFFICES ASSUME IInv, [Next]_vars PROVE IInv'
      OBVIOUS
    <2>1. CASE \E n \in Names, c, v, u \in BOOLEAN, s \in Shapes : SplitBegin(n, c, v, u, s)
      BY <2>1, BeginStep
    <2>2. CASE \E b \in BOOLEAN : SplitCard(b) \/ SplitRecord(b)
      BY <2>2, CardStep, RecordStep
    <2>3. CASE SplitShare \/ SplitCheck \/ SplitDie
      BY <2>3, ShareStep, CheckStep, DieStep
    <2>4. CASE \E r \in RepoIds : RepoRemove(r) \/ \E n \in Names, k \in ConfKeys : RepoAdd(r, n, k)
      BY <2>4, RepoRemoveStep, RepoAddStep
    <2>5. CASE (\E k \in ConfKeys : EditConf(k)) \/ (\E k \in Keys : EditPassword(k))
      BY <2>5, EditStep DEF ConfKeys
    <2>6. CASE \E n \in Names, i \in 1..MaxCards : TakeFiles(n, i)
      BY <2>6, TakeStep
    <2>7. CASE UNCHANGED vars
      <3>1. UNCHANGED <<conf, pwfile, opens, repos, escrow, dir, splits, job, done, held, edits>>
        BY <2>7 DEF vars
      <3>2. TypeOK'
        BY <3>1 DEF TypeOK, IInv
      <3> QED BY <3>1, <3>2, CardsFrame, RowsFrame, ShapeFrame, JobFrame DEF IInv
    <2> QED BY <2>1, <2>2, <2>3, <2>4, <2>5, <2>6, <2>7 DEF Next
  <1> QED BY <1>1, KeyInit, PTL DEF Spec

-----------------------------------------------------------------------------
(* The theorems.                                                           *)

\* Every reachable state is of the declared types: a card file is a card of a
\* split that was begun, and what the holders have never is an empty file.
THEOREM KeyTypeCorrect == Spec => []TypeOK
  <1>1. IInv => TypeOK
    BY DEF IInv
  <1> QED BY <1>1, KeyInductive, PTL

\* From any K of the N cards of a `key split' that returned 0 the password
\* comes back, for every shape, however the writes went short, whatever files
\* were in the way, wherever earlier commands died.
THEOREM AnyKCardsRecover == Spec => []CardsRecover
  <1>1. IInv => CardsRecover
    <2> SUFFICES ASSUME IInv, NEW sid \in done
                 PROVE  LET mine == {c \in held : c.sid = sid}
                        IN  /\ {c.i : c \in mine} = 1..splits[sid].shape[2]
                            /\ \A S \in SUBSET mine : Cardinality(S) >= splits[sid].shape[1] =>
                                   Combine(S) = splits[sid].pw
      BY DEF CardsRecover
    <2> DEFINE mine == {c \in held : c.sid = sid}
               all == {Card(sid, i, TRUE) : i \in 1..Total(sid)}
    <2>1. mine = all
      BY DEF IInv, HeldInv
    <2>2. sid \in 1..Len(splits)
      BY DEF IInv, TypeOK
    <2>3. Total(sid) \in Nat /\ splits[sid].shape[1] \in Nat /\ splits[sid].shape[1] >= 1
      BY <2>2, TotalRange, KeyAssumption DEF IInv
    <2>4. {c.i : c \in all} = 1..Total(sid)
      <3>1. \A c \in all : c.i \in 1..Total(sid)
        BY DEF Card
      <3>2. \A i \in 1..Total(sid) : Card(sid, i, TRUE) \in all /\ Card(sid, i, TRUE).i = i
        BY DEF Card
      <3> QED BY <3>1, <3>2
    <2>5. ASSUME NEW S \in SUBSET all, Cardinality(S) >= splits[sid].shape[1]
          PROVE  Combine(S) = splits[sid].pw
      BY <2>3, <2>5, WholeCardsCombine
    <2> HIDE DEF mine, all
    <2>6. {c.i : c \in mine} = 1..splits[sid].shape[2]
      BY <2>1, <2>4 DEF Total
    <2>7. \A S \in SUBSET mine : Cardinality(S) >= splits[sid].shape[1] => Combine(S) = splits[sid].pw
      BY <2>1, <2>5
    <2> QED BY <2>6, <2>7 DEF mine
  <1> QED BY <1>1, KeyInductive, PTL

\* A recorded split returned 0, has the K and N recorded, and stands under a
\* repository of its name that is still there.
THEOREM RecordsAreOfSplits == Spec => []RowsAreSplits
  <1>1. IInv => RowsAreSplits
    BY DEF IInv
  <1> QED BY <1>1, KeyInductive, PTL

\* A disc that passes the drift check names, for each repository whose config
\* key is its own, the K and N of its record, or no split when it has none.
THEOREM StagedDiscTellsTruth == Spec => []DiscTellsTruth
  <1>1. IInv => DiscTellsTruth
    <2> SUFFICES ASSUME IInv, NEW on \in SUBSET {r \in RepoIds : repos[r] # NoRepo}, ~Drift(on),
                        NEW r \in on, repos[r].key # Defaults, Joined(repos[r].key) = {r}
                 PROVE  Texts(repos[r].key, on) = {get_split_for_repo(r).shape}
      BY DEF DiscTellsTruth
    <2> DEFINE k == repos[r].key
               row == get_split_for_repo(r)
    <2>1. k \in ConfKeys
      BY DEF IInv, TypeOK
    <2>2. IF conf[k].split THEN row.shape = conf[k].shape ELSE row = NoRow
      BY DEF Drift
    <2>3. conf[k].shape # NoRow.shape
      BY <2>1 DEF IInv, ShapeInv, CanSplit, NoRow, Row
    <2>4. CASE ~conf[k].split
      <3>1. Texts(k, on) = {NoRow.shape}
        BY <2>4 DEF Texts
      <3> QED BY <2>2, <2>4, <3>1
    <2>5. CASE conf[k].split
      <3>1. row # NoRow
        BY <2>2, <2>3, <2>5
      <3>2. RecordedShapes(k) = {row.shape}
        BY <3>1 DEF RecordedShapes
      <3>3. Texts(k, on) = RecordedShapes(k)
        BY <2>5, <3>2 DEF Texts
      <3> QED BY <3>2, <3>3
    <2> QED BY <2>4, <2>5
  <1> QED BY <1>1, KeyInductive, PTL
=============================================================================
