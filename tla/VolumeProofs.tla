---------------------------- MODULE VolumeProofs -----------------------------
(***************************************************************************)
(* Proofs about how volumes come to be.  BinPack: the plan is a partition  *)
(* of what was asked for, no volume is over-full, no room is wasted, the   *)
(* announced number of volumes is near the one used, a refusal has a       *)
(* cause, and the algorithm implements BinPlan, for all packs, sizes and   *)
(* media.  SplitBurn: receipts may be late, duplicated, reordered or lost, *)
(* for any number of volumes, locations and receipts.                      *)
(***************************************************************************)
EXTENDS BinPack, SplitBurn, SequenceTheorems, FiniteSetTheorems, WellFoundedInduction, TLAPS

-----------------------------------------------------------------------------
(* Sums over sets of packs                                                 *)

\* Induction over the subsets of a finite set: G has every set all of whose
\* proper subsets it has.
LEMMA SubsetInduction ==
    ASSUME NEW S, IsFiniteSet(S), NEW G,
           \A T \in SUBSET S : (\A U \in SUBSET T : U # T => U \in G) => T \in G
    PROVE  \A T \in SUBSET S : T \in G
<1> DEFINE R == StrictSubsetOrdering(S)
           B == {T \in SUBSET S : T \notin G}
<1>1. IsWellFoundedOn(R, SUBSET S)
  BY FS_StrictSubsetOrderingWellFounded, FS_FiniteSubsetsOfFinite
<1>2. SUFFICES ASSUME B # {} PROVE FALSE
  OBVIOUS
<1>3. PICK T \in B : \A U \in B : ~(<<U, T>> \in R)
  <2>1. B \subseteq SUBSET S
    OBVIOUS
  <2> HIDE DEF B, R
  <2> QED
    BY <1>1, <1>2, <2>1, WFMin
<1>4. \A U \in SUBSET T : U # T => U \in G
  BY <1>3 DEF StrictSubsetOrdering
<1> QED
  BY <1>3, <1>4

\* The pack a sum takes next, the sum of s by the sums of smaller sets, and
\* the functions that obey it on all subsets of S.
Pick(s) == CHOOSE x \in s : TRUE

SumStep(z, g, s) == IF s = {} THEN 0 ELSE z[Pick(s)] + g[s \ {Pick(s)}]

Sums(z, g, S) == g = [s \in SUBSET S |-> SumStep(z, g, s)]

\* Two functions that sum agree where both are defined.
LEMMA SumsAgree ==
    ASSUME NEW z, NEW S, IsFiniteSet(S), NEW T, NEW U, S \subseteq T, S \subseteq U,
           NEW f, NEW g, Sums(z, f, T), Sums(z, g, U)
    PROVE  f[S] = g[S]
<1> DEFINE G == {V \in SUBSET S : f[V] = g[V]}
<1>1. ASSUME NEW V \in SUBSET S, \A W \in SUBSET V : W # V => W \in G
      PROVE  V \in G
  <2>1. f[V] = SumStep(z, f, V) /\ g[V] = SumStep(z, g, V)
    BY DEF Sums
  <2>2. CASE V = {}
    BY <2>1, <2>2 DEF SumStep
  <2>3. CASE V # {}
    <3>1. V \ {Pick(V)} \in G
      BY <1>1, <2>3 DEF Pick
    <3> QED
      BY <2>1, <2>3, <3>1 DEF SumStep
  <2> QED
    BY <2>2, <2>3
<1>2. \A V \in SUBSET S : V \in G
  <2> HIDE DEF G
  <2> QED
    BY <1>1, SubsetInduction
<1> QED
  BY <1>2

\* There is a function that sums over the subsets of a finite set.
LEMMA SumsExist ==
    ASSUME NEW z, NEW S, IsFiniteSet(S)
    PROVE  \E g : Sums(z, g, S)
<1> DEFINE G == {T \in SUBSET S : \E g : Sums(z, g, T)}
           Sol(T) == CHOOSE g : Sums(z, g, T)
<1>1. ASSUME NEW T \in SUBSET S, \A U \in SUBSET T : U # T => U \in G
      PROVE  T \in G
  <2>1. \A U \in SUBSET T : U # T => Sums(z, Sol(U), U)
    BY <1>1, Zenon
  <2> DEFINE g == [s \in SUBSET T |->
                      IF s = {} THEN 0 ELSE z[Pick(s)] + Sol(s \ {Pick(s)})[s \ {Pick(s)}]]
  <2>2. ASSUME NEW s \in SUBSET T, s # {}
        PROVE  g[s \ {Pick(s)}] = Sol(s \ {Pick(s)})[s \ {Pick(s)}]
    <3> DEFINE r == s \ {Pick(s)}
    <3>1. r \in SUBSET T /\ r # T /\ IsFiniteSet(r)
      <4>1. Pick(s) \in s
        BY <2>2 DEF Pick
      <4>2. r \in SUBSET S
        OBVIOUS
      <4> QED
        BY <4>1, <4>2, FS_Subset
    <3>2. Sums(z, Sol(r), r)
      BY <2>1, <3>1
    <3>3. Sol(r)[r] = SumStep(z, Sol(r), r)
      <4> HIDE DEF Sol
      <4> QED
        BY <3>2 DEF Sums
    <3>4. CASE r = {}
      BY <3>1, <3>3, <3>4 DEF SumStep
    <3>5. CASE r # {}
      <4> DEFINE q == r \ {Pick(r)}
      <4>1. q \in SUBSET r /\ q # r /\ q \in SUBSET T /\ q # T /\ IsFiniteSet(q)
        <5>1. Pick(r) \in r
          BY <3>5 DEF Pick
        <5>2. q \in SUBSET r
          OBVIOUS
        <5> QED
          BY <3>1, <5>1, <5>2, FS_Subset
      <4>2. Sums(z, Sol(q), q)
        BY <2>1, <4>1
      <4>3. Sol(q)[q] = Sol(r)[q]
        <5> HIDE DEF Sol, q, r
        <5> QED
          BY <3>2, <4>1, <4>2, SumsAgree
      <4>4. g[r] = z[Pick(r)] + Sol(q)[q]
        BY <3>1, <3>5
      <4> HIDE DEF g, Sol
      <4> QED
        BY <3>3, <3>5, <4>3, <4>4 DEF SumStep
    <3> QED
      BY <3>4, <3>5
  <2>3. \A s \in SUBSET T : g[s] = SumStep(z, g, s)
    <3> SUFFICES ASSUME NEW s \in SUBSET T PROVE g[s] = SumStep(z, g, s)
      OBVIOUS
    <3>1. g[s] = IF s = {} THEN 0 ELSE z[Pick(s)] + Sol(s \ {Pick(s)})[s \ {Pick(s)}]
      OBVIOUS
    <3> HIDE DEF g
    <3> QED
      BY <2>2, <3>1 DEF SumStep
  <2>4. Sums(z, g, T)
    <3>1. g = [s \in SUBSET T |-> g[s]]
      OBVIOUS
    <3> HIDE DEF g
    <3> QED
      BY <2>3, <3>1 DEF Sums
  <2> HIDE DEF g
  <2> QED
    BY <2>4
<1>2. \A T \in SUBSET S : T \in G
  <2> HIDE DEF G
  <2> QED
    BY <1>1, SubsetInduction
<1> QED
  BY <1>2

\* TotalOf is such a function's value.
LEMMA TotalOfIsSum ==
    ASSUME NEW z, NEW S, IsFiniteSet(S)
    PROVE  \E g : Sums(z, g, S) /\ TotalOf(z, S) = g[S]
<1> DEFINE it == CHOOSE g : g = [s \in SUBSET S |-> SumStep(z, g, s)]
<1>1. TotalOf(z, S) = it[S]
  BY DEF TotalOf, MapThenSumSet, MapThenFoldSet, SumStep, Pick
<1>2. \E g : g = [s \in SUBSET S |-> SumStep(z, g, s)]
  BY SumsExist DEF Sums
<1>3. it = [s \in SUBSET S |-> SumStep(z, it, s)]
  BY <1>2, Zenon
<1> HIDE DEF it
<1> QED
  BY <1>1, <1>3 DEF Sums

\* A sum begins with some pack.
LEMMA TotalOfStep ==
    ASSUME NEW z, NEW S, IsFiniteSet(S)
    PROVE  /\ TotalOf(z, {}) = 0
           /\ S # {} => TotalOf(z, S) = z[Pick(S)] + TotalOf(z, S \ {Pick(S)})
<1>1. TotalOf(z, {}) = 0
  <2>1. PICK g : Sums(z, g, {}) /\ TotalOf(z, {}) = g[{}]
    BY TotalOfIsSum, FS_EmptySet
  <2> QED
    BY <2>1 DEF Sums, SumStep
<1>2. ASSUME S # {} PROVE TotalOf(z, S) = z[Pick(S)] + TotalOf(z, S \ {Pick(S)})
  <2> DEFINE r == S \ {Pick(S)}
  <2>1. r \in SUBSET S /\ IsFiniteSet(r)
    BY FS_Subset
  <2>2. PICK f : Sums(z, f, S) /\ TotalOf(z, S) = f[S]
    BY TotalOfIsSum
  <2>3. PICK g : Sums(z, g, r) /\ TotalOf(z, r) = g[r]
    BY <2>1, TotalOfIsSum
  <2>4. f[r] = g[r]
    <3> HIDE DEF r
    <3> QED
      BY <2>1, <2>2, <2>3, SumsAgree
  <2>5. f[S] = z[Pick(S)] + f[r]
    BY <1>2, <2>2 DEF Sums, SumStep
  <2> QED
    BY <2>2, <2>3, <2>4, <2>5
<1> QED
  BY <1>1, <1>2

\* A sum is a number and takes its packs in any order.
LEMMA TotalOfRemove ==
    ASSUME NEW P, IsFiniteSet(P), NEW z \in [P -> Nat]
    PROVE  \A T \in SUBSET P :
              TotalOf(z, T) \in Nat /\ \A y \in T : TotalOf(z, T) = z[y] + TotalOf(z, T \ {y})
<1> DEFINE G == {T \in SUBSET P : /\ TotalOf(z, T) \in Nat
                                  /\ \A y \in T : TotalOf(z, T) = z[y] + TotalOf(z, T \ {y})}
<1>1. ASSUME NEW T \in SUBSET P, \A U \in SUBSET T : U # T => U \in G
      PROVE  T \in G
  <2>1. CASE T = {}
    <3>1. TotalOf(z, T) = 0
      BY <2>1, TotalOfStep, FS_EmptySet
    <3>2. \A y \in T : TotalOf(z, T) = z[y] + TotalOf(z, T \ {y})
      BY <2>1
    <3> QED
      BY <3>1, <3>2
  <2>2. CASE T # {}
    <3> DEFINE x == Pick(T)
    <3>1. x \in T /\ z[x] \in Nat
      BY <2>2 DEF Pick
    <3>2. IsFiniteSet(T)
      BY FS_Subset
    <3>3. TotalOf(z, T) = z[x] + TotalOf(z, T \ {x})
      BY <2>2, <3>2, TotalOfStep
    <3> HIDE DEF x
    <3>4. T \ {x} \in G
      BY <1>1, <3>1
    <3>5. TotalOf(z, T \ {x}) \in Nat
      BY <3>4
    <3>6. TotalOf(z, T) \in Nat
      BY <3>1, <3>3, <3>5
    <3>7. ASSUME NEW y \in T PROVE TotalOf(z, T) = z[y] + TotalOf(z, T \ {y})
      <4>1. CASE y = x
        BY <3>3, <4>1
      <4>2. CASE y # x
        <5> DEFINE rest == T \ {x, y}
        <5>1. TotalOf(z, T \ {x}) = z[y] + TotalOf(z, (T \ {x}) \ {y})
          BY <3>4, <4>2
        <5>2. T \ {y} \in G
          BY <1>1
        <5>3. TotalOf(z, T \ {y}) = z[x] + TotalOf(z, (T \ {y}) \ {x})
          BY <3>1, <4>2, <5>2
        <5>4. (T \ {x}) \ {y} = rest /\ (T \ {y}) \ {x} = rest
          OBVIOUS
        <5>5. rest \in G
          BY <1>1
        <5>6. TotalOf(z, rest) \in Nat /\ z[y] \in Nat
          BY <5>5
        <5> HIDE DEF rest, G
        <5> QED
          BY <3>1, <3>3, <5>1, <5>3, <5>4, <5>6
      <4> QED
        BY <4>1, <4>2
    <3> QED
      BY <3>6, <3>7
  <2> QED
    BY <2>1, <2>2
<1>2. \A T \in SUBSET P : T \in G
  <2> HIDE DEF G
  <2> QED
    BY <1>1, SubsetInduction
<1> QED
  BY <1>2

\* The sum over two sets without a common pack is the sum of their sums.
LEMMA TotalOfUnion ==
    ASSUME NEW P, IsFiniteSet(P), NEW z \in [P -> Nat],
           NEW A \in SUBSET P, NEW B \in SUBSET P, A \cap B = {}
    PROVE  TotalOf(z, A \cup B) = TotalOf(z, A) + TotalOf(z, B)
<1> DEFINE G == {T \in SUBSET A : TotalOf(z, T \cup B) = TotalOf(z, T) + TotalOf(z, B)}
<1>1. ASSUME NEW T \in SUBSET A, \A U \in SUBSET T : U # T => U \in G
      PROVE  T \in G
  <2>1. TotalOf(z, B) \in Nat
    BY TotalOfRemove
  <2>2. CASE T = {}
    BY <2>1, <2>2, TotalOfStep, FS_EmptySet
  <2>3. CASE T # {}
    <3>1. PICK y \in T : TRUE
      BY <2>3
    <3>2. T \ {y} \in G
      BY <1>1
    <3>3. TotalOf(z, (T \ {y}) \cup B) = TotalOf(z, T \ {y}) + TotalOf(z, B)
      BY <3>2
    <3>4. (T \cup B) \ {y} = (T \ {y}) \cup B /\ y \in T \cup B
      OBVIOUS
    <3>5. TotalOf(z, T \cup B) = z[y] + TotalOf(z, (T \cup B) \ {y})
      BY <3>4, TotalOfRemove
    <3>6. TotalOf(z, T) = z[y] + TotalOf(z, T \ {y})
      BY TotalOfRemove
    <3>7. TotalOf(z, T \ {y}) \in Nat /\ z[y] \in Nat
      <4>1. T \ {y} \in SUBSET P /\ y \in P
        OBVIOUS
      <4> QED
        BY <4>1, TotalOfRemove
    <3>8. TotalOf(z, T \cup B) = TotalOf(z, T) + TotalOf(z, B)
      <4> DEFINE b == TotalOf(z, B)
                 r == TotalOf(z, T \ {y})
                 w == z[y]
      <4>1. b \in Nat /\ r \in Nat /\ w \in Nat
        BY <2>1, <3>7
      <4>2. TotalOf(z, T \cup B) = w + (r + b)
        BY <3>3, <3>4, <3>5
      <4>3. TotalOf(z, T) + b = (w + r) + b
        BY <3>6
      <4> HIDE DEF G, b, r, w
      <4>4. w + (r + b) = (w + r) + b
        BY <4>1
      <4> QED
        BY <4>2, <4>3, <4>4 DEF b
    <3> QED
      BY <3>8
  <2> QED
    BY <2>2, <2>3
<1>2. \A T \in SUBSET A : T \in G
  <2>1. IsFiniteSet(A)
    BY FS_Subset
  <2> HIDE DEF G
  <2> QED
    BY <1>1, <2>1, SubsetInduction
<1> QED
  BY <1>2

-----------------------------------------------------------------------------
(* BinPack                                                                 *)

\* The room on a medium is an integer, possibly negative.
LEMMA UsableType ==
    ASSUME NEW c \in Capacities, NEW e \in EccPercents, NEW r \in Reserves
    PROVE  usable_bytes(c, e) - r \in Int
<1>1. c \in Nat /\ e \in 0..100 /\ r \in Nat
  BY BinPackAssumption
<1>2. c * (100 - e) \in Int
  BY <1>1
<1> QED
  BY <1>1, <1>2 DEF usable_bytes

\* The initial states satisfy the inductive invariant.
LEMMA BinInit == Init => BinInv
<1> SUFFICES ASSUME Init PROVE BinInv
  OBVIOUS
<1>1. size \in [Packs -> Nat]
  BY BinPackAssumption DEF Init
<1>2. usable \in Int
  BY UsableType DEF Init
<1>3. TypeOK
  BY <1>1, <1>2 DEF Init, TypeOK
<1>4. Len(plans) = 0
  BY DEF Init
<1> QED
  BY <1>3, <1>4 DEF Init, BinInv, PassInv, OuterInv, PlansPartition, PlansFit,
     NoRoomWasted, RefusedForCause

\* What appending a plan does to the sequence of plans.
LEMMA AppendPlan ==
    ASSUME NEW s \in Seq(Plan), NEW e \in Plan
    PROVE  /\ Append(s, e) \in Seq(Plan)
           /\ Len(Append(s, e)) = Len(s) + 1
           /\ \A i \in 1..Len(s) : Append(s, e)[i] = s[i]
           /\ Append(s, e)[Len(s) + 1] = e
OBVIOUS

\* Sums of packs are numbers, and add up.
LEMMA TotalFacts ==
    ASSUME TypeOK
    PROVE  /\ Total({}) = 0
           /\ \A A \in SUBSET Packs : Total(A) \in Nat
           /\ \A A, B \in SUBSET Packs : A \cap B = {} => Total(A \cup B) = Total(A) + Total(B)
           /\ \A A \in SUBSET Packs : \A p \in A : size[p] <= Total(A)
<1>1. IsFiniteSet(Packs) /\ size \in [Packs -> Nat]
  BY BinPackAssumption DEF TypeOK
<1>2. TotalOf(size, {}) = 0
  BY TotalOfStep, FS_EmptySet
<1>3. \A A \in SUBSET Packs : TotalOf(size, A) \in Nat
  BY <1>1, TotalOfRemove
<1>4. \A A, B \in SUBSET Packs : A \cap B = {} =>
         TotalOf(size, A \cup B) = TotalOf(size, A) + TotalOf(size, B)
  BY <1>1, TotalOfUnion
<1>5. ASSUME NEW A \in SUBSET Packs, NEW p \in A PROVE size[p] <= TotalOf(size, A)
  <2>1. TotalOf(size, A) = size[p] + TotalOf(size, A \ {p})
    BY <1>1, TotalOfRemove
  <2>2. A \ {p} \in SUBSET Packs
    OBVIOUS
  <2>3. TotalOf(size, A \ {p}) \in Nat /\ size[p] \in Nat
    BY <1>1, <1>3, <2>2
  <2> QED
    BY <2>1, <2>3
<1> QED
  BY <1>2, <1>3, <1>4, <1>5 DEF Total

\* One more pack adds its size.
LEMMA TotalOneMore ==
    ASSUME TypeOK, NEW A \in SUBSET Packs, NEW p \in Packs, p \notin A
    PROVE  Total(A \cup {p}) = Total(A) + size[p]
<1>1. size[p] \in Nat /\ {p} \in SUBSET Packs /\ A \cap {p} = {}
  BY DEF TypeOK
<1>2. Total(A \cup {p}) = Total(A) + Total({p})
  BY <1>1, TotalFacts
<1>3. TotalOf(size, {p}) = size[p] + TotalOf(size, {p} \ {p})
  <2>1. IsFiniteSet(Packs) /\ size \in [Packs -> Nat] /\ {p} \in SUBSET Packs /\ p \in {p}
    BY BinPackAssumption DEF TypeOK
  <2> QED
    BY <2>1, TotalOfRemove
<1>4. {p} \ {p} = {} /\ Total({}) = 0
  BY TotalFacts
<1>5. Total({p}) = size[p]
  BY <1>1, <1>3, <1>4 DEF Total
<1> QED
  BY <1>2, <1>5

\* Every step keeps the inductive invariant.
LEMMA BinStep == BinInv /\ [Next]_vars => BinInv'
<1> SUFFICES ASSUME BinInv, [Next]_vars PROVE BinInv'
  OBVIOUS
<1> USE DEF BinInv
<1>1. CASE BeginPass
  <2>1. TypeOK'
    BY <1>1 DEF BeginPass, TypeOK, input
  <2>2. PassInv'
    <3>1. usable \in Int /\ fill' = 0 /\ bin' = {} /\ remaining' = remaining /\ remaining # {}
      BY <1>1 DEF BeginPass, TypeOK
    <3>2. queue' = (IF usable <= 0 THEN {} ELSE remaining) /\ UNCHANGED input
      BY <1>1 DEF BeginPass
    <3>3. Total(bin)' = 0
      BY <3>1, <3>2, TotalFacts DEF input, Total
    <3> QED
      BY <3>1, <3>2, <3>3 DEF PassInv, input
  <2>3. (OuterInv /\ PlansPartition /\ PlansFit /\ NoRoomWasted /\ RefusedForCause)'
    BY <1>1 DEF BeginPass, OuterInv, PlansPartition, PlansFit, NoRoomWasted, RefusedForCause, input
  <2> QED
    BY <2>1, <2>2, <2>3
<1>2. ASSUME NEW p \in Packs, Consider(p) PROVE BinInv'
  <2>1. size[p] \in Nat /\ fill \in Nat /\ usable \in Int
    BY DEF TypeOK
  <2>2. TypeOK'
    BY <1>2, <2>1 DEF Consider, TypeOK, input
  <2>3. PassInv'
    <3>1. pc = "fit" /\ p \in queue /\ queue' = queue \ {p}
      BY <1>2 DEF Consider
    <3>2. usable > 0 /\ fill <= usable
      BY <2>1, <3>1 DEF PassInv
    <3>3. CASE fill + size[p] <= usable
      <4>1. bin' = bin \cup {p} /\ fill' = fill + size[p]
        BY <1>2, <3>3 DEF Consider
      <4>2. \A q \in remaining \ (queue' \cup bin') : fill' + size[q] > usable
        <5> SUFFICES ASSUME NEW q \in remaining \ (queue' \cup bin') PROVE fill' + size[q] > usable
          OBVIOUS
        <5>1. q \in remaining \ (queue \cup bin) /\ size[q] \in Nat
          BY <3>1, <4>1 DEF TypeOK
        <5>2. fill + size[q] > usable
          BY <3>1, <3>2, <5>1 DEF PassInv
        <5> QED
          BY <2>1, <4>1, <5>1, <5>2
      <4>3. \A q \in bin' : size[q] <= fill'
        <5> SUFFICES ASSUME NEW q \in bin PROVE size[q] <= fill + size[p]
          BY <2>1, <4>1
        <5>1. size[q] \in Nat /\ size[q] <= fill
          BY <3>1 DEF PassInv, TypeOK
        <5> QED
          BY <2>1, <5>1
      <4>4. (fill = Total(bin))'
        <5>1. fill = Total(bin) /\ p \notin bin /\ bin \in SUBSET Packs
          BY <3>1 DEF PassInv, TypeOK
        <5>2. Total(bin \cup {p}) = fill + size[p]
          BY <5>1, TotalOneMore
        <5> QED
          BY <1>2, <4>1, <5>2 DEF Total, Consider, input
      <4> QED
        BY <1>2, <2>1, <3>1, <3>2, <3>3, <4>1, <4>2, <4>3, <4>4 DEF Consider, PassInv, input
    <3>4. CASE ~(fill + size[p] <= usable)
      <4>1. bin' = bin /\ fill' = fill
        BY <1>2, <3>4 DEF Consider
      <4>2. \A q \in remaining \ (queue' \cup bin') : fill' + size[q] > usable
        BY <2>1, <3>1, <3>2, <3>4, <4>1 DEF PassInv
      <4>3. (fill = Total(bin))'
        BY <1>2, <3>1, <4>1 DEF PassInv, Total, Consider, input
      <4> QED
        BY <1>2, <2>1, <3>1, <3>2, <3>4, <4>1, <4>2, <4>3 DEF Consider, PassInv, input
    <3> QED
      BY <3>3, <3>4
  <2>4. (OuterInv /\ PlansPartition /\ PlansFit /\ NoRoomWasted /\ RefusedForCause)'
    BY <1>2 DEF Consider, OuterInv, PlansPartition, PlansFit, NoRoomWasted, RefusedForCause, input
  <2> QED
    BY <2>2, <2>3, <2>4
<1>3. CASE CloseBin
  <2> DEFINE e == [packs |-> bin, bytes |-> fill]
             n == Len(plans) + 1
  <2>0. plans' = Append(plans, [packs |-> bin, bytes |-> Total(bin)]) /\ fill = Total(bin)
    BY <1>3 DEF CloseBin, PassInv
  <2>1. e \in Plan /\ plans \in Seq(Plan) /\ plans' = Append(plans, e)
    BY <2>0 DEF TypeOK, Plan
  <2>2. /\ plans' \in Seq(Plan)
        /\ Len(plans') = n
        /\ \A i \in 1..Len(plans) : plans'[i] = plans[i]
        /\ plans'[n] = e
        /\ Len(plans) \in Nat
    BY <2>1, AppendPlan
  <2>3. /\ pc = "fit" /\ queue = {} /\ bin # {} /\ bin \subseteq remaining
        /\ remaining' = remaining \ bin /\ pc' = "loop"
        /\ usable > 0 /\ fill <= usable
        /\ UNCHANGED <<size, usable, asked, queue, bin, fill>>
    BY <1>3 DEF CloseBin, PassInv, input, TypeOK
  <2>4. \A i \in 1..Len(plans') : i = n \/ i \in 1..Len(plans)
    BY <2>2
  <2>5. \A p \in remaining' : fill + size[p] > usable
    BY <2>3 DEF PassInv
  <2>6. \A p \in bin : size[p] <= usable
    <3> SUFFICES ASSUME NEW p \in bin PROVE size[p] <= usable
      OBVIOUS
    <3>1. size[p] \in Nat /\ fill \in Nat /\ usable \in Int
      BY DEF TypeOK
    <3>2. size[p] <= fill
      BY <2>3 DEF PassInv
    <3> QED
      BY <2>3, <3>1, <3>2
  <2>7. TypeOK'
    BY <2>2, <2>3 DEF TypeOK
  <2>8. (PassInv /\ RefusedForCause)'
    BY <2>3 DEF PassInv, RefusedForCause
  <2>9. OuterInv'
    BY <2>2, <2>3, <2>4, <2>6 DEF OuterInv
  <2>10. PlansPartition'
    <3>1. \A i \in 1..Len(plans') : plans'[i].packs # {} /\ plans'[i].packs \subseteq asked
      BY <2>2, <2>3, <2>4 DEF PlansPartition, OuterInv
    <3>2. \A i \in 1..Len(plans') : plans'[i].packs \cap remaining' = {}
      BY <2>2, <2>3, <2>4 DEF PlansPartition
    <3>3. \A i \in 1..Len(plans) : plans[i].packs \cap bin = {}
      BY <2>3 DEF PlansPartition
    <3>4. \A i, j \in 1..Len(plans') : i # j => plans'[i].packs \cap plans'[j].packs = {}
      BY <2>2, <2>4, <3>3 DEF PlansPartition
    <3>5. \A p \in asked : p \in remaining' \/ \E i \in 1..Len(plans') : p \in plans'[i].packs
      <4> SUFFICES ASSUME NEW p \in asked, p \notin remaining'
                   PROVE  \E i \in 1..Len(plans') : p \in plans'[i].packs
        OBVIOUS
      <4>1. CASE p \in bin
        BY <2>2, <4>1
      <4>2. CASE p \notin remaining
        BY <2>2, <4>2 DEF PlansPartition
      <4> QED
        BY <2>3, <4>1, <4>2
    <3> QED
      BY <2>3, <3>1, <3>2, <3>4, <3>5 DEF PlansPartition
  <2>11. PlansFit'
    BY <2>2, <2>3, <2>4 DEF PlansFit
  <2>12. NoRoomWasted'
    BY <2>2, <2>3, <2>4, <2>5 DEF NoRoomWasted
  <2> QED
    BY <2>7, <2>8, <2>9, <2>10, <2>11, <2>12
<1>4. CASE Raise
  <2>1. TypeOK'
    BY <1>4 DEF Raise, TypeOK, input
  <2>2. RefusedForCause'
    BY <1>4 DEF Raise, RefusedForCause, PassInv, TypeOK, input
  <2>3. (PassInv /\ OuterInv /\ PlansPartition /\ PlansFit /\ NoRoomWasted)'
    BY <1>4 DEF Raise, PassInv, OuterInv, PlansPartition, PlansFit, NoRoomWasted, input
  <2> QED
    BY <2>1, <2>2, <2>3
<1>5. CASE Return
  <2>1. TypeOK'
    BY <1>5 DEF Return, TypeOK, input
  <2>2. RefusedForCause'
    <3>1. remaining = {} /\ pc' = "done" /\ UNCHANGED <<usable, asked, size>>
      BY <1>5 DEF Return, input
    <3>2. \A p \in asked : \E i \in 1..Len(plans) : p \in plans[i].packs
      BY <3>1 DEF PlansPartition
    <3>3. plans # << >>
      BY <3>2 DEF OuterInv
    <3> QED
      BY <3>1, <3>2, <3>3 DEF OuterInv, RefusedForCause
  <2>3. (PassInv /\ OuterInv /\ PlansPartition /\ PlansFit /\ NoRoomWasted)'
    BY <1>5 DEF Return, PassInv, OuterInv, PlansPartition, PlansFit, NoRoomWasted, input
  <2> QED
    BY <2>1, <2>2, <2>3
<1>6. CASE UNCHANGED vars
  BY <1>6 DEF vars, input, TypeOK, PassInv, OuterInv, PlansPartition, PlansFit,
     NoRoomWasted, RefusedForCause, Total
<1> QED
  BY <1>1, <1>2, <1>3, <1>4, <1>5, <1>6 DEF Next

\* The invariants of BinPack hold in every reachable state.
THEOREM BinInvariance == Spec => []BinInv
BY BinInit, BinStep, PTL DEF Spec

\* Whatever the packs and the medium, _multi_bin_pack puts every pack on
\* exactly one volume or leaves it waiting.
THEOREM PlanIsPartition == Spec => []PlansPartition
<1>1. BinInv => PlansPartition
  BY DEF BinInv
<1> QED
  BY <1>1, BinInvariance, PTL

\* No volume is planned beyond usable_bytes less the metadata reserve.
THEOREM PlanFits == Spec => []PlansFit
<1>1. BinInv => PlansFit
  BY DEF BinInv
<1> QED
  BY <1>1, BinInvariance, PTL

\* first_fit_decreasing leaves no pack for a later volume that would have
\* fitted on an earlier one.
THEOREM PlanIsTight == Spec => []NoRoomWasted
<1>1. BinInv => NoRoomWasted
  BY DEF BinInv
<1> QED
  BY <1>1, BinInvariance, PTL

\* The ValueErrors of _multi_bin_pack are raised for oversized packs or a
\* medium without room, and never otherwise.
THEOREM RefusalHasCause == Spec => []RefusedForCause
<1>1. BinInv => RefusedForCause
  BY DEF BinInv
<1> QED
  BY <1>1, BinInvariance, PTL

\* What \div answers.
LEMMA DivBounds ==
    ASSUME NEW a \in Nat, NEW b \in Nat, b > 0
    PROVE  a \div b \in Nat /\ b * (a \div b) <= a /\ a < b * (a \div b) + b
OBVIOUS

\* Multiples of a positive number are ordered as their factors.
LEMMA FactorOrder ==
    ASSUME NEW a \in Int, NEW b \in Int, NEW u \in Nat, u > 0, a * u < b * u + u
    PROVE  a <= b
<1> SUFFICES ASSUME a >= b + 1 PROVE FALSE
  OBVIOUS
<1>1. PICK d \in Nat : a = b + 1 + d
  <2>1. a - b - 1 \in Nat /\ a = b + 1 + (a - b - 1)
    OBVIOUS
  <2> QED
    BY <2>1
<1>2. a * u = b * u + u + d * u
  BY <1>1
<1>3. d * u \in Nat
  OBVIOUS
<1>4. a * u \in Int /\ b * u \in Int
  OBVIOUS
<1> QED
  BY <1>2, <1>3, <1>4

\* The greater of 1 and a number is no smaller than either.
LEMMA MaxWithOne ==
    ASSUME NEW n \in Int
    PROVE  Max({1, n}) \in Int /\ 1 <= Max({1, n}) /\ n <= Max({1, n})
<1>1. \E x \in {1, n} : \A y \in {1, n} : x >= y
  OBVIOUS
<1>2. Max({1, n}) \in {1, n} /\ \A y \in {1, n} : Max({1, n}) >= y
  BY <1>1 DEF Max
<1> QED
  BY <1>2

\* How many volumes of u bytes hold t bytes.
LEMMA EstimateFact ==
    ASSUME NEW t \in Nat, NEW u \in Nat, u > 0, NEW e \in Int,
           e = IF t <= 0 THEN 0 ELSE (t + u - 1) \div u
    PROVE  e \in Nat /\ t <= e * u /\ e * u < t + u
<1>1. CASE t = 0
  BY <1>1
<1>2. CASE t > 0
  <2> DEFINE a == t + u - 1
  <2>1. a \in Nat /\ e = a \div u
    BY <1>2
  <2>2. e \in Nat /\ u * e <= a /\ a < u * e + u
    <3> HIDE DEF a
    <3> QED
      BY <2>1, DivBounds
  <2>3. u * e = e * u /\ e * u \in Nat
    BY <2>2
  <2> QED
    BY <2>2, <2>3
<1> QED
  BY <1>1, <1>2

\* What a planned volume is.
LEMMA PlanElement ==
    ASSUME TypeOK
    PROVE  \A i \in 1..Len(plans) : plans[i].packs \in SUBSET Packs /\ plans[i].bytes \in Nat
<1>1. \A i \in 1..Len(plans) : plans[i] \in Plan
  BY ElementOfSeq DEF TypeOK
<1> QED
  BY <1>1 DEF Plan

\* At the start nothing is placed.
LEMMA SumInit == Init => SumInv
<1> SUFFICES ASSUME Init PROVE SumInv
  OBVIOUS
<1>1. BinInv
  BY BinInit
<1>2. /\ asked \ remaining = {} /\ plans = << >> /\ Len(plans) = 0 /\ pc = "loop"
      /\ asked = remaining /\ usable \in Int
  BY <1>1 DEF Init, BinInv, TypeOK
<1>3. Total(asked \ remaining) = 0
  BY <1>1, <1>2, TotalFacts DEF BinInv
<1>4. Len(plans) * usable = 0
  BY <1>2
<1> QED
  BY <1>2, <1>3, <1>4 DEF SumInv

\* Every step keeps the sums.
LEMMA SumNext == BinInv /\ SumInv /\ [Next]_vars => SumInv'
<1> SUFFICES ASSUME BinInv, SumInv, [Next]_vars PROVE SumInv'
  OBVIOUS
<1>0. TypeOK /\ usable \in Int /\ plans \in Seq(Plan) /\ Len(plans) \in Nat /\ bin \in SUBSET Packs
  BY DEF BinInv, TypeOK
<1>1. ASSUME UNCHANGED <<size, usable, asked, remaining, plans>> PROVE SumInv'
  <2>1. (Total(asked \ remaining))' = Total(asked \ remaining)
    BY <1>1 DEF Total
  <2>2. (\A i \in 1..Len(plans) : plans[i].bytes = Total(plans[i].packs))'
    BY <1>1 DEF SumInv, Total
  <2> QED
    BY <1>1, <2>1, <2>2 DEF SumInv
<1>2. CASE BeginPass
  BY <1>1, <1>2 DEF BeginPass, input
<1>3. ASSUME NEW p \in Packs, Consider(p) PROVE SumInv'
  BY <1>1, <1>3 DEF Consider, input
<1>4. CASE CloseBin
  <2> DEFINE e == [packs |-> bin, bytes |-> fill]
             n == Len(plans)
             old == Total(asked \ remaining)
  <2>0. plans' = Append(plans, [packs |-> bin, bytes |-> Total(bin)]) /\ fill = Total(bin)
    BY <1>4 DEF CloseBin, BinInv, PassInv
  <2>1. e \in Plan /\ plans' = Append(plans, e) /\ fill \in Nat
    BY <2>0 DEF BinInv, TypeOK, Plan
  <2>2. /\ Len(plans') = n + 1
        /\ \A i \in 1..n : plans'[i] = plans[i]
        /\ plans'[n + 1] = e
    BY <1>0, <2>1, AppendPlan
  <2>3. /\ pc = "fit" /\ bin # {} /\ bin \subseteq remaining /\ remaining \subseteq asked
        /\ remaining' = remaining \ bin /\ pc' = "loop" /\ asked \in SUBSET Packs
        /\ usable > 0 /\ fill <= usable /\ fill = Total(bin)
        /\ UNCHANGED <<size, usable, asked, bin, fill>>
    BY <1>4 DEF CloseBin, BinInv, SumInv, PassInv, OuterInv, input, TypeOK
  <2>4. asked' \ remaining' = (asked \ remaining) \cup bin /\ (asked \ remaining) \cap bin = {}
    BY <2>3
  <2>5. old \in Nat /\ Total(asked \ remaining)' = old + fill
    <3>1. asked \ remaining \in SUBSET Packs
      BY <2>3
    <3>2. Total((asked \ remaining) \cup bin) = old + Total(bin)
      BY <1>0, <2>4, <3>1, TotalFacts
    <3> QED
      BY <1>0, <2>3, <2>4, <3>1, <3>2, TotalFacts DEF Total
  <2>6. (\A i \in 1..Len(plans) : plans[i].bytes = Total(plans[i].packs))'
    <3>1. \A i \in 1..(n + 1) : i \in 1..n \/ i = n + 1
      BY <1>0
    <3>2. \A i \in 1..n : plans'[i].bytes = TotalOf(size, plans'[i].packs)
      BY <2>2 DEF SumInv, Total
    <3>3. plans'[n + 1].bytes = TotalOf(size, plans'[n + 1].packs)
      BY <2>2, <2>3 DEF Total
    <3> QED
      BY <2>2, <2>3, <3>1, <3>2, <3>3 DEF Total
  <2>7. plans' # << >>
    BY <1>0, <2>2
  <2>8. Total(asked \ remaining)' <= Len(plans)' * usable'
    <3>1. old <= n * usable
      BY DEF SumInv
    <3>2. (n + 1) * usable = n * usable + usable /\ n * usable \in Int
      BY <1>0
    <3> HIDE DEF old, n
    <3> QED
      BY <1>0, <2>1, <2>2, <2>3, <2>5, <3>1, <3>2
  <2>9. 2 * Total(asked \ remaining)' >= plans'[1].bytes + fill + n * (usable + 1)
    <3>1. CASE n = 0
      <4>1. plans'[1].bytes = fill /\ n * (usable + 1) = 0
        BY <1>0, <2>2, <3>1
      <4> HIDE DEF old
      <4> QED
        BY <2>1, <2>5, <4>1
    <3>2. CASE n # 0
      <4> DEFINE b == plans[1].bytes
                 c == plans[n].bytes
                 k == (n - 1) * (usable + 1)
      <4>1. 1 \in 1..n /\ n \in 1..n /\ plans # << >>
        BY <1>0, <3>2
      <4>2. b \in Nat /\ c \in Nat /\ k \in Int
        BY <1>0, <4>1, PlanElement
      <4>3. 2 * old >= b + c + k
        BY <4>1 DEF SumInv
      <4>4. c + fill > usable
        <5>1. PICK p \in bin : TRUE
          BY <2>3
        <5>2. p \in remaining /\ size[p] \in Nat
          BY <1>0, <2>3 DEF TypeOK
        <5>3. size[p] <= fill
          BY <2>3 DEF BinInv, PassInv
        <5>4. c + size[p] > usable
          BY <4>1, <5>2 DEF BinInv, NoRoomWasted
        <5> HIDE DEF c
        <5> QED
          BY <1>0, <2>1, <4>2, <5>2, <5>3, <5>4
      <4>5. plans'[1].bytes = b
        BY <2>2, <4>1
      <4>6. n * (usable + 1) = k + usable + 1
        BY <1>0
      <4> HIDE DEF b, c, k, old
      <4>7. 2 * (old + fill) >= b + fill + (k + usable + 1)
        BY <1>0, <2>1, <2>5, <4>2, <4>3, <4>4
      <4> QED
        BY <2>5, <4>5, <4>6, <4>7
    <3> QED
      BY <3>1, <3>2
  <2>10. (plans # << >> =>
           2 * Total(asked \ remaining) >=
              plans[1].bytes + plans[Len(plans)].bytes + (Len(plans) - 1) * (usable + 1))'
    <3>1. plans'[Len(plans')].bytes = fill /\ Len(plans') - 1 = n
      BY <1>0, <2>2
    <3> QED
      BY <2>3, <2>9, <3>1
  <2> QED
    BY <2>3, <2>6, <2>7, <2>8, <2>10 DEF SumInv
<1>5. CASE Raise
  BY <1>1, <1>5 DEF Raise, input
<1>6. CASE Return
  BY <1>1, <1>6 DEF Return, input
<1>7. CASE UNCHANGED vars
  BY <1>1, <1>7 DEF vars, input, SumInv
<1> QED
  BY <1>2, <1>3, <1>4, <1>5, <1>6, <1>7 DEF Next

\* The sums hold in every reachable state.
LEMMA SumInvariance == Spec => [](BinInv /\ SumInv)
<1>1. Init => BinInv /\ SumInv
  BY BinInit, SumInit
<1>2. BinInv /\ SumInv /\ [Next]_vars => (BinInv /\ SumInv)'
  BY BinStep, SumNext
<1> QED
  BY <1>1, <1>2, PTL DEF Spec

\* estimate_volumes_needed never announces more volumes than are used, and at
\* least half of them.
THEOREM EstimateIsNear == Spec => []EstimateBounds
<1>1. BinInv /\ SumInv => EstimateBounds
  <2> SUFFICES ASSUME BinInv, SumInv, pc = "done", usable > 0
               PROVE  LET est == estimate_volumes_needed(Total(asked))
                      IN  est <= Len(plans) /\ Len(plans) <= Max({1, 2 * est - 1})
    BY DEF EstimateBounds
  <2> DEFINE t == Total(asked)
             n == Len(plans)
             est == estimate_volumes_needed(t)
  <2>1. usable \in Nat /\ n \in Nat /\ plans \in Seq(Plan) /\ t \in Nat
    <3>1. TypeOK /\ asked \in SUBSET Packs
      BY DEF BinInv, TypeOK
    <3>2. t \in Nat
      BY <3>1, TotalFacts
    <3> QED
      BY <3>1, <3>2 DEF TypeOK
  <2>2. remaining = {} /\ asked \ remaining = asked /\ asked # {}
    BY DEF BinInv, OuterInv
  <2>3. t <= n * usable
    BY <2>2 DEF SumInv
  <2>4. est = IF t <= 0 THEN 0 ELSE (t + usable - 1) \div usable
    BY DEF estimate_volumes_needed
  <2> HIDE DEF t, n, est
  <2>5. est \in Nat /\ t <= est * usable /\ est * usable < t + usable
    <3>1. CASE t = 0
      BY <2>1, <2>4, <3>1, EstimateFact
    <3>2. CASE t # 0
      <4>1. t + usable - 1 \in Nat
        BY <2>1
      <4>2. est = (t + usable - 1) \div usable
        BY <2>1, <2>4, <3>2
      <4>3. (t + usable - 1) \div usable \in Nat
        BY <2>1, <4>1, DivBounds
      <4>4. est \in Int
        BY <4>2, <4>3
      <4> QED
        BY <2>1, <2>4, <4>4, EstimateFact
    <3> QED
      BY <3>1, <3>2
  <2>6. est <= n
    <3>1. est * usable < n * usable + usable
      <4>1. est * usable \in Int /\ n * usable \in Int
        BY <2>1, <2>5
      <4> QED
        BY <2>1, <2>3, <2>5, <4>1
    <3> QED
      BY <2>1, <2>5, <3>1, FactorOrder
  <2>7. n <= Max({1, 2 * est - 1})
    <3>1. 2 * est - 1 \in Int
      BY <2>5
    <3>2. Max({1, 2 * est - 1}) \in Int /\ 1 <= Max({1, 2 * est - 1}) /\ 2 * est - 1 <= Max({1, 2 * est - 1})
      <4> DEFINE m == 2 * est - 1
      <4> HIDE DEF m
      <4> QED
        BY <3>1, MaxWithOne DEF m
    <3>3. CASE n <= 1
      BY <2>1, <3>2, <3>3
    <3>4. CASE n > 1
      <4> DEFINE b == plans[1].bytes
                 c == plans[n].bytes
      <4>1. 1 \in 1..n /\ n \in 1..n /\ plans # << >> /\ n \in (1 + 1)..n
        BY <2>1, <3>4 DEF n
      <4>2. b \in Nat /\ c \in Nat
        BY <4>1, PlanElement DEF n, BinInv
      <4>3. 2 * t >= b + c + (n - 1) * (usable + 1)
        BY <2>2, <4>1 DEF SumInv, t, n
      <4>4. b + c > usable
        <5>1. PICK p \in plans[n].packs : TRUE
          BY <4>1 DEF BinInv, PlansPartition, n
        <5>2. b + size[p] > usable
          BY <4>1, <5>1 DEF BinInv, NoRoomWasted, n
        <5>3. plans[n].packs \in SUBSET Packs /\ TypeOK
          BY <4>1, PlanElement DEF n, BinInv
        <5>4. size[p] \in Nat /\ size[p] <= Total(plans[n].packs)
          BY <5>1, <5>3, TotalFacts DEF TypeOK
        <5>5. c = Total(plans[n].packs)
          BY <4>1 DEF SumInv, n
        <5> HIDE DEF b, c
        <5> QED
          BY <2>1, <4>2, <5>2, <5>4, <5>5
      <4>5. 2 * t >= n * usable + n
        <5>1. (n - 1) * (usable + 1) = n * usable + n - usable - 1 /\ n * usable \in Int
          BY <2>1
        <5> HIDE DEF b, c
        <5> QED
          BY <2>1, <4>2, <4>3, <4>4, <5>1
      <4>6. n * usable < (2 * est) * usable
        <5>1. (2 * est) * usable = 2 * (est * usable) /\ est * usable \in Int /\ n * usable \in Int
          BY <2>1, <2>5
        <5> QED
          BY <2>1, <2>5, <3>4, <4>5, <5>1
      <4>7. n <= 2 * est - 1
        <5> DEFINE m == 2 * est - 1
        <5>1. m \in Int /\ m * usable + usable = (2 * est) * usable
          BY <2>1, <2>5
        <5>2. n * usable < m * usable + usable
          BY <4>6, <5>1
        <5> HIDE DEF m
        <5>3. n <= m
          BY <2>1, <5>1, <5>2, FactorOrder
        <5> QED
          BY <5>3 DEF m
      <4> QED
        BY <2>1, <2>5, <3>2, <4>7
    <3> QED
      BY <2>1, <3>3, <3>4
  <2> QED
    BY <2>6, <2>7 DEF est, t, n
<1> QED
  BY <1>1, SumInvariance, PTL

\* _multi_bin_pack implements BinPlan: the plans it makes are those Archive
\* stages.
THEOREM Refinement == Spec => ImplementsBinPlan
<1>1. Init => Promise!Init
  BY DEF Init, Promise!Init, planBins, planVerdict
<1>2. BinInv /\ [Next]_vars => [Promise!Next]_<<remaining, planBins, planVerdict>>
  <2> SUFFICES ASSUME BinInv, [Next]_vars
               PROVE  [Promise!Next]_<<remaining, planBins, planVerdict>>
    OBVIOUS
  <2> USE DEF planVerdict
  <2>1. CASE BeginPass
    BY <2>1 DEF BeginPass, planBins
  <2>2. ASSUME NEW p \in Packs, Consider(p)
        PROVE  UNCHANGED <<remaining, planBins, planVerdict>>
    BY <2>2 DEF Consider, planBins
  <2>3. CASE CloseBin
    <3>0. plans' = Append(plans, [packs |-> bin, bytes |-> fill])
      <4>1. plans' = Append(plans, [packs |-> bin, bytes |-> Total(bin)]) /\ fill = Total(bin)
        BY <2>3 DEF CloseBin, BinInv, PassInv
      <4> QED
        BY <4>1
    <3>1. plans \in Seq(Plan) /\ [packs |-> bin, bytes |-> fill] \in Plan
      BY DEF BinInv, TypeOK, Plan
    <3>2. /\ Len(plans') = Len(plans) + 1 /\ Len(plans) \in Nat
          /\ \A i \in 1..Len(plans) : plans'[i] = plans[i]
          /\ plans'[Len(plans) + 1].packs = bin
      BY <3>0, <3>1, AppendPlan
    <3>3. planBins \in Seq(SUBSET Packs) /\ Len(planBins) = Len(plans)
      <4>1. \A i \in 1..Len(plans) : plans[i] \in Plan
        BY <3>1, ElementOfSeq
      <4>2. planBins \in [1..Len(plans) -> SUBSET Packs] /\ Len(plans) \in Nat
        BY <3>1, <4>1 DEF planBins, Plan
      <4> QED
        BY <4>2
    <3>4. planBins' = Append(planBins, bin)
      <4>1. bin \in SUBSET Packs
        BY DEF BinInv, TypeOK
      <4>2. /\ Append(planBins, bin) \in Seq(SUBSET Packs)
            /\ Len(Append(planBins, bin)) = Len(plans) + 1
            /\ \A i \in 1..Len(plans) : Append(planBins, bin)[i] = plans[i].packs
            /\ Append(planBins, bin)[Len(plans) + 1] = bin
        BY <3>3, <4>1, AppendProperties DEF planBins
      <4>3. planBins' = [i \in 1..(Len(plans) + 1) |-> plans'[i].packs]
        BY <3>2 DEF planBins
      <4>4. \A i \in 1..(Len(plans) + 1) : planBins'[i] = Append(planBins, bin)[i]
        BY <3>2, <4>2, <4>3
      <4>5. planBins' \in [1..(Len(plans) + 1) -> SUBSET Packs]
        <5>1. \A i \in 1..(Len(plans) + 1) : Append(planBins, bin)[i] \in SUBSET Packs
          BY <4>2, ElementOfSeq
        <5> QED
          BY <4>3, <4>4, <5>1
      <4>6. planBins' \in Seq(SUBSET Packs) /\ Len(planBins') = Len(plans) + 1
        BY <3>2, <4>5
      <4> QED
        BY <4>2, <4>4, <4>6, SeqEqual
    <3>5. bin \in (SUBSET remaining) \ {{}} /\ remaining' = remaining \ bin
      BY <2>3 DEF CloseBin, BinInv, PassInv
    <3>6. planVerdict = "planning" /\ planVerdict' = planVerdict
      BY <2>3 DEF CloseBin
    <3> QED
      BY <3>4, <3>5, <3>6 DEF Promise!Next, Promise!TakeBin
  <2>4. CASE Raise
    <3>1. planVerdict = "planning" /\ planVerdict' = "refused" /\ remaining # {}
      BY <2>4 DEF Raise, BinInv, PassInv
    <3>2. UNCHANGED <<remaining, planBins>>
      BY <2>4 DEF Raise, planBins
    <3> QED
      BY <3>1, <3>2 DEF Promise!Next, Promise!Refuse
  <2>5. CASE Return
    <3>1. planVerdict = "planning" /\ planVerdict' = "planned" /\ remaining = {}
      BY <2>5 DEF Return
    <3>2. UNCHANGED <<remaining, planBins>>
      BY <2>5 DEF Return, planBins
    <3> QED
      BY <3>1, <3>2 DEF Promise!Next, Promise!Finish
  <2>6. CASE UNCHANGED vars
    BY <2>6 DEF vars, planBins
  <2> QED
    BY <2>1, <2>2, <2>3, <2>4, <2>5, <2>6 DEF Next
<1> QED
  BY <1>1, <1>2, BinInvariance, PTL DEF Spec, ImplementsBinPlan, Promise!Spec

-----------------------------------------------------------------------------
(* SplitBurn                                                               *)

\* The initial state satisfies the inductive invariant.
LEMMA SplitInit == SplitBurnInit => SplitInv
BY DEF SplitBurnInit, SplitInv, SplitBurnTypeOK, RecordInv, LabelsUnique, ForeignOnlyByReuse,
   OneImagePerVolume, RowHashWasBurnedThere, VerifiedWasRead, Exists, HasRows

\* A receipt that is written bears its image's label.
LEMMA EmitFact ==
    ASSUME NEW v \in Volumes, NEW l \in Locations, NEW x \in Verdicts,
           SplitBurnTypeOK, label[v] \in Labels, Emit(v, l, x)
    PROVE  \E r \in Receipts : /\ receipts' = receipts \cup {r}
                               /\ r.label = label[v] /\ r.loc = l /\ r.sha = v /\ r.verdict = x
<1> DEFINE r == [label |-> label[v], loc |-> l, sha |-> v, verdict |-> x]
<1>1. r \in Receipts
  BY DEF SplitBurnTypeOK, Receipts
<1>2. receipts' = receipts \cup {r}
  BY DEF Emit
<1> QED
  BY <1>1, <1>2

\* Every step keeps the inductive invariant.
LEMMA SplitStep == SplitInv /\ [SplitBurnNext]_splitVars => SplitInv'
<1> SUFFICES ASSUME SplitInv, [SplitBurnNext]_splitVars PROVE SplitInv'
  OBVIOUS
<1> USE DEF SplitInv
<1>1. ASSUME NEW v \in Volumes, NEW count \in Volumes, NEW n \in Volumes,
             NEW p \in Prefixes, NEW k \in Kinds, Stage(v, count, p, k, n)
      PROVE  SplitInv'
  <2> DEFINE new == {w \in Volumes : v <= w /\ w < v + count}
             lab(w) == LabelOf(p, k, n, w - v)
  <2>1. /\ \A w \in new : status[w] = "absent" /\ IsFree(lab(w))
        /\ status' = [w \in Volumes |-> IF w \in new THEN "STAGING" ELSE status[w]]
        /\ label' = [w \in Volumes |-> IF w \in new THEN lab(w) ELSE label[w]]
        /\ UNCHANGED <<copies, rowSha, events, carried, discs, receipts>>
    BY <1>1 DEF Stage
  <2>2. new \subseteq Volumes /\ \A w \in new : lab(w) \in Labels
    BY SplitBurnAssumption DEF Volumes, LabelOf, Labels
  <2>3. \A w, x \in new : lab(w) = lab(x) => w = x
    BY SplitBurnAssumption DEF Volumes, LabelOf
  <2> HIDE DEF new, lab
  <2>4. /\ \A w \in new : status'[w] = "STAGING" /\ label'[w] = lab(w)
        /\ \A w \in Volumes \ new : status'[w] = status[w] /\ label'[w] = label[w]
    BY <2>1, <2>2
  <2>5. SplitBurnTypeOK'
    BY <2>1, <2>2 DEF SplitBurnTypeOK
  <2>6. \A r \in receipts : r.sha \in Volumes \ new
    BY <2>1 DEF RecordInv, SplitBurnTypeOK, Receipts
  <2>7. \A d \in discs : d[1] \in Volumes \ new
    BY <2>1 DEF RecordInv, SplitBurnTypeOK
  <2>8. RecordInv'
    <3>1. \A w \in Volumes : status'[w] = "absent" =>
             label'[w] = NoLabel /\ w \notin carried' /\ ~HasRows(w)'
      BY <2>1, <2>4 DEF RecordInv, HasRows
    <3>2. \A w \in Volumes : status'[w] = "deleted" => ~HasRows(w)'
      BY <2>1, <2>4 DEF RecordInv, HasRows
    <3>3. \A w \in Volumes : status'[w] # "absent" => label'[w] \in Labels
      BY <2>2, <2>4 DEF RecordInv
    <3> QED
      BY <2>1, <2>4, <2>6, <2>7, <3>1, <3>2, <3>3 DEF RecordInv
  <2>9. LabelsUnique'
    <3>1. \A w \in Volumes \ new : Exists(w)' => Exists(w) /\ \A x \in new : label'[w] # lab(x)
      BY <2>1, <2>4 DEF Exists, IsFree
    <3> QED
      BY <2>3, <2>4, <3>1 DEF LabelsUnique
  <2>10. ForeignOnlyByReuse'
    <3>1. \A w \in Volumes, l \in Locations : rowSha[w][l] \notin {0, w} =>
             rowSha[w][l] \in Volumes \ new /\ w \notin new
      BY <2>1 DEF ForeignOnlyByReuse, SplitBurnTypeOK, RecordInv, HasRows
    <3> QED
      BY <2>1, <2>4, <3>1 DEF ForeignOnlyByReuse
  <2>11. (OneImagePerVolume /\ RowHashWasBurnedThere)'
    BY <2>1 DEF OneImagePerVolume, RowHashWasBurnedThere
  <2>12. VerifiedWasRead'
    BY <2>1, <2>4, <2>7 DEF VerifiedWasRead
  <2> QED
    BY <2>5, <2>8, <2>9, <2>10, <2>11, <2>12
<1>2. ASSUME NEW v \in Volumes, Abort(v) PROVE SplitInv'
  <2>1. /\ status[v] = "STAGING" /\ ~HasRows(v) /\ status' = [status EXCEPT ![v] = "deleted"]
        /\ UNCHANGED <<label, copies, rowSha, events, carried, discs, receipts>>
    BY <1>2 DEF Abort
  <2>2. status'[v] = "deleted" /\ \A w \in Volumes \ {v} : status'[w] = status[w]
    BY <2>1 DEF SplitBurnTypeOK
  <2>3. SplitBurnTypeOK'
    BY <2>1 DEF SplitBurnTypeOK
  <2>4. RecordInv'
    BY <2>1, <2>2 DEF RecordInv, HasRows, SplitBurnTypeOK, Receipts
  <2>5. (LabelsUnique /\ ForeignOnlyByReuse)'
    BY <2>1, <2>2 DEF LabelsUnique, ForeignOnlyByReuse, Exists, SplitBurnTypeOK
  <2>6. (OneImagePerVolume /\ RowHashWasBurnedThere /\ VerifiedWasRead)'
    BY <2>1, <2>2 DEF OneImagePerVolume, RowHashWasBurnedThere, VerifiedWasRead
  <2> QED
    BY <2>3, <2>4, <2>5, <2>6
<1>3. ASSUME NEW v \in Volumes, Export(v) PROVE SplitInv'
  BY <1>3 DEF Export, SplitBurnTypeOK, RecordInv, LabelsUnique, ForeignOnlyByReuse,
     OneImagePerVolume, RowHashWasBurnedThere, VerifiedWasRead, Exists, HasRows
<1>4. ASSUME NEW v \in Volumes, NEW l \in Locations, NEW good \in BOOLEAN, BurnHere(v, l, good)
      PROVE  SplitInv'
  <2>1. PICK r \in Receipts : /\ receipts' = receipts \cup {r}
                              /\ r.label = label[v] /\ r.loc = l /\ r.sha = v
                              /\ r.verdict = IF good THEN "true" ELSE "false"
    BY <1>4, EmitFact DEF BurnHere, Verdicts, RecordInv
  <2>2. /\ status[v] \in {"STAGING", "BURNED", "VERIFIED"}
        /\ UNCHANGED <<label, events, carried>>
    BY <1>4 DEF BurnHere
  <2>3. /\ status'[v] \in {"STAGING", "VERIFIED"}
        /\ status'[v] = "VERIFIED" => good \/ status[v] = "VERIFIED"
        /\ \A w \in Volumes \ {v} : status'[w] = status[w]
        /\ status' \in [Volumes -> {"absent", "STAGING", "BURNED", "VERIFIED", "DEPRECATED", "deleted"}]
    BY <1>4 DEF BurnHere, SplitBurnTypeOK
  <2>4. /\ \A w \in Volumes, k \in Locations :
              \/ copies'[w][k] = copies[w][k] /\ rowSha'[w][k] = rowSha[w][k]
              \/ w = v /\ k = l /\ good /\ copies'[w][k] = "ACTIVE" /\ rowSha'[w][k] = v
        /\ copies' \in [Volumes -> [Locations -> {"none", "ACTIVE", "DESTROYED"}]]
        /\ rowSha' \in [Volumes -> [Locations -> {0} \cup Volumes]]
    <3>1. CASE good
      BY <1>4, <3>1 DEF BurnHere, SplitBurnTypeOK
    <3>2. CASE ~good
      BY <1>4, <3>2 DEF BurnHere, SplitBurnTypeOK
    <3> QED
      BY <3>1, <3>2
  <2>5. /\ discs \subseteq discs' /\ (good => <<v, l>> \in discs')
        /\ discs' \subseteq discs \cup {<<v, l>>} /\ discs' \in SUBSET (Volumes \X Locations)
    BY <1>4 DEF BurnHere, SplitBurnTypeOK
  <2>6. SplitBurnTypeOK'
    BY <2>1, <2>2, <2>3, <2>4, <2>5 DEF SplitBurnTypeOK
  <2>7. \A w \in Volumes : /\ Exists(w)' <=> Exists(w)
                           /\ status'[w] = "absent" <=> status[w] = "absent"
                           /\ status'[w] = "deleted" <=> status[w] = "deleted"
    BY <2>2, <2>3 DEF Exists
  <2>8. RecordInv'
    <3>1. \A s \in receipts' : /\ s.label = label'[s.sha] /\ status'[s.sha] # "absent"
                               /\ s.verdict = "true" => <<s.sha, s.loc>> \in discs'
      <4> SUFFICES ASSUME NEW s \in receipts'
                   PROVE  /\ s.label = label[s.sha] /\ status'[s.sha] # "absent"
                          /\ s.verdict = "true" => <<s.sha, s.loc>> \in discs'
        BY <2>2
      <4>1. CASE s \in receipts
        BY <2>5, <2>7, <4>1 DEF RecordInv, SplitBurnTypeOK, Receipts
      <4>2. CASE s = r
        BY <2>1, <2>2, <2>5, <2>7, <4>2
      <4> QED
        BY <2>1, <4>1, <4>2
    <3>2. \A w \in Volumes : w # v => (HasRows(w)' <=> HasRows(w))
      BY <2>4 DEF HasRows
    <3>3. \A w \in Volumes, k \in Locations : rowSha'[w][k] # 0 => copies'[w][k] # "none"
      BY <2>4 DEF RecordInv
    <3>4. \A d \in discs' : status'[d[1]] # "absent"
      BY <2>2, <2>5, <2>7 DEF RecordInv, SplitBurnTypeOK
    <3> QED
      BY <2>1, <2>2, <2>7, <3>1, <3>2, <3>3, <3>4 DEF RecordInv
  <2>9. LabelsUnique'
    BY <2>2, <2>7 DEF LabelsUnique
  <2>10. ForeignOnlyByReuse'
    <3> SUFFICES ASSUME NEW w \in Volumes, NEW k \in Locations, rowSha'[w][k] \notin {0, w}
                 PROVE  status'[rowSha'[w][k]] = "deleted" /\ label'[rowSha'[w][k]] = label'[w]
      BY DEF ForeignOnlyByReuse
    <3>1. rowSha'[w][k] = rowSha[w][k] /\ rowSha[w][k] \in Volumes
      BY <2>4 DEF SplitBurnTypeOK
    <3> QED
      BY <2>2, <2>7, <3>1 DEF ForeignOnlyByReuse
  <2>11. (OneImagePerVolume /\ RowHashWasBurnedThere)'
    <3>1. \A w \in Volumes, k \in Locations : rowSha'[w][k] # rowSha[w][k] =>
             <<rowSha'[w][k], k>> \in discs'
      BY <2>4, <2>5
    <3> QED
      BY <2>2, <2>5, <3>1 DEF OneImagePerVolume, RowHashWasBurnedThere
  <2>12. VerifiedWasRead'
    <3>1. good => \E d \in discs' : label[d[1]] = label[v]
      BY <2>5
    <3> QED
      BY <2>2, <2>3, <2>5, <3>1 DEF VerifiedWasRead
  <2> QED
    BY <2>6, <2>8, <2>9, <2>10, <2>11, <2>12
<1>5. ASSUME NEW v \in Volumes, NEW l \in Locations, DiscLost(v, l) PROVE SplitInv'
  <2>1. /\ copies[v][l] # "none" /\ copies' = [copies EXCEPT ![v][l] = "DESTROYED"]
        /\ status' = status \/ status' = [status EXCEPT ![v] = "DEPRECATED"]
        /\ UNCHANGED <<label, rowSha, events, carried, discs, receipts>>
    BY <1>5 DEF DiscLost
  <2>2. /\ status'[v] \in {status[v], "DEPRECATED"}
        /\ \A w \in Volumes \ {v} : status'[w] = status[w]
        /\ \A w \in Volumes, k \in Locations : copies'[w][k] = "none" <=> copies[w][k] = "none"
        /\ status[v] \notin {"absent", "deleted"}
    BY <2>1 DEF SplitBurnTypeOK, RecordInv, HasRows
  <2>3. SplitBurnTypeOK'
    BY <2>1 DEF SplitBurnTypeOK
  <2>4. RecordInv'
    BY <2>1, <2>2 DEF RecordInv, HasRows, SplitBurnTypeOK, Receipts
  <2>5. \A w \in Volumes : /\ Exists(w)' <=> Exists(w)
                           /\ status[w] = "deleted" => status'[w] = "deleted"
    BY <2>2 DEF Exists
  <2>6. LabelsUnique'
    BY <2>1, <2>5 DEF LabelsUnique
  <2>7. ForeignOnlyByReuse'
    BY <2>1, <2>5 DEF ForeignOnlyByReuse, SplitBurnTypeOK
  <2>8. (OneImagePerVolume /\ RowHashWasBurnedThere /\ VerifiedWasRead)'
    BY <2>1, <2>2 DEF OneImagePerVolume, RowHashWasBurnedThere, VerifiedWasRead
  <2> QED
    BY <2>3, <2>4, <2>6, <2>7, <2>8
<1>6. ASSUME NEW v \in Volumes, NEW l \in Locations, NEW verify \in BOOLEAN, NEW good \in BOOLEAN,
             BurnIso(v, l, verify, good)
      PROVE  SplitInv'
  <2> DEFINE x == CASE ~verify -> "null" [] verify /\ good -> "true" [] OTHER -> "false"
  <2>0. label[v] \in Labels
    BY <1>6 DEF BurnIso, RecordInv
  <2>1. x \in Verdicts /\ (x = "true" => good)
    BY DEF Verdicts
  <2>2. PICK r \in Receipts : /\ receipts' = receipts \cup {r}
                              /\ r.label = label[v] /\ r.loc = l /\ r.sha = v /\ r.verdict = x
    BY <1>6, <2>0, <2>1, EmitFact DEF BurnIso
  <2> HIDE DEF x
  <2>3. /\ v \in carried /\ discs \subseteq discs' /\ (good => <<v, l>> \in discs')
        /\ discs' \in SUBSET (Volumes \X Locations) /\ discs' \subseteq discs \cup {<<v, l>>}
        /\ UNCHANGED <<status, label, copies, rowSha, events, carried>>
    BY <1>6 DEF BurnIso, SplitBurnTypeOK
  <2>4. SplitBurnTypeOK'
    BY <2>2, <2>3 DEF SplitBurnTypeOK
  <2>5. RecordInv'
    <3>1. \A s \in receipts' : /\ s.label = label'[s.sha] /\ status'[s.sha] # "absent"
                               /\ s.verdict = "true" => <<s.sha, s.loc>> \in discs'
      BY <2>1, <2>2, <2>3 DEF RecordInv
    <3>2. \A d \in discs' : status'[d[1]] # "absent"
      BY <2>3 DEF RecordInv
    <3> QED
      BY <2>2, <2>3, <3>1, <3>2 DEF RecordInv, HasRows
  <2>6. (LabelsUnique /\ ForeignOnlyByReuse /\ OneImagePerVolume)'
    BY <2>3 DEF LabelsUnique, ForeignOnlyByReuse, OneImagePerVolume, Exists
  <2>7. (RowHashWasBurnedThere /\ VerifiedWasRead)'
    BY <2>3 DEF RowHashWasBurnedThere, VerifiedWasRead
  <2> QED
    BY <2>4, <2>5, <2>6, <2>7
<1>7. ASSUME NEW r \in receipts, NEW v \in Volumes, Import(r, v) PROVE SplitInv'
  <2>1. /\ Exists(v) /\ label[v] = r.label /\ \A e \in events[v] : e.sha = r.sha
        /\ events' = [events EXCEPT ![v] = @ \cup {r}]
        /\ UNCHANGED <<label, carried, discs, receipts>>
    BY <1>7 DEF Import, Addressee, HashAgrees
  <2>2. /\ r \in Receipts /\ r.sha \in Volumes /\ r.loc \in Locations /\ r.verdict \in Verdicts
        /\ r.label = label[r.sha] /\ status[r.sha] # "absent"
        /\ r.verdict = "true" => <<r.sha, r.loc>> \in discs
    BY DEF RecordInv, SplitBurnTypeOK, Receipts
  <2>3. /\ \A w \in Volumes \ {v} : status'[w] = status[w]
        /\ \/ status'[v] = status[v]
           \/ status'[v] = "BURNED"
           \/ status'[v] = "VERIFIED" /\ r.verdict = "true"
        /\ status' \in [Volumes -> {"absent", "STAGING", "BURNED", "VERIFIED", "DEPRECATED", "deleted"}]
    BY <1>7 DEF Import, SplitBurnTypeOK
  <2>4. /\ \A w \in Volumes \ {v} : copies'[w] = copies[w] /\ rowSha'[w] = rowSha[w]
        /\ \A k \in Locations : \/ copies'[v][k] = copies[v][k] /\ rowSha'[v][k] = rowSha[v][k]
                                \/ /\ k = r.loc /\ r.verdict # "false"
                                   /\ copies'[v][k] = "ACTIVE" /\ rowSha'[v][k] = r.sha
        /\ copies' \in [Volumes -> [Locations -> {"none", "ACTIVE", "DESTROYED"}]]
        /\ rowSha' \in [Volumes -> [Locations -> {0} \cup Volumes]]
    <3>1. CASE r.verdict = "false"
      BY <1>7, <3>1 DEF Import, SplitBurnTypeOK
    <3>2. CASE r.verdict # "false"
      BY <1>7, <2>2, <3>2 DEF Import, SplitBurnTypeOK
    <3> QED
      BY <3>1, <3>2
  <2>5. events'[v] = events[v] \cup {r} /\ \A w \in Volumes \ {v} : events'[w] = events[w]
    BY <2>1 DEF SplitBurnTypeOK
  <2>6. SplitBurnTypeOK'
    <3>1. events' \in [Volumes -> SUBSET Receipts]
      BY <2>1, <2>2 DEF SplitBurnTypeOK
    <3> QED
      BY <2>1, <2>3, <2>4, <3>1 DEF SplitBurnTypeOK
  <2>7. \A w \in Volumes : /\ Exists(w)' <=> Exists(w)
                           /\ status'[w] = "absent" <=> status[w] = "absent"
                           /\ status'[w] = "deleted" <=> status[w] = "deleted"
    BY <2>1, <2>3 DEF Exists
  <2>8. RecordInv'
    <3>1. \A w \in Volumes : status'[w] = "absent" =>
             label'[w] = NoLabel /\ w \notin carried' /\ w # v /\ ~HasRows(w)'
      BY <2>1, <2>4, <2>7 DEF RecordInv, HasRows, Exists
    <3>2. \A w \in Volumes : status'[w] = "deleted" => ~HasRows(w)'
      BY <2>1, <2>4, <2>7 DEF RecordInv, HasRows, Exists
    <3>3. \A w \in Volumes, k \in Locations : rowSha'[w][k] # 0 => copies'[w][k] # "none"
      <4> SUFFICES ASSUME NEW w \in Volumes, NEW k \in Locations, rowSha'[w][k] # 0
                   PROVE  copies'[w][k] # "none"
        OBVIOUS
      <4>1. CASE w = v
        BY <2>4, <4>1 DEF RecordInv
      <4>2. CASE w # v
        BY <2>4, <4>2 DEF RecordInv
      <4> QED
        BY <4>1, <4>2
    <3>4. \A w \in Volumes : status'[w] # "absent" => label'[w] \in Labels
      BY <2>1, <2>7 DEF RecordInv
    <3>5. \A s \in receipts' : /\ s.label = label'[s.sha] /\ status'[s.sha] # "absent"
                               /\ s.verdict = "true" => <<s.sha, s.loc>> \in discs'
      BY <2>1, <2>7 DEF RecordInv, SplitBurnTypeOK, Receipts
    <3>6. \A w \in Volumes : events'[w] \subseteq receipts'
      BY <2>1, <2>5 DEF RecordInv
    <3>7. \A d \in discs' : status'[d[1]] # "absent"
      BY <2>1, <2>7 DEF RecordInv, SplitBurnTypeOK
    <3> QED
      BY <3>1, <3>2, <3>3, <3>4, <3>5, <3>6, <3>7 DEF RecordInv
  <2>9. LabelsUnique'
    BY <2>1, <2>7 DEF LabelsUnique
  <2>10. ForeignOnlyByReuse'
    <3>1. r.sha # v => status[r.sha] = "deleted"
      BY <2>1, <2>2 DEF LabelsUnique, Exists
    <3> SUFFICES ASSUME NEW w \in Volumes, NEW k \in Locations, rowSha'[w][k] \notin {0, w}
                 PROVE  status'[rowSha'[w][k]] = "deleted" /\ label'[rowSha'[w][k]] = label'[w]
      BY DEF ForeignOnlyByReuse
    <3>2. CASE rowSha'[w][k] = rowSha[w][k]
      <4>1. rowSha[w][k] \in Volumes
        BY <3>2 DEF SplitBurnTypeOK
      <4> QED
        BY <2>1, <2>7, <3>2, <4>1 DEF ForeignOnlyByReuse
    <3>3. CASE w = v /\ rowSha'[w][k] = r.sha
      BY <2>1, <2>2, <2>7, <3>1, <3>3
    <3> QED
      BY <2>4, <3>2, <3>3
  <2>11. OneImagePerVolume'
    BY <2>1, <2>5 DEF OneImagePerVolume
  <2>12. RowHashWasBurnedThere'
    <3>1. r.verdict # "false" => <<r.sha, r.loc>> \in discs \/ r.verdict = "null"
      BY <2>2 DEF Verdicts
    <3> SUFFICES ASSUME NEW w \in Volumes, NEW k \in Locations, rowSha'[w][k] # 0
                 PROVE  \/ <<rowSha'[w][k], k>> \in discs'
                        \/ \E e \in events'[w] : e.sha = rowSha'[w][k] /\ e.loc = k /\ e.verdict = "null"
      BY DEF RowHashWasBurnedThere
    <3>2. CASE rowSha'[w][k] = rowSha[w][k]
      BY <2>1, <2>5, <3>2 DEF RowHashWasBurnedThere
    <3>3. CASE w = v /\ k = r.loc /\ r.verdict # "false" /\ rowSha'[w][k] = r.sha
      BY <2>1, <2>5, <3>1, <3>3
    <3> QED
      BY <2>4, <3>2, <3>3
  <2>13. VerifiedWasRead'
    <3>1. r.verdict = "true" => \E d \in discs : label[d[1]] = label[v]
      BY <2>1, <2>2
    <3> QED
      BY <2>1, <2>3, <3>1 DEF VerifiedWasRead
  <2> QED
    BY <2>6, <2>8, <2>9, <2>10, <2>11, <2>12, <2>13
<1>8. CASE UNCHANGED splitVars
  BY <1>8 DEF splitVars, SplitBurnTypeOK, RecordInv, LabelsUnique, ForeignOnlyByReuse,
     OneImagePerVolume, RowHashWasBurnedThere, VerifiedWasRead, Exists, HasRows
<1> QED
  BY <1>1, <1>2, <1>3, <1>4, <1>5, <1>6, <1>7, <1>8 DEF SplitBurnNext

\* The inductive invariant holds in every reachable state.
THEOREM SplitInvariance == SplitBurnSpec => []SplitInv
BY SplitInit, SplitStep, PTL DEF SplitBurnSpec

\* For every label_prefix without an underscore, next_seq_num gives a session
\* labels that no volume of the catalog has.
THEOREM PlainPrefixWorks == SplitBurnSpec => []PlainIsNeverRefused
<1>1. SplitInv => PlainIsNeverRefused
  <2> SUFFICES ASSUME SplitInv, NEW prefix \in Prefixes, NEW kind \in Kinds, NEW n \in Nat, NEW i \in Nat,
                      Len(prefix) = 1, next_seq_num(prefix, n),
                      NEW w \in Volumes, Exists(w), label[w] = LabelOf(prefix, kind, n, i)
               PROVE  FALSE
    BY DEF PlainIsNeverRefused, IsFree
  <2>1. label[w].prefix = prefix /\ label[w].seq = n + i
    BY DEF LabelOf
  <2>2. prefix = <<Head(prefix)>>
    <3>1. prefix \in Seq(STRING) /\ prefix # << >>
      BY SplitBurnAssumption
    <3> QED
      BY <3>1
  <2>3. Counts(w, prefix)
    BY <2>1, <2>2 DEF Counts
  <2>4. label[w].seq < n
    BY <2>3 DEF next_seq_num
  <2> QED
    BY <2>1, <2>4
<1> QED
  BY <1>1, SplitInvariance, PTL

\* Whatever the order and number of imports, a volume is credited with a
\* foreign image only through the reuse of a deleted volume's label.
THEOREM ConfusionNeedsReuse == SplitBurnSpec => []ForeignOnlyByReuse
<1>1. SplitInv => ForeignOnlyByReuse
  BY DEF SplitInv
<1> QED
  BY <1>1, SplitInvariance, PTL

\* VERIFIED always rests on a disc that was read back.
THEOREM VerifiedIsRead == SplitBurnSpec => []VerifiedWasRead
<1>1. SplitInv => VerifiedWasRead
  BY DEF SplitInv
<1> QED
  BY <1>1, SplitInvariance, PTL

=============================================================================
