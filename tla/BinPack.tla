------------------------------- MODULE BinPack -------------------------------
(***************************************************************************)
(* Bin packing of packs into volumes: first_fit_decreasing                 *)
(* (binpack/algorithm.py), one pass per volume, inside the loop of         *)
(* _multi_bin_pack (burn/orchestrator.py).  The inner loop's sorted list   *)
(* is the set `queue` of packs it has not reached; Before is the sort key. *)
(***************************************************************************)
EXTENDS Integers, Sequences, FiniteSets, FiniteSetsExt

CONSTANTS
    Packs,          \* packs; their order is that of the SHA-256 strings
    Sizes,          \* bound: pack sizes
    Capacities,     \* bound: capacity_bytes of a media type
    EccPercents,    \* bound: ecc_overhead_pct of a media type
    Reserves        \* bound: metadata_reserve_bytes

ASSUME BinPackAssumption ==
    /\ Packs \subseteq Nat /\ IsFiniteSet(Packs)
    /\ Sizes \subseteq Nat
    /\ Capacities \subseteq Nat
    /\ EccPercents \subseteq 0..100
    /\ Reserves \subseteq Nat

VARIABLES
    size,       \* packs.size_bytes
    usable,     \* bytes of a volume that packs may fill; may be negative
    asked,      \* the packs to place
    remaining,  \* remaining_packs
    queue,      \* sorted_items still to be considered in this pass
    bin,        \* selected
    fill,       \* current_fill
    plans,      \* volume_plans
    pc          \* "loop", "fit", "done", "oversized", "nofit"

input == <<size, usable, asked>>
vars == <<input, remaining, queue, bin, fill, plans, pc>>

\* MediaType.usable_bytes
usable_bytes(capacity, ecc) == (capacity * (100 - ecc)) \div 100

\* Mutant of estimate_volumes_needed: one more also when the last is full.
EstimateFloorPlusOne(total) ==
    IF total <= 0 THEN 0 ELSE total \div usable + 1

\* Volumes a consolidation plan announces for `total` bytes; usable > 0.
estimate_volumes_needed(total) ==
    IF total <= 0 THEN 0 ELSE (total + usable - 1) \div usable

\* key=lambda x: (-x[1], x[0])
Before(p, q) == size[p] > size[q] \/ (size[p] = size[q] /\ p <= q)

\* What packs add up to, by the given sizes.
TotalOf(sizes, S) == MapThenSumSet(LAMBDA p : sizes[p], S)

Total(S) == TotalOf(size, S)

Plan == [packs : SUBSET Packs, bytes : Nat]

TypeOK ==
    /\ size \in [Packs -> Nat]
    /\ usable \in Int
    /\ asked \in SUBSET Packs
    /\ remaining \in SUBSET Packs
    /\ queue \in SUBSET Packs
    /\ bin \in SUBSET Packs
    /\ fill \in Nat
    /\ plans \in Seq(Plan)
    /\ pc \in {"loop", "fit", "done", "oversized", "nofit"}

\* stage() has refused an empty request before.
Init ==
    /\ size \in [Packs -> Sizes]
    /\ \E c \in Capacities, e \in EccPercents, r \in Reserves :
          usable = usable_bytes(c, e) - r
    /\ asked \in (SUBSET Packs) \ {{}}
    /\ remaining = asked
    /\ queue = {} /\ bin = {} /\ fill = 0
    /\ plans = << >>
    /\ pc = "loop"

\* while remaining_packs: a pass of first_fit_decreasing; without usable
\* capacity it returns before its loop
BeginPass ==
    /\ pc = "loop" /\ remaining # {}
    /\ queue' = IF usable <= 0 THEN {} ELSE remaining
    /\ bin' = {} /\ fill' = 0
    /\ pc' = "fit"
    /\ UNCHANGED <<input, remaining, plans>>

\* Mutant of Consider: the pack itself is left out of the test.
FitBehind(p) ==
    /\ pc = "fit" /\ p \in queue
    /\ \A q \in queue : Before(p, q)
    /\ queue' = queue \ {p}
    /\ LET fits == fill < usable
       IN  /\ bin'  = IF fits THEN bin \cup {p} ELSE bin
           /\ fill' = IF fits THEN fill + size[p] ELSE fill
    /\ UNCHANGED <<input, remaining, plans, pc>>

\* one iteration of the loop over sorted_items
Consider(p) ==
    /\ pc = "fit" /\ p \in queue
    /\ \A q \in queue : Before(p, q)
    /\ queue' = queue \ {p}
    /\ LET fits == fill + size[p] <= usable
       IN  /\ bin'  = IF fits THEN bin \cup {p} ELSE bin
           /\ fill' = IF fits THEN fill + size[p] ELSE fill
    /\ UNCHANGED <<input, remaining, plans, pc>>

\* volume_plans.append, with total_bytes summed anew from the packs, and the
\* new remaining_packs
CloseBin ==
    /\ pc = "fit" /\ queue = {} /\ bin # {}
    /\ plans' = Append(plans, [packs |-> bin, bytes |-> Total(bin)])
    /\ remaining' = remaining \ bin
    /\ pc' = "loop"
    /\ UNCHANGED <<input, queue, bin, fill>>

\* Mutant of Raise: the packs that did not fit are dropped.
DropOversized ==
    /\ pc = "fit" /\ queue = {} /\ bin = {}
    /\ pc' = "loop"
    /\ remaining' = {}
    /\ UNCHANGED <<input, queue, bin, fill, plans>>

\* Mutant of Raise: the loop goes on although nothing was selected.
KeepTrying ==
    /\ pc = "fit" /\ queue = {} /\ bin = {}
    /\ pc' = "loop"
    /\ UNCHANGED <<input, remaining, queue, bin, fill, plans>>

\* nothing selected: one of the two ValueErrors
Raise ==
    /\ pc = "fit" /\ queue = {} /\ bin = {}
    /\ pc' = IF \E p \in remaining : size[p] > usable THEN "oversized" ELSE "nofit"
    /\ UNCHANGED <<input, remaining, queue, bin, fill, plans>>

Return ==
    /\ pc = "loop" /\ remaining = {}
    /\ pc' = "done"
    /\ UNCHANGED <<input, remaining, queue, bin, fill, plans>>

Next ==
    \/ BeginPass
    \/ \E p \in Packs : Consider(p)
    \/ CloseBin \/ Raise \/ Return

Spec == Init /\ [][Next]_vars

\* The loop is sequential code: it runs on.
FairSpec == Spec /\ WF_vars(Next)

-----------------------------------------------------------------------------
(* Properties *)

\* Every pack asked for is on exactly one planned volume or still waiting:
\* _multi_bin_pack loses none and burns none twice, and no volume is empty.
PlansPartition ==
    /\ \A i \in 1..Len(plans) : plans[i].packs # {} /\ plans[i].packs \subseteq asked
    /\ \A i \in 1..Len(plans) : plans[i].packs \cap remaining = {}
    /\ \A i, j \in 1..Len(plans) : i # j => plans[i].packs \cap plans[j].packs = {}
    /\ \A p \in asked : p \in remaining \/ \E i \in 1..Len(plans) : p \in plans[i].packs

\* No planned volume is fuller than the medium after parity and reserve: the
\* running current_fill that first_fit_decreasing tested stands for what the
\* selected packs add up to.
PlansFit == \A i \in 1..Len(plans) : plans[i].bytes <= usable

\* A volume is opened only when needed: no pack placed later, nor one still
\* waiting, would have fitted on an earlier volume.
NoRoomWasted ==
    \A i \in 1..Len(plans) :
        /\ \A p \in remaining : plans[i].bytes + size[p] > usable
        /\ \A j \in (i + 1)..Len(plans) : \A p \in plans[j].packs :
              plans[i].bytes + size[p] > usable

\* The plan is refused exactly when a pack can never fit (the ValueError
\* names the packs that cannot) or the medium has no usable capacity.
RefusedForCause ==
    /\ pc = "done" => usable > 0 /\ \A p \in asked : size[p] <= usable
    /\ pc = "oversized" => remaining # {} /\ (usable > 0 => \A p \in remaining : size[p] > usable)
    /\ pc = "nofit" => usable <= 0

\* The number of volumes a consolidation plan announces
\* (estimate_volumes_needed) is never more than _multi_bin_pack uses, and less
\* than half of it only when there is nothing to store.
EstimateBounds ==
    pc = "done" /\ usable > 0 =>
        LET est == estimate_volumes_needed(Total(asked))
        IN  est <= Len(plans) /\ Len(plans) <= Max({1, 2 * est - 1})

\* The loop ends.
Terminates == <>(pc \in {"done", "oversized", "nofit"})

-----------------------------------------------------------------------------
(* Refinement: the plan is one BinPlan allows. *)

planBins == [i \in 1..Len(plans) |-> plans[i].packs]

planVerdict == CASE pc \in {"loop", "fit"} -> "planning"
                 [] pc = "done"            -> "planned"
                 [] OTHER                  -> "refused"

Promise == INSTANCE BinPlan WITH
    pool <- remaining, bins <- planBins, verdict <- planVerdict

\* _multi_bin_pack makes only plans of BinPlan, the ones Archive stages.
ImplementsBinPlan == Promise!Spec

-----------------------------------------------------------------------------
(* The inductive invariant: the pass in progress *)

\* Everything considered and left over does not fit on the current volume;
\* everything selected is counted in fill.
PassInv ==
    pc = "fit" =>
        /\ remaining # {}
        /\ queue \subseteq remaining /\ bin \subseteq remaining /\ queue \cap bin = {}
        /\ usable > 0 => \A p \in remaining \ (queue \cup bin) : fill + size[p] > usable
        /\ usable <= 0 => queue = {} /\ bin = {}
        /\ fill = Total(bin)
        /\ bin = {} => fill = 0
        /\ \A p \in bin : size[p] <= fill
        /\ usable > 0 => fill <= usable

\* Passes only start over for packs that are still waiting.
OuterInv ==
    /\ asked # {} /\ remaining \subseteq asked
    /\ pc = "done" => remaining = {}
    /\ plans # << >> => usable > 0
    /\ \A i \in 1..Len(plans) : \A p \in plans[i].packs : size[p] <= usable

BinInv ==
    /\ TypeOK
    /\ PassInv /\ OuterInv
    /\ PlansPartition /\ PlansFit /\ NoRoomWasted /\ RefusedForCause

\* The volumes so far: filled with what was placed, and any two in a row
\* hold more than one could.
SumInv ==
    /\ \A i \in 1..Len(plans) : plans[i].bytes = Total(plans[i].packs)
    /\ plans = << >> => asked = remaining
    /\ Total(asked \ remaining) <= Len(plans) * usable
    /\ plans # << >> =>
          2 * Total(asked \ remaining) >=
             plans[1].bytes + plans[Len(plans)].bytes + (Len(plans) - 1) * (usable + 1)

=============================================================================
