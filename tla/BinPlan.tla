------------------------------- MODULE BinPlan -------------------------------
(***************************************************************************)
(* What stage() is promised by _multi_bin_pack (burn/orchestrator.py): the *)
(* requested packs are taken out of a pool, one non-empty bin at a time,   *)
(* until the pool is empty, or the whole plan is refused.  Archive stages  *)
(* exactly such plans; BinPack shows that the algorithm makes no others.   *)
(***************************************************************************)
EXTENDS Naturals, Sequences

CONSTANT Packs

VARIABLES
    pool,       \* packs without a volume
    bins,       \* the packs of volume 1, 2, ...
    verdict     \* "planning", "planned", "refused"

Init ==
    /\ pool \in (SUBSET Packs) \ {{}}
    /\ bins = << >>
    /\ verdict = "planning"

TakeBin ==
    /\ verdict = "planning"
    /\ \E bin \in (SUBSET pool) \ {{}} :
          /\ bins' = Append(bins, bin)
          /\ pool' = pool \ bin
    /\ UNCHANGED verdict

Finish ==
    /\ verdict = "planning" /\ pool = {}
    /\ verdict' = "planned"
    /\ UNCHANGED <<pool, bins>>

Refuse ==
    /\ verdict = "planning" /\ pool # {}
    /\ verdict' = "refused"
    /\ UNCHANGED <<pool, bins>>

Next == TakeBin \/ Finish \/ Refuse

Spec == Init /\ [][Next]_<<pool, bins, verdict>>

=============================================================================
