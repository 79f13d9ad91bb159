------------------------------ MODULE MCArchive ------------------------------
(***************************************************************************)
(* Instances of Archive for TLC.  Commands slices the owner's behaviour:   *)
(* each run lets a family of commands interleave with crashes.             *)
(***************************************************************************)
EXTENDS Archive, TLC

Symm == Permutations(Packs) \cup Permutations(Locations)

CustodyCommands     == {"scan", "prune", "unprune", "stage", "burn", "clean", "import", "verify", "copy", "move", "reconcile"}
ConsolidateCommands == {"scan", "stage", "burn", "deprecate", "consolidate"}
RetryCommands       == {"scan", "stage", "burn", "remove"}
ScanCommands        == {"scan", "prune", "unprune"}

\* In the custody run packs leave the mirror before anything is staged.
PrunesFirst ==
    \/ \A p \in Packs : mirror[p] = "whole" => mirror'[p] = "whole"
    \/ \A v \in Volumes : status[v] = "absent"

\* The consolidate run spends its crash on the steps of a deprecation, and
\* scans only while a pack is not registered: its mirror does not change.
CrashWhileDeprecating ==
    /\ crashes' # crashes => op.pc = "deprecate"
    /\ op.pc = "idle" /\ op'.pc = "scan.list" => known # Packs

=============================================================================
