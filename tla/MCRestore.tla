------------------------------ MODULE MCRestore ------------------------------
(***************************************************************************)
(* Instances of Restore for TLC.                                           *)
(***************************************************************************)
EXTENDS Restore, TLC

Symm == Permutations(Packs)

AllRoutes == {"exec", "standalone"} \X {"batch", "prompt"}

\* The owner repeats the command on the same cache.
SameCommand == runs' = 2 /\ runs = 1 => route' = route /\ cache # EmptyCache

=============================================================================
