----------------------------- MODULE MCSplitBurn -----------------------------
(***************************************************************************)
(* SplitBurn for TLC.  Volumes are numbered in the order they are staged   *)
(* and are not interchangeable; locations are.  LCSAS is the default       *)
(* label_prefix, LCSAS_B one that its owner changed it to.                 *)
(***************************************************************************)
EXTENDS SplitBurn, TLC

BothPrefixes == {<<"LCSAS">>, <<"LCSAS", "B">>}

Symm == Permutations(Locations)

=============================================================================
