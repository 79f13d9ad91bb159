------------------------------ MODULE MCRebuild ------------------------------
(***************************************************************************)
(* Rebuild for TLC.                                                        *)
(***************************************************************************)
EXTENDS Rebuild, TLC

Symm == Permutations(Packs)

\* The run looks at damaged discs, lost file times and the times of copying
\* one at a time, and ends with its last rebuild.
OneTroubleAtATime ==
    /\ pc = "idle" => rebuilds < MaxRebuilds
    /\ pc' = "merge" =>
          LET damaged == {d \in chosen' : condition'[d] # "fine"}
              lost    == {d \in chosen' : mtime'[d] = 0}
              copied  == {d \in chosen' : Copied(d)'}
          IN  Cardinality({S \in {damaged, lost, copied} : S # {}}) <= 1

=============================================================================
