----------------------------- MODULE MCMetaDisc -----------------------------
(* The meta disc with two repositories and one target.                     *)
EXTENDS MetaDisc, TLC

Symmetry == Permutations(Repos)

\* The flags one by one and the pairs that matter; a build with no catalog;
\* a build with no extras.
MCArgs ==
    [incomplete : BOOLEAN, missing : BOOLEAN, without : {{}}, catalog : {TRUE}]
        \cup {[incomplete |-> FALSE, missing |-> FALSE, without |-> Extras, catalog |-> c] : c \in BOOLEAN}

=============================================================================
