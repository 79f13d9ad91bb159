----------------------------- MODULE MCKeySplit -----------------------------
EXTENDS KeySplit, TLC

\* A single card, two of three, and two that split_secret refuses.
MCShapes == {<<1, 1>>, <<2, 3>>, <<1, 2>>, <<3, 2>>}

Symm == Permutations(RepoIds) \cup Permutations(Passwords)

=============================================================================
