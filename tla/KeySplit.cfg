SPECIFICATION Spec
CONSTANTS
    Keys = {"a"}
    Aliases = {"x"}
    RepoIds = {r1, r2}
    Passwords = {p, q}
    Shapes <- MCShapes
    MaxCards = 3
    MaxSubsets = 2
    MaxSplits = 2
    MaxEdits = 2
INVARIANTS CardsRecover RowsAreSplits DiscTellsTruth
SYMMETRY Symm
CHECK_DEADLOCK FALSE
