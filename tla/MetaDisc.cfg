SPECIFICATION Spec
CONSTANTS
    Repos = {r1, r2}
    Targets = {t1}
    Args <- MCArgs
    MaxVersion = 2
    MaxBuilds = 2
    MaxEvents = 2
SYMMETRY Symmetry
CHECK_DEADLOCK FALSE
INVARIANTS KeysOrRecord VerifyAgrees
