SPECIFICATION SplitBurnSpec
CONSTANTS
    Locations = {home, vault}
    Prefixes <- BothPrefixes
    Kinds = {"BD25_2026"}
    MaxVolumes = 2
    MaxReceipts = 1
SYMMETRY Symm
INVARIANT NumberIsAboveAll
CHECK_DEADLOCK FALSE
