SPECIFICATION SplitBurnSpec
CONSTANTS
    Locations = {home, vault}
    Prefixes <- BothPrefixes
    Kinds = {"BD25_2026"}
    MaxVolumes = 3
    MaxReceipts = 2
SYMMETRY Symm
INVARIANT SplitInv
CHECK_DEADLOCK FALSE
