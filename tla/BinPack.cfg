SPECIFICATION FairSpec
CONSTANTS
    Packs <- MCPacks
    Sizes <- MCSizes
    Capacities = {7}
    EccPercents = {0, 15}
    Reserves <- MCReserves
INVARIANTS BinInv EstimateBounds
PROPERTIES ImplementsBinPlan Terminates
CHECK_DEADLOCK FALSE
