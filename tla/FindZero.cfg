SPECIFICATION Spec
CONSTANTS
    Packs = {p1, p2}
    Locations = {home}
    MaxVolumes = 1
    MaxSessions = 1
    MaxCrashes = 0
    PruneFloor = 1
    Commands <- ScanCommands
CHECK_DEADLOCK FALSE
PROPERTIES MarkedIsGone
