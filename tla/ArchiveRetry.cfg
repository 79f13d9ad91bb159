SPECIFICATION FairSpec
CONSTANTS
    Packs = {p1, p2}
    Locations = {home}
    MaxVolumes = 2
    MaxSessions = 1
    MaxCrashes = 0
    PruneFloor = 1
    Commands <- RetryCommands
PROPERTIES StagedGetsBurned
