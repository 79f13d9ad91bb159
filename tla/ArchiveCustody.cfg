SPECIFICATION Spec
CONSTANTS
    Packs = {p1, p2}
    Locations = {home, vault}
    MaxVolumes = 2
    MaxSessions = 1
    MaxCrashes = 1
    PruneFloor = 1
    Commands <- CustodyCommands
SYMMETRY Symm
INVARIANTS DurableBacked RecordedDiscIsReal NoImageNoWaiting CompleteHasDiscs PendingInSession PruneOnlyAbsent
PROPERTIES RecordedVolumeKept
ACTION_CONSTRAINT PrunesFirst
