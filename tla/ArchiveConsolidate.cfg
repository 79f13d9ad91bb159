SPECIFICATION Spec
CONSTANTS
    Packs = {p1}
    Locations = {home}
    MaxVolumes = 3
    MaxSessions = 3
    MaxCrashes = 1
    PruneFloor = 1
    Commands <- ConsolidateCommands
SYMMETRY Symm
INVARIANTS IInv NotesAreTrue
PROPERTIES DeprecationKeepsArchive
ACTION_CONSTRAINT CrashWhileDeprecating
