SPECIFICATION Spec
CONSTANTS
    Packs = {p1, p2}
    Locations = {}
    MaxVolumes = 2
    MaxRuns = 2
    MaxTroubles = 2
    Statuses = {"VERIFIED", "BURNED", "STAGING", "DEPRECATED"}
    Routes <- AllRoutes
INVARIANTS IntactWhenVerified FailsForCause NothingSlipsThrough
SYMMETRY Symm
ACTION_CONSTRAINT SameCommand
CHECK_DEADLOCK FALSE
