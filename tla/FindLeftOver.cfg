SPECIFICATION Spec
CONSTANTS
    Packs = {p1, p2}
    Locations = {}
    MaxVolumes = 2
    MaxRuns = 2
    MaxTroubles = 1
    Statuses = {"VERIFIED", "BURNED", "STAGING", "DEPRECATED"}
    Routes <- AllRoutes
INVARIANT PrunedAreValid
ACTION_CONSTRAINT SameCommand
CHECK_DEADLOCK FALSE
