SPECIFICATION Spec
CONSTANTS
    Packs = {p1, p2}
    Targets = {"fresh"}
    MaxVolumes = 2
    MaxTime = 4
    MaxRebuilds = 1
    MaxDamages = 0
SYMMETRY Symm
INVARIANT FreshestWinsAlways
CHECK_DEADLOCK FALSE
ACTION_CONSTRAINT OneTroubleAtATime
