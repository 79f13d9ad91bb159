SPECIFICATION Spec
CONSTANTS
    Packs = {p1, p2}
    Targets = {"fresh"}
    MaxVolumes = 3
    MaxTime = 6
    MaxRebuilds = 1
    MaxDamages = 1
SYMMETRY Symm
INVARIANTS FreshestWins ArchivedIsOnDisc NoDiscForgotten
CHECK_DEADLOCK FALSE
ACTION_CONSTRAINT OneTroubleAtATime
