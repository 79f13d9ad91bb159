SPECIFICATION Spec
CONSTANTS
    Packs = {1, 2, 3}
    Volumes = 3
    MaxRuns = 2
    MaxKills = 1
    MaxAsks = 2
    CONT = 8
    MIN_MASTER_SECRET_BYTES = 4
    DIGEST_LENGTH_BYTES = 1
    MIN_SHARE_TOKENS = 9
    TreeOf <- MCTreeOf
    IndexOf <- MCIndexOf
    SnapshotsOf <- MCSnapshotsOf
    Cases <- SoundCases
    Password <- MCPassword
    RunsIn <- MCRunsIn
INVARIANT PicksUp
CHECK_DEADLOCK FALSE
