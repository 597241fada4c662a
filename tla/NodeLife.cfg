SPECIFICATION Spec
CONSTANTS
    Nft = 4
    Interval = 2
    Timeout = 7
    Spare = 0
    LivenessEvery = 3
    GasEvery = 3
    BlocksPerBatch = {2, 3}
    MaxBlock = 22
    MaxJump = 5
    MaxMoves = 2
    MaxFaults = 1
INVARIANTS
    LifeTypeOK
    ReapedForCause
    RecoversInTime
    PausesInTime
    StateTracksStrategy
CHECK_DEADLOCK FALSE
