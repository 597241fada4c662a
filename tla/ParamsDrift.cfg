SPECIFICATION Spec
CONSTANTS
    Nft = 4
    Interval = 2
    Timeout = 6
    Spare = 0
    LivenessEvery = 3
    GasEvery = 2
    BlocksPerBatch = {2, 3}
    MaxBlock = 24
    MaxJump = 4
    MaxMoves = 3
    MaxFaults = 1
INVARIANT BridgeAgrees
CHECK_DEADLOCK FALSE
