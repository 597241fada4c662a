SPECIFICATION LiveSpec
CONSTANTS
    Cap = 1
    MaxBatch = 2
    MaxTokens = 1
    MaxNotes = 1
INVARIANT LinkTypeOK
PROPERTIES
    LagBounded
    LoopReturns
    SettleReturns
