SPECIFICATION FairSpec
CONSTANTS
    None = None
    StartCapital = TRUE
    Window = 1
    MaxFaults = 1
INVARIANTS
    TxTypeOK
    WaitersDontCollide
PROPERTIES
    GapCloses
