SPECIFICATION FairSpec
CONSTANTS
    Keys = {k1, k2}
    NoKey = NoKey
    MintFee = 3
    FundAmount = 5
    MaxSupra = 9
    MaxForeign = 1
    MaxFaults = 1
INVARIANTS
    SetupTypeOK
    NftKeyKept
    ConfigMatchesKeystore
    ConfiguredMeansReady
PROPERTY
    SetupCompletes
