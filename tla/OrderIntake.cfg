SPECIFICATION IntakeSpec
CONSTANTS
    Base = 2
    Word = 8
    PriceDec = 1
    Token <- MCToken
    Decimals <- MCDecimals
    Market <- MCMarket
    Unlisted <- MCUnlisted
    MinQuantity = 1
    CommitsPerBatch = 2
    Texts <- MCTexts
    Balances <- MCBalances
    OtherFills <- MCOtherFills
    MaxBatches = 2
    MaxOthers = 1
INVARIANTS
    IntakeTypeOK
    
    NothingGained
CHECK_DEADLOCK FALSE
