CONSTANTS
  Token = {"BASE", "QUOTE"}
  Nft = {1, 2, 3}
  OwnNft = 1
  Match <- PeerMatch
  Trade <- PeerTrade
  Divisor = 1
  Word = 8
  SeedLoses = TRUE
  BlocksPerBatch = 2
  SwapStart = 1
  SettlementMaxAge = 1
  ContractMaxAge = 1
  SwapLists <- PeerLists
  SettleCap = 1
  ResultCap = 1
  EventLimit = 2
  AbortCode <- MCAbortCode
  TradeIdIsKey = FALSE
  PollMayFail = FALSE
  BackstopWired = TRUE
  Withdrawals = {1}
  InitBalance <- MCBalance
  MaxHeight = 5
  StableHeight = 6
  MaxRestarts = 1
SPECIFICATION Spec
INVARIANTS Solvent
PROPERTIES ImplementsHeldFunds
