CONSTANTS
  Token = {"BASE", "QUOTE"}
  Nft = {1, 2, 3}
  OwnNft = 1
  Match <- NodeMatch
  Trade <- NodeTrade
  Divisor = 1
  Word = 8
  SeedLoses = FALSE
  BlocksPerBatch = 2
  SwapStart = 1
  SettlementMaxAge = 1
  ContractMaxAge = 1
  SwapLists <- NodeLists
  SettleCap = 1
  ResultCap = 1
  EventLimit = 1
  AbortCode <- MCAbortCode
  TradeIdIsKey = FALSE
  PollMayFail = TRUE
  BackstopWired = FALSE
  Withdrawals = {}
  InitBalance <- MCBalance
  MaxHeight = 8
  StableHeight = 6
  MaxRestarts = 0
SPECIFICATION FairSpec
INVARIANTS TypeOK ReservationsMatchPending SubmittedAtMostOnce
PROPERTIES ImplementsHeldFunds PendingResolved
