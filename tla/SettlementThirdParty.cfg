CONSTANTS
  Token = {"BASE", "QUOTE"}
  Nft = {1, 2, 3}
  OwnNft = 1
  Match <- PeerMatch
  Trade <- PeerTrade
  Divisor = 1
  Word = 8
  SeedLoses = FALSE
  BlocksPerBatch = 2
  SwapStart = 1
  SettlementMaxAge = 1
  ContractMaxAge = 1
  SwapLists <- PeerLists
  SettleCap = 1
  ResultCap = 1
  EventLimit = 1
  AbortCode <- MCAbortCode
  TradeIdIsKey = FALSE
  PollMayFail = FALSE
  BackstopWired = FALSE
  Withdrawals = {}
  InitBalance <- MCBalance
  MaxHeight = 2
  StableHeight = 6
  MaxRestarts = 0
SPECIFICATION Spec
INVARIANT OnlyOwnTrades
