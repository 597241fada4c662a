SPECIFICATION Spec
CONSTANTS
  n1 = n1
  n2 = n2
  n3 = n3
  Node = {n1, n2}
  Trader = {n2}
  Stray = {}
  StrayMessages = {}
  PoolOf <- TwoPools
  CommitBlocks = 1
  RevealBlocks = 1
  MatchBlocks = 1
  BlocksPerBatch = 4
  CommitsPerBatch = 1
  MaxIndex = 2
  SkipAhead = 1
  BATCH_WINDOW = 2
  PUBKEY_FETCH_INTERVAL = 1
  MAX_MSGS_PER_NFT_PER_BATCH = 3
  FirstBatch = 2
  StartBlock = 3
  MaxBlock = 11
INVARIANTS
  SameRevealsSameInput
