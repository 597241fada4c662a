CONSTANTS
  Order <- MCOrder
  Fields <- MCFields
  Symbol = {1, 2, 3}
  MinQuantity <- MCMin
  Modulus = 64
  MaxReveals = 4
  Arrivals <- MCArrivals
SPECIFICATION NodesSpec
INVARIANTS MatchingTypeOK FillsLegal NoOverfill UniqueMatchHashes NothingLeft PriorityKept NodesAgree
PROPERTY MatchingEnds
