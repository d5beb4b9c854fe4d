SPECIFICATION RelaySpec
CONSTANTS
  NoHash = NoHash
  v1 = v1
  v2 = v2
  StoredChain <- FreshChain
  Offered <- NoOffers
  Slots = {1}
  CacheSize = 4
  GenesisDifficulty = 1
  PowDifficulty = 1
  TerminalTotalDifficulty = 0
  Requests = {r1, r2}
  Validators = {v1}
  Batches <- NoBatches
  Calls = {c1, c2}
INVARIANT BidIsHonoured
SYMMETRY RequestAndCallSymmetry
CHECK_DEADLOCK FALSE
