SPECIFICATION EngineSpec
CONSTANTS
  NoHash = NoHash
  StoredChain <- PowChain
  Offered <- PowOffers
  Slots = {1}
  CacheSize = 4
  GenesisDifficulty = 1
  PowDifficulty = 1
  TerminalTotalDifficulty = 2
  Requests = {r1, r2}
INVARIANT TerminalMeansTTD
SYMMETRY RequestSymmetry
CHECK_DEADLOCK FALSE
