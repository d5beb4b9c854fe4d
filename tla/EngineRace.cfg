SPECIFICATION EngineSpec
CONSTANTS
  NoHash = NoHash
  StoredChain <- FreshChain
  Offered <- ForkOffers
  Slots = {1}
  CacheSize = 4
  GenesisDifficulty = 1
  PowDifficulty = 1
  TerminalTotalDifficulty = 0
  Requests = {r1, r2, r3, r4}
INVARIANTS EngineTypeOK IdNamesOnePayload OwnPayloadNeverSyncing NoEarlyEviction
PROPERTY ImplementsChainTree
SYMMETRY RequestSymmetry
CHECK_DEADLOCK FALSE
