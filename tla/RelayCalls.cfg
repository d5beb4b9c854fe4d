SPECIFICATION RelaySpec
CONSTANTS
  NoHash = NoHash
  v1 = v1
  v2 = v2
  StoredChain <- PowChain
  Offered <- MergeOffers
  Slots = {1}
  CacheSize = 2
  GenesisDifficulty = 0
  PowDifficulty = 1
  TerminalTotalDifficulty = 1
  Requests = {r1, r2}
  Validators = {v1, v2}
  Batches <- TwoBatches
  Calls = {c1, c2, c3}
INVARIANTS NoPayloadBeforeTTD RelayTypeOK RevealedToBidder RevealedOnSignedParent RegistrationsKept RegistrationsSigned
SYMMETRY RequestAndCallSymmetry
CHECK_DEADLOCK FALSE
