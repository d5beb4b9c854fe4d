SPECIFICATION FairSpec
CONSTANTS
  NoHash = NoHash
  StoredPow <- OneBlock
  TerminalTotalDifficulty = 10
  GenesisDifficulty = 1
  DifficultyOf <- Growing
  EnodeGiven = TRUE
  ReorgMaxDepth = 2
  ReorgFaked = TRUE
  PeerHeads <- Heads
  PeerVersions = {65, 66, 67}
  Nonces = {1, 2}
  Commands = {"consensus"}
  UseBuilder = TRUE
  SlotBound = 4
  MaxSignals = 1
PROPERTIES StopsAnyTime
CHECK_DEADLOCK FALSE
