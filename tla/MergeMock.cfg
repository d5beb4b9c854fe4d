SPECIFICATION MockFairSpec
CONSTANTS
  NoHash = NoHash
  StoredChain <- FreshChain
  TransitionBlock = 0
  StartSlot = 0
  SlotsPerEpoch = 2
  SlotBound = 4
  ReorgMaxDepth = 2
  Steps = {1}
  Faked = {"gap", "reorg", "proposal"}
  UseBuilder = FALSE
  EngineTimely = FALSE
  EngineFaults = {"forkchoice", "getPayload", "execute"}
  BuildMayFail = FALSE
  MaxTicks = 5
  CacheSize = 2
  MaxLate = 1
INVARIANTS ChainsAgree TimelyRunSucceeds TimelyForkchoice
PROPERTIES ImplementsConsensusNode BoundedRunTerminates
CHECK_DEADLOCK FALSE
