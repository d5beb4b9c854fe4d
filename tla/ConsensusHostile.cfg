SPECIFICATION Spec
CONSTANTS
  NoHash = NoHash
  StoredChain <- PowChain
  TransitionBlock = 2
  StartSlot <- CountingDown
  SlotsPerEpoch = 2
  SlotBound = 0
  ReorgMaxDepth = 2
  Steps = {1, 2}
  Faked = {"gap", "badHash", "reorg", "proposal"}
  UseBuilder = FALSE
  EngineTimely = FALSE
  EngineFaults = {"forkchoice", "getPayload", "timestamp", "payload", "execute"}
  BuildMayFail = TRUE
  MaxTicks = 5
INVARIANTS TypeOK  SlotsIncrease
PROPERTY ImplementsChainTree
CHECK_DEADLOCK FALSE
