SPECIFICATION Spec
CONSTANTS
  NoHash = NoHash
  StoredChain <- FreshChain
  TransitionBlock = 0
  StartSlot <- CountingDown
  SlotsPerEpoch = 2
  SlotBound = 11
  ReorgMaxDepth = 0
  Steps = {1, 2}
  Faked = {"gap", "badHash", "reorg", "proposal"}
  UseBuilder = TRUE
  EngineTimely = TRUE
  EngineFaults = {"timestamp"}
  BuildMayFail = TRUE
  MaxTicks = 7
INVARIANTS FinalityIsPrefix OnePendingProposal
CHECK_DEADLOCK FALSE
