SPECIFICATION Spec
CONSTANTS
  NoHash = NoHash
  StoredChain <- FreshChain
  TransitionBlock = 0
  StartSlot = 0
  SlotsPerEpoch = 2
  SlotBound = 0
  ReorgMaxDepth = 2
  Steps = {1}
  Faked = {"reorg"}
  UseBuilder = FALSE
  EngineTimely = TRUE
  EngineFaults = {}
  BuildMayFail = FALSE
  MaxTicks = 8
PROPERTY ReorgBuildsOnAncestor
CHECK_DEADLOCK FALSE
