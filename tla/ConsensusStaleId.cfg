SPECIFICATION Spec
CONSTANTS
  NoHash = NoHash
  StoredChain <- FreshChain
  TransitionBlock = 0
  StartSlot = 0
  SlotsPerEpoch = 2
  SlotBound = 0
  ReorgMaxDepth = 0
  Steps = {1}
  Faked = {"badHash", "proposal"}
  UseBuilder = FALSE
  EngineTimely = TRUE
  EngineFaults = {}
  BuildMayFail = FALSE
  MaxTicks = 4
INVARIANT ProposalForItsSlot
CHECK_DEADLOCK FALSE
