SPECIFICATION Spec
CONSTANTS
  Nil = Nil
  Container <- Schema
  Kinds <- AllKinds
  Texts <- SampleTexts
  Jsons <- SampleJsons
  NoInput = NoInput
  Lengths = {0, 2}
  Nudges = {4}
  MaxOps = 2
INVARIANTS DecodeForgets DecodedIsUsable SizeIsLength EncodedIsHashable BaseFeeSurvives
PROPERTY TextNeverMixes
CHECK_DEADLOCK FALSE
