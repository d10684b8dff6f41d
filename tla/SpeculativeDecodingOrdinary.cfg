\* What the design document says of a block without candidates.
CONSTANTS
  Tokens <- MCTokens
  Prompt <- MCPrompt
  Target <- MCTarget
  Models <- MCModels
  Draft <- MCDraft
  Configs <- MCAdaptiveExpertMajor
  ScriptedProposals <- MCScripted
  Count = 7
  BlockSize = 4
  MaximumLength = 4
  SurvivalNum = 1
  SurvivalDen = 2
  CostNum = 9
  CostDen = 10
SPECIFICATION Spec
PROPERTY OrdinaryStepIsNoOp
