\* Every provider, verification mode and block policy.
CONSTANTS
  Tokens <- MCTokens
  Prompt <- MCPrompt
  Target <- MCTarget
  Models <- MCModels
  Draft <- MCDraft
  Configs <- MCAll
  ScriptedProposals <- MCScripted
  Count = 7
  BlockSize = 4
  MaximumLength = 4
  SurvivalNum = 1
  SurvivalDen = 2
  CostNum = 9
  CostDen = 10
SPECIFICATION FairSpec
INVARIANTS
  TokensAreGreedy
  TargetFollowsTokens
  ProvidersAgree
PROPERTY
  ImplementsGreedyDecoding
