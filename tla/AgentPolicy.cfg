SPECIFICATION AgentSpec
CONSTANTS
  Kinds <- AllKinds
  MaxRounds = 1
  Drafts <- MCPolicyDrafts
  Mistakes = {"CONVERGED"}
  Outcomes = {}
  Endings = {"executed"}
  Verdicts = {}
  None = None
INVARIANTS
  AgentTypeOK
  PrimaryIsMostPressing
  EveryObservationIsAnswered
  ConvergedIsTrue
  DoubtIsEscalated
  WaveCOnlyProposes
