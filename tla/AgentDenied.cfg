SPECIFICATION AgentSpec
CONSTANTS
  Kinds <- MCFailedBacklog
  MaxRounds = 1
  Drafts <- MCReconcileDraft
  Mistakes = {}
  Outcomes = {"approve", "deny", "expire"}
  Endings = {"not-run", "denied", "executed", "failed"}
  Verdicts <- MCVerdicts
  None = None
INVARIANTS
  BoundIsReceipted
