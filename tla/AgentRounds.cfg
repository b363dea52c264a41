SPECIFICATION AgentSpec
CONSTANTS
  Kinds <- MCBacklog
  MaxRounds = 2
  Drafts <- MCRunDraft
  Mistakes = {}
  Outcomes = {"approve", "deny"}
  Endings = {"executed"}
  Verdicts <- MCPassVerdicts
  None = None
INVARIANTS
  ReceiptBindsOneRound
  RunsAreApproved
  VerifiedIsProven
