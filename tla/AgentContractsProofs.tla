------------------------ MODULE AgentContractsProofs ------------------------
(***************************************************************************)
(* What every receipt of the bounded-agent contract means, for every set   *)
(* of observations, every number of rounds and every hand-made proposal.   *)
(* All of it rests on one invariant: the records a receipt binds pass the  *)
(* checks of build_structured_receipt, and its status is what they derive. *)
(* What is left is to work out what those checks require of them.          *)
(***************************************************************************)
EXTENDS AgentContracts, TLAPS

ReceiptIsAnswer ==
  receipt # None =>
    /\ Bound(receipt.observation, receipt.classification, receipt.proposal,
             receipt.approval, receipt.execution, receipt.verification)
    /\ receipt.status = StatusOf(receipt.approval, receipt.execution,
                                 receipt.verification)

\* Records are made only when no receipt lies there; BuildReceipt answers.
LEMMA ReceiptAlwaysAnswer == AgentSpec => []ReceiptIsAnswer
<1>1. AgentInit => ReceiptIsAnswer
  BY DEF AgentInit, ReceiptIsAnswer
<1>2. ReceiptIsAnswer /\ [AgentNext]_agentVars => ReceiptIsAnswer'
  <2> SUFFICES ASSUME ReceiptIsAnswer, [AgentNext]_agentVars
               PROVE  ReceiptIsAnswer'
    OBVIOUS
  <2>1. CASE receipt' = None
    BY <2>1 DEF ReceiptIsAnswer
  <2>2. ASSUME NEW a, NEW e, NEW v, BuildReceipt(a, e, v)
        PROVE  ReceiptIsAnswer'
    BY <2>2 DEF BuildReceipt, Accepted, ReceiptIsAnswer
  <2>3. CASE UNCHANGED agentVars
    BY <2>3 DEF ReceiptIsAnswer, agentVars
  <2>4. AgentNext => \/ receipt' = None
                     \/ \E a, e, v : BuildReceipt(a, e, v)
    BY DEF AgentNext, MakeRecord, Observe, Classify, Reclassify, Propose, Draft,
           Decide, Execute, Verify, TakeReceipt
  <2> QED
    BY <2>1, <2>2, <2>3, <2>4
<1> QED
  BY <1>1, <1>2, PTL DEF AgentSpec
\* Observations are of the given kinds, on the desk and in a receipt.
KindsOK == /\ observation # None => observation.kind \in Kinds
           /\ receipt # None => receipt.observation.kind \in Kinds

LEMMA KindsAlwaysOK == AgentSpec => []KindsOK
<1>1. AgentInit => KindsOK
  BY DEF AgentInit, KindsOK
<1>2. KindsOK /\ [AgentNext]_agentVars => KindsOK'
  <2> SUFFICES ASSUME KindsOK, [AgentNext]_agentVars
               PROVE  KindsOK'
    OBVIOUS
  <2>1. CASE Observe
    BY <2>1 DEF Observe, KindsOK
  <2>2. CASE receipt' = None /\ UNCHANGED observation
    BY <2>2 DEF KindsOK
  <2>3. ASSUME NEW a, NEW e, NEW v, BuildReceipt(a, e, v)
        PROVE  KindsOK'
    BY <2>3 DEF BuildReceipt, desk, KindsOK
  <2>4. CASE UNCHANGED agentVars
    BY <2>4 DEF agentVars, desk, KindsOK
  <2>5. AgentNext => \/ Observe
                     \/ receipt' = None /\ UNCHANGED observation
                     \/ \E a, e, v : BuildReceipt(a, e, v)
    BY DEF AgentNext, MakeRecord, Classify, Reclassify, Propose, Draft, Decide,
           Execute, Verify, TakeReceipt, desk
  <2> QED
    BY <2>1, <2>2, <2>3, <2>4, <2>5
<1> QED
  BY <1>1, <1>2, PTL DEF AgentSpec
-----------------------------------------------------------------------------
(* What an answer requires.                                                *)

\* A receipt is issued only for records that pass every binding check.
LEMMA IssuedIsBound ==
  ASSUME ReceiptIsAnswer, Issued
  PROVE  /\ Bound(receipt.observation, receipt.classification, receipt.proposal,
                  receipt.approval, receipt.execution, receipt.verification)
         /\ receipt.status = StatusOf(receipt.approval, receipt.execution,
                                      receipt.verification)
BY DEF ReceiptIsAnswer, Issued

\* Only the four INVOKE rows are bounded executions, and all are forbidden in
\* wave C; a row that asks for no approval among them is INVOKE_VERIFY's.
LEMMA BoundedRows ==
  ASSUME NEW op, Policy(op).class = "bounded-execution"
  PROVE  /\ op \in BoundedOps
         /\ Policy(op).waveC = "forbid"
         /\ Policy(op).approval = "none" => op = "INVOKE_VERIFY"
BY DEF Policy, Row, ReadOnlyOps, ProposalOps, EscalationOps, OwnerOps, ProviderOps,
       BoundedOps

\* Among the findings of an observation, one that has to be escalated is
\* never outranked by one that need not be.
LEMMA DoubtIsPrimary ==
  ASSUME NEW k \in AllKinds, NEW c \in Findings(k), Actionability(c) = "escalate"
  PROVE  AllowedOperations(k, Primary(k)) = {"ESCALATE_STATE"}
<1>1. CASE k \in ReplicationKinds
  BY <1>1 DEF ReplicationKinds, Findings, Troubles, ReplicationTroubles, Only,
     Actionability, AllowedOperations, Primary, ReplicationPrimary
<1>2. CASE k \in ProcessorKinds
  BY <1>2 DEF ProcessorKinds, Findings, Troubles, ProcessorTroubles, Only,
     Actionability, AllowedOperations, Primary, ProcessorPrimary
<1> QED
  BY <1>1, <1>2 DEF AllKinds

\* The classifier says CONVERGED only of an observation with no trouble.
LEMMA ConvergedHasNoTrouble ==
  ASSUME NEW k \in AllKinds, Primary(k) = "CONVERGED"
  PROVE  Troubles(k) = {}
<1>1. CASE k \in ReplicationKinds
  BY <1>1 DEF ReplicationKinds, Troubles, ReplicationTroubles, Only, Primary,
     ReplicationPrimary
<1>2. CASE k \in ProcessorKinds
  BY <1>2 DEF ProcessorKinds, Troubles, ProcessorTroubles, Only, Primary,
     ProcessorPrimary
<1> QED
  BY <1>1, <1>2 DEF AllKinds
-------------------------------------------------------------------------------
(* Type correctness.                                                       *)

\* The policy table, the classifier and the proposer return what they should.
LEMMA TableTypes ==
  /\ \A op : Policy(op) \in Rows
  /\ \A k : Primary(k) \in Codes
  /\ \A k, c : DefaultOperation(k, c) \in Operations
<1>1. \A op : Policy(op) \in Rows
  BY DEF Policy, Row, Rows
<1>2. \A k : Primary(k) \in Codes
  BY DEF Primary, ReplicationPrimary, ProcessorPrimary, Codes
<1>3. \A k, c : DefaultOperation(k, c) \in Operations
  BY DEF DefaultOperation, Operations, ReadOnlyOps, ProposalOps, EscalationOps
<1> QED
  BY <1>1, <1>2, <1>3

LEMMA FindingsAreCodes == ASSUME NEW k \in AllKinds PROVE Findings(k) \subseteq Codes
BY DEF Findings, Troubles, ReplicationTroubles, ProcessorTroubles, Only, Codes

LEMMA ProposalTypes ==
  ASSUME NEW o \in Observations, NEW c \in Classifications, NEW op \in Operations,
         NEW phase \in Phases, NEW d \in {"allow", "escalate"}, NEW row \in Rows
  PROVE  ProposalFor(o, c, op, phase, d, row) \in Proposals
BY AgentAssumption DEF ProposalFor, Proposals, Parameters, Observations

LEMMA StatusTypes ==
  ASSUME NEW a, NEW e, NEW v PROVE StatusOf(a, e, v) \in ReceiptStatuses
BY DEF StatusOf, ReceiptStatuses

\* A record lies on the desk only with those it was made from, or with later
\* ones of their types.  Decide, Execute and Verify read them without asking.
DeskFilled ==
  /\ classification = None \/ observation \in Observations
  /\ proposal = None \/ /\ observation \in Observations
                        /\ classification \in Classifications
  /\ execution = None \/ /\ observation \in Observations
                         /\ classification \in Classifications
                         /\ proposal \in Proposals

\* Every record on the desk, and the receipt, has its type.
THEOREM AgentTypeCorrect == AgentSpec => []AgentTypeOK
<1> DEFINE Inv == AgentTypeOK /\ DeskFilled
<1> USE AgentAssumption
<1>1. AgentInit => Inv
  <2>1. AgentInit => AgentTypeOK
    BY DEF AgentInit, AgentTypeOK
  <2>2. AgentInit => DeskFilled
    BY DEF AgentInit, DeskFilled
  <2> QED
    BY <2>1, <2>2
<1>2. Inv /\ [AgentNext]_agentVars => Inv'
  <2> SUFFICES ASSUME Inv, [AgentNext]_agentVars
               PROVE  Inv'
    OBVIOUS
  <2>1. CASE Observe
    <3>1. ASSUME NEW kind \in Kinds,
                 NEW findings \in {Findings(kind)} \cup {{c} : c \in Mistakes}
          PROVE  findings \in SUBSET Codes
      BY <3>1, FindingsAreCodes
    <3>2. observation' \in Observations
      BY <2>1, <3>1 DEF Observe, Observations, AgentTypeOK
    <3> QED
      BY <2>1, <3>2 DEF Observe, AgentTypeOK, DeskFilled
  <2>2. CASE Classify
    <3>1. observation \in Observations
      BY <2>2 DEF Classify, AgentTypeOK
    <3>2. classification' \in Classifications
      BY <2>2, <3>1, TableTypes DEF Classify, Classifications
    <3> QED
      BY <2>2, <3>2 DEF Classify, AgentTypeOK, DeskFilled
  <2>3. ASSUME NEW code \in Mistakes, Reclassify(code)
        PROVE  Inv'
    <3>1. observation \in Observations
      BY <2>3 DEF Reclassify, AgentTypeOK
    <3>2. classification' \in Classifications
      BY <2>3, <3>1 DEF Reclassify, Classifications
    <3> QED
      BY <2>3, <3>2 DEF Reclassify, AgentTypeOK, DeskFilled
  <2>4. CASE Propose
    <3>1. observation \in Observations /\ classification \in Classifications
      BY <2>4 DEF Propose, AgentTypeOK
    <3> DEFINE op == DefaultOperation(observation.kind, classification.code)
    <3>2. Disposition(Policy(op), "wave-c") \in {"allow", "escalate"}
      <4>1. Policy(op).waveC \in {"allow", "forbid", "escalate"}
        BY TableTypes DEF Rows
      <4> QED
        BY <2>4, <4>1 DEF Propose, Proposable, Disposition
    <3>3. op \in Operations /\ Policy(op) \in Rows
      BY TableTypes
    <3>4. proposal' \in Proposals
      BY <2>4, <3>1, <3>2, <3>3, ProposalTypes DEF Propose, Phases
    <3> QED
      BY <2>4, <3>4 DEF Propose, AgentTypeOK, DeskFilled
  <2>5. ASSUME NEW d \in Drafts, Draft(d)
        PROVE  Inv'
    <3>1. observation \in Observations /\ classification \in Classifications
      BY <2>5 DEF Draft, AgentTypeOK
    <3>2. /\ d.operation \in Operations
          /\ d.phase \in Phases
          /\ d.disposition \in {"allow", "escalate"}
      BY DEF AllDrafts
    <3>3. /\ Policy(d.operation) \in Rows
          /\ [Policy(d.operation) EXCEPT !.approval = "none"] \in Rows
      BY TableTypes DEF Rows
    <3>4. proposal' \in Proposals
      BY <2>5, <3>1, <3>2, <3>3, ProposalTypes DEF Draft
    <3> QED
      BY <2>5, <3>4 DEF Draft, AgentTypeOK, DeskFilled
  <2>6. ASSUME NEW outcome \in Outcomes, Decide(outcome)
        PROVE  Inv'
    <3>1. proposal \in Proposals /\ observation \in Observations
      BY <2>6 DEF Decide, AgentTypeOK, DeskFilled
    <3>2. approval' \in Approvals
      BY <2>6, <3>1 DEF Decide, Approvals
    <3> QED
      BY <2>6, <3>2 DEF Decide, AgentTypeOK, DeskFilled
  <2>7. ASSUME NEW status \in Endings, NEW input \in 1..round,
               NEW a \in {None, approval}, Execute(status, input, a)
        PROVE  Inv'
    <3>1. /\ proposal \in Proposals /\ observation \in Observations
          /\ classification \in Classifications
      BY <2>7 DEF Execute, AgentTypeOK, DeskFilled
    <3>2. a \in Approvals \cup {None} /\ input \in 0..MaxRounds
      BY DEF AgentTypeOK
    <3>3. execution' \in Executions
      BY <2>7, <3>1, <3>2 DEF Execute, Executions
    <3> QED
      BY <2>7, <3>1, <3>3 DEF Execute, AgentTypeOK, DeskFilled
  <2>8. ASSUME NEW verdict \in Verdicts, Verify(verdict)
        PROVE  Inv'
    <3>1. /\ proposal \in Proposals /\ observation \in Observations
          /\ classification \in Classifications /\ execution \in Executions
      BY <2>8 DEF Verify, AgentTypeOK, DeskFilled
    <3>2. verification' \in Verifications
      BY <2>8, <3>1 DEF Verify, Verifications
    <3> QED
      BY <2>8, <3>2 DEF Verify, AgentTypeOK, DeskFilled
  <2>9. ASSUME NEW a \in {None, approval}, NEW e \in {None, execution},
               NEW v \in {None, verification}, BuildReceipt(a, e, v)
        PROVE  Inv'
    <3>1. /\ proposal \in Proposals /\ observation \in Observations
          /\ classification \in Classifications
          /\ a \in Approvals \cup {None} /\ e \in Executions \cup {None}
          /\ v \in Verifications \cup {None}
      BY <2>9 DEF BuildReceipt, AgentTypeOK
    <3>2. receipt' \in Receipts
      BY <2>9, <3>1, StatusTypes DEF BuildReceipt, Receipts
    <3> QED
      BY <2>9, <3>2 DEF BuildReceipt, desk, AgentTypeOK, DeskFilled
  <2>10. CASE UNCHANGED agentVars
    BY <2>10 DEF agentVars, desk, AgentTypeOK, DeskFilled
  <2>11. CASE TakeReceipt
    BY <2>11 DEF TakeReceipt, desk, AgentTypeOK, DeskFilled
  <2> QED
    BY <2>1, <2>2, <2>3, <2>4, <2>5, <2>6, <2>7, <2>8, <2>9, <2>10, <2>11
       DEF AgentNext, MakeRecord
<1> QED
  BY <1>1, <1>2, PTL DEF AgentSpec
---------------------------------------------------------------------------
(* The properties.                                                         *)

\* The records a receipt binds are all of one round and one proposal.
THEOREM ReceiptsBindOneRound == AgentSpec => []ReceiptBindsOneRound
<1>1. ReceiptIsAnswer => ReceiptBindsOneRound
  <2> SUFFICES ASSUME ReceiptIsAnswer, Issued PROVE ReceiptBindsOneRound
    BY DEF ReceiptBindsOneRound
  <2> DEFINE o == receipt.observation
             c == receipt.classification
             p == receipt.proposal
             a == receipt.approval
             e == receipt.execution
             v == receipt.verification
  <2>1. Bound(o, c, p, a, e, v)
    BY IssuedIsBound
  <2>2. c.observation = o /\ p.observation = o /\ p.classification = c
    BY <2>1 DEF Bound, ValidProposal, ValidClassification
  <2>3. a # None => a.proposal = p /\ a.observation = o
    BY <2>1 DEF Bound, ReadOnlyPath, DeclinedPath, ExecutedPath, ApprovalClause,
       ApprovalMatches
  <2>4. ASSUME e # None
        PROVE  /\ e.observation = o /\ e.classification = c /\ e.proposal = p
               /\ e.input = o.round /\ e.approval = a
               /\ v # None => v.execution = e /\ v.proposal = p /\ v.observation = o
    <3>1. ExecutedPath(o, c, p, a, e, v)
      BY <2>1, <2>4 DEF Bound, ReadOnlyPath, DeclinedPath
    <3>2. e.observation = o /\ e.classification = c /\ e.proposal = p
      BY <3>1 DEF ExecutedPath, ExecutionBinds
    <3>3. p.operation # "NO_ACTION"
      <4>1. Policy(p.operation).class = "bounded-execution"
        BY <2>1, <3>1 DEF ExecutedPath, Bound, ValidProposal
      <4> QED
        BY <4>1, BoundedRows DEF BoundedOps, OwnerOps
    <3>4. e.input = o.round
      BY <2>1, <3>1, <3>3 DEF ExecutedPath, ExecutionBinds, Bound, ValidProposal,
         Parameters
    <3>5. e.approval = a
      BY <3>1 DEF ExecutedPath, ApprovalClause
    <3>6. v # None => v.execution = e /\ v.proposal = p /\ v.observation = o
      BY <3>1 DEF ExecutedPath, VerificationClause
    <3> QED
      BY <3>2, <3>4, <3>5, <3>6
  <2>5. v # None => e # None
    BY <2>1 DEF Bound, ReadOnlyPath, DeclinedPath, ExecutedPath
  <2> QED
    BY <2>2, <2>3, <2>4, <2>5 DEF ReceiptBindsOneRound
<1> QED
  BY <1>1, ReceiptAlwaysAnswer, PTL

\* No run, reconcile or processor run is receipted without its approval.
THEOREM EveryRunIsApproved == AgentSpec => []RunsAreApproved
<1>1. ReceiptIsAnswer => RunsAreApproved
  <2> SUFFICES ASSUME ReceiptIsAnswer, Issued, receipt.execution # None,
                      receipt.proposal.operation \in OwnerOps
               PROVE  RunsAreApproved
    BY DEF RunsAreApproved
  <2> DEFINE o == receipt.observation
             p == receipt.proposal
             a == receipt.approval
  <2>1. /\ p.row = Policy(p.operation)
        /\ p.row.class = "bounded-execution"
        /\ ApprovalClause(o, p, a, receipt.execution)
    BY IssuedIsBound DEF Bound, ValidProposal, ReadOnlyPath, DeclinedPath, ExecutedPath
  <2>2. p.row.approval # "none"
    BY <2>1, BoundedRows DEF OwnerOps
  <2>3. /\ a # None /\ a.outcome = "approve"
        /\ ApprovalMatches(a, p, o)
    BY <2>1, <2>2 DEF ApprovalClause
  <2> QED
    BY <2>3 DEF ApprovalMatches, RunsAreApproved
<1> QED
  BY <1>1, ReceiptAlwaysAnswer, PTL

\* Wave C is read-only, whatever a caller drafts.
THEOREM WaveCIsReadOnly == AgentSpec => []WaveCOnlyProposes
<1>1. ReceiptIsAnswer => WaveCOnlyProposes
  <2> SUFFICES ASSUME ReceiptIsAnswer, Issued, receipt.proposal.phase = "wave-c"
               PROVE  WaveCOnlyProposes
    BY DEF WaveCOnlyProposes
  <2> DEFINE p == receipt.proposal
  <2>1. /\ p.row = Policy(p.operation)
        /\ Policy(p.operation).waveC # "forbid"
    BY IssuedIsBound DEF Bound, ValidProposal, Disposition
  <2>2. p.row.class # "bounded-execution"
    BY <2>1, BoundedRows
  <2>3. ReadOnlyPath(receipt.observation, receipt.classification, p, receipt.approval,
                     receipt.execution, receipt.verification)
    BY <2>2, IssuedIsBound DEF Bound, DeclinedPath, ExecutedPath
  <2>4. receipt.status = "read-only-complete"
    BY <2>3, IssuedIsBound DEF ReadOnlyPath, StatusOf
  <2> QED
    BY <2>3, <2>4 DEF ReadOnlyPath, WaveCOnlyProposes
<1> QED
  BY <1>1, ReceiptAlwaysAnswer, PTL

\* A "verified" receipt has an execution that succeeded and every proof.
THEOREM VerifiedReceiptsAreProven == AgentSpec => []VerifiedIsProven
<1>1. ReceiptIsAnswer => VerifiedIsProven
  <2> SUFFICES ASSUME ReceiptIsAnswer, Issued, receipt.status = "verified"
               PROVE  VerifiedIsProven
    BY DEF VerifiedIsProven
  <2> DEFINE p == receipt.proposal
             e == receipt.execution
             v == receipt.verification
  <2>1. StatusOf(receipt.approval, e, v) = "verified"
    BY IssuedIsBound
  <2>2. /\ e # None /\ e.status = "executed"
        /\ v # None /\ v.verdict.status = "pass"
    BY <2>1 DEF StatusOf
  <2>3. VerificationClause(receipt.observation, receipt.classification, p, e, v)
    BY <2>2, IssuedIsBound DEF Bound, ReadOnlyPath, DeclinedPath, ExecutedPath
  <2> QED
    BY <2>2, <2>3 DEF VerificationClause, VerifiedIsProven
<1> QED
  BY <1>1, ReceiptAlwaysAnswer, PTL

\* While identity or integrity is in doubt only an escalation is receipted.
THEOREM DoubtIsAlwaysEscalated == AgentSpec => []DoubtIsEscalated
<1>1. ReceiptIsAnswer /\ KindsOK => DoubtIsEscalated
  <2> SUFFICES ASSUME ReceiptIsAnswer, KindsOK, Issued,
                      NEW f \in Findings(receipt.observation.kind),
                      Actionability(f) = "escalate"
               PROVE  receipt.proposal.operation = "ESCALATE_STATE"
    BY DEF DoubtIsEscalated
  <2> DEFINE k == receipt.observation.kind
  <2>1. k \in AllKinds
    BY AgentAssumption DEF KindsOK, Issued
  <2>2. receipt.proposal.operation \in AllowedOperations(k, Primary(k))
    BY IssuedIsBound DEF Bound, ValidProposal, ValidClassification
  <2> QED
    BY <2>1, <2>2, DoubtIsPrimary
<1> QED
  BY <1>1, ReceiptAlwaysAnswer, KindsAlwaysOK, PTL

\* A receipt says CONVERGED only of an observation with nothing wrong.
THEOREM ConvergedIsAlwaysTrue == AgentSpec => []ConvergedIsTrue
<1>1. ReceiptIsAnswer /\ KindsOK => ConvergedIsTrue
  <2> SUFFICES ASSUME ReceiptIsAnswer, KindsOK, Issued,
                      receipt.classification.code = "CONVERGED"
               PROVE  Troubles(receipt.observation.kind) = {}
    BY DEF ConvergedIsTrue
  <2>1. receipt.observation.kind \in AllKinds
    BY AgentAssumption DEF KindsOK, Issued
  <2>2. Primary(receipt.observation.kind) = "CONVERGED"
    BY IssuedIsBound DEF Bound, ValidProposal, ValidClassification
  <2> QED
    BY <2>1, <2>2, ConvergedHasNoTrouble
<1> QED
  BY <1>1, ReceiptAlwaysAnswer, KindsAlwaysOK, PTL
-----------------------------------------------------------------------------
(* What the classifier and the proposer answer.                            *)

\* Ranking as a table.
LEMMA Ranks ==
  /\ Ranking["IDENTITY_MISMATCH"] = 1 /\ Ranking["INTEGRITY_FAILURE"] = 1
  /\ Ranking["SOURCE_INTEGRITY_FAILURE"] = 2 /\ Ranking["IDENTITY_CONFLICT"] = 2
  /\ Ranking["TARGET_VERIFICATION_FAILURE"] = 3
  /\ Ranking["NOT_CONFIGURED"] = 4
  /\ Ranking["UNAVAILABLE"] = 5
  /\ Ranking["FAILED_PENDING"] = 6 /\ Ranking["PREPARED_BACKLOG"] = 6
  /\ Ranking["UNREGISTERED_BACKLOG"] = 7 /\ Ranking["MISSING_BACKLOG"] = 7
  /\ Ranking["PENDING_BACKLOG"] = 8 /\ Ranking["DEFERRED_BUSY"] = 8
  /\ Ranking["CONVERGED"] = 9
BY DEF Ranking, Codes

\* The chain of classify_replication picks a finding that no other outranks.
LEMMA ReplicationPrimaryRanksFirst ==
  ASSUME NEW k \in ReplicationKinds
  PROVE  /\ Primary(k) \in Findings(k)
         /\ \A c \in Findings(k) : Ranking[Primary(k)] <= Ranking[c]
<1>1. k.service = "replication" /\ Troubles(k) = ReplicationTroubles(k)
  BY DEF ReplicationKinds, Troubles
<1>2. CASE ReplicationTroubles(k) = {}
  <2>1. Primary(k) = "CONVERGED"
    BY <1>1, <1>2 DEF ReplicationTroubles, Only, Primary, ReplicationPrimary
  <2> QED
    BY <1>1, <1>2, <2>1, Ranks DEF Findings
<1>3. CASE ReplicationTroubles(k) # {}
  <2>1. Primary(k) \in ReplicationTroubles(k)
    BY <1>1, <1>3 DEF ReplicationTroubles, Only, Primary, ReplicationPrimary
  <2>2. \A c \in ReplicationTroubles(k) : Ranking[Primary(k)] <= Ranking[c]
    <3> SUFFICES ASSUME NEW c \in ReplicationTroubles(k)
                 PROVE  Ranking[Primary(k)] <= Ranking[c]
      OBVIOUS
    <3>1. \/ c = "IDENTITY_MISMATCH" /\ k.identity = "mismatch"
          \/ c = "NOT_CONFIGURED" /\ k.identity = "not-configured"
          \/ c = "UNAVAILABLE" /\ "unavailable" \in {k.identity, k.source, k.provider}
          \/ c = "SOURCE_INTEGRITY_FAILURE" /\ k.source = "fail"
          \/ c = "TARGET_VERIFICATION_FAILURE" /\ k.provider = "fail"
          \/ c = "FAILED_PENDING" /\ k.failed
          \/ c = "UNREGISTERED_BACKLOG" /\ k.unregistered
          \/ c = "PENDING_BACKLOG" /\ k.pending
      BY DEF ReplicationTroubles, Only
    <3> QED
      BY <1>1, <3>1, Ranks DEF Primary, ReplicationPrimary
  <2>3. Findings(k) = ReplicationTroubles(k)
    BY <1>1, <1>3 DEF Findings
  <2> QED
    BY <2>1, <2>2, <2>3
<1> QED
  BY <1>2, <1>3

\* So does the chain of classify_processor.
LEMMA ProcessorPrimaryRanksFirst ==
  ASSUME NEW k \in ProcessorKinds
  PROVE  /\ Primary(k) \in Findings(k)
         /\ \A c \in Findings(k) : Ranking[Primary(k)] <= Ranking[c]
<1>1. k.service # "replication" /\ Troubles(k) = ProcessorTroubles(k)
  BY DEF ProcessorKinds, Troubles
<1>2. CASE ProcessorTroubles(k) = {}
  <2>1. Primary(k) = "CONVERGED"
    BY <1>1, <1>2 DEF ProcessorTroubles, Only, Primary, ProcessorPrimary
  <2> QED
    BY <1>1, <1>2, <2>1, Ranks DEF Findings
<1>3. CASE ProcessorTroubles(k) # {}
  <2>1. Primary(k) \in ProcessorTroubles(k)
    BY <1>1, <1>3 DEF ProcessorTroubles, Only, Primary, ProcessorPrimary
  <2>2. \A c \in ProcessorTroubles(k) : Ranking[Primary(k)] <= Ranking[c]
    <3> SUFFICES ASSUME NEW c \in ProcessorTroubles(k)
                 PROVE  Ranking[Primary(k)] <= Ranking[c]
      OBVIOUS
    <3>1. \/ c = "INTEGRITY_FAILURE" /\ k.integrity = "fail"
          \/ c = "UNAVAILABLE" /\ k.integrity = "unavailable"
          \/ c = "IDENTITY_CONFLICT" /\ k.conflict
          \/ c = "PREPARED_BACKLOG" /\ k.prepared
          \/ c = "MISSING_BACKLOG" /\ k.missing
          \/ c = "DEFERRED_BUSY" /\ k.deferred
      BY DEF ProcessorTroubles, Only
    <3> QED
      BY <1>1, <3>1, Ranks DEF Primary, ProcessorPrimary
  <2>3. Findings(k) = ProcessorTroubles(k)
    BY <1>1, <1>3 DEF Findings
  <2> QED
    BY <2>1, <2>2, <2>3
<1> QED
  BY <1>2, <1>3

\* The operation a proposer chooses is one that may be proposed, and its row
\* lets it be proposed in wave C, for nothing to be executed.
LEMMA DefaultIsAllowed ==
  ASSUME NEW k, NEW c
  PROVE  LET op == DefaultOperation(k, c)
         IN  /\ op \in AllowedOperations(k, c)
             /\ Disposition(Policy(op), "wave-c") # "forbid"
             /\ Policy(op).class \notin {"forbidden", "bounded-execution"}
<1> DEFINE op == DefaultOperation(k, c)
<1>1. op \in AllowedOperations(k, c)
  BY DEF DefaultOperation, AllowedOperations
<1>2. op \in ReadOnlyOps \cup ProposalOps \cup EscalationOps
  BY DEF DefaultOperation, ReadOnlyOps, ProposalOps, EscalationOps
<1> HIDE DEF op
<1>3. /\ Policy(op).waveC # "forbid"
      /\ Policy(op).class \notin {"forbidden", "bounded-execution"}
  BY <1>2 DEF Policy, Row, ReadOnlyOps, ProposalOps, EscalationOps, OwnerOps, ProviderOps
<1> QED
  BY <1>1, <1>3 DEF Disposition, op

\* The primary code is the most pressing of the findings, of every observation
\* of either service (classify_replication and classify_processor, _findings).
THEOREM PrimaryIsAlwaysMostPressing == AgentSpec => []PrimaryIsMostPressing
<1>1. KindsOK => PrimaryIsMostPressing
  <2> SUFFICES ASSUME KindsOK, observation # None
               PROVE  LET primary == Primary(observation.kind)
                          findings == Findings(observation.kind)
                      IN /\ primary \in findings
                         /\ \A c \in findings : Ranking[primary] <= Ranking[c]
    BY DEF PrimaryIsMostPressing
  <2>1. observation.kind \in ReplicationKinds \cup ProcessorKinds
    BY AgentAssumption DEF KindsOK, AllKinds
  <2> QED
    BY <2>1, ReplicationPrimaryRanksFirst, ProcessorPrimaryRanksFirst
<1> QED
  BY <1>1, KindsAlwaysOK, PTL

\* Whatever is rightly observed, what propose_replication or propose_processor
\* answers passes the validators and gets a read-only receipt.
THEOREM EveryObservationIsAlwaysAnswered == AgentSpec => []EveryObservationIsAnswered
<1>1. EveryObservationIsAnswered
  <2> SUFFICES ASSUME observation # None,
                      observation.findings = Findings(observation.kind)
               PROVE  LET o == observation
                          c == [observation |-> o, code |-> Primary(o.kind)]
                          op == DefaultOperation(o.kind, c.code)
                      IN /\ Proposable(o, c, op, "wave-c")
                         /\ Accepted(o, c,
                              ProposalFor(o, c, op, "wave-c",
                                Disposition(Policy(op), "wave-c"), Policy(op)),
                              None, None, None)
    BY DEF EveryObservationIsAnswered
  <2> DEFINE o == observation
             c == [observation |-> o, code |-> Primary(o.kind)]
             op == DefaultOperation(o.kind, c.code)
             p == ProposalFor(o, c, op, "wave-c",
                              Disposition(Policy(op), "wave-c"), Policy(op))
  <2>1. ValidClassification(o, c)
    BY DEF ValidClassification
  <2>2. /\ op \in AllowedOperations(o.kind, c.code)
        /\ Disposition(Policy(op), "wave-c") # "forbid"
        /\ Policy(op).class \notin {"forbidden", "bounded-execution"}
    BY DefaultIsAllowed
  <2>3. /\ p.observation = o /\ p.classification = c
        /\ p.operation = op /\ p.phase = "wave-c"
        /\ p.row = Policy(op) /\ p.parameters = Parameters(o, op)
        /\ p.disposition = Disposition(Policy(op), "wave-c")
    BY DEF ProposalFor
  <2> HIDE DEF p, op, c, o
  <2>4. Proposable(o, c, op, "wave-c")
    BY <2>1, <2>2 DEF Proposable
  <2>5. ValidProposal(o, c, p)
    BY <2>1, <2>2, <2>3 DEF ValidProposal
  <2>6. Bound(o, c, p, None, None, None)
    BY <2>2, <2>3, <2>5 DEF Bound, ReadOnlyPath
  <2>7. Constructible(StatusOf(None, None, None), None, None, None)
    BY DEF StatusOf, Constructible
  <2>8. Accepted(o, c, p, None, None, None)
    BY <2>6, <2>7 DEF Accepted
  <2> QED
    BY <2>4, <2>8 DEF p, op, c, o
<1> QED
  BY <1>1, PTL
-----------------------------------------------------------------------------
(* What is refused though it is bound.                                     *)

\* Records that pass every binding check get their receipt, except those of an
\* execution that says it was denied: for them derive_receipt_status answers a
\* status that StructuredReceipt allows only without an execution.
LEMMA DeniedExecutionsOnly ==
  ASSUME NEW o, NEW c, NEW p, NEW a, NEW e, NEW v, Bound(o, c, p, a, e, v)
  PROVE  Accepted(o, c, p, a, e, v) <=> ~(e # None /\ e.status = "denied")
<1>1. CASE e = None
  <2>1. v = None /\ (a = None \/ StatusOf(a, e, v) \in {"denied", "expired"})
    BY <1>1 DEF Bound, ReadOnlyPath, DeclinedPath, ExecutedPath, StatusOf
  <2>2. CASE a = None
    BY <1>1, <2>1, <2>2 DEF StatusOf, Constructible, Accepted
  <2>3. CASE a # None
    BY <1>1, <2>1, <2>3 DEF Constructible, Accepted
  <2> QED
    BY <2>2, <2>3
<1>2. CASE e # None /\ e.status = "denied"
  BY <1>2 DEF StatusOf, Constructible, Accepted
<1>3. CASE e # None /\ e.status # "denied"
  <2>1. StatusOf(a, e, v) \in {"execution-failed", "not-run", "executed-unverified",
                               "escalated", "verified", "verification-failed"}
    BY <1>3 DEF StatusOf
  <2>2. StatusOf(a, e, v) \in {"escalated", "verified", "verification-failed"} => v # None
    BY <1>3 DEF StatusOf
  <2> QED
    BY <1>3, <2>1, <2>2 DEF Constructible, Accepted
<1> QED
  BY <1>1, <1>2, <1>3

\* In every state, records on the desk that belong together are without a
\* receipt exactly if the execution among them was denied; build_structured_
\* receipt raises for no other reason once its binding checks have passed.
THEOREM OnlyDeniedIsUnreceipted ==
  AgentSpec =>
    [](\A a \in {None, approval}, e \in {None, execution}, v \in {None, verification} :
         Bound(observation, classification, proposal, a, e, v) =>
           (Accepted(observation, classification, proposal, a, e, v)
              <=> ~(e # None /\ e.status = "denied")))
<1>1. \A a \in {None, approval}, e \in {None, execution}, v \in {None, verification} :
         Bound(observation, classification, proposal, a, e, v) =>
           (Accepted(observation, classification, proposal, a, e, v)
              <=> ~(e # None /\ e.status = "denied"))
  BY DeniedExecutionsOnly
<1> QED
  BY <1>1, PTL
=============================================================================
