--------------------------- MODULE AgentContracts ---------------------------
(***************************************************************************)
(* packages/agent_contracts/model.py: the records of a bounded agent and   *)
(* the receipt that binds them.  The package is a library of pure          *)
(* functions; the agent, the approver, the executor and the verifier that  *)
(* call it are not in the repository.  Each of them is an action here: it  *)
(* takes what lies on a shared desk, makes one record with the library's   *)
(* constructor and puts it back.  Nothing makes them wait for each other,  *)
(* so a record may be made from parts of an earlier round, and             *)
(* build_structured_receipt is what has to notice.                         *)
(*                                                                         *)
(* A SHA-256 of a record is the record itself (no collisions).  A round    *)
(* stands for the snapshot, the authority and the evidence of an           *)
(* observation, which a new observation all replaces.                      *)
(***************************************************************************)
EXTENDS Classification, Naturals

CONSTANTS Kinds,      \* the observations that may be made
          MaxRounds,  \* bound: how often the world is observed
          Drafts,     \* proposals that callers compose by hand
          Mistakes,   \* codes that callers write down on their own
          Outcomes,   \* what approvers may decide,
          Endings,    \* executors may report
          Verdicts,   \* and verifiers may find
          None        \* an optional record that is not there

ApprovalOutcomes == {"approve", "deny", "expire"}
ExecutionStatuses == {"not-run", "denied", "executed", "failed"}
VerificationStatuses == {"not-run", "pass", "fail", "escalate", "unavailable"}

\* A hand-made proposal: its disposition is its author's, and waived says that
\* it claims to need no approval.
AllDrafts == [operation : Operations, phase : Phases,
              disposition : {"allow", "escalate"}, waived : BOOLEAN]

AllVerdicts == [status : VerificationStatuses, proven : SUBSET AllProofs,
                mismatch : BOOLEAN]

ASSUME AgentAssumption ==
  /\ Kinds \subseteq AllKinds
  /\ MaxRounds \in Nat
  /\ Drafts \subseteq AllDrafts
  /\ Mistakes \subseteq Codes
  /\ Outcomes \subseteq ApprovalOutcomes
  /\ Endings \subseteq ExecutionStatuses
  /\ Verdicts \subseteq AllVerdicts

VARIABLES round,           \* observations made so far
          observation, classification, proposal,   \* the desk: the latest
          approval, execution, verification,       \* record of each type
          receipt          \* what build_structured_receipt just answered

desk == <<observation, classification, proposal, approval, execution, verification>>
agentVars == <<round, desk, receipt>>

ReceiptStatuses == {"read-only-complete", "not-run", "denied", "expired",
                    "execution-failed", "executed-unverified", "escalated",
                    "verified", "verification-failed"}

Observations == [kind : Kinds, round : 1..MaxRounds, findings : SUBSET Codes]
Classifications == [observation : Observations, code : Codes]
Proposals == [observation : Observations, classification : Classifications,
              operation : Operations, phase : Phases, row : Rows,
              disposition : {"allow", "escalate"}, parameters : 0..MaxRounds]
Approvals == [proposal : Proposals, observation : Observations,
              outcome : ApprovalOutcomes]
Executions == [observation : Observations, classification : Classifications,
               proposal : Proposals, input : 0..MaxRounds,
               approval : Approvals \cup {None}, status : ExecutionStatuses]
Verifications == [observation : Observations, classification : Classifications,
                  proposal : Proposals, execution : Executions,
                  verdict : AllVerdicts]
Receipts == [observation : Observations, classification : Classifications,
             proposal : Proposals, approval : Approvals \cup {None},
             execution : Executions \cup {None},
             verification : Verifications \cup {None},
             status : ReceiptStatuses]

AgentTypeOK ==
  /\ round \in 0..MaxRounds
  /\ observation \in Observations \cup {None}
  /\ classification \in Classifications \cup {None}
  /\ proposal \in Proposals \cup {None}
  /\ approval \in Approvals \cup {None}
  /\ execution \in Executions \cup {None}
  /\ verification \in Verifications \cup {None}
  /\ receipt \in Receipts \cup {None}

AgentInit ==
  /\ round = 0
  /\ observation = None /\ classification = None /\ proposal = None
  /\ approval = None /\ execution = None /\ verification = None
  /\ receipt = None
-----------------------------------------------------------------------------
(* What the validators of replication.py and processor.py accept.          *)

\* Faulty variant of ValidClassification: the code is taken on trust.
ClassificationOfObservation(o, c) ==
  /\ o.findings = Findings(o.kind)
  /\ c.observation = o

ValidClassification(o, c) ==
  /\ o.findings = Findings(o.kind)
  /\ c.observation = o
  /\ c.code = Primary(o.kind)

\* Faulty variant of Parameters: the snapshot after the one observed.
ParametersAhead(o, op) == IF op = "NO_ACTION" THEN 0 ELSE o.round + 1

\* _parameters: the snapshot the operation expects, which 0 leaves out.
Parameters(o, op) == IF op = "NO_ACTION" THEN 0 ELSE o.round

\* _make_proposal, with the constructor of Proposal.
Proposable(o, c, op, phase) ==
  /\ ValidClassification(o, c)
  /\ op \in AllowedOperations(o.kind, c.code)
  /\ Disposition(Policy(op), phase) # "forbid"
  /\ Policy(op).class # "forbidden"

ProposalFor(o, c, op, phase, disposition, row) ==
  [observation |-> o, classification |-> c, operation |-> op, phase |-> phase,
   row |-> row, disposition |-> disposition, parameters |-> Parameters(o, op)]

\* Faulty variant of ValidProposal: the phase is not looked at.
ValidInSomePhase(o, c, p) ==
  /\ ValidClassification(o, c)
  /\ p.operation \in AllowedOperations(o.kind, c.code)
  /\ p.row = Policy(p.operation)
  /\ p.parameters = Parameters(o, p.operation)
  /\ p.observation = o
  /\ p.classification = c

\* validate_replication_proposal and validate_processor_proposal.
ValidProposal(o, c, p) ==
  /\ ValidClassification(o, c)
  /\ p.operation \in AllowedOperations(o.kind, c.code)
  /\ Disposition(Policy(p.operation), p.phase) # "forbid"
  /\ p.disposition = Disposition(Policy(p.operation), p.phase)
  /\ p.row = Policy(p.operation)
  /\ p.parameters = Parameters(o, p.operation)
  /\ p.observation = o
  /\ p.classification = c
-----------------------------------------------------------------------------
(* build_structured_receipt.                                               *)

\* Faulty variant of ApprovalMatches: only the operation has to be the same.
ApprovalForOperation(a, p, o) == a.proposal.operation = p.operation

ApprovalMatches(a, p, o) ==
  /\ a.proposal = p
  /\ a.observation = p.observation
  /\ p.observation = o

ReadOnlyPath(o, c, p, a, e, v) ==
  /\ e = None /\ v = None /\ a = None
  /\ p.row.class # "bounded-execution"

DeclinedPath(o, c, p, a, e, v) ==
  /\ e = None /\ v = None /\ a # None
  /\ p.row.approval # "none"
  /\ p.row.class = "bounded-execution"
  /\ ApprovalMatches(a, p, o)
  /\ a.outcome # "approve"

ApprovalClause(o, p, a, e) ==
  \/ /\ p.row.approval = "none"
     /\ a = None
     /\ e.approval = None
  \/ /\ p.row.approval \in {"explicit-owner", "separate-design-authority",
                            "operator-owned"}
     /\ a # None
     /\ a.outcome = "approve"
     /\ ApprovalMatches(a, p, o)
     /\ e.approval = a

\* Faulty variant of VerificationClause: the required proofs are not compared.
VerificationUnproven(o, c, p, e, v) ==
  /\ v.observation = o
  /\ v.classification = c
  /\ v.proposal = p
  /\ v.execution = e

VerificationClause(o, c, p, e, v) ==
  /\ v.observation = o
  /\ v.classification = c
  /\ v.proposal = p
  /\ v.execution = e
  /\ v.verdict.status = "pass" => ProofsFor[p.operation] \subseteq v.verdict.proven

\* Faulty variant of ExecutionBinds: the executor's input is not compared.
ExecutionBindsAnyInput(o, c, p, e) ==
  /\ e.observation = o
  /\ e.classification = c
  /\ e.proposal = p

ExecutionBinds(o, c, p, e) ==
  /\ e.observation = o
  /\ e.classification = c
  /\ e.proposal = p
  /\ e.input = p.parameters

ExecutedPath(o, c, p, a, e, v) ==
  /\ e # None
  /\ p.row.class = "bounded-execution"
  /\ ExecutionBinds(o, c, p, e)
  /\ ApprovalClause(o, p, a, e)
  /\ v # None => VerificationClause(o, c, p, e, v)

\* Every check before a StructuredReceipt is constructed.
Bound(o, c, p, a, e, v) ==
  /\ ValidProposal(o, c, p)
  /\ \/ ReadOnlyPath(o, c, p, a, e, v)
     \/ DeclinedPath(o, c, p, a, e, v)
     \/ ExecutedPath(o, c, p, a, e, v)

\* derive_receipt_status, and the outcomes of the paths without execution.
StatusOf(a, e, v) ==
  IF e = None
  THEN IF a = None THEN "read-only-complete"
       ELSE IF a.outcome = "deny" THEN "denied" ELSE "expired"
  ELSE IF e.status = "denied" THEN "denied"
  ELSE IF e.status = "failed" THEN "execution-failed"
  ELSE IF e.status # "executed" THEN "not-run"
  ELSE IF v = None THEN "executed-unverified"
  ELSE IF v.verdict.status \in {"not-run", "unavailable"} THEN "executed-unverified"
  ELSE IF v.verdict.status = "escalate" THEN "escalated"
  ELSE IF v.verdict.status = "fail" \/ v.verdict.mismatch THEN "verification-failed"
  ELSE IF v.verdict.status # "pass" THEN "executed-unverified"
  ELSE "verified"

\* StructuredReceipt.__post_init__
Constructible(status, a, e, v) ==
  /\ status = "read-only-complete" => a = None /\ e = None /\ v = None
  /\ status \in {"execution-failed", "executed-unverified", "escalated",
                 "verified", "verification-failed"} => e # None
  /\ status \in {"escalated", "verified", "verification-failed"} => v # None
  /\ status \in {"denied", "expired"} => a # None /\ e = None /\ v = None
  /\ v # None => e # None

\* No check raises a ContractViolation, the constructor's included.
Accepted(o, c, p, a, e, v) ==
  Bound(o, c, p, a, e, v) /\ Constructible(StatusOf(a, e, v), a, e, v)
-----------------------------------------------------------------------------
(* The callers.  A receipt leaves the desk before the next record is made. *)

\* The observer records what it sees, with the findings it believes in.
Observe ==
  /\ round < MaxRounds
  /\ round' = round + 1
  /\ \E kind \in Kinds : \E findings \in {Findings(kind)} \cup {{c} : c \in Mistakes} :
       observation' = [kind |-> kind, round |-> round', findings |-> findings]
  /\ UNCHANGED <<classification, proposal, approval, execution, verification, receipt>>

\* classify_replication and classify_processor; they raise on wrong findings.
Classify ==
  /\ observation # None
  /\ observation.findings = Findings(observation.kind)
  /\ classification' = [observation |-> observation,
                        code |-> Primary(observation.kind)]
  /\ UNCHANGED <<round, observation, proposal, approval, execution, verification, receipt>>

\* A caller constructs a Classification itself, with a code of its own.
Reclassify(code) ==
  /\ observation # None
  /\ classification' = [observation |-> observation, code |-> code]
  /\ UNCHANGED <<round, observation, proposal, approval, execution, verification, receipt>>

\* propose_replication and propose_processor.
Propose ==
  /\ observation # None /\ classification # None
  /\ LET op == DefaultOperation(observation.kind, classification.code)
     IN /\ Proposable(observation, classification, op, "wave-c")
        /\ proposal' = ProposalFor(observation, classification, op, "wave-c",
                                   Disposition(Policy(op), "wave-c"), Policy(op))
  /\ UNCHANGED <<round, observation, classification, approval, execution, verification, receipt>>

\* A caller constructs a Proposal itself, with a disposition of its own and
\* perhaps waiving the approval.  The constructor refuses an operation of the
\* other service and a forbidden disposition or class, and nothing else.
Draft(d) ==
  /\ observation # None /\ classification # None
  /\ d.operation \in OpsOf(observation.kind.service)
  /\ Policy(d.operation).class # "forbidden"
  /\ proposal' = ProposalFor(observation, classification, d.operation, d.phase,
                   d.disposition,
                   IF d.waived
                   THEN [Policy(d.operation) EXCEPT !.approval = "none"]
                   ELSE Policy(d.operation))
  /\ UNCHANGED <<round, observation, classification, approval, execution, verification, receipt>>

\* The approver decides on the proposal it was shown, at the observation that
\* lies on the desk by now.
Decide(outcome) ==
  /\ proposal # None
  /\ approval' = [proposal |-> proposal, observation |-> observation,
                  outcome |-> outcome]
  /\ UNCHANGED <<round, observation, classification, proposal, execution, verification, receipt>>

\* An executor runs the tool of the proposal, with the snapshot the proposal
\* names or with an older one it still has, and names the approval it holds.
Execute(status, input, a) ==
  /\ proposal # None
  /\ proposal.operation \in BoundedOps
  /\ input <= proposal.parameters
  /\ execution' = [observation |-> observation, classification |-> classification,
                   proposal |-> proposal,
                   input |-> input, approval |-> a, status |-> status]
  /\ UNCHANGED <<round, observation, classification, proposal, approval, verification, receipt>>

\* A verifier reports on the execution; what VerificationResult lets through.
Verify(verdict) ==
  /\ execution # None
  /\ verdict.mismatch <=> verdict.status \in {"fail", "escalate"}
  /\ verdict.status = "pass" => verdict.proven # {}
  /\ verification' = [observation |-> observation, classification |-> classification,
                      proposal |-> proposal, execution |-> execution,
                      verdict |-> verdict]
  /\ UNCHANGED <<round, observation, classification, proposal, approval, execution, receipt>>

\* build_structured_receipt over the desk; the last three are optional.  A
\* call that raises answers nothing and changes nothing.
BuildReceipt(a, e, v) ==
  /\ observation # None /\ classification # None /\ proposal # None
  /\ Accepted(observation, classification, proposal, a, e, v)
  /\ receipt' = [observation |-> observation, classification |-> classification,
                 proposal |-> proposal, approval |-> a, execution |-> e,
                 verification |-> v,
                 status |-> StatusOf(a, e, v)]
  /\ UNCHANGED <<round, desk>>

\* build_structured_receipt returns it; nothing on the desk knows.
TakeReceipt ==
  /\ receipt # None
  /\ receipt' = None
  /\ UNCHANGED <<round, desk>>

MakeRecord ==
  /\ receipt = None
  /\ \/ Observe
     \/ Classify
     \/ \E code \in Mistakes : Reclassify(code)
     \/ Propose
     \/ \E d \in Drafts : Draft(d)
     \/ \E outcome \in Outcomes : Decide(outcome)
     \/ \E status \in Endings, input \in 1..round, a \in {None, approval} :
          Execute(status, input, a)
     \/ \E verdict \in Verdicts : Verify(verdict)
     \/ \E a \in {None, approval}, e \in {None, execution}, v \in {None, verification} :
          BuildReceipt(a, e, v)

AgentNext == MakeRecord \/ TakeReceipt

AgentSpec == AgentInit /\ [][AgentNext]_agentVars
-----------------------------------------------------------------------------
(* Properties.                                                             *)

Issued == receipt # None

\* Every part of an issued receipt belongs to one round: the proposal, the
\* approval, the execution and the verification it binds were all made from
\* its own observation and classification, for its own proposal, and the tool
\* ran with the snapshot that was proposed, whatever was replaced on the desk
\* in between (the binding checks of build_structured_receipt).
ReceiptBindsOneRound ==
  Issued =>
    LET r == receipt IN
    /\ r.classification.observation = r.observation
    /\ r.proposal.observation = r.observation
    /\ r.proposal.classification = r.classification
    /\ r.approval # None => /\ r.approval.proposal = r.proposal
                            /\ r.approval.observation = r.observation
    /\ r.execution # None => /\ r.execution.observation = r.observation
                             /\ r.execution.classification = r.classification
                             /\ r.execution.proposal = r.proposal
                             /\ r.execution.input = r.observation.round
                             /\ r.execution.approval = r.approval
    /\ r.verification # None => /\ r.verification.execution = r.execution
                                /\ r.verification.proposal = r.proposal
                                /\ r.verification.observation = r.observation

\* A receipt of an executed run, reconcile or processor run carries an owner's
\* approval of exactly that proposal, given on the observation it was made
\* from; a proposal that waives the approval gets no receipt (policy.py rows
\* INVOKE_*, approval_binds_proposal).
RunsAreApproved ==
  Issued /\ receipt.execution # None /\ receipt.proposal.operation \in OwnerOps =>
    /\ receipt.approval # None
    /\ receipt.approval.outcome = "approve"
    /\ receipt.approval.proposal = receipt.proposal
    /\ receipt.approval.observation = receipt.observation

\* In wave C nothing is executed, approved or verified: whatever proposal a
\* caller drafts, a wave-C receipt is of reading, proposing or escalating only
\* (the README's "no executor, provider API client, or mutation workflow").
WaveCOnlyProposes ==
  Issued /\ receipt.proposal.phase = "wave-c" =>
    /\ receipt.execution = None /\ receipt.approval = None
    /\ receipt.status = "read-only-complete"

\* While identity or integrity is in doubt nothing but an escalation gets a
\* receipt, whatever backlog the same observation reports and whatever primary
\* code a caller writes down (_allowed_operations of both services).
DoubtIsEscalated ==
  (Issued /\ \E c \in Findings(receipt.observation.kind) : Actionability(c) = "escalate")
    => receipt.proposal.operation = "ESCALATE_STATE"

\* A receipt that says CONVERGED is of an observation with nothing wrong.
ConvergedIsTrue ==
  Issued /\ receipt.classification.code = "CONVERGED" =>
    Troubles(receipt.observation.kind) = {}

\* A "verified" receipt rests on an execution that succeeded and on a passed
\* verification of that execution with every proof its policy row requires.
VerifiedIsProven ==
  Issued /\ receipt.status = "verified" =>
    /\ receipt.execution.status = "executed"
    /\ receipt.verification.verdict.status = "pass"
    /\ ProofsFor[receipt.proposal.operation] \subseteq receipt.verification.verdict.proven

\* The codes, the most pressing first: the reference for the primary code.
Ranking == [c \in Codes |->
  CASE c \in {"IDENTITY_MISMATCH", "INTEGRITY_FAILURE"} -> 1
    [] c \in {"SOURCE_INTEGRITY_FAILURE", "IDENTITY_CONFLICT"} -> 2
    [] c = "TARGET_VERIFICATION_FAILURE" -> 3
    [] c = "NOT_CONFIGURED" -> 4
    [] c = "UNAVAILABLE" -> 5
    [] c \in {"FAILED_PENDING", "PREPARED_BACKLOG"} -> 6
    [] c \in {"UNREGISTERED_BACKLOG", "MISSING_BACKLOG"} -> 7
    [] c \in {"PENDING_BACKLOG", "DEFERRED_BUSY"} -> 8
    [] OTHER -> 9]

\* The primary code is the most pressing of the findings: the if/elif chain
\* that picks it and the separate set construction of _findings agree.
PrimaryIsMostPressing ==
  observation # None =>
    LET primary == Primary(observation.kind)
        findings == Findings(observation.kind)
    IN primary \in findings /\ \A c \in findings : Ranking[primary] <= Ranking[c]

\* Every rightly recorded observation has a proposal, and that proposal alone
\* gets a read-only receipt: the classifier, the operation chosen, the allowed
\* operations, the policy row and the validators never contradict each other.
EveryObservationIsAnswered ==
  observation # None /\ observation.findings = Findings(observation.kind) =>
    LET o == observation
        c == [observation |-> o, code |-> Primary(o.kind)]
        op == DefaultOperation(o.kind, c.code)
    IN /\ Proposable(o, c, op, "wave-c")
       /\ Accepted(o, c, ProposalFor(o, c, op, "wave-c",
                                     Disposition(Policy(op), "wave-c"), Policy(op)),
                   None, None, None)

\* Whatever passes every binding check gets the receipt whose status
\* derive_receipt_status names (model.py 743-744: an execution that was denied
\* gets a "denied" receipt).
BoundIsReceipted ==
  observation # None /\ classification # None /\ proposal # None =>
    \A a \in {None, approval}, e \in {None, execution}, v \in {None, verification} :
      Bound(observation, classification, proposal, a, e, v)
        => Constructible(StatusOf(a, e, v), a, e, v)
=============================================================================
