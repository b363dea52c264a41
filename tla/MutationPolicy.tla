--------------------------- MODULE MutationPolicy ---------------------------
(***************************************************************************)
(* packages/agent_contracts/policy.py: the two mutation matrices and their *)
(* deny-by-default lookup.  An operation is named by its enum member; the  *)
(* members both services have name the same row in both matrices.          *)
(*                                                                         *)
(* Precondition and evidence codes are functions of the operation that no  *)
(* decision reads and are left out.  Verification codes are kept for the   *)
(* rows that can bind an execution, the only ones where they are compared. *)
(***************************************************************************)

Services == {"processor", "replication"}
Phases == {"wave-c", "future-successor"}

ReadOnlyOps == {"READ_OBSERVATION", "CLASSIFY", "EXPLAIN", "NO_ACTION",
                "RETRY_OBSERVATION"}
ProposalOps == {"PROPOSE_CATCH_UP", "PROPOSE_VERIFY", "PROPOSE_RECONCILE",
                "PROPOSE_RUN"}
EscalationOps == {"ESCALATE_STATE", "CHANGE_PROCESSOR_IDENTITY",
                  "INITIALIZE_TARGET", "CHANGE_TARGET_IDENTITY",
                  "CHANGE_TARGET_ROOT", "CHANGE_TARGET_MARKER_CONTENT",
                  "CHANGE_TARGET_MARKER_METADATA", "CHANGE_TARGET_NAMESPACE",
                  "CHANGE_DATABASE_BINDING"}
OwnerOps == {"INVOKE_WORKER_RUN", "INVOKE_RECONCILE", "INVOKE_RUN"}
BoundedOps == OwnerOps \cup {"INVOKE_VERIFY"}
ProviderOps == {"PROVISION_PROVIDER", "CHANGE_IAM_OR_CREDENTIALS"}
ForbiddenOps == {"BYPASS_LOCK", "BYPASS_COLLISION", "WEAKEN_IMMUTABILITY",
                 "DIRECT_DATABASE_MUTATION", "DIRECT_SPOOL_MUTATION",
                 "DIRECT_FINAL_OBJECT_MUTATION", "DIRECT_PARTIAL_CLEANUP",
                 "GENERAL_PROVIDER_API", "DESTRUCTIVE_PROVIDER_ACTION",
                 "GENERAL_SHELL"}
ProcessorOnlyOps == {"PROPOSE_CATCH_UP", "INVOKE_WORKER_RUN", "RUN_MIGRATIONS",
                     "CHANGE_PROCESSOR_IDENTITY", "DIRECT_SPOOL_MUTATION",
                     "BYPASS_LOCK"}
SharedOps == ReadOnlyOps \cup {"ESCALATE_STATE", "DIRECT_DATABASE_MUTATION",
                               "GENERAL_SHELL"}
Operations == ReadOnlyOps \cup ProposalOps \cup EscalationOps \cup BoundedOps
                \cup ProviderOps \cup ForbiddenOps \cup {"RUN_MIGRATIONS"}

\* _operation_matches_service
OpsOf(service) == IF service = "processor"
                  THEN SharedOps \cup ProcessorOnlyOps
                  ELSE Operations \ ProcessorOnlyOps

\* What a verification must have proved before it may say PASS.
ProofsFor ==
  [op \in BoundedOps |->
     {"worker-receipt"} \cup
     CASE op = "INVOKE_WORKER_RUN" -> {"lineage-readback", "state-readback"}
       [] op = "INVOKE_VERIFY" -> {"provider-readback", "target-identity-readback"}
       [] op = "INVOKE_RECONCILE" -> {"database-readback", "provider-readback"}
       [] op = "INVOKE_RUN" -> {"independent-target-verification", "provider-readback"}]
AllProofs == UNION {ProofsFor[op] : op \in BoundedOps}

Row(waveC, future, approval, class) ==
  [waveC |-> waveC, future |-> future, approval |-> approval, class |-> class]

Rows == [waveC : {"allow", "forbid", "escalate"},
         future : {"allow", "forbid", "escalate"},
         approval : {"none", "explicit-owner", "separate-design-authority",
                     "operator-owned", "not-approvable"},
         class : {"read-only", "proposal-only", "bounded-execution",
                  "escalation-only", "forbidden"}]

\* resolve_processor_policy and resolve_replication_policy.
Policy(op) ==
  CASE op \in ReadOnlyOps -> Row("allow", "allow", "none", "read-only")
    [] op \in ProposalOps -> Row("allow", "allow", "none", "proposal-only")
    [] op \in EscalationOps ->
         Row("escalate", "escalate", "separate-design-authority", "escalation-only")
    [] op \in OwnerOps -> Row("forbid", "allow", "explicit-owner", "bounded-execution")
    [] op = "INVOKE_VERIFY" -> Row("forbid", "allow", "none", "bounded-execution")
    [] op \in ProviderOps ->
         Row("forbid", "escalate", "operator-owned", "escalation-only")
    [] op = "RUN_MIGRATIONS" ->
         Row("forbid", "forbid", "operator-owned", "escalation-only")
    [] OTHER -> Row("forbid", "forbid", "not-approvable", "forbidden")

Disposition(row, phase) == IF phase = "wave-c" THEN row.waveC ELSE row.future
=============================================================================
