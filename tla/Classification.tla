--------------------------- MODULE Classification ---------------------------
(***************************************************************************)
(* packages/agent_contracts/replication.py and processor.py: what an       *)
(* observation means (findings, primary code, actionability) and which     *)
(* operations may be proposed on it.  A "kind" is an observation without   *)
(* its identity (authority, snapshot, evidence): the statuses, and for     *)
(* each counter that a decision reads whether it is above zero.            *)
(***************************************************************************)
EXTENDS MutationPolicy

ReplicationKinds ==
  [service : {"replication"},
   identity : {"match", "mismatch", "not-configured", "unavailable"},
   provider : {"pass", "fail", "unavailable"},
   source : {"pass", "fail", "unavailable"},
   failed : BOOLEAN,        \* failed_pending_objects > 0
   unregistered : BOOLEAN,
   pending : BOOLEAN]

ProcessorKinds ==
  [service : {"processor"},
   integrity : {"pass", "fail", "unavailable"},
   conflict : BOOLEAN,      \* identity_conflict_count > 0
   prepared : BOOLEAN,
   missing : BOOLEAN,
   deferred : BOOLEAN]

AllKinds == ReplicationKinds \cup ProcessorKinds

Codes == {"IDENTITY_MISMATCH", "SOURCE_INTEGRITY_FAILURE",
          "TARGET_VERIFICATION_FAILURE", "NOT_CONFIGURED", "UNAVAILABLE",
          "FAILED_PENDING", "UNREGISTERED_BACKLOG", "PENDING_BACKLOG",
          "INTEGRITY_FAILURE", "IDENTITY_CONFLICT", "PREPARED_BACKLOG",
          "MISSING_BACKLOG", "DEFERRED_BUSY", "CONVERGED"}

Only(code, condition) == IF condition THEN {code} ELSE {}

ReplicationTroubles(k) ==
  Only("IDENTITY_MISMATCH", k.identity = "mismatch")
  \cup Only("NOT_CONFIGURED", k.identity = "not-configured")
  \cup Only("UNAVAILABLE", "unavailable" \in {k.identity, k.source, k.provider})
  \cup Only("SOURCE_INTEGRITY_FAILURE", k.source = "fail")
  \cup Only("TARGET_VERIFICATION_FAILURE", k.provider = "fail")
  \cup Only("FAILED_PENDING", k.failed)
  \cup Only("UNREGISTERED_BACKLOG", k.unregistered)
  \cup Only("PENDING_BACKLOG", k.pending)

ProcessorTroubles(k) ==
  Only("INTEGRITY_FAILURE", k.integrity = "fail")
  \cup Only("UNAVAILABLE", k.integrity = "unavailable")
  \cup Only("IDENTITY_CONFLICT", k.conflict)
  \cup Only("PREPARED_BACKLOG", k.prepared)
  \cup Only("MISSING_BACKLOG", k.missing)
  \cup Only("DEFERRED_BUSY", k.deferred)

Troubles(k) == IF k.service = "replication" THEN ReplicationTroubles(k)
                                            ELSE ProcessorTroubles(k)

\* _findings
Findings(k) == IF Troubles(k) = {} THEN {"CONVERGED"} ELSE Troubles(k)

\* The if/elif chain of classify_replication: the first condition that holds.
ReplicationPrimary(k) ==
  IF k.identity = "mismatch" THEN "IDENTITY_MISMATCH"
  ELSE IF k.source = "fail" THEN "SOURCE_INTEGRITY_FAILURE"
  ELSE IF k.provider = "fail" THEN "TARGET_VERIFICATION_FAILURE"
  ELSE IF k.identity = "not-configured" THEN "NOT_CONFIGURED"
  ELSE IF "unavailable" \in {k.identity, k.source, k.provider} THEN "UNAVAILABLE"
  ELSE IF k.failed THEN "FAILED_PENDING"
  ELSE IF k.unregistered THEN "UNREGISTERED_BACKLOG"
  ELSE IF k.pending THEN "PENDING_BACKLOG"
  ELSE "CONVERGED"

\* The chain of classify_processor.
ProcessorPrimary(k) ==
  IF k.integrity = "fail" THEN "INTEGRITY_FAILURE"
  ELSE IF k.conflict THEN "IDENTITY_CONFLICT"
  ELSE IF k.integrity = "unavailable" THEN "UNAVAILABLE"
  ELSE IF k.prepared THEN "PREPARED_BACKLOG"
  ELSE IF k.missing THEN "MISSING_BACKLOG"
  ELSE IF k.deferred THEN "DEFERRED_BUSY"
  ELSE "CONVERGED"

\* Faulty variant of Primary: pending work hides failed work.
PrimaryBacklogFirst(k) ==
  IF k.service = "replication"
  THEN IF k.pending /\ ReplicationPrimary(k) = "FAILED_PENDING"
       THEN "PENDING_BACKLOG" ELSE ReplicationPrimary(k)
  ELSE ProcessorPrimary(k)

Primary(k) == IF k.service = "replication" THEN ReplicationPrimary(k)
                                           ELSE ProcessorPrimary(k)

\* The actionability each branch of the two chains pairs with its code.
Actionability(code) ==
  CASE code = "CONVERGED" -> "none"
    [] code \in {"UNAVAILABLE", "DEFERRED_BUSY"} -> "retry"
    [] code \in {"FAILED_PENDING", "UNREGISTERED_BACKLOG", "PENDING_BACKLOG",
                 "PREPARED_BACKLOG", "MISSING_BACKLOG"} -> "propose"
    [] OTHER -> "escalate"

\* Faulty variant of AllowedOperations: the backlog may be worked on whatever
\* the primary code is.
AllowedWhateverTheCode(k, code) ==
  IF k.service = "replication" /\ k.pending THEN {"PROPOSE_RUN", "INVOKE_RUN"}
  ELSE {"NO_ACTION", "ESCALATE_STATE", "RETRY_OBSERVATION"}

\* _allowed_operations of both files.
AllowedOperations(k, code) ==
  CASE code = "CONVERGED" -> {"NO_ACTION"}
    [] code = "UNAVAILABLE" ->
         IF k.service = "replication" /\ k.source # "unavailable"
         THEN {"PROPOSE_VERIFY", "INVOKE_VERIFY"}
         ELSE {"RETRY_OBSERVATION"}
    [] code = "DEFERRED_BUSY" -> {"RETRY_OBSERVATION"}
    [] code = "FAILED_PENDING" -> {"PROPOSE_RECONCILE", "INVOKE_RECONCILE"}
    [] code \in {"UNREGISTERED_BACKLOG", "PENDING_BACKLOG"} ->
         {"PROPOSE_RUN", "INVOKE_RUN"}
    [] code \in {"PREPARED_BACKLOG", "MISSING_BACKLOG"} ->
         {"PROPOSE_CATCH_UP", "INVOKE_WORKER_RUN"}
    [] OTHER -> {"ESCALATE_STATE"}

\* Faulty variant of DefaultOperation: an unavailable target is just observed
\* again.
DefaultRetry(k, code) ==
  CASE code = "CONVERGED" -> "NO_ACTION"
    [] code \in {"UNAVAILABLE", "DEFERRED_BUSY"} -> "RETRY_OBSERVATION"
    [] code = "FAILED_PENDING" -> "PROPOSE_RECONCILE"
    [] code \in {"UNREGISTERED_BACKLOG", "PENDING_BACKLOG"} -> "PROPOSE_RUN"
    [] code \in {"PREPARED_BACKLOG", "MISSING_BACKLOG"} -> "PROPOSE_CATCH_UP"
    [] OTHER -> "ESCALATE_STATE"

\* The operation propose_replication and propose_processor choose.
DefaultOperation(k, code) ==
  CASE code = "CONVERGED" -> "NO_ACTION"
    [] code = "UNAVAILABLE" ->
         IF k.service = "replication" /\ k.source # "unavailable"
         THEN "PROPOSE_VERIFY" ELSE "RETRY_OBSERVATION"
    [] code = "DEFERRED_BUSY" -> "RETRY_OBSERVATION"
    [] code = "FAILED_PENDING" -> "PROPOSE_RECONCILE"
    [] code \in {"UNREGISTERED_BACKLOG", "PENDING_BACKLOG"} -> "PROPOSE_RUN"
    [] code \in {"PREPARED_BACKLOG", "MISSING_BACKLOG"} -> "PROPOSE_CATCH_UP"
    [] OTHER -> "ESCALATE_STATE"
=============================================================================
