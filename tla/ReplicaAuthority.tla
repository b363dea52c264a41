-------------------------- MODULE ReplicaAuthority --------------------------
(***************************************************************************)
(* The SQLite side of replication (packages/replication/core/authority.py  *)
(* and the v10 schema): for one target, the rows of replica_objects, and   *)
(* the finalized files the capture ledger lists.  Each operator below is   *)
(* one BEGIN IMMEDIATE ... COMMIT transaction, so it is one atomic step of *)
(* whichever worker process issues it.                                     *)
(*                                                                         *)
(* An object is the number of its (object_kind, relative_uri) in the ORDER *)
(* BY of pending_objects, so "the first object" is the smallest number.    *)
(* Two objects may share a relative_uri: schema v7 back-filled occurrence  *)
(* assertions onto the manifest of their artifact, under another kind.     *)
(***************************************************************************)
EXTENDS Naturals

CONSTANTS NumObjects,  \* how many objects the ledger may come to list
          Uris,        \* relative_uri values, naming a source and a replica
          Bytes,       \* the whole contents a file can hold
          UriOf,       \* relative_uri of each object
          Expected,    \* the bytes (size and digest) each object must have
          Manifests    \* objects whose source discover() itself hashes

Objects == 1..NumObjects

ASSUME AuthorityAssumption ==
  /\ NumObjects \in Nat \ {0}
  /\ UriOf \in [Objects -> Uris]
  /\ Expected \in [Objects -> Bytes]
  /\ \A o, p \in Objects : UriOf[o] = UriOf[p] => Expected[o] = Expected[p]
  /\ Manifests \subseteq Objects

VARIABLES replica,  \* the replica_objects row of each object
          ledger    \* objects whose source file the capture ledger finalized

authorityVars == <<replica, ledger>>

\* The stable findings a worker reports, and may leave in last_error.
Findings == {"target_identity_mismatch", "target_unavailable", "target_io_error",
             "partial_cleanup_failed", "destination_collision",
             "destination_missing", "destination_digest_mismatch",
             "local_source_missing", "local_source_corrupt",
             "replica_authority_conflict", "database_integrity_failure"}

RowStates == {"unregistered", "PENDING", "VERIFIED"}

\* attempt_count is kept only as zero or not, last_error as the finding.
Rows == [state : RowStates, attempted : BOOLEAN, error : Findings \cup {"none"}]

AuthorityTypeOK == /\ replica \in [Objects -> Rows]
                   /\ ledger \subseteq Objects

AuthorityInit ==
  /\ replica = [o \in Objects |->
                  [state |-> "unregistered", attempted |-> FALSE, error |-> "none"]]
  /\ ledger = {}

\* Faulty variants of Pending: without the state='PENDING' condition, and
\* passing over rows whose last attempt failed.
AnyRow(o) == replica[o].state # "unregistered"
PendingUnfailed(o) == replica[o].state = "PENDING" /\ replica[o].error = "none"

Pending(o) == replica[o].state = "PENDING"
Verified(o) == replica[o].state = "VERIFIED"
PendingObjects == {o \in Objects : Pending(o)}
VerifiedObjects == {o \in Objects : Verified(o)}

\* A capture service finalizes one more immutable file and lists it.
Finalize(o) ==
  /\ o \notin ledger
  /\ ledger' = ledger \cup {o}
  /\ UNCHANGED replica

\* register_discovered: insert a PENDING row for every object that has none.
RegisterRows(S) ==
  replica' = [o \in Objects |->
                IF o \in S /\ replica[o].state = "unregistered"
                THEN [replica[o] EXCEPT !.state = "PENDING"]
                ELSE replica[o]]

(* The three guarded UPDATEs; each commits only when its rowcount is one,  *)
(* that is when the row is still PENDING.                                  *)

\* Faulty variant of AttemptRow: attempt_count is not written.
AttemptUncounted(o) ==
  /\ Pending(o)
  /\ replica' = [replica EXCEPT ![o].error = "none"]

AttemptRow(o) ==
  /\ Pending(o)
  /\ replica' = [replica EXCEPT ![o].attempted = TRUE, ![o].error = "none"]

\* Faulty variant of FailRow: a state the schema does not have.
FailIntoState(o, finding) ==
  /\ Pending(o)
  /\ replica' = [replica EXCEPT ![o].state = "FAILED", ![o].error = finding]

FailRow(o, finding) ==
  /\ Pending(o)
  /\ replica' = [replica EXCEPT ![o].error = finding]

VerifyRow(o) ==
  /\ Pending(o)
  /\ replica' = [replica EXCEPT ![o].state = "VERIFIED", ![o].error = "none"]

\* What replica_objects_guard_update, replica_objects_no_delete and the CHECK
\* of the v10 schema let through; anything else aborts the transaction.
SchemaAllows(old, new) ==
  \/ new = old
  \/ /\ old.state = "unregistered"
     /\ new.state = "PENDING" /\ ~new.attempted /\ new.error = "none"
  \/ /\ old.state = "PENDING"
     /\ new.state \in {"PENDING", "VERIFIED"}
     /\ old.attempted => new.attempted
     /\ new.state = "VERIFIED" => new.error = "none"
=============================================================================
