--------------------------- MODULE ReplicationCore ---------------------------
(***************************************************************************)
(* packages/replication/core/worker.py: the commands run, reconcile and    *)
(* verify as a worker process executes them, one action for each database  *)
(* transaction, source read or call of the target adapter.  The adapter's  *)
(* own steps are in NfsReplication and GcsReplication, which EXTEND this   *)
(* module: they take a worker from pc "clean", "inspect", "publish" and    *)
(* "check" to the points named here, and they tell each action that        *)
(* validates the target's identity whether it holds (parameter valid).     *)
(*                                                                         *)
(* Nothing in the code keeps two processes from working on one database    *)
(* and one target: a worker here is one process, and Workers may have      *)
(* several.                                                                *)
(***************************************************************************)
EXTENDS ReplicaAuthority

CONSTANTS Workers,     \* worker processes that may run at the same time
          Missing,     \* a source path at which there is no file
          MaxMishaps,  \* bound: crashes, I/O failures and database failures
          MaxChanges   \* bound: changes of a source file

ASSUME CoreAssumption ==
  /\ Missing \notin Bytes
  /\ MaxMishaps \in Nat
  /\ MaxChanges \in Nat

VARIABLES source,   \* the spool: the bytes at each uri, or Missing
          pc,       \* where each worker is
          cmd,      \* the command it was started with
          todo,     \* rest of the snapshot its for loop iterates over
          cur,      \* the object the loop is at
          found,    \* what discover() returned
          outcome,  \* how the last invocation ended, or the finding raised
          mishaps,  \* crashes and failures so far
          changes   \* source changes so far

workerVars == <<pc, cmd, todo, cur, found, outcome>>
coreVars == <<replica, ledger, source, workerVars, mishaps, changes>>

NoObject == 0
Commands == {"run", "reconcile", "verify"}
Outcomes == Findings \cup {"none", "running", "pass", "crashed"}
Uri(w) == UriOf[cur[w]]
Exact(w, bytes) == bytes = Expected[cur[w]]

CorePoints == {"idle",
               "rLoad", "rItem", "recheck", "rMark",          \* reconcile
               "load", "discover", "register", "pending",     \* run
               "item", "attempt", "hash", "failing", "mark",
               "vLoad", "vItem"}                              \* verify
AdapterEntries == {"clean", "inspect", "publish", "check"}

CoreInit ==
  /\ AuthorityInit
  /\ source = [u \in Uris |-> Missing]
  /\ pc = [w \in Workers |-> "idle"]
  /\ cmd = [w \in Workers |-> "run"]
  /\ todo = [w \in Workers |-> {}]
  /\ cur = [w \in Workers |-> NoObject]
  /\ found = [w \in Workers |-> {}]
  /\ outcome = [w \in Workers |-> "none"]
  /\ mishaps = 0
  /\ changes = 0

-----------------------------------------------------------------------------
(* Moves of a worker that touch neither the database nor the target.       *)

Goto(w, point) ==
  /\ pc' = [pc EXCEPT ![w] = point]
  /\ UNCHANGED <<cmd, todo, cur, found, outcome>>

\* The process ends: normally, by an uncaught ReplicationError, or killed.
Stop(w, how) ==
  /\ pc' = [pc EXCEPT ![w] = "idle"]
  /\ outcome' = [outcome EXCEPT ![w] = how]
  /\ todo' = [todo EXCEPT ![w] = {}]
  /\ cur' = [cur EXCEPT ![w] = NoObject]
  /\ UNCHANGED <<cmd, found>>

\* A ReplicationError raised inside run()'s try: it is recorded, then raised.
Raise(w, finding) ==
  /\ pc' = [pc EXCEPT ![w] = "failing"]
  /\ outcome' = [outcome EXCEPT ![w] = finding]
  /\ UNCHANGED <<cmd, todo, cur, found>>

\* The for loop takes the next object of its snapshot, in the query's order.
TakeFirst(w, point) ==
  \E o \in todo[w] :
    /\ \A p \in todo[w] : o <= p
    /\ cur' = [cur EXCEPT ![w] = o]
    /\ todo' = [todo EXCEPT ![w] = @ \ {o}]
    /\ pc' = [pc EXCEPT ![w] = point]
    /\ UNCHANGED <<cmd, found, outcome>>

\* _load_target and bind, then the snapshot of the rows to work on.  One step:
\* bind reads nothing but the target and the query nothing but rows, and the
\* identity is validated again before an object on the target is touched.
LoadAll(w, valid, objects, point) ==
  \/ /\ valid
     /\ todo' = [todo EXCEPT ![w] = objects]
     /\ pc' = [pc EXCEPT ![w] = point]
     /\ UNCHANGED <<cmd, cur, found, outcome>>
  \/ /\ ~valid
     /\ Stop(w, "target_identity_mismatch")

frame == <<replica, ledger, source, mishaps, changes>>

Start(w, command) ==
  /\ pc[w] = "idle"
  /\ pc' = [pc EXCEPT ![w] = IF command = "verify" THEN "vLoad" ELSE "rLoad"]
  /\ cmd' = [cmd EXCEPT ![w] = command]
  /\ found' = [found EXCEPT ![w] = {}]
  /\ outcome' = [outcome EXCEPT ![w] = "running"]
  /\ UNCHANGED <<todo, cur, frame>>
-----------------------------------------------------------------------------
(* reconcile(): converge the already known PENDING rows.                   *)

ReconcileLoad(w, valid) ==
  /\ pc[w] = "rLoad"
  /\ LoadAll(w, valid, PendingObjects, "rItem")
  /\ UNCHANGED frame

ReconcileItem(w, valid) ==
  /\ pc[w] = "rItem"
  /\ \/ /\ todo[w] = {}
        /\ cmd[w] = "reconcile"
        /\ Stop(w, "pass")
     \/ /\ todo[w] = {}
        /\ cmd[w] = "run"
        /\ Goto(w, "load")
     \/ /\ todo[w] # {}
        /\ valid
        /\ TakeFirst(w, "clean")
     \/ /\ todo[w] # {}
        /\ ~valid
        /\ Stop(w, "target_identity_mismatch")
  /\ UNCHANGED frame

\* Faulty variant of ReconcileRecheck: no second validate_identity.
ReconcileTrusting(w, valid) ==
  /\ pc[w] = "recheck"
  /\ Goto(w, "rMark")
  /\ UNCHANGED frame

\* validate_identity between inspect() == "exact" and mark_verified.
ReconcileRecheck(w, valid) ==
  /\ pc[w] = "recheck"
  /\ \/ valid /\ Goto(w, "rMark")
     \/ ~valid /\ Stop(w, "target_identity_mismatch")
  /\ UNCHANGED frame

\* mark_verified, for reconcile ("rMark") and for run ("mark"): outside any
\* try, so a row another process took away ends the process unrecorded.
MarkVerified(w) ==
  /\ pc[w] \in {"rMark", "mark"}
  /\ \/ /\ VerifyRow(cur[w])
        /\ Goto(w, IF pc[w] = "mark" THEN "item" ELSE "rItem")
     \/ /\ ~Pending(cur[w])
        /\ UNCHANGED replica
        /\ Stop(w, "replica_authority_conflict")
  /\ UNCHANGED <<ledger, source, mishaps, changes>>
-----------------------------------------------------------------------------
(* run(): after reconcile, discover, register and publish.                 *)

RunLoad(w, valid) ==
  /\ pc[w] = "load"
  /\ LoadAll(w, valid, {}, "discover")
  /\ UNCHANGED frame

\* discover() reads one snapshot of the ledger and hashes every manifest.
Discover(w) ==
  /\ pc[w] = "discover"
  /\ \/ /\ \A o \in ledger \cap Manifests : source[UriOf[o]] = Expected[o]
        /\ found' = [found EXCEPT ![w] = ledger]
        /\ pc' = [pc EXCEPT ![w] = "register"]
        /\ UNCHANGED <<cmd, todo, cur, outcome>>
     \/ \E o \in ledger \cap Manifests :
          /\ source[UriOf[o]] # Expected[o]
          /\ Stop(w, IF source[UriOf[o]] = Missing THEN "local_source_missing"
                                                   ELSE "local_source_corrupt")
  /\ UNCHANGED frame

\* register_discovered: one transaction.  A row it finds is the one the listing
\* describes, as the listing never changes what it says of an object
\* (ListingSpec): its replica_authority_conflict never comes up.
Register(w) ==
  /\ pc[w] = "register"
  /\ RegisterRows(found[w])
  /\ Goto(w, "pending")
  /\ UNCHANGED <<ledger, source, mishaps, changes>>

\* pending_objects: what is PENDING by now, a query after that commit.
LoadPending(w) ==
  /\ pc[w] = "pending"
  /\ todo' = [todo EXCEPT ![w] = PendingObjects]
  /\ pc' = [pc EXCEPT ![w] = "item"]
  /\ UNCHANGED <<cmd, cur, found, outcome, frame>>

RunItem(w, valid) ==
  /\ pc[w] = "item"
  /\ \/ /\ todo[w] = {}
        /\ Stop(w, "pass")
     \/ /\ todo[w] # {}
        /\ valid
        /\ TakeFirst(w, "attempt")
     \/ /\ todo[w] # {}
        /\ ~valid
        /\ Stop(w, "target_identity_mismatch")
  /\ UNCHANGED frame

\* record_attempt commits before anything on the target is touched.
RecordAttempt(w) ==
  /\ pc[w] = "attempt"
  /\ \/ /\ AttemptRow(cur[w])
        /\ Goto(w, "hash")
     \/ /\ ~Pending(cur[w])
        /\ UNCHANGED replica
        /\ Stop(w, "replica_authority_conflict")
  /\ UNCHANGED <<ledger, source, mishaps, changes>>

\* local_size_and_hash against the registered size and digest.
HashSource(w) ==
  /\ pc[w] = "hash"
  /\ \/ Exact(w, source[Uri(w)]) /\ Goto(w, "publish")
     \/ source[Uri(w)] = Missing /\ Raise(w, "local_source_missing")
     \/ /\ source[Uri(w)] # Missing
        /\ ~Exact(w, source[Uri(w)])
        /\ Raise(w, "local_source_corrupt")
  /\ UNCHANGED frame

\* except ReplicationError: record_failure, then raise out of the process.
RecordFailure(w) ==
  /\ pc[w] = "failing"
  /\ \/ /\ FailRow(cur[w], outcome[w])
        /\ Stop(w, outcome[w])
     \/ /\ ~Pending(cur[w])
        /\ UNCHANGED replica
        /\ Stop(w, "replica_authority_conflict")
  /\ UNCHANGED <<ledger, source, mishaps, changes>>
-----------------------------------------------------------------------------
(* verify(): read back every VERIFIED object.                              *)

VerifyLoad(w, valid) ==
  /\ pc[w] = "vLoad"
  /\ LoadAll(w, valid, VerifiedObjects, "vItem")
  /\ UNCHANGED frame

VerifyItem(w, valid) ==
  /\ pc[w] = "vItem"
  /\ \/ ~valid /\ Stop(w, "target_identity_mismatch")
     \/ valid /\ todo[w] = {} /\ Stop(w, "pass")
     \/ valid /\ todo[w] # {} /\ TakeFirst(w, "check")
  /\ UNCHANGED frame
-----------------------------------------------------------------------------
(* The environment.                                                        *)

\* A failure uses up one of the bounded mishaps.
Mishap == /\ mishaps < MaxMishaps
          /\ mishaps' = mishaps + 1

\* A sqlite3.Error in a transaction or a query: rolled back, then raised.
DatabaseFault(w) ==
  /\ pc[w] \in {"rLoad", "load", "vLoad", "discover", "register", "pending",
                "attempt", "rMark", "mark", "failing"}
  /\ Mishap
  /\ Stop(w, "database_integrity_failure")
  /\ UNCHANGED <<replica, ledger, source, changes>>

\* validate_identity or bind cannot reach the target: outside run()'s try.
IdentityFault(w) ==
  /\ pc[w] \in {"rLoad", "rItem", "recheck", "load", "item", "vLoad", "vItem"}
  /\ Mishap
  /\ Stop(w, "target_unavailable")
  /\ UNCHANGED <<replica, ledger, source, changes>>

Crash(w) ==
  /\ pc[w] # "idle"
  /\ Mishap
  /\ Stop(w, "crashed")
  /\ UNCHANGED <<replica, ledger, source, changes>>

\* The capture service writes one more file and lists it, or lists a file
\* that is already there under a second kind.
FinalizeObject(o) ==
  /\ Finalize(o)
  /\ source' = IF \E p \in ledger : UriOf[p] = UriOf[o]
               THEN source
               ELSE [source EXCEPT ![UriOf[o]] = Expected[o]]
  /\ UNCHANGED <<workerVars, mishaps, changes>>

\* A spool file is damaged, removed or restored behind the worker's back.
ChangeSource(u, bytes) ==
  /\ changes < MaxChanges
  /\ changes' = changes + 1
  /\ source[u] # bytes
  /\ source' = [source EXCEPT ![u] = bytes]
  /\ UNCHANGED <<replica, ledger, workerVars, mishaps>>
-----------------------------------------------------------------------------
(* What the core promises, whichever target it works on.                   *)

\* A run that reported "pass" left none of the objects it discovered behind:
\* each of them is VERIFIED, also those another worker took over meanwhile.
PassMeansVerified ==
  \A w \in Workers :
    cmd[w] = "run" /\ outcome[w] = "pass" => found[w] \subseteq VerifiedObjects

\* No statement the core issues is one the v10 triggers and CHECKs refuse.
SchemaRespected ==
  [][\A o \in Objects : SchemaAllows(replica[o], replica'[o])]_replica

\* A part of the inductive invariant behind SchemaRespected.
FreshRows ==
  \A o \in Objects : replica[o].state = "unregistered" =>
                       ~replica[o].attempted /\ replica[o].error = "none"
=============================================================================
