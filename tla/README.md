# Verification of the replication worker

TLA+ models, TLC runs and TLAPS proofs for `replication-worker`: the bounded
worker that copies finalized evidence files to one bound target (a mounted
NFSv4 root or a GCS bucket), reads them back and records the result in SQLite.
Paths below are relative to `src/`; `core/`, `adapters/` and `contracts/` are
under `packages/replication/`.

## 1. Inventory

| Component | State it keeps | Operations | Status |
|---|---|---|---|
| Replica authority: `core/authority.py`, `database/replication_target_migration_v10.py` | `replica_targets`, `replica_objects` (state, attempt_count, last_error) | discover, register_discovered, pending/verified_objects, record_attempt, record_failure, mark_verified, insert_target; v10 triggers | `ReplicaAuthority`, partly |
| Core worker: `core/worker.py` | none of its own but locals: the snapshot it iterates over, the bound target | init_target, reconcile, run, verify | `ReplicationCore`, `TargetInit` |
| Local source: `core/source.py` | reads the spool | source_path, local_size_and_hash | in `ReplicationCore` and the adapters, partly |
| NFS adapter: `adapters/nfs` | marker, one partial per object, finals; runtime identity (st_dev, st_ino) | initialize, bind, validate_identity, cleanup, inspect, publish, verify | `NfsReplication`, `TargetInit`, partly |
| GCS adapter: `adapters/gcs` | marker blob, object blobs, their generations | the same | `GcsReplication`, `TargetInit` |
| Contract: `contracts/` | – | what every adapter promises | `ReplicationContract`, partly |
| Capture ledger: `database/migrations.py` | 13 tables of occurrences, artifacts, assertions, events, imports, jobs, lineage and replicas; schema_migrations | whatever the constraints and triggers of schema versions 1 to 10 admit; migrate | `CaptureSchema`, `CaptureLedger` |
| Agent contracts: `packages/agent_contracts` | none; immutable records bound to each other by digests | classify, propose, validate, the mutation matrices, build_structured_receipt | `MutationPolicy`, `Classification`, `AgentContracts`, partly |
| CLI, TOML config, demo | – | dispatch, parsing, a fixture script | not modelled: no state |

How they interact: the CLI calls one core command per process. The core opens
SQLite (each `BEGIN IMMEDIATE … COMMIT` is one atomic step), binds the target
and calls the adapter once per object. The adapter touches only the target (and
reads the spool); the core alone writes the replica rows. The capture ledger in the
same database is written by services that are not in this repository; what they
may write is decided by the schema alone, and `discover` reads it. Target and
database share no transaction. Nothing excludes two processes on one database and one target.
The agent contracts are a library that nothing here calls but a test: the
observer, agent, approver, executor and verifier that would exchange its records
are outside, and the library cannot order them.

What is hard here: crashes between target and database steps; the same partial
name for every worker; replies lost after the effect; a root or marker that
changes between a check and the call it protects; sources that change between
two reads; rows taken away by another worker; two ledger rows on one file;
convergence after all of it; and a ledger whose rows were admitted by one schema,
were copied by migrations while their triggers were dropped, and are trusted by
another schema's triggers. `PROJECT.json` lists each hazard at its line.

What makes each component correct: a VERIFIED row is never a false claim;
finals are created whole, once, never overwritten; the attempt is durable before
the target is touched; a "pass" leaves nothing it discovered behind; no
statement runs into the schema's triggers; a row and the marker of its target
agree; every listed object is VERIFIED in the end. A ledger row that has reached
the end of its life is never taken back, what was checked when it got there stays
true, and what `discover` lists stays listed as it is. A receipt binds records of one
round only, and says no more than its records prove.

## 2. Modules

| Module | Models | Notes |
|---|---|---|
| `ReplicaAuthority` | rows, ledger and the guarded updates | one operator per transaction; `SchemaAllows` is the v10 triggers and CHECKs |
| `ReplicationCore` | the commands of `core/worker.py` | one action per transaction, source read or adapter call; `pc[w]` is where worker `w` is, `todo[w]` the snapshot of its `for` loop |
| `NfsReplication` | the NFS adapter under the core | one action per file-system call that something could come before or after; faults; remounts; `Spec`, `LiveSpec`; properties |
| `GcsReplication` | the GCS adapter under the core | one action per request; generations; foreign writers |
| `ReplicationContract` | the promise of `contracts/target.py` | `Register`, `Create`, `Accept`; both adapters are checked to implement it |
| `TargetInit` | `init_target`, `initialize_marker`, `GcsTarget.initialize` | any number of processes, ids, both adapters |
| `CaptureSchema` | `MIGRATIONS`: tables, constraints, triggers, backfills | operators over a database: what one statement may do under each schema version (`Admits`), what COMMIT checks, what each migration makes of the rows. `InForce` computes which triggers a version has from which migrations create and drop |
| `CaptureLedger` | `migrate()`, and writers under the schema | one transaction at a time holds the lock; writers, migrators of any release, aborts |
| `ListingContract` | what `discover` and `register_discovered` rely on | `CaptureLedger` is checked, and proved, to implement it |
| `MutationPolicy` | `policy.py` | operations, their rows in the two matrices, the proofs a verification owes |
| `Classification` | `replication.py`, `processor.py` | findings, primary code, actionability, allowed and default operation, as operators |
| `AgentContracts` | `model.py` and the validators | callers put records on a shared desk in any order; `BuildReceipt` is `build_structured_receipt` over the desk |
| `ReplicationCoreProofs` | lemmas about the core's steps, whatever the adapter | what `NfsReplicationProofs` and `GcsReplicationProofs` share |
| `NfsReplicationProofs`, `NfsSoloProofs`, `GcsReplicationProofs`, `TargetInitProofs`, `CaptureLedgerProofs`, `AgentContractsProofs` | theorems | see section 5 |
| `MC…` | values of the constants for TLC | |

Both adapter modules EXTEND `ReplicationCore` and supply the adapter's side:
they take a worker from pc `clean`, `inspect`, `publish` and `check` to the
core's points, and pass to every core action that validates the identity the
answer (parameter `valid`).

How state corresponds: `replica[o]` is the row of object `o` (`unregistered`:
there is none), where an object is one `(object_kind, relative_uri)`, numbered in
the order of `pending_objects`; `UriOf` says which file it names, and two objects
may name the same one. `source[u]` is the file in the spool. On NFS `final[r][u]`
and `partial[r][o]` are the files on root `r`; a file's value is its bytes, `Torn`,
`Absent`, or the worker that has the inode open for writing: `os.link` copies that
value to the second name, and closing settles both names, which is how one inode
with two names behaves. On GCS `blob[u]` has a generation and contents.
`outcome[w]` is the finding raised, or how the process ended.

In `AgentContracts` a desk holds the latest record of each type. Every caller
(`Observe`, `Classify`, `Propose`, `Decide`, `Execute`, `Verify`) makes a record
with the library's constructor from what lies there, whichever round that is
from; `Draft` and `Reclassify` are callers that fill in a `Proposal` or
`Classification` themselves, which the constructors permit
(`tests/test_agent_contracts.py` does). `receipt` is what `build_structured_receipt`
answered: the records it binds and their status; a `ContractViolation` changes
nothing. The receipt is taken away before the next record is made.

In `CaptureLedger` `db` is what is committed and `work` what the open transaction
sees. `Write` is one statement of a writer: the schema of `work` admits it or it
does nothing. The writer commits at once when the deferred foreign keys hold;
else the transaction stays open, may issue more, and may be aborted. `Migrate`
runs the statements of one migration; `BeginMigration(r)` and `CommitMigration`
frame all of them up to the last that release `r` knows, as `migrate()` does.

Abstractions, each chosen because no property tells the difference:

* `attempt_count` is zero or not; timestamps, summaries and exit codes are left
  out; a size mismatch and a digest mismatch are one case; findings that only
  differ in wording of an I/O error are `target_unavailable`.
* File contents are read and copied in one step. A file somebody is still
  writing never counts as exact. (A copy still being written differs from the
  source until its last write; the reader that would see it complete but not yet
  closed is ordered after the close.)
* Parent directories, symlink and file-type checks and mountinfo parsing are
  folded into "the call fails" (`IoFault`).
* A spool file is replaced, removed or restored, not grown in place.
* A SHA-256 digest of a record is the record. A round stands for the snapshot,
  authority and evidence of an observation. A counter is above zero or not, as no
  decision reads more. Severity, precondition and evidence codes, which are
  functions of the code or operation, and all text validation are left out.
* In the ledger a slot is the triple (source, session, sequence number); an
  artifact stands for its id, digest and uris, which determine each other. CHECKs of
  text, lengths and timestamps, names of migrations (a renamed one is refused
  before anything is written), NULL in a TEXT primary key, and columns that no
  constraint or trigger reads are left out.
* Three things are taken of the writers, as the schema does not enforce them:
  a row starts at the beginning of its life (`Begins`; the schema checks the end of
  a life in update triggers only), nobody uses INSERT OR REPLACE, and a manifest
  file named by an artifact and by an assertion has one digest.
* A marker on a bucket is read by `bind` in one step; the code reads it in two
  and fails if it changed in between. Where the metadata shows another size the
  code refuses without a download; `Download` refuses then, with the same finding.
* `bind` and the query of the snapshot after it are one step (`LoadAll`): `bind`
  reads nothing but the target and the query nothing but rows, and the identity is
  validated again before an object on the target is touched. On NFS an identity
  check (`IdentityHolds`: root, marker) and the look at the final that follows it
  are one step too. As a root that has gone does not come back (`Remount`), a check
  spread over several calls passes only if the root was the bound one at the first
  of them, which is the check in one step and a remount after it. What
  is then seen on another root decides which finding is raised and may leave a
  partial there, as a remount after the check does too; the row is not marked
  VERIFIED on it, since `mark_verified` comes after another check, which fails.
* `register_discovered` raises `replica_authority_conflict` if a row says otherwise
  than the listing. It never does here: what the listing says of a file stays so and
  is one row's word (`ListingSpec`, checked and proved of the ledger), so `Expected`
  is a constant. Registering and the query of PENDING rows after it are two steps.

## 3. Runs

`mishaps` counts crashes, failed calls, lost replies and database errors, which
may hit any worker at any step; `MaxMishaps`, `MaxChanges` (of sources) and
`MaxForeign` (changes by other clients of the bucket) are the only bounds on
behaviour. Commands are unbounded: every worker may be started again forever.

| Run | Instance | What it shows |
|---|---|---|
| `NfsOne` | 1 worker, 2 objects on 1 file, 4 mishaps, 1 source change, exact or wrong bytes found on the target | a single worker implements the contract; creates finals whole and once; leaves no partial that reconcile would not find; every listed object is VERIFIED in the end |
| `NfsTwo` | 2 workers, 1 object, 2 mishaps, 1 change | what survives concurrency: VERIFIED is true, nothing is overwritten, attempts come first, pass means verified, no trigger fires |
| `NfsRemount` | 1 worker; home, a clone of its marker, a foreign root | nothing is published on a root that was not bound; rows stay true |
| `NfsTorn` | 2 workers, no failures | **finding**, see section 4 |
| `GcsForeign` | 1 worker, 2 objects on 1 name, 2 foreign changes, 1 mishap, 1 source change | generation checks keep false VERIFIED rows out; no upload takes away what a row was marked VERIFIED for |
| `GcsTwo` | 2 workers, 2 mishaps, any bytes found on the bucket | concurrent workers implement the contract, and converge in spite of each other's conflicts |
| `GcsUnbound` | 1 worker, 1 marker change | **finding**, see section 4 |
| `InitRace` | 2 init processes, 2 ids, both adapters, 2 mishaps | rows and markers agree; no marker is taken over; inits that do not overlap leave no torn marker; a repeated init succeeds |
| `Ledger` | four kinds of writers, six releases from schema 0 to 10, 2 occurrences, 3 artifacts, 2 recordings, 3 slots | what one schema admitted stays true under the next; no migration loses a row or a guard, or is applied in part; which ledgers can be upgraded; the listing contract |
| `AgentPolicy` | all 336 kinds of observation, 1 round, hand-made proposals, a wrong CONVERGED | the chains of both services agree with each other, with the policy and with the validators; doubt is escalated; what is executed in wave C gets no receipt |
| `AgentRounds` | 1 backlog, 2 rounds, approve and deny, full and partial proofs | a receipt binds one round; executed runs are approved; verified is proven |
| `AgentDenied` | 1 round, every outcome, ending and verdict | **finding**, see section 4 |

Why the bounds are enough: every race in the code is between two workers on one
object (names, rows and blobs of different objects are independent except for a
shared uri, which `NfsOne` and `GcsForeign` have), so two workers and one object meet all of them;
two mishaps cover a failure and another one during its recovery; three roots are
the bound one, a marked one and an unmarked one. `MaxChanges = 1` puts a change
between any two reads of a source. The agent runs split one question from the
next: what depends on the kind of observation needs one round and no approval,
and what depends on staleness needs a second round of a single kind, since all
checks of binding compare records, not their kinds; `MaxRounds` bounds both.
Proposals that waive their approval are in the first run only (in the second they
are out of TLC's reach), so that an approval is never waived in a receipt is shown
by `EveryRunIsApproved` alone. The theorems have neither bound.

The ledger's writers are split into four workloads (`MCCaptureLedger`), each the
tables that a trigger or constraint relates to each other: captures that compete for
slots, artifacts and manifests; an occurrence that is imported from one of two
recordings or captured live; reports derived from artifacts; replicas. Two
occurrences, two slots and two artifacts meet every UNIQUE clash, a third slot
has another source. Migrators of releases 2, 3, 6, 7, 9 and 10 (and any number of them one
after the other) stop at every schema that a workload meets a new guard in.
`MaxStatements = 2` loses nothing: only a capture and its assertion ever have
to share a transaction, and a longer one ends where several short ones do.
`AgentRounds` and `Ledger` are the longest runs (one to three minutes).

Fairness: an invocation that has started and can take a step takes it (`WF` of
`Step`: the code never waits, and every step ends), and `run` is started again
and again (`SF` of `Begin(w, "run")`). The latter is the operator: the worker is
bounded and "schedules no future work", so whoever runs it decides when, but runs
it repeatedly; strong, because other commands may occupy the worker in between.
`Convergence` (NFS) and `GcsConvergence` are conditional on the sources being sound and no wrong bytes holding
a name from some time on (`Undisturbed`), as otherwise the code fails closed
forever, on purpose; what happened before that is arbitrary. `Registration` is
conditional in the same way (`Clear`: from some time on the marker and the row of
the target asked for are absent or its own, and no two inits overlap).

Passing runs with more than one worker leave out `CreatedWholeOnce` and
`NoStrandedPartial` on NFS: the first fails (below), and the other is a promise
about a worker alone.

Symmetry (of recordings, in `Ledger`) is used only where all properties are safety.

## 4. Findings

* **A worker can publish another worker's unfinished copy** (`NfsTorn`). The
  partial's name depends on the object alone, and reconcile takes whatever is
  there for its own leftover. W1 is copying; W2's reconcile unlinks W1's partial
  and W2's run creates a new one; W1 finishes and links *that* inode while W2 is
  writing it. The final name appears incomplete and then changes; if W2 dies it
  stays torn, and every later run stops at `destination_collision`. The contract
  says "Remove only adapter-owned transient state" and "Create only if absent or
  adopt exact existing bytes". The row is never VERIFIED on the strength of it.
* **GCS publication does not look at the identity again** (`GcsUnbound`). A
  marker replaced after the loop's check goes unnoticed: the upload goes to the
  new owner's prefix and the row becomes VERIFIED. The NFS adapter and reconcile
  both check again at this point. Nothing else leads there: `MarksUnderFirstMarker`
  proves that it takes a replaced marker, and a run.
* **A denied execution cannot be receipted** (`AgentDenied`).
  `derive_receipt_status` answers DENIED for it, and the receipt's constructor
  refuses every DENIED receipt that binds an execution. It is the only such case:
  by `OnlyDeniedIsUnreceipted`, whatever else passes the binding checks gets its
  receipt.

Not a run, as nothing in the repository calls `transition_state`: the policy lets
`INVOKE_VERIFY` run without approval (`policy.py:145`) and the receipt builder
refuses one, but the transition table enters EXECUTED from APPROVED alone
(`model.py:684`), so a caller that follows the table cannot get to the receipt
that the builder grants.

Nor these, on `database/migrations.py`, which `UpgradeCriterion` shows:

* The comment on v7's backfill says "for every existing COMPLETE occurrence"
  (`migrations.py:1044`); its SELECT takes every capture. Under v3 to v6 no
  trigger keeps a capture from an occurrence that is PREPARED or a GAP, so the
  backfill may assert a capture of one, contrary to "PREPARED/GAP authority has
  none" (`migrations.py:1312`). The guard of v8 then refuses such a ledger. If the
  occurrence is PREPARED it may still be completed, and the ledger then upgrades;
  if it is a GAP the ledger stays below v8 for good, as no trigger lets the GAP,
  the capture or the assertion go (`StrandedForGood`).
* In a ledger below v7 two captures may share an artifact. v7's backfill would give
  two assertions one `manifest_uri`, which is UNIQUE, and from v3 on neither capture
  can be deleted: such a ledger stays below v7 for good (`StrandedForGood`).

Both need writers that leave this to chance; whether the services did is not in
this repository. The migration fails and rolls back; nothing is lost.

## 5. Proofs

TLC checks small instances; the theorems hold for every number of workers,
objects, roots, processes, ids and every bound. They assume only the `ASSUME`s of
the modules: distinct markers for "absent", "torn" and workers, equal expected
bytes for objects on one uri, and that the sets given to `AgentContracts` are of
the code's enumerations. Where a theorem holds of a part of the instances only,
its own `ASSUME` says so: `Solo` (all workers are one), `OneRoot` (one file system
ever appears at the target root) and `Quiet` (sources do not change and nobody
else writes to the bucket: `MaxChanges = MaxForeign = 0`). Mishaps stay unbounded.

* `TypeCorrect`: types, and that `cur[w]` is an object wherever it is used.
* `VerifiedIsExact`: the central one. `VerifiedExact` is not inductive: one must
  know why the worker at `mark_verified` may mark. `ExactInv` adds `SeenExact`
  (after reading exact bytes they are there, or the root was swapped and the
  identity check is bound to fail), `MayMark` (after that check they are on a
  marked root) and `MountsOnce` (no root comes back). The supporting fact is that
  names with closed bytes never change (`NothingOverwritten`), which makes bytes
  once seen stay.
* `AttemptComesFirst`, `SchemaIsRespected`: from `AttemptInv`; a worker past
  `record_attempt` has a row that says so, whoever takes the row over, because no
  transaction resets it.
* `PassedRunsAreComplete`, for any number of workers that take each other's
  objects away: once it has registered them, what a run has found is VERIFIED, still
  to be loaded or in its snapshot, or the object it is at (`Accounted`); a row never
  leaves VERIFIED, and none goes away.
  `Accounted` and the lemmas about it are the core's (`ReplicationCoreProofs`); each
  adapter's proof adds where its own steps lead from there.
* One worker at a time (`NfsSoloProofs`). `AloneWorksOnlyOnPending`: its snapshot
  holds PENDING objects only, and not the one it is at (`Working`).
  `AlonePublishesWhereBound`, over any number of remounts: past `revalidate` either
  the root is still the bound one or, as a root that was never mounted has no
  partial (`Untouched`), there is nothing to link. `AloneStrandsNothing`,
  `AloneCreatesWhole` and `AloneKeepsContract`, on one root: `Leftover` says, for
  each point, of which objects there may still be a partial. Reconcile empties the
  set object by object; a run adds at most the object it works on; whatever fails,
  what is left is of PENDING rows. As nobody else writes, the partial that is linked
  is the one that was closed with the expected bytes. With two workers all five
  are false, as nothing keeps the workers apart: one takes the row of the other
  away, leaves a partial under a row the other marked, links what the other is
  writing (`NfsTorn`), or, past `revalidate`, links the partial that the other made
  on a root mounted meanwhile.
* On GCS: `GcsTypeCorrect`; `VerifiedWasThere`, as the history of a blob has what
  any worker downloaded (`HeldInv`); `VerifiedIsStillThere`, until somebody else
  writes, as a name has then only ever had the contents it has (`OnlyContents`: no
  upload, repeated or late, replaces one); `MarksWhatIsThere`, as no worker has seen a generation of the
  future and a blob keeps its contents for as long as its generation (`SeenInv`).
  `WorkersKeepContract` is the refinement, for any number of workers under `Quiet`:
  what a worker works on is registered and in the ledger, so an upload sends the
  expected bytes, and its object is still PENDING, because a VERIFIED one is stored
  already and the upload would be refused (`QuietInv`). `GcsPassedRunsAreComplete`,
  `GcsSchemaIsRespected` and `GcsAttemptComesFirst` are what the NFS theorems say of
  runs, rows and attempts, from the same lemmas of the core, with lost replies,
  foreign writers and replaced markers. `MarksUnderFirstMarker`: until the first
  replacement whoever works on the target has bound that marker (`FirstMarker`), and
  reconcile looks at it again before it marks.
* `RowsMatchMarkers`, `MarkersStay`, `InitTypeCorrect`: for init; a marker with a
  target id is never written again, so what was read back before the
  transaction still holds when the row appears (`MarkerInv`).
* `LoneInitLeavesNoTornMarker`: from `AloneInv`, that the marker's writer is the
  only process under way as long as no two have overlapped.
* On the ledger, for any occurrences, artifacts, recordings, releases, workloads
  and length of transactions: `EventsStayTrue`, `EveryCaptureIsAsserted`,
  `CompletedWorkStays`, `LedgerIsAppendOnly`, `LedgerImplementsListing` and the types.
  The invariant (`IInv`) is that every fact that some trigger checked once
  (`Sound`) is true of what is committed and of what an open transaction sees,
  and that what is committed satisfies the deferred foreign keys. The argument:
  which triggers are in force at each version is computed from the migrations
  (`InForce`); where a trigger of `Immutable` is in force no statement changes the
  rows a fact speaks of, except towards the end of their life, which no fact can
  tell (`PutKeeps`); a migration keeps all rows, and what it back-fills satisfies
  the facts of the new version given its guard (`Migratable`). A migration that
  dropped a trigger and did not create it again would break the first step.
* `MigrationsAreAtomic`: until the commit, what a migrator has made is exactly that
  many migrations of what is committed (`Upgrading`), as nobody else commits
  meanwhile, and nothing else of it is ever published.
* `UpgradesExactly`: what migrate() does to a ledger is a function of the version
  (`Upgrade`). As the versions are ten it is unrolled, not reasoned about by
  induction: `Along` says what the database of each version on the way has of the
  one it began with. Only v7 (captures that
  share an artifact), v8 (an assertion of an occurrence that is not COMPLETE) and the
  COMMIT (a capture without assertion) can refuse; what v7 back-fills asserts every
  capture. That an assertion under v7 names its capture (`Named`), which the COMMIT
  checks from v8 on, is an invariant of its own.
* `StrandedForGood`: for the two conditions of `Upgradable` that no writer can
  restore, that they stay unmet whatever is written or migrated (`KeepsStranded`, from
  `Keeps`), which also holds of the open transaction (`StrandedToo`). TLC reaches
  both in the instance of `Ledger`, so neither is empty.
* On the agent contracts, for any observations, drafts, mistakes and number of
  rounds: `ReceiptsBindOneRound`, `EveryRunIsApproved`, `WaveCIsReadOnly`,
  `VerifiedReceiptsAreProven`, `DoubtIsAlwaysEscalated`, `ConvergedIsAlwaysTrue`.
  All rest on one invariant (`ReceiptIsAnswer`): the records a receipt binds pass
  every check of `build_structured_receipt`, and its status is the derived one;
  the rest works out what those checks require, the last two with lemmas about the
  two classifiers (`DoubtIsPrimary`, `ConvergedHasNoTrouble`). Of the classifiers
  themselves: `PrimaryIsAlwaysMostPressing`, one lemma for each chain of conditions,
  which walks down the chain and compares the ranks of what `_findings` collects; and
  `EveryObservationIsAlwaysAnswered`, as the default operation of each code is among
  those it allows and is forbidden in no wave (`DefaultIsAllowed`).
  `OnlyDeniedIsUnreceipted` compares the binding checks with the constructor's, case
  by case. They say nothing of
  receipts built by calling the `StructuredReceipt` constructor directly, which
  checks no binding. `AgentTypeCorrect` is the type invariant.

Only model-checked: liveness (`Convergence`, `GcsConvergence`, `Registration`),
which TLAPS cannot prove here, and the three runs that show a finding. Every
invariant, action property and refinement that a passing run checks is a theorem.

Faulty variants (`AnyRow`, `LeavePartial`, `CreateOver`, …) stand beside the
definitions they vary. Each is a plausible bug, and replacing the definition by
it makes TLC report the property named in `PROJECT.json`: no property holds just
by the shape of the model.

## 6. Not modelled, and the plan

Done: the core, both adapters, init, their contract, the capture ledger with all
its migrations, the agent contracts, and the theorems above. Left:

1. `AgentLoop`: the closed loop observe – classify – propose – execute around the
   rows; whether the proposals drain a backlog (`FAILED_PENDING` proposes only
   reconcile, which never publishes).
2. The ledger and the core in one model. Today they meet at `ListingContract`:
   the ledger implements it, and `FinalizeObject` is the step of it that the core
   sees. That the core's step implements the contract is not a theorem: a migration
   to v10 makes a whole ledger listable at once, where the core finalizes one object
   at a time, so the composition needs a ledger that fills in between commands.

Out of reach or out of scope: timing, performance, the contents of SQLite's and
the NFS server's own guarantees (a committed transaction is durable, `link` and
`O_EXCL` are atomic), a root that is unmounted and comes back unchanged in
identity, and input validation without state.
