---------------------------- MODULE CaptureLedger ----------------------------
(***************************************************************************)
(* The capture ledger at work: writers that the schema alone keeps in      *)
(* order, and migrate() of packages/database/migrations.py, run by any     *)
(* release while there are writers.  A transaction works on a copy of the  *)
(* database and holds its write lock (BEGIN IMMEDIATE) until it commits,   *)
(* fails or dies.                                                          *)
(*                                                                         *)
(* The writers are services outside this repository.  A writer commits as  *)
(* soon as it can: only a capture and its assertion ever have to share a   *)
(* transaction, so a longer one ends where several short ones do.          *)
(***************************************************************************)
EXTENDS CaptureSchema

CONSTANTS Releases,      \* the last migration that each release in use knows
          Workloads,     \* sets of <<table, key, row>> that writers may write
          MaxStatements  \* bound: statements of a transaction still open

ASSUME LedgerAssumption ==
  /\ Releases \subseteq 1..Latest
  /\ \A w \in Workloads : \A s \in w : s[1] \in Tables /\ s[2] \in Keys(s[1])
                                                    /\ s[3] \in Rows(s[1]) \cup {None}
  /\ MaxStatements \in Nat

VARIABLES db,       \* what is committed
          work,     \* what the open transaction sees; db if there is none
          lock,     \* who holds the write lock
          issued,   \* statements of the writer that holds it
          upto,     \* release of the migrator that holds it
          workload  \* what the writers do; stays as it is

vars == <<db, work, lock, issued, upto, workload>>

LedgerTypeOK ==
  /\ IsDatabase(db) /\ IsDatabase(work)
  /\ lock \in {"free", "writer", "migrator"}
  /\ issued \in 0..MaxStatements
  /\ upto \in 0..Latest
  /\ workload \in Workloads

Init ==
  /\ db = Empty /\ work = Empty
  /\ lock = "free" /\ issued = 0 /\ upto = 0
  /\ workload \in Workloads

Unlock == lock' = "free" /\ issued' = 0 /\ upto' = 0
Publish(d) == db' = d /\ work' = d /\ Unlock
Rollback == work' = db /\ Unlock /\ UNCHANGED db

\* A writer's INSERT, UPDATE or DELETE.
Write(t, k, row) ==
  /\ lock \in {"free", "writer"}
  /\ issued < MaxStatements
  /\ Admits(work, t, k, row)
  /\ LET d == Put(work, t, k, row) IN
       \/ Committable(d) /\ Publish(d)
       \/ /\ ~Committable(d)
          /\ work' = d /\ lock' = "writer" /\ issued' = issued + 1
          /\ UNCHANGED <<db, upto>>
  /\ UNCHANGED workload

\* BEGIN IMMEDIATE; a database that is ahead of the code is left alone.
BeginMigration(r) ==
  /\ lock = "free"
  /\ db.version <= r
  /\ lock' = "migrator" /\ upto' = r
  /\ UNCHANGED <<db, work, issued, workload>>

\* Faulty variant of Migrate: each migration in a transaction of its own.
MigrateCommitting ==
  /\ lock = "migrator"
  /\ work.version < upto
  /\ Migratable(work.version + 1, work)
  /\ work' = Migrated(work.version + 1, work)
  /\ db' = IF Committable(work') THEN work' ELSE db
  /\ UNCHANGED <<lock, issued, upto, workload>>

\* The statements of one migration, and its row in schema_migrations.
Migrate ==
  /\ lock = "migrator"
  /\ work.version < upto
  /\ Migratable(work.version + 1, work)
  /\ work' = Migrated(work.version + 1, work)
  /\ UNCHANGED <<db, lock, issued, upto, workload>>

CommitMigration ==
  /\ lock = "migrator"
  /\ work.version = upto
  /\ Committable(work)
  /\ Publish(work)
  /\ UNCHANGED workload

\* A statement of a migration, or its COMMIT, fails: rollback, and raise.
FailMigration ==
  /\ lock = "migrator"
  /\ IF work.version < upto THEN ~Migratable(work.version + 1, work)
                            ELSE ~Committable(work)
  /\ Rollback
  /\ UNCHANGED workload

\* A transaction is given up, or its process dies; SQLite undoes what it did.
Abort ==
  /\ lock # "free"
  /\ Rollback
  /\ UNCHANGED workload

Next ==
  \/ \E s \in workload : Write(s[1], s[2], s[3])
  \/ \E r \in Releases : BeginMigration(r)
  \/ Migrate \/ CommitMigration \/ FailMigration
  \/ Abort

Spec == Init /\ [][Next]_vars
-----------------------------------------------------------------------------
(* Properties.                                                             *)

\* Whatever was written under whichever schema: an event says what happened.
\* That a recorded gap has no capture is only so from schema 8 on.
EventsAreTrue ==
  \A o \in Occurrences :
    /\ Event(db, o) = "SegmentFinalized" =>
         /\ Has(db, "capture_occurrences", o)
         /\ db.version >= 3 => InState(db, o, "COMPLETE")
    /\ Event(db, o) = "GapRecorded" =>
         /\ InState(db, o, "GAP")
         /\ db.version >= 8 => ~Has(db, "capture_occurrences", o)

\* From schema 8 on every capture has its one assertion and is COMPLETE, those
\* written or back-filled under earlier schemas included; discover() finds the
\* occurrences through their assertions alone.
CapturesAreAsserted ==
  db.version >= 8 =>
    \A o \in Occurrences :
      /\ Has(db, "capture_occurrences", o) <=> Has(db, "capture_occurrence_assertions", o)
      /\ Has(db, "capture_occurrence_assertions", o) =>
           InState(db, o, "COMPLETE") /\ NamesCapture(db, o, Asserted(db, o))

\* A COMPLETE job keeps everything that was checked when it completed, though
\* the checks are of rows of five other tables and are not made again.
CompletedWorkHolds ==
  /\ \A o \in Occurrences :
       Has(db, "recording_import_jobs", o) /\ Job(db, o).output # None
         => ImportHolds(db, o, Job(db, o))
  /\ \A a \in Artifacts :
       LET job == db.rows["processing_jobs"][a] IN
       job # None /\ job.output # None => db.rows["artifact_lineage"][job.output] = a

\* The schema version from which on a table is append-only.
SettledSince(t) ==
  CASE t \in {"expected_occurrences", "capture_occurrences", "outbox_events"} -> 3
    [] t = "artifacts" -> 4
    [] OTHER -> 0

\* No writer and no migration of any release takes a settled row back: it stays
\* as it is, or gets to the end of its life once.  A migration keeps all rows.
Keeps(d, e) ==
  /\ d.version <= e.version
  /\ \A t \in Tables : \A k \in Keys(t) :
       d.rows[t][k] # None /\ (d.version >= SettledSince(t) \/ d.version # e.version)
         => \/ e.rows[t][k] = d.rows[t][k]
            \/ d.version = e.version /\ e.rows[t][k] # None
               /\ Finishes(t, d.rows[t][k], e.rows[t][k])

FactsAreKept == [][Keeps(db, db')]_db

\* The databases along a migration to each version.
Upgrade(d) ==
  LET at[v \in 0..Latest] == IF v <= d.version THEN d ELSE Migrated(v, at[v - 1])
  IN  at

UpgradeSucceeds(d) ==
  /\ \A v \in d.version + 1..Latest : Migratable(v, Upgrade(d)[v - 1])
  /\ Committable(Upgrade(d)[Latest])

\* Nothing of a migration that failed or died half way stays, and none works on
\* rows or a version that somebody else has changed since it read them: if the
\* committed version changes at all, then from what was committed so far to what
\* the migrator's release makes of it.
UpgradesAtOnce == [][db'.version # db.version => db' = Upgrade(db)[upto]]_db

\* What the writers of earlier schemas have to see to, as no constraint does:
\* one capture per artifact before 7, COMPLETE captures before 8, and under 7
\* an assertion for every capture.
Upgradable(d) ==
  /\ d.version < 7 =>
       \A o, p \in Occurrences :
         o # p /\ Has(d, "capture_occurrences", o) /\ Has(d, "capture_occurrences", p)
           => Captured(d, o).artifact # Captured(d, p).artifact
  /\ d.version \in 3..7 =>
       \A o \in Occurrences :
         Has(d, "capture_occurrences", o) =>
           /\ InState(d, o, "COMPLETE")
           /\ d.version = 7 => Has(d, "capture_occurrence_assertions", o)

\* Exactly those ledgers can be brought to the current schema.
UpgradeCriterion == UpgradeSucceeds(db) <=> Upgradable(db)

\* What discover() lists, with the row that each entry is read from.  It
\* refuses to read another schema than the last.
Entry(kind, uri, key, row) == [kind |-> kind, uri |-> uri, key |-> key, row |-> row]

Listed(d) ==
  IF d.version # Latest THEN {}
  ELSE LET arts == {a \in Artifacts : Has(d, "artifacts", a)}
           asserted == {o \in Occurrences : Has(d, "capture_occurrence_assertions", o)}
           imported == {r \in Recordings : /\ Has(d, "recording_imports", r)
                                           /\ d.rows["recording_imports"][r].state = "COMPLETE"}
       IN  {Entry("artifact_content", a, a, d.rows["artifacts"][a]) : a \in arts}
           \cup {Entry("artifact_manifest", a, a, d.rows["artifacts"][a]) : a \in arts}
           \cup {Entry("occurrence_assertion", Asserted(d, o).uri, o, Asserted(d, o)) :
                   o \in asserted}
           \cup {Entry("recording_original", r, r, d.rows["recording_imports"][r]) :
                   r \in imported}

Listing == INSTANCE ListingContract WITH listed <- Listed(db)

\* What discover() lists is listed for good, and is one row's word on each file.
ListingSpec == Listing!Spec
=============================================================================
