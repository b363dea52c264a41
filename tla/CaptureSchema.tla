---------------------------- MODULE CaptureSchema ----------------------------
(***************************************************************************)
(* packages/database/migrations.py: the tables of the capture ledger, what *)
(* constraints and triggers admit at each schema version, and what each of *)
(* the migrations makes of a database.  Everything here is an operator     *)
(* over a database d = [version, rows]: d.rows[t][k] is the row of table t *)
(* under key k, or None.                                                   *)
(*                                                                         *)
(* A slot is the triple (source_id, session_id, sequence_number); SourceOf *)
(* gives its source.  artifact_id, digest and the two uris of an artifact  *)
(* determine each other, so an artifact stands for all of them.  An import *)
(* job is keyed by its occurrence (UNIQUE), a processing job, of one set   *)
(* of parameters, by its input; replicas are of the content of artifacts.  *)
(* Columns that no constraint or trigger reads, or that no statement may   *)
(* change, are left out.                                                   *)
(***************************************************************************)
EXTENDS Naturals

CONSTANTS Occurrences, Artifacts, Recordings, Targets,
          Slots, SourceOf,
          RawMedia,  \* the artifacts of kind raw_media; the others are metadata
          None       \* no row, or NULL

Latest == 10

Sources == {SourceOf[s] : s \in Slots}
-----------------------------------------------------------------------------
(* Tables and rows.                                                        *)

Tables == {"artifacts", "capture_occurrences", "outbox_events", "expected_occurrences",
           "processing_jobs", "artifact_lineage", "recording_imports",
           "recording_import_jobs", "recording_segment_provenance",
           "rtsp_capture_attempts", "capture_occurrence_assertions",
           "replica_targets", "replica_objects"}

\* The migration that creates the table.
CreatedBy(t) ==
  CASE t \in {"artifacts", "capture_occurrences", "outbox_events"} -> 2
    [] t = "expected_occurrences" -> 3
    [] t \in {"processing_jobs", "artifact_lineage"} -> 4
    [] t \in {"recording_imports", "recording_import_jobs",
              "recording_segment_provenance"} -> 5
    [] t = "rtsp_capture_attempts" -> 6
    [] t = "capture_occurrence_assertions" -> 7
    [] t \in {"replica_targets", "replica_objects"} -> 9

Exists(d, t) == CreatedBy(t) <= d.version

Keys(t) ==
  CASE t \in {"artifacts", "processing_jobs", "artifact_lineage"} -> Artifacts
    [] t = "recording_imports" -> Recordings
    [] t = "replica_targets" -> Targets
    [] t = "replica_objects" -> Targets \X Artifacts
    [] OTHER -> Occurrences

\* The life of a row with a state column, in two stages or three.
Lives == {"PREPARED", "COMPLETE"}
Endings == Lives \cup {"GAP"}

ExpectedRows == [slot : Slots, state : Endings, artifact : Artifacts \cup {None}]
CaptureRows == [slot : Slots, artifact : Artifacts]
\* The manifest lies beside the artifact or is the occurrence's own.
AssertionRows ==
  [source : Sources, artifact : Artifacts, uri : Artifacts \cup Occurrences]
EventRows == {"SegmentFinalized", "GapRecorded"}
ImportRows == [source : Sources, state : Lives]
\* CHECK ties the state of a job to its output: it is COMPLETE once it has one.
ImportJobRows == [slot : Slots, recording : Recordings, output : Artifacts \cup {None}]
ProcessingRows == [output : Artifacts \cup {None}]

Rows(t) ==
  CASE t = "artifacts" -> Sources
    [] t = "expected_occurrences" -> ExpectedRows
    [] t = "capture_occurrences" -> CaptureRows
    [] t = "capture_occurrence_assertions" -> AssertionRows
    [] t = "outbox_events" -> EventRows
    [] t = "rtsp_capture_attempts" -> Sources
    [] t = "recording_imports" -> ImportRows
    [] t = "recording_import_jobs" -> ImportJobRows
    [] t = "recording_segment_provenance" -> Recordings
    [] t = "processing_jobs" -> ProcessingRows
    [] t = "artifact_lineage" -> Artifacts
    [] t = "replica_targets" -> {"mounted_nfs_v4", "gcs"}
    [] t = "replica_objects" -> {"PENDING", "VERIFIED"}

ASSUME SchemaAssumption ==
  /\ Occurrences \cap Artifacts = {} /\ RawMedia \subseteq Artifacts
  /\ None \notin Artifacts
  /\ \A t \in Tables : None \notin Rows(t)

IsDatabase(d) ==
  /\ d = [version |-> d.version, rows |-> d.rows]
  /\ d.version \in 0..Latest
  /\ d.rows = [t \in Tables |-> [k \in Keys(t) |-> d.rows[t][k]]]
  /\ \A t \in Tables : \A k \in Keys(t) : d.rows[t][k] \in Rows(t) \cup {None}

Empty == [version |-> 0, rows |-> [t \in Tables |-> [k \in Keys(t) |-> None]]]

Has(d, t, k) == d.rows[t][k] # None
Expected(d, o) == d.rows["expected_occurrences"][o]
Captured(d, o) == d.rows["capture_occurrences"][o]
Asserted(d, o) == d.rows["capture_occurrence_assertions"][o]
Event(d, o) == d.rows["outbox_events"][o]
Job(d, o) == d.rows["recording_import_jobs"][o]

InState(d, o, state) == Has(d, "expected_occurrences", o) /\ Expected(d, o).state = state

\* The assertion row (of occurrence o) names o's capture row.
NamesCapture(d, o, row) ==
  /\ Has(d, "capture_occurrences", o)
  /\ row.source = SourceOf[Captured(d, o).slot]
  /\ row.artifact = Captured(d, o).artifact
-----------------------------------------------------------------------------
(* Triggers: <<table, event>> stands for the BEFORE trigger of the event.   *)

Immutable(tables) == tables \X {"update", "delete"}

TriggersOf3 ==
  Immutable({"expected_occurrences", "capture_occurrences", "outbox_events"})
  \cup {<<"outbox_events", "insert">>}
TriggersOf4 ==
  Immutable({"processing_jobs", "artifact_lineage", "artifacts"})
  \cup {<<"artifact_lineage", "insert">>}
TriggersOf5 ==
  Immutable({"recording_imports", "recording_import_jobs", "recording_segment_provenance"})
  \cup {<<"recording_segment_provenance", "insert">>}
TriggersOf6 == {"rtsp_capture_attempts"} \X {"insert", "update", "delete"}
TriggersOf7 ==
  Immutable({"expected_occurrences", "capture_occurrences", "outbox_events",
             "rtsp_capture_attempts", "recording_segment_provenance",
             "capture_occurrence_assertions"})
  \cup {<<"recording_import_jobs", "update">>}
  \cup {"outbox_events", "rtsp_capture_attempts", "recording_segment_provenance",
        "capture_occurrence_assertions"} \X {"insert"}
TriggersOf8 ==
  Immutable({"capture_occurrences", "capture_occurrence_assertions",
             "recording_segment_provenance"})
  \cup {<<"recording_import_jobs", "update">>}
  \cup {"outbox_events", "recording_segment_provenance",
        "capture_occurrence_assertions"} \X {"insert"}
ReplicaTriggers == Immutable({"replica_targets", "replica_objects"})

\* The triggers a migration creates.
TriggersOf(v) ==
  CASE v = 3 -> TriggersOf3
    [] v = 4 -> TriggersOf4
    [] v = 5 -> TriggersOf5
    [] v = 6 -> TriggersOf6
    [] v = 7 -> TriggersOf7
    [] v = 8 -> TriggersOf8
    [] v \in {9, 10} -> ReplicaTriggers
    [] OTHER -> {}

\* The triggers it drops first, most of them with their table.
TriggersLost(v) ==
  CASE v = 3 -> {"outbox_events"} \X {"insert", "update", "delete"}
    [] v = 7 -> {"expected_occurrences", "capture_occurrences", "outbox_events",
                 "rtsp_capture_attempts", "recording_segment_provenance"}
                  \X {"insert", "update", "delete"}
                \cup {<<"recording_import_jobs", "update">>}
    [] v = 8 -> {"capture_occurrences", "capture_occurrence_assertions",
                 "recording_segment_provenance"} \X {"insert", "update", "delete"}
                \cup {<<"recording_import_jobs", "update">>, <<"outbox_events", "insert">>}
    [] v = 10 -> ReplicaTriggers
    [] OTHER -> {}

\* The triggers of schema version w: created, and not lost to a later rebuild.
InForce ==
  [w \in 0..Latest |->
     {g \in Tables \X {"insert", "update", "delete"} :
        \E v \in 1..w : g \in TriggersOf(v) /\ \A u \in v+1..w : g \notin TriggersLost(u)}]

\* Faulty variant of Guarded: v8 does not create again a trigger it drops.
GuardedUntil8(d, t, event) ==
  <<t, event>> \in InForce[d.version] /\ (d.version >= 8 => t # "recording_import_jobs")

Guarded(d, t, event) == <<t, event>> \in InForce[d.version]
-----------------------------------------------------------------------------
(* What one statement may do.                                              *)

\* UNIQUE (source_id, session_id, sequence_number).
SlotIsFree(d, t, k, slot) ==
  \A j \in Occurrences \ {k} : Has(d, t, j) => d.rows[t][j].slot # slot

\* Faulty variant of ManifestIsFree: UNIQUE (occurrence_id, manifest_uri).
ManifestOfOwn(d, k, row) == TRUE

\* UNIQUE (manifest_uri).
ManifestIsFree(d, k, row) ==
  \A o \in Occurrences \ {k} :
    Has(d, "capture_occurrence_assertions", o) => Asserted(d, o).uri # row.uri

\* REFERENCES artifacts, until v7 with the source.
ArtifactFits(d, row) ==
  /\ Has(d, "artifacts", row.artifact)
  /\ d.version < 7 => d.rows["artifacts"][row.artifact] = SourceOf[row.slot]

(* CHECK, UNIQUE and immediate FOREIGN KEY constraints, table by table.     *)

ExpectedIsLegal(d, k, row) ==
  /\ (row.state = "COMPLETE") <=> (row.artifact # None)
  /\ row.artifact # None => ArtifactFits(d, row)
  /\ SlotIsFree(d, "expected_occurrences", k, row.slot)

CaptureIsLegal(d, k, row) ==
  ArtifactFits(d, row) /\ SlotIsFree(d, "capture_occurrences", k, row.slot)

AssertionIsLegal(d, k, row) ==
  /\ Has(d, "artifacts", row.artifact)
  /\ ManifestIsFree(d, k, row)
  /\ d.version < 8 => NamesCapture(d, k, row)

EventIsLegal(d, k, row) ==
  IF d.version = 2
  THEN row = "SegmentFinalized" /\ Has(d, "capture_occurrences", k)
  ELSE Has(d, "expected_occurrences", k)

ImportJobIsLegal(d, k, row) ==
  /\ Has(d, "recording_imports", row.recording)
  /\ row.output # None => Has(d, "artifacts", row.output)
  /\ SlotIsFree(d, "recording_import_jobs", k, row.slot)

ProvenanceIsLegal(d, k, recording) ==
  /\ Has(d, "capture_occurrences", k)
  /\ Has(d, "recording_import_jobs", k)
  /\ Has(d, "recording_imports", recording)

ProcessingIsLegal(d, input, row) ==
  Has(d, "artifacts", input) /\ (row.output # None => Has(d, "artifacts", row.output))

LineageIsLegal(d, child, parent) ==
  Has(d, "artifacts", child) /\ Has(d, "artifacts", parent) /\ parent # child

Legal(d, t, k, row) ==
  CASE t = "expected_occurrences" -> ExpectedIsLegal(d, k, row)
    [] t = "capture_occurrences" -> CaptureIsLegal(d, k, row)
    [] t = "capture_occurrence_assertions" -> AssertionIsLegal(d, k, row)
    [] t = "outbox_events" -> EventIsLegal(d, k, row)
    [] t = "rtsp_capture_attempts" -> Has(d, "expected_occurrences", k)
    [] t = "recording_import_jobs" -> ImportJobIsLegal(d, k, row)
    [] t = "recording_segment_provenance" -> ProvenanceIsLegal(d, k, row)
    [] t = "processing_jobs" -> ProcessingIsLegal(d, k, row)
    [] t = "artifact_lineage" -> LineageIsLegal(d, k, row)
    [] t = "replica_targets" -> d.version = 9 => row = "mounted_nfs_v4"
    [] t = "replica_objects" -> Has(d, "replica_targets", k[1])
    [] OTHER -> TRUE

\* Writers begin a row that has a life at its beginning; the schema, which checks
\* the end of a life only in update triggers, relies on it.
Begins(t, row) ==
  /\ t \in {"expected_occurrences", "recording_imports"} => row.state = "PREPARED"
  /\ t \in {"recording_import_jobs", "processing_jobs"} => row.output = None
  /\ t = "replica_objects" => row = "PENDING"

(* The insert triggers, each for one table.                                 *)

\* Faulty variant of EventIsTrue: a capture alone is taken for COMPLETE.
EventOfCapture(d, o, event) ==
  Has(d, "capture_occurrences", o) <=> event = "SegmentFinalized"

\* outbox_events_terminal_correctness
EventIsTrue(d, o, event) ==
  IF event = "SegmentFinalized"
  THEN InState(d, o, "COMPLETE") /\ Has(d, "capture_occurrences", o)
  ELSE InState(d, o, "GAP") /\ ~Has(d, "capture_occurrences", o)

\* capture_occurrence_assertions_requires_complete
AssertionIsDue(d, o, row) ==
  InState(d, o, "COMPLETE") /\ (d.version = 7 => NamesCapture(d, o, row))

\* rtsp_capture_attempts_requires_prepared
AttemptIsDue(d, o, source) ==
  InState(d, o, "PREPARED") /\ SourceOf[Expected(d, o).slot] = source

\* recording_provenance_consistency
ProvenanceFits(d, o, recording) ==
  Has(d, "recording_import_jobs", o) /\ Job(d, o).recording = recording

InsertAllowed(d, t, k, row) ==
  Guarded(d, t, "insert") =>
    /\ t = "outbox_events" => EventIsTrue(d, k, row)
    /\ t = "capture_occurrence_assertions" => AssertionIsDue(d, k, row)
    /\ t = "rtsp_capture_attempts" => AttemptIsDue(d, k, row)
    /\ t = "recording_segment_provenance" => ProvenanceFits(d, k, row)
    /\ t = "artifact_lineage" => row \in RawMedia /\ k \notin RawMedia

\* Everything a COMPLETE import job vouches for.
ImportHolds(d, o, job) ==
  /\ d.rows["recording_imports"][job.recording] =
       [source |-> SourceOf[job.slot], state |-> "COMPLETE"]
  /\ InState(d, o, "COMPLETE") /\ Expected(d, o).slot = job.slot
  /\ Captured(d, o) = [slot |-> job.slot, artifact |-> job.output]
  /\ d.rows["recording_segment_provenance"][o] = job.recording

\* A row gets to the end of its life, and stays the same row.
Finishes(t, old, row) ==
  \/ /\ t = "expected_occurrences"
     /\ old.state = "PREPARED" /\ row.state # "PREPARED" /\ row.slot = old.slot
  \/ /\ t = "recording_imports"
     /\ old.state = "PREPARED" /\ row.state # "PREPARED" /\ row.source = old.source
  \/ /\ t = "recording_import_jobs"
     /\ old.output = None /\ row.output # None
     /\ row.slot = old.slot /\ row.recording = old.recording
  \/ t = "processing_jobs" /\ old.output = None /\ row.output # None
  \/ t = "replica_objects" /\ old = "PENDING" /\ row = "VERIFIED"

\* The update triggers: a row changes at the end of its life or not at all.
UpdateAllowed(d, t, k, row) ==
  Guarded(d, t, "update") =>
    /\ Finishes(t, d.rows[t][k], row)
    /\ t = "recording_import_jobs" => ImportHolds(d, k, row)
    /\ t = "processing_jobs" => d.rows["artifact_lineage"][row.output] = k

\* A row that others refer to, in the tables that were once without triggers.
Referenced(d, t, k) ==
  \/ /\ t = "artifacts"
     /\ \E o \in Occurrences :
          \/ Has(d, "capture_occurrences", o) /\ Captured(d, o).artifact = k
          \/ Has(d, "expected_occurrences", o) /\ Expected(d, o).artifact = k
  \/ t = "capture_occurrences" /\ d.version = 2 /\ Has(d, "outbox_events", k)

\* INSERT, UPDATE or DELETE (row = None) of one row is admitted.
Admits(d, t, k, row) ==
  /\ Exists(d, t)
  /\ \/ /\ ~Has(d, t, k) /\ row # None
        /\ Begins(t, row) /\ Legal(d, t, k, row) /\ InsertAllowed(d, t, k, row)
     \/ /\ Has(d, t, k) /\ row # None
        /\ ~(t = "artifacts" /\ Referenced(d, t, k))
        /\ Legal(d, t, k, row) /\ UpdateAllowed(d, t, k, row)
     \/ /\ Has(d, t, k) /\ row = None
        /\ ~Guarded(d, t, "delete") /\ ~Referenced(d, t, k)

Put(d, t, k, row) == [d EXCEPT !.rows[t][k] = row]

\* Faulty variant of Committable: the references go one way only.
CommittableOneWay(d) ==
  d.version >= 8 =>
    \A o \in Occurrences :
      Has(d, "capture_occurrence_assertions", o) => NamesCapture(d, o, Asserted(d, o))

\* What COMMIT checks: from v8 on, captures and assertions need each other.
Committable(d) ==
  d.version >= 8 =>
    \A o \in Occurrences :
      /\ Has(d, "capture_occurrences", o) => Has(d, "capture_occurrence_assertions", o)
      /\ Has(d, "capture_occurrence_assertions", o) => NamesCapture(d, o, Asserted(d, o))
-----------------------------------------------------------------------------
(* The migrations.                                                         *)

\* v3: every capture there is becomes a COMPLETE expected occurrence.
ExpectedBackfill(d) ==
  [o \in Occurrences |->
     IF Has(d, "capture_occurrences", o)
     THEN [slot |-> Captured(d, o).slot, state |-> "COMPLETE",
           artifact |-> Captured(d, o).artifact]
     ELSE None]

\* Faulty variant of AssertionBackfill: two columns are swapped.
AssertionBackfillSwapped(d) ==
  [o \in Occurrences |->
     IF Has(d, "capture_occurrences", o)
     THEN [source |-> Captured(d, o).artifact,
           artifact |-> SourceOf[Captured(d, o).slot],
           uri |-> Captured(d, o).artifact]
     ELSE None]

\* v7: every capture there is gets an assertion with its artifact's manifest.
AssertionBackfill(d) ==
  [o \in Occurrences |->
     IF Has(d, "capture_occurrences", o)
     THEN [source |-> SourceOf[Captured(d, o).slot],
           artifact |-> Captured(d, o).artifact,
           uri |-> Captured(d, o).artifact]
     ELSE None]

\* Faulty variant of Migrated: v7 copies only the rows in a final state.
MigratedDone(v, d) ==
  [version |-> v,
   rows |-> CASE v = 3 -> [d.rows EXCEPT !["expected_occurrences"] = ExpectedBackfill(d)]
              [] v = 7 -> [d.rows EXCEPT
                             !["capture_occurrence_assertions"] = AssertionBackfill(d),
                             !["expected_occurrences"] =
                                [o \in Occurrences |->
                                   IF InState(d, o, "PREPARED") THEN None ELSE @[o]]]
              [] OTHER -> d.rows]

\* The rows after migration v.  Every rebuilt table is copied as it is.
Migrated(v, d) ==
  [version |-> v,
   rows |-> CASE v = 3 -> [d.rows EXCEPT !["expected_occurrences"] = ExpectedBackfill(d)]
              [] v = 7 -> [d.rows EXCEPT !["capture_occurrence_assertions"] =
                                           AssertionBackfill(d)]
              [] OTHER -> d.rows]

\* Faulty variant of Migratable: without the guard of v8.
MigratableUnguarded(v, d) ==
  v = 7 => \A o, p \in Occurrences :
             o # p /\ Has(d, "capture_occurrences", o) /\ Has(d, "capture_occurrences", p)
               => Captured(d, o).artifact # Captured(d, p).artifact

\* No statement of migration v fails: at v7 the backfill meets UNIQUE
\* (manifest_uri), at v8 __migration_v8_authority_guard its CHECK.
Migratable(v, d) ==
  /\ v = 7 => \A o, p \in Occurrences :
                o # p /\ Has(d, "capture_occurrences", o) /\ Has(d, "capture_occurrences", p)
                  => Captured(d, o).artifact # Captured(d, p).artifact
  /\ v = 8 => \A o \in Occurrences :
                Has(d, "capture_occurrence_assertions", o) => InState(d, o, "COMPLETE")
=============================================================================
