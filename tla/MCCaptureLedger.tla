--------------------------- MODULE MCCaptureLedger ---------------------------
(* Values of the constants of CaptureLedger for TLC: what four kinds of    *)
(* writer write.  Source x has two slots, source y has one; clip and cam   *)
(* are raw media, report is metadata.                                      *)
EXTENDS CaptureLedger, TLC

CONSTANTS o1, o2, clip, cam, report, r1, r2, t1, s1, s2, s3, x, y

MCSlots == {s1, s2, s3}
MCSourceOf == [s \in MCSlots |-> IF s = s3 THEN y ELSE x]
MCReleases == {2, 3, 6, 7, 9, 10}

\* Statements that write one of the rows under one of the keys.
Of(t, keys, rows) == {t} \X keys \X rows

\* The rows of a table whose fields f and g, where it has them, are as given.
Slotted(t, slots) == {r \in Rows(t) : r.slot \in slots}
Made(rows, artifacts) == {r \in rows : r.artifact \in artifacts \cup {None}}

Capture(o, slots, artifacts) ==
  Of("expected_occurrences", {o}, Made(Slotted("expected_occurrences", slots), artifacts))
  \cup Of("capture_occurrences", {o}, Made(Slotted("capture_occurrences", slots), artifacts))
  \cup Of("capture_occurrence_assertions", {o},
          {a \in Made(Rows("capture_occurrence_assertions"), artifacts) :
             a.source = x /\ a.uri \in {o, a.artifact}})
  \cup Of("outbox_events", {o}, Rows("outbox_events"))

\* Two occurrences compete for slots, artifacts and manifests.
Capturing ==
  Of("artifacts", {clip, cam}, {x, None})
  \cup Capture(o1, {s1, s2}, {clip, cam})
  \cup Capture(o2, {s1, s2}, {clip, cam})
  \cup Of("capture_occurrences", {o1, o2}, {None})
  \cup Of("outbox_events", {o1, o2}, {None})

\* An occurrence is imported from one of two recordings, or captured live.
Importing ==
  Of("artifacts", {clip}, {x, y})
  \cup Capture(o1, {s1, s3}, {clip})
  \cup Of("rtsp_capture_attempts", {o1}, {x, y})
  \cup Of("recording_imports", {r1, r2}, Rows("recording_imports"))
  \cup Of("recording_import_jobs", {o1},
          {j \in Slotted("recording_import_jobs", {s1, s3}) : j.output \in {clip, None}})
  \cup Of("recording_segment_provenance", {o1}, {r1, r2})

\* Reports are derived from artifacts.
Deriving ==
  Of("artifacts", {clip, cam, report}, {x, None})
  \cup Of("artifact_lineage", {clip, cam, report}, {clip, cam, report})
  \cup Of("processing_jobs", {clip, cam, report}, Rows("processing_jobs"))

\* Artifacts are replicated to a target.
Replicating ==
  Of("artifacts", {clip}, {x, None})
  \cup Of("replica_targets", {t1}, Rows("replica_targets"))
  \cup Of("replica_objects", {<<t1, clip>>}, Rows("replica_objects"))

MCWorkloads == {Capturing, Importing, Deriving, Replicating}
\* Recordings are only compared.
MCSymmetry == Permutations({r1, r2})
=============================================================================
