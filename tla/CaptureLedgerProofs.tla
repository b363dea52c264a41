------------------------- MODULE CaptureLedgerProofs -------------------------
(***************************************************************************)
(* Proofs about CaptureLedger for any occurrences, artifacts, releases and *)
(* workloads.  The triggers in force at each version come first: from them *)
(* a statement Keeps what is settled (PutKeeps), and a migration keeps     *)
(* every row (MigratedKeepsRows).  What was checked when a row was written *)
(* therefore stays true of it, which is the inductive invariant IInv.      *)
(***************************************************************************)
EXTENDS CaptureLedger, TLAPS

Events == {"insert", "update", "delete"}

(* The inductive invariant.                                                *)

\* A table that no migration has created yet is empty.
NothingBefore(d) ==
  \A t \in Tables : ~Exists(d, t) => \A k \in Keys(t) : d.rows[t][k] = None

EventsHold(d) ==
  \A o \in Occurrences :
    /\ Event(d, o) = "SegmentFinalized" =>
         /\ Has(d, "capture_occurrences", o)
         /\ d.version >= 3 => InState(d, o, "COMPLETE")
    /\ Event(d, o) = "GapRecorded" => InState(d, o, "GAP")

AssertedAreComplete(d) ==
  d.version >= 8 =>
    \A o \in Occurrences :
      Has(d, "capture_occurrence_assertions", o) => InState(d, o, "COMPLETE")

JobsHold(d) ==
  /\ \A o \in Occurrences :
       Has(d, "recording_import_jobs", o) /\ Job(d, o).output # None
         => ImportHolds(d, o, Job(d, o))
  /\ \A a \in Artifacts :
       Has(d, "processing_jobs", a) /\ d.rows["processing_jobs"][a].output # None
         => d.rows["artifact_lineage"][d.rows["processing_jobs"][a].output] = a

ManifestsDiffer(d) ==
  \A o, p \in Occurrences :
    /\ Has(d, "capture_occurrence_assertions", o)
    /\ Has(d, "capture_occurrence_assertions", p)
    /\ Asserted(d, o).uri = Asserted(d, p).uri
    => o = p

Sound(d) ==
  /\ NothingBefore(d) /\ EventsHold(d) /\ AssertedAreComplete(d)
  /\ JobsHold(d) /\ ManifestsDiffer(d)

RowsKept(d, e) ==
  /\ d.version <= e.version
  /\ \A t \in Tables : \A k \in Keys(t) :
       d.rows[t][k] # None => e.rows[t][k] = d.rows[t][k]

\* What an open transaction can have done so far.
Transaction ==
  /\ lock = "free" => work = db
  /\ lock = "writer" => work.version = db.version /\ Keeps(db, work)
  /\ lock = "migrator" => RowsKept(db, work)

IInv ==
  /\ LedgerTypeOK /\ Transaction
  /\ Sound(db) /\ Sound(work) /\ Committable(db)
-----------------------------------------------------------------------------

(* Which triggers are in force.                                            *)

\* A trigger made by migration v and not lost after it is in force.
LEMMA StaysInForce ==
  ASSUME NEW w \in 0..Latest, NEW t \in Tables, NEW e \in Events, NEW v \in 1..w,
         <<t, e>> \in TriggersOf(v),
         \A u \in v+1..w : <<t, e>> \notin TriggersLost(u)
  PROVE  <<t, e>> \in InForce[w]
  BY DEF InForce, Events

\* From schema 3 on, the occurrence tables and the outbox are guarded.
LEMMA GuardsOf3 ==
  ASSUME NEW w \in 3..Latest,
         NEW t \in {"expected_occurrences", "capture_occurrences", "outbox_events"},
         NEW e \in {"update", "delete"}
  PROVE  <<t, e>> \in InForce[w]
<1>0. t \in Tables /\ e \in Events /\ w \in 0..Latest
  BY DEF Tables, Events, Latest
<1>1. <<t, e>> \in TriggersOf(3) /\ <<t, e>> \in TriggersOf(7)
  BY DEF TriggersOf, TriggersOf3, TriggersOf7, Immutable
<1>2. \A u \in {4, 5, 6, 9, 10} : <<t, e>> \notin TriggersLost(u)
  BY DEF TriggersLost, ReplicaTriggers, Immutable
<1>3. CASE w < 7
  BY <1>0, <1>1, <1>2, <1>3, StaysInForce DEF Latest
<1>4. CASE w = 7
  BY <1>0, <1>1, <1>2, <1>4, StaysInForce DEF Latest
<1>5. CASE w >= 8 /\ t = "capture_occurrences"
  <2>1. <<t, e>> \in TriggersOf(8)
    BY <1>5 DEF TriggersOf, TriggersOf8, Immutable
  <2> QED
    BY <1>0, <1>2, <1>5, <2>1, StaysInForce DEF Latest
<1>6. CASE w >= 8 /\ t # "capture_occurrences"
  <2>1. <<t, e>> \notin TriggersLost(8)
    BY <1>6 DEF TriggersLost
  <2> QED
    BY <1>0, <1>1, <1>2, <1>6, <2>1, StaysInForce DEF Latest
<1> QED
  BY <1>3, <1>4, <1>5, <1>6 DEF Latest

\* Most other tables are guarded by the migration that creates them, and by
\* no later one unless it makes the triggers again.
LEMMA GuardsOf4 ==
  ASSUME NEW w \in 4..Latest, NEW t \in {"artifacts", "processing_jobs", "artifact_lineage"},
         NEW e \in {"update", "delete"}
  PROVE  <<t, e>> \in InForce[w]
<1>1. t \in Tables /\ e \in Events /\ w \in 0..Latest /\ 4 \in 1..w
  BY DEF Tables, Events, Latest
<1>2. <<t, e>> \in TriggersOf(4)
  BY DEF TriggersOf, TriggersOf4, Immutable
<1>3. \A u \in 5..10 : <<t, e>> \notin TriggersLost(u)
  BY DEF TriggersLost, ReplicaTriggers, Immutable
<1> QED
  BY <1>1, <1>2, <1>3, StaysInForce DEF Latest

LEMMA GuardsOf5 ==
  ASSUME NEW w \in 5..Latest,
         NEW t \in {"recording_imports", "recording_import_jobs", "recording_segment_provenance"},
         NEW e \in {"update", "delete"}
  PROVE  <<t, e>> \in InForce[w]
<1>1. t \in Tables /\ e \in Events /\ w \in 0..Latest
  BY DEF Tables, Events, Latest
<1>2. <<t, e>> \in TriggersOf(5)
  BY DEF TriggersOf, TriggersOf5, Immutable
<1>3. \A u \in {6, 9, 10} : <<t, e>> \notin TriggersLost(u)
  BY DEF TriggersLost, ReplicaTriggers, Immutable
<1>4. CASE \A u \in {7, 8} : <<t, e>> \notin TriggersLost(u)
  BY <1>1, <1>2, <1>3, <1>4, StaysInForce DEF Latest
<1>5. CASE <<t, e>> \in TriggersOf(7) /\ <<t, e>> \in TriggersOf(8)
  <2>1. CASE w < 7
    BY <1>1, <1>2, <1>3, <2>1, StaysInForce DEF Latest
  <2>2. CASE w = 7
    BY <1>1, <1>5, <2>2, StaysInForce DEF Latest
  <2>3. CASE w >= 8
    BY <1>1, <1>3, <1>5, <2>3, StaysInForce DEF Latest
  <2> QED
    BY <2>1, <2>2, <2>3 DEF Latest
<1>6. CASE t = "recording_segment_provenance" \/ (t = "recording_import_jobs" /\ e = "update")
  BY <1>5, <1>6 DEF TriggersOf, TriggersOf7, TriggersOf8, Immutable
<1>7. CASE t = "recording_imports" \/ (t = "recording_import_jobs" /\ e = "delete")
  BY <1>4, <1>7 DEF TriggersLost
<1> QED
  BY <1>6, <1>7

LEMMA GuardsOf6 ==
  ASSUME NEW w \in 6..Latest, NEW e \in {"update", "delete"}
  PROVE  <<"rtsp_capture_attempts", e>> \in InForce[w]
<1> DEFINE g == <<"rtsp_capture_attempts", e>>
<1>1. "rtsp_capture_attempts" \in Tables /\ e \in Events /\ w \in 0..Latest
  BY DEF Tables, Events, Latest
<1>2. g \in TriggersOf(6) /\ g \in TriggersOf(7)
  BY DEF TriggersOf, TriggersOf6, TriggersOf7, Immutable
<1>3. \A u \in 8..10 : g \notin TriggersLost(u)
  BY DEF TriggersLost, ReplicaTriggers, Immutable
<1>4. CASE w = 6
  BY <1>1, <1>2, <1>4, StaysInForce DEF Latest
<1>5. CASE w > 6
  BY <1>1, <1>2, <1>3, <1>5, StaysInForce DEF Latest
<1> QED
  BY <1>4, <1>5 DEF Latest

LEMMA GuardsOf7 ==
  ASSUME NEW w \in 7..Latest, NEW e \in Events
  PROVE  <<"capture_occurrence_assertions", e>> \in InForce[w]
<1> DEFINE g == <<"capture_occurrence_assertions", e>>
<1>1. "capture_occurrence_assertions" \in Tables /\ w \in 0..Latest
  BY DEF Tables, Latest
<1>2. g \in TriggersOf(7) /\ g \in TriggersOf(8)
  BY DEF TriggersOf, TriggersOf7, TriggersOf8, Immutable, Events
<1>3. \A u \in {9, 10} : g \notin TriggersLost(u)
  BY DEF TriggersLost, ReplicaTriggers, Immutable
<1>4. CASE w = 7
  BY <1>1, <1>2, <1>4, StaysInForce DEF Latest
<1>5. CASE w > 7
  BY <1>1, <1>2, <1>3, <1>5, StaysInForce DEF Latest
<1> QED
  BY <1>4, <1>5 DEF Latest

LEMMA GuardsOf9 ==
  ASSUME NEW w \in 9..Latest, NEW t \in {"replica_targets", "replica_objects"},
         NEW e \in {"update", "delete"}
  PROVE  <<t, e>> \in InForce[w]
<1>1. t \in Tables /\ e \in Events /\ w \in 0..Latest
  BY DEF Tables, Events, Latest
<1>2. <<t, e>> \in TriggersOf(9) /\ <<t, e>> \in TriggersOf(10)
  BY DEF TriggersOf, ReplicaTriggers, Immutable
<1>3. CASE w = 9
  BY <1>1, <1>2, <1>3, StaysInForce DEF Latest
<1>4. CASE w = 10
  BY <1>1, <1>2, <1>4, StaysInForce DEF Latest
<1> QED
  BY <1>3, <1>4 DEF Latest

\* Events are checked from schema 3 on.
LEMMA GuardOfEvents ==
  ASSUME NEW w \in 3..Latest
  PROVE  <<"outbox_events", "insert">> \in InForce[w]
<1> DEFINE g == <<"outbox_events", "insert">>
<1>1. "outbox_events" \in Tables /\ "insert" \in Events /\ w \in 0..Latest
  BY DEF Tables, Events, Latest
<1>2. g \in TriggersOf(3) /\ g \in TriggersOf(7) /\ g \in TriggersOf(8)
  BY DEF TriggersOf, TriggersOf3, TriggersOf7, TriggersOf8, Immutable
<1>3. \A u \in {4, 5, 6, 9, 10} : g \notin TriggersLost(u)
  BY DEF TriggersLost, ReplicaTriggers, Immutable
<1>4. CASE w < 7
  BY <1>1, <1>2, <1>3, <1>4, StaysInForce DEF Latest
<1>5. CASE w = 7
  BY <1>1, <1>2, <1>5, StaysInForce DEF Latest
<1>6. CASE w > 7
  BY <1>1, <1>2, <1>3, <1>6, StaysInForce DEF Latest
<1> QED
  BY <1>4, <1>5, <1>6 DEF Latest

\* A table that exists and is settled is guarded against updates and deletes,
\* whatever was rebuilt since.
LEMMA SettledIsGuarded ==
  ASSUME NEW d, IsDatabase(d), NEW t \in Tables, Exists(d, t),
         d.version >= SettledSince(t), NEW e \in {"update", "delete"}
  PROVE  Guarded(d, t, e)
<1>1. d.version \in 0..Latest /\ e \in Events
  BY DEF IsDatabase, Events
<1>2. CASE t \in {"expected_occurrences", "capture_occurrences", "outbox_events"}
  BY <1>1, <1>2, GuardsOf3 DEF Guarded, SettledSince
<1>3. CASE t \in {"artifacts", "processing_jobs", "artifact_lineage"}
  BY <1>1, <1>3, GuardsOf4 DEF Guarded, SettledSince, Exists, CreatedBy
<1>4. CASE t \in {"recording_imports", "recording_import_jobs", "recording_segment_provenance"}
  BY <1>1, <1>4, GuardsOf5 DEF Guarded, Exists, CreatedBy
<1>5. CASE t = "rtsp_capture_attempts"
  BY <1>1, <1>5, GuardsOf6 DEF Guarded, Exists, CreatedBy
<1>6. CASE t = "capture_occurrence_assertions"
  BY <1>1, <1>6, GuardsOf7 DEF Guarded, Exists, CreatedBy
<1>7. CASE t \in {"replica_targets", "replica_objects"}
  BY <1>1, <1>7, GuardsOf9 DEF Guarded, Exists, CreatedBy
<1> QED
  BY <1>2, <1>3, <1>4, <1>5, <1>6, <1>7 DEF Tables
-----------------------------------------------------------------------------
(* What one statement does.                                                *)

\* Put changes one row.
LEMMA PutRows ==
  ASSUME NEW d, IsDatabase(d), NEW t \in Tables, NEW k \in Keys(t), NEW row,
         NEW u \in Tables, NEW j \in Keys(u)
  PROVE  Put(d, t, k, row).rows[u][j] = IF u = t /\ j = k THEN row ELSE d.rows[u][j]
<1> DEFINE R == d.rows
           S == [R EXCEPT ![t] = [R[t] EXCEPT ![k] = row]]
<1>1. d = [version |-> d.version, rows |-> d.rows]
      /\ R = [v \in Tables |-> [i \in Keys(v) |-> R[v][i]]]
  BY DEF IsDatabase
<1>2. Put(d, t, k, row).rows = S
  BY <1>1 DEF Put
<1>3. R[t] = [i \in Keys(t) |-> R[t][i]]
  BY <1>1
<1>4. CASE u = t
  <2>1. S[t] = [R[t] EXCEPT ![k] = row]
    BY <1>1
  <2> QED
    BY <1>2, <1>3, <1>4, <2>1
<1>5. CASE u # t
  <2>1. S[u] = R[u]
    BY <1>1, <1>5
  <2> QED
    BY <1>2, <1>5, <2>1
<1> QED
  BY <1>4, <1>5

\* A row of the right type makes a database again, of the same version.
LEMMA PutIsDatabase ==
  ASSUME NEW d, IsDatabase(d), NEW t \in Tables, NEW k \in Keys(t),
         NEW row \in Rows(t) \cup {None}
  PROVE  IsDatabase(Put(d, t, k, row)) /\ Put(d, t, k, row).version = d.version
<1> DEFINE R == d.rows
           S == [R EXCEPT ![t] = [R[t] EXCEPT ![k] = row]]
           e == Put(d, t, k, row)
<1>1. /\ d = [version |-> d.version, rows |-> d.rows]
      /\ R = [v \in Tables |-> [i \in Keys(v) |-> R[v][i]]]
      /\ d.version \in 0..Latest
      /\ \A v \in Tables : \A i \in Keys(v) : R[v][i] \in Rows(v) \cup {None}
  BY DEF IsDatabase
<1>2. e = [version |-> d.version, rows |-> S]
  BY <1>1 DEF Put
<1>3. S = [v \in Tables |-> [i \in Keys(v) |-> S[v][i]]]
  <2>1. S = [v \in Tables |-> S[v]]
    BY <1>1
  <2>2. ASSUME NEW v \in Tables  PROVE S[v] = [i \in Keys(v) |-> S[v][i]]
    <3>1. R[v] = [i \in Keys(v) |-> R[v][i]]
      BY <1>1
    <3>2. CASE v = t
      <4>1. S[v] = [R[v] EXCEPT ![k] = row]
        BY <1>1, <3>2
      <4> QED
        BY <3>1, <3>2, <4>1
    <3>3. CASE v # t
      BY <1>1, <3>1, <3>3
    <3> QED
      BY <3>2, <3>3
  <2> QED
    BY <2>1, <2>2
<1>4. \A v \in Tables : \A i \in Keys(v) : e.rows[v][i] \in Rows(v) \cup {None}
  BY <1>1, PutRows
<1> HIDE DEF S
<1>5. e = [version |-> e.version, rows |-> e.rows] /\ e.version = d.version /\ e.rows = S
  BY <1>2
<1> QED
  BY <1>1, <1>3, <1>4, <1>5 DEF IsDatabase

LEMMA VersionTyped ==
  ASSUME NEW d, IsDatabase(d)
  PROVE  d.version \in 0..Latest /\ d.version \in 0..10
  BY DEF IsDatabase, Latest

\* A database is what its rows are, each of its type or None.
LEMMA RowTyped ==
  ASSUME NEW d, IsDatabase(d), NEW t \in Tables, NEW k \in Keys(t)
  PROVE  d.rows[t][k] \in Rows(t) \cup {None}
  BY DEF IsDatabase

\* A statement takes no settled row back.
LEMMA PutKeeps ==
  ASSUME NEW d, IsDatabase(d), NEW t \in Tables, NEW k \in Keys(t),
         NEW row \in Rows(t) \cup {None}, Admits(d, t, k, row)
  PROVE  Keeps(d, Put(d, t, k, row))
<1> DEFINE e == Put(d, t, k, row)
<1>1. e.version = d.version /\ d.version \in 0..Latest
  <2>1. e.version = d.version
    BY PutIsDatabase
  <2> QED
    BY <2>1, VersionTyped
<1>2. SUFFICES ASSUME NEW u \in Tables, NEW j \in Keys(u),
                      d.rows[u][j] # None, d.version >= SettledSince(u)
               PROVE  \/ e.rows[u][j] = d.rows[u][j]
                      \/ e.rows[u][j] # None /\ Finishes(u, d.rows[u][j], e.rows[u][j])
  BY <1>1 DEF Keeps, Latest
<1>3. e.rows[u][j] = IF u = t /\ j = k THEN row ELSE d.rows[u][j]
  BY PutRows
<1>4. CASE u = t /\ j = k
  <2>1. Exists(d, t) /\ d.rows[t][k] # None
    BY <1>2, <1>4 DEF Admits
  <2>2. Guarded(d, t, "update") /\ Guarded(d, t, "delete")
    BY <1>2, <1>4, <2>1, SettledIsGuarded
  <2>3. row # None /\ UpdateAllowed(d, t, k, row)
    BY <2>1, <2>2 DEF Admits, Has
  <2> QED
    BY <1>3, <1>4, <2>2, <2>3 DEF UpdateAllowed
<1>5. CASE ~(u = t /\ j = k)
  BY <1>3, <1>5
<1> QED
  BY <1>4, <1>5

\* A row that has ended its life is kept as it is.
LEMMA EndedStays ==
  ASSUME NEW d, NEW e, Keeps(d, e), NEW t \in Tables, NEW k \in Keys(t),
         d.rows[t][k] # None, d.version >= SettledSince(t),
         \A row : ~Finishes(t, d.rows[t][k], row)
  PROVE  e.rows[t][k] = d.rows[t][k]
  BY DEF Keeps

\* Keeping is transitive as long as no migration comes between.
LEMMA KeepsOn ==
  ASSUME NEW c, NEW d, NEW e, Keeps(c, d), Keeps(d, e), c.version = d.version,
         d.version = e.version
  PROVE  Keeps(c, e)
<1>1. SUFFICES ASSUME NEW t \in Tables, NEW k \in Keys(t),
                      c.rows[t][k] # None, c.version >= SettledSince(t)
               PROVE  \/ e.rows[t][k] = c.rows[t][k]
                      \/ e.rows[t][k] # None /\ Finishes(t, c.rows[t][k], e.rows[t][k])
  BY DEF Keeps
<1>2. \/ d.rows[t][k] = c.rows[t][k]
      \/ d.rows[t][k] # None /\ Finishes(t, c.rows[t][k], d.rows[t][k])
  BY <1>1 DEF Keeps
<1>3. \/ e.rows[t][k] = d.rows[t][k]
      \/ e.rows[t][k] # None /\ Finishes(t, d.rows[t][k], e.rows[t][k])
  BY <1>1, <1>2 DEF Keeps
<1>4. ~(Finishes(t, c.rows[t][k], d.rows[t][k]) /\ Finishes(t, d.rows[t][k], e.rows[t][k]))
  BY DEF Finishes
<1> QED
  BY <1>2, <1>3, <1>4

\* In particular an occurrence that is COMPLETE or GAP, a capture, and an event.
LEMMA OccurrencesStay ==
  ASSUME NEW d, NEW e, Keeps(d, e), d.version >= 3, NEW o \in Occurrences
  PROVE  /\ ~InState(d, o, "PREPARED") /\ Has(d, "expected_occurrences", o)
              => Expected(e, o) = Expected(d, o)
         /\ Has(d, "capture_occurrences", o) => Captured(e, o) = Captured(d, o)
         /\ Has(d, "outbox_events", o) => Event(e, o) = Event(d, o)
<1>1. \A t \in {"expected_occurrences", "capture_occurrences", "outbox_events"} :
        t \in Tables /\ o \in Keys(t) /\ SettledSince(t) = 3
  BY DEF Tables, Keys, SettledSince
<1>2. \A row, old : /\ ~Finishes("capture_occurrences", old, row)
                    /\ ~Finishes("outbox_events", old, row)
                    /\ old.state # "PREPARED" => ~Finishes("expected_occurrences", old, row)
  BY DEF Finishes
<1> QED
  BY <1>1, <1>2, EndedStays DEF Has, Expected, Captured, Event, InState

(* What a statement leaves sound.                                          *)

LEMMA PutNothingBefore ==
  ASSUME NEW d, IsDatabase(d), NEW t \in Tables, NEW k \in Keys(t),
         NEW row \in Rows(t) \cup {None}, Admits(d, t, k, row), NothingBefore(d)
  PROVE  NothingBefore(Put(d, t, k, row))
<1> DEFINE e == Put(d, t, k, row)
<1>1. e.version = d.version
  BY PutIsDatabase
<1>2. Exists(d, t)
  BY DEF Admits
<1>3. ASSUME NEW u \in Tables, ~Exists(e, u), NEW j \in Keys(u)
      PROVE  e.rows[u][j] = None
  <2>1. ~Exists(d, u) /\ u # t
    BY <1>1, <1>2, <1>3 DEF Exists
  <2>2. e.rows[u][j] = d.rows[u][j]
    BY <2>1, PutRows
  <2> QED
    BY <2>1, <2>2 DEF NothingBefore
<1> QED
  BY <1>3 DEF NothingBefore

LEMMA PutEventsHold ==
  ASSUME NEW d, IsDatabase(d), NEW t \in Tables, NEW k \in Keys(t),
         NEW row \in Rows(t) \cup {None}, Admits(d, t, k, row),
         NothingBefore(d), EventsHold(d)
  PROVE  EventsHold(Put(d, t, k, row))
<1> DEFINE e == Put(d, t, k, row)
<1>1. e.version = d.version /\ d.version \in 0..10 /\ Keeps(d, e)
  <2>1. e.version = d.version
    BY PutIsDatabase
  <2>2. Keeps(d, e)
    BY PutKeeps
  <2> QED
    BY <2>1, <2>2, VersionTyped
<1> SUFFICES ASSUME NEW o \in Occurrences
             PROVE  /\ Event(e, o) = "SegmentFinalized" =>
                         /\ Has(e, "capture_occurrences", o)
                         /\ e.version >= 3 => InState(e, o, "COMPLETE")
                    /\ Event(e, o) = "GapRecorded" => InState(e, o, "GAP")
  BY DEF EventsHold
<1>2. /\ \A u \in {"expected_occurrences", "capture_occurrences", "outbox_events"} :
           u \in Tables /\ o \in Keys(u)
      /\ CreatedBy("expected_occurrences") = 3 /\ CreatedBy("capture_occurrences") = 2
      /\ CreatedBy("outbox_events") = 2
  BY DEF Tables, Keys, CreatedBy
\* An event that is written is true in d ...
<1>3. ASSUME t = "outbox_events", k = o
      PROVE  /\ row = "SegmentFinalized" =>
                  /\ Has(d, "capture_occurrences", o)
                  /\ d.version >= 3 => InState(d, o, "COMPLETE")
             /\ row = "GapRecorded" => d.version >= 3 /\ InState(d, o, "GAP")
  <2>1. d.version >= 2
    BY <1>2, <1>3 DEF Admits, Exists
  <2>0. "SegmentFinalized" # None /\ "GapRecorded" # None
    BY SchemaAssumption DEF Rows, EventRows, Tables
  <2>2. CASE d.version = 2
    <3>1. row # None => Legal(d, t, k, row)
      BY DEF Admits
    <3> QED
      BY <1>3, <2>0, <2>2, <3>1 DEF Legal, EventIsLegal
  <2>3. CASE d.version >= 3
    <3>1. Guarded(d, t, "insert") /\ Guarded(d, t, "update")
      BY <1>1, <1>3, <2>3, GuardOfEvents, GuardsOf3 DEF Guarded, Latest
    <3>2. ~UpdateAllowed(d, t, k, row)
      BY <1>3, <3>1 DEF UpdateAllowed, Finishes
    <3>3. row # None => EventIsTrue(d, o, row)
      BY <1>3, <3>1, <3>2 DEF Admits, InsertAllowed
    <3> QED
      BY <1>3, <2>0, <2>3, <3>3 DEF EventIsTrue
  <2> QED
    BY <1>1, <2>1, <2>2, <2>3
\* ... as are all others.
<1>4. /\ Event(e, o) = "SegmentFinalized" =>
           /\ Has(d, "capture_occurrences", o)
           /\ d.version >= 3 => InState(d, o, "COMPLETE")
      /\ Event(e, o) = "GapRecorded" => d.version >= 3 /\ InState(d, o, "GAP")
  <2>1. Event(e, o) = IF t = "outbox_events" /\ k = o THEN row ELSE Event(d, o)
    BY <1>2, PutRows DEF Event
  <2>2. Event(d, o) = "GapRecorded" => d.version >= 3 /\ InState(d, o, "GAP")
    BY <1>1, <1>2 DEF EventsHold, InState, Has, NothingBefore, Exists
  <2> QED
    BY <1>3, <2>1, <2>2 DEF EventsHold
\* What makes them true is kept.
<1>5. CASE d.version >= 3
  BY <1>1, <1>4, <1>5, OccurrencesStay DEF InState, Has, Captured, Expected
<1>6. CASE d.version < 3
  <2>1. SUFFICES ASSUME Event(e, o) = "SegmentFinalized"
                 PROVE  Has(e, "capture_occurrences", o)
    BY <1>1, <1>4, <1>6
  <2>2. Has(d, "capture_occurrences", o)
    BY <1>4, <2>1
  <2>3. CASE t = "capture_occurrences" /\ k = o
    <3>1. d.version = 2 /\ Event(e, o) = Event(d, o)
      BY <1>1, <1>2, <1>6, <2>3, PutRows DEF Admits, Exists, Event
    <3>2. "SegmentFinalized" # None
      BY SchemaAssumption DEF Rows, EventRows, Tables
    <3>3. Referenced(d, t, k)
      BY <2>1, <2>3, <3>1, <3>2 DEF Referenced, Has, Event
    <3>4. row # None
      BY <3>3 DEF Admits
    <3> QED
      BY <1>2, <2>3, <3>4, PutRows DEF Has
  <2>4. CASE ~(t = "capture_occurrences" /\ k = o)
    BY <1>2, <2>2, <2>4, PutRows DEF Has
  <2> QED
    BY <2>3, <2>4
<1> QED
  BY <1>1, <1>5, <1>6

LEMMA PutAssertedAreComplete ==
  ASSUME NEW d, IsDatabase(d), NEW t \in Tables, NEW k \in Keys(t),
         NEW row \in Rows(t) \cup {None}, Admits(d, t, k, row), AssertedAreComplete(d)
  PROVE  AssertedAreComplete(Put(d, t, k, row))
<1> DEFINE e == Put(d, t, k, row)
<1>1. e.version = d.version /\ d.version \in 0..10 /\ Keeps(d, e)
  <2>1. e.version = d.version
    BY PutIsDatabase
  <2>2. Keeps(d, e)
    BY PutKeeps
  <2> QED
    BY <2>1, <2>2, VersionTyped
<1>2. SUFFICES ASSUME d.version >= 8, NEW o \in Occurrences,
                      Has(e, "capture_occurrence_assertions", o)
               PROVE  InState(e, o, "COMPLETE")
  BY <1>1 DEF AssertedAreComplete
<1>3. "capture_occurrence_assertions" \in Tables /\ o \in Keys("capture_occurrence_assertions")
  BY DEF Tables, Keys
<1>4. InState(d, o, "COMPLETE")
  <2>1. CASE Has(d, "capture_occurrence_assertions", o)
    BY <1>2, <2>1 DEF AssertedAreComplete
  <2>2. CASE ~Has(d, "capture_occurrence_assertions", o)
    <3>1. t = "capture_occurrence_assertions" /\ k = o /\ row # None
      BY <1>2, <1>3, <2>2, PutRows DEF Has
    <3>2. Guarded(d, t, "insert")
      BY <1>1, <1>2, <3>1, GuardsOf7 DEF Guarded, Events, Latest
    <3>3. InsertAllowed(d, t, k, row)
      BY <2>2, <3>1 DEF Admits
    <3> QED
      BY <3>1, <3>2, <3>3 DEF InsertAllowed, AssertionIsDue
  <2> QED
    BY <2>1, <2>2
<1> QED
  BY <1>1, <1>2, <1>4, OccurrencesStay DEF InState, Has, Expected

\* Everything a COMPLETE job vouches for is at the end of its life.
LEMMA ImportStays ==
  ASSUME NEW d, NEW e, Keeps(d, e), d.version \in 3..10, NEW o \in Occurrences,
         NEW job \in Rows("recording_import_jobs"), job.output # None, ImportHolds(d, o, job)
  PROVE  ImportHolds(e, o, job)
<1>1. job.slot \in Slots /\ job.recording \in Recordings /\ job.output \in Artifacts
  BY DEF Rows, ImportJobRows
<1>2. d.rows["recording_imports"][job.recording] = e.rows["recording_imports"][job.recording]
  <2> DEFINE row == d.rows["recording_imports"][job.recording]
  <2>1. row = [source |-> SourceOf[job.slot], state |-> "COMPLETE"]
    BY DEF ImportHolds
  <2>2. row \in Rows("recording_imports")
    BY <1>1, <2>1 DEF Rows, ImportRows, Sources, Lives
  <2>3. row # None
    BY <2>2, SchemaAssumption DEF Tables
  <2>4. \A new : ~Finishes("recording_imports", row, new)
    BY <2>1 DEF Finishes
  <2>5. /\ "recording_imports" \in Tables /\ job.recording \in Keys("recording_imports")
        /\ SettledSince("recording_imports") = 0
    BY <1>1 DEF Tables, Keys, SettledSince
  <2> QED
    BY <2>3, <2>4, <2>5, EndedStays
<1>3. Expected(e, o) = Expected(d, o)
  BY OccurrencesStay DEF ImportHolds, InState
<1>4. Captured(e, o) = Captured(d, o)
  <2>1. Captured(d, o) \in Rows("capture_occurrences")
    BY <1>1 DEF ImportHolds, Rows, CaptureRows
  <2>2. Captured(d, o) # None
    BY <2>1, SchemaAssumption DEF Tables
  <2> QED
    BY <2>2, OccurrencesStay DEF Has, Captured
<1>5. e.rows["recording_segment_provenance"][o] = d.rows["recording_segment_provenance"][o]
  <2> DEFINE row == d.rows["recording_segment_provenance"][o]
  <2>1. row \in Rows("recording_segment_provenance")
    BY <1>1 DEF ImportHolds, Rows
  <2>2. row # None
    BY <2>1, SchemaAssumption DEF Tables
  <2>3. \A new : ~Finishes("recording_segment_provenance", row, new)
    BY DEF Finishes
  <2>4. /\ "recording_segment_provenance" \in Tables
        /\ o \in Keys("recording_segment_provenance")
        /\ SettledSince("recording_segment_provenance") = 0
    BY DEF Tables, Keys, SettledSince
  <2> QED
    BY <2>2, <2>3, <2>4, EndedStays
<1> QED
  BY <1>2, <1>3, <1>4, <1>5 DEF ImportHolds, InState, Has, Expected

\* So is the lineage of a derived artifact.
LEMMA LineageStays ==
  ASSUME NEW d, NEW e, Keeps(d, e), d.version \in Nat, NEW a \in Artifacts, NEW b \in Artifacts,
         d.rows["artifact_lineage"][b] = a
  PROVE  e.rows["artifact_lineage"][b] = a
<1>1. d.rows["artifact_lineage"][b] # None
  BY SchemaAssumption
<1>2. \A old, new : ~Finishes("artifact_lineage", old, new)
  BY DEF Finishes
<1>3. /\ "artifact_lineage" \in Tables /\ b \in Keys("artifact_lineage")
      /\ SettledSince("artifact_lineage") = 0
  BY DEF Tables, Keys, SettledSince
<1> QED
  BY <1>1, <1>2, <1>3, EndedStays

LEMMA PutJobsHold ==
  ASSUME NEW d, IsDatabase(d), NEW t \in Tables, NEW k \in Keys(t),
         NEW row \in Rows(t) \cup {None}, Admits(d, t, k, row), NothingBefore(d), JobsHold(d)
  PROVE  JobsHold(Put(d, t, k, row))
<1> DEFINE e == Put(d, t, k, row)
<1>1. e.version = d.version /\ d.version \in 0..10 /\ Keeps(d, e) /\ IsDatabase(e)
  <2>1. d.version \in 0..10
    BY DEF IsDatabase, Latest
  <2> QED
    BY <2>1, PutIsDatabase, PutKeeps
<1>2. ASSUME NEW o \in Occurrences, Has(e, "recording_import_jobs", o), Job(e, o).output # None
      PROVE  ImportHolds(e, o, Job(e, o))
  <2> DEFINE u == "recording_import_jobs"
  <2>1. u \in Tables /\ o \in Keys(u) /\ CreatedBy(u) = 5
    BY DEF Tables, Keys, CreatedBy
  <2>2. Job(e, o) \in Rows(u)
    BY <1>1, <1>2, <2>1, RowTyped DEF Has, Job
  <2>3. d.version >= 5 /\ ImportHolds(d, o, Job(e, o))
    <3>1. CASE t = u /\ k = o
      <4>1. row = Job(e, o) /\ row # None
        BY <1>2, <2>1, <3>1, PutRows DEF Has, Job
      <4>2. d.version >= 5
        BY <2>1, <3>1 DEF Admits, Exists
      <4>3. ~Begins(t, row)
        BY <1>2, <3>1, <4>1 DEF Begins
      <4>4. UpdateAllowed(d, t, k, row)
        BY <4>1, <4>3 DEF Admits
      <4>5. Guarded(d, t, "update")
        BY <1>1, <3>1, <4>2, GuardsOf5 DEF Guarded, Latest
      <4> QED
        BY <3>1, <4>1, <4>2, <4>4, <4>5 DEF UpdateAllowed
    <3>2. CASE ~(t = u /\ k = o)
      <4>1. Job(e, o) = Job(d, o) /\ Has(d, u, o)
        BY <1>2, <2>1, <3>2, PutRows DEF Has, Job
      <4>2. d.version >= 5
        BY <1>1, <2>1, <4>1 DEF NothingBefore, Exists, Has
      <4> QED
        BY <1>2, <4>1, <4>2 DEF JobsHold
    <3> QED
      BY <3>1, <3>2
  <2> QED
    BY <1>1, <1>2, <2>2, <2>3, ImportStays
<1>3. ASSUME NEW a \in Artifacts, Has(e, "processing_jobs", a),
             e.rows["processing_jobs"][a].output # None
      PROVE  e.rows["artifact_lineage"][e.rows["processing_jobs"][a].output] = a
  <2> DEFINE u == "processing_jobs"
             job == e.rows[u][a]
  <2>1. u \in Tables /\ a \in Keys(u) /\ CreatedBy(u) = 4
    BY DEF Tables, Keys, CreatedBy
  <2>2. job \in Rows(u)
    BY <1>1, <1>3, <2>1, RowTyped DEF Has
  <2>3. job.output \in Artifacts
    BY <1>3, <2>2 DEF Rows, ProcessingRows
  <2>4. d.rows["artifact_lineage"][job.output] = a
    <3>1. CASE t = u /\ k = a
      <4>1. row = job /\ row # None
        BY <1>3, <2>1, <3>1, PutRows DEF Has
      <4>2. d.version >= 4
        BY <2>1, <3>1 DEF Admits, Exists
      <4>3. ~Begins(t, row)
        BY <1>3, <3>1, <4>1 DEF Begins
      <4>4. UpdateAllowed(d, t, k, row)
        BY <4>1, <4>3 DEF Admits
      <4>5. Guarded(d, t, "update")
        BY <1>1, <3>1, <4>2, GuardsOf4 DEF Guarded, Latest
      <4> QED
        BY <3>1, <4>1, <4>4, <4>5 DEF UpdateAllowed
    <3>2. CASE ~(t = u /\ k = a)
      <4>1. job = d.rows[u][a]
        BY <2>1, <3>2, PutRows
      <4> QED
        BY <1>3, <4>1 DEF JobsHold, Has
    <3> QED
      BY <3>1, <3>2
  <2> QED
    BY <1>1, <2>3, <2>4, LineageStays
<1> QED
  BY <1>2, <1>3 DEF JobsHold

LEMMA PutManifestsDiffer ==
  ASSUME NEW d, IsDatabase(d), NEW t \in Tables, NEW k \in Keys(t),
         NEW row \in Rows(t) \cup {None}, Admits(d, t, k, row), ManifestsDiffer(d)
  PROVE  ManifestsDiffer(Put(d, t, k, row))
<1> DEFINE e == Put(d, t, k, row)
           u == "capture_occurrence_assertions"
<1>1. SUFFICES ASSUME NEW o \in Occurrences, NEW p \in Occurrences, o # p,
                      Has(e, u, o), Has(e, u, p), Asserted(e, o).uri = Asserted(e, p).uri
               PROVE  FALSE
  BY DEF ManifestsDiffer
<1>2. /\ u \in Tables /\ Keys(u) = Occurrences
      /\ \A q \in Occurrences :
           Asserted(e, q) = IF t = u /\ k = q THEN row ELSE Asserted(d, q)
  <2>1. u \in Tables /\ Keys(u) = Occurrences
    BY DEF Tables, Keys
  <2> HIDE DEF e
  <2>2. ASSUME NEW q \in Occurrences
        PROVE  e.rows[u][q] = IF u = t /\ q = k THEN row ELSE d.rows[u][q]
    BY <2>1, PutRows DEF e
  <2> QED
    BY <2>1, <2>2 DEF Asserted
<1>3. t = u /\ row # None /\ (k = o \/ k = p)
  BY <1>1, <1>2 DEF ManifestsDiffer, Has, Asserted
<1>4. ManifestIsFree(d, k, row)
  BY <1>3 DEF Admits, Legal, AssertionIsLegal
<1> QED
  BY <1>1, <1>2, <1>3, <1>4 DEF ManifestIsFree, Has, Asserted

LEMMA PutSound ==
  ASSUME NEW d, IsDatabase(d), NEW t \in Tables, NEW k \in Keys(t),
         NEW row \in Rows(t) \cup {None}, Admits(d, t, k, row), Sound(d)
  PROVE  Sound(Put(d, t, k, row))
  BY PutNothingBefore, PutEventsHold, PutAssertedAreComplete, PutJobsHold, PutManifestsDiffer
     DEF Sound
-----------------------------------------------------------------------------
(* What a migration does.                                                  *)

\* A migration fills one table at most, and leaves the others as they are.
LEMMA MigratedRows ==
  ASSUME NEW d, IsDatabase(d), NEW v \in 1..Latest, NEW t \in Tables
  PROVE  /\ Migrated(v, d).version = v
         /\ Migrated(v, d).rows[t] =
              IF v = 3 /\ t = "expected_occurrences" THEN ExpectedBackfill(d)
              ELSE IF v = 7 /\ t = "capture_occurrence_assertions" THEN AssertionBackfill(d)
              ELSE d.rows[t]
<1>1. \E R : d.rows = [u \in Tables |-> R[u]]
  <2>1. d.rows = [u \in Tables |-> [k \in Keys(u) |-> d.rows[u][k]]]
    BY DEF IsDatabase
  <2> QED
    BY <2>1
<1>2. "expected_occurrences" \in Tables /\ "capture_occurrence_assertions" \in Tables
  BY DEF Tables
<1>3. CASE v = 3
  BY <1>1, <1>2, <1>3 DEF Migrated
<1>4. CASE v = 7
  BY <1>1, <1>2, <1>4 DEF Migrated
<1>5. CASE v # 3 /\ v # 7
  BY <1>5 DEF Migrated
<1> QED
  BY <1>3, <1>4, <1>5

\* What is filled in has the type of its table.
LEMMA BackfillsTyped ==
  ASSUME NEW d, IsDatabase(d), NEW o \in Occurrences
  PROVE  /\ ExpectedBackfill(d)[o] \in Rows("expected_occurrences") \cup {None}
         /\ AssertionBackfill(d)[o] \in Rows("capture_occurrence_assertions") \cup {None}
<1>1. Has(d, "capture_occurrences", o) => Captured(d, o) \in [slot : Slots, artifact : Artifacts]
  BY RowTyped DEF Has, Captured, Tables, Keys, Rows, CaptureRows
<1>2. CASE Has(d, "capture_occurrences", o)
  <2>1. Captured(d, o).slot \in Slots /\ Captured(d, o).artifact \in Artifacts
    BY <1>1, <1>2
  <2>2. ExpectedBackfill(d)[o] = [slot |-> Captured(d, o).slot, state |-> "COMPLETE",
                                  artifact |-> Captured(d, o).artifact]
    BY <1>2 DEF ExpectedBackfill
  <2>3. AssertionBackfill(d)[o] = [source |-> SourceOf[Captured(d, o).slot],
                                   artifact |-> Captured(d, o).artifact,
                                   uri |-> Captured(d, o).artifact]
    BY <1>2 DEF AssertionBackfill
  <2> QED
    BY <2>1, <2>2, <2>3 DEF Rows, ExpectedRows, AssertionRows, Endings, Lives, Sources
<1>3. CASE ~Has(d, "capture_occurrences", o)
  BY <1>3 DEF ExpectedBackfill, AssertionBackfill
<1> QED
  BY <1>2, <1>3

LEMMA MigratedIsDatabase ==
  ASSUME NEW d, IsDatabase(d), NEW v \in 1..Latest
  PROVE  IsDatabase(Migrated(v, d))
<1> DEFINE e == Migrated(v, d)
<1>1. \A t \in Tables : d.rows[t] = [k \in Keys(t) |-> d.rows[t][k]]
  <2>1. d.rows = [u \in Tables |-> [k \in Keys(u) |-> d.rows[u][k]]]
    BY DEF IsDatabase
  <2> QED
    BY <2>1
<1>2. e = [version |-> e.version, rows |-> e.rows] /\ e.version \in 0..Latest
  BY DEF Migrated, Latest
<1>3. e.rows = [t \in Tables |-> e.rows[t]]
  <2>1. d.rows = [u \in Tables |-> d.rows[u]]
    BY DEF IsDatabase
  <2>2. CASE v = 3
    BY <2>1, <2>2 DEF Migrated
  <2>3. CASE v = 7
    BY <2>1, <2>3 DEF Migrated
  <2>4. CASE v # 3 /\ v # 7
    BY <2>1, <2>4 DEF Migrated
  <2> QED
    BY <2>2, <2>3, <2>4
<1>4. ASSUME NEW t \in Tables
      PROVE  /\ e.rows[t] = [k \in Keys(t) |-> e.rows[t][k]]
             /\ \A k \in Keys(t) : e.rows[t][k] \in Rows(t) \cup {None}
  <2>1. CASE v = 3 /\ t = "expected_occurrences"
    <3>1. e.rows[t] = ExpectedBackfill(d) /\ Keys(t) = Occurrences
      BY <2>1, MigratedRows DEF Keys
    <3> QED
      BY <2>1, <3>1, BackfillsTyped DEF ExpectedBackfill
  <2>2. CASE v = 7 /\ t = "capture_occurrence_assertions"
    <3>1. e.rows[t] = AssertionBackfill(d) /\ Keys(t) = Occurrences
      BY <2>2, MigratedRows DEF Keys
    <3> QED
      BY <2>2, <3>1, BackfillsTyped DEF AssertionBackfill
  <2>3. CASE e.rows[t] = d.rows[t]
    BY <1>1, <2>3, RowTyped
  <2> QED
    BY <2>1, <2>2, <2>3, MigratedRows
<1>5. e.rows = [t \in Tables |-> [k \in Keys(t) |-> e.rows[t][k]]]
  BY <1>3, <1>4
<1> QED
  BY <1>2, <1>4, <1>5 DEF IsDatabase

\* The table that a migration fills is one that it creates.
LEMMA MigratedKeepsRows ==
  ASSUME NEW d, IsDatabase(d), NothingBefore(d), NEW v \in 1..Latest, v = d.version + 1
  PROVE  RowsKept(d, Migrated(v, d))
<1>1. d.version \in 0..Latest /\ Migrated(v, d).version = v
  BY DEF IsDatabase, Migrated
<1>2. ASSUME NEW t \in Tables, NEW k \in Keys(t), d.rows[t][k] # None
      PROVE  Migrated(v, d).rows[t][k] = d.rows[t][k]
  <2>1. CreatedBy(t) <= d.version
    BY <1>2 DEF NothingBefore, Exists
  <2>2. ~(v = 3 /\ t = "expected_occurrences") /\ ~(v = 7 /\ t = "capture_occurrence_assertions")
    BY <1>1, <2>1 DEF CreatedBy, Latest
  <2> QED
    BY <2>2, MigratedRows
<1> QED
  BY <1>1, <1>2 DEF RowsKept, Latest

LEMMA MigratedSound ==
  ASSUME NEW d, IsDatabase(d), Sound(d), NEW v \in 1..Latest, v = d.version + 1,
         Migratable(v, d)
  PROVE  Sound(Migrated(v, d))
<1> DEFINE e == Migrated(v, d)
<1>1. d.version \in 0..10 /\ e.version = v /\ v \in 1..10
  BY DEF IsDatabase, Migrated, Latest
<1>2. \A t \in Tables :
        /\ t # "expected_occurrences" /\ t # "capture_occurrence_assertions"
             => e.rows[t] = d.rows[t]
        /\ v # 3 /\ v # 7 => e.rows[t] = d.rows[t]
  BY MigratedRows
<1>3. NothingBefore(e)
  <2> SUFFICES ASSUME NEW t \in Tables, ~Exists(e, t), NEW k \in Keys(t)
               PROVE  e.rows[t][k] = None
    BY DEF NothingBefore
  <2>1. CreatedBy(t) > v /\ ~Exists(d, t)
    BY <1>1 DEF Exists, CreatedBy, Tables
  <2>2. ~(v = 3 /\ t = "expected_occurrences") /\ ~(v = 7 /\ t = "capture_occurrence_assertions")
    BY <2>1 DEF CreatedBy
  <2>3. e.rows[t] = d.rows[t]
    BY <2>2, MigratedRows
  <2> QED
    BY <2>1, <2>3 DEF Sound, NothingBefore
<1>4. EventsHold(e)
  <2> SUFFICES ASSUME NEW o \in Occurrences
               PROVE  /\ Event(e, o) = "SegmentFinalized" =>
                           /\ Has(e, "capture_occurrences", o)
                           /\ e.version >= 3 => InState(e, o, "COMPLETE")
                      /\ Event(e, o) = "GapRecorded" => InState(e, o, "GAP")
    BY DEF EventsHold
  <2>1. Event(e, o) = Event(d, o) /\ Captured(e, o) = Captured(d, o)
    BY <1>2 DEF Event, Captured, Tables
  <2>2. CASE v < 3
    <3>1. Expected(e, o) = Expected(d, o)
      BY <1>2, <2>2 DEF Expected, Tables
    <3> QED
      BY <1>1, <2>1, <2>2, <3>1 DEF Sound, EventsHold, InState, Has, Captured, Expected
  <2>3. CASE v = 3
    <3>1. e.rows["expected_occurrences"] = ExpectedBackfill(d)
      BY <2>3, MigratedRows DEF Tables
    <3>2. Has(d, "capture_occurrences", o) => InState(e, o, "COMPLETE")
      <4>1. ASSUME Has(d, "capture_occurrences", o)
            PROVE  /\ Expected(e, o) # None
                   /\ Expected(e, o).state = "COMPLETE"
        <5>1. Expected(e, o) = [slot |-> Captured(d, o).slot, state |-> "COMPLETE",
                                artifact |-> Captured(d, o).artifact]
          BY <3>1, <4>1 DEF ExpectedBackfill, Expected
        <5>2. Captured(d, o) \in [slot : Slots, artifact : Artifacts]
          BY <4>1, RowTyped DEF Has, Captured, Tables, Keys, Rows, CaptureRows
        <5>3. Expected(e, o) \in Rows("expected_occurrences")
          BY <5>1, <5>2 DEF Rows, ExpectedRows, Endings, Lives
        <5> QED
          BY <5>1, <5>3, SchemaAssumption DEF Tables
      <4> QED
        BY <4>1 DEF InState, Has, Expected
    <3>3. ~InState(d, o, "GAP")
      <4>1. ~Exists(d, "expected_occurrences") /\ o \in Keys("expected_occurrences")
        BY <1>1, <2>3 DEF Exists, CreatedBy, Keys
      <4> QED
        BY <4>1 DEF Sound, NothingBefore, InState, Has, Tables
    <3> QED
      BY <2>1, <3>2, <3>3 DEF Sound, EventsHold, Has, Captured
  <2>4. CASE v > 3
    <3>1. Expected(e, o) = Expected(d, o) /\ d.version >= 3
      <4>1. "expected_occurrences" \in Tables
        BY DEF Tables
      <4> QED
        BY <1>1, <2>4, <4>1, MigratedRows DEF Expected
    <3> QED
      BY <2>1, <3>1 DEF Sound, EventsHold, InState, Has, Captured, Expected
  <2> QED
    BY <1>1, <2>2, <2>3, <2>4
<1>5. AssertedAreComplete(e)
  <2> SUFFICES ASSUME v >= 8, NEW o \in Occurrences,
                      Has(e, "capture_occurrence_assertions", o)
               PROVE  InState(e, o, "COMPLETE")
    BY <1>1 DEF AssertedAreComplete
  <2>1. Asserted(e, o) = Asserted(d, o) /\ Expected(e, o) = Expected(d, o)
    BY <1>1, <1>2 DEF Asserted, Expected, Tables
  <2>2. Has(d, "capture_occurrence_assertions", o)
    BY <2>1 DEF Has, Asserted
  <2>3. v # 8 => d.version >= 8
    BY <1>1
  <2>4. InState(d, o, "COMPLETE")
    BY <2>2, <2>3 DEF Migratable, Sound, AssertedAreComplete
  <2> QED
    BY <2>1, <2>4 DEF InState, Has, Expected
<1>6. JobsHold(e)
  <2>1. ASSUME NEW o \in Occurrences, Has(e, "recording_import_jobs", o),
               Job(e, o).output # None
        PROVE  ImportHolds(e, o, Job(e, o))
    <3>1. Job(e, o) = Job(d, o) /\ Has(d, "recording_import_jobs", o)
      BY <1>2, <2>1 DEF Job, Has, Tables
    <3>2. CreatedBy("recording_import_jobs") <= d.version
      BY <3>1 DEF Sound, NothingBefore, Exists, Has, Tables, Keys
    <3>3. v # 3
      BY <1>1, <3>2 DEF CreatedBy
    <3>4. /\ e.rows["recording_imports"] = d.rows["recording_imports"]
          /\ Expected(e, o) = Expected(d, o) /\ Captured(e, o) = Captured(d, o)
          /\ e.rows["recording_segment_provenance"] = d.rows["recording_segment_provenance"]
      BY <3>3, MigratedRows DEF Expected, Captured, Tables
    <3>5. ImportHolds(d, o, Job(d, o))
      BY <2>1, <3>1 DEF Sound, JobsHold
    <3> QED
      BY <3>1, <3>4, <3>5 DEF ImportHolds, InState, Has, Expected
  <2>2. /\ e.rows["processing_jobs"] = d.rows["processing_jobs"]
        /\ e.rows["artifact_lineage"] = d.rows["artifact_lineage"]
    BY <1>2 DEF Tables
  <2> QED
    BY <2>1, <2>2 DEF Sound, JobsHold, Has
<1>7. ManifestsDiffer(e)
  <2> DEFINE u == "capture_occurrence_assertions"
  <2>0. u \in Tables
    BY DEF Tables
  <2>1. CASE v = 7
    <3>1. e.rows[u] = AssertionBackfill(d)
      BY <2>0, <2>1, MigratedRows
    <3>2. ASSUME NEW o \in Occurrences, Has(e, u, o)
          PROVE  Has(d, "capture_occurrences", o) /\ Asserted(e, o).uri = Captured(d, o).artifact
      BY <3>1, <3>2 DEF AssertionBackfill, Has, Asserted
    <3> QED
      BY <2>1, <3>2 DEF ManifestsDiffer, Migratable
  <2>2. CASE v # 7
    <3>1. e.rows[u] = d.rows[u]
      BY <2>0, <2>2, MigratedRows
    <3> QED
      BY <3>1 DEF Sound, ManifestsDiffer, Has, Asserted
  <2> QED
    BY <2>1, <2>2
<1> QED
  BY <1>3, <1>4, <1>5, <1>6, <1>7 DEF Sound
-----------------------------------------------------------------------------
(* The invariant, step by step.                                            *)

LEMMA EmptyIsSound ==
  IsDatabase(Empty) /\ Sound(Empty) /\ Committable(Empty)
<1>1. /\ Empty.version = 0
      /\ \A t \in Tables : \A k \in Keys(t) : Empty.rows[t][k] = None
  BY DEF Empty
<1>2. IsDatabase(Empty)
  BY DEF Empty, IsDatabase, Latest
<1>3. NothingBefore(Empty)
  BY <1>1 DEF NothingBefore
<1>4. \A o \in Occurrences : Event(Empty, o) = None
  BY <1>1 DEF Event, Tables, Keys
<1>5. EventsHold(Empty)
  <2>1. "SegmentFinalized" # None /\ "GapRecorded" # None
    BY SchemaAssumption DEF Rows, EventRows, Tables
  <2> QED
    BY <1>4, <2>1 DEF EventsHold
<1>6. AssertedAreComplete(Empty) /\ Committable(Empty)
  BY <1>1 DEF AssertedAreComplete, Committable
<1>7. JobsHold(Empty) /\ ManifestsDiffer(Empty)
  BY <1>1 DEF JobsHold, ManifestsDiffer, Has, Tables, Keys
<1> QED
  BY <1>2, <1>3, <1>5, <1>6, <1>7 DEF Sound

LEMMA InitHolds == Init => IInv
  BY EmptyIsSound, LedgerAssumption DEF Init, IInv, LedgerTypeOK, Transaction, Latest

LEMMA RowsKeptOn ==
  ASSUME NEW c, NEW d, NEW e, c.version \in Nat, d.version \in Nat, e.version \in Nat,
         RowsKept(c, d), RowsKept(d, e)
  PROVE  RowsKept(c, e)
  BY DEF RowsKept

\* Each step keeps the invariant, and the facts.
LEMMA WriteHolds ==
  ASSUME IInv, NEW s \in workload, Write(s[1], s[2], s[3])
  PROVE  IInv' /\ Keeps(db, db')
<1> DEFINE t == s[1]
           k == s[2]
           row == s[3]
           d == Put(work, t, k, row)
<1>1. t \in Tables /\ k \in Keys(t) /\ row \in Rows(t) \cup {None}
  BY LedgerAssumption DEF IInv, LedgerTypeOK
<1>2. Admits(work, t, k, row) /\ IsDatabase(work) /\ Sound(work)
  BY DEF Write, IInv, LedgerTypeOK
<1>3. IsDatabase(d) /\ d.version = work.version /\ Sound(d) /\ Keeps(work, d)
  BY <1>1, <1>2, PutIsDatabase, PutSound, PutKeeps
<1>4. work.version = db.version /\ Keeps(db, d)
  <2>1. CASE lock = "free"
    BY <1>3, <2>1 DEF IInv, Transaction
  <2>2. CASE lock = "writer"
    BY <1>3, <2>2, KeepsOn DEF IInv, Transaction
  <2> QED
    BY <2>1, <2>2 DEF Write
<1>5. Keeps(db, db)
  <2>1. db.version \in 0..10
    BY DEF IInv, LedgerTypeOK, IsDatabase, Latest
  <2> QED
    BY <2>1 DEF Keeps
<1> HIDE DEF d
<1>6. CASE Committable(d) /\ Publish(d)
  BY <1>3, <1>4, <1>6, LedgerAssumption
     DEF Publish, Unlock, Write, IInv, LedgerTypeOK, Transaction, Latest
<1>7. CASE ~Committable(d) /\ work' = d /\ lock' = "writer" /\ issued' = issued + 1
           /\ UNCHANGED <<db, upto>>
  BY <1>3, <1>4, <1>5, <1>7, LedgerAssumption DEF Write, IInv, LedgerTypeOK, Transaction
<1> QED
  BY <1>6, <1>7 DEF Write, d

LEMMA MigratorHolds ==
  ASSUME IInv, \/ \E r \in Releases : BeginMigration(r)
               \/ Migrate \/ CommitMigration
  PROVE  IInv' /\ Keeps(db, db')
<1>1. /\ db.version \in 0..10 /\ work.version \in 0..10
      /\ IsDatabase(db) /\ IsDatabase(work)
  BY DEF IInv, LedgerTypeOK, IsDatabase, Latest
<1>2. Keeps(db, db) /\ RowsKept(db, db)
  BY <1>1 DEF Keeps, RowsKept
<1>3. CASE \E r \in Releases : BeginMigration(r)
  BY <1>2, <1>3, LedgerAssumption DEF BeginMigration, IInv, LedgerTypeOK, Transaction, Latest
<1>4. CASE Migrate
  <2> DEFINE v == work.version + 1
             d == Migrated(v, work)
  <2>1. v \in 1..Latest /\ Migratable(v, work)
    BY <1>1, <1>4 DEF Migrate, IInv, LedgerTypeOK, Latest
  <2>2. IsDatabase(d) /\ Sound(d) /\ RowsKept(work, d) /\ d.version = v
    <3>1. Sound(work) /\ NothingBefore(work)
      BY DEF IInv, Sound
    <3>2. d.version = v
      BY DEF Migrated
    <3> QED
      BY <1>1, <2>1, <3>1, <3>2, MigratedIsDatabase, MigratedSound, MigratedKeepsRows
  <2>3. RowsKept(db, d)
    <3>1. RowsKept(db, work)
      BY <1>4 DEF Migrate, IInv, Transaction
    <3> QED
      BY <1>1, <2>2, <3>1, RowsKeptOn DEF Latest
  <2> HIDE DEF d
  <2>4. work' = d /\ UNCHANGED <<db, lock, issued, upto, workload>> /\ lock = "migrator"
    BY <1>4 DEF Migrate, d
  <2> QED
    BY <1>2, <2>2, <2>3, <2>4 DEF IInv, LedgerTypeOK, Transaction
<1>5. CASE CommitMigration
  <2>1. Keeps(db, work)
    BY <1>5 DEF CommitMigration, IInv, Transaction, RowsKept, Keeps
  <2> QED
    BY <1>5, <2>1, LedgerAssumption
       DEF CommitMigration, Publish, Unlock, IInv, LedgerTypeOK, Transaction, Latest
<1> QED
  BY <1>3, <1>4, <1>5

LEMMA StepHolds == IInv /\ [Next]_vars => IInv' /\ Keeps(db, db')
<1> SUFFICES ASSUME IInv, [Next]_vars
             PROVE  IInv' /\ Keeps(db, db')
  OBVIOUS
<1>1. Keeps(db, db)
  <2>1. db.version \in 0..10
    BY DEF IInv, LedgerTypeOK, IsDatabase, Latest
  <2> QED
    BY <2>1 DEF Keeps
<1>2. CASE \E s \in workload : Write(s[1], s[2], s[3])
  BY <1>2, WriteHolds
<1>3. CASE (\E r \in Releases : BeginMigration(r)) \/ Migrate \/ CommitMigration
  BY <1>3, MigratorHolds
<1>4. CASE FailMigration
  BY <1>1, <1>4, LedgerAssumption
     DEF FailMigration, Rollback, Unlock, IInv, LedgerTypeOK, Transaction, Latest
<1>5. CASE Abort
  BY <1>1, <1>5, LedgerAssumption
     DEF Abort, Rollback, Unlock, IInv, LedgerTypeOK, Transaction, Latest
<1>6. CASE UNCHANGED vars
  BY <1>1, <1>6 DEF vars, IInv, LedgerTypeOK, Transaction
<1> QED
  BY <1>2, <1>3, <1>4, <1>5, <1>6 DEF Next

LEMMA AlwaysIInv == Spec => []IInv
  BY InitHolds, StepHolds, PTL DEF Spec
-----------------------------------------------------------------------------
(* Which ledgers can be upgraded.                                          *)

\* Under schema 7 an assertion names its occurrence's capture, by a reference
\* that is checked at once; from schema 8 on it is COMMIT that checks it.
Named(d) ==
  d.version = 7 =>
    \A o \in Occurrences :
      Has(d, "capture_occurrence_assertions", o) => NamesCapture(d, o, Asserted(d, o))

LEMMA PutNamed ==
  ASSUME NEW d, IsDatabase(d), NEW t \in Tables, NEW k \in Keys(t),
         NEW row \in Rows(t) \cup {None}, Admits(d, t, k, row), Named(d)
  PROVE  Named(Put(d, t, k, row))
<1> DEFINE e == Put(d, t, k, row)
           u == "capture_occurrence_assertions"
<1>1. e.version = d.version /\ Keeps(d, e)
  <2>1. e.version = d.version
    BY PutIsDatabase
  <2> QED
    BY <2>1, PutKeeps
<1>2. SUFFICES ASSUME d.version = 7, NEW o \in Occurrences, Has(e, u, o)
               PROVE  NamesCapture(e, o, Asserted(e, o))
  BY <1>1 DEF Named
<1>3. /\ u \in Tables /\ o \in Keys(u) /\ u # "capture_occurrences"
      /\ Asserted(e, o) = IF t = u /\ k = o THEN row ELSE Asserted(d, o)
  <2>1. u \in Tables /\ o \in Keys(u) /\ u # "capture_occurrences"
    BY DEF Tables, Keys
  <2> HIDE DEF e
  <2>2. e.rows[u][o] = IF u = t /\ o = k THEN row ELSE d.rows[u][o]
    BY <2>1, PutRows DEF e
  <2> QED
    BY <2>1, <2>2 DEF Asserted
<1>4. NamesCapture(d, o, Asserted(e, o))
  <2>1. CASE t = u /\ k = o
    <3>1. row # None
      BY <1>2, <1>3, <2>1 DEF Has, Asserted
    <3>2. Legal(d, t, k, row)
      BY <3>1 DEF Admits
    <3> QED
      BY <1>2, <1>3, <2>1, <3>2 DEF Legal, AssertionIsLegal
  <2>2. CASE ~(t = u /\ k = o)
    BY <1>2, <1>3, <2>2 DEF Named, Has, Asserted
  <2> QED
    BY <2>1, <2>2
<1>5. Has(d, "capture_occurrences", o) => Captured(e, o) = Captured(d, o)
  BY <1>1, <1>2, OccurrencesStay
<1> QED
  BY <1>4, <1>5 DEF NamesCapture, Has, Captured

LEMMA MigratedNamed ==
  ASSUME NEW d, IsDatabase(d), NEW v \in 1..Latest
  PROVE  Named(Migrated(v, d))
<1> DEFINE e == Migrated(v, d)
<1> SUFFICES ASSUME v = 7, NEW o \in Occurrences, Has(e, "capture_occurrence_assertions", o)
             PROVE  NamesCapture(e, o, Asserted(e, o))
  BY MigratedRows DEF Named, Tables
<1>1. /\ e.rows["capture_occurrence_assertions"] = AssertionBackfill(d)
      /\ e.rows["capture_occurrences"] = d.rows["capture_occurrences"]
  BY MigratedRows DEF Tables
<1>2. Has(d, "capture_occurrences", o) /\ Asserted(e, o) = AssertionBackfill(d)[o]
  BY <1>1 DEF AssertionBackfill, Has, Asserted
<1> QED
  BY <1>1, <1>2 DEF AssertionBackfill, NamesCapture, Has, Captured

AllNamed == Named(db) /\ Named(work)

LEMMA AlwaysNamed == Spec => []AllNamed
<1>1. Init => AllNamed
  BY DEF Init, AllNamed, Named, Empty
<1>2. IInv /\ AllNamed /\ [Next]_vars => AllNamed'
  <2> SUFFICES ASSUME IInv, AllNamed, [Next]_vars
               PROVE  AllNamed'
    OBVIOUS
  <2>1. ASSUME NEW s \in workload, Write(s[1], s[2], s[3])
        PROVE  AllNamed'
    <3> DEFINE d == Put(work, s[1], s[2], s[3])
    <3>1. s[1] \in Tables /\ s[2] \in Keys(s[1]) /\ s[3] \in Rows(s[1]) \cup {None}
      BY LedgerAssumption DEF IInv, LedgerTypeOK
    <3>2. IsDatabase(work) /\ Admits(work, s[1], s[2], s[3]) /\ Named(work)
      BY <2>1 DEF Write, IInv, LedgerTypeOK, AllNamed
    <3>3. Named(d)
      BY <3>1, <3>2, PutNamed
    <3> HIDE DEF d
    <3>4. work' = d /\ (db' = d \/ db' = db)
      BY <2>1 DEF Write, Publish, d
    <3> QED
      BY <3>3, <3>4 DEF AllNamed
  <2>2. CASE Migrate
    <3>1. work.version + 1 \in 1..Latest /\ IsDatabase(work)
      BY <2>2 DEF Migrate, IInv, LedgerTypeOK, IsDatabase, Latest
    <3>2. Named(Migrated(work.version + 1, work))
      BY <3>1, MigratedNamed
    <3> QED
      BY <2>2, <3>2 DEF Migrate, AllNamed
  <2>3. CASE CommitMigration
    BY <2>3 DEF CommitMigration, Publish, AllNamed
  <2>4. CASE FailMigration \/ Abort
    BY <2>4 DEF FailMigration, Abort, Rollback, AllNamed
  <2>5. CASE UNCHANGED <<db, work>>
    BY <2>5 DEF AllNamed
  <2> QED
    BY <2>1, <2>2, <2>3, <2>4, <2>5 DEF Next, BeginMigration, vars
<1> QED
  BY <1>1, <1>2, AlwaysIInv, PTL DEF Spec

\* The recursion that defines Upgrade has a solution: each version's database
\* comes from that of the version before, and there are eleven of them.
LEMMA UpgradeSteps ==
  ASSUME NEW d, IsDatabase(d), NEW v \in 0..Latest
  PROVE  Upgrade(d)[v] = IF v <= d.version THEN d ELSE Migrated(v, Upgrade(d)[v - 1])
<1> DEFINE F(g) == [w \in 0..Latest |-> IF w <= d.version THEN d ELSE Migrated(w, g[w - 1])]
           Step(w, e) == IF w <= d.version THEN d ELSE Migrated(w, e)
           e1 == Step(1, d)
           e2 == Step(2, e1)
           e3 == Step(3, e2)
           e4 == Step(4, e3)
           e5 == Step(5, e4)
           e6 == Step(6, e5)
           e7 == Step(7, e6)
           e8 == Step(8, e7)
           e9 == Step(9, e8)
           e10 == Step(10, e9)
           G == [w \in 0..Latest |->
                   IF w = 0 THEN d ELSE IF w = 1 THEN e1 ELSE IF w = 2 THEN e2
                   ELSE IF w = 3 THEN e3 ELSE IF w = 4 THEN e4 ELSE IF w = 5 THEN e5
                   ELSE IF w = 6 THEN e6 ELSE IF w = 7 THEN e7 ELSE IF w = 8 THEN e8
                   ELSE IF w = 9 THEN e9 ELSE e10]
<1>1. /\ e1 = Step(1, d) /\ e2 = Step(2, e1) /\ e3 = Step(3, e2) /\ e4 = Step(4, e3)
      /\ e5 = Step(5, e4) /\ e6 = Step(6, e5) /\ e7 = Step(7, e6) /\ e8 = Step(8, e7)
      /\ e9 = Step(9, e8) /\ e10 = Step(10, e9)
  OBVIOUS
<1> HIDE DEF e1, e2, e3, e4, e5, e6, e7, e8, e9, e10
<1>2. G[0] = d /\ 0 <= d.version
  BY DEF IsDatabase, Latest
<1>3. ASSUME NEW w \in 1..Latest  PROVE G[w] = Step(w, G[w - 1])
  <2>1. w \in 1..10 /\ w - 1 \in 0..9
    BY DEF Latest
  <2>2. /\ G[0] = d /\ G[1] = e1 /\ G[2] = e2 /\ G[3] = e3 /\ G[4] = e4 /\ G[5] = e5
        /\ G[6] = e6 /\ G[7] = e7 /\ G[8] = e8 /\ G[9] = e9 /\ G[10] = e10
    BY DEF Latest
  <2> HIDE DEF G, Step
  <2>3. /\ G[1] = Step(1, G[0]) /\ G[2] = Step(2, G[1]) /\ G[3] = Step(3, G[2])
        /\ G[4] = Step(4, G[3]) /\ G[5] = Step(5, G[4]) /\ G[6] = Step(6, G[5])
        /\ G[7] = Step(7, G[6]) /\ G[8] = Step(8, G[7]) /\ G[9] = Step(9, G[8])
        /\ G[10] = Step(10, G[9])
    BY <1>1, <2>2
  <2> QED
    BY <2>1, <2>3
<1>4. \A w \in 0..Latest : G[w] = IF w <= d.version THEN d ELSE Migrated(w, G[w - 1])
  <2> HIDE DEF G
  <2> QED
    BY <1>2, <1>3 DEF Latest
<1>5. G = F(G)
  <2>1. G = [w \in 0..Latest |-> G[w]]
    OBVIOUS
  <2> HIDE DEF G
  <2> QED
    BY <1>4, <2>1
<1>6. Upgrade(d) = CHOOSE g : g = F(g)
  BY DEF Upgrade
<1> HIDE DEF F, G
<1>7. Upgrade(d) = F(Upgrade(d))
  BY <1>5, <1>6
<1> QED
  BY <1>7 DEF F
-----------------------------------------------------------------------------
(* The theorems.                                                           *)

\* Whatever is written, migrated or undone, the committed database and the one an
\* open transaction sees have rows of their tables' types, and a lock knows whose
\* it is.
THEOREM LedgerTypeCorrect == Spec => []LedgerTypeOK
<1>1. IInv => LedgerTypeOK
  BY DEF IInv
<1> QED
  BY <1>1, AlwaysIInv, PTL

LEMMA CommittedIsAsserted ==
  ASSUME IInv, db.version >= 8, NEW o \in Occurrences
  PROVE  /\ Has(db, "capture_occurrences", o) <=> Has(db, "capture_occurrence_assertions", o)
         /\ Has(db, "capture_occurrence_assertions", o) =>
              InState(db, o, "COMPLETE") /\ NamesCapture(db, o, Asserted(db, o))
  BY DEF IInv, Committable, NamesCapture, Sound, AssertedAreComplete

\* An outbox event says what happened, whichever schema it was written under:
\* migrations v3, v7 and v8 rebuild the tables that its trigger read.
THEOREM EventsStayTrue == Spec => []EventsAreTrue
<1>1. ASSUME IInv  PROVE EventsAreTrue
  <2>1. EventsHold(db)
    BY <1>1 DEF IInv, Sound
  <2>2. ASSUME NEW o \in Occurrences, InState(db, o, "GAP"), db.version >= 8
        PROVE  ~Has(db, "capture_occurrences", o)
    BY <1>1, <2>2, CommittedIsAsserted DEF InState
  <2> QED
    BY <2>1, <2>2 DEF EventsAreTrue, EventsHold
<1> QED
  BY <1>1, AlwaysIInv, PTL

\* From schema 8 on captures and assertions go together and are COMPLETE, the
\* back-filled ones too: discover() misses no capture.
THEOREM EveryCaptureIsAsserted == Spec => []CapturesAreAsserted
<1>1. IInv => CapturesAreAsserted
  BY CommittedIsAsserted DEF CapturesAreAsserted
<1> QED
  BY <1>1, AlwaysIInv, PTL

\* What recording_import_jobs_final_identity and processing_jobs_final_identity
\* check once holds of a COMPLETE job for good.
THEOREM CompletedWorkStays == Spec => []CompletedWorkHolds
<1>1. IInv => CompletedWorkHolds
  BY DEF IInv, Sound, JobsHold, CompletedWorkHolds, Has
<1> QED
  BY <1>1, AlwaysIInv, PTL

\* No statement, migration or rollback takes a settled row back: no rebuild
\* of a table loses a row or a trigger that guards it.
THEOREM LedgerIsAppendOnly == Spec => FactsAreKept
<1>1. IInv /\ [Next]_vars => [Keeps(db, db')]_db
  BY StepHolds
<1> QED
  BY <1>1, AlwaysIInv, PTL DEF Spec, FactsAreKept

-----------------------------------------------------------------------------
(* Migrations are one transaction.                                         *)

\* What the migrator that holds the lock has made so far of what is committed.
Upgrading ==
  lock = "migrator" => work.version >= db.version /\ work = Upgrade(db)[work.version]

LEMMA UpgradingStep ==
  ASSUME IInv, Upgrading, [Next]_vars
  PROVE  /\ Upgrading'
         /\ db'.version # db.version => db' = Upgrade(db)[upto]
<1>1. /\ IsDatabase(db) /\ IsDatabase(work)
      /\ db.version \in 0..Latest /\ work.version \in 0..Latest
  BY VersionTyped DEF IInv, LedgerTypeOK
<1>2. Latest \in Nat /\ upto \in 0..Latest
  BY DEF IInv, LedgerTypeOK, Latest
<1>3. CASE \E s \in workload : Write(s[1], s[2], s[3])
  <2>1. PICK s \in workload : Write(s[1], s[2], s[3])
    BY <1>3
  <2>2. s[1] \in Tables /\ s[2] \in Keys(s[1]) /\ s[3] \in Rows(s[1]) \cup {None}
    BY LedgerAssumption DEF IInv, LedgerTypeOK
  <2>3. Put(work, s[1], s[2], s[3]).version = work.version
    BY <1>1, <2>2, PutIsDatabase
  <2>4. work.version = db.version
    BY <2>1 DEF Write, IInv, Transaction
  <2>5. lock' # "migrator" /\ db'.version = db.version
    BY <2>1, <2>3, <2>4 DEF Write, Publish, Unlock
  <2> QED BY <2>5 DEF Upgrading
<1>4. ASSUME NEW r \in Releases, BeginMigration(r) PROVE Upgrading' /\ UNCHANGED db
  <2>1. UNCHANGED <<db, work>> /\ work = db
    BY <1>4 DEF BeginMigration, IInv, Transaction
  <2>2. Upgrade(db)[db.version] = db
    BY <1>1, UpgradeSteps
  <2> QED BY <1>1, <1>2, <2>1, <2>2 DEF Upgrading
<1>5. CASE Migrate
  <2> DEFINE v == work.version + 1
  <2>1. /\ lock = "migrator" /\ UNCHANGED db
        /\ work' = Migrated(v, work) /\ v \in 1..Latest
    BY <1>1, <1>2, <1>5 DEF Migrate
  <2>2. work.version >= db.version /\ work = Upgrade(db)[work.version]
    BY <2>1 DEF Upgrading
  <2>3. Upgrade(db)[v] = Migrated(v, work) /\ v >= db.version
    <3>1. v \in 0..Latest /\ ~(v <= db.version) /\ v - 1 = work.version
      BY <1>1, <1>2, <2>1, <2>2
    <3> QED BY <1>1, <1>2, <2>2, <3>1, UpgradeSteps
  <2>4. work'.version = v
    BY <2>1 DEF Migrated
  <2> QED BY <2>1, <2>3, <2>4 DEF Upgrading
<1>6. CASE CommitMigration
  <2>1. lock = "migrator" /\ work.version = upto /\ db' = work /\ lock' = "free"
    BY <1>6 DEF CommitMigration, Publish, Unlock
  <2> QED BY <2>1 DEF Upgrading
<1>7. CASE FailMigration \/ Abort
  BY <1>7 DEF FailMigration, Abort, Rollback, Unlock, Upgrading
<1>8. CASE UNCHANGED vars
  BY <1>8 DEF vars, Upgrading
<1> QED BY <1>3, <1>4, <1>5, <1>6, <1>7, <1>8 DEF Next

\* Whichever releases migrate and whatever dies or fails in between: the ledger
\* goes from what was committed to what a whole release makes of it.
THEOREM MigrationsAreAtomic == Spec => UpgradesAtOnce
<1>1. Init => Upgrading
  BY DEF Init, Upgrading
<1>2. IInv /\ Upgrading /\ [Next]_vars =>
        Upgrading' /\ [db'.version # db.version => db' = Upgrade(db)[upto]]_db
  BY UpgradingStep
<1> QED
  BY <1>1, <1>2, AlwaysIInv, PTL DEF Spec, UpgradesAtOnce
-----------------------------------------------------------------------------
(* The listing.                                                            *)

LEMMA ListedGrows ==
  ASSUME NEW d, NEW e, Keeps(d, e), d.version \in 0..Latest, e.version \in 0..Latest
  PROVE  Listed(d) \subseteq Listed(e)
<1>1. SUFFICES ASSUME d.version = Latest
               PROVE  Listed(d) \subseteq Listed(e)
  BY DEF Listed
<1>2. e.version = Latest
  BY <1>1 DEF Keeps, Latest
<1>3. ASSUME NEW t \in {"artifacts", "capture_occurrence_assertions"}, NEW k \in Keys(t),
             d.rows[t][k] # None
      PROVE  e.rows[t][k] = d.rows[t][k]
  <2>1. t \in Tables /\ d.version >= SettledSince(t)
    BY <1>1 DEF Tables, SettledSince, Latest
  <2>2. \A row : ~Finishes(t, d.rows[t][k], row)
    BY DEF Finishes
  <2> QED
    BY <1>3, <2>1, <2>2, EndedStays
<1>4. ASSUME NEW r \in Recordings, Has(d, "recording_imports", r),
             d.rows["recording_imports"][r].state = "COMPLETE"
      PROVE  e.rows["recording_imports"][r] = d.rows["recording_imports"][r]
  <2>1. /\ "recording_imports" \in Tables /\ r \in Keys("recording_imports")
        /\ d.version >= SettledSince("recording_imports")
    BY <1>1 DEF Tables, Keys, SettledSince, Latest
  <2>2. \A row : ~Finishes("recording_imports", d.rows["recording_imports"][r], row)
    BY <1>4 DEF Finishes
  <2> QED
    BY <1>4, <2>1, <2>2, EndedStays DEF Has
<1> QED
  BY <1>1, <1>2, <1>3, <1>4 DEF Listed, Has, Asserted, Keys

LEMMA ListedUnambiguous ==
  ASSUME NEW d, ManifestsDiffer(d)
  PROVE  Listing!Unambiguous(Listed(d))
<1> SUFFICES ASSUME NEW e \in Listed(d), NEW f \in Listed(d), e.kind = f.kind, e.uri = f.uri
             PROVE  e = f
  BY DEF Listing!Unambiguous
<1> QED
  BY DEF Listed, Entry, ManifestsDiffer

\* The ledger is what replication takes it for: discover() lists a file for
\* good, with one row's word on it, so register_discovered meets no conflict
\* and reconcile no vanished artifact.
THEOREM LedgerImplementsListing == Spec => ListingSpec
<1>1. Init => Listing!Init
  BY DEF Init, Listing!Init, Listed, Empty, Latest
<1>2. IInv /\ IInv' /\ Keeps(db, db') => [Listing!List]_(Listed(db))
  <2> SUFFICES ASSUME IInv, IInv', Keeps(db, db')
               PROVE  Listed(db) \subseteq Listed(db') /\ Listing!Unambiguous(Listed(db'))
    BY DEF Listing!List
  <2>1. db.version \in 0..Latest /\ db'.version \in 0..Latest
    BY DEF IInv, LedgerTypeOK, IsDatabase
  <2>2. ManifestsDiffer(db')
    BY DEF IInv, Sound
  <2> QED
    BY <2>1, <2>2, ListedGrows, ListedUnambiguous
<1>3. IInv /\ [Next]_vars => [Listing!List]_(Listed(db))
  BY <1>2, StepHolds
<1> QED
  BY <1>1, <1>3, AlwaysIInv, PTL DEF Spec, ListingSpec, Listing!Spec

\* What the database of version v, on the way from d, has of d.
Along(d, v, e) ==
  /\ IsDatabase(e) /\ e.version = v
  /\ e.rows["capture_occurrences"] = d.rows["capture_occurrences"]
  /\ e.rows["expected_occurrences"] =
       IF d.version < 3 /\ 3 <= v THEN ExpectedBackfill(d)
                                  ELSE d.rows["expected_occurrences"]
  /\ e.rows["capture_occurrence_assertions"] =
       IF d.version < 7 /\ 7 <= v THEN AssertionBackfill(d)
                                  ELSE d.rows["capture_occurrence_assertions"]

LEMMA AlongOn ==
  ASSUME NEW d, IsDatabase(d), NEW v \in 1..Latest, v > d.version,
         NEW e, Along(d, v - 1, e)
  PROVE  Along(d, v, Migrated(v, e))
<1> DEFINE f == Migrated(v, e)
<1>1. IsDatabase(e) /\ IsDatabase(f) /\ f.version = v
  BY MigratedIsDatabase, MigratedRows DEF Along, Tables
<1>2. d.version \in Nat /\ v \in Nat
  BY DEF IsDatabase, Latest
<1>3. /\ ExpectedBackfill(e) = ExpectedBackfill(d)
      /\ AssertionBackfill(e) = AssertionBackfill(d)
  BY DEF Along, ExpectedBackfill, AssertionBackfill, Has, Captured
<1>4. /\ f.rows["capture_occurrences"] = e.rows["capture_occurrences"]
      /\ f.rows["expected_occurrences"] =
           IF v = 3 THEN ExpectedBackfill(e) ELSE e.rows["expected_occurrences"]
      /\ f.rows["capture_occurrence_assertions"] =
           IF v = 7 THEN AssertionBackfill(e)
                    ELSE e.rows["capture_occurrence_assertions"]
  BY <1>1, MigratedRows DEF Tables
<1> HIDE DEF f
<1>5. f.rows["expected_occurrences"] =
        IF d.version < 3 /\ 3 <= v THEN ExpectedBackfill(d) ELSE d.rows["expected_occurrences"]
  <2>1. e.rows["expected_occurrences"] =
          IF d.version < 3 /\ 3 <= v - 1 THEN ExpectedBackfill(d)
                                         ELSE d.rows["expected_occurrences"]
    BY DEF Along
  <2>2. CASE v = 3
    BY <1>2, <1>3, <1>4, <2>2
  <2>3. CASE v # 3
    <3>1. 3 <= v - 1 <=> 3 <= v
      BY <1>2, <2>3
    <3> QED
      BY <1>4, <2>1, <2>3, <3>1
  <2> QED
    BY <2>2, <2>3
<1>6. f.rows["capture_occurrence_assertions"] =
        IF d.version < 7 /\ 7 <= v THEN AssertionBackfill(d)
                                   ELSE d.rows["capture_occurrence_assertions"]
  <2>1. e.rows["capture_occurrence_assertions"] =
          IF d.version < 7 /\ 7 <= v - 1 THEN AssertionBackfill(d)
                                         ELSE d.rows["capture_occurrence_assertions"]
    BY DEF Along
  <2>2. CASE v = 7
    BY <1>2, <1>3, <1>4, <2>2
  <2>3. CASE v # 7
    <3>1. 7 <= v - 1 <=> 7 <= v
      BY <1>2, <2>3
    <3> QED
      BY <1>4, <2>1, <2>3, <3>1
  <2> QED
    BY <2>2, <2>3
<1>7. f.rows["capture_occurrences"] = d.rows["capture_occurrences"]
  BY <1>4 DEF Along
<1> QED
  BY <1>1, <1>5, <1>6, <1>7 DEF Along, f

LEMMA UpgradeAlong ==
  ASSUME NEW d, IsDatabase(d), NEW v \in 0..Latest, v >= d.version
  PROVE  Along(d, v, Upgrade(d)[v])
<1> DEFINE U == Upgrade(d)
           P(w) == w >= d.version => Along(d, w, U[w])
<1>1. d.version \in 0..10
  BY DEF IsDatabase, Latest
<1>2. U[d.version] = d
  BY <1>1, UpgradeSteps DEF Latest
<1>3. Along(d, d.version, d)
  BY <1>1 DEF Along
<1>4. P(0)
  BY <1>1, <1>2, <1>3
<1>5. ASSUME NEW w \in 1..10, P(w - 1)  PROVE P(w)
  <2>1. CASE w = d.version
    BY <1>2, <1>3, <2>1
  <2>2. CASE w > d.version
    <3>1. U[w] = Migrated(w, U[w - 1])
      BY <1>1, <2>2, UpgradeSteps DEF Latest
    <3>2. Along(d, w - 1, U[w - 1])
      BY <1>1, <1>5, <2>2
    <3> QED
      BY <2>2, <3>1, <3>2, AlongOn DEF Latest
  <2> QED
    BY <1>1, <2>1, <2>2
<1> HIDE DEF P
<1>6. P(1) /\ P(2) /\ P(3) /\ P(4) /\ P(5) /\ P(6) /\ P(7) /\ P(8) /\ P(9) /\ P(10)
  <2>1. P(1)
    BY <1>4, <1>5
  <2>2. P(2)
    BY <2>1, <1>5
  <2>3. P(3)
    BY <2>2, <1>5
  <2>4. P(4)
    BY <2>3, <1>5
  <2>5. P(5)
    BY <2>4, <1>5
  <2>6. P(6)
    BY <2>5, <1>5
  <2>7. P(7)
    BY <2>6, <1>5
  <2>8. P(8)
    BY <2>7, <1>5
  <2>9. P(9)
    BY <2>8, <1>5
  <2>10. P(10)
    BY <2>9, <1>5
  <2> QED
    BY <2>1, <2>2, <2>3, <2>4, <2>5, <2>6, <2>7, <2>8, <2>9, <2>10
<1>7. P(v)
  BY <1>4, <1>6 DEF Latest
<1> QED
  BY <1>7 DEF P

\* Of two captures of one artifact, v7 can assert one only.
DistinctCaptures(d) ==
  \A o, p \in Occurrences :
    o # p /\ Has(d, "capture_occurrences", o) /\ Has(d, "capture_occurrences", p)
      => Captured(d, o).artifact # Captured(d, p).artifact

\* All there is to an upgrade: v7 and v8 can fail, and so can the COMMIT.
LEMMA UpgradeConditions ==
  ASSUME NEW d, IsDatabase(d)
  PROVE  UpgradeSucceeds(d) <=>
           /\ d.version < 7 => DistinctCaptures(d)
           /\ d.version < 8 => Migratable(8, Upgrade(d)[7])
           /\ Committable(Upgrade(d)[10])
<1> DEFINE U == Upgrade(d)
<1>1. d.version \in 0..10
  BY DEF IsDatabase, Latest
<1>2. \A v \in d.version + 1..10 : v # 7 /\ v # 8 => Migratable(v, U[v - 1])
  BY DEF Migratable
<1>3. d.version < 7 => (Migratable(7, U[6]) <=> DistinctCaptures(d))
  <2> SUFFICES ASSUME d.version < 7
               PROVE  Migratable(7, U[6]) <=> DistinctCaptures(d)
    OBVIOUS
  <2>1. U[6].rows["capture_occurrences"] = d.rows["capture_occurrences"]
    BY <1>1, UpgradeAlong DEF Along, Latest
  <2> QED
    BY <2>1 DEF Migratable, DistinctCaptures, Has, Captured
<1>4. UpgradeSucceeds(d) <=> /\ \A v \in d.version + 1..10 : Migratable(v, U[v - 1])
                             /\ Committable(U[10])
  BY DEF UpgradeSucceeds, Latest
<1> HIDE DEF U
<1>5. (\A v \in d.version + 1..10 : Migratable(v, U[v - 1]))
        <=> /\ d.version < 7 => Migratable(7, U[6])
            /\ d.version < 8 => Migratable(8, U[7])
  BY <1>1, <1>2
<1> QED
  BY <1>3, <1>4, <1>5 DEF U

LEMMA UpgradableLedgers ==
  ASSUME NEW d, IsDatabase(d), Committable(d), Named(d)
  PROVE  UpgradeSucceeds(d) <=> Upgradable(d)
<1> DEFINE e == Upgrade(d)[7]
           f == Upgrade(d)[10]
<1>1. d.version \in 0..10
  BY DEF IsDatabase, Latest
<1>2. Along(d, 10, f) /\ (d.version <= 7 => Along(d, 7, e))
  BY <1>1, UpgradeAlong DEF Latest
<1>3. \A o \in Occurrences :
        /\ Has(f, "capture_occurrences", o) <=> Has(d, "capture_occurrences", o)
        /\ Captured(f, o) = Captured(d, o)
  BY <1>2 DEF Along, Has, Captured
<1>4. UpgradeSucceeds(d) <=>
        /\ d.version < 7 => DistinctCaptures(d)
        /\ d.version < 8 => Migratable(8, e)
        /\ Committable(f)
  BY UpgradeConditions
<1> HIDE DEF e, f
<1>5. CASE d.version < 7
  <2>1. \A o \in Occurrences :
          /\ Has(e, "capture_occurrence_assertions", o) <=> Has(d, "capture_occurrences", o)
          /\ Has(f, "capture_occurrence_assertions", o) <=> Has(d, "capture_occurrences", o)
    <3>0. /\ e.rows["capture_occurrence_assertions"] = AssertionBackfill(d)
          /\ f.rows["capture_occurrence_assertions"] = AssertionBackfill(d)
      BY <1>1, <1>2, <1>5 DEF Along
    <3> SUFFICES ASSUME NEW o \in Occurrences
                 PROVE  AssertionBackfill(d)[o] # None <=> Has(d, "capture_occurrences", o)
      BY <3>0 DEF Has
    <3>1. CASE Has(d, "capture_occurrences", o)
      <4>1. Captured(d, o) \in CaptureRows
        BY <3>1, RowTyped DEF Has, Captured, Tables, Keys, Rows
      <4>2. AssertionBackfill(d)[o] \in AssertionRows
        BY <3>1, <4>1 DEF AssertionBackfill, AssertionRows, CaptureRows, Sources
      <4> QED
        BY <3>1, <4>2, SchemaAssumption DEF Tables, Rows
    <3>2. CASE ~Has(d, "capture_occurrences", o)
      BY <3>2 DEF AssertionBackfill
    <3> QED
      BY <3>1, <3>2
  <2>2. Committable(f)
    <3>1. \A o \in Occurrences :
            Has(d, "capture_occurrences", o) =>
              /\ Asserted(f, o).source = SourceOf[Captured(d, o).slot]
              /\ Asserted(f, o).artifact = Captured(d, o).artifact
      BY <1>1, <1>2, <1>5 DEF Along, Asserted, AssertionBackfill
    <3> QED
      BY <1>3, <2>1, <3>1 DEF Committable, NamesCapture
  <2>3. Migratable(8, e) <=>
          \A o \in Occurrences : Has(d, "capture_occurrences", o) => InState(e, o, "COMPLETE")
    BY <2>1 DEF Migratable
  <2>4. CASE d.version < 3
    <3>1. ASSUME NEW o \in Occurrences, Has(d, "capture_occurrences", o)
          PROVE  InState(e, o, "COMPLETE")
      <4>1. Expected(e, o) = [slot |-> Captured(d, o).slot, state |-> "COMPLETE",
                              artifact |-> Captured(d, o).artifact]
        BY <1>1, <1>2, <2>4, <3>1 DEF Along, Expected, ExpectedBackfill
      <4>2. Captured(d, o) \in CaptureRows
        BY <3>1, RowTyped DEF Has, Captured, Tables, Keys, Rows
      <4>3. Expected(e, o) \in ExpectedRows
        BY <4>1, <4>2 DEF ExpectedRows, CaptureRows, Endings, Lives
      <4> QED
        BY <4>1, <4>3, SchemaAssumption DEF InState, Has, Expected, Tables, Rows
    <3> QED
      BY <1>1, <1>4, <1>5, <2>2, <2>3, <2>4, <3>1 DEF Upgradable, DistinctCaptures
  <2>5. CASE d.version >= 3
    <3>1. \A o \in Occurrences : InState(e, o, "COMPLETE") <=> InState(d, o, "COMPLETE")
      BY <1>1, <1>2, <1>5, <2>5 DEF Along, InState, Has, Expected
    <3>2. d.version \in 3..7 /\ d.version # 7
      BY <1>1, <1>5, <2>5
    <3> QED
      BY <1>4, <1>5, <2>2, <2>3, <3>1, <3>2 DEF Upgradable, DistinctCaptures
  <2> QED
    BY <1>1, <2>4, <2>5
<1>6. CASE d.version >= 7
  <2>1. \A o \in Occurrences :
          /\ Has(f, "capture_occurrence_assertions", o)
               <=> Has(d, "capture_occurrence_assertions", o)
          /\ Asserted(f, o) = Asserted(d, o)
    BY <1>1, <1>2, <1>6 DEF Along, Has, Asserted
  <2>2. \A o \in Occurrences :
          Has(d, "capture_occurrence_assertions", o) => NamesCapture(d, o, Asserted(d, o))
    BY <1>1, <1>6 DEF Named, Committable
  <2>3. Committable(f) <=>
          \A o \in Occurrences :
            Has(d, "capture_occurrences", o) => Has(d, "capture_occurrence_assertions", o)
    <3>1. f.version >= 8
      BY <1>2 DEF Along
    <3> QED
      BY <1>3, <2>1, <2>2, <3>1 DEF Committable, NamesCapture
  <2>4. CASE d.version = 7
    <3>1. \A o \in Occurrences :
            /\ Has(e, "capture_occurrence_assertions", o)
                 <=> Has(d, "capture_occurrence_assertions", o)
            /\ InState(e, o, "COMPLETE") <=> InState(d, o, "COMPLETE")
      BY <1>2, <2>4 DEF Along, Has, InState, Expected
    <3>2. Migratable(8, e) <=>
            \A o \in Occurrences :
              Has(d, "capture_occurrence_assertions", o) => InState(d, o, "COMPLETE")
      BY <3>1 DEF Migratable
    <3>3. \A o \in Occurrences :
            Has(d, "capture_occurrence_assertions", o) => Has(d, "capture_occurrences", o)
      BY <2>2 DEF NamesCapture
    <3>4. UpgradeSucceeds(d) <=>
            \A o \in Occurrences :
              Has(d, "capture_occurrences", o) =>
                InState(d, o, "COMPLETE") /\ Has(d, "capture_occurrence_assertions", o)
      BY <1>4, <2>3, <2>4, <3>2, <3>3
    <3>5. d.version \in 3..7 /\ ~(d.version < 7)
      BY <2>4
    <3> QED
      BY <2>4, <3>4, <3>5 DEF Upgradable
  <2>5. CASE d.version > 7
    <3>1. Committable(f)
      <4>1. \A o \in Occurrences :
              Has(d, "capture_occurrences", o) => Has(d, "capture_occurrence_assertions", o)
        BY <1>1, <2>5 DEF Committable
      <4> QED
        BY <2>3, <4>1
    <3>2. d.version \notin 3..7 /\ ~(d.version < 7) /\ ~(d.version < 8)
      BY <1>1, <2>5
    <3> QED
      BY <1>4, <3>1, <3>2 DEF Upgradable
  <2> QED
    BY <1>1, <1>6, <2>4, <2>5
<1> QED
  BY <1>1, <1>5, <1>6

\* A ledger that is reached can be brought to the current schema exactly if its
\* captures are of different artifacts (before v7), and COMPLETE and, under v7,
\* asserted (from v3 on): migrate() fails for no other reason, from any version.
THEOREM UpgradesExactly == Spec => []UpgradeCriterion
<1>1. IInv /\ AllNamed => UpgradeCriterion
  BY UpgradableLedgers DEF IInv, LedgerTypeOK, AllNamed, UpgradeCriterion
<1> QED
  BY <1>1, AlwaysIInv, AlwaysNamed, PTL
-----------------------------------------------------------------------------
(* Ledgers that no writer can bring into order any more.                   *)

\* A capture of an occurrence that was given up: GAP is the end of its life,
\* and a capture is not deleted.
GapCaptured(d) ==
  /\ d.version >= 3
  /\ \E o \in Occurrences : Has(d, "capture_occurrences", o) /\ InState(d, o, "GAP")

\* Two captures of one artifact, under a schema that lets no capture go.
ArtifactShared(d) == d.version \in 3..6 /\ ~DistinctCaptures(d)

LEMMA KeepsStranded ==
  ASSUME NEW d, NEW e, Keeps(d, e), d.version \in 0..Latest, e.version \in 0..Latest
  PROVE  /\ GapCaptured(d) => GapCaptured(e)
         /\ ArtifactShared(d) /\ e.version < 7 => ArtifactShared(e)
<1>1. d.version <= e.version
  BY DEF Keeps
<1>2. ASSUME d.version >= 3, NEW o \in Occurrences
      PROVE  /\ Has(d, "capture_occurrences", o) =>
                  Has(e, "capture_occurrences", o) /\ Captured(e, o) = Captured(d, o)
             /\ InState(d, o, "GAP") => InState(e, o, "GAP")
  <2>1. Has(d, "capture_occurrences", o) => Captured(e, o) = Captured(d, o)
    BY <1>2, OccurrencesStay
  <2>2. InState(d, o, "GAP") => Expected(e, o) = Expected(d, o)
    BY <1>2, OccurrencesStay DEF InState
  <2> QED
    BY <2>1, <2>2 DEF Has, Captured, InState, Expected
<1>3. GapCaptured(d) => GapCaptured(e)
  BY <1>1, <1>2 DEF GapCaptured, Latest
<1>4. ArtifactShared(d) /\ e.version < 7 => ArtifactShared(e)
  <2> SUFFICES ASSUME ArtifactShared(d), e.version < 7  PROVE ArtifactShared(e)
    OBVIOUS
  <2>1. e.version \in 3..6 /\ d.version >= 3
    BY <1>1 DEF ArtifactShared, Latest
  <2>2. PICK o \in Occurrences, p \in Occurrences :
          /\ o # p /\ Has(d, "capture_occurrences", o) /\ Has(d, "capture_occurrences", p)
          /\ Captured(d, o).artifact = Captured(d, p).artifact
    BY DEF ArtifactShared, DistinctCaptures
  <2> QED
    BY <1>2, <2>1, <2>2 DEF ArtifactShared, DistinctCaptures
<1> QED
  BY <1>3, <1>4

\* What is wrong with the committed database is wrong with the one that an open
\* transaction sees: a migration past it fails.
StrandedToo ==
  /\ GapCaptured(db) => GapCaptured(work)
  /\ ArtifactShared(db) => ArtifactShared(work)

LEMMA StrandedOn ==
  ASSUME IInv, StrandedToo, [Next]_vars
  PROVE  /\ StrandedToo'
         /\ GapCaptured(db) => GapCaptured(db')
         /\ ArtifactShared(db) => ArtifactShared(db')
<1>1. /\ IsDatabase(work) /\ IsDatabase(work') /\ IsDatabase(db) /\ IsDatabase(db')
      /\ Keeps(db, db')
  BY StepHolds DEF IInv, LedgerTypeOK
<1>2. \A d : IsDatabase(d) => d.version \in 0..Latest
  BY DEF IsDatabase
<1>3. \A d, e : /\ IsDatabase(d) /\ IsDatabase(e) /\ Keeps(d, e)
                /\ ArtifactShared(d) => e.version < 7
                => /\ GapCaptured(d) => GapCaptured(e)
                   /\ ArtifactShared(d) => ArtifactShared(e)
  BY <1>2, KeepsStranded
<1>4. ASSUME NEW s \in workload, Write(s[1], s[2], s[3])
      PROVE  /\ GapCaptured(work) => GapCaptured(work')
             /\ ArtifactShared(work) => ArtifactShared(work')
             /\ db' = work' \/ db' = db
  <2> DEFINE d == Put(work, s[1], s[2], s[3])
  <2>1. s[1] \in Tables /\ s[2] \in Keys(s[1]) /\ s[3] \in Rows(s[1]) \cup {None}
    BY LedgerAssumption DEF IInv, LedgerTypeOK
  <2>2. Admits(work, s[1], s[2], s[3])
    BY <1>4 DEF Write
  <2>3. Keeps(work, d) /\ d.version = work.version
    BY <1>1, <2>1, <2>2, PutKeeps, PutIsDatabase
  <2> HIDE DEF d
  <2>4. work' = d /\ (db' = d \/ db' = db)
    BY <1>4 DEF Write, Publish, d
  <2>5. ArtifactShared(work) => d.version < 7
    BY <2>3 DEF ArtifactShared
  <2> QED
    BY <1>1, <1>3, <2>3, <2>4, <2>5
<1>5. ASSUME Migrate
      PROVE  /\ GapCaptured(work) => GapCaptured(work')
             /\ ArtifactShared(work) => ArtifactShared(work')
             /\ db' = db
  <2> DEFINE v == work.version + 1
             d == Migrated(v, work)
  <2>1. v \in 1..Latest /\ Migratable(v, work)
    BY <1>1, <1>5 DEF Migrate, IInv, LedgerTypeOK, IsDatabase, Latest
  <2>2. RowsKept(work, d)
    BY <1>1, <2>1, MigratedKeepsRows DEF IInv, Sound
  <2>3. Keeps(work, d)
    BY <2>2 DEF RowsKept, Keeps
  <2>4. d.version = v
    BY DEF Migrated
  <2>5. ArtifactShared(work) => d.version < 7
    BY <2>1, <2>4 DEF ArtifactShared, Migratable, DistinctCaptures
  <2> HIDE DEF d
  <2>6. work' = d /\ db' = db
    BY <1>5 DEF Migrate, d
  <2> QED
    BY <1>1, <1>3, <2>3, <2>5, <2>6
<1>6. CASE (\E r \in Releases : BeginMigration(r)) \/ CommitMigration \/ UNCHANGED vars
  <2>1. work' = work /\ (db' = work \/ db' = db)
    BY <1>6 DEF BeginMigration, CommitMigration, Publish, vars
  <2> QED
    BY <2>1 DEF StrandedToo
<1>7. CASE FailMigration \/ Abort
  BY <1>7 DEF FailMigration, Abort, Rollback, StrandedToo
<1>8. CASE (\E s \in workload : Write(s[1], s[2], s[3])) \/ Migrate
  BY <1>4, <1>5, <1>8 DEF StrandedToo
<1> QED
  BY <1>6, <1>7, <1>8 DEF Next

\* A capture of an occurrence that ended as GAP keeps the ledger below schema 8
\* for good, and two captures of one artifact, written or kept from v3 on, below
\* schema 7: no statement that the triggers admit undoes either, and v8 or its
\* COMMIT, or v7, fails in every release that has it.
THEOREM StrandedForGood ==
  Spec => /\ [](GapCaptured(db) => [](db.version < 8))
          /\ [](ArtifactShared(db) => [](db.version < 7))
<1>1. Init => StrandedToo
  BY DEF Init, StrandedToo
<1>2. IInv /\ StrandedToo /\ [Next]_vars =>
        /\ StrandedToo'
        /\ GapCaptured(db) => GapCaptured(db)'
        /\ ArtifactShared(db) => ArtifactShared(db)'
  BY StrandedOn
<1>3. IInv /\ GapCaptured(db) => db.version < 8
  <2> SUFFICES ASSUME IInv, GapCaptured(db), ~(db.version < 8)  PROVE FALSE
    OBVIOUS
  <2>1. db.version >= 8
    BY DEF IInv, LedgerTypeOK, IsDatabase, Latest
  <2> QED
    BY <2>1, CommittedIsAsserted DEF GapCaptured, InState
<1>4. ArtifactShared(db) => db.version < 7
  BY DEF ArtifactShared
<1> QED
  BY <1>1, <1>2, <1>3, <1>4, AlwaysIInv, PTL DEF Spec
=============================================================================
