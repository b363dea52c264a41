----------------------------- MODULE TargetInit -----------------------------
(***************************************************************************)
(* init-target (packages/replication/core/worker.py, init_target): give a  *)
(* target a marker that says whose it is, then record the target in        *)
(* replica_targets.  Marker and row are two systems without a common       *)
(* transaction, and any number of processes may initialize at once, for    *)
(* the same or for different target ids, on one NFS root and one bucket.   *)
(*                                                                         *)
(* A marker is canonical, so the target id stands for its bytes and for    *)
(* their digest.  Files are as in NfsReplication: Absent, a target id,     *)
(* Torn, or the process that holds the inode open and is writing it.       *)
(***************************************************************************)
EXTENDS Naturals

CONSTANTS Processes,  \* init-target processes that may run at the same time
          Ids,        \* target ids an operator may ask for
          Kinds,      \* adapter kinds he may ask for
          Absent, Torn,
          MaxMishaps  \* bound: crashes and failed calls

ASSUME InitAssumption ==
  /\ Kinds \subseteq {"mounted_nfs_v4", "gcs"}
  /\ Absent \notin Ids \cup Processes /\ Torn \notin Ids \cup Processes
  /\ Absent # Torn /\ Ids \cap Processes = {}
  /\ "none" \notin Kinds
  /\ MaxMishaps \in Nat

VARIABLES rows,     \* replica_targets: the adapter_kind of each target id
          marker,   \* the marker of the NFS root and that of the bucket
          partial,  \* the marker's partial file on the NFS root
          pc, id, kind, outcome,  \* of each process
          mishaps,
          raced  \* history: those that have started while another one ran

vars == <<rows, marker, partial, pc, id, kind, outcome, mishaps, raced>>
files == <<marker, partial>>

Files == {Absent, Torn} \cup Ids \cup Processes
Points == {"idle", "lookup", "exists", "stat", "unlinkOld", "create", "write",
           "link", "drop", "upload", "readback", "insert", "bind"}

TypeOK ==
  /\ rows \in [Ids -> Kinds \cup {"none"}]
  /\ marker \in [Kinds -> Files]
  /\ partial \in Files
  /\ pc \in [Processes -> Points]
  /\ id \in [Processes -> Ids] /\ kind \in [Processes -> Kinds]
  /\ outcome \in [Processes -> {"none", "running", "pass", "failed",
                                "target_identity_mismatch"}]
  /\ mishaps \in 0..MaxMishaps
  /\ raced \subseteq Processes

Init ==
  /\ rows = [i \in Ids |-> "none"]
  /\ marker = [k \in Kinds |-> Absent]
  /\ partial = Absent
  /\ pc = [p \in Processes |-> "idle"]
  /\ id \in [Processes -> Ids]
  /\ kind \in [Processes -> Kinds]
  /\ outcome = [p \in Processes |-> "none"]
  /\ mishaps = 0
  /\ raced = {}

Goto(p, point) == pc' = [pc EXCEPT ![p] = point] /\ UNCHANGED <<id, kind, outcome>>

Stop(p, how) ==
  /\ pc' = [pc EXCEPT ![p] = "idle"]
  /\ outcome' = [outcome EXCEPT ![p] = how]
  /\ UNCHANGED <<id, kind>>

Mismatch(p) == Stop(p, "target_identity_mismatch")
Marker(p) == marker[kind[p]]

\* Process p closes the inode it wrote, leaving bytes in it.
Close(p, bytes) ==
  /\ partial' = IF partial = p THEN bytes ELSE partial
  /\ marker' = [k \in Kinds |-> IF marker[k] = p THEN bytes ELSE marker[k]]

Start(p, i, k) ==
  /\ pc[p] = "idle"
  /\ pc' = [pc EXCEPT ![p] = "lookup"]
  /\ id' = [id EXCEPT ![p] = i]
  /\ kind' = [kind EXCEPT ![p] = k]
  /\ outcome' = [outcome EXCEPT ![p] = "running"]
  /\ raced' = IF \E q \in Processes : pc[q] # "idle" THEN raced \cup {p} ELSE raced
  /\ UNCHANGED <<rows, files, mishaps>>

\* target_row before any marker is looked at.
Lookup(p) ==
  /\ pc[p] = "lookup"
  /\ CASE rows[id[p]] = kind[p] -> Goto(p, "bind")
       [] rows[id[p]] = "none" ->
            Goto(p, IF kind[p] = "gcs" THEN "upload" ELSE "exists")
       [] OTHER -> Mismatch(p)
  /\ UNCHANGED <<rows, files, mishaps, raced>>
-----------------------------------------------------------------------------
(* initialize_marker, on the NFS root.                                     *)

MarkerExists(p) ==
  /\ pc[p] = "exists"
  /\ Goto(p, IF Marker(p) = Absent THEN "stat" ELSE "readback")
  /\ UNCHANGED <<rows, files, mishaps, raced>>

\* Faulty variant of StatPartial: a partial of an earlier init is in the way.
StatRefuses(p) ==
  /\ pc[p] = "stat"
  /\ IF partial = Absent THEN Goto(p, "create") ELSE Stop(p, "failed")
  /\ UNCHANGED <<rows, files, mishaps, raced>>

StatPartial(p) ==
  /\ pc[p] = "stat"
  /\ Goto(p, IF partial = Absent THEN "create" ELSE "unlinkOld")
  /\ UNCHANGED <<rows, files, mishaps, raced>>

UnlinkOld(p) ==
  /\ pc[p] = "unlinkOld"
  /\ partial' = Absent
  /\ IF partial = Absent THEN Stop(p, "failed") ELSE Goto(p, "create")
  /\ UNCHANGED <<rows, marker, mishaps, raced>>

\* Faulty variant of CreatePartial: the marker is written in place.
CreateInPlace(p) ==
  /\ pc[p] = "create"
  /\ marker' = [marker EXCEPT ![kind[p]] = IF @ = Absent THEN p ELSE @]
  /\ IF Marker(p) = Absent THEN Goto(p, "write") ELSE Stop(p, "failed")
  /\ UNCHANGED <<rows, partial, mishaps, raced>>

\* O_CREAT | O_EXCL.
CreatePartial(p) ==
  /\ pc[p] = "create"
  /\ partial' = IF partial = Absent THEN p ELSE partial
  /\ IF partial = Absent THEN Goto(p, "write") ELSE Stop(p, "failed")
  /\ UNCHANGED <<rows, marker, mishaps, raced>>

WritePartial(p) ==
  /\ pc[p] = "write"
  /\ Close(p, id[p])
  /\ Goto(p, "link")
  /\ UNCHANGED <<rows, mishaps, raced>>

\* Faulty variant of Link: a rename, which replaces what is there.
RenameOver(p) ==
  /\ pc[p] = "link"
  /\ marker' = [marker EXCEPT ![kind[p]] = partial]
  /\ Goto(p, "drop")
  /\ UNCHANGED <<rows, partial, mishaps, raced>>

\* os.link; FileExistsError is passed over, the read back will tell.
Link(p) ==
  /\ pc[p] = "link"
  /\ marker' = [marker EXCEPT ![kind[p]] = IF @ = Absent THEN partial ELSE @]
  /\ IF partial = Absent THEN Stop(p, "failed") ELSE Goto(p, "drop")
  /\ UNCHANGED <<rows, partial, mishaps, raced>>

\* partial.unlink(missing_ok=True)
DropPartial(p) ==
  /\ pc[p] = "drop"
  /\ partial' = Absent
  /\ Goto(p, "readback")
  /\ UNCHANGED <<rows, marker, mishaps, raced>>

(* GcsTarget.initialize: an upload that only creates, a 412 passed over.   *)

Upload(p) ==
  /\ pc[p] = "upload"
  /\ marker' = [marker EXCEPT !["gcs"] = IF @ = Absent THEN id[p] ELSE @]
  /\ Goto(p, "readback")
  /\ UNCHANGED <<rows, partial, mishaps, raced>>

\* Faulty variant of ReadBack: the marker is taken to be the one written.
SkipReadBack(p) ==
  /\ pc[p] = "readback"
  /\ Goto(p, "insert")
  /\ UNCHANGED <<rows, files, mishaps, raced>>

\* Compare the marker found or created, whoever made it.
ReadBack(p) ==
  /\ pc[p] = "readback"
  /\ IF Marker(p) = id[p] THEN Goto(p, "insert") ELSE Mismatch(p)
  /\ UNCHANGED <<rows, files, mishaps, raced>>
-----------------------------------------------------------------------------
\* Faulty variant of InsertTarget: the values of two columns are swapped.
InsertSwapped(p) ==
  /\ pc[p] = "insert"
  /\ rows' = [rows EXCEPT ![id[p]] = id[p]]
  /\ Goto(p, "bind")
  /\ UNCHANGED <<files, mishaps, raced>>

\* BEGIN IMMEDIATE: insert the row, or compare the one committed meanwhile.
InsertTarget(p) ==
  /\ pc[p] = "insert"
  /\ \/ /\ rows[id[p]] \in {"none", kind[p]}
        /\ rows' = [rows EXCEPT ![id[p]] = kind[p]]
        /\ Goto(p, "bind")
     \/ /\ rows[id[p]] \notin {"none", kind[p]}
        /\ UNCHANGED rows
        /\ Mismatch(p)
  /\ UNCHANGED <<files, mishaps, raced>>

Bind(p) ==
  /\ pc[p] = "bind"
  /\ IF Marker(p) = id[p] THEN Stop(p, "pass") ELSE Mismatch(p)
  /\ UNCHANGED <<rows, files, mishaps, raced>>

\* The process dies, or a call fails, before it did anything; what it had
\* done is kept, so the step after a change is also the change without a reply.
Mishap(p) ==
  /\ pc[p] # "idle"
  /\ mishaps < MaxMishaps
  /\ mishaps' = mishaps + 1
  /\ Stop(p, "failed")
  /\ IF pc[p] = "write" THEN \E bytes \in {Torn, id[p]} : Close(p, bytes)
                        ELSE UNCHANGED files
  /\ UNCHANGED <<rows, raced>>

Step(p) ==
  \/ Lookup(p) \/ MarkerExists(p) \/ StatPartial(p) \/ UnlinkOld(p)
  \/ CreatePartial(p) \/ WritePartial(p) \/ Link(p) \/ DropPartial(p)
  \/ Upload(p) \/ ReadBack(p) \/ InsertTarget(p) \/ Bind(p)

Next == \E p \in Processes : \/ \E i \in Ids, k \in Kinds : Start(p, i, k)
                             \/ Step(p)
                             \/ Mishap(p)

Spec == Init /\ [][Next]_vars

\* An operator repeats the command until it passes.
Retry(p) == outcome[p] # "pass" /\ \E i \in Ids, k \in Kinds : Start(p, i, k)
LiveSpec == Spec /\ \A p \in Processes : WF_vars(Step(p)) /\ WF_vars(Retry(p))
-----------------------------------------------------------------------------
(* Properties.                                                             *)

\* A target that replica_targets lists carries exactly its own marker, so a
\* crash between the two systems, or a race of two inits, never leaves a row
\* that claims a root or bucket marked for somebody else.
RowMeansMarker == \A i \in Ids : rows[i] # "none" => marker[rows[i]] = i

\* A marker, once there, keeps its bytes: no init takes a target over.
MarkerForGood ==
  [][\A k \in Kinds : marker[k] \in Ids \cup {Torn} => marker'[k] = marker[k]]_marker

\* With one init at a time, whatever it dies of, no root is left with an
\* incomplete marker, which no later init could repair.
MarkerWhole == raced = {} => \A k \in Kinds : marker[k] \in Ids \cup {Absent}

\* The target that p asks for can still be had, and two never run at once.
Clear(p) ==
  /\ Marker(p) \in {Absent, id[p]} /\ rows[id[p]] \in {"none", kind[p]}
  /\ \A q, r \in Processes : pc[q] # "idle" /\ pc[r] # "idle" => q = r

\* An init that is repeated after every failure gets its target registered,
\* whatever the earlier ones, raced with or dead, have left behind.
Registration ==
  \A p \in Processes :
    <>[]Clear(p) => []<>(outcome[p] = "pass" /\ rows[id[p]] = kind[p])
-----------------------------------------------------------------------------
(* The inductive invariant behind RowMeansMarker.                          *)

\* Between the read back and the transaction the marker stays the one read.
ReadBeforeInsert == \A p \in Processes : pc[p] = "insert" => Marker(p) = id[p]

MarkerInv == TypeOK /\ ReadBeforeInsert /\ RowMeansMarker
=============================================================================
