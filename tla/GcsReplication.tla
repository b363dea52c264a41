--------------------------- MODULE GcsReplication ---------------------------
(***************************************************************************)
(* The Google Cloud Storage target (packages/replication/adapters/gcs)     *)
(* under the worker of ReplicationCore: one action per storage request.    *)
(*                                                                         *)
(* A blob name has a generation that grows whenever the blob is created,   *)
(* replaced or deleted.  Uploads carry if_generation_match=0, so they only *)
(* create; a read is a metadata request that learns the generation, then a *)
(* download of exactly that generation.  The target's identity is the      *)
(* generation of the marker blob, taken by bind.                           *)
(***************************************************************************)
EXTENDS ReplicationCore

CONSTANTS Preexisting,  \* contents found at an object name before any run
          Absent,       \* no blob at a name
          MaxForeign    \* bound: blobs replaced or deleted by somebody else

ASSUME GcsAssumption ==
  /\ Preexisting \subseteq Bytes
  /\ Absent \notin Bytes
  /\ MaxForeign \in Nat

VARIABLES marker,   \* the marker blob: its generation, and whether it is ours
          bound,    \* marker_generation of each worker's bound target
          blob,     \* the blob at each object name
          seen,     \* generation a worker's metadata request returned
          held,     \* history: all contents each object name has ever had
          foreign   \* foreign changes so far

gcsVars == <<marker, bound, blob, seen, held, foreign>>
vars == <<coreVars, gcsVars>>

Blobs == [generation : Nat, bytes : Bytes \cup {Absent}]

\* Two requests make one read: "inspect" and "inspected" for inspect() in
\* reconcile, "adopt" and "adopted" for inspect() after a 412, "verify" and
\* "verified" for verify() after an upload, "check" and "checked" in verify.
ReadPoints == {"inspect", "adopt", "verify", "check"}
Downloading == [inspect |-> "inspected", adopt |-> "adopted",
                verify |-> "verified", check |-> "checked"]
DownloadPoints == {Downloading[p] : p \in ReadPoints}
Inspecting == {"inspect", "inspected", "adopt", "adopted"}
InPublish == {"publish", "upload", "adopt", "adopted", "verify", "verified"}
Points == CorePoints \cup {"clean"} \cup InPublish \cup ReadPoints \cup DownloadPoints

TypeOK ==
  /\ AuthorityTypeOK
  /\ source \in [Uris -> Bytes \cup {Missing}]
  /\ pc \in [Workers -> Points]
  /\ cmd \in [Workers -> Commands]
  /\ todo \in [Workers -> SUBSET Objects]
  /\ cur \in [Workers -> Objects \cup {NoObject}]
  /\ found \in [Workers -> SUBSET Objects]
  /\ outcome \in [Workers -> Outcomes]
  /\ mishaps \in 0..MaxMishaps /\ changes \in 0..MaxChanges /\ foreign \in 0..MaxForeign
  /\ marker \in [generation : Nat, ours : BOOLEAN]
  /\ bound \in [Workers -> Nat] /\ seen \in [Workers -> Nat]
  /\ blob \in [Uris -> Blobs]
  /\ held \in [Uris -> SUBSET Bytes]

Init ==
  /\ CoreInit
  /\ marker = [generation |-> 1, ours |-> TRUE]
  /\ bound = [w \in Workers |-> 0]
  /\ blob \in [Uris -> [generation : {1}, bytes : {Absent} \cup Preexisting]]
  /\ seen = [w \in Workers |-> 0]
  /\ held = [u \in Uris |-> {blob[u].bytes} \ {Absent}]
  /\ foreign = 0

Blob(w) == blob[Uri(w)]
IdentityHolds(w) == marker.generation = bound[w]

\* A ReplicationError from the adapter.
Fail(w, finding) == IF pc[w] \in InPublish THEN Raise(w, finding)
                                           ELSE Stop(w, finding)

\* The blob at u gets the given contents, under a generation of its own.
Write(u, bytes) ==
  /\ blob' = [blob EXCEPT ![u] = [generation |-> @.generation + 1, bytes |-> bytes]]
  /\ held' = [held EXCEPT ![u] = @ \cup ({bytes} \ {Absent})]

\* Faulty variant of Create: without if_generation_match=0.
CreateOver(w, bytes) == Write(Uri(w), bytes)

\* An upload with if_generation_match=0.
Create(w, bytes) == Blob(w).bytes = Absent /\ Write(Uri(w), bytes)

Readable(w) == IF source[Uri(w)] = Missing THEN Bytes ELSE {source[Uri(w)]}

steady == <<frame, marker, bound, foreign>>
-----------------------------------------------------------------------------
(* cleanup_transient does nothing: uploads leave nothing behind.           *)

Clean(w) ==
  /\ pc[w] = "clean"
  /\ Goto(w, "inspect")
  /\ UNCHANGED <<steady, blob, held, seen>>

(* inspect() and verify(): reload, then _download_hash.                    *)

Reload(w) ==
  /\ pc[w] \in ReadPoints
  /\ \/ /\ Blob(w).bytes # Absent
        /\ seen' = [seen EXCEPT ![w] = Blob(w).generation]
        /\ Goto(w, Downloading[pc[w]])
     \/ /\ Blob(w).bytes = Absent
        /\ UNCHANGED seen
        /\ CASE pc[w] = "inspect" -> Goto(w, "rItem")
             [] pc[w] = "adopt" -> Fail(w, "destination_collision")
             [] OTHER -> Fail(w, "destination_missing")
  /\ UNCHANGED <<steady, blob, held>>

Accepted == [inspected |-> "recheck", adopted |-> "mark",
             verified |-> "mark", checked |-> "vItem"]
Rejected(w) == IF pc[w] \in Inspecting THEN "destination_collision"
                                       ELSE "destination_digest_mismatch"

\* Faulty variant of Download: any contents of the expected generation do.
DownloadUnchecked(w) ==
  /\ pc[w] \in DownloadPoints
  /\ \/ Blob(w).generation = seen[w] /\ Goto(w, Accepted[pc[w]])
     \/ Blob(w).generation # seen[w] /\ Fail(w, Rejected(w))
  /\ UNCHANGED <<steady, blob, held, seen>>

Download(w) ==
  /\ pc[w] \in DownloadPoints
  /\ \/ Blob(w).bytes = Absent /\ Fail(w, "destination_missing")
     \/ /\ Blob(w).bytes # Absent
        /\ Blob(w).generation = seen[w] /\ Exact(w, Blob(w).bytes)
        /\ Goto(w, Accepted[pc[w]])
     \/ /\ Blob(w).bytes # Absent
        /\ Blob(w).generation # seen[w] \/ ~Exact(w, Blob(w).bytes)
        /\ Fail(w, Rejected(w))
  /\ UNCHANGED <<steady, blob, held, seen>>
-----------------------------------------------------------------------------
(* publish_immutable: no identity check of its own, before or after.       *)

\* source_path, then opening the source.
OpenSource(w) ==
  /\ pc[w] = "publish"
  /\ \/ source[Uri(w)] = Missing /\ Fail(w, "local_source_missing")
     \/ source[Uri(w)] # Missing /\ Goto(w, "upload")
  /\ UNCHANGED <<steady, blob, held, seen>>

\* upload_from_file sends what the source holds now, whatever was hashed.
Upload(w) ==
  /\ pc[w] = "upload"
  /\ \/ /\ \E bytes \in Readable(w) : Create(w, bytes)
        /\ Goto(w, "verify")
     \/ /\ Blob(w).bytes # Absent     \* 412 PreconditionFailed
        /\ UNCHANGED <<blob, held>>
        /\ Goto(w, "adopt")
  /\ UNCHANGED <<steady, seen>>
-----------------------------------------------------------------------------
Bind(w) ==
  /\ \/ ReconcileLoad(w, marker.ours)
     \/ RunLoad(w, marker.ours)
     \/ VerifyLoad(w, marker.ours)
  /\ bound' = [bound EXCEPT ![w] = IF marker.ours THEN marker.generation ELSE @]
  /\ UNCHANGED <<marker, blob, seen, held, foreign>>

CoreStep(w) ==
  /\ \/ ReconcileItem(w, IdentityHolds(w))
     \/ ReconcileRecheck(w, IdentityHolds(w))
     \/ MarkVerified(w)
     \/ Discover(w)
     \/ Register(w)
     \/ LoadPending(w)
     \/ RunItem(w, IdentityHolds(w))
     \/ RecordAttempt(w)
     \/ HashSource(w)
     \/ RecordFailure(w)
     \/ VerifyItem(w, IdentityHolds(w))
  /\ UNCHANGED gcsVars

AdapterStep(w) ==
  Clean(w) \/ Reload(w) \/ Download(w) \/ OpenSource(w) \/ Upload(w)

Step(w) == Bind(w) \/ CoreStep(w) \/ AdapterStep(w)
-----------------------------------------------------------------------------
(* Faults.                                                                 *)

\* A request fails and did nothing (_read_error, _write_error).
RequestFault(w) ==
  /\ pc[w] \in (InPublish \cup ReadPoints \cup DownloadPoints) \ {"publish"}
  /\ Mishap
  /\ Fail(w, "target_unavailable")
  /\ UNCHANGED <<replica, ledger, source, changes, gcsVars>>

\* The blob was created and the reply got lost: an error for the worker, or,
\* when the library repeats the conditional request, a 412.
ReplyLost(w) ==
  /\ pc[w] = "upload"
  /\ Mishap
  /\ \E bytes \in Readable(w) : Create(w, bytes)
  /\ Fail(w, "target_unavailable") \/ Goto(w, "adopt")
  /\ UNCHANGED <<replica, ledger, source, changes, marker, bound, seen, foreign>>

\* An exception that the maps raise again unmapped (say the ValueError for a
\* source that got shorter): run()'s except clause does not catch it.
Unmapped(w) ==
  /\ pc[w] = "upload"
  /\ ~Exact(w, source[Uri(w)])
  /\ Stop(w, "crashed")
  /\ UNCHANGED <<frame, gcsVars>>

Fault(w) ==
  \/ RequestFault(w) \/ ReplyLost(w) \/ Unmapped(w)
  \/ /\ Crash(w) \/ DatabaseFault(w) \/ IdentityFault(w)
     /\ UNCHANGED gcsVars

\* Somebody else replaces or deletes a blob, or the marker.
ForeignWrite(u, bytes) ==
  /\ foreign < MaxForeign
  /\ foreign' = foreign + 1
  /\ bytes # blob[u].bytes
  /\ Write(u, bytes)
  /\ UNCHANGED <<coreVars, marker, bound, seen>>

ReplaceMarker(ours) ==
  /\ foreign < MaxForeign
  /\ foreign' = foreign + 1
  /\ marker' = [generation |-> marker.generation + 1, ours |-> ours]
  /\ UNCHANGED <<coreVars, bound, blob, seen, held>>

Begin(w, command) == Start(w, command) /\ UNCHANGED gcsVars

Environment ==
  \/ \E o \in Objects : FinalizeObject(o) /\ UNCHANGED gcsVars
  \/ \E u \in Uris, bytes \in Bytes \cup {Missing} :
       /\ \E o \in ledger : UriOf[o] = u
       /\ ChangeSource(u, bytes)
       /\ UNCHANGED gcsVars
  \/ \E u \in Uris, bytes \in Bytes \cup {Absent} : ForeignWrite(u, bytes)
  \/ \E ours \in BOOLEAN : ReplaceMarker(ours)

Next ==
  \/ \E w \in Workers : \/ \E command \in Commands : Begin(w, command)
                        \/ Step(w)
                        \/ Fault(w)
  \/ Environment

Spec == Init /\ [][Next]_vars

\* As for NFS: an invocation that can go on does, and run is started again
\* and again.
Fairness == \A w \in Workers : /\ WF_vars(Step(w))
                               /\ SF_vars(Begin(w, "run"))
LiveSpec == Spec /\ Fairness
-----------------------------------------------------------------------------
(* Properties.                                                             *)

\* A VERIFIED row was never a false claim: its object name held exactly the
\* expected bytes at some time, however blobs were replaced, deleted or
\* poisoned by a source that changed under the upload.
VerifiedWasHeld == \A o \in Objects : Verified(o) => Expected[o] \in held[UriOf[o]]

\* Until somebody else touches its blob again, what a worker is about to mark
\* VERIFIED is still there: the generation it downloaded is the one it saw.
AboutToMarkIsExact ==
  \A w \in Workers : /\ pc[w] \in {"recheck", "rMark", "mark"}
                     /\ Blob(w).generation = seen[w]
    => Exact(w, Blob(w).bytes)

\* Until somebody else writes to the bucket, a VERIFIED row is true now and not
\* only once: no later upload, of a second row with the same object name or by a
\* second worker, takes its object away, whatever became of the source since.
VerifiedHolds ==
  foreign = 0 => \A o \in Objects : Verified(o) => blob[UriOf[o]].bytes = Expected[o]

\* The marker is the target's, every source is what the ledger says, and
\* nobody's wrong bytes hold a name.
Undisturbed ==
  /\ marker.ours
  /\ \A o \in Objects : /\ source[UriOf[o]] = Expected[o]
                         /\ blob[UriOf[o]].bytes \in {Absent, Expected[o]}

\* Once nothing disturbs them any more, the workers get every listed object
\* VERIFIED, also two at once, after lost replies and crashes.
GcsConvergence == <>[]Undisturbed => \A o \in Objects : o \in ledger ~> Verified(o)

\* "The worker fails closed on target-identity mismatch": it comes to mark a
\* row VERIFIED only while the marker it bound is in place.
MarksUnderIdentity ==
  [][\A w \in Workers : pc[w] \notin {"rMark", "mark"} /\ pc'[w] \in {"rMark", "mark"}
       => IdentityHolds(w)]_pc

\* However many workers run at once, with sound sources and nobody else
\* writing they behave as ReplicationContract.
Contract == INSTANCE ReplicationContract
              WITH row <- [o \in Objects |-> replica[o].state],
                   stored <- [u \in Uris |-> blob[u].bytes]
GcsContractSpec == Contract!Spec
=============================================================================
