--------------------------- MODULE NfsReplication ---------------------------
(***************************************************************************)
(* The mounted-NFSv4 target (packages/replication/adapters/nfs) under the  *)
(* worker of ReplicationCore: one action per file-system call that another *)
(* process, a fault or a remount could come before or after.               *)
(*                                                                         *)
(* A file is a name in a directory that stands for some bytes: a member of *)
(* Bytes, Torn for an incomplete copy that nobody is writing any more, or  *)
(* the worker that holds it open and is still writing it.  Two names of    *)
(* one inode (os.link) are two names with that same value, so when the     *)
(* writer closes the inode every name of it settles to the bytes written.  *)
(***************************************************************************)
EXTENDS ReplicationCore

CONSTANTS Roots,        \* file systems that may appear at the target root
          Marked,       \* those that carry this target's marker
          Preexisting,  \* contents found at a final name before any run
          Absent,       \* no file at a name
          Torn          \* an incomplete copy

ASSUME NfsAssumption ==
  /\ Marked \subseteq Roots
  /\ Marked # {}
  /\ Preexisting \subseteq Bytes
  /\ Absent \notin Bytes \cup Workers
  /\ Torn \notin Bytes \cup Workers
  /\ Absent # Torn
  /\ Bytes \cap Workers = {}

VARIABLES mount,    \* the file system now at the target root
          left,     \* file systems that were there before
          runtime,  \* (st_dev, st_ino) each worker bound, as a root
          final,    \* the file at each final name, on each root
          partial   \* the file at each object's partial name, on each root

nfsVars == <<mount, left, runtime, final, partial>>
files == <<final, partial>>
vars == <<coreVars, nfsVars>>

Files == {Absent, Torn} \cup Bytes \cup Workers

\* Control points inside the adapter.
CleanPoints == {"clean", "unlinkOld", "inspect"}
PublishPoints == {"publish", "stat", "create", "copy", "discard", "revalidate",
                  "link", "drop", "reread", "unlink", "readback", "confirm"}
Points == CorePoints \cup CleanPoints \cup PublishPoints \cup {"check"}

TypeOK ==
  /\ AuthorityTypeOK
  /\ source \in [Uris -> Bytes \cup {Missing}]
  /\ pc \in [Workers -> Points]
  /\ cmd \in [Workers -> Commands]
  /\ todo \in [Workers -> SUBSET Objects]
  /\ cur \in [Workers -> Objects \cup {NoObject}]
  /\ found \in [Workers -> SUBSET Objects]
  /\ outcome \in [Workers -> Outcomes]
  /\ mishaps \in 0..MaxMishaps /\ changes \in 0..MaxChanges
  /\ mount \in Roots /\ left \subseteq Roots
  /\ runtime \in [Workers -> Roots]
  /\ final \in [Roots -> [Uris -> Files]]
  /\ partial \in [Roots -> [Objects -> Files]]

Init ==
  /\ CoreInit
  /\ mount \in Marked
  /\ left = {}
  /\ runtime = [w \in Workers |-> mount]
  /\ final \in [Roots -> [Uris -> {Absent} \cup Preexisting]]
  /\ partial = [r \in Roots |-> [o \in Objects |-> Absent]]

\* Paths are resolved at each call: they lead to whatever is mounted then.
Final(w) == final[mount][Uri(w)]
Partial(w) == partial[mount][cur[w]]

BindHolds == mount \in Marked

\* Faulty variant of IdentityHolds: the marker alone, not st_dev and st_ino.
MarkerHolds(w) == mount \in Marked

IdentityHolds(w) == mount \in Marked /\ mount = runtime[w]

\* A ReplicationError from the adapter.
Fail(w, finding) == IF pc[w] \in PublishPoints THEN Raise(w, finding)
                                               ELSE Stop(w, finding)

\* Faulty variants of RemovePartial: nothing is removed, or the final too.
LeavePartial(w) == UNCHANGED files
RemoveBoth(w) ==
  /\ partial' = [partial EXCEPT ![mount][cur[w]] = Absent]
  /\ final' = [final EXCEPT ![mount][Uri(w)] = Absent]

\* partial.unlink() removes the name; os.link gives the inode a second one.
RemovePartial(w) ==
  /\ partial' = [partial EXCEPT ![mount][cur[w]] = Absent]
  /\ UNCHANGED final
LinkFinal(w) ==
  /\ final' = [final EXCEPT ![mount][Uri(w)] = Partial(w)]
  /\ UNCHANGED partial

\* Worker w closes the inode it wrote, leaving bytes in it.
Close(w, bytes) ==
  /\ final' = [r \in Roots |-> [u \in Uris |->
                 IF final[r][u] = w THEN bytes ELSE final[r][u]]]
  /\ partial' = [r \in Roots |-> [o \in Objects |->
                 IF partial[r][o] = w THEN bytes ELSE partial[r][o]]]

\* What reading the copy source can yield; an unlinked file stays readable.
Readable(w) == IF source[Uri(w)] = Missing THEN Bytes ELSE {source[Uri(w)]}

steady == <<frame, mount, left, runtime>>
-----------------------------------------------------------------------------
(* cleanup_owned_partial_existing and reconcile_destination_state.         *)

\* Faulty variant of Clean: reconcile leaves old partials where they are.
CleanNothing(w) ==
  /\ pc[w] = "clean"
  /\ Goto(w, "inspect")
  /\ UNCHANGED <<steady, files>>

\* partial.lstat(): the name alone says that the file is the worker's own.
Clean(w) ==
  /\ pc[w] = "clean"
  /\ Goto(w, IF Partial(w) = Absent THEN "inspect" ELSE "unlinkOld")
  /\ UNCHANGED <<steady, files>>

UnlinkOld(w) ==
  /\ pc[w] = "unlinkOld"
  /\ \/ Partial(w) # Absent /\ RemovePartial(w) /\ Goto(w, "inspect")
     \/ /\ Partial(w) = Absent
        /\ UNCHANGED files
        /\ Fail(w, "partial_cleanup_failed")
  /\ UNCHANGED steady

\* Faulty variant of Inspect: any file at the final name counts as exact.
InspectPresence(w) ==
  /\ pc[w] = "inspect"
  /\ Goto(w, IF Final(w) = Absent THEN "rItem" ELSE "recheck")
  /\ UNCHANGED <<steady, files>>

\* An absent final leaves the row PENDING: reconcile never publishes.
Inspect(w) ==
  /\ pc[w] = "inspect"
  /\ \/ Final(w) = Absent /\ Goto(w, "rItem")
     \/ Exact(w, Final(w)) /\ Goto(w, "recheck")
     \/ /\ Final(w) # Absent /\ ~Exact(w, Final(w))
        /\ Fail(w, "destination_collision")
  /\ UNCHANGED <<steady, files>>
-----------------------------------------------------------------------------
(* publish_object.                                                         *)

\* Identity, source_path, ensure_destination_parent and final_state.
PublishBegin(w) ==
  /\ pc[w] = "publish"
  /\ \/ ~IdentityHolds(w) /\ Fail(w, "target_identity_mismatch")
     \/ /\ IdentityHolds(w) /\ source[Uri(w)] = Missing
        /\ Fail(w, "local_source_missing")
     \/ /\ IdentityHolds(w) /\ source[Uri(w)] # Missing
        /\ \/ Final(w) = Absent /\ Goto(w, "stat")
           \/ Exact(w, Final(w)) /\ Goto(w, "confirm")
           \/ /\ Final(w) # Absent /\ ~Exact(w, Final(w))
              /\ Fail(w, "destination_collision")
  /\ UNCHANGED <<steady, files>>

StatPartial(w) ==
  /\ pc[w] = "stat"
  /\ \/ Partial(w) = Absent /\ Goto(w, "create")
     \/ Partial(w) # Absent /\ Fail(w, "partial_cleanup_failed")
  /\ UNCHANGED <<steady, files>>

\* Open the source, then the partial with O_CREAT | O_EXCL.
CreatePartial(w) ==
  /\ pc[w] = "create"
  /\ \/ /\ source[Uri(w)] = Missing
        /\ UNCHANGED files
        /\ Fail(w, "target_unavailable")
     \/ /\ source[Uri(w)] # Missing /\ Partial(w) # Absent
        /\ UNCHANGED files
        /\ Fail(w, "target_io_error")
     \/ /\ source[Uri(w)] # Missing /\ Partial(w) = Absent
        /\ partial' = [partial EXCEPT ![mount][cur[w]] = w]
        /\ UNCHANGED final
        /\ Goto(w, "copy")
  /\ UNCHANGED steady

\* Faulty variant of Copy: the digest of what was copied is not compared.
CopyUnchecked(w) ==
  /\ pc[w] = "copy"
  /\ \E bytes \in Readable(w) : Close(w, bytes)
  /\ Goto(w, "revalidate")
  /\ UNCHANGED steady

\* Copy, fsync and close, hashing what was read; then compare the digest.
Copy(w) ==
  /\ pc[w] = "copy"
  /\ \E bytes \in Readable(w) :
       /\ Close(w, bytes)
       /\ Goto(w, IF Exact(w, bytes) THEN "revalidate" ELSE "discard")
  /\ UNCHANGED steady

\* The copied bytes were wrong: unlink by name, whatever unlink answers.
Discard(w) ==
  /\ pc[w] = "discard"
  /\ RemovePartial(w)
  /\ Fail(w, "local_source_corrupt")
  /\ UNCHANGED steady

Revalidate(w) ==
  /\ pc[w] = "revalidate"
  /\ \/ IdentityHolds(w) /\ Goto(w, "link")
     \/ ~IdentityHolds(w) /\ Fail(w, "target_identity_mismatch")
  /\ UNCHANGED <<steady, files>>

\* os.link(partial, final): exclusive, but on whatever the partial name is.
Link(w) ==
  /\ pc[w] = "link"
  /\ \/ /\ Partial(w) = Absent
        /\ UNCHANGED files
        /\ Fail(w, "target_unavailable")
     \/ /\ Partial(w) # Absent /\ Final(w) # Absent
        /\ UNCHANGED files
        /\ Goto(w, "drop")
     \/ /\ Partial(w) # Absent /\ Final(w) = Absent
        /\ LinkFinal(w)
        /\ Goto(w, "unlink")
  /\ UNCHANGED steady

\* FileExistsError: drop the partial, then adopt an exact final or collide.
DropPartial(w) ==
  /\ pc[w] = "drop"
  /\ \/ Partial(w) # Absent /\ RemovePartial(w) /\ Goto(w, "reread")
     \/ /\ Partial(w) = Absent
        /\ UNCHANGED files
        /\ Fail(w, "partial_cleanup_failed")
  /\ UNCHANGED steady

Reread(w) ==
  /\ pc[w] = "reread"
  /\ \/ Exact(w, Final(w)) /\ Goto(w, "confirm")
     \/ ~Exact(w, Final(w)) /\ Fail(w, "destination_collision")
  /\ UNCHANGED <<steady, files>>

UnlinkPartial(w) ==
  /\ pc[w] = "unlink"
  /\ \/ Partial(w) # Absent /\ RemovePartial(w) /\ Goto(w, "readback")
     \/ /\ Partial(w) = Absent
        /\ UNCHANGED files
        /\ Fail(w, "target_unavailable")
  /\ UNCHANGED steady

\* Faulty variant of ReadBack: the published object is not read back.
SkipReadBack(w) ==
  /\ pc[w] = "readback"
  /\ Goto(w, "confirm")
  /\ UNCHANGED <<steady, files>>

\* verify_replica_object.
ReadBack(w) ==
  /\ pc[w] = "readback"
  /\ \/ Exact(w, Final(w)) /\ Goto(w, "confirm")
     \/ /\ Final(w) = Absent   \* on a new mount its directory may be missing
        /\ \/ Fail(w, "destination_missing")
           \/ Fail(w, "target_unavailable")
     \/ /\ Final(w) # Absent /\ ~Exact(w, Final(w))
        /\ Fail(w, "destination_digest_mismatch")
  /\ UNCHANGED <<steady, files>>

\* The last validate_target_identity, after adoption as after publication.
Confirm(w) ==
  /\ pc[w] = "confirm"
  /\ \/ IdentityHolds(w) /\ Goto(w, "mark")
     \/ ~IdentityHolds(w) /\ Fail(w, "target_identity_mismatch")
  /\ UNCHANGED <<steady, files>>

\* verify_existing_replica, for the verify command.
Check(w) ==
  /\ pc[w] = "check"
  /\ \/ Exact(w, Final(w)) /\ Goto(w, "vItem")
     \/ Final(w) = Absent /\ Fail(w, "destination_missing")
     \/ /\ Final(w) # Absent /\ ~Exact(w, Final(w))
        /\ Fail(w, "destination_digest_mismatch")
  /\ UNCHANGED <<steady, files>>
-----------------------------------------------------------------------------
(* The worker's own steps, with the adapter as the core's target.          *)

Bind(w) ==
  /\ \/ ReconcileLoad(w, BindHolds)
     \/ RunLoad(w, BindHolds)
     \/ VerifyLoad(w, BindHolds)
  /\ runtime' = [runtime EXCEPT ![w] = IF BindHolds THEN mount ELSE @]
  /\ UNCHANGED <<mount, left, files>>

CoreStep(w) ==
  /\ \/ ReconcileItem(w, IdentityHolds(w))
     \/ ReconcileRecheck(w, IdentityHolds(w))
     \/ MarkVerified(w)
     \/ Discover(w)
     \/ Register(w)
     \/ LoadPending(w)
     \/ RunItem(w, IdentityHolds(w))
     \/ RecordAttempt(w)
     \/ HashSource(w)
     \/ RecordFailure(w)
     \/ VerifyItem(w, IdentityHolds(w))
  /\ UNCHANGED nfsVars

AdapterStep(w) ==
  \/ Clean(w) \/ UnlinkOld(w) \/ Inspect(w)
  \/ PublishBegin(w) \/ StatPartial(w) \/ CreatePartial(w) \/ Copy(w)
  \/ Discard(w) \/ Revalidate(w) \/ Link(w) \/ DropPartial(w) \/ Reread(w)
  \/ UnlinkPartial(w) \/ ReadBack(w) \/ Confirm(w) \/ Check(w)

Step(w) == Bind(w) \/ CoreStep(w) \/ AdapterStep(w)
-----------------------------------------------------------------------------
(* Faults.                                                                 *)

\* A call fails and did nothing (_target_error, or its special cases).  The
\* failed unlink of "discard" is swallowed.
IoFault(w) ==
  /\ pc[w] \in CleanPoints \cup PublishPoints \cup {"check"}
  /\ pc[w] # "copy"
  /\ Mishap
  /\ Fail(w, CASE pc[w] \in {"unlinkOld", "drop"} -> "partial_cleanup_failed"
               [] pc[w] = "discard" -> "local_source_corrupt"
               [] OTHER -> "target_unavailable")
  /\ UNCHANGED <<replica, ledger, source, changes, nfsVars>>

\* The copy breaks off: the partial keeps a part of the bytes, or all.
CopyFault(w) ==
  /\ pc[w] = "copy"
  /\ Mishap
  /\ \E bytes \in {Torn} \cup Readable(w) : Close(w, bytes)
  /\ Fail(w, "target_unavailable")
  /\ UNCHANGED <<replica, ledger, source, changes, mount, left, runtime>>

\* The server made the change and the reply, or the directory fsync after
\* it, is what failed.
ReplyLost(w) ==
  /\ Mishap
  /\ \/ /\ pc[w] \in {"unlinkOld", "drop"} /\ Partial(w) # Absent
        /\ RemovePartial(w)
        /\ Fail(w, "partial_cleanup_failed")
     \/ /\ pc[w] = "unlink" /\ Partial(w) # Absent
        /\ RemovePartial(w)
        /\ Fail(w, "target_unavailable")
     \/ /\ pc[w] = "link" /\ Partial(w) # Absent /\ Final(w) = Absent
        /\ LinkFinal(w)
        /\ Fail(w, "target_unavailable")
     \/ /\ pc[w] = "create" /\ Partial(w) = Absent /\ source[Uri(w)] # Missing
        /\ partial' = [partial EXCEPT ![mount][cur[w]] = Torn]
        /\ UNCHANGED final
        /\ Fail(w, "target_unavailable")
  /\ UNCHANGED <<replica, ledger, source, changes, mount, left, runtime>>

\* The process or its machine dies: a file it was writing stays as it was.
CrashNow(w) ==
  /\ Crash(w)
  /\ IF pc[w] = "copy"
     THEN \E bytes \in {Torn} \cup Readable(w) : Close(w, bytes)
     ELSE UNCHANGED files
  /\ UNCHANGED <<mount, left, runtime>>

Fault(w) ==
  \/ IoFault(w) \/ CopyFault(w) \/ ReplyLost(w) \/ CrashNow(w)
  \/ /\ DatabaseFault(w) \/ IdentityFault(w)
     /\ UNCHANGED nfsVars

\* Another file system appears at the target root; none comes back.
Remount(r) ==
  /\ r # mount
  /\ r \notin left
  /\ left' = left \cup {mount}
  /\ mount' = r
  /\ UNCHANGED <<coreVars, runtime, files>>

Begin(w, command) == Start(w, command) /\ UNCHANGED nfsVars

Environment ==
  \/ \E o \in Objects : FinalizeObject(o) /\ UNCHANGED nfsVars
  \/ \E u \in Uris, bytes \in Bytes \cup {Missing} :
       /\ \E o \in ledger : UriOf[o] = u
       /\ ChangeSource(u, bytes)
       /\ UNCHANGED nfsVars
  \/ \E r \in Roots : Remount(r)

Next ==
  \/ \E w \in Workers : \/ \E command \in Commands : Begin(w, command)
                        \/ Step(w)
                        \/ Fault(w)
  \/ Environment

Spec == Init /\ [][Next]_vars

\* An invocation that can go on does, and whoever operates the worker starts
\* "run" again and again, whatever else is started in between.
Fairness == \A w \in Workers : /\ WF_vars(Step(w))
                               /\ SF_vars(Begin(w, "run"))
LiveSpec == Spec /\ Fairness
-----------------------------------------------------------------------------
(* Properties.                                                             *)

\* A VERIFIED row is never a false claim: on a root that carries the target's
\* marker the final name holds exactly the expected bytes, whatever crashed,
\* failed, was remounted or ran beside it after mark_verified's checks.
VerifiedExact ==
  \A o \in Objects : Verified(o) =>
    \E r \in Marked : final[r][UriOf[o]] = Expected[o]

\* record_attempt commits first: a partial file on the target always belongs
\* to a row that says it was attempted, so recovery knows where to look.
AttemptBeforeTouch ==
  \A r \in Roots, o \in Objects : partial[r][o] # Absent => replica[o].attempted

\* A final name is created once, whole, with the bytes of an object of that
\* name, and then keeps them: "create only if absent ... never overwrite".
CreatedWholeOnce ==
  [][\A r \in Roots, u \in Uris : final'[r][u] # final[r][u] =>
       /\ final[r][u] = Absent
       /\ \E o \in Objects : UriOf[o] = u /\ final'[r][u] = Expected[o]]_final

\* Bytes found on the target are never touched, exact or not: nothing that a
\* worker did not itself create is removed, replaced or continued.
NeverOverwritten ==
  [][\A r \in Roots, u \in Uris :
       final[r][u] \in Bytes \cup {Torn} => final'[r][u] = final[r][u]]_final

\* With one worker at a time, only PENDING rows have files left over on the
\* target, so the next reconcile, which looks at no other row, finds them all.
NoStrandedPartial ==
  \A r \in Roots, o \in Objects :
    partial[r][o] # Absent => replica[o].state = "PENDING"

\* With one worker at a time, nothing is done for an object that is already
\* VERIFIED: "an exact rerun creates no new replica work".  In particular no
\* guarded UPDATE can find its row gone and end the run with a conflict.
WorksOnlyOnPending ==
  \A w \in Workers :
    pc[w] \in {"rMark", "attempt", "hash", "failing", "mark"}
             \cup CleanPoints \cup PublishPoints
      => replica[cur[w]].state = "PENDING"

\* A replica is published only on the very file system the worker bound, even
\* when another one, marked or not, appears at the target root in between.
PublishedWhereBound ==
  [][\A r \in Roots, u \in Uris :
       final[r][u] = Absent /\ final'[r][u] # Absent =>
         \E w \in Workers : pc[w] = "link" /\ runtime[w] = r]_final

\* Every source is what the ledger says, and nobody's wrong bytes hold a name.
Undisturbed ==
  \A o \in Objects :
    /\ source[UriOf[o]] = Expected[o]
    /\ final[mount][UriOf[o]] \in {Absent, Expected[o]}

\* Once nothing disturbs it any more, one worker gets every listed object
\* VERIFIED, whatever partials, rows and outcomes the bounded number of crashes,
\* failures and source changes before have left behind.
Convergence == <>[]Undisturbed => \A o \in Objects : o \in ledger ~> Verified(o)

\* What the whole component promises: with one worker and one root it behaves
\* as ReplicationContract, seen through row states and final names.
Contract == INSTANCE ReplicationContract
              WITH row <- [o \in Objects |-> replica[o].state],
                   stored <- final[CHOOSE r \in Roots : TRUE]
ContractSpec == Contract!Spec
-----------------------------------------------------------------------------
(* The inductive invariant behind VerifiedExact, for any number of workers. *)

\* Where the worker's loop variable is bound to an object.
ObjectPoints == {"recheck", "rMark", "attempt", "hash", "failing", "mark", "check"}
                  \cup CleanPoints \cup PublishPoints

Located == \A w \in Workers :
             /\ pc[w] \in ObjectPoints => cur[w] \in Objects
             /\ pc[w] = "failing" => outcome[w] \in Findings

\* No file system comes back, and what a worker bound was mounted once.
MountsOnce == /\ mount \notin left
              /\ \A w \in Workers : runtime[w] \in left \cup {mount}

\* Between seeing exact bytes and validating the identity again: the bytes are
\* there, or the root was swapped and the validation is bound to fail.
SeenExact ==
  \A w \in Workers : pc[w] \in {"recheck", "confirm"} =>
    \/ final[mount][Uri(w)] = Expected[cur[w]]
    \/ runtime[w] \in left

\* Between that validation and mark_verified's transaction.
MayMark ==
  \A w \in Workers : pc[w] \in {"rMark", "mark"} =>
    \E r \in Marked : final[r][Uri(w)] = Expected[cur[w]]

ExactInv == /\ TypeOK /\ Located /\ MountsOnce
            /\ SeenExact /\ MayMark /\ VerifiedExact
-----------------------------------------------------------------------------
(* The inductive invariant behind AttemptBeforeTouch and SchemaRespected.  *)

\* From record_attempt on the row says so, whatever others do to the row.
TriedFirst ==
  \A w \in Workers : pc[w] \in {"hash"} \cup PublishPoints => replica[cur[w]].attempted

AttemptInv == TypeOK /\ Located /\ TriedFirst /\ FreshRows /\ AttemptBeforeTouch
=============================================================================
