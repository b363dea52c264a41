---------------------------- MODULE NfsSoloProofs ----------------------------
(***************************************************************************)
(* Proofs about NfsReplication with one worker at a time: what the code    *)
(* promises of a worker alone, for any number of objects, files, failures  *)
(* and changes of sources.                                                 *)
(***************************************************************************)
EXTENDS NfsReplicationProofs

\* One worker process, and one file system at the target root.
Solo == \A v, w \in Workers : v = w
OneRoot == \A r, s \in Roots : r = s

LEMMA SoloStep ==
  ASSUME Solo, NEW w \in Workers, [Next]_vars
  PROVE  OwnStep(w) \/ (Still(w) /\ UNCHANGED <<replica, runtime, files>>)
<1>1. ASSUME NEW v \in Workers, OwnStep(v) PROVE OwnStep(w)
  <2>1. v = w
    BY DEF Solo
  <2> QED BY <1>1, <2>1
<1>2. CASE Environment \/ UNCHANGED vars
  BY <1>2 DEF Environment, FinalizeObject, Finalize, ChangeSource, Remount, coreVars,
              workerVars, nfsVars, files, vars, Still
<1> QED BY <1>1, <1>2 DEF Next, Step, OwnStep
-----------------------------------------------------------------------------
(* A worker alone works on PENDING objects.                                *)

WorkPoints == ObjectPoints \ {"check"}

\* The inductive invariant behind WorksOnlyOnPending, for worker w.
Working(w) ==
  /\ pc[w] \in WorkPoints => Pending(cur[w]) /\ cur[w] \notin todo[w]
  /\ pc[w] \notin {"vItem", "check"} => todo[w] \subseteq PendingObjects

WorkInv == TypeInv /\ \A w \in Workers : Working(w)

LEMMA WorkPointFacts ==
  /\ {"recheck", "rMark", "attempt", "hash", "failing", "mark", "clean", "inspect",
      "publish"} \subseteq WorkPoints
  /\ PublishPoints \subseteq WorkPoints
  /\ WorkPoints \cap (CoreFree \cup {"check"}) = {}
BY DEF WorkPoints, ObjectPoints, CleanPoints, PublishPoints, CoreFree

LEMMA StopWorking ==
  ASSUME WorkerTyped, NEW w \in Workers, NEW how, Stop(w, how)
  PROVE  Working(w)'
<1>1. pc'[w] = "idle" /\ todo'[w] = {}
  BY DEF WorkerTyped, Stop
<1> QED BY <1>1, WorkPointFacts DEF Working, CoreFree

LEMMA StaysWorking ==
  ASSUME WorkerTyped, NEW w \in Workers, Working(w), UNCHANGED replica,
         cur'[w] = cur[w], todo'[w] = todo[w],
         pc'[w] \in WorkPoints => pc[w] \in WorkPoints,
         pc[w] \in {"vItem", "check"} => pc'[w] \in {"vItem", "check"}
  PROVE  Working(w)'
BY DEF Working, Pending, PendingObjects

LEMMA TakenWorking ==
  ASSUME WorkerTyped, NEW w \in Workers, Working(w), UNCHANGED replica,
         NEW point, TakeFirst(w, point), point \notin {"vItem", "check"},
         pc[w] \notin {"vItem", "check"}
  PROVE  Working(w)'
<1>1. PICK o \in todo[w] : /\ cur' = [cur EXCEPT ![w] = o]
                           /\ todo' = [todo EXCEPT ![w] = @ \ {o}]
  BY DEF TakeFirst
<1>2. cur'[w] = o /\ todo'[w] = todo[w] \ {o}
  BY <1>1 DEF WorkerTyped
<1> QED BY <1>2 DEF Working, Pending, PendingObjects

\* At an adapter step the worker goes on with its object, or fails.
LEMMA AdapterKeepsWorking ==
  ASSUME NEW w \in Workers, AdapterStep(w)
  PROVE  /\ UNCHANGED replica
         /\ \/ \E point : /\ Goto(w, point)
                          /\ point \in WorkPoints => pc[w] \in WorkPoints
                          /\ pc[w] = "check" <=> point = "vItem"
                          /\ point # "check" /\ pc[w] # "vItem"
            \/ \E finding \in Findings : Fail(w, finding)
BY DEF AdapterStep, Clean, UnlinkOld, Inspect, PublishBegin, StatPartial, CreatePartial,
       Copy, Discard, Revalidate, Link, DropPartial, Reread, UnlinkPartial, ReadBack,
       Confirm, Check, steady, frame, WorkPoints, ObjectPoints, CleanPoints, PublishPoints,
       Findings

LEMMA FailWorking ==
  ASSUME WorkerTyped, NEW w \in Workers, Working(w), UNCHANGED replica, NEW finding,
         Fail(w, finding)
  PROVE  Working(w)'
<1>1. CASE Stop(w, finding)
  BY <1>1, StopWorking
<1>2. CASE Raise(w, finding) /\ pc[w] \in PublishPoints
  <2>1. pc'[w] = "failing" /\ cur'[w] = cur[w] /\ todo'[w] = todo[w]
    BY <1>2 DEF Raise, WorkerTyped
  <2> QED BY <1>2, <2>1, WorkPointFacts, StaysWorking DEF PublishPoints
<1> QED BY <1>1, <1>2 DEF Fail

LEMMA CoreWorking ==
  ASSUME TypeInv, NEW w \in Workers, Working(w), CoreStep(w)
  PROVE  Working(w)'
<1>1. WorkerTyped /\ DataTyped
  BY DEF TypeInv
<1> USE <1>1, WorkPointFacts
<1>2. ASSUME NEW point, Goto(w, point), UNCHANGED replica,
             point \in WorkPoints => pc[w] \in WorkPoints, pc[w] \notin {"vItem", "check"},
             point \notin {"vItem", "check"}
      PROVE  Working(w)'
  <2>1. pc'[w] = point /\ cur'[w] = cur[w] /\ todo'[w] = todo[w]
    BY <1>2 DEF Goto, WorkerTyped
  <2> QED BY <1>2, <2>1, StaysWorking
<1>3. CASE ReconcileItem(w, IdentityHolds(w)) \/ RunItem(w, IdentityHolds(w))
  BY <1>2, <1>3, StopWorking, TakenWorking DEF ReconcileItem, RunItem, frame, CoreFree
<1>4. CASE ReconcileRecheck(w, IdentityHolds(w))
  BY <1>2, <1>4, StopWorking DEF ReconcileRecheck, frame
<1>5. CASE MarkVerified(w)
  <2>1. CASE \E how : Stop(w, how)
    BY <2>1, StopWorking
  <2>2. CASE VerifyRow(cur[w]) /\ Goto(w, IF pc[w] = "mark" THEN "item" ELSE "rItem")
    <3>1. /\ pc'[w] \in {"item", "rItem"} /\ todo'[w] = todo[w]
          /\ cur[w] \notin todo[w] /\ todo[w] \subseteq PendingObjects
      BY <1>5, <2>2 DEF MarkVerified, Goto, WorkerTyped, Working
    <3>2. \A o \in todo[w] : replica'[o] = replica[o]
      BY <2>2, <3>1 DEF VerifyRow, DataTyped, WorkerTyped
    <3> QED BY <3>1, <3>2 DEF Working, Pending, PendingObjects, CoreFree
  <2> QED BY <1>5, <2>1, <2>2 DEF MarkVerified
<1>6. CASE Discover(w)
  <2>1. CASE \E how : Stop(w, how)
    BY <2>1, StopWorking
  <2>2. CASE pc' = [pc EXCEPT ![w] = "register"] /\ UNCHANGED <<cmd, todo, cur, outcome>>
    <3>1. pc'[w] = "register"
      BY <2>2 DEF WorkerTyped
    <3> QED BY <1>6, <2>2, <3>1, StaysWorking DEF Discover, frame, CoreFree
  <2> QED BY <1>6, <2>1, <2>2 DEF Discover
<1>7. CASE Register(w)
  <2>1. pc[w] = "register" /\ pc'[w] = "pending" /\ todo'[w] = todo[w]
    BY <1>7 DEF Register, Goto, WorkerTyped
  <2>2. \A o \in Objects : Pending(o) => Pending(o)'
    BY <1>7 DEF Register, RegisterRows, Pending, DataTyped, Rows
  <2> QED BY <2>1, <2>2 DEF Working, PendingObjects, CoreFree
<1>12. CASE LoadPending(w)
  <2>1. pc'[w] = "item" /\ todo'[w] = PendingObjects'
    BY <1>12 DEF LoadPending, WorkerTyped, frame, PendingObjects, Pending
  <2> QED BY <2>1 DEF Working, CoreFree
<1>8. CASE RecordAttempt(w)
  <2>1. CASE \E how : Stop(w, how)
    BY <2>1, StopWorking
  <2>2. CASE AttemptRow(cur[w]) /\ Goto(w, "hash")
    <3>1. pc'[w] = "hash" /\ cur'[w] = cur[w] /\ todo'[w] = todo[w] /\ pc[w] = "attempt"
      BY <1>8, <2>2 DEF RecordAttempt, Goto, WorkerTyped
    <3>2. \A o \in Objects : replica'[o].state = replica[o].state
      BY <2>2 DEF AttemptRow, DataTyped, Rows
    <3>3. cur[w] \in Objects
      BY <3>1 DEF WorkerTyped, Located, ObjectPoints
    <3> QED BY <3>1, <3>2, <3>3 DEF Working, Pending, PendingObjects
  <2> QED BY <1>8, <2>1, <2>2 DEF RecordAttempt
<1>9. CASE HashSource(w)
  <2>1. CASE \E finding : Raise(w, finding)
    <3>1. pc'[w] = "failing" /\ cur'[w] = cur[w] /\ todo'[w] = todo[w] /\ pc[w] = "hash"
          /\ UNCHANGED replica
      BY <1>9, <2>1 DEF HashSource, Raise, WorkerTyped, frame
    <3> QED BY <3>1, StaysWorking
  <2> QED BY <1>2, <1>9, <2>1 DEF HashSource, frame
<1>10. CASE RecordFailure(w)
  BY <1>10, StopWorking DEF RecordFailure
<1>11. CASE VerifyItem(w, IdentityHolds(w))
  <2>1. CASE TakeFirst(w, "check")
    <3>1. pc'[w] = "check"
      BY <2>1 DEF TakeFirst, WorkerTyped
    <3> QED BY <3>1 DEF Working
  <2> QED BY <1>11, <2>1, StopWorking DEF VerifyItem
<1> QED
  BY <1>3, <1>4, <1>5, <1>6, <1>7, <1>8, <1>9, <1>10, <1>11, <1>12 DEF CoreStep

LEMMA WorkingStep ==
  ASSUME Solo, TypeInv, NEW w \in Workers, Working(w), [Next]_vars
  PROVE  Working(w)'
<1>1. WorkerTyped
  BY DEF TypeInv
<1>2. CASE Still(w) /\ UNCHANGED replica
  BY <1>1, <1>2, StaysWorking DEF Still
<1>3. CASE Bind(w)
  <2>1. CASE \E how : Stop(w, how)
    BY <1>1, <2>1, StopWorking
  <2>2. CASE /\ UNCHANGED replica
             /\ \/ pc'[w] = "rItem" /\ todo'[w] = PendingObjects
                \/ pc'[w] = "discover" /\ todo'[w] = {}
                \/ pc'[w] = "vItem"
    BY <2>2, WorkPointFacts DEF Working, CoreFree, PendingObjects, Pending
  <2> QED
    BY <1>1, <1>3, <2>1, <2>2
       DEF Bind, ReconcileLoad, RunLoad, VerifyLoad, LoadAll, frame, WorkerTyped
<1>4. CASE CoreStep(w)
  BY <1>4, CoreWorking
<1>5. CASE AdapterStep(w)
  <2>1. CASE \E finding \in Findings : Fail(w, finding)
    BY <1>1, <1>5, <2>1, AdapterKeepsWorking, FailWorking
  <2>2. ASSUME NEW point, Goto(w, point), point \in WorkPoints => pc[w] \in WorkPoints,
               pc[w] = "check" <=> point = "vItem", point # "check", pc[w] # "vItem"
        PROVE  Working(w)'
    <3>1. pc'[w] = point /\ cur'[w] = cur[w] /\ todo'[w] = todo[w]
      BY <1>1, <2>2 DEF Goto, WorkerTyped
    <3> QED BY <1>1, <1>5, <2>2, <3>1, AdapterKeepsWorking, StaysWorking
  <2> QED BY <1>5, <2>1, <2>2, AdapterKeepsWorking
<1>6. CASE Fault(w)
  <2>1. UNCHANGED replica
    BY <1>6 DEF Fault, IoFault, CopyFault, ReplyLost, CrashNow, Crash, DatabaseFault,
                IdentityFault
  <2> QED BY <1>1, <1>6, <2>1, FaultEnds, FailWorking, StopWorking
<1>7. ASSUME NEW c \in Commands, Begin(w, c) PROVE Working(w)'
  <2>1. pc'[w] \in {"vLoad", "rLoad"} /\ cur'[w] = cur[w] /\ todo'[w] = todo[w]
        /\ UNCHANGED replica /\ pc[w] = "idle"
    BY <1>1, <1>7 DEF Begin, Start, WorkerTyped, frame
  <2> QED BY <1>1, <2>1, StaysWorking, WorkPointFacts DEF CoreFree
<1> QED BY <1>2, <1>3, <1>4, <1>5, <1>6, <1>7, SoloStep DEF OwnStep

LEMMA WorkInvInductive ==
  ASSUME Solo
  PROVE  (Init => WorkInv) /\ (WorkInv /\ [Next]_vars => WorkInv')
<1>1. Init => \A w \in Workers : Working(w)
  BY WorkPointFacts DEF Init, CoreInit, Working, CoreFree
<1>2. ASSUME WorkInv, [Next]_vars PROVE \A w \in Workers : Working(w)'
  BY <1>2, WorkingStep DEF WorkInv
<1> QED BY <1>1, <1>2, InitTyped, TypeInvStep DEF WorkInv

\* A worker alone never works on an object that is already VERIFIED, and no
\* guarded UPDATE of its own finds the row gone.
THEOREM AloneWorksOnlyOnPending == ASSUME Solo PROVE Spec => []WorksOnlyOnPending
<1>1. WorkInv => WorksOnlyOnPending
  BY DEF WorkInv, Working, WorksOnlyOnPending, WorkPoints, ObjectPoints, Pending,
         CleanPoints, PublishPoints
<1> QED BY <1>1, WorkInvInductive, PTL DEF Spec
-----------------------------------------------------------------------------
(* A worker alone publishes on the file system it bound.                   *)

\* A file system that was never mounted has no partial.
Untouched ==
  \A r \in Roots, o \in Objects : r \notin left \cup {mount} => partial[r][o] = Absent

\* After the last identity check before os.link: either nothing was mounted over
\* what the worker bound, or there is no partial to link.
LinkIsBound ==
  \A w \in Workers : pc[w] = "link" =>
    mount = runtime[w] \/ partial[mount][cur[w]] = Absent

BoundInv == TypeInv /\ MountsOnce /\ Untouched /\ LinkIsBound

LEMMA UntouchedStep ==
  ASSUME TypeInv, Untouched, [Next]_vars
  PROVE  Untouched'
<1> SUFFICES ASSUME NEW r \in Roots, NEW o \in Objects, r \notin left' \cup {mount'}
             PROVE  partial'[r][o] = Absent
  BY DEF Untouched
<1>1. r \notin left \cup {mount}
  BY MountStep DEF Bind, Remount
<1>2. partial[r][o] = Absent
  BY <1>1 DEF Untouched
<1> USE DEF TypeInv, FilesTyped, MountTyped
<1>3. CASE FilesKept \/ FilesLinked
  BY <1>2, <1>3 DEF FilesKept, FilesLinked, LinkFinal, files
<1>4. CASE FilesRemoved \/ FilesCreated
  BY <1>1, <1>2, <1>4 DEF FilesRemoved, RemovePartial, FilesCreated, PlacePartial
<1>5. CASE FilesClosed
  BY <1>2, <1>5, NfsAssumption DEF FilesClosed, Close
<1> QED BY <1>3, <1>4, <1>5, FilesStep DEF TypeInv

\* The step that leads a worker to os.link.
LEMMA LinkArrives ==
  ASSUME WorkerTyped, [Next]_vars, NEW w \in Workers, OwnStep(w), pc'[w] = "link"
  PROVE  IdentityHolds(w) /\ UNCHANGED <<mount, runtime>>
<1> USE DEF WorkerTyped, Goto, Stop, Raise, Fail
<1>1. CASE Bind(w)
  BY <1>1 DEF Bind, ReconcileLoad, RunLoad, VerifyLoad, LoadAll
<1>2. CASE CoreStep(w)
  BY <1>2 DEF CoreStep, ReconcileItem, ReconcileRecheck, MarkVerified, RunItem,
              RecordAttempt, HashSource, RecordFailure, VerifyItem, Discover, Register,
              LoadPending, TakeFirst
<1>3. CASE AdapterStep(w)
  BY <1>3 DEF AdapterStep, Clean, UnlinkOld, Inspect, PublishBegin, StatPartial,
              CreatePartial, Copy, Discard, Revalidate, Link, DropPartial, Reread,
              UnlinkPartial, ReadBack, Confirm, Check, steady
<1>4. CASE Fault(w)
  BY <1>4, FaultMoves
<1>5. ASSUME NEW c \in Commands, Begin(w, c) PROVE FALSE
  BY <1>5 DEF Begin, Start
<1> QED BY <1>1, <1>2, <1>3, <1>4, <1>5 DEF OwnStep

LEMMA LinkIsBoundStep ==
  ASSUME Solo, BoundInv, [Next]_vars
  PROVE  LinkIsBound'
<1>0. WorkerTyped /\ FilesTyped /\ MountTyped
  BY DEF BoundInv, TypeInv
<1> SUFFICES ASSUME NEW w \in Workers, pc'[w] = "link"
             PROVE  mount' = runtime'[w] \/ partial'[mount'][cur'[w]] = Absent
  BY DEF LinkIsBound
<1>1. CASE OwnStep(w)
  BY <1>0, <1>1, LinkArrives DEF IdentityHolds
<1>2. CASE Still(w) /\ UNCHANGED <<replica, runtime, files>>
  <2>1. pc[w] = "link" /\ cur'[w] = cur[w] /\ cur[w] \in Objects
    BY <1>0, <1>2, AtPoint DEF Still, ObjectPoints, PublishPoints
  <2>2. mount = runtime[w] \/ partial[mount][cur[w]] = Absent
    BY <2>1 DEF BoundInv, LinkIsBound
  <2>3. CASE mount' = mount
    BY <1>2, <2>1, <2>2, <2>3 DEF files
  <2>4. ASSUME NEW r \in Roots, Remount(r) PROVE partial'[mount'][cur'[w]] = Absent
    BY <1>2, <2>1, <2>4 DEF Remount, BoundInv, Untouched, files
  <2> QED BY <2>3, <2>4, MountStep
<1> QED BY <1>1, <1>2, SoloStep

\* Between a worker's checks the file system at the target root may be replaced:
\* nothing is ever published on one that the worker did not bind.
THEOREM AlonePublishesWhereBound == ASSUME Solo PROVE Spec => PublishedWhereBound
<1>1. Init => BoundInv
  <2> SUFFICES ASSUME Init PROVE MountsOnce /\ Untouched /\ LinkIsBound
    BY InitTyped DEF BoundInv
  <2> QED BY DEF Init, CoreInit, MountsOnce, Untouched, LinkIsBound
<1>2. BoundInv /\ [Next]_vars => BoundInv'
  BY TypeInvStep, MountsOnceStep, UntouchedStep, LinkIsBoundStep DEF BoundInv
<1>3. BoundInv /\ [Next]_vars =>
        [\A r \in Roots, u \in Uris : final[r][u] = Absent /\ final'[r][u] # Absent =>
           \E w \in Workers : pc[w] = "link" /\ runtime[w] = r]_final
  <2> SUFFICES ASSUME BoundInv, [Next]_vars, NEW r \in Roots, NEW u \in Uris,
                      final[r][u] = Absent, final'[r][u] # Absent
               PROVE  \E w \in Workers : pc[w] = "link" /\ runtime[w] = r
    OBVIOUS
  <2> USE DEF BoundInv, TypeInv, FilesTyped, MountTyped
  <2>1. CASE FilesKept \/ FilesRemoved \/ FilesCreated
    BY <2>1 DEF FilesKept, FilesRemoved, RemovePartial, FilesCreated, PlacePartial, files
  <2>2. CASE FilesClosed
    BY <2>2, NfsAssumption DEF FilesClosed, Close
  <2>3. CASE FilesLinked
    <3>1. PICK w \in Workers : pc[w] = "link" /\ Partial(w) # Absent /\ LinkFinal(w)
      BY <2>3 DEF FilesLinked
    <3>2. mount = runtime[w]
      BY <3>1 DEF LinkIsBound, Partial
    <3>3. r = mount
      BY <3>1 DEF LinkFinal
    <3> QED BY <3>1, <3>2, <3>3
  <2> QED BY <2>1, <2>2, <2>3, FilesStep
<1> QED BY <1>1, <1>2, <1>3, PTL DEF Spec, PublishedWhereBound
-----------------------------------------------------------------------------
(* Where the partials of a worker alone can be, on one file system.        *)

Resting == {"idle", "rLoad", "vLoad", "vItem", "check"}
Cleaning == {"clean", "unlinkOld"}
Cleaned == {"rItem", "inspect", "recheck", "rMark"}
Holding == {"copy", "discard", "revalidate", "link", "drop", "unlink", "failing"}

\* Reconcile removes the partials of all PENDING rows one by one; after it a run
\* leaves at most the partial of the object it works on.
Leftover(w, o) ==
  \/ pc[w] \in Resting /\ Pending(o)
  \/ pc[w] \in Cleaning \cup Cleaned /\ o \in todo[w]
  \/ pc[w] \in Cleaning \cup Holding /\ o = cur[w]

\* The inductive invariant behind NoStrandedPartial and CreatedWholeOnce.
FilesAt(w) ==
  /\ \A o \in Objects : partial[mount][o] # Absent => Leftover(w, o)
  /\ \A o \in Objects : partial[mount][o] \in Workers => pc[w] = "copy"
  /\ \A u \in Uris : final[mount][u] \notin Workers
  /\ pc[w] = "copy" => partial[mount][cur[w]] = w
  /\ pc[w] \in {"revalidate", "link"} => partial[mount][cur[w]] = Expected[cur[w]]

SoloInv == WorkInv /\ \A w \in Workers : FilesAt(w)

LEMMA LeftoverPending ==
  ASSUME TypeInv, NEW w \in Workers, Working(w), NEW o \in Objects, Leftover(w, o)
  PROVE  Pending(o)
BY DEF Leftover, Working, Resting, Cleaning, Cleaned, Holding, WorkPoints, ObjectPoints,
       CleanPoints, PublishPoints, PendingObjects

\* A worker that ends leaves partials of PENDING rows only.
LEMMA StopFiles ==
  ASSUME TypeInv, NEW w \in Workers, Working(w), FilesAt(w), NEW how, Stop(w, how),
         mount' = mount,
         \A o \in Objects : Pending(o) => Pending(o)',
         \A o \in Objects : /\ partial'[mount][o] # Absent => partial[mount][o] # Absent
                            /\ partial'[mount][o] \notin Workers,
         \A u \in Uris : final'[mount][u] \notin Workers
  PROVE  FilesAt(w)'
<1>1. pc'[w] = "idle"
  BY DEF Stop, TypeInv, WorkerTyped
<1>2. ASSUME NEW o \in Objects, partial'[mount][o] # Absent PROVE Pending(o)'
  BY <1>2, LeftoverPending DEF FilesAt
<1> QED BY <1>1, <1>2 DEF FilesAt, Leftover, Resting, Pending

\* A worker that goes on and touches no file.
LEMMA MovedFiles ==
  ASSUME NEW w \in Workers, FilesAt(w), mount' = mount, UNCHANGED files,
         pc[w] # "copy", pc'[w] \notin {"copy", "revalidate"},
         pc'[w] = "link" => pc[w] = "revalidate" /\ cur'[w] = cur[w],
         \A o \in Objects : Leftover(w, o) => Leftover(w, o)'
  PROVE  FilesAt(w)'
BY DEF FilesAt, files

LEMMA RaisedFiles ==
  ASSUME TypeInv, NEW w \in Workers, FilesAt(w), NEW finding, Raise(w, finding),
         pc[w] \in PublishPoints, mount' = mount,
         \A o \in Objects : /\ partial'[mount][o] # Absent =>
                                 partial[mount][o] # Absent \/ o = cur[w]
                            /\ partial'[mount][o] \notin Workers,
         \A u \in Uris : final'[mount][u] \notin Workers
  PROVE  FilesAt(w)'
<1>1. pc'[w] = "failing" /\ cur'[w] = cur[w]
  BY DEF Raise, TypeInv, WorkerTyped
<1>2. ASSUME NEW o \in Objects, partial[mount][o] # Absent PROVE o = cur[w]
  BY <1>2 DEF FilesAt, Leftover, Resting, Cleaning, Cleaned, PublishPoints
<1>3. ASSUME NEW o \in Objects, partial'[mount][o] # Absent PROVE o = cur[w]
  BY <1>2, <1>3
<1> QED BY <1>1, <1>3 DEF FilesAt, Leftover, Holding

\* Fail, at a step after which no file is open and no partial is new.
LEMMA FailFiles ==
  ASSUME TypeInv, NEW w \in Workers, Working(w), FilesAt(w), NEW finding, Fail(w, finding),
         mount' = mount, UNCHANGED replica,
         \A o \in Objects : /\ partial'[mount][o] # Absent => partial[mount][o] # Absent
                            /\ partial'[mount][o] \notin Workers,
         \A u \in Uris : final'[mount][u] \notin Workers
  PROVE  FilesAt(w)'
<1>1. CASE Raise(w, finding) /\ pc[w] \in PublishPoints
  BY <1>1, RaisedFiles
<1>2. CASE Stop(w, finding)
  BY <1>2, StopFiles DEF Pending
<1> QED BY <1>1, <1>2 DEF Fail

\* What removing, linking and closing do to the names of one file system.
LEMMA RemovedNames ==
  ASSUME TypeInv, NEW w \in Workers, RemovePartial(w), cur[w] \in Objects
  PROVE  /\ \A o \in Objects :
              partial'[mount][o] = IF o = cur[w] THEN Absent ELSE partial[mount][o]
         /\ final' = final
BY DEF TypeInv, FilesTyped, MountTyped, RemovePartial

LEMMA ClosedNames ==
  ASSUME TypeInv, NEW w \in Workers, NEW bytes, Close(w, bytes)
  PROVE  /\ \A o \in Objects :
              partial'[mount][o] = IF partial[mount][o] = w THEN bytes ELSE partial[mount][o]
         /\ \A u \in Uris :
              final'[mount][u] = IF final[mount][u] = w THEN bytes ELSE final[mount][u]
BY DEF TypeInv, FilesTyped, MountTyped, Close

LEMMA LinkedNames ==
  ASSUME TypeInv, NEW w \in Workers, LinkFinal(w), Uri(w) \in Uris
  PROVE  /\ partial' = partial
         /\ \A u \in Uris :
              final'[mount][u] = IF u = Uri(w) THEN Partial(w) ELSE final[mount][u]
BY DEF TypeInv, FilesTyped, MountTyped, LinkFinal

LEMMA AdapterFiles ==
  ASSUME TypeInv, Solo, NEW w \in Workers, Working(w), FilesAt(w), AdapterStep(w)
  PROVE  FilesAt(w)'
<1>1. WorkerTyped /\ mount \in Roots /\ cur[w] \in Objects /\ Uri(w) \in Uris
  BY AdapterMoves, AtPoint DEF TypeInv, MountTyped
<1>2. mount' = mount /\ UNCHANGED replica
  BY DEF AdapterStep, Clean, UnlinkOld, Inspect, PublishBegin, StatPartial, CreatePartial,
         Copy, Discard, Revalidate, Link, DropPartial, Reread, UnlinkPartial, ReadBack,
         Confirm, Check, steady, frame
<1>3. Absent \notin Workers
  BY NfsAssumption
<1>4. ASSUME pc[w] # "copy", UNCHANGED files, \E finding \in Findings : Fail(w, finding)
      PROVE  FilesAt(w)'
  BY <1>2, <1>4, FailFiles DEF FilesAt, files
<1>5. ASSUME NEW point, Goto(w, point)
      PROVE  pc'[w] = point /\ cur'[w] = cur[w] /\ todo'[w] = todo[w]
  BY <1>1, <1>5 DEF Goto, WorkerTyped
<1> USE DEF Findings
<1>6. CASE Clean(w)
  <2>1. CASE Partial(w) = Absent
    <3>1. pc[w] = "clean" /\ pc'[w] = "inspect" /\ cur'[w] = cur[w] /\ todo'[w] = todo[w]
          /\ UNCHANGED files
      BY <1>5, <1>6, <2>1 DEF Clean
    <3> QED BY <1>2, <2>1, <3>1 DEF FilesAt, Leftover, Partial, Resting, Cleaning, Cleaned,
                                    Holding, files
  <2>2. CASE Partial(w) # Absent
    <3>1. pc[w] = "clean" /\ pc'[w] = "unlinkOld" /\ cur'[w] = cur[w] /\ todo'[w] = todo[w]
          /\ UNCHANGED files
      BY <1>5, <1>6, <2>2 DEF Clean
    <3> QED BY <1>2, <2>2, <3>1, MovedFiles DEF Leftover, Resting, Cleaning, Cleaned, Holding
  <2> QED BY <2>1, <2>2
<1>7. CASE UnlinkOld(w)
  <2>1. CASE RemovePartial(w) /\ Goto(w, "inspect")
    <3>1. pc[w] = "unlinkOld" /\ pc'[w] = "inspect" /\ cur'[w] = cur[w] /\ todo'[w] = todo[w]
      BY <1>5, <1>7, <2>1 DEF UnlinkOld
    <3> QED BY <1>1, <1>2, <1>3, <2>1, <3>1, RemovedNames
            DEF FilesAt, Leftover, Resting, Cleaning, Cleaned, Holding
  <2> QED BY <1>4, <1>7, <2>1 DEF UnlinkOld
<1>8. CASE Inspect(w)
  <2>1. ASSUME NEW point \in {"rItem", "recheck"}, Goto(w, point), UNCHANGED files
        PROVE  FilesAt(w)'
    <3>1. pc[w] = "inspect" /\ pc'[w] = point /\ cur'[w] = cur[w] /\ todo'[w] = todo[w]
      BY <1>5, <1>8, <2>1 DEF Inspect
    <3> QED BY <1>2, <2>1, <3>1, MovedFiles DEF Leftover, Resting, Cleaning, Cleaned, Holding
  <2> QED BY <1>4, <1>8, <2>1 DEF Inspect
<1>9. CASE PublishBegin(w) \/ StatPartial(w) \/ Reread(w) \/ ReadBack(w) \/ Confirm(w)
  <2>1. ASSUME NEW point \in {"stat", "create", "confirm", "mark"}, Goto(w, point),
               pc[w] \in {"publish", "stat", "reread", "readback", "confirm"}, UNCHANGED files
        PROVE  FilesAt(w)'
    <3>1. pc'[w] = point /\ cur'[w] = cur[w] /\ todo'[w] = todo[w]
      BY <1>5, <2>1
    <3> QED BY <1>2, <2>1, <3>1, MovedFiles DEF Leftover, Resting, Cleaning, Cleaned, Holding
  <2> QED BY <1>4, <1>9, <2>1 DEF PublishBegin, StatPartial, Reread, ReadBack, Confirm
<1>10. CASE CreatePartial(w)
  <2>1. CASE partial' = [partial EXCEPT ![mount][cur[w]] = w] /\ UNCHANGED final
             /\ Goto(w, "copy")
    <3>1. pc[w] = "create" /\ pc'[w] = "copy" /\ cur'[w] = cur[w] /\ todo'[w] = todo[w]
      BY <1>5, <1>10, <2>1 DEF CreatePartial
    <3>2. \A o \in Objects :
            partial'[mount][o] = IF o = cur[w] THEN w ELSE partial[mount][o]
      BY <1>1, <2>1 DEF TypeInv, FilesTyped
    <3> QED BY <1>1, <1>2, <2>1, <3>1, <3>2
            DEF FilesAt, Leftover, Resting, Cleaning, Cleaned, Holding
  <2> QED BY <1>4, <1>10, <2>1 DEF CreatePartial
<1>11. CASE Copy(w)
  <2>1. PICK bytes \in Readable(w) :
           Close(w, bytes) /\ Goto(w, IF Exact(w, bytes) THEN "revalidate" ELSE "discard")
    BY <1>11 DEF Copy
  <2>2. /\ pc[w] = "copy" /\ cur'[w] = cur[w] /\ todo'[w] = todo[w]
        /\ pc'[w] \in {"revalidate", "discard"}
        /\ pc'[w] = "revalidate" => bytes = Expected[cur[w]]
    BY <1>5, <1>11, <2>1 DEF Copy, Exact
  <2>3. bytes \notin Workers /\ bytes # Absent
    BY <2>2, ReadableBytes, NfsAssumption DEF TypeInv
  <2>4. ASSUME NEW o \in Objects, partial[mount][o] \in Workers PROVE partial[mount][o] = w
    BY <2>4 DEF Solo
  <2>5. \A o \in Objects : partial'[mount][o] # Absent => o = cur[w]
    <3>1. \A o \in Objects : partial[mount][o] # Absent => o = cur[w]
      BY <2>2 DEF FilesAt, Leftover, Resting, Cleaning, Cleaned
    <3> QED BY <2>1, <3>1, <1>3, ClosedNames
  <2>6. /\ partial'[mount][cur[w]] = bytes
        /\ \A o \in Objects : partial'[mount][o] \notin Workers
    BY <1>1, <2>1, <2>2, <2>3, <2>4, ClosedNames DEF FilesAt
  <2>7. \A u \in Uris : final'[mount][u] \notin Workers
    BY <2>1, <2>3, ClosedNames DEF FilesAt
  <2>8. \A o \in Objects : partial'[mount][o] # Absent => Leftover(w, o)'
    BY <2>2, <2>5 DEF Leftover, Holding
  <2> QED BY <1>2, <2>2, <2>6, <2>7, <2>8 DEF FilesAt
<1>12. CASE Discard(w)
  <2>1. RemovePartial(w) /\ Fail(w, "local_source_corrupt") /\ pc[w] = "discard"
    BY <1>12 DEF Discard
  <2> QED BY <1>1, <1>2, <1>3, <2>1, RemovedNames, FailFiles DEF FilesAt
<1>13. CASE Revalidate(w)
  <2>1. CASE Goto(w, "link")
    <3>1. pc[w] = "revalidate" /\ pc'[w] = "link" /\ cur'[w] = cur[w] /\ todo'[w] = todo[w]
          /\ UNCHANGED files
      BY <1>5, <1>13, <2>1 DEF Revalidate
    <3> QED BY <1>2, <3>1, MovedFiles DEF Leftover, Resting, Cleaning, Cleaned, Holding
  <2> QED BY <1>4, <1>13, <2>1 DEF Revalidate
<1>14. CASE Link(w)
  <2>1. CASE Goto(w, "drop") /\ UNCHANGED files
    <3>1. pc[w] = "link" /\ pc'[w] = "drop" /\ cur'[w] = cur[w] /\ todo'[w] = todo[w]
      BY <1>5, <1>14, <2>1 DEF Link
    <3> QED BY <1>2, <2>1, <3>1, MovedFiles DEF Leftover, Resting, Cleaning, Cleaned, Holding
  <2>2. CASE Goto(w, "unlink") /\ LinkFinal(w)
    <3>1. pc[w] = "link" /\ pc'[w] = "unlink" /\ cur'[w] = cur[w] /\ todo'[w] = todo[w]
      BY <1>5, <1>14, <2>2 DEF Link
    <3>2. Partial(w) \notin Workers
      BY <1>1, <3>1 DEF FilesAt, Partial
    <3> QED BY <1>1, <1>2, <2>2, <3>1, <3>2, LinkedNames
            DEF FilesAt, Leftover, Resting, Cleaning, Cleaned, Holding
  <2> QED BY <1>4, <1>14, <2>1, <2>2 DEF Link
<1>15. CASE DropPartial(w) \/ UnlinkPartial(w)
  <2>1. ASSUME NEW point \in {"reread", "readback"}, RemovePartial(w), Goto(w, point),
               pc[w] \in {"drop", "unlink"}
        PROVE  FilesAt(w)'
    <3>1. pc'[w] = point /\ cur'[w] = cur[w] /\ todo'[w] = todo[w]
      BY <1>5, <2>1
    <3> QED BY <1>1, <1>2, <1>3, <2>1, <3>1, RemovedNames
            DEF FilesAt, Leftover, Resting, Cleaning, Cleaned, Holding
  <2> QED BY <1>4, <1>15, <2>1 DEF DropPartial, UnlinkPartial
<1>16. CASE Check(w)
  <2>1. CASE Goto(w, "vItem")
    <3>1. pc[w] = "check" /\ pc'[w] = "vItem" /\ cur'[w] = cur[w] /\ todo'[w] = todo[w]
          /\ UNCHANGED files
      BY <1>5, <1>16, <2>1 DEF Check
    <3> QED BY <1>2, <3>1, MovedFiles
            DEF Leftover, Resting, Cleaning, Cleaned, Holding, Pending
  <2> QED BY <1>4, <1>16, <2>1 DEF Check
<1> QED
  BY <1>6, <1>7, <1>8, <1>9, <1>10, <1>11, <1>12, <1>13, <1>14, <1>15, <1>16
     DEF AdapterStep

LEMMA BindFiles ==
  ASSUME TypeInv, NEW w \in Workers, Working(w), FilesAt(w), Bind(w)
  PROVE  FilesAt(w)'
<1>1. WorkerTyped /\ mount' = mount /\ UNCHANGED <<files, replica>> /\ pc[w] # "copy"
  BY DEF Bind, TypeInv, frame, ReconcileLoad, RunLoad, VerifyLoad
<1>2. CASE \E how : Stop(w, how)
  BY <1>1, <1>2, StopFiles DEF FilesAt, files, Pending
<1>3. CASE /\ pc[w] \in {"rLoad", "vLoad", "load"}
           /\ pc'[w] = CASE pc[w] = "rLoad" -> "rItem" [] pc[w] = "vLoad" -> "vItem"
                         [] OTHER -> "discover"
           /\ pc[w] = "rLoad" => todo'[w] = PendingObjects
  <2>1. \A o \in Objects : Leftover(w, o) => Leftover(w, o)'
    BY <1>1, <1>3 DEF Leftover, Resting, Cleaning, Cleaned, Holding, Pending, PendingObjects
  <2> QED BY <1>1, <1>3, <2>1, MovedFiles
<1> QED
  BY <1>1, <1>2, <1>3 DEF Bind, ReconcileLoad, RunLoad, VerifyLoad, LoadAll, WorkerTyped

LEMMA CoreFiles ==
  ASSUME TypeInv, NEW w \in Workers, Working(w), FilesAt(w), CoreStep(w)
  PROVE  FilesAt(w)'
<1>1. WorkerTyped /\ mount' = mount /\ UNCHANGED files
  BY DEF CoreStep, nfsVars, TypeInv, files
<1>2. pc[w] # "copy"
  BY DEF CoreStep, ReconcileItem, ReconcileRecheck, MarkVerified, Discover, Register,
         LoadPending, RunItem, RecordAttempt, HashSource, RecordFailure, VerifyItem
<1> USE <1>1, <1>2
<1>3. ASSUME NEW how, Stop(w, how), UNCHANGED replica PROVE FilesAt(w)'
  BY <1>3, StopFiles DEF FilesAt, files, Pending
\* Between reconcile and the creation of a partial there is none.
<1>4. ASSUME pc[w] \notin Resting \cup Cleaning \cup Cleaned \cup Holding,
             pc'[w] \notin {"copy", "revalidate", "link"}
      PROVE  FilesAt(w)'
  BY <1>4, MovedFiles DEF Leftover
<1>5. CASE ReconcileItem(w, IdentityHolds(w))
  <2>1. CASE Goto(w, "load") /\ todo[w] = {}
    <3>1. pc[w] = "rItem" /\ pc'[w] = "load"
      BY <1>5, <2>1 DEF ReconcileItem, Goto, WorkerTyped
    <3> QED BY <2>1, <3>1, MovedFiles DEF Leftover, Resting, Cleaning, Cleaned, Holding
  <2>2. CASE TakeFirst(w, "clean")
    <3>1. PICK p \in todo[w] : /\ cur' = [cur EXCEPT ![w] = p]
                               /\ todo' = [todo EXCEPT ![w] = @ \ {p}]
                               /\ pc' = [pc EXCEPT ![w] = "clean"]
      BY <2>2 DEF TakeFirst
    <3>2. cur'[w] = p /\ todo'[w] = todo[w] \ {p} /\ pc'[w] = "clean" /\ pc[w] = "rItem"
      BY <1>5, <3>1 DEF WorkerTyped, ReconcileItem
    <3> QED BY <3>2, MovedFiles DEF Leftover, Resting, Cleaning, Cleaned, Holding
  <2> QED BY <1>3, <1>5, <2>1, <2>2 DEF ReconcileItem, frame
<1>6. CASE ReconcileRecheck(w, IdentityHolds(w))
  <2>1. CASE Goto(w, "rMark")
    <3>1. pc[w] = "recheck" /\ pc'[w] = "rMark" /\ todo'[w] = todo[w]
      BY <1>6, <2>1 DEF ReconcileRecheck, Goto, WorkerTyped
    <3> QED BY <3>1, MovedFiles DEF Leftover, Resting, Cleaning, Cleaned, Holding
  <2> QED BY <1>3, <1>6, <2>1 DEF ReconcileRecheck, frame
<1>7. CASE MarkVerified(w)
  <2>1. CASE Goto(w, IF pc[w] = "mark" THEN "item" ELSE "rItem")
    <3>1. /\ pc[w] \in {"rMark", "mark"} /\ todo'[w] = todo[w]
          /\ pc'[w] = IF pc[w] = "mark" THEN "item" ELSE "rItem"
      BY <1>7, <2>1 DEF MarkVerified, Goto, WorkerTyped
    <3> QED BY <3>1, MovedFiles DEF Leftover, Resting, Cleaning, Cleaned, Holding
  <2> QED BY <1>3, <1>7, <2>1 DEF MarkVerified
<1>8. CASE Discover(w) \/ Register(w) \/ LoadPending(w) \/ RunItem(w, IdentityHolds(w))
           \/ RecordAttempt(w) \/ HashSource(w)
  <2>1. pc[w] \in {"discover", "register", "pending", "item", "attempt", "hash"}
    BY <1>8 DEF Discover, Register, LoadPending, RunItem, RecordAttempt, HashSource
  <2>2. pc'[w] \in {"register", "pending", "item", "attempt", "hash", "publish", "failing",
                   "idle"}
    BY <1>8 DEF Discover, Register, LoadPending, RunItem, RecordAttempt, HashSource,
                TakeFirst, Goto, Stop, Raise, WorkerTyped
  <2> QED BY <1>4, <2>1, <2>2 DEF Resting, Cleaning, Cleaned, Holding
<1>9. CASE RecordFailure(w)
  <2>1. \A o \in Objects : Pending(o) => Pending(o)'
    BY <1>9 DEF RecordFailure, FailRow, Pending, TypeInv, DataTyped, Rows
  <2> QED BY <1>9, <2>1, StopFiles DEF RecordFailure, FilesAt, files
<1>10. CASE VerifyItem(w, IdentityHolds(w))
  <2>1. CASE TakeFirst(w, "check")
    <3>1. pc[w] = "vItem" /\ pc'[w] = "check" /\ UNCHANGED replica
      BY <1>10, <2>1 DEF VerifyItem, TakeFirst, WorkerTyped, frame
    <3> QED BY <3>1, MovedFiles DEF Leftover, Resting, Cleaning, Cleaned, Holding, Pending
  <2> QED BY <1>3, <1>10, <2>1 DEF VerifyItem, frame
<1> QED BY <1>5, <1>6, <1>7, <1>8, <1>9, <1>10 DEF CoreStep

\* A worker that dies or fails while it copies leaves bytes, or a part of them.
LEMMA ClosedFiles ==
  ASSUME TypeInv, Solo, NEW w \in Workers, FilesAt(w), pc[w] = "copy",
         NEW bytes \in {Torn} \cup Readable(w), Close(w, bytes)
  PROVE  /\ \A o \in Objects : /\ partial'[mount][o] # Absent => partial[mount][o] # Absent
                               /\ partial'[mount][o] \notin Workers
         /\ \A u \in Uris : final'[mount][u] \notin Workers
<1>1. bytes \notin Workers /\ Absent \notin Workers
  BY ReadableBytes, NfsAssumption DEF TypeInv
<1>2. ASSUME NEW o \in Objects, partial[mount][o] \in Workers PROVE partial[mount][o] = w
  BY <1>2 DEF Solo
<1>3. ASSUME NEW o \in Objects
      PROVE  /\ partial'[mount][o] # Absent => partial[mount][o] # Absent
             /\ partial'[mount][o] \notin Workers
  BY <1>1, <1>2, ClosedNames
<1>4. ASSUME NEW u \in Uris PROVE final'[mount][u] \notin Workers
  BY <1>1, ClosedNames DEF FilesAt
<1> QED BY <1>3, <1>4

LEMMA FaultFiles ==
  ASSUME TypeInv, Solo, NEW w \in Workers, Working(w), FilesAt(w), Fault(w)
  PROVE  FilesAt(w)'
<1>1. WorkerTyped /\ mount \in Roots /\ Absent \notin Workers
  BY NfsAssumption DEF TypeInv, MountTyped
<1>2. mount' = mount /\ UNCHANGED replica
  BY DEF Fault, IoFault, CopyFault, ReplyLost, CrashNow, Crash, DatabaseFault,
         IdentityFault, nfsVars
<1> USE <1>1, <1>2 DEF Findings
<1>3. ASSUME UNCHANGED files, pc[w] # "copy",
             (\E finding \in Findings : Fail(w, finding)) \/ \E how : Stop(w, how)
      PROVE  FilesAt(w)'
  BY <1>3, FailFiles, StopFiles DEF FilesAt, files, Pending
<1>4. CASE IoFault(w)
  BY <1>3, <1>4 DEF IoFault, nfsVars, files
<1>5. CASE CopyFault(w)
  BY <1>5, ClosedFiles, FailFiles DEF CopyFault
<1>6. CASE ReplyLost(w)
  <2>1. pc[w] \in ObjectPoints /\ pc[w] # "copy"
    BY <1>6 DEF ReplyLost, ObjectPoints, CleanPoints, PublishPoints
  <2>2. cur[w] \in Objects /\ Uri(w) \in Uris
    BY <2>1, AtPoint
  <2>3. CASE RemovePartial(w) /\ \E finding \in Findings : Fail(w, finding)
    <3>1. /\ \A o \in Objects : /\ partial'[mount][o] # Absent => partial[mount][o] # Absent
                                /\ partial'[mount][o] \notin Workers
          /\ \A u \in Uris : final'[mount][u] \notin Workers
      BY <2>1, <2>2, <2>3, RemovedNames DEF FilesAt
    <3> QED BY <2>3, <3>1, FailFiles
  <2>4. CASE pc[w] = "link" /\ LinkFinal(w) /\ Fail(w, "target_unavailable")
    <3>1. /\ \A o \in Objects : /\ partial'[mount][o] # Absent => partial[mount][o] # Absent
                                /\ partial'[mount][o] \notin Workers
          /\ \A u \in Uris : final'[mount][u] \notin Workers
      BY <2>1, <2>2, <2>4, LinkedNames DEF FilesAt, Partial
    <3> QED BY <2>4, <3>1, FailFiles
  <2>5. CASE /\ pc[w] = "create" /\ Fail(w, "target_unavailable")
             /\ partial' = [partial EXCEPT ![mount][cur[w]] = Torn] /\ UNCHANGED final
    <3>1. Raise(w, "target_unavailable") /\ pc[w] \in PublishPoints
      BY <2>5 DEF Fail, PublishPoints
    <3>2. \A o \in Objects :
            partial'[mount][o] = IF o = cur[w] THEN Torn ELSE partial[mount][o]
      BY <2>2, <2>5 DEF TypeInv, FilesTyped
    <3>3. \A o \in Objects : /\ partial'[mount][o] # Absent =>
                                  partial[mount][o] # Absent \/ o = cur[w]
                             /\ partial'[mount][o] \notin Workers
      BY <2>1, <3>2, NfsAssumption DEF FilesAt
    <3>4. \A u \in Uris : final'[mount][u] \notin Workers
      BY <2>5 DEF FilesAt
    <3> QED BY <3>1, <3>3, <3>4, RaisedFiles
  <2> QED BY <1>6, <2>3, <2>4, <2>5 DEF ReplyLost
<1>7. CASE CrashNow(w)
  <2>1. CASE pc[w] = "copy"
    BY <1>7, <2>1, ClosedFiles, StopFiles DEF CrashNow, Crash, Pending
  <2> QED BY <1>3, <1>7, <2>1 DEF CrashNow, Crash
<1>8. CASE (DatabaseFault(w) \/ IdentityFault(w)) /\ UNCHANGED nfsVars
  BY <1>3, <1>8 DEF DatabaseFault, IdentityFault, nfsVars, files
<1> QED BY <1>4, <1>5, <1>6, <1>7, <1>8 DEF Fault

LEMMA FilesAtStep ==
  ASSUME TypeInv, Solo, OneRoot, NEW w \in Workers, Working(w), FilesAt(w), [Next]_vars
  PROVE  FilesAt(w)'
<1>1. WorkerTyped /\ mount \in Roots
  BY DEF TypeInv, MountTyped
<1>2. mount' = mount
  BY <1>1, MountStep DEF OneRoot, Bind, Remount
<1>3. CASE Still(w) /\ UNCHANGED <<replica, runtime, files>>
  BY <1>2, <1>3 DEF Still, FilesAt, Leftover, Pending, files
<1>4. ASSUME NEW c \in Commands, Begin(w, c) PROVE FilesAt(w)'
  <2>1. /\ pc[w] = "idle" /\ pc'[w] \in {"rLoad", "vLoad"}
        /\ UNCHANGED <<replica, files>>
    BY <1>1, <1>4 DEF Begin, Start, WorkerTyped, frame, nfsVars, files
  <2> QED BY <1>2, <2>1, MovedFiles
          DEF Leftover, Resting, Cleaning, Cleaned, Holding, Pending
<1> QED
  BY <1>3, <1>4, SoloStep, BindFiles, CoreFiles, AdapterFiles, FaultFiles DEF OwnStep

LEMMA SoloInvInductive ==
  ASSUME Solo, OneRoot
  PROVE  (Init => SoloInv) /\ (SoloInv /\ [Next]_vars => SoloInv')
<1>1. ASSUME Init PROVE \A w \in Workers : FilesAt(w)
  BY <1>1, NfsAssumption DEF Init, CoreInit, FilesAt
<1>2. ASSUME SoloInv, [Next]_vars PROVE \A w \in Workers : FilesAt(w)'
  BY <1>2, FilesAtStep DEF SoloInv, WorkInv
<1> QED BY <1>1, <1>2, WorkInvInductive DEF SoloInv

\* With one file system and one worker at a time, whatever fails and whenever the
\* worker dies, no partial is left over that the next reconcile would pass over.
THEOREM AloneStrandsNothing ==
  ASSUME Solo, OneRoot, Workers # {} PROVE Spec => []NoStrandedPartial
<1>1. ASSUME SoloInv PROVE NoStrandedPartial
  <2> SUFFICES ASSUME NEW r \in Roots, NEW o \in Objects, partial[r][o] # Absent
               PROVE  replica[o].state = "PENDING"
    BY DEF NoStrandedPartial
  <2>1. PICK w \in Workers : TRUE
    OBVIOUS
  <2>2. TypeInv /\ Working(w) /\ FilesAt(w)
    BY <1>1 DEF SoloInv, WorkInv
  <2>3. r = mount
    BY <2>2 DEF OneRoot, TypeInv, MountTyped
  <2>4. Pending(o)
    BY <2>2, <2>3, LeftoverPending DEF FilesAt
  <2> QED BY <2>4 DEF Pending
<1> QED BY <1>1, SoloInvInductive, PTL DEF Spec
-----------------------------------------------------------------------------
(* A worker alone publishes whole replicas: it keeps the contract.         *)

Publishes(w) ==
  /\ pc[w] = "link" /\ Pending(cur[w]) /\ cur[w] \in Objects
  /\ Final(w) = Absent /\ Partial(w) = Expected[cur[w]]
  /\ LinkFinal(w) /\ UNCHANGED replica

\* Files and rows never change in one step.
LEMMA FilesOrRows ==
  ASSUME [Next]_vars
  PROVE  UNCHANGED files \/ UNCHANGED replica
<1>1. ASSUME NEW w \in Workers, AdapterStep(w) PROVE UNCHANGED replica
  BY <1>1 DEF AdapterStep, Clean, UnlinkOld, Inspect, PublishBegin, StatPartial,
              CreatePartial, Copy, Discard, Revalidate, Link, DropPartial, Reread,
              UnlinkPartial, ReadBack, Confirm, Check, steady, frame
<1>2. ASSUME NEW w \in Workers, Fault(w) PROVE UNCHANGED replica
  BY <1>2 DEF Fault, IoFault, CopyFault, ReplyLost, CrashNow, Crash, DatabaseFault,
              IdentityFault
<1>3. ASSUME NEW w \in Workers, NEW c \in Commands, Begin(w, c) PROVE UNCHANGED files
  BY <1>3 DEF Begin, nfsVars, files
<1>4. ASSUME NEW w \in Workers, Bind(w) \/ CoreStep(w) PROVE UNCHANGED files
  BY <1>4 DEF Bind, CoreStep, nfsVars, files
<1> QED
  BY <1>1, <1>2, <1>3, <1>4
     DEF Next, Step, Environment, Remount, vars, nfsVars, files

LEMMA SoloFinal ==
  ASSUME Solo, OneRoot, SoloInv, [Next]_vars
  PROVE  final' = final \/ \E w \in Workers : Publishes(w)
<1>1. TypeInv /\ WorkerTyped /\ DataTyped /\ FilesTyped /\ MountTyped
  BY DEF SoloInv, WorkInv, TypeInv
<1>2. CASE FilesKept \/ FilesRemoved \/ FilesCreated
  BY <1>2 DEF FilesKept, FilesRemoved, RemovePartial, FilesCreated, PlacePartial, files
<1>3. CASE FilesClosed
  <2>1. PICK w \in Workers, bytes \in {Torn} \cup Bytes : Close(w, bytes)
    BY <1>3 DEF FilesClosed
  <2>2. ASSUME NEW r \in Roots, NEW u \in Uris PROVE final[r][u] # w
    BY <1>1 DEF SoloInv, FilesAt, OneRoot, MountTyped
  <2>3. final' = [r \in Roots |-> [u \in Uris |-> final[r][u]]]
    BY <2>1, <2>2 DEF Close
  <2> QED BY <1>1, <2>3 DEF FilesTyped
<1>4. CASE FilesLinked
  <2>1. PICK w \in Workers : /\ pc[w] = "link" /\ Partial(w) # Absent /\ Final(w) = Absent
                             /\ LinkFinal(w)
    BY <1>4 DEF FilesLinked
  <2>2. cur[w] \in Objects /\ Uri(w) \in Uris /\ Pending(cur[w])
    BY <1>1, <2>1, AtPoint
       DEF SoloInv, WorkInv, Working, WorkPoints, ObjectPoints, PublishPoints
  <2>3. Partial(w) = Expected[cur[w]]
    BY <2>1 DEF SoloInv, FilesAt, Partial
  <2>4. final'[mount][Uri(w)] # final[mount][Uri(w)]
    BY <1>1, <2>1, <2>2 DEF FilesTyped, MountTyped, LinkFinal, Final
  <2>5. UNCHANGED replica
    BY <2>4, FilesOrRows DEF files
  <2> QED BY <2>1, <2>2, <2>3, <2>5 DEF Publishes
<1> QED BY <1>1, <1>2, <1>3, <1>4, FilesStep

\* A final name comes into being once, whole and with the right bytes.
THEOREM AloneCreatesWhole ==
  ASSUME Solo, OneRoot PROVE Spec => CreatedWholeOnce
<1>1. SoloInv /\ [Next]_vars =>
        [\A r \in Roots, u \in Uris : final'[r][u] # final[r][u] =>
           /\ final[r][u] = Absent
           /\ \E o \in Objects : UriOf[o] = u /\ final'[r][u] = Expected[o]]_final
  <2> SUFFICES ASSUME SoloInv, [Next]_vars, NEW r \in Roots, NEW u \in Uris,
                      final'[r][u] # final[r][u]
               PROVE  /\ final[r][u] = Absent
                      /\ \E o \in Objects : UriOf[o] = u /\ final'[r][u] = Expected[o]
    OBVIOUS
  <2>1. PICK w \in Workers : Publishes(w)
    BY SoloFinal
  <2>2. r = mount /\ u = Uri(w) /\ final'[r][u] = Partial(w)
    BY <2>1 DEF Publishes, LinkFinal, SoloInv, WorkInv, TypeInv, FilesTyped, MountTyped
  <2> QED BY <2>1, <2>2 DEF Publishes, Final, Uri
<1> QED BY <1>1, SoloInvInductive, PTL DEF Spec, CreatedWholeOnce

LEMMA RowsStep ==
  ASSUME TypeInv, [Next]_vars
  PROVE  \/ StatesKept
         \/ \E w \in Workers : pc[w] \in {"rMark", "mark"} /\ VerifyRow(cur[w])
         \/ \E S \in SUBSET Objects : RegisterRows(S)
<1>1. ASSUME UNCHANGED replica PROVE StatesKept
  BY <1>1 DEF StatesKept
<1>2. ASSUME NEW w \in Workers, CoreStep(w)
      PROVE  \/ StatesKept
             \/ pc[w] \in {"rMark", "mark"} /\ VerifyRow(cur[w])
             \/ \E S \in SUBSET Objects : RegisterRows(S)
  <2>1. found[w] \in SUBSET Objects
    BY DEF TypeInv, WorkerTyped
  <2> QED BY <1>2, <2>1, CoreStepIsMove, CoreMoveStates DEF TypeInv
<1>3. ASSUME NEW w \in Workers, Bind(w) \/ AdapterStep(w) \/ Fault(w) PROVE UNCHANGED replica
  BY <1>3 DEF Bind, ReconcileLoad, RunLoad, VerifyLoad, frame, AdapterStep, Clean,
              UnlinkOld, Inspect, PublishBegin, StatPartial, CreatePartial, Copy, Discard,
              Revalidate, Link, DropPartial, Reread, UnlinkPartial, ReadBack, Confirm,
              Check, steady, Fault, IoFault, CopyFault, ReplyLost, CrashNow, Crash,
              DatabaseFault, IdentityFault
<1>4. CASE Environment \/ UNCHANGED vars
           \/ \E w \in Workers : \E c \in Commands : Begin(w, c)
  BY <1>1, <1>4 DEF Environment, FinalizeObject, Finalize, ChangeSource, Remount, Begin,
                    Start, frame, coreVars, vars
<1> QED BY <1>1, <1>2, <1>3, <1>4 DEF Next, Step

\* The refinement: what the contract's step is for a step of the worker.
LEMMA ContractStep ==
  ASSUME Solo, OneRoot, SoloInv, ExactInv, [Next]_vars
  PROVE  [Contract!Next]_(Contract!contractVars)
<1> DEFINE row == [o \in Objects |-> replica[o].state]
           home == CHOOSE r \in Roots : TRUE
           stored == final[home]
<1>1. TypeInv /\ DataTyped /\ FilesTyped /\ WorkerTyped /\ mount \in Roots
  BY DEF SoloInv, WorkInv, TypeInv, MountTyped
<1>2. home = mount /\ stored \in [Uris -> Files]
  BY <1>1 DEF OneRoot, FilesTyped
<1>3. CASE \E w \in Workers : Publishes(w)
  <2>1. PICK w \in Workers : Publishes(w)
    BY <1>3
  <2>2. stored' = [stored EXCEPT ![UriOf[cur[w]]] = Expected[cur[w]]]
    BY <1>1, <1>2, <2>1 DEF Publishes, LinkFinal, FilesTyped, Uri
  <2>3. row' = row /\ row[cur[w]] = "PENDING" /\ stored[UriOf[cur[w]]] = Absent
        /\ cur[w] \in Objects
    BY <1>2, <2>1 DEF Publishes, Pending, Final, Uri
  <2>4. Contract!Create(cur[w])
    BY <2>2, <2>3 DEF Contract!Create
  <2> QED BY <2>3, <2>4 DEF Contract!Next
<1>4. CASE final' = final
  <2>1. stored' = stored
    BY <1>4
  <2>2. CASE StatesKept
    BY <2>1, <2>2 DEF StatesKept, Contract!contractVars
  <2>3. ASSUME NEW w \in Workers, pc[w] \in {"rMark", "mark"}, VerifyRow(cur[w])
        PROVE  Contract!Next
    <3>1. cur[w] \in Objects
      BY <1>1, <2>3, AtPoint DEF ObjectPoints
    <3>2. stored[UriOf[cur[w]]] = Expected[cur[w]]
      BY <1>1, <1>2, <2>3, NfsAssumption DEF ExactInv, MayMark, Uri, OneRoot
    <3>3. row[cur[w]] = "PENDING" /\ row' = [row EXCEPT ![cur[w]] = "VERIFIED"]
      BY <1>1, <2>3, <3>1 DEF VerifyRow, Pending, DataTyped
    <3>4. Contract!Accept(cur[w])
      BY <2>1, <3>2, <3>3 DEF Contract!Accept
    <3>5. \E o \in Objects : Contract!Accept(o)
      BY <3>1, <3>4 DEF Contract!Accept
    <3> QED BY <3>5 DEF Contract!Next
  <2>4. ASSUME NEW S \in SUBSET Objects, RegisterRows(S)
        PROVE  Contract!Next
    <3> DEFINE T == {o \in S : replica[o].state = "unregistered"}
    <3>1. row' = [o \in Objects |-> IF o \in T THEN "PENDING" ELSE row[o]]
      BY <1>1, <2>4 DEF RegisterRows, DataTyped, Rows
    <3>2. Contract!Register(T)
      BY <2>1, <3>1 DEF Contract!Register
    <3>3. \E U \in SUBSET Objects : Contract!Register(U)
      <4>1. T \in SUBSET Objects
        OBVIOUS
      <4> HIDE DEF T
      <4> QED BY <3>2, <4>1 DEF Contract!Register
    <3> QED BY <3>3 DEF Contract!Next
  <2> QED BY <1>1, <2>2, <2>3, <2>4, RowsStep
<1> QED BY <1>3, <1>4, SoloFinal

\* With one file system and one worker at a time the NFS target keeps the contract
\* of the target protocol, through every failure and crash.
THEOREM AloneKeepsContract ==
  ASSUME Solo, OneRoot PROVE Spec => ContractSpec
<1>1. ASSUME Init PROVE Contract!Init
  <2>1. (CHOOSE r \in Roots : TRUE) \in Roots
    BY NfsAssumption
  <2>2. \A r \in Roots : final[r] \in [Uris -> {Absent} \cup Preexisting]
    BY <1>1 DEF Init
  <2>3. [o \in Objects |-> replica[o].state] = [o \in Objects |-> "unregistered"]
    BY <1>1 DEF Init, CoreInit, AuthorityInit
  <2> QED BY <2>1, <2>2, <2>3 DEF Contract!Init
<1>2. SoloInv /\ ExactInv /\ [Next]_vars => [Contract!Next]_(Contract!contractVars)
  BY ContractStep
<1> QED
  BY <1>1, <1>2, SoloInvInductive, ExactInvInductive, PTL
     DEF Spec, ContractSpec, Contract!Spec
=============================================================================
