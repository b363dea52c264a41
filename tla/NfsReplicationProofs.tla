------------------------ MODULE NfsReplicationProofs ------------------------
(***************************************************************************)
(* Proofs about NfsReplication for any number of objects, workers, roots   *)
(* and faults.                                                             *)
(***************************************************************************)
EXTENDS NfsReplication, ReplicationCoreProofs

(* TypeOK and Located, split by the variables they speak about.            *)

WorkerTyped ==
  /\ pc \in [Workers -> Points]
  /\ cmd \in [Workers -> Commands]
  /\ todo \in [Workers -> SUBSET Objects]
  /\ cur \in [Workers -> Objects \cup {NoObject}]
  /\ found \in [Workers -> SUBSET Objects]
  /\ outcome \in [Workers -> Outcomes]
  /\ Located

MountTyped ==
  /\ mount \in Roots
  /\ left \subseteq Roots
  /\ runtime \in [Workers -> Roots]

FilesTyped ==
  /\ final \in [Roots -> [Uris -> Files]]
  /\ partial \in [Roots -> [Objects -> Files]]

TypeInv == WorkerTyped /\ DataTyped /\ MountTyped /\ FilesTyped

LEMMA TypeInvSplit == TypeInv <=> TypeOK /\ Located
BY DEF TypeInv, TypeOK, AuthorityTypeOK, WorkerTyped, DataTyped, MountTyped, FilesTyped

\* WorkerTyped is what ReplicationCoreProofs speaks of, at this adapter's points.
LEMMA PointsFit == Fits(Points, ObjectPoints)
BY DEF Fits, CoreFree, CoreBusy, AdapterEntries, Points, ObjectPoints, CorePoints,
       CleanPoints, PublishPoints

LEMMA WorkersAreTyped == WorkerTyped <=> WorkersTyped(Points, ObjectPoints)
BY DEF WorkerTyped, WorkersTyped, Located

LEMMA WorkersStayTyped == WorkersTyped(Points, ObjectPoints)' => WorkerTyped'
BY WorkersAreTyped, PTL

\* What a move of a worker does to its variables.
LEMMA MoveTyped ==
  ASSUME WorkerTyped, NEW w \in Workers
  PROVE  /\ \A how \in Outcomes : Stop(w, how) => WorkerTyped'
         /\ \A point \in Points \ {"failing"} :
              Goto(w, point) /\ (pc[w] \in ObjectPoints \/ point \notin ObjectPoints)
                => WorkerTyped'
         /\ \A finding \in Findings :
              Fail(w, finding) /\ pc[w] \in ObjectPoints => WorkerTyped'
<1>0. WorkersTyped(Points, ObjectPoints)
      /\ (WorkersTyped(Points, ObjectPoints)' => WorkerTyped')
  BY WorkersAreTyped, WorkersStayTyped
<1>1. ASSUME NEW how \in Outcomes, Stop(w, how) PROVE WorkerTyped'
  BY <1>0, <1>1, StopTyped, PointsFit
<1>2. ASSUME NEW point \in Points \ {"failing"}, Goto(w, point),
             pc[w] \in ObjectPoints \/ point \notin ObjectPoints
      PROVE  WorkerTyped'
  BY <1>0, <1>2, GotoTyped, PointsFit
<1>3. ASSUME NEW finding \in Findings, Fail(w, finding), pc[w] \in ObjectPoints
      PROVE  WorkerTyped'
  BY <1>0, <1>1, <1>3, RaiseTyped, PointsFit DEF Fail, Outcomes
<1> QED BY <1>1, <1>2, <1>3
-----------------------------------------------------------------------------
(* WorkerTyped is inductive.                                               *)

LEMMA AdapterWorkerTyped ==
  ASSUME WorkerTyped, NEW w \in Workers, AdapterStep(w)
  PROVE  WorkerTyped'
<1> USE MoveTyped DEF Points, CorePoints, ObjectPoints, CleanPoints, PublishPoints, Findings
<1>1. CASE Clean(w)          BY <1>1 DEF Clean
<1>2. CASE UnlinkOld(w)      BY <1>2 DEF UnlinkOld
<1>3. CASE Inspect(w)        BY <1>3 DEF Inspect
<1>4. CASE PublishBegin(w)   BY <1>4 DEF PublishBegin
<1>5. CASE StatPartial(w)    BY <1>5 DEF StatPartial
<1>6. CASE CreatePartial(w)  BY <1>6 DEF CreatePartial
<1>7. CASE Copy(w)           BY <1>7 DEF Copy
<1>8. CASE Discard(w)        BY <1>8 DEF Discard
<1>9. CASE Revalidate(w)     BY <1>9 DEF Revalidate
<1>10. CASE Link(w)          BY <1>10 DEF Link
<1>11. CASE DropPartial(w)   BY <1>11 DEF DropPartial
<1>12. CASE Reread(w)        BY <1>12 DEF Reread
<1>13. CASE UnlinkPartial(w) BY <1>13 DEF UnlinkPartial
<1>14. CASE ReadBack(w)      BY <1>14 DEF ReadBack
<1>15. CASE Confirm(w)       BY <1>15 DEF Confirm
<1>16. CASE Check(w)         BY <1>16 DEF Check
<1> QED
  BY <1>1, <1>2, <1>3, <1>4, <1>5, <1>6, <1>7, <1>8, <1>9, <1>10, <1>11, <1>12,
     <1>13, <1>14, <1>15, <1>16 DEF AdapterStep

LEMMA BindWorkerTyped ==
  ASSUME WorkerTyped, NEW w \in Workers, Bind(w)
  PROVE  WorkerTyped'
<1>1. LoadMove(w, BindHolds) /\ BindHolds \in BOOLEAN
  BY DEF Bind, LoadMove, BindHolds
<1> QED BY <1>1, LoadMoveTyped, PointsFit, WorkersAreTyped, WorkersStayTyped

\* The core's steps are those of ReplicationCoreProofs.
LEMMA CoreStepIsMove ==
  ASSUME NEW w \in Workers, CoreStep(w)
  PROVE  CoreMove(w, IdentityHolds(w)) /\ IdentityHolds(w) \in BOOLEAN
BY DEF CoreStep, CoreMove, IdentityHolds

LEMMA CoreWorkerTyped ==
  ASSUME WorkerTyped, DataTyped, NEW w \in Workers, CoreStep(w)
  PROVE  WorkerTyped'
BY CoreStepIsMove, CoreMoveTyped, PointsFit, WorkersAreTyped, WorkersStayTyped

LEMMA FaultWorkerTyped ==
  ASSUME WorkerTyped, NEW w \in Workers, Fault(w)
  PROVE  WorkerTyped'
<1> USE MoveTyped
    DEF ObjectPoints, CleanPoints, PublishPoints, Findings, Outcomes
<1>1. CASE IoFault(w)
  BY <1>1 DEF IoFault
<1>2. CASE CopyFault(w)
  BY <1>2 DEF CopyFault
<1>3. CASE ReplyLost(w)
  BY <1>3 DEF ReplyLost
<1>4. CASE CrashNow(w)
  BY <1>4 DEF CrashNow, Crash
<1>5. CASE DatabaseFault(w)
  BY <1>5 DEF DatabaseFault
<1>6. CASE IdentityFault(w)
  BY <1>6 DEF IdentityFault
<1> QED
  BY <1>1, <1>2, <1>3, <1>4, <1>5, <1>6 DEF Fault

LEMMA BeginWorkerTyped ==
  ASSUME WorkerTyped, NEW w \in Workers, NEW command \in Commands, Begin(w, command)
  PROVE  WorkerTyped'
BY StartTyped, PointsFit, WorkersAreTyped, WorkersStayTyped DEF Begin

LEMMA WorkerTypedStep ==
  ASSUME WorkerTyped, DataTyped, [Next]_vars
  PROVE  WorkerTyped'
<1>1. CASE Environment
  BY <1>1 DEF Environment, FinalizeObject, ChangeSource, Remount, coreVars, workerVars,
              WorkerTyped, Located
<1>2. CASE UNCHANGED vars
  BY <1>2 DEF vars, coreVars, workerVars, WorkerTyped, Located
<1> QED
  BY <1>1, <1>2, BindWorkerTyped, CoreWorkerTyped, AdapterWorkerTyped,
     FaultWorkerTyped, BeginWorkerTyped DEF Next, Step
-----------------------------------------------------------------------------
(* The other variables keep their types.                                   *)

\* At an object point cur is an object, and at "failing" outcome a finding.
LEMMA AtPoint ==
  ASSUME WorkerTyped, NEW w \in Workers, pc[w] \in ObjectPoints
  PROVE  cur[w] \in Objects /\ Uri(w) \in Uris
         /\ (pc[w] = "failing" => outcome[w] \in Findings)
BY AtObject, WorkersAreTyped

LEMMA CoreDataTyped ==
  ASSUME WorkerTyped, DataTyped, NEW w \in Workers, CoreStep(w)
  PROVE  DataTyped'
BY CoreStepIsMove, CoreMoveData, PointsFit, WorkersAreTyped

LEMMA DataTypedStep ==
  ASSUME WorkerTyped, DataTyped, [Next]_vars
  PROVE  DataTyped'
<1>1. ASSUME NEW w \in Workers, Bind(w) PROVE DataTyped'
  BY <1>1 DEF Bind, ReconcileLoad, RunLoad, VerifyLoad, frame, DataTyped
<1>2. ASSUME NEW w \in Workers, AdapterStep(w) PROVE DataTyped'
  BY <1>2 DEF AdapterStep, Clean, UnlinkOld, Inspect, PublishBegin, StatPartial,
              CreatePartial, Copy, Discard, Revalidate, Link, DropPartial, Reread,
              UnlinkPartial, ReadBack, Confirm, Check, steady, frame, DataTyped
<1>3. ASSUME NEW w \in Workers, Fault(w) PROVE DataTyped'
  BY <1>3, CoreAssumption DEF Fault, IoFault, CopyFault, ReplyLost, CrashNow, Crash,
              DatabaseFault, IdentityFault, Mishap, DataTyped
<1>4. ASSUME NEW w \in Workers, NEW c \in Commands, Begin(w, c) PROVE DataTyped'
  BY <1>4 DEF Begin, Start, frame, DataTyped
<1>5. ASSUME NEW o \in Objects, FinalizeObject(o) PROVE DataTyped'
  BY <1>5, FinalizeTyped
<1>6. ASSUME NEW u \in Uris, NEW bytes \in Bytes \cup {Missing}, ChangeSource(u, bytes)
      PROVE  DataTyped'
  BY <1>6, ChangeTyped
<1>7. ASSUME NEW r \in Roots, Remount(r) PROVE DataTyped'
  BY <1>7 DEF Remount, coreVars, DataTyped
<1>8. CASE UNCHANGED vars
  BY <1>8 DEF vars, coreVars, DataTyped
<1> QED
  BY <1>1, <1>2, <1>3, <1>4, <1>5, <1>6, <1>7, <1>8, CoreDataTyped
     DEF Next, Step, Environment

\* Nobody but Bind and Remount touches mount, left and runtime.
LEMMA MountStep ==
  ASSUME [Next]_vars
  PROVE  \/ UNCHANGED <<mount, left, runtime>>
         \/ UNCHANGED <<mount, left, files>> /\ \E w \in Workers : Bind(w)
         \/ \E r \in Roots : Remount(r)
<1>1. ASSUME NEW w \in Workers, CoreStep(w) PROVE UNCHANGED <<mount, left, runtime>>
  BY <1>1 DEF CoreStep, nfsVars
<1>2. ASSUME NEW w \in Workers, AdapterStep(w) PROVE UNCHANGED <<mount, left, runtime>>
  BY <1>2 DEF AdapterStep, Clean, UnlinkOld, Inspect, PublishBegin, StatPartial,
              CreatePartial, Copy, Discard, Revalidate, Link, DropPartial, Reread,
              UnlinkPartial, ReadBack, Confirm, Check, steady
<1>3. ASSUME NEW w \in Workers, Fault(w) PROVE UNCHANGED <<mount, left, runtime>>
  BY <1>3 DEF Fault, IoFault, CopyFault, ReplyLost, CrashNow, nfsVars
<1>4. ASSUME NEW w \in Workers, NEW c \in Commands, Begin(w, c)
      PROVE  UNCHANGED <<mount, left, runtime>>
  BY <1>4 DEF Begin, nfsVars
<1>5. CASE UNCHANGED vars
  BY <1>5 DEF vars, nfsVars
<1>6. ASSUME NEW w \in Workers, Bind(w) PROVE UNCHANGED <<mount, left, files>>
  BY <1>6 DEF Bind
<1> QED
  BY <1>1, <1>2, <1>3, <1>4, <1>5, <1>6 DEF Next, Step, Environment, nfsVars

LEMMA MountTypedStep ==
  ASSUME MountTyped, [Next]_vars
  PROVE  MountTyped'
BY MountStep DEF MountTyped, Bind, Remount
-----------------------------------------------------------------------------
(* The five things a step can do to the files on the target.               *)

PlacePartial(w, v) ==
  /\ partial' = [partial EXCEPT ![mount][cur[w]] = v]
  /\ UNCHANGED final

FilesKept == UNCHANGED files
FilesRemoved == \E w \in Workers : pc[w] \in ObjectPoints /\ RemovePartial(w)
FilesLinked == \E w \in Workers : /\ pc[w] = "link"
                                 /\ Partial(w) # Absent /\ Final(w) = Absent
                                 /\ LinkFinal(w)
FilesClosed == \E w \in Workers, bytes \in {Torn} \cup Bytes :
                 pc[w] = "copy" /\ Close(w, bytes)
FilesCreated == \E w \in Workers : \E v \in {w, Torn} :
                  pc[w] = "create" /\ Partial(w) = Absent /\ PlacePartial(w, v)

LEMMA ReadableBytes ==
  ASSUME WorkerTyped, DataTyped, NEW w \in Workers, pc[w] = "copy"
  PROVE  Readable(w) \subseteq Bytes
<1>1. Uri(w) \in Uris
  BY AtPoint DEF ObjectPoints, PublishPoints
<1> QED BY <1>1 DEF Readable, DataTyped

LEMMA FilesStep ==
  ASSUME WorkerTyped, DataTyped, [Next]_vars
  PROVE  FilesKept \/ FilesRemoved \/ FilesLinked \/ FilesClosed \/ FilesCreated
<1> USE DEF FilesKept, FilesRemoved, FilesLinked, FilesClosed, FilesCreated,
            PlacePartial, ObjectPoints, CleanPoints, PublishPoints, steady
<1>1. ASSUME NEW w \in Workers, CoreStep(w) PROVE FilesKept
  BY <1>1 DEF CoreStep, nfsVars, files
<1>2. ASSUME NEW w \in Workers, Bind(w) PROVE FilesKept
  BY <1>2 DEF Bind
<1>3. ASSUME NEW w \in Workers,
             Clean(w) \/ Inspect(w) \/ PublishBegin(w) \/ StatPartial(w) \/ Revalidate(w)
               \/ Reread(w) \/ ReadBack(w) \/ Confirm(w) \/ Check(w)
      PROVE  FilesKept
  BY <1>3 DEF Clean, Inspect, PublishBegin, StatPartial, Revalidate, Reread, ReadBack,
              Confirm, Check
<1>4. ASSUME NEW w \in Workers,
             UnlinkOld(w) \/ Discard(w) \/ DropPartial(w) \/ UnlinkPartial(w)
      PROVE  FilesKept \/ FilesRemoved
  BY <1>4 DEF UnlinkOld, Discard, DropPartial, UnlinkPartial
<1>5. ASSUME NEW w \in Workers, CreatePartial(w) PROVE FilesKept \/ FilesCreated
  BY <1>5 DEF CreatePartial, files
<1>6. ASSUME NEW w \in Workers, Copy(w) PROVE FilesClosed
  BY <1>6, ReadableBytes DEF Copy
<1>7. ASSUME NEW w \in Workers, Link(w) PROVE FilesKept \/ FilesLinked
  BY <1>7 DEF Link
<1>8. ASSUME NEW w \in Workers, IoFault(w) PROVE FilesKept
  BY <1>8 DEF IoFault, nfsVars, files
<1>9. ASSUME NEW w \in Workers, CopyFault(w) PROVE FilesClosed
  BY <1>9, ReadableBytes DEF CopyFault
<1>10. ASSUME NEW w \in Workers, ReplyLost(w)
       PROVE  FilesRemoved \/ FilesLinked \/ FilesCreated
  BY <1>10 DEF ReplyLost
<1>11. ASSUME NEW w \in Workers, CrashNow(w) PROVE FilesKept \/ FilesClosed
  BY <1>11, ReadableBytes DEF CrashNow
<1>12. ASSUME NEW w \in Workers, DatabaseFault(w) \/ IdentityFault(w), UNCHANGED nfsVars
       PROVE  FilesKept
  BY <1>12 DEF nfsVars, files
<1>13. ASSUME NEW w \in Workers, NEW c \in Commands, Begin(w, c) PROVE FilesKept
  BY <1>13 DEF Begin, nfsVars, files
<1>14. CASE Environment
  BY <1>14 DEF Environment, Remount, nfsVars, files
<1>15. CASE UNCHANGED vars
  BY <1>15 DEF vars, nfsVars, files
<1> HIDE DEF FilesKept, FilesRemoved, FilesLinked, FilesClosed, FilesCreated
<1> QED
  BY <1>1, <1>2, <1>3, <1>4, <1>5, <1>6, <1>7, <1>8, <1>9, <1>10, <1>11, <1>12,
     <1>13, <1>14, <1>15 DEF Next, Step, AdapterStep, Fault

LEMMA FilesTypedStep ==
  ASSUME WorkerTyped, DataTyped, MountTyped, FilesTyped, [Next]_vars
  PROVE  FilesTyped'
<1> USE DEF FilesTyped, MountTyped, Files
<1>1. CASE FilesKept
  BY <1>1 DEF FilesKept, files
<1>2. CASE FilesRemoved
  BY <1>2, AtPoint DEF FilesRemoved, RemovePartial
<1>3. CASE FilesLinked
  <2>1. PICK w \in Workers : pc[w] = "link" /\ LinkFinal(w)
    BY <1>3 DEF FilesLinked
  <2>2. cur[w] \in Objects /\ Uri(w) \in Uris
    BY <2>1, AtPoint DEF ObjectPoints, PublishPoints
  <2> QED BY <2>1, <2>2 DEF LinkFinal, Partial
<1>4. CASE FilesClosed
  BY <1>4 DEF FilesClosed, Close
<1>5. CASE FilesCreated
  BY <1>5, AtPoint DEF FilesCreated, PlacePartial, ObjectPoints, PublishPoints
<1> QED BY <1>1, <1>2, <1>3, <1>4, <1>5, FilesStep

LEMMA InitTyped == Init => TypeInv
<1> SUFFICES ASSUME Init PROVE TypeInv
  OBVIOUS
<1>1. WorkerTyped
  BY DEF Init, CoreInit, WorkerTyped, Located, Commands, Outcomes, Points, CorePoints,
         ObjectPoints, CleanPoints, PublishPoints
<1>2. DataTyped
  BY CoreAssumption DEF Init, CoreInit, AuthorityInit, DataTyped, Rows, RowStates
<1>3. MountTyped
  BY NfsAssumption DEF Init, MountTyped
<1>4. FilesTyped
  BY NfsAssumption DEF Init, FilesTyped, Files
<1> QED BY <1>1, <1>2, <1>3, <1>4 DEF TypeInv

LEMMA TypeInvStep == TypeInv /\ [Next]_vars => TypeInv'
BY WorkerTypedStep, DataTypedStep, MountTypedStep, FilesTypedStep DEF TypeInv

\* The types of all variables, for every value of the constants.
THEOREM TypeCorrect == Spec => [](TypeOK /\ Located)
BY InitTyped, TypeInvStep, TypeInvSplit, PTL DEF Spec

-----------------------------------------------------------------------------
(* Nothing on the target is overwritten.                                   *)

LEMMA Kept ==
  ASSUME TypeInv, [Next]_vars, NEW r \in Roots, NEW u \in Uris,
         final[r][u] \in Bytes \cup {Torn}
  PROVE  final'[r][u] = final[r][u]
<1> USE DEF TypeInv, FilesTyped
<1>1. CASE FilesKept
  BY <1>1 DEF FilesKept, files
<1>2. CASE FilesRemoved
  BY <1>2 DEF FilesRemoved, RemovePartial
<1>3. CASE FilesLinked
  <2>1. PICK w \in Workers : pc[w] = "link" /\ Final(w) = Absent /\ LinkFinal(w)
    BY <1>3 DEF FilesLinked
  <2>2. final[r][u] # Absent
    BY NfsAssumption
  <2> QED BY <2>1, <2>2 DEF LinkFinal, Final
<1>4. CASE FilesClosed
  <2>1. final[r][u] \notin Workers
    BY NfsAssumption
  <2> QED BY <1>4, <2>1 DEF FilesClosed, Close
<1>5. CASE FilesCreated
  BY <1>5 DEF FilesCreated, PlacePartial
<1> QED BY <1>1, <1>2, <1>3, <1>4, <1>5, FilesStep

\* NeverOverwritten for any number of workers, also while they tread on each
\* other's partials.
THEOREM NothingOverwritten == Spec => NeverOverwritten
<1>1. TypeOK /\ Located /\ [Next]_vars =>
        [\A r \in Roots, u \in Uris :
           final[r][u] \in Bytes \cup {Torn} => final'[r][u] = final[r][u]]_final
  BY Kept, TypeInvSplit
<1> QED BY <1>1, TypeCorrect, PTL DEF Spec, NeverOverwritten

-----------------------------------------------------------------------------
(* VERIFIED means exact.                                                   *)

\* Expected bytes at a final name stay there.
LEMMA ExactKept ==
  ASSUME TypeInv, [Next]_vars, NEW r \in Roots, NEW o \in Objects,
         final[r][UriOf[o]] = Expected[o]
  PROVE  final'[r][UriOf[o]] = Expected[o]
BY Kept, AuthorityAssumption

\* A row becomes VERIFIED only by MarkVerified.
LEMMA VerifiedStep ==
  ASSUME TypeInv, [Next]_vars, NEW o \in Objects, Verified(o)', ~Verified(o)
  PROVE  \E w \in Workers : pc[w] \in {"rMark", "mark"} /\ cur[w] = o
<1> USE DEF Verified
<1>0. replica \in [Objects -> Rows]
  BY DEF TypeInv, DataTyped
<1>1. ASSUME NEW w \in Workers, CoreStep(w)
      PROVE  pc[w] \in {"rMark", "mark"} /\ cur[w] = o
  BY <1>1, CoreStepIsMove, CoreMoveRows, PointsFit, WorkersAreTyped DEF TypeInv
<1>2. CASE UNCHANGED replica
  BY <1>2
<1>3. ASSUME NEW w \in Workers, Bind(w) \/ AdapterStep(w) \/ Fault(w) PROVE UNCHANGED replica
  BY <1>3 DEF Bind, ReconcileLoad, RunLoad, VerifyLoad, AdapterStep, Clean, UnlinkOld,
              Inspect, PublishBegin, StatPartial, CreatePartial, Copy, Discard, Revalidate,
              Link, DropPartial, Reread, UnlinkPartial, ReadBack, Confirm, Check, steady,
              frame, Fault, IoFault, CopyFault, ReplyLost, CrashNow, Crash, DatabaseFault,
              IdentityFault
<1>4. ASSUME NEW w \in Workers, NEW c \in Commands, Begin(w, c) PROVE UNCHANGED replica
  BY <1>4 DEF Begin, Start, frame
<1>5. CASE Environment
  BY <1>2, <1>5 DEF Environment, FinalizeObject, Finalize, ChangeSource, Remount, coreVars
<1>6. CASE UNCHANGED vars
  BY <1>2, <1>6 DEF vars, coreVars
<1> QED BY <1>1, <1>2, <1>3, <1>4, <1>5, <1>6 DEF Next, Step

LEMMA FailLocal ==
  ASSUME WorkerTyped, NEW v \in Workers, NEW w \in Workers, v # w, NEW finding, Fail(v, finding)
  PROVE  Still(w)
BY MovesLocal, WorkersAreTyped DEF Fail

\* What one worker does at an adapter step, as one of two moves.
LEMMA AdapterMoves ==
  ASSUME NEW w \in Workers, AdapterStep(w)
  PROVE  /\ pc[w] \in ObjectPoints
         /\ (\E point : Goto(w, point)) \/ (\E finding : Fail(w, finding))
BY DEF AdapterStep, Clean, UnlinkOld, Inspect, PublishBegin, StatPartial, CreatePartial,
       Copy, Discard, Revalidate, Link, DropPartial, Reread, UnlinkPartial, ReadBack,
       Confirm, Check, ObjectPoints, CleanPoints, PublishPoints

LEMMA FaultMoves ==
  ASSUME NEW w \in Workers, Fault(w)
  PROVE  (\E how : Stop(w, how)) \/ (\E finding : Fail(w, finding))
BY DEF Fault, IoFault, CopyFault, ReplyLost, CrashNow, Crash, DatabaseFault, IdentityFault

OwnStep(w) == \/ Bind(w) \/ CoreStep(w) \/ AdapterStep(w) \/ Fault(w)
              \/ \E command \in Commands : Begin(w, command)

LEMMA StepLocal ==
  ASSUME WorkerTyped, [Next]_vars, NEW w \in Workers
  PROVE  Still(w) \/ OwnStep(w)
<1>0. WorkersTyped(Points, ObjectPoints)
  BY WorkersAreTyped
<1>1. ASSUME NEW v \in Workers, v # w, Bind(v) PROVE Still(w)
  <2>1. LoadMove(v, BindHolds) /\ BindHolds \in BOOLEAN
    BY <1>1 DEF Bind, LoadMove, BindHolds
  <2> QED BY <1>0, <1>1, <2>1, CoreLocal
<1>2. ASSUME NEW v \in Workers, v # w, CoreStep(v) PROVE Still(w)
  BY <1>0, <1>2, CoreStepIsMove, CoreLocal
<1>3. ASSUME NEW v \in Workers, v # w, AdapterStep(v) PROVE Still(w)
  BY <1>0, <1>3, MovesLocal, FailLocal, AdapterMoves
<1>4. ASSUME NEW v \in Workers, v # w, Fault(v) PROVE Still(w)
  BY <1>0, <1>4, MovesLocal, FailLocal, FaultMoves
<1>5. ASSUME NEW v \in Workers, v # w, NEW c \in Commands, Begin(v, c) PROVE Still(w)
  BY <1>0, <1>5, MovesLocal DEF Begin
<1>6. CASE Environment
  BY <1>6 DEF Environment, FinalizeObject, ChangeSource, Remount, coreVars, workerVars, Still
<1>7. CASE UNCHANGED vars
  BY <1>7 DEF vars, coreVars, workerVars, Still
<1> QED
  BY <1>1, <1>2, <1>3, <1>4, <1>5, <1>6, <1>7 DEF Next, Step, OwnStep

\* The steps that lead a worker to an identity check after exact bytes.
LEMMA SeenArrives ==
  ASSUME WorkerTyped, [Next]_vars, NEW w \in Workers, pc'[w] \in {"recheck", "confirm"}
  PROVE  /\ cur'[w] = cur[w]
         /\ \/ pc'[w] = pc[w]
            \/ Exact(w, Final(w)) /\ UNCHANGED <<mount, final>>
<1> USE DEF WorkerTyped, Goto, Stop, Raise, Fail
<1>1. CASE Still(w)
  BY <1>1 DEF Still
<1>2. CASE Bind(w)
  BY <1>2 DEF Bind, ReconcileLoad, RunLoad, VerifyLoad, LoadAll
<1>3. CASE CoreStep(w)
  BY <1>3 DEF CoreStep, ReconcileItem, ReconcileRecheck, MarkVerified, RunItem,
              RecordAttempt, HashSource, RecordFailure, VerifyItem, Discover, Register,
              LoadPending, TakeFirst
<1>4. CASE AdapterStep(w)
  BY <1>4 DEF AdapterStep, Clean, UnlinkOld, Inspect, PublishBegin, StatPartial,
              CreatePartial, Copy, Discard, Revalidate, Link, DropPartial, Reread,
              UnlinkPartial, ReadBack, Confirm, Check, steady, files
<1>5. CASE Fault(w)
  BY <1>5, FaultMoves
<1>6. ASSUME NEW c \in Commands, Begin(w, c) PROVE FALSE
  BY <1>6 DEF Begin, Start
<1> QED BY <1>1, <1>2, <1>3, <1>4, <1>5, <1>6, StepLocal DEF OwnStep

\* The steps that lead a worker to mark_verified.
LEMMA MarkArrives ==
  ASSUME WorkerTyped, [Next]_vars, NEW w \in Workers, pc'[w] \in {"rMark", "mark"}
  PROVE  /\ cur'[w] = cur[w]
         /\ \/ pc'[w] = pc[w]
            \/ pc[w] \in {"recheck", "confirm"} /\ IdentityHolds(w)
<1> USE DEF WorkerTyped, Goto, Stop, Raise, Fail
<1>1. CASE Still(w)
  BY <1>1 DEF Still
<1>2. CASE Bind(w)
  BY <1>2 DEF Bind, ReconcileLoad, RunLoad, VerifyLoad, LoadAll
<1>3. CASE CoreStep(w)
  BY <1>3 DEF CoreStep, ReconcileItem, ReconcileRecheck, MarkVerified, RunItem,
              RecordAttempt, HashSource, RecordFailure, VerifyItem, Discover, Register,
              LoadPending, TakeFirst
<1>4. CASE AdapterStep(w)
  BY <1>4 DEF AdapterStep, Clean, UnlinkOld, Inspect, PublishBegin, StatPartial,
              CreatePartial, Copy, Discard, Revalidate, Link, DropPartial, Reread,
              UnlinkPartial, ReadBack, Confirm, Check
<1>5. CASE Fault(w)
  BY <1>5, FaultMoves
<1>6. ASSUME NEW c \in Commands, Begin(w, c) PROVE FALSE
  BY <1>6 DEF Begin, Start
<1> QED BY <1>1, <1>2, <1>3, <1>4, <1>5, <1>6, StepLocal DEF OwnStep

LEMMA MountsOnceStep ==
  ASSUME TypeInv, MountsOnce, [Next]_vars
  PROVE  MountsOnce'
<1> USE DEF TypeInv, MountTyped, MountsOnce
<1>1. CASE UNCHANGED <<mount, left, runtime>>
  BY <1>1
<1>2. ASSUME NEW w \in Workers, Bind(w) PROVE MountsOnce'
  BY <1>2 DEF Bind
<1>3. ASSUME NEW r \in Roots, Remount(r) PROVE MountsOnce'
  BY <1>3 DEF Remount
<1> QED BY <1>1, <1>2, <1>3, MountStep

LEMMA SeenExactStep ==
  ASSUME ExactInv, [Next]_vars
  PROVE  SeenExact'
<1>0. TypeInv /\ WorkerTyped /\ DataTyped /\ MountTyped /\ MountsOnce /\ SeenExact
  BY TypeInvSplit DEF ExactInv, TypeInv
<1> SUFFICES ASSUME NEW w \in Workers, pc'[w] \in {"recheck", "confirm"}
             PROVE  \/ final'[mount'][UriOf[cur'[w]]] = Expected[cur'[w]]
                    \/ runtime'[w] \in left'
  BY DEF SeenExact, Uri
<1>1. cur'[w] = cur[w] /\ cur[w] \in Objects
  <2>1. cur'[w] \in Objects
    BY <1>0, WorkerTypedStep DEF WorkerTyped, Located, ObjectPoints, PublishPoints
  <2> QED BY <1>0, <2>1, SeenArrives
<1>2. CASE Exact(w, Final(w)) /\ UNCHANGED <<mount, final>>
  BY <1>1, <1>2 DEF Exact, Final, Uri
<1>3. CASE pc'[w] = pc[w]
  <2>1. final[mount][UriOf[cur[w]]] = Expected[cur[w]] \/ runtime[w] \in left
    BY <1>0, <1>3 DEF SeenExact, Uri
  <2>2. mount \in Roots
    BY <1>0 DEF MountTyped
  <2>3. final[mount][UriOf[cur[w]]] = Expected[cur[w]] =>
          final'[mount][UriOf[cur[w]]] = Expected[cur[w]]
    BY <1>0, <1>1, <2>2, ExactKept
  <2>4. CASE UNCHANGED <<mount, left, runtime>>
    BY <1>1, <2>1, <2>3, <2>4
  <2>5. ASSUME NEW v \in Workers, Bind(v)
        PROVE  runtime'[w] = runtime[w] /\ UNCHANGED <<mount, left>>
    <3>1. CASE v # w
      BY <1>0, <2>5, <3>1 DEF Bind, MountTyped
    <3>2. CASE v = w
      BY <1>3, <2>5, <3>2 DEF Bind, ReconcileLoad, RunLoad, VerifyLoad
    <3> QED BY <3>1, <3>2
  <2>6. ASSUME NEW r \in Roots, Remount(r) PROVE runtime'[w] \in left'
    BY <1>0, <2>6 DEF Remount, MountsOnce
  <2> QED BY <1>1, <2>1, <2>3, <2>4, <2>5, <2>6, MountStep
<1> QED BY <1>0, <1>2, <1>3, SeenArrives

LEMMA MayMarkStep ==
  ASSUME ExactInv, [Next]_vars
  PROVE  MayMark'
<1>0. TypeInv /\ WorkerTyped /\ DataTyped /\ MountsOnce /\ SeenExact /\ MayMark
  BY TypeInvSplit DEF ExactInv, TypeInv
<1> SUFFICES ASSUME NEW w \in Workers, pc'[w] \in {"rMark", "mark"}
             PROVE  \E r \in Marked : final'[r][UriOf[cur'[w]]] = Expected[cur'[w]]
  BY DEF MayMark, Uri
<1>1. cur'[w] = cur[w] /\ cur[w] \in Objects
  <2>1. cur'[w] \in Objects
    BY <1>0, WorkerTypedStep DEF WorkerTyped, Located, ObjectPoints
  <2> QED BY <1>0, <2>1, MarkArrives
<1>2. \E r \in Marked : final[r][UriOf[cur[w]]] = Expected[cur[w]]
  <2>1. CASE pc'[w] = pc[w]
    BY <1>0, <2>1 DEF MayMark, Uri
  <2>2. CASE pc[w] \in {"recheck", "confirm"} /\ IdentityHolds(w)
    BY <1>0, <2>2 DEF SeenExact, IdentityHolds, MountsOnce, Uri
  <2> QED BY <1>0, <2>1, <2>2, MarkArrives
<1> QED BY <1>0, <1>1, <1>2, ExactKept, NfsAssumption

LEMMA VerifiedExactStep ==
  ASSUME ExactInv, [Next]_vars
  PROVE  VerifiedExact'
<1>0. TypeInv /\ MayMark /\ VerifiedExact
  BY TypeInvSplit DEF ExactInv
<1> SUFFICES ASSUME NEW o \in Objects, Verified(o)'
             PROVE  \E r \in Marked : final'[r][UriOf[o]] = Expected[o]
  BY DEF VerifiedExact
<1>1. \E r \in Marked : final[r][UriOf[o]] = Expected[o]
  <2>1. CASE Verified(o)
    BY <1>0, <2>1 DEF VerifiedExact
  <2>2. CASE ~Verified(o)
    BY <1>0, <2>2, VerifiedStep DEF MayMark, Uri
  <2> QED BY <2>1, <2>2
<1> QED BY <1>0, <1>1, ExactKept, NfsAssumption

LEMMA ExactInvInductive == (Init => ExactInv) /\ (ExactInv /\ [Next]_vars => ExactInv')
<1>1. ASSUME Init PROVE ExactInv
  <2> SUFFICES MountsOnce /\ SeenExact /\ MayMark /\ VerifiedExact
    BY <1>1, InitTyped, TypeInvSplit DEF ExactInv
  <2> QED BY <1>1 DEF Init, CoreInit, AuthorityInit, MountsOnce, SeenExact, MayMark,
                      VerifiedExact, Verified
<1>2. ASSUME ExactInv, [Next]_vars PROVE ExactInv'
  <2>1. (TypeOK /\ Located)'
    BY <1>2, TypeInvSplit, TypeInvStep, PTL DEF ExactInv
  <2>2. MountsOnce'
    BY <1>2, MountsOnceStep, TypeInvSplit DEF ExactInv
  <2> QED BY <1>2, <2>1, <2>2, SeenExactStep, MayMarkStep, VerifiedExactStep DEF ExactInv
<1> QED BY <1>1, <1>2

\* VerifiedExact, for any number of workers that crash, fail and interleave
\* at any step, while file systems without return come and go at the root.
THEOREM VerifiedIsExact == Spec => []VerifiedExact
<1>1. ExactInv => VerifiedExact
  BY DEF ExactInv
<1> QED BY <1>1, ExactInvInductive, PTL DEF Spec

-----------------------------------------------------------------------------
(* The authority's rows: attempts come first, the schema is respected.     *)

LEMMA RowStep ==
  ASSUME TypeInv, [Next]_vars, NEW o \in Objects
  PROVE  RowMoves(replica[o], replica'[o])
<1>0. replica \in [Objects -> Rows] /\ WorkerTyped
  BY DEF TypeInv, DataTyped
<1>1. CASE UNCHANGED replica
  BY <1>1 DEF RowMoves
<1>2. ASSUME NEW w \in Workers, CoreStep(w) PROVE RowMoves(replica[o], replica'[o])
  BY <1>0, <1>2, CoreStepIsMove, CoreMoveRows, PointsFit, WorkersAreTyped DEF TypeInv
<1>3. ASSUME NEW w \in Workers, Bind(w) \/ AdapterStep(w) \/ Fault(w) PROVE UNCHANGED replica
  BY <1>3 DEF Bind, ReconcileLoad, RunLoad, VerifyLoad, AdapterStep, Clean, UnlinkOld,
              Inspect, PublishBegin, StatPartial, CreatePartial, Copy, Discard, Revalidate,
              Link, DropPartial, Reread, UnlinkPartial, ReadBack, Confirm, Check, steady,
              frame, Fault, IoFault, CopyFault, ReplyLost, CrashNow, Crash, DatabaseFault,
              IdentityFault
<1>4. ASSUME NEW w \in Workers, NEW c \in Commands, Begin(w, c) PROVE UNCHANGED replica
  BY <1>4 DEF Begin, Start, frame
<1>5. CASE Environment
  BY <1>1, <1>5 DEF Environment, FinalizeObject, Finalize, ChangeSource, Remount, coreVars
<1>6. CASE UNCHANGED vars
  BY <1>1, <1>6 DEF vars, coreVars
<1>7. ASSUME NEW w \in Workers, Step(w) PROVE RowMoves(replica[o], replica'[o])
  BY <1>1, <1>2, <1>3, <1>7 DEF Step
<1>8. ASSUME NEW w \in Workers, Fault(w) PROVE RowMoves(replica[o], replica'[o])
  BY <1>1, <1>3, <1>8
<1>9. ASSUME NEW w \in Workers, NEW c \in Commands, Begin(w, c)
      PROVE  RowMoves(replica[o], replica'[o])
  BY <1>1, <1>4, <1>9
<1> QED BY <1>5, <1>6, <1>7, <1>8, <1>9 DEF Next

LEMMA AttemptedKept ==
  ASSUME TypeInv, [Next]_vars, NEW o \in Objects, replica[o].attempted
  PROVE  replica'[o].attempted
BY RowStep DEF RowMoves, TypeInv, DataTyped, Rows

LEMMA SchemaStep ==
  ASSUME TypeInv, FreshRows, [Next]_vars
  PROVE  (\A o \in Objects : SchemaAllows(replica[o], replica'[o])) /\ FreshRows'
BY RowStep, RowsRespectSchema DEF TypeInv

\* The way to publish_immutable leads through record_attempt.
LEMMA PublishArrives ==
  ASSUME WorkerTyped, [Next]_vars, NEW w \in Workers,
         pc'[w] \in {"hash"} \cup PublishPoints
  PROVE  /\ cur'[w] = cur[w]
         /\ \/ pc[w] \in {"hash"} \cup PublishPoints
            \/ pc[w] = "attempt" /\ AttemptRow(cur[w])
<1> USE DEF WorkerTyped, Goto, Stop, Raise, Fail, PublishPoints
<1>1. CASE Still(w)
  BY <1>1 DEF Still
<1>2. CASE Bind(w)
  BY <1>2 DEF Bind, ReconcileLoad, RunLoad, VerifyLoad, LoadAll
<1>3. CASE CoreStep(w)
  BY <1>3 DEF CoreStep, ReconcileItem, ReconcileRecheck, MarkVerified, RunItem,
              RecordAttempt, HashSource, RecordFailure, VerifyItem, Discover, Register,
              LoadPending, TakeFirst
<1>4. CASE AdapterStep(w)
  BY <1>4 DEF AdapterStep, Clean, UnlinkOld, Inspect, PublishBegin, StatPartial,
              CreatePartial, Copy, Discard, Revalidate, Link, DropPartial, Reread,
              UnlinkPartial, ReadBack, Confirm, Check
<1>5. CASE Fault(w)
  BY <1>5, FaultMoves
<1>6. ASSUME NEW c \in Commands, Begin(w, c) PROVE FALSE
  BY <1>6 DEF Begin, Start
<1> QED BY <1>1, <1>2, <1>3, <1>4, <1>5, <1>6, StepLocal DEF OwnStep

LEMMA TriedFirstStep ==
  ASSUME TypeInv, TriedFirst, [Next]_vars
  PROVE  TriedFirst'
<1>0. WorkerTyped /\ DataTyped
  BY DEF TypeInv
<1> SUFFICES ASSUME NEW w \in Workers, pc'[w] \in {"hash"} \cup PublishPoints
             PROVE  replica'[cur'[w]].attempted
  BY DEF TriedFirst, PublishPoints
<1>1. cur'[w] = cur[w] /\ cur[w] \in Objects
  <2>1. cur'[w] \in Objects
    BY <1>0, WorkerTypedStep DEF WorkerTyped, Located, ObjectPoints
  <2> QED BY <1>0, <2>1, PublishArrives
<1>2. CASE pc[w] \in {"hash"} \cup PublishPoints
  BY <1>1, <1>2, AttemptedKept DEF TriedFirst
<1>3. CASE AttemptRow(cur[w])
  BY <1>0, <1>1, <1>3 DEF AttemptRow, DataTyped, Rows
<1> QED BY <1>0, <1>2, <1>3, PublishArrives

LEMMA TouchStep ==
  ASSUME TypeInv, TriedFirst, AttemptBeforeTouch, [Next]_vars
  PROVE  AttemptBeforeTouch'
<1>0. WorkerTyped /\ DataTyped /\ FilesTyped /\ MountTyped
  BY DEF TypeInv
<1> SUFFICES ASSUME NEW r \in Roots, NEW o \in Objects, partial'[r][o] # Absent
             PROVE  replica[o].attempted
  BY AttemptedKept DEF AttemptBeforeTouch
<1>1. CASE partial[r][o] # Absent
  BY <1>1 DEF AttemptBeforeTouch
<1>2. CASE partial[r][o] = Absent
  <2> USE <1>0 DEF FilesTyped
  <2>1. CASE FilesKept
    BY <1>2, <2>1 DEF FilesKept, files
  <2>2. CASE FilesRemoved
    BY <1>2, <2>2 DEF FilesRemoved, RemovePartial
  <2>3. CASE FilesLinked
    BY <1>2, <2>3 DEF FilesLinked, LinkFinal
  <2>4. CASE FilesClosed
    BY <1>2, <2>4, NfsAssumption DEF FilesClosed, Close
  <2>5. CASE FilesCreated
    BY <1>2, <2>5 DEF FilesCreated, PlacePartial, TriedFirst, PublishPoints
  <2> QED BY <2>1, <2>2, <2>3, <2>4, <2>5, FilesStep
<1> QED BY <1>1, <1>2

LEMMA AttemptInvInductive ==
  /\ Init => AttemptInv
  /\ AttemptInv /\ [Next]_vars => AttemptInv'
<1>1. Init => AttemptInv
  <2> SUFFICES ASSUME Init PROVE TriedFirst /\ FreshRows /\ AttemptBeforeTouch
    BY InitTyped, TypeInvSplit DEF AttemptInv
  <2> QED BY DEF Init, CoreInit, AuthorityInit, TriedFirst, FreshRows, AttemptBeforeTouch,
                 PublishPoints
<1>2. ASSUME AttemptInv, [Next]_vars PROVE AttemptInv'
  <2>1. TypeInv /\ TriedFirst /\ FreshRows /\ AttemptBeforeTouch
    BY <1>2, TypeInvSplit DEF AttemptInv
  <2>2. (TypeOK /\ Located)'
    BY <1>2, <2>1, TypeInvSplit, TypeInvStep, PTL
  <2> QED BY <1>2, <2>1, <2>2, TriedFirstStep, SchemaStep, TouchStep DEF AttemptInv
<1> QED BY <1>1, <1>2

\* Every partial, of whichever worker and on whichever file system, belongs to
\* an object whose row already says that it was attempted.
THEOREM AttemptComesFirst == Spec => []AttemptBeforeTouch
<1>1. AttemptInv => AttemptBeforeTouch
  BY DEF AttemptInv
<1> QED BY <1>1, AttemptInvInductive, PTL DEF Spec

\* No transaction of the core is one the v10 schema would abort.
THEOREM SchemaIsRespected == Spec => SchemaRespected
<1>1. AttemptInv /\ [Next]_vars =>
        [\A o \in Objects : SchemaAllows(replica[o], replica'[o])]_replica
  BY SchemaStep, TypeInvSplit DEF AttemptInv
<1> QED BY <1>1, AttemptInvInductive, PTL DEF Spec, SchemaRespected
-----------------------------------------------------------------------------
(* A run that passes.                                                      *)

RunAt == {"attempt", "hash", "failing", "mark"} \cup PublishPoints

\* The inductive invariant behind PassMeansVerified: at every point of its loop a
\* run knows of each object it found that it is VERIFIED or yet to be dealt with.
PassInv == TypeInv /\ AllAccounted(RunAt)

LEMMA RunAtFits == RunPoints(RunAt, ObjectPoints)
BY DEF RunPoints, RunAt, ObjectPoints, CleanPoints, PublishPoints

LEMMA AdapterLeads ==
  ASSUME NEW w \in Workers, AdapterStep(w)
  PROVE  /\ pc[w] # "idle"
         /\ \/ \E point : /\ Goto(w, point)
                          /\ point \notin {"pending", "item"}
                          /\ point \in Verifying => pc[w] = "check"
                          /\ point \in RunAt => pc[w] \in RunAt
            \/ \E finding \in Findings : Fail(w, finding)
BY DEF AdapterStep, Clean, UnlinkOld, Inspect, PublishBegin, StatPartial, CreatePartial,
       Copy, Discard, Revalidate, Link, DropPartial, Reread, UnlinkPartial, ReadBack,
       Confirm, Check, RunAt, PublishPoints, Findings, Verifying

LEMMA FaultEnds ==
  ASSUME NEW w \in Workers, Fault(w)
  PROVE  \/ \E how \in Outcomes \ {"pass"} : Stop(w, how)
         \/ \E finding \in Findings : Fail(w, finding)
BY DEF Fault, IoFault, CopyFault, ReplyLost, CrashNow, Crash, DatabaseFault, IdentityFault,
       Findings, Outcomes

LEMMA FailAccounted ==
  ASSUME WorkerTyped, NEW w \in Workers, NEW finding \in Findings, Fail(w, finding),
         Accounted(w, RunAt), RowsGrow
  PROVE  Accounted(w, RunAt)'
<1> USE PointsFit, RunAtFits, WorkersAreTyped
<1>1. CASE Raise(w, finding) /\ pc[w] \in PublishPoints
  BY <1>1, RaiseAccounted DEF RunAt
<1>2. CASE Stop(w, finding)
  BY <1>2, StopAccounted DEF Findings, Outcomes
<1> QED BY <1>1, <1>2 DEF Fail

LEMMA AccountedStep ==
  ASSUME TypeInv, AllAccounted(RunAt), [Next]_vars
  PROVE  AllAccounted(RunAt)'
<1>1. WorkerTyped /\ DataTyped /\ WorkersTyped(Points, ObjectPoints)
  BY WorkersAreTyped DEF TypeInv
<1>2. RowsGrow
  BY <1>1, RowStep, MovesGrow
<1> SUFFICES ASSUME NEW w \in Workers PROVE Accounted(w, RunAt)'
  BY DEF AllAccounted
<1>3. Accounted(w, RunAt)
  BY DEF AllAccounted
<1> USE PointsFit, RunAtFits
<1>4. CASE Still(w)
  BY <1>2, <1>3, <1>4, StillAccounted
<1>5. CASE Bind(w)
  <2>1. LoadMove(w, BindHolds) /\ BindHolds \in BOOLEAN
    BY <1>5 DEF Bind, LoadMove, BindHolds
  <2> QED BY <1>1, <1>3, <2>1, LoadAccounted
<1>6. CASE CoreStep(w)
  BY <1>1, <1>3, <1>6, CoreStepIsMove, CoreAccounted
<1>7. CASE AdapterStep(w)
  <2>1. outcome[w] # "pass"
    BY <1>3, <1>7, AdapterLeads DEF Accounted
  <2>2. CASE \E finding \in Findings : Fail(w, finding)
    BY <1>1, <1>2, <1>3, <2>2, FailAccounted
  <2> QED BY <1>1, <1>2, <1>3, <1>7, <2>1, <2>2, AdapterLeads, GotoAccounted DEF Verifying
<1>8. CASE Fault(w)
  BY <1>1, <1>2, <1>3, <1>8, FaultEnds, FailAccounted, StopAccounted
<1>9. ASSUME NEW c \in Commands, Begin(w, c) PROVE Accounted(w, RunAt)'
  BY <1>1, <1>9, StartAccounted DEF Begin
<1> QED BY <1>1, <1>4, <1>5, <1>6, <1>7, <1>8, <1>9, StepLocal DEF OwnStep

\* A run that ends with "pass" leaves every object it discovered VERIFIED, for any
\* number of workers that take rows from each other and fail at any step.
THEOREM PassedRunsAreComplete == Spec => []PassMeansVerified
<1>1. Init => PassInv
  <2> SUFFICES ASSUME Init PROVE AllAccounted(RunAt)
    BY InitTyped DEF PassInv
  <2> QED BY DEF Init, CoreInit, AllAccounted, Accounted, RunAt, PublishPoints, Verifying
<1>2. PassInv /\ [Next]_vars => PassInv'
  BY TypeInvStep, AccountedStep DEF PassInv
<1>3. PassInv => PassMeansVerified
  BY DEF PassInv, AllAccounted, Accounted, PassMeansVerified
<1> QED BY <1>1, <1>2, <1>3, PTL DEF Spec
=============================================================================
