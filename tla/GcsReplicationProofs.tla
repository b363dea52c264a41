------------------------ MODULE GcsReplicationProofs ------------------------
(***************************************************************************)
(* Proofs about GcsReplication for any number of objects, workers, faults  *)
(* and foreign changes.                                                    *)
(***************************************************************************)
EXTENDS GcsReplication, ReplicationCoreProofs

\* Where the worker's loop variable is bound to an object.
ObjectPoints == {"recheck", "rMark", "attempt", "hash", "failing", "mark", "clean"}
                  \cup InPublish \cup ReadPoints \cup DownloadPoints
MarkPoints == {"recheck", "rMark", "mark"}

WorkerTyped == WorkersTyped(Points, ObjectPoints)

TargetTyped ==
  /\ foreign \in 0..MaxForeign
  /\ marker \in [generation : Nat, ours : BOOLEAN]
  /\ bound \in [Workers -> Nat] /\ seen \in [Workers -> Nat]
  /\ blob \in [Uris -> Blobs]
  /\ held \in [Uris -> SUBSET Bytes]

TypeInv == WorkerTyped /\ DataTyped /\ TargetTyped

LEMMA TypeInvTypes == TypeInv => TypeOK
BY DEF TypeInv, TypeOK, AuthorityTypeOK, WorkerTyped, WorkersTyped, DataTyped, TargetTyped

LEMMA Downloads ==
  /\ DownloadPoints = {"inspected", "adopted", "verified", "checked"}
  /\ \A p \in ReadPoints : Downloading[p] \in DownloadPoints
  /\ \A p \in DownloadPoints : Accepted[p] \in {"recheck", "mark", "vItem"}
BY DEF DownloadPoints, Downloading, ReadPoints, Accepted

LEMMA PointsFit == Fits(Points, ObjectPoints)
BY Downloads DEF Fits, CoreFree, CoreBusy, AdapterEntries, Points, ObjectPoints, CorePoints,
                 InPublish, ReadPoints

LEMMA AtPoint ==
  ASSUME WorkerTyped, NEW w \in Workers, pc[w] \in ObjectPoints
  PROVE  cur[w] \in Objects /\ Uri(w) \in Uris
BY AtObject DEF WorkerTyped

\* What worker w can do, whatever it means.
OwnStep(w) == \/ Bind(w) \/ CoreStep(w) \/ AdapterStep(w) \/ Fault(w)
              \/ \E command \in Commands : Begin(w, command)

\* The points from which an adapter step can lead to a point.
Leads(w, point) ==
  /\ point \in Points \ {"failing"}
  /\ point \in DownloadPoints => pc[w] \in ReadPoints
  /\ point \in MarkPoints => pc[w] \in DownloadPoints

\* An adapter step is one of two moves, and changes no row.
LEMMA AdapterMoves ==
  ASSUME NEW w \in Workers, AdapterStep(w)
  PROVE  /\ pc[w] \in ObjectPoints
         /\ UNCHANGED <<frame, marker, bound, foreign>>
         /\ \/ \E point : Goto(w, point) /\ Leads(w, point)
            \/ \E finding \in Findings : Fail(w, finding)
<1> USE Downloads DEF Leads, ObjectPoints, InPublish, ReadPoints, MarkPoints, Points,
                      CorePoints, Findings, steady
<1>1. CASE Clean(w)
  BY <1>1 DEF Clean
<1>2. CASE Reload(w)
  <2>1. CASE Goto(w, Downloading[pc[w]])
    BY <1>2, <2>1 DEF Reload, Downloading
  <2> QED BY <1>2, <2>1 DEF Reload
<1>3. CASE Download(w)
  <2>1. CASE Goto(w, Accepted[pc[w]])
    BY <1>3, <2>1 DEF Download, Accepted
  <2> QED BY <1>3, <2>1 DEF Download, Rejected
<1>4. CASE OpenSource(w)
  BY <1>4 DEF OpenSource
<1>5. CASE Upload(w)
  BY <1>5 DEF Upload
<1> QED BY <1>1, <1>2, <1>3, <1>4, <1>5 DEF AdapterStep

\* So is a fault, or it ends the process.
LEMMA FaultMoves ==
  ASSUME NEW w \in Workers, Fault(w)
  PROVE  /\ UNCHANGED <<replica, ledger, source, changes, marker, bound, seen, foreign>>
         /\ mishaps' = mishaps \/ Mishap
         /\ \/ \E how \in Outcomes : Stop(w, how)
            \/ pc[w] \in ObjectPoints /\ \E finding \in Findings : Fail(w, finding)
            \/ pc[w] = "upload" /\ Goto(w, "adopt")
<1> USE DEF ObjectPoints, InPublish, Outcomes, Findings, gcsVars, frame
<1>1. CASE RequestFault(w)
  BY <1>1 DEF RequestFault
<1>2. CASE ReplyLost(w)
  BY <1>2 DEF ReplyLost
<1>3. CASE Unmapped(w)
  BY <1>3 DEF Unmapped
<1>4. CASE (Crash(w) \/ DatabaseFault(w) \/ IdentityFault(w)) /\ UNCHANGED gcsVars
  BY <1>4 DEF Crash, DatabaseFault, IdentityFault
<1> QED BY <1>1, <1>2, <1>3, <1>4 DEF Fault

LEMMA FailMoves ==
  ASSUME NEW w \in Workers, NEW finding, Fail(w, finding)
  PROVE  Raise(w, finding) \/ Stop(w, finding)
BY DEF Fail

LEMMA BindIsMove ==
  ASSUME NEW w \in Workers, Bind(w)
  PROVE  LoadMove(w, marker.ours)
BY DEF Bind, LoadMove

LEMMA CoreStepIsMove ==
  ASSUME NEW w \in Workers, CoreStep(w)
  PROVE  CoreMove(w, IdentityHolds(w)) /\ IdentityHolds(w) \in BOOLEAN
BY DEF CoreStep, CoreMove, IdentityHolds
-----------------------------------------------------------------------------
(* The types.                                                              *)

LEMMA WorkerTypedStep ==
  ASSUME TypeInv, [Next]_vars
  PROVE  WorkerTyped'
<1>0. WorkerTyped /\ DataTyped /\ marker.ours \in BOOLEAN
  BY DEF TypeInv, TargetTyped
<1> USE <1>0, PointsFit DEF WorkerTyped
<1>1. ASSUME NEW w \in Workers, NEW finding \in Findings, Fail(w, finding),
             pc[w] \in ObjectPoints
      PROVE  WorkerTyped'
  BY <1>1, FailMoves, RaiseTyped, StopTyped DEF Outcomes
<1>2. ASSUME NEW w \in Workers, Bind(w) PROVE WorkerTyped'
  BY <1>2, BindIsMove, LoadMoveTyped
<1>3. ASSUME NEW w \in Workers, CoreStep(w) PROVE WorkerTyped'
  BY <1>3, CoreStepIsMove, CoreMoveTyped
<1>4. ASSUME NEW w \in Workers, AdapterStep(w) PROVE WorkerTyped'
  BY <1>1, <1>4, AdapterMoves, GotoTyped DEF Leads
<1>5. ASSUME NEW w \in Workers, Fault(w) PROVE WorkerTyped'
  <2>1. CASE pc[w] = "upload" /\ Goto(w, "adopt")
    BY <2>1, GotoTyped DEF ObjectPoints, InPublish, Points
  <2> QED BY <1>1, <1>5, <2>1, FaultMoves, StopTyped
<1>6. ASSUME NEW w \in Workers, NEW c \in Commands, Begin(w, c) PROVE WorkerTyped'
  BY <1>6, StartTyped DEF Begin
<1>7. CASE Environment \/ UNCHANGED vars
  <2>1. UNCHANGED workerVars
    BY <1>7 DEF Environment, FinalizeObject, ChangeSource, ForeignWrite, ReplaceMarker,
                coreVars, vars
  <2> QED BY <2>1 DEF workerVars, WorkersTyped
<1> QED BY <1>2, <1>3, <1>4, <1>5, <1>6, <1>7 DEF Next, Step

LEMMA DataTypedStep ==
  ASSUME TypeInv, [Next]_vars
  PROVE  DataTyped'
<1>0. WorkerTyped /\ DataTyped
  BY DEF TypeInv
<1> USE <1>0
<1>1. ASSUME UNCHANGED <<replica, ledger, source, changes>>, mishaps' = mishaps \/ Mishap
      PROVE  DataTyped'
  BY <1>1, CoreAssumption DEF DataTyped, Mishap
<1>2. ASSUME NEW w \in Workers, CoreStep(w) PROVE DataTyped'
  BY <1>2, CoreStepIsMove, CoreMoveData, PointsFit DEF WorkerTyped
<1>3. ASSUME NEW w \in Workers, Bind(w) \/ AdapterStep(w) \/ Fault(w)
                                \/ \E c \in Commands : Begin(w, c)
      PROVE  DataTyped'
  BY <1>1, <1>3, AdapterMoves, FaultMoves
     DEF Bind, ReconcileLoad, RunLoad, VerifyLoad, Begin, Start, frame
<1>4. CASE Environment \/ UNCHANGED vars
  BY <1>1, <1>4, FinalizeTyped, ChangeTyped
     DEF Environment, ForeignWrite, ReplaceMarker, coreVars, vars
<1> QED BY <1>2, <1>3, <1>4 DEF Next, Step

\* What a step does to blobs: one is written at most, each write under a new
\* generation, and what was ever at a name stays in its history.
Writes(u, bytes) ==
  /\ u \in Uris /\ bytes \in Bytes \cup {Absent}
  /\ Write(u, bytes)
  /\ \/ blob[u].bytes = Absent /\ foreign' = foreign
     \/ foreign < MaxForeign /\ foreign' = foreign + 1

LEMMA ReadableBytes ==
  ASSUME TypeInv, NEW w \in Workers, pc[w] = "upload"
  PROVE  Readable(w) \subseteq Bytes /\ Uri(w) \in Uris
<1>1. Uri(w) \in Uris
  BY AtPoint DEF TypeInv, ObjectPoints, InPublish
<1> QED BY <1>1 DEF Readable, TypeInv, DataTyped

LEMMA BlobStep ==
  ASSUME TypeInv, [Next]_vars
  PROVE  UNCHANGED <<blob, held>> \/ \E u \in Uris, bytes \in Bytes \cup {Absent} : Writes(u, bytes)
<1>1. ASSUME NEW w \in Workers, pc[w] = "upload", foreign' = foreign,
             \E bytes \in Readable(w) : Create(w, bytes)
      PROVE  \E u \in Uris, bytes \in Bytes \cup {Absent} : Writes(u, bytes)
  <2>1. PICK bytes \in Readable(w) : Create(w, bytes)
    BY <1>1
  <2>2. Writes(Uri(w), bytes)
    BY <1>1, <2>1, ReadableBytes DEF Writes, Create, Blob
  <2> QED BY <2>2 DEF Writes
<1>2. ASSUME NEW w \in Workers, AdapterStep(w)
      PROVE  UNCHANGED <<blob, held>>
             \/ \E u \in Uris, bytes \in Bytes \cup {Absent} : Writes(u, bytes)
  BY <1>1, <1>2, AdapterMoves
     DEF AdapterStep, Clean, Reload, Download, OpenSource, Upload
<1>3. ASSUME NEW w \in Workers, Fault(w)
      PROVE  UNCHANGED <<blob, held>>
             \/ \E u \in Uris, bytes \in Bytes \cup {Absent} : Writes(u, bytes)
  BY <1>1, <1>3 DEF Fault, RequestFault, ReplyLost, Unmapped, gcsVars
<1>4. ASSUME NEW w \in Workers, Bind(w) \/ CoreStep(w) \/ \E c \in Commands : Begin(w, c)
      PROVE  UNCHANGED <<blob, held>>
  BY <1>4 DEF Bind, CoreStep, Begin, gcsVars
<1>5. ASSUME NEW u \in Uris, NEW bytes \in Bytes \cup {Absent}, ForeignWrite(u, bytes)
      PROVE  Writes(u, bytes)
  BY <1>5 DEF ForeignWrite, Writes
<1>6. CASE UNCHANGED vars \/ (\E ours \in BOOLEAN : ReplaceMarker(ours))
           \/ (Environment /\ UNCHANGED gcsVars)
  BY <1>6 DEF vars, gcsVars, ReplaceMarker
<1> QED BY <1>2, <1>3, <1>4, <1>5, <1>6 DEF Next, Step, Environment

LEMMA TargetTypedStep ==
  ASSUME TypeInv, [Next]_vars
  PROVE  TargetTyped'
<1> USE DEF TypeInv, TargetTyped
<1>1. blob' \in [Uris -> Blobs] /\ held' \in [Uris -> SUBSET Bytes]
  <2>1. ASSUME NEW u \in Uris, NEW bytes \in Bytes \cup {Absent}, Writes(u, bytes)
        PROVE  blob' \in [Uris -> Blobs] /\ held' \in [Uris -> SUBSET Bytes]
    BY <2>1 DEF Writes, Write, Blobs
  <2> QED BY <2>1, BlobStep
<1>2. seen' \in [Workers -> Nat]
  <2>1. ASSUME NEW w \in Workers, AdapterStep(w) PROVE seen' \in [Workers -> Nat]
    <3>1. Blob(w).generation \in Nat
      BY <2>1, AdapterMoves, AtPoint DEF Blob, Blobs
    <3> QED BY <2>1, <3>1
            DEF AdapterStep, Clean, Reload, Download, OpenSource, Upload
  <2>2. ASSUME NEW w \in Workers, Fault(w) PROVE seen' = seen
    BY <2>2, FaultMoves
  <2> QED BY <2>1, <2>2
          DEF Next, Step, Bind, CoreStep, Begin, Environment, ForeignWrite, ReplaceMarker,
              gcsVars, vars
<1>3. /\ marker' \in [generation : Nat, ours : BOOLEAN]
      /\ bound' \in [Workers -> Nat] /\ foreign' \in 0..MaxForeign
  <2>1. ASSUME NEW w \in Workers, AdapterStep(w) \/ Fault(w)
        PROVE  UNCHANGED <<marker, bound, foreign>>
    BY <2>1, AdapterMoves, FaultMoves
  <2>2. ASSUME NEW w \in Workers, CoreStep(w) \/ \E c \in Commands : Begin(w, c)
        PROVE  UNCHANGED <<marker, bound, foreign>>
    BY <2>2 DEF CoreStep, Begin, gcsVars
  <2>3. ASSUME NEW w \in Workers, Bind(w)
        PROVE  UNCHANGED <<marker, foreign>> /\ bound' \in [Workers -> Nat]
    BY <2>3 DEF Bind
  <2>4. CASE Environment \/ UNCHANGED vars
    BY <2>4, GcsAssumption
       DEF Environment, ForeignWrite, ReplaceMarker, gcsVars, vars
  <2> QED BY <2>1, <2>2, <2>3, <2>4 DEF Next, Step
<1> QED BY <1>1, <1>2, <1>3

LEMMA InitTyped == Init => TypeInv
<1> SUFFICES ASSUME Init PROVE TypeInv
  OBVIOUS
<1>1. WorkerTyped
  BY Downloads DEF Init, CoreInit, WorkerTyped, WorkersTyped, Commands, Outcomes, Points,
                   CorePoints, ObjectPoints, InPublish, ReadPoints
<1>2. DataTyped
  BY CoreAssumption DEF Init, CoreInit, AuthorityInit, DataTyped, Rows, RowStates
<1>3. blob \in [Uris -> Blobs]
  BY GcsAssumption DEF Init, Blobs
<1>4. held \in [Uris -> SUBSET Bytes]
  BY <1>3 DEF Init, Blobs
<1>5. TargetTyped
  BY <1>3, <1>4, GcsAssumption DEF Init, TargetTyped
<1> QED BY <1>1, <1>2, <1>5 DEF TypeInv

LEMMA TypeInvStep == TypeInv /\ [Next]_vars => TypeInv'
BY WorkerTypedStep, DataTypedStep, TargetTypedStep DEF TypeInv

\* The types of all variables, for every value of the constants.
THEOREM GcsTypeCorrect == Spec => []TypeOK
BY InitTyped, TypeInvStep, TypeInvTypes, PTL DEF Spec
-----------------------------------------------------------------------------
(* Whose step it is, and how a worker comes to where it may mark a row.    *)

LEMMA StepLocal ==
  ASSUME TypeInv, [Next]_vars, NEW w \in Workers
  PROVE  OwnStep(w) \/ (Still(w) /\ seen'[w] = seen[w])
<1>0. WorkerTyped /\ seen \in [Workers -> Nat] /\ marker.ours \in BOOLEAN
  BY DEF TypeInv, TargetTyped
<1> USE <1>0 DEF WorkerTyped
<1>1. ASSUME NEW v \in Workers, v # w,
             Bind(v) \/ CoreStep(v) \/ \E c \in Commands : Begin(v, c)
      PROVE  Still(w) /\ seen'[w] = seen[w]
  BY <1>1, BindIsMove, CoreStepIsMove, CoreLocal, MovesLocal
     DEF Bind, CoreStep, Begin, gcsVars
<1>2. ASSUME NEW v \in Workers, v # w, AdapterStep(v)
      PROVE  Still(w) /\ seen'[w] = seen[w]
  <2>1. Still(w)
    BY <1>2, AdapterMoves, FailMoves, MovesLocal
  <2>2. seen'[w] = seen[w]
    BY <1>2 DEF AdapterStep, Clean, Reload, Download, OpenSource, Upload
  <2> QED BY <2>1, <2>2
<1>3. ASSUME NEW v \in Workers, v # w, Fault(v)
      PROVE  Still(w) /\ seen'[w] = seen[w]
  BY <1>3, FaultMoves, FailMoves, MovesLocal
<1>4. CASE Environment \/ UNCHANGED vars
  BY <1>4 DEF Environment, FinalizeObject, ChangeSource, ForeignWrite, ReplaceMarker,
              gcsVars, coreVars, workerVars, vars, Still
<1> QED BY <1>1, <1>2, <1>3, <1>4 DEF Next, Step, OwnStep

\* A worker comes to a mark point from a download that was exact.
Arrives(w) ==
  /\ UNCHANGED <<blob, held, seen>>
  /\ cur'[w] = cur[w]
  /\ \/ pc[w] = "recheck"
     \/ /\ pc[w] \in DownloadPoints
        /\ Exact(w, Blob(w).bytes) /\ Blob(w).generation = seen[w]

LEMMA MarkArrives ==
  ASSUME TypeInv, NEW w \in Workers, OwnStep(w), pc'[w] \in MarkPoints
  PROVE  Arrives(w)
<1>0. WorkersTyped(Points, ObjectPoints)
  BY DEF TypeInv, WorkerTyped
<1> USE <1>0 DEF WorkersTyped, MarkPoints
<1>1. ASSUME NEW how, Stop(w, how) \/ Raise(w, how) PROVE FALSE
  BY <1>1 DEF Stop, Raise
<1>2. CASE CoreStep(w)
  BY <1>1, <1>2
     DEF CoreStep, gcsVars, Arrives, ReconcileItem, ReconcileRecheck, MarkVerified, Discover,
         Register, LoadPending, RunItem, RecordAttempt, HashSource, RecordFailure,
         VerifyItem, Goto, TakeFirst
<1>3. CASE AdapterStep(w)
  <2>1. pc[w] \in DownloadPoints /\ cur'[w] = cur[w]
    BY <1>1, <1>3, AdapterMoves, FailMoves DEF Goto, Leads
  <2>2. Download(w)
    BY <1>3, <2>1, Downloads
       DEF AdapterStep, Clean, Reload, OpenSource, Upload, ReadPoints
  <2> QED BY <1>1, <2>1, <2>2, FailMoves DEF Download, Arrives, steady
<1>4. CASE Fault(w)
  BY <1>1, <1>4, FaultMoves, FailMoves DEF Goto
<1>5. CASE Bind(w) \/ \E c \in Commands : Begin(w, c)
  BY <1>1, <1>5 DEF Bind, ReconcileLoad, RunLoad, VerifyLoad, LoadAll, Begin, Start
<1> QED BY <1>2, <1>3, <1>4, <1>5 DEF OwnStep

LEMMA DownloadArrives ==
  ASSUME TypeInv, NEW w \in Workers, OwnStep(w), pc'[w] \in DownloadPoints
  PROVE  /\ UNCHANGED blob /\ cur'[w] = cur[w]
         /\ seen'[w] = Blob(w).generation
<1>0. WorkersTyped(Points, ObjectPoints) /\ seen \in [Workers -> Nat]
  BY DEF TypeInv, WorkerTyped, TargetTyped
<1> USE <1>0, Downloads DEF WorkersTyped
<1>1. ASSUME NEW how, Stop(w, how) \/ Raise(w, how) PROVE FALSE
  BY <1>1 DEF Stop, Raise
<1>2. CASE CoreStep(w)
  BY <1>1, <1>2
     DEF CoreStep, ReconcileItem, ReconcileRecheck, MarkVerified, Discover, Register,
         LoadPending, RunItem, RecordAttempt, HashSource, RecordFailure, VerifyItem, Goto,
         TakeFirst
<1>3. CASE AdapterStep(w)
  <2>1. pc[w] \in ReadPoints /\ cur'[w] = cur[w]
    BY <1>1, <1>3, AdapterMoves, FailMoves DEF Goto, Leads
  <2>2. Reload(w)
    BY <1>3, <2>1 DEF AdapterStep, Clean, Download, OpenSource, Upload, ReadPoints
  <2>3. ASSUME Goto(w, "rItem") PROVE FALSE
    BY <2>3 DEF Goto
  <2> QED BY <1>1, <2>1, <2>2, <2>3, FailMoves DEF Reload
<1>4. CASE Fault(w)
  BY <1>1, <1>4, FaultMoves, FailMoves DEF Goto
<1>5. CASE Bind(w) \/ \E c \in Commands : Begin(w, c)
  BY <1>1, <1>5 DEF Bind, ReconcileLoad, RunLoad, VerifyLoad, LoadAll, Begin, Start
<1> QED BY <1>2, <1>3, <1>4, <1>5 DEF OwnStep

\* A row becomes VERIFIED only at a mark point.
LEMMA RowStep ==
  ASSUME TypeInv, [Next]_vars, NEW o \in Objects
  PROVE  /\ RowMoves(replica[o], replica'[o])
         /\ Verified(o)' => \/ Verified(o)
                            \/ \E w \in Workers : pc[w] \in {"rMark", "mark"} /\ cur[w] = o
<1>0. WorkerTyped /\ DataTyped
  BY DEF TypeInv
<1>1. ASSUME NEW w \in Workers, CoreStep(w)
      PROVE  /\ RowMoves(replica[o], replica'[o])
             /\ Verified(o)' => \/ Verified(o)
                                \/ pc[w] \in {"rMark", "mark"} /\ cur[w] = o
  <2>1. CoreMove(w, IdentityHolds(w)) /\ IdentityHolds(w) \in BOOLEAN
        /\ WorkersTyped(Points, ObjectPoints)
    BY <1>0, <1>1, CoreStepIsMove DEF WorkerTyped
  <2>2. /\ RowMoves(replica[o], replica'[o])
        /\ replica'[o].state = "VERIFIED" =>
             \/ replica[o].state = "VERIFIED"
             \/ pc[w] \in {"rMark", "mark"} /\ cur[w] = o
    BY <1>0, <2>1, CoreMoveRows, PointsFit
  <2> QED BY <2>2 DEF Verified
<1>2. ASSUME UNCHANGED replica
      PROVE  RowMoves(replica[o], replica'[o]) /\ (Verified(o)' => Verified(o))
  BY <1>2 DEF RowMoves, Verified
<1>3. ASSUME NEW w \in Workers, Bind(w) \/ AdapterStep(w) \/ Fault(w)
                                \/ \E c \in Commands : Begin(w, c)
      PROVE  UNCHANGED replica
  BY <1>3, AdapterMoves, FaultMoves
     DEF Bind, ReconcileLoad, RunLoad, VerifyLoad, Begin, Start, frame
<1>4. ASSUME Environment \/ UNCHANGED vars PROVE UNCHANGED replica
  BY <1>4
     DEF Environment, FinalizeObject, Finalize, ChangeSource, ForeignWrite, ReplaceMarker,
         coreVars, vars
<1>5. UNCHANGED replica \/ \E w \in Workers : CoreStep(w)
  BY <1>3, <1>4 DEF Next, Step
<1> QED BY <1>1, <1>2, <1>5
-----------------------------------------------------------------------------
(* What VERIFIED promises.                                                 *)

\* The inductive invariant behind VerifiedWasHeld: the history has what is stored,
\* and what a worker is about to mark.
HeldInv ==
  /\ TypeInv
  /\ \A u \in Uris : blob[u].bytes # Absent => blob[u].bytes \in held[u]
  /\ \A w \in Workers : pc[w] \in MarkPoints => Expected[cur[w]] \in held[Uri(w)]
  /\ VerifiedWasHeld

LEMMA HeldGrows ==
  ASSUME TypeInv, [Next]_vars, NEW u \in Uris
  PROVE  held[u] \subseteq held'[u]
BY BlobStep DEF Writes, Write, TypeInv, TargetTyped

LEMMA StoredHeldStep ==
  ASSUME HeldInv, [Next]_vars, NEW u \in Uris, blob'[u].bytes # Absent
  PROVE  blob'[u].bytes \in held'[u]
<1>1. CASE UNCHANGED <<blob, held>>
  BY <1>1 DEF HeldInv
<1>2. ASSUME NEW v \in Uris, NEW bytes \in Bytes \cup {Absent}, Writes(v, bytes)
      PROVE  blob'[u].bytes \in held'[u]
  BY <1>2 DEF Writes, Write, HeldInv, TypeInv, TargetTyped, Blobs
<1> QED BY <1>1, <1>2, BlobStep DEF HeldInv

LEMMA MarkedHeldStep ==
  ASSUME HeldInv, [Next]_vars, NEW w \in Workers, pc'[w] \in MarkPoints
  PROVE  Expected[cur'[w]] \in held'[UriOf[cur'[w]]]
<1>0. TypeInv /\ WorkerTyped
  BY DEF HeldInv, TypeInv
<1>1. CASE Still(w)
  <2>1. pc[w] \in MarkPoints /\ cur'[w] = cur[w] /\ Uri(w) \in Uris
    BY <1>0, <1>1, AtPoint DEF Still, MarkPoints, ObjectPoints
  <2> QED BY <1>0, <2>1, HeldGrows DEF HeldInv, Uri
<1>2. CASE Arrives(w)
  <2>1. /\ pc[w] \in MarkPoints \cup DownloadPoints
        /\ cur[w] \in Objects /\ Uri(w) \in Uris
    BY <1>0, <1>2, AtPoint DEF Arrives, MarkPoints, ObjectPoints
  <2>2. Expected[cur[w]] \in held[Uri(w)]
    <3>1. CASE pc[w] \in MarkPoints
      BY <3>1 DEF HeldInv
    <3>2. CASE Exact(w, Blob(w).bytes)
      BY <2>1, <3>2, AuthorityAssumption, GcsAssumption DEF HeldInv, Exact, Blob
    <3> QED BY <1>2, <3>1, <3>2 DEF Arrives, MarkPoints
  <2> QED BY <1>2, <2>2 DEF Arrives, Uri
<1> QED BY <1>0, <1>1, <1>2, StepLocal, MarkArrives

LEMMA VerifiedHeldStep ==
  ASSUME HeldInv, [Next]_vars, NEW o \in Objects, Verified(o)'
  PROVE  Expected[o] \in held'[UriOf[o]]
<1>0. TypeInv /\ UriOf[o] \in Uris
  BY AuthorityAssumption DEF HeldInv
<1>1. Expected[o] \in held[UriOf[o]]
  BY <1>0, RowStep DEF HeldInv, VerifiedWasHeld, MarkPoints, Uri
<1> QED BY <1>0, <1>1, HeldGrows

\* A VERIFIED row was never a false claim: its object was stored, exactly as the
\* ledger describes it, whoever changed sources and blobs at whatever moment.
THEOREM VerifiedWasThere == Spec => []VerifiedWasHeld
<1>1. ASSUME Init PROVE HeldInv
  <2>1. \A u \in Uris : blob[u].bytes # Absent => blob[u].bytes \in held[u]
    BY <1>1 DEF Init
  <2>2. \A w \in Workers : pc[w] \notin MarkPoints
    BY <1>1 DEF Init, CoreInit, MarkPoints
  <2>3. VerifiedWasHeld
    BY <1>1 DEF Init, CoreInit, AuthorityInit, VerifiedWasHeld, Verified
  <2> QED BY <1>1, <2>1, <2>2, <2>3, InitTyped DEF HeldInv
<1>2. ASSUME HeldInv, [Next]_vars PROVE HeldInv'
  <2>1. TypeInv'
    BY <1>2, TypeInvStep DEF HeldInv
  <2>2. (\A u \in Uris : blob[u].bytes # Absent => blob[u].bytes \in held[u])'
    BY <1>2, StoredHeldStep
  <2>3. (\A w \in Workers : pc[w] \in MarkPoints => Expected[cur[w]] \in held[Uri(w)])'
    BY <1>2, MarkedHeldStep DEF Uri
  <2>4. VerifiedWasHeld'
    BY <1>2, VerifiedHeldStep DEF VerifiedWasHeld
  <2> QED BY <2>1, <2>2, <2>3, <2>4 DEF HeldInv
<1>3. HeldInv => VerifiedWasHeld
  BY DEF HeldInv
<1> QED BY <1>1, <1>2, <1>3, PTL DEF Spec

\* Until somebody else acts, a name has only ever had the contents it has.
OnlyContents == foreign = 0 => \A u \in Uris : held[u] \subseteq {blob[u].bytes}

LEMMA OnlyContentsStep ==
  ASSUME TypeInv, OnlyContents, [Next]_vars
  PROVE  OnlyContents'
<1>0. foreign \in Nat
  BY DEF TypeInv, TargetTyped
<1>1. foreign' = foreign \/ foreign' = foreign + 1
  BY AdapterMoves, FaultMoves
     DEF Next, Step, Bind, CoreStep, Begin, Environment, ForeignWrite, ReplaceMarker,
         gcsVars, vars
<1>2. SUFFICES ASSUME foreign' = 0, NEW u \in Uris  PROVE held'[u] \subseteq {blob'[u].bytes}
  BY DEF OnlyContents
<1>3. foreign = 0 /\ held[u] \subseteq {blob[u].bytes} \cap Bytes
  BY <1>0, <1>1, <1>2 DEF OnlyContents, TypeInv, TargetTyped
<1>4. ASSUME NEW v \in Uris, NEW bytes \in Bytes \cup {Absent}, Writes(v, bytes)
      PROVE  held'[u] \subseteq {blob'[u].bytes}
  <2>1. blob[v].bytes = Absent /\ Write(v, bytes)
    BY <1>2, <1>3, <1>4 DEF Writes
  <2>2. CASE u # v
    BY <1>3, <2>1, <2>2 DEF Write, TypeInv, TargetTyped
  <2>3. CASE u = v
    <3>1. held[u] = {}
      BY <1>3, <2>1, <2>3, GcsAssumption
    <3> QED BY <2>1, <2>3, <3>1 DEF Write, TypeInv, TargetTyped
  <2> QED BY <2>2, <2>3
<1> QED BY <1>3, <1>4, BlobStep

\* As long as nobody else has written to the bucket, every VERIFIED row is true
\* now and not only once: its object is stored as the ledger describes it,
\* whatever became of the source and however many workers run.
THEOREM VerifiedIsStillThere == Spec => []VerifiedHolds
<1>1. Init => TypeInv /\ OnlyContents
  <2> SUFFICES ASSUME Init, NEW u \in Uris PROVE held[u] \subseteq {blob[u].bytes}
    BY InitTyped DEF OnlyContents
  <2> QED BY DEF Init
<1>2. TypeInv /\ OnlyContents /\ [Next]_vars => TypeInv' /\ OnlyContents'
  BY TypeInvStep, OnlyContentsStep
<1>3. OnlyContents /\ VerifiedWasHeld => VerifiedHolds
  BY AuthorityAssumption DEF OnlyContents, VerifiedWasHeld, VerifiedHolds
<1> QED BY <1>1, <1>2, <1>3, VerifiedWasThere, PTL DEF Spec
-----------------------------------------------------------------------------
(* What a worker may still rely on between its download and mark_verified. *)

\* No generation a worker saw is in the future.
SeenBefore(w) == pc[w] \in DownloadPoints \cup MarkPoints => seen[w] <= Blob(w).generation

SeenInv == /\ TypeInv
           /\ \A w \in Workers : SeenBefore(w)
           /\ AboutToMarkIsExact

\* A blob keeps its contents as long as it keeps its generation.
LEMMA GenerationStep ==
  ASSUME TypeInv, [Next]_vars, NEW u \in Uris
  PROVE  \/ blob'[u] = blob[u]
         \/ blob[u].generation < blob'[u].generation
<1>1. ASSUME NEW v \in Uris, NEW bytes \in Bytes \cup {Absent}, Writes(v, bytes)
      PROVE  blob'[u] = blob[u] \/ blob[u].generation < blob'[u].generation
  BY <1>1 DEF Writes, Write, TypeInv, TargetTyped, Blobs
<1> QED BY <1>1, BlobStep

LEMMA SeenTyped ==
  ASSUME TypeInv, NEW w \in Workers, pc[w] \in DownloadPoints \cup MarkPoints
  PROVE  Uri(w) \in Uris /\ seen[w] \in Nat /\ Blob(w).generation \in Nat
<1>1. Uri(w) \in Uris
  BY AtPoint DEF TypeInv, ObjectPoints, MarkPoints
<1> QED BY <1>1 DEF TypeInv, TargetTyped, Blobs, Blob

LEMMA SeenStep ==
  ASSUME SeenInv, [Next]_vars, NEW w \in Workers,
         pc'[w] \in DownloadPoints \cup MarkPoints
  PROVE  /\ seen'[w] <= blob'[UriOf[cur'[w]]].generation
         /\ pc'[w] \in MarkPoints /\ blob'[UriOf[cur'[w]]].generation = seen'[w] =>
              blob'[UriOf[cur'[w]]].bytes = Expected[cur'[w]]
<1>0. TypeInv /\ (TypeInv)'
  BY TypeInvStep DEF SeenInv
<1>1. MarkPoints \cap DownloadPoints = {}
  BY Downloads DEF MarkPoints
<1>2. CASE Still(w) /\ seen'[w] = seen[w]
  <2>1. /\ pc[w] \in DownloadPoints \cup MarkPoints /\ pc[w] = pc'[w]
        /\ cur'[w] = cur[w]
    BY <1>2 DEF Still
  <2>2. Uri(w) \in Uris /\ seen[w] \in Nat /\ Blob(w).generation \in Nat
    BY <1>0, <2>1, SeenTyped
  <2>3. blob'[Uri(w)].generation \in Nat
    BY <1>0, <2>2 DEF TypeInv, TargetTyped, Blobs
  <2>4. /\ seen[w] <= Blob(w).generation
        /\ pc[w] \in MarkPoints /\ Blob(w).generation = seen[w] =>
             Blob(w).bytes = Expected[cur[w]]
    BY <2>1 DEF SeenInv, SeenBefore, AboutToMarkIsExact, MarkPoints, Exact
  <2>5. \/ blob'[Uri(w)] = Blob(w)
        \/ Blob(w).generation < blob'[Uri(w)].generation
    BY <1>0, <2>2, GenerationStep DEF Blob
  <2> QED BY <1>2, <2>1, <2>2, <2>3, <2>4, <2>5 DEF Uri
<1>3. CASE OwnStep(w) /\ pc'[w] \in MarkPoints
  <2>1. Arrives(w)
    BY <1>0, <1>3, MarkArrives
  <2>2. pc[w] \in DownloadPoints \cup MarkPoints
    BY <2>1 DEF Arrives, MarkPoints
  <2>3. /\ seen[w] <= Blob(w).generation
        /\ Blob(w).generation = seen[w] => Blob(w).bytes = Expected[cur[w]]
    BY <2>1, <2>2
       DEF Arrives, SeenInv, SeenBefore, AboutToMarkIsExact, MarkPoints, Exact
  <2> QED BY <2>1, <2>3 DEF Arrives, Blob, Uri
<1>4. CASE OwnStep(w) /\ pc'[w] \in DownloadPoints
  <2>1. /\ UNCHANGED blob /\ cur'[w] = cur[w]
        /\ seen'[w] = Blob(w).generation
    BY <1>0, <1>4, DownloadArrives
  <2>2. seen'[w] \in Nat
    BY <1>0 DEF TypeInv, TargetTyped
  <2> QED BY <1>1, <1>4, <2>1, <2>2 DEF Blob, Uri
<1> QED BY <1>0, <1>2, <1>3, <1>4, StepLocal

\* What a worker is about to mark VERIFIED is there, unless somebody changed the
\* blob after the download: the pinned generation tells the two apart.
THEOREM MarksWhatIsThere == Spec => []AboutToMarkIsExact
<1>1. ASSUME Init PROVE SeenInv
  <2>1. \A w \in Workers : pc[w] \notin DownloadPoints \cup MarkPoints
    BY <1>1, Downloads DEF Init, CoreInit, MarkPoints
  <2> QED BY <1>1, <2>1, InitTyped DEF SeenInv, SeenBefore, AboutToMarkIsExact, MarkPoints
<1>2. ASSUME SeenInv, [Next]_vars PROVE SeenInv'
  <2>1. \A w \in Workers : SeenBefore(w)'
    BY <1>2, SeenStep DEF SeenBefore, Blob, Uri
  <2>2. AboutToMarkIsExact'
    BY <1>2, SeenStep DEF AboutToMarkIsExact, MarkPoints, Blob, Uri, Exact
  <2>3. TypeInv'
    BY <1>2, TypeInvStep DEF SeenInv
  <2> QED BY <2>1, <2>2, <2>3 DEF SeenInv
<1>3. SeenInv => AboutToMarkIsExact
  BY DEF SeenInv
<1> QED BY <1>1, <1>2, <1>3, PTL DEF Spec
-----------------------------------------------------------------------------
(* With sound sources and nobody else writing, the contract is kept, by    *)
(* any number of workers at once.                                          *)

Quiet == MaxChanges = 0 /\ MaxForeign = 0
Registered(o) == replica[o].state # "unregistered"

\* What one worker knows is in the ledger, and what it works on is registered.
KnownBy(w) ==
  /\ found[w] \subseteq ledger
  /\ \A o \in todo[w] : Registered(o)
  /\ pc[w] \in ObjectPoints => Registered(cur[w])
  /\ pc[w] \in MarkPoints => Exact(w, Blob(w).bytes)

\* The inductive invariant behind the refinement.
QuietInv ==
  /\ TypeInv
  /\ \A o \in ledger : source[UriOf[o]] = Expected[o]
  /\ \A o \in Objects : Registered(o) => o \in ledger
  /\ \A o \in Objects : Verified(o) => blob[UriOf[o]].bytes = Expected[o]
  /\ \A w \in Workers : KnownBy(w)

LEMMA RegisteredKept ==
  ASSUME TypeInv, [Next]_vars, NEW o \in Objects, Registered(o)
  PROVE  Registered(o)'
<1>1. replica[o] \in Rows /\ RowMoves(replica[o], replica'[o])
  BY RowStep DEF TypeInv, DataTyped
<1> QED BY <1>1 DEF Registered, RowMoves, Rows

\* A blob of a worker's making is a create of the contract.
Publishes(w) ==
  /\ pc[w] = "upload"
  /\ Create(w, Expected[cur[w]])
  /\ UNCHANGED <<replica, ledger, source>>

LEMMA QuietBlobs ==
  ASSUME Quiet, QuietInv, [Next]_vars
  PROVE  UNCHANGED <<blob, held>> \/ \E w \in Workers : Publishes(w)
<1>1. ASSUME NEW w \in Workers, pc[w] = "upload", UNCHANGED <<replica, ledger, source>>,
             \E bytes \in Readable(w) : Create(w, bytes)
      PROVE  Publishes(w)
  <2>1. cur[w] \in Objects /\ Registered(cur[w])
    BY <1>1, AtPoint DEF QuietInv, TypeInv, KnownBy, ObjectPoints, InPublish
  <2>2. source[Uri(w)] = Expected[cur[w]]
    BY <2>1 DEF QuietInv, Uri
  <2>3. Readable(w) = {Expected[cur[w]]}
    BY <2>1, <2>2, AuthorityAssumption, CoreAssumption DEF Readable
  <2> QED BY <1>1, <2>3 DEF Publishes
<1>2. ASSUME NEW w \in Workers, AdapterStep(w)
      PROVE  UNCHANGED <<blob, held>> \/ Publishes(w)
  BY <1>1, <1>2, AdapterMoves
     DEF AdapterStep, Clean, Reload, Download, OpenSource, Upload, frame
<1>3. ASSUME NEW w \in Workers, Fault(w)
      PROVE  UNCHANGED <<blob, held>> \/ Publishes(w)
  BY <1>1, <1>3, FaultMoves DEF Fault, RequestFault, ReplyLost, Unmapped, gcsVars
<1>4. ASSUME NEW w \in Workers, Bind(w) \/ CoreStep(w) \/ \E c \in Commands : Begin(w, c)
      PROVE  UNCHANGED <<blob, held>>
  BY <1>4 DEF Bind, CoreStep, Begin, gcsVars
<1>5. ASSUME NEW u \in Uris, NEW bytes \in Bytes \cup {Absent}, ForeignWrite(u, bytes)
      PROVE  FALSE
  BY <1>5 DEF ForeignWrite, Quiet, QuietInv, TypeInv, TargetTyped
<1>6. CASE UNCHANGED vars \/ (\E ours \in BOOLEAN : ReplaceMarker(ours))
           \/ (Environment /\ UNCHANGED gcsVars)
  BY <1>6 DEF vars, gcsVars, ReplaceMarker
<1> QED BY <1>2, <1>3, <1>4, <1>5, <1>6 DEF Next, Step, Environment

\* No blob that is there ever changes.
LEMMA StoredKept ==
  ASSUME Quiet, QuietInv, [Next]_vars, NEW u \in Uris, blob[u].bytes # Absent
  PROVE  blob'[u] = blob[u]
<1>1. ASSUME NEW w \in Workers, Publishes(w) PROVE blob'[u] = blob[u]
  BY <1>1 DEF Publishes, Create, Write, Blob, QuietInv, TypeInv, TargetTyped
<1> QED BY <1>1, QuietBlobs

LEMMA QuietSources ==
  ASSUME Quiet, QuietInv, [Next]_vars
  PROVE  /\ ledger \subseteq ledger'
         /\ \A o \in ledger' : source'[UriOf[o]] = Expected[o]
<1>1. ASSUME NEW p \in Objects, FinalizeObject(p), NEW o \in ledger'
      PROVE  ledger \subseteq ledger' /\ source'[UriOf[o]] = Expected[o]
  <2>1. o \in ledger \cup {p} /\ o \in Objects /\ UriOf[p] \in Uris
    BY <1>1, AuthorityAssumption DEF FinalizeObject, Finalize, QuietInv, TypeInv, DataTyped
  <2>2. CASE \E q \in ledger : UriOf[q] = UriOf[p]
    <3>1. PICK q \in ledger : UriOf[q] = UriOf[p]
      BY <2>2
    <3>2. q \in Objects /\ source[UriOf[p]] = Expected[p]
      BY <3>1, AuthorityAssumption DEF QuietInv, TypeInv, DataTyped
    <3> QED BY <1>1, <2>1, <2>2, <3>2 DEF FinalizeObject, Finalize, QuietInv
  <2>3. CASE ~\E q \in ledger : UriOf[q] = UriOf[p]
    <3>1. source' = [source EXCEPT ![UriOf[p]] = Expected[p]]
      BY <1>1, <2>3 DEF FinalizeObject
    <3> QED BY <1>1, <2>1, <2>3, <3>1
            DEF FinalizeObject, Finalize, QuietInv, TypeInv, DataTyped
  <2> QED BY <2>2, <2>3
<1>2. ASSUME NEW u \in Uris, NEW bytes \in Bytes \cup {Missing}, ChangeSource(u, bytes)
      PROVE  FALSE
  BY <1>2 DEF ChangeSource, Quiet, QuietInv, TypeInv, DataTyped
<1>3. ASSUME NEW w \in Workers, CoreStep(w) PROVE UNCHANGED <<ledger, source>>
  BY <1>3, CoreStepIsMove, CoreMoveDomain DEF QuietInv, TypeInv
<1>4. ASSUME NEW w \in Workers, Bind(w) \/ AdapterStep(w) \/ Fault(w)
                                \/ \E c \in Commands : Begin(w, c)
      PROVE  UNCHANGED <<ledger, source>>
  BY <1>4, AdapterMoves, FaultMoves
     DEF Bind, ReconcileLoad, RunLoad, VerifyLoad, Begin, Start, frame
<1>5. \/ UNCHANGED <<ledger, source>>
      \/ \E p \in Objects : FinalizeObject(p)
  BY <1>2, <1>3, <1>4
     DEF Next, Step, Environment, ForeignWrite, ReplaceMarker, coreVars, vars
<1>6. ASSUME NEW p \in Objects, FinalizeObject(p) PROVE ledger \subseteq ledger'
  BY <1>6 DEF FinalizeObject, Finalize
<1> QED BY <1>1, <1>5, <1>6 DEF QuietInv

LEMMA OwnStepIterates ==
  ASSUME TypeInv, NEW w \in Workers, OwnStep(w)
  PROVE  Iterates(w, ObjectPoints)
<1>0. WorkersTyped(Points, ObjectPoints) /\ marker.ours \in BOOLEAN
  BY DEF TypeInv, WorkerTyped, TargetTyped
<1> USE <1>0, PointsFit
<1>1. ASSUME NEW finding, Fail(w, finding), pc[w] \in ObjectPoints
      PROVE  Iterates(w, ObjectPoints)
  BY <1>1, FailMoves, MovesIterate
<1>2. CASE Bind(w) \/ CoreStep(w)
  BY <1>2, BindIsMove, CoreStepIsMove, CoreIterates
<1>3. CASE AdapterStep(w)
  BY <1>1, <1>3, AdapterMoves, MovesIterate
<1>4. CASE Fault(w)
  <2>1. CASE pc[w] = "upload" /\ Goto(w, "adopt")
    BY <2>1, MovesIterate DEF ObjectPoints, InPublish
  <2> QED BY <1>1, <1>4, <2>1, FaultMoves, MovesIterate
<1>5. ASSUME NEW c \in Commands, Begin(w, c) PROVE Iterates(w, ObjectPoints)
  BY <1>5, MovesIterate DEF Begin
<1> QED BY <1>2, <1>3, <1>4, <1>5 DEF OwnStep

\* Rows and blobs never change in one step, and this is how the rows do.
LEMMA QuietRows ==
  ASSUME QuietInv, [Next]_vars
  PROVE  \/ StatesKept
         \/ /\ UNCHANGED blob
            /\ \E w \in Workers : \/ pc[w] \in {"rMark", "mark"} /\ VerifyRow(cur[w])
                                  \/ RegisterRows(found[w])
<1>0. DataTyped
  BY DEF QuietInv, TypeInv
<1>1. ASSUME UNCHANGED replica PROVE StatesKept
  BY <1>1 DEF StatesKept
<1>2. ASSUME NEW w \in Workers, CoreStep(w)
      PROVE  /\ UNCHANGED blob
             /\ \/ StatesKept
                \/ pc[w] \in {"rMark", "mark"} /\ VerifyRow(cur[w])
                \/ RegisterRows(found[w])
  BY <1>0, <1>2, CoreStepIsMove, CoreMoveStates DEF CoreStep, gcsVars
<1>3. ASSUME NEW w \in Workers, Bind(w) \/ AdapterStep(w) \/ Fault(w)
                                \/ \E c \in Commands : Begin(w, c)
      PROVE  UNCHANGED replica
  BY <1>3, AdapterMoves, FaultMoves
     DEF Bind, ReconcileLoad, RunLoad, VerifyLoad, Begin, Start, frame
<1>4. ASSUME Environment \/ UNCHANGED vars PROVE UNCHANGED replica
  BY <1>4
     DEF Environment, FinalizeObject, Finalize, ChangeSource, ForeignWrite, ReplaceMarker,
         coreVars, vars
<1>5. UNCHANGED replica \/ \E w \in Workers : CoreStep(w)
  BY <1>3, <1>4 DEF Next, Step
<1> QED BY <1>1, <1>2, <1>5

LEMMA QuietRegistered ==
  ASSUME Quiet, QuietInv, [Next]_vars, NEW o \in Objects, Registered(o)'
  PROVE  o \in ledger'
<1>1. CASE Registered(o)
  BY <1>1, QuietSources DEF QuietInv
<1>2. CASE ~Registered(o)
  <2>1. PICK w \in Workers : \/ pc[w] \in {"rMark", "mark"} /\ VerifyRow(cur[w])
                             \/ RegisterRows(found[w])
    BY <1>2, QuietRows DEF StatesKept, Registered
  <2>2. replica[o] \in Rows
    BY DEF QuietInv, TypeInv, DataTyped
  <2>3. CASE VerifyRow(cur[w])
    BY <1>2, <2>2, <2>3 DEF VerifyRow, Pending, Registered, QuietInv, TypeInv, DataTyped
  <2>4. CASE RegisterRows(found[w])
    <3>1. o \in found[w]
      BY <1>2, <2>4 DEF RegisterRows, Registered
    <3> QED BY <3>1, QuietSources DEF QuietInv, KnownBy
  <2> QED BY <2>1, <2>3, <2>4
<1> QED BY <1>1, <1>2

LEMMA QuietVerified ==
  ASSUME Quiet, QuietInv, [Next]_vars, NEW o \in Objects, Verified(o)'
  PROVE  blob'[UriOf[o]].bytes = Expected[o]
<1>0. UriOf[o] \in Uris /\ Expected[o] # Absent /\ TypeInv
  BY AuthorityAssumption, GcsAssumption DEF QuietInv
<1>1. blob[UriOf[o]].bytes = Expected[o]
  BY <1>0, RowStep DEF QuietInv, KnownBy, MarkPoints, Exact, Blob, Uri
<1> QED BY <1>0, <1>1, StoredKept

LEMMA QuietKnown ==
  ASSUME Quiet, QuietInv, [Next]_vars, NEW w \in Workers
  PROVE  /\ found'[w] \subseteq ledger'
         /\ \A o \in todo'[w] : Registered(o)'
         /\ pc'[w] \in ObjectPoints => replica'[cur'[w]].state # "unregistered"
         /\ pc'[w] \in MarkPoints => blob'[UriOf[cur'[w]]].bytes = Expected[cur'[w]]
<1>0. TypeInv /\ KnownBy(w) /\ WorkersTyped(Points, ObjectPoints)
  BY DEF QuietInv, TypeInv, WorkerTyped
<1>1. Iterates(w, ObjectPoints)
  BY <1>0, StepLocal, OwnStepIterates DEF Still, Iterates
<1>2. found'[w] \subseteq ledger'
  BY <1>0, <1>1, QuietSources DEF Iterates, KnownBy
<1>3. \A o \in todo'[w] : Registered(o)'
  <2> SUFFICES ASSUME NEW o \in todo'[w] PROVE Registered(o)'
    OBVIOUS
  <2>1. CASE o \in todo[w]
    BY <1>0, <2>1, RegisteredKept DEF KnownBy, WorkersTyped
  <2>2. CASE o \in PendingObjects' \cup VerifiedObjects'
    BY <2>2 DEF PendingObjects, VerifiedObjects, Pending, Verified, Registered
  <2> QED BY <1>1, <2>1, <2>2 DEF Iterates
<1>4. ASSUME pc'[w] \in ObjectPoints PROVE replica'[cur'[w]].state # "unregistered"
  <2>1. cur'[w] \in Objects /\ Registered(cur'[w])
    BY <1>0, <1>1, <1>4 DEF Iterates, KnownBy, WorkersTyped
  <2>2. ASSUME NEW o \in Objects, o = cur'[w] PROVE replica'[o].state # "unregistered"
    BY <1>0, <2>1, <2>2, RegisteredKept DEF Registered
  <2> QED BY <2>1, <2>2
<1>5. ASSUME pc'[w] \in MarkPoints PROVE blob'[UriOf[cur'[w]]].bytes = Expected[cur'[w]]
  <2>1. /\ cur'[w] = cur[w] /\ pc[w] \in MarkPoints \cup DownloadPoints
        /\ Exact(w, Blob(w).bytes)
    BY <1>0, <1>5, StepLocal, MarkArrives DEF Still, Arrives, KnownBy, MarkPoints
  <2>2. cur[w] \in Objects /\ Uri(w) \in Uris
    BY <1>0, <2>1, AtPoint DEF TypeInv, MarkPoints, ObjectPoints
  <2>3. blob[Uri(w)].bytes # Absent
    BY <2>1, <2>2, AuthorityAssumption, GcsAssumption DEF Exact, Blob
  <2> QED BY <2>1, <2>2, <2>3, StoredKept DEF Exact, Blob, Uri
<1> QED BY <1>2, <1>3, <1>4, <1>5

LEMMA QuietInvInductive ==
  ASSUME Quiet
  PROVE  (Init => QuietInv) /\ (QuietInv /\ [Next]_vars => QuietInv')
<1>1. ASSUME Init PROVE QuietInv
  <2>1. \A o \in Objects : ~Registered(o) /\ ~Verified(o)
    BY <1>1 DEF Init, CoreInit, AuthorityInit, Registered, Verified
  <2>2. \A w \in Workers : KnownBy(w)
    BY <1>1, Downloads DEF Init, CoreInit, KnownBy, MarkPoints, ObjectPoints, InPublish,
                           ReadPoints
  <2>3. ledger = {}
    BY <1>1 DEF Init, CoreInit, AuthorityInit
  <2> QED BY <1>1, <2>1, <2>2, <2>3, InitTyped DEF QuietInv
<1>2. ASSUME QuietInv, [Next]_vars PROVE QuietInv'
  <2>1. TypeInv'
    BY <1>2, TypeInvStep DEF QuietInv
  <2>2. \A w \in Workers : KnownBy(w)'
    BY <1>2, QuietKnown DEF KnownBy, Registered, Exact, Blob, Uri
  <2>3. (\A o \in ledger : source[UriOf[o]] = Expected[o])'
    BY <1>2, QuietSources
  <2>4. (\A o \in Objects : Registered(o) => o \in ledger)'
    BY <1>2, QuietRegistered
  <2>5. (\A o \in Objects : Verified(o) => blob[UriOf[o]].bytes = Expected[o])'
    BY <1>2, QuietVerified
  <2> QED BY <2>1, <2>2, <2>3, <2>4, <2>5 DEF QuietInv
<1> QED BY <1>1, <1>2

\* The refinement: what the contract's step is for a step of the workers.
LEMMA ContractStep ==
  ASSUME Quiet, QuietInv, [Next]_vars
  PROVE  [Contract!Next]_(Contract!contractVars)
<1> DEFINE row == [o \in Objects |-> replica[o].state]
           stored == [u \in Uris |-> blob[u].bytes]
<1>1. TypeInv /\ DataTyped /\ TargetTyped /\ WorkerTyped
  BY DEF QuietInv, TypeInv
<1>2. ASSUME NEW w \in Workers, Publishes(w) PROVE Contract!Next
  <2>1. cur[w] \in Objects /\ Uri(w) \in Uris /\ Registered(cur[w])
    BY <1>1, <1>2, AtPoint
       DEF Publishes, ObjectPoints, InPublish, QuietInv, KnownBy
  <2>2. stored' = [stored EXCEPT ![UriOf[cur[w]]] = Expected[cur[w]]]
    BY <1>1, <1>2, <2>1 DEF Publishes, Create, Write, TargetTyped, Uri
  <2>3. row' = row /\ stored[UriOf[cur[w]]] = Absent
    BY <1>2, <2>1 DEF Publishes, Create, Blob, Uri
  <2>4. row[cur[w]] = "PENDING"
    <3>1. ~Verified(cur[w])
      BY <2>1, <2>3, AuthorityAssumption, GcsAssumption DEF QuietInv, Uri
    <3> QED BY <1>1, <2>1, <3>1 DEF Registered, Verified, DataTyped, Rows, RowStates
  <2>5. \E o \in Objects : Contract!Create(o)
    BY <2>1, <2>2, <2>3, <2>4 DEF Contract!Create
  <2> QED BY <2>5 DEF Contract!Next
<1>3. ASSUME NEW w \in Workers, pc[w] \in {"rMark", "mark"}, VerifyRow(cur[w]), UNCHANGED blob
      PROVE  Contract!Next
  <2>1. cur[w] \in Objects /\ Uri(w) \in Uris
    BY <1>1, <1>3, AtPoint DEF ObjectPoints
  <2>2. stored' = stored /\ stored[UriOf[cur[w]]] = Expected[cur[w]]
    BY <1>3, <2>1 DEF QuietInv, KnownBy, MarkPoints, Exact, Blob, Uri
  <2>3. row[cur[w]] = "PENDING" /\ row' = [row EXCEPT ![cur[w]] = "VERIFIED"]
    BY <1>1, <1>3, <2>1 DEF VerifyRow, Pending, DataTyped
  <2>4. \E o \in Objects : Contract!Accept(o)
    BY <2>1, <2>2, <2>3 DEF Contract!Accept
  <2> QED BY <2>4 DEF Contract!Next
<1>4. ASSUME NEW w \in Workers, RegisterRows(found[w]), UNCHANGED blob
      PROVE  Contract!Next
  <2> DEFINE T == {o \in found[w] : replica[o].state = "unregistered"}
  <2>1. T \in SUBSET Objects
    BY <1>1 DEF WorkerTyped, WorkersTyped
  <2>2. row' = [o \in Objects |-> IF o \in T THEN "PENDING" ELSE row[o]]
    BY <1>1, <1>4 DEF RegisterRows, DataTyped, Rows
  <2>3. \A o \in T : row[o] = "unregistered"
    BY <2>1
  <2>4. stored' = stored
    BY <1>4
  <2> HIDE DEF T
  <2>5. \E S \in SUBSET Objects : Contract!Register(S)
    BY <2>1, <2>2, <2>3, <2>4 DEF Contract!Register
  <2> QED BY <2>5 DEF Contract!Next
<1>5. ASSUME StatesKept, UNCHANGED blob PROVE UNCHANGED Contract!contractVars
  BY <1>5 DEF StatesKept, Contract!contractVars
<1>6. \/ UNCHANGED blob
      \/ \E w \in Workers : Publishes(w)
  BY QuietBlobs
<1> QED BY <1>2, <1>3, <1>4, <1>5, <1>6, QuietRows

\* While sources stay what the ledger says and nobody else writes to the bucket,
\* any number of workers keep the contract, through lost replies and crashes.
THEOREM WorkersKeepContract == ASSUME Quiet PROVE Spec => GcsContractSpec
<1>1. ASSUME Init PROVE Contract!Init
  <2>1. [o \in Objects |-> replica[o].state] = [o \in Objects |-> "unregistered"]
    BY <1>1 DEF Init, CoreInit, AuthorityInit
  <2>2. [u \in Uris |-> blob[u].bytes] \in [Uris -> {Absent} \cup Preexisting]
    BY <1>1 DEF Init
  <2> QED BY <2>1, <2>2 DEF Contract!Init
<1> QED
  BY <1>1, ContractStep, QuietInvInductive, PTL DEF Spec, GcsContractSpec, Contract!Spec
-----------------------------------------------------------------------------
(* The rows, as for NFS: the schema is respected, attempts come first.     *)

\* No transaction of the core is one the v10 schema would abort.
THEOREM GcsSchemaIsRespected == Spec => SchemaRespected
<1>1. Init => TypeInv /\ FreshRows
  BY InitTyped DEF Init, CoreInit, AuthorityInit, FreshRows
<1>2. TypeInv /\ FreshRows /\ [Next]_vars =>
        /\ TypeInv' /\ FreshRows'
        /\ [\A o \in Objects : SchemaAllows(replica[o], replica'[o])]_replica
  BY TypeInvStep, RowStep, RowsRespectSchema DEF TypeInv
<1> QED BY <1>1, <1>2, PTL DEF Spec, SchemaRespected

\* From record_attempt on the row says so, whatever others do to the row.
TriedFirst ==
  \A w \in Workers : pc[w] \in {"hash"} \cup InPublish => replica[cur[w]].attempted

\* The way to publish_immutable leads through record_attempt.
LEMMA PublishArrives ==
  ASSUME TypeInv, NEW w \in Workers, OwnStep(w), pc'[w] \in {"hash"} \cup InPublish
  PROVE  /\ cur'[w] = cur[w]
         /\ \/ pc[w] \in {"hash"} \cup InPublish
            \/ pc[w] = "attempt" /\ AttemptRow(cur[w])
<1>0. WorkersTyped(Points, ObjectPoints)
  BY DEF TypeInv, WorkerTyped
<1> USE <1>0 DEF WorkersTyped, InPublish
<1>1. ASSUME NEW how, Stop(w, how) \/ Raise(w, how) PROVE FALSE
  BY <1>1 DEF Stop, Raise
<1>2. CASE CoreStep(w)
  BY <1>1, <1>2
     DEF CoreStep, ReconcileItem, ReconcileRecheck, MarkVerified, Discover, Register,
         LoadPending, RunItem, RecordAttempt, HashSource, RecordFailure, VerifyItem, Goto,
         TakeFirst
<1>3. CASE AdapterStep(w)
  <2>1. ASSUME NEW finding, Fail(w, finding) PROVE FALSE
    BY <1>1, <2>1, FailMoves
  <2>2. CASE Clean(w) \/ OpenSource(w) \/ Upload(w)
    BY <2>1, <2>2 DEF Clean, OpenSource, Upload, Goto
  <2>3. CASE Reload(w)
    BY <2>1, <2>3 DEF Reload, ReadPoints, Downloading, Goto
  <2>4. CASE Download(w)
    <3>1. Goto(w, Accepted[pc[w]]) /\ pc[w] \in DownloadPoints
      BY <2>1, <2>4 DEF Download
    <3> QED BY <3>1, Downloads DEF Goto
  <2> QED BY <1>3, <2>2, <2>3, <2>4 DEF AdapterStep
<1>4. CASE Fault(w)
  BY <1>1, <1>4, FaultMoves, FailMoves DEF Goto
<1>5. CASE Bind(w) \/ \E c \in Commands : Begin(w, c)
  BY <1>1, <1>5 DEF Bind, ReconcileLoad, RunLoad, VerifyLoad, LoadAll, Begin, Start
<1> QED BY <1>2, <1>3, <1>4, <1>5 DEF OwnStep

LEMMA TriedFirstStep ==
  ASSUME TypeInv, TriedFirst, [Next]_vars
  PROVE  TriedFirst'
<1>0. TypeInv' /\ WorkerTyped /\ DataTyped
  BY TypeInvStep DEF TypeInv
<1>1. ASSUME NEW o \in Objects, replica[o].attempted PROVE replica'[o].attempted
  <2>1. replica[o] \in Rows /\ RowMoves(replica[o], replica'[o])
    BY <1>0, RowStep DEF DataTyped
  <2> QED BY <1>1, <2>1 DEF RowMoves, Rows
<1> SUFFICES ASSUME NEW w \in Workers, pc'[w] \in {"hash"} \cup InPublish
             PROVE  replica'[cur'[w]].attempted
  BY DEF TriedFirst
<1>2. CASE Still(w)
  <2>1. cur[w] \in Objects /\ cur'[w] = cur[w] /\ pc[w] \in {"hash"} \cup InPublish
    BY <1>0, <1>2, AtPoint DEF Still, ObjectPoints
  <2> QED BY <1>1, <2>1 DEF TriedFirst
<1>3. CASE OwnStep(w)
  <2>1. /\ cur'[w] = cur[w]
        /\ \/ pc[w] \in {"hash"} \cup InPublish
           \/ pc[w] = "attempt" /\ AttemptRow(cur[w])
    BY <1>3, PublishArrives
  <2>2. cur[w] \in Objects
    BY <1>0, <2>1, AtPoint DEF ObjectPoints
  <2>3. CASE AttemptRow(cur[w])
    BY <1>0, <2>1, <2>2, <2>3 DEF AttemptRow, DataTyped, Rows
  <2> QED BY <1>1, <2>1, <2>2, <2>3 DEF TriedFirst
<1> QED BY <1>2, <1>3, StepLocal

\* Only an upload creates a blob, at the name of the object it is for.
LEMMA UploadsOnly ==
  ASSUME TypeInv, [Next]_vars, foreign' = foreign, NEW u \in Uris, blob'[u] # blob[u]
  PROVE  \E w \in Workers : pc[w] = "upload" /\ Uri(w) = u
<1>1. ASSUME NEW w \in Workers, NEW bytes, Create(w, bytes) PROVE Uri(w) = u
  BY <1>1 DEF Create, Write, TypeInv, TargetTyped
<1>2. ASSUME NEW w \in Workers, AdapterStep(w) \/ Fault(w)
      PROVE  pc[w] = "upload" /\ Uri(w) = u
  BY <1>1, <1>2
     DEF AdapterStep, Clean, Reload, Download, OpenSource, Upload, Fault, RequestFault,
         ReplyLost, Unmapped, gcsVars
<1>3. ASSUME NEW w \in Workers, Bind(w) \/ CoreStep(w) \/ \E c \in Commands : Begin(w, c)
      PROVE  FALSE
  BY <1>3 DEF Bind, CoreStep, Begin, gcsVars
<1>4. CASE Environment \/ UNCHANGED vars
  <2>1. foreign \in Nat
    BY GcsAssumption DEF TypeInv, TargetTyped
  <2> QED BY <1>4, <2>1 DEF Environment, ForeignWrite, ReplaceMarker, gcsVars, vars
<1> QED BY <1>2, <1>3, <1>4 DEF Next, Step

\* Every blob a worker creates, with whatever bytes and however its reply gets
\* lost, is at the name of an object whose row already says that it was attempted.
THEOREM GcsAttemptComesFirst ==
  Spec => [][foreign' = foreign =>
               \A u \in Uris : blob'[u] # blob[u] =>
                 \E o \in Objects : UriOf[o] = u /\ replica[o].attempted]_blob
<1>1. Init => TypeInv /\ TriedFirst
  BY InitTyped DEF Init, CoreInit, TriedFirst, InPublish
<1>2. ASSUME TypeInv, TriedFirst, [Next]_vars, foreign' = foreign,
             NEW u \in Uris, blob'[u] # blob[u]
      PROVE  \E o \in Objects : UriOf[o] = u /\ replica[o].attempted
  <2>1. PICK w \in Workers : pc[w] = "upload" /\ Uri(w) = u
    BY <1>2, UploadsOnly
  <2>2. cur[w] \in Objects
    BY <1>2, <2>1, AtPoint DEF TypeInv, ObjectPoints, InPublish
  <2> QED BY <1>2, <2>1, <2>2 DEF TriedFirst, InPublish, Uri
<1>3. TypeInv /\ TriedFirst /\ [Next]_vars =>
        /\ TypeInv' /\ TriedFirst'
        /\ [foreign' = foreign =>
              \A u \in Uris : blob'[u] # blob[u] =>
                \E o \in Objects : UriOf[o] = u /\ replica[o].attempted]_blob
  BY <1>2, TypeInvStep, TriedFirstStep
<1> QED BY <1>1, <1>3, PTL DEF Spec
-----------------------------------------------------------------------------
(* A run that passes.                                                      *)

RunAt == {"attempt", "hash", "failing", "mark"} \cup InPublish

LEMMA RunAtFits == RunPoints(RunAt, ObjectPoints)
BY DEF RunPoints, RunAt, ObjectPoints, InPublish

\* An adapter step goes on in the loop that it was called from.
LEMMA AdapterLeads ==
  ASSUME NEW w \in Workers, AdapterStep(w)
  PROVE  /\ pc[w] # "idle"
         /\ \/ \E point : /\ Goto(w, point)
                          /\ point \notin {"pending", "item"}
                          /\ point \in Verifying => pc[w] \in Verifying
                          /\ point \in RunAt => pc[w] \in RunAt
            \/ \E finding \in Findings : Fail(w, finding)
<1> USE DEF RunAt, InPublish, ReadPoints, Verifying
<1>1. CASE Clean(w) \/ OpenSource(w) \/ Upload(w)
  BY <1>1 DEF Clean, OpenSource, Upload, Findings
<1>2. CASE Reload(w)
  <2>1. CASE Goto(w, Downloading[pc[w]])
    BY <1>2, <2>1 DEF Reload, Downloading
  <2> QED BY <1>2, <2>1 DEF Reload, Findings
<1>3. CASE Download(w)
  <2>1. CASE Goto(w, Accepted[pc[w]])
    BY <1>3, <2>1, Downloads DEF Download, Accepted
  <2> QED BY <1>3, <2>1, Downloads DEF Download, Rejected, Findings
<1> QED BY <1>1, <1>2, <1>3 DEF AdapterStep

LEMMA FaultLeads ==
  ASSUME NEW w \in Workers, Fault(w)
  PROVE  \/ \E how \in Outcomes \ {"pass"} : Stop(w, how)
         \/ \E finding \in Findings : Fail(w, finding)
         \/ pc[w] = "upload" /\ Goto(w, "adopt")
BY DEF Fault, RequestFault, ReplyLost, Unmapped, Crash, DatabaseFault, IdentityFault,
       Findings, Outcomes

LEMMA AccountedStep ==
  ASSUME TypeInv, AllAccounted(RunAt), [Next]_vars
  PROVE  AllAccounted(RunAt)'
<1>1. /\ WorkerTyped /\ DataTyped /\ WorkersTyped(Points, ObjectPoints)
      /\ marker.ours \in BOOLEAN
  BY DEF TypeInv, WorkerTyped, TargetTyped
<1>2. RowsGrow
  BY <1>1, RowStep, MovesGrow
<1> SUFFICES ASSUME NEW w \in Workers PROVE Accounted(w, RunAt)'
  BY DEF AllAccounted
<1>3. Accounted(w, RunAt)
  BY DEF AllAccounted
<1> USE PointsFit, RunAtFits
<1>4. CASE Still(w)
  BY <1>2, <1>3, <1>4, StillAccounted
<1>5. CASE Bind(w)
  BY <1>1, <1>3, <1>5, BindIsMove, LoadAccounted
<1>6. CASE CoreStep(w)
  BY <1>1, <1>3, <1>6, CoreStepIsMove, CoreAccounted
<1>7. ASSUME NEW finding \in Findings, Fail(w, finding) PROVE Accounted(w, RunAt)'
  <2>1. CASE Raise(w, finding) /\ pc[w] \in InPublish
    BY <1>1, <1>2, <1>3, <2>1, RaiseAccounted DEF RunAt
  <2>2. CASE Stop(w, finding)
    BY <1>1, <2>2, StopAccounted DEF Findings, Outcomes
  <2> QED BY <1>7, <2>1, <2>2 DEF Fail
<1>8. CASE AdapterStep(w)
  <2>1. outcome[w] # "pass"
    BY <1>3, <1>8, AdapterLeads DEF Accounted
  <2> QED BY <1>1, <1>2, <1>3, <1>7, <1>8, <2>1, AdapterLeads, GotoAccounted
<1>9. CASE Fault(w)
  <2>1. CASE pc[w] = "upload" /\ Goto(w, "adopt")
    <3>1. outcome[w] # "pass"
      BY <1>3, <2>1 DEF Accounted
    <3>2. "upload" \in RunAt /\ "adopt" \in RunAt /\ "adopt" \notin Verifying
      BY DEF RunAt, InPublish, Verifying
    <3> QED BY <1>1, <1>2, <1>3, <2>1, <3>1, <3>2, GotoAccounted
  <2> QED BY <1>1, <1>7, <1>9, <2>1, FaultLeads, StopAccounted
<1>10. ASSUME NEW c \in Commands, Begin(w, c) PROVE Accounted(w, RunAt)'
  BY <1>1, <1>10, StartAccounted DEF Begin
<1> QED BY <1>4, <1>5, <1>6, <1>8, <1>9, <1>10, StepLocal DEF OwnStep

\* A run that ends with "pass" leaves every object it discovered VERIFIED, with
\* any number of workers, lost replies, foreign blobs and markers replaced.
THEOREM GcsPassedRunsAreComplete == Spec => []PassMeansVerified
<1>1. Init => TypeInv /\ AllAccounted(RunAt)
  <2> SUFFICES ASSUME Init PROVE AllAccounted(RunAt)
    BY InitTyped
  <2> QED BY DEF Init, CoreInit, AllAccounted, Accounted, RunAt, InPublish, Verifying
<1>2. TypeInv /\ AllAccounted(RunAt) /\ [Next]_vars => TypeInv' /\ AllAccounted(RunAt)'
  BY TypeInvStep, AccountedStep
<1>3. AllAccounted(RunAt) => PassMeansVerified
  BY DEF AllAccounted, Accounted, PassMeansVerified
<1> QED BY <1>1, <1>2, <1>3, PTL DEF Spec
-----------------------------------------------------------------------------
(* When rows are marked under the identity that was bound.                 *)

\* Where a worker has not bound the target of its command yet.
Unbound == {"idle", "rLoad", "vLoad"}

\* The inductive invariant: as long as the first marker is in place, whoever works
\* on the target has bound it.
FirstMarker ==
  /\ marker.generation >= 1
  /\ marker.generation = 1 => \A w \in Workers : pc[w] \notin Unbound => bound[w] = 1

\* A worker gets from there by bind alone, and keeps what it bound.
LEMMA BoundStep ==
  ASSUME TypeInv, [Next]_vars, NEW w \in Workers, pc'[w] \notin Unbound
  PROVE  \/ pc[w] \notin Unbound /\ bound'[w] = bound[w]
         \/ bound'[w] = marker.generation /\ UNCHANGED marker
<1>0. WorkersTyped(Points, ObjectPoints) /\ bound \in [Workers -> Nat]
  BY DEF TypeInv, WorkerTyped, TargetTyped
<1> USE <1>0 DEF WorkersTyped
<1>1. ASSUME NEW v \in Workers, Bind(v)
      PROVE  \/ v # w /\ bound'[w] = bound[w]
             \/ v = w /\ bound'[w] = marker.generation /\ UNCHANGED marker
  <2>1. ASSUME v = w PROVE marker.ours
    BY <1>1, <2>1
       DEF Bind, ReconcileLoad, RunLoad, VerifyLoad, LoadAll, Stop, Unbound
  <2> QED BY <1>1, <2>1 DEF Bind
<1>2. ASSUME NEW v \in Workers, CoreStep(v) \/ AdapterStep(v) \/ Fault(v)
                                \/ \E c \in Commands : Begin(v, c)
      PROVE  UNCHANGED bound
  BY <1>2, AdapterMoves, FaultMoves DEF CoreStep, Begin, gcsVars
<1>3. ASSUME Environment \/ UNCHANGED vars PROVE UNCHANGED bound
  BY <1>3 DEF Environment, ForeignWrite, ReplaceMarker, gcsVars, vars
<1>4. \/ bound'[w] = bound[w]
      \/ bound'[w] = marker.generation /\ UNCHANGED marker
  BY <1>1, <1>2, <1>3 DEF Next, Step
<1>5. ASSUME pc[w] \in Unbound PROVE bound'[w] = marker.generation /\ UNCHANGED marker
  <2>1. ~Still(w)
    BY <1>5 DEF Still
  <2>2. ASSUME NEW how, Stop(w, how) PROVE FALSE
    BY <2>2 DEF Stop, Unbound
  <2>3. ~CoreStep(w)
    BY <1>5
       DEF CoreStep, ReconcileItem, ReconcileRecheck, MarkVerified, Discover, Register,
           LoadPending, RunItem, RecordAttempt, HashSource, RecordFailure, VerifyItem,
           Unbound
  <2>4. pc[w] \notin ObjectPoints
    BY <1>5, Downloads DEF Unbound, ObjectPoints, InPublish, ReadPoints
  <2>5. ~AdapterStep(w) /\ ~Fault(w)
    BY <2>2, <2>4, AdapterMoves, FaultMoves DEF ObjectPoints, InPublish
  <2>6. ASSUME NEW c \in Commands, Begin(w, c) PROVE FALSE
    BY <2>6 DEF Begin, Start, Unbound
  <2>7. Bind(w)
    BY <2>1, <2>3, <2>5, <2>6, StepLocal DEF OwnStep
  <2> QED BY <1>1, <2>7
<1> QED BY <1>4, <1>5

LEMMA FirstMarkerStep ==
  ASSUME TypeInv, FirstMarker, [Next]_vars
  PROVE  FirstMarker'
<1>0. marker.generation \in Nat
  BY DEF TypeInv, TargetTyped
<1>1. UNCHANGED marker \/ marker'.generation = marker.generation + 1
  BY AdapterMoves, FaultMoves
     DEF Next, Step, Bind, CoreStep, Begin, Environment, ForeignWrite, ReplaceMarker,
         gcsVars, vars
<1>2. marker'.generation >= 1
  BY <1>0, <1>1 DEF FirstMarker
<1>3. ASSUME marker'.generation = 1, NEW w \in Workers, pc'[w] \notin Unbound
      PROVE  bound'[w] = 1
  <2>1. UNCHANGED marker
    BY <1>0, <1>1, <1>3 DEF FirstMarker
  <2> QED BY <1>3, <2>1, BoundStep DEF FirstMarker
<1> QED BY <1>2, <1>3 DEF FirstMarker

\* "The worker fails closed on target-identity mismatch", as far as it goes: a
\* reconcile comes to mark a row only under the marker it bound, and a run does
\* as long as the marker was never replaced, whatever happens to the blobs.
THEOREM MarksUnderFirstMarker ==
  Spec => [][\A w \in Workers :
               pc[w] \notin {"rMark", "mark"} /\ pc'[w] \in {"rMark", "mark"}
               /\ (pc'[w] = "rMark" \/ marker.generation = 1)
                 => IdentityHolds(w)]_pc
<1>1. Init => TypeInv /\ FirstMarker
  BY InitTyped DEF Init, CoreInit, FirstMarker, Unbound
<1>2. ASSUME TypeInv, FirstMarker, [Next]_vars, NEW w \in Workers,
             pc[w] \notin {"rMark", "mark"}, pc'[w] \in {"rMark", "mark"}
      PROVE  pc'[w] = "rMark" \/ marker.generation = 1 => IdentityHolds(w)
  <2>1. OwnStep(w) /\ Arrives(w)
    <3>1. ~Still(w)
      BY <1>2 DEF Still
    <3> QED BY <1>2, <3>1, StepLocal, MarkArrives DEF MarkPoints
  <2>2. pc[w] \notin Unbound
    BY <2>1, Downloads DEF Arrives, Unbound
  <2>3. CASE marker.generation = 1
    BY <1>2, <2>2, <2>3 DEF FirstMarker, IdentityHolds
  <2>4. CASE pc'[w] = "rMark"
    <3>0. WorkersTyped(Points, ObjectPoints)
      BY <1>2 DEF TypeInv, WorkerTyped
    <3> USE <3>0 DEF WorkersTyped
    <3>1. ASSUME NEW how, Stop(w, how) \/ Raise(w, how) PROVE FALSE
      BY <2>4, <3>1 DEF Stop, Raise
    <3>2. CASE CoreStep(w)
      BY <1>2, <2>4, <3>1, <3>2
         DEF CoreStep, ReconcileItem, ReconcileRecheck, MarkVerified, Discover, Register,
             LoadPending, RunItem, RecordAttempt, HashSource, RecordFailure, VerifyItem,
             Goto, TakeFirst
    <3>3. CASE AdapterStep(w)
      <4>1. ASSUME NEW finding, Fail(w, finding) PROVE FALSE
        BY <3>1, <4>1, FailMoves
      <4>2. Download(w)
        BY <2>4, <3>3, <4>1
           DEF AdapterStep, Clean, Reload, OpenSource, Upload, ReadPoints, Downloading, Goto
      <4> QED BY <2>4, <4>1, <4>2, Downloads DEF Download, Goto
    <3>4. CASE Fault(w)
      BY <2>4, <3>1, <3>4, FaultMoves, FailMoves DEF Goto
    <3>5. CASE Bind(w) \/ \E c \in Commands : Begin(w, c)
      BY <2>2, <2>4, <3>1, <3>5
         DEF Bind, ReconcileLoad, RunLoad, VerifyLoad, LoadAll, Begin, Start
    <3> QED BY <2>1, <3>2, <3>3, <3>4, <3>5 DEF OwnStep
  <2> QED BY <2>3, <2>4
<1>3. TypeInv /\ FirstMarker /\ [Next]_vars =>
        /\ TypeInv' /\ FirstMarker'
        /\ [\A w \in Workers :
              pc[w] \notin {"rMark", "mark"} /\ pc'[w] \in {"rMark", "mark"}
              /\ (pc'[w] = "rMark" \/ marker.generation = 1)
                => IdentityHolds(w)]_pc
  BY <1>2, TypeInvStep, FirstMarkerStep
<1> QED BY <1>1, <1>3, PTL DEF Spec
=============================================================================
