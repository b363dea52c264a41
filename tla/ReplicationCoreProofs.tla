------------------------ MODULE ReplicationCoreProofs ------------------------
(***************************************************************************)
(* What the steps of ReplicationCore do, whatever the adapter: the lemmas  *)
(* that the proofs about both adapters share.  An adapter adds control     *)
(* points of its own: points are all there are, and busy are those where   *)
(* the loop variable of a worker is bound to an object.                    *)
(***************************************************************************)
EXTENDS ReplicationCore, TLAPS

CoreFree == {"idle", "rLoad", "rItem", "load", "discover", "register", "pending",
             "item", "vLoad", "vItem"}
CoreBusy == {"recheck", "rMark", "attempt", "hash", "failing", "mark"} \cup AdapterEntries

\* The points of an adapter extend those of the core.
Fits(points, busy) ==
  /\ CoreFree \cup CoreBusy \subseteq points
  /\ CoreBusy \subseteq busy
  /\ CoreFree \cap busy = {}

WorkersTyped(points, busy) ==
  /\ pc \in [Workers -> points]
  /\ cmd \in [Workers -> Commands]
  /\ todo \in [Workers -> SUBSET Objects]
  /\ cur \in [Workers -> Objects \cup {NoObject}]
  /\ found \in [Workers -> SUBSET Objects]
  /\ outcome \in [Workers -> Outcomes]
  /\ \A w \in Workers : /\ pc[w] \in busy => cur[w] \in Objects
                        /\ pc[w] = "failing" => outcome[w] \in Findings

DataTyped ==
  /\ replica \in [Objects -> Rows]
  /\ ledger \subseteq Objects
  /\ source \in [Uris -> Bytes \cup {Missing}]
  /\ mishaps \in 0..MaxMishaps
  /\ changes \in 0..MaxChanges

\* The core's steps, given whether the identity of the target is validated.
LoadMove(w, valid) == ReconcileLoad(w, valid) \/ RunLoad(w, valid) \/ VerifyLoad(w, valid)

CoreMove(w, valid) ==
  \/ ReconcileItem(w, valid) \/ ReconcileRecheck(w, valid) \/ MarkVerified(w)
  \/ Discover(w) \/ Register(w) \/ LoadPending(w) \/ RunItem(w, valid)
  \/ RecordAttempt(w) \/ HashSource(w) \/ RecordFailure(w) \/ VerifyItem(w, valid)
-----------------------------------------------------------------------------
(* The moves of a worker keep its variables' types.                        *)

LEMMA StopTyped ==
  ASSUME NEW points, NEW busy, Fits(points, busy), WorkersTyped(points, busy),
         NEW w \in Workers, NEW how \in Outcomes, Stop(w, how)
  PROVE  WorkersTyped(points, busy)'
<1>1. "idle" \in points /\ "idle" \notin busy /\ "idle" # "failing"
  BY DEF Fits, CoreFree
<1> QED BY <1>1 DEF WorkersTyped, Stop

LEMMA GotoTyped ==
  ASSUME NEW points, NEW busy, Fits(points, busy), WorkersTyped(points, busy),
         NEW w \in Workers, NEW point \in points, Goto(w, point), point # "failing",
         pc[w] \in busy \/ point \notin busy
  PROVE  WorkersTyped(points, busy)'
BY DEF WorkersTyped, Goto

LEMMA RaiseTyped ==
  ASSUME NEW points, NEW busy, Fits(points, busy), WorkersTyped(points, busy),
         NEW w \in Workers, NEW finding \in Findings, Raise(w, finding), pc[w] \in busy
  PROVE  WorkersTyped(points, busy)'
<1>1. "failing" \in points
  BY DEF Fits, CoreBusy
<1> QED BY <1>1 DEF WorkersTyped, Raise, Outcomes

LEMMA TakeFirstTyped ==
  ASSUME NEW points, NEW busy, Fits(points, busy), WorkersTyped(points, busy),
         NEW w \in Workers, NEW point \in points \ {"failing"}, TakeFirst(w, point)
  PROVE  WorkersTyped(points, busy)'
BY DEF WorkersTyped, TakeFirst

LEMMA LoadAllTyped ==
  ASSUME NEW points, NEW busy, Fits(points, busy), WorkersTyped(points, busy),
         NEW w \in Workers, NEW valid \in BOOLEAN, NEW S \in SUBSET Objects,
         NEW point \in CoreFree, LoadAll(w, valid, S, point)
  PROVE  WorkersTyped(points, busy)'
<1>1. CASE Stop(w, "target_identity_mismatch")
  BY <1>1, StopTyped DEF Outcomes, Findings
<1>2. CASE ~Stop(w, "target_identity_mismatch")
  <2>1. point \in points /\ point \notin busy /\ point # "failing"
    BY DEF Fits, CoreFree
  <2> QED BY <1>2, <2>1 DEF WorkersTyped, LoadAll
<1> QED BY <1>1, <1>2

LEMMA StartTyped ==
  ASSUME NEW points, NEW busy, Fits(points, busy), WorkersTyped(points, busy),
         NEW w \in Workers, NEW command \in Commands, Start(w, command)
  PROVE  WorkersTyped(points, busy)'
<1>1. {"rLoad", "vLoad"} \subseteq points /\ {"rLoad", "vLoad"} \cap busy = {}
  BY DEF Fits, CoreFree
<1> QED BY <1>1 DEF WorkersTyped, Start, Outcomes

LEMMA LoadMoveTyped ==
  ASSUME NEW points, NEW busy, Fits(points, busy), WorkersTyped(points, busy),
         NEW w \in Workers, NEW valid \in BOOLEAN, LoadMove(w, valid)
  PROVE  WorkersTyped(points, busy)'
<1>1. PendingObjects \in SUBSET Objects /\ VerifiedObjects \in SUBSET Objects
      /\ {} \in SUBSET Objects
  BY DEF PendingObjects, VerifiedObjects
<1>2. {"rItem", "discover", "vItem"} \subseteq CoreFree
  BY DEF CoreFree
<1> QED BY <1>1, <1>2, LoadAllTyped DEF LoadMove, ReconcileLoad, RunLoad, VerifyLoad

LEMMA CoreMoveTyped ==
  ASSUME NEW points, NEW busy, Fits(points, busy), WorkersTyped(points, busy), DataTyped,
         NEW w \in Workers, NEW valid \in BOOLEAN, CoreMove(w, valid)
  PROVE  WorkersTyped(points, busy)'
<1>1. /\ CoreFree \subseteq points /\ CoreBusy \subseteq points /\ CoreBusy \subseteq busy
      /\ \A point \in CoreFree : point \notin busy
  BY DEF Fits
<1> USE <1>1, GotoTyped, RaiseTyped, StopTyped, TakeFirstTyped
    DEF CoreFree, CoreBusy, AdapterEntries, Findings, Outcomes
<1>2. CASE ReconcileItem(w, valid)
  BY <1>2 DEF ReconcileItem
<1>3. CASE ReconcileRecheck(w, valid)
  BY <1>3 DEF ReconcileRecheck
<1>4. CASE MarkVerified(w)
  BY <1>4 DEF MarkVerified
<1>5. CASE Discover(w)
  <2>1. CASE \E how \in {"local_source_missing", "local_source_corrupt"} : Stop(w, how)
    BY <2>1
  <2>2. CASE /\ found' = [found EXCEPT ![w] = ledger]
             /\ pc' = [pc EXCEPT ![w] = "register"]
             /\ UNCHANGED <<cmd, todo, cur, outcome>>
    BY <2>2 DEF WorkersTyped, DataTyped
  <2> QED BY <1>5, <2>1, <2>2 DEF Discover
<1>6. CASE Register(w)
  BY <1>6 DEF Register
<1>12. CASE LoadPending(w)
  <2>1. PendingObjects \in SUBSET Objects
    BY DEF PendingObjects
  <2> QED BY <1>12, <2>1 DEF LoadPending, WorkersTyped
<1>7. CASE RunItem(w, valid)
  BY <1>7 DEF RunItem
<1>8. CASE RecordAttempt(w)
  BY <1>8 DEF RecordAttempt
<1>9. CASE HashSource(w)
  BY <1>9 DEF HashSource
<1>10. CASE RecordFailure(w)
  <2>1. outcome[w] \in Outcomes
    BY DEF WorkersTyped
  <2> QED BY <1>10, <2>1 DEF RecordFailure
<1>11. CASE VerifyItem(w, valid)
  BY <1>11 DEF VerifyItem
<1> QED
  BY <1>2, <1>3, <1>4, <1>5, <1>6, <1>7, <1>8, <1>9, <1>10, <1>11, <1>12 DEF CoreMove
-----------------------------------------------------------------------------
(* What the steps do to the rows and the other data.                       *)

\* At a busy point cur is an object, and at "failing" outcome a finding.
LEMMA AtObject ==
  ASSUME NEW points, NEW busy, WorkersTyped(points, busy), NEW w \in Workers, pc[w] \in busy
  PROVE  cur[w] \in Objects /\ Uri(w) \in Uris
         /\ (pc[w] = "failing" => outcome[w] \in Findings)
BY AuthorityAssumption DEF WorkersTyped, Uri

\* All that a step can do to one row.
RowMoves(old, new) ==
  \/ new = old
  \/ old.state = "unregistered" /\ new = [old EXCEPT !.state = "PENDING"]
  \/ old.state = "PENDING" /\ new = [old EXCEPT !.attempted = TRUE, !.error = "none"]
  \/ old.state = "PENDING" /\ \E finding \in Findings : new = [old EXCEPT !.error = finding]
  \/ old.state = "PENDING" /\ new = [old EXCEPT !.state = "VERIFIED", !.error = "none"]

\* Rows move as the schema lets them, and to VERIFIED at mark_verified alone.
LEMMA CoreMoveRows ==
  ASSUME NEW points, NEW busy, Fits(points, busy), WorkersTyped(points, busy), DataTyped,
         NEW w \in Workers, NEW valid \in BOOLEAN, CoreMove(w, valid), NEW o \in Objects
  PROVE  /\ RowMoves(replica[o], replica'[o])
         /\ replica'[o].state = "VERIFIED" =>
              \/ replica[o].state = "VERIFIED"
              \/ pc[w] \in {"rMark", "mark"} /\ cur[w] = o
<1> USE DEF DataTyped, Rows
<1>0. CoreBusy \subseteq busy
  BY DEF Fits
<1>1. CASE UNCHANGED frame
  BY <1>1 DEF frame, RowMoves
<1>2. CASE MarkVerified(w)
  <2>1. CASE UNCHANGED replica
    BY <2>1 DEF RowMoves
  <2>2. CASE VerifyRow(cur[w])
    <3>1. CASE cur[w] # o
      BY <2>2, <3>1 DEF VerifyRow, RowMoves
    <3>2. CASE cur[w] = o
      BY <1>2, <2>2, <3>2 DEF MarkVerified, VerifyRow, Pending, RowMoves
    <3> QED BY <3>1, <3>2
  <2> QED BY <1>2, <2>1, <2>2 DEF MarkVerified
<1>3. CASE Register(w)
  BY <1>3 DEF Register, RegisterRows, RowMoves
<1>4. CASE RecordAttempt(w)
  <2>1. CASE UNCHANGED replica
    BY <2>1 DEF RowMoves
  <2>2. CASE AttemptRow(cur[w])
    <3>1. CASE cur[w] # o
      BY <2>2, <3>1 DEF AttemptRow, RowMoves
    <3>2. CASE cur[w] = o
      BY <2>2, <3>2 DEF AttemptRow, Pending, RowMoves
    <3> QED BY <3>1, <3>2
  <2> QED BY <1>4, <2>1, <2>2 DEF RecordAttempt
<1>5. CASE RecordFailure(w)
  <2>1. outcome[w] \in Findings
    BY <1>0, <1>5, AtObject DEF RecordFailure, CoreBusy
  <2> QED BY <1>5, <2>1 DEF RecordFailure, FailRow, Pending, RowMoves
<1> HIDE DEF DataTyped, Rows
<1> QED
  BY <1>1, <1>2, <1>3, <1>4, <1>5
     DEF CoreMove, ReconcileItem, ReconcileRecheck, Discover, LoadPending, RunItem,
         HashSource, VerifyItem

LEMMA RowMovesTyped ==
  ASSUME NEW old \in Rows, NEW new, RowMoves(old, new)
  PROVE  new \in Rows
BY DEF RowMoves, Rows, RowStates

LEMMA CoreMoveDomain ==
  ASSUME DataTyped, NEW w \in Workers, NEW valid \in BOOLEAN, CoreMove(w, valid)
  PROVE  /\ replica' = [o \in Objects |-> replica'[o]]
         /\ UNCHANGED <<ledger, source, mishaps, changes>>
BY DEF CoreMove, ReconcileItem, ReconcileRecheck, MarkVerified, Discover, Register,
       LoadPending, RunItem, RecordAttempt, HashSource, RecordFailure, VerifyItem,
       VerifyRow, AttemptRow, FailRow, RegisterRows, frame, DataTyped

LEMMA CoreMoveData ==
  ASSUME NEW points, NEW busy, Fits(points, busy), WorkersTyped(points, busy), DataTyped,
         NEW w \in Workers, NEW valid \in BOOLEAN, CoreMove(w, valid)
  PROVE  DataTyped'
<1>1. ASSUME NEW o \in Objects PROVE replica'[o] \in Rows
  <2>1. replica[o] \in Rows
    BY DEF DataTyped
  <2> QED BY <2>1, CoreMoveRows, RowMovesTyped
<1>2. replica' \in [Objects -> Rows]
  BY <1>1, CoreMoveDomain
<1> QED BY <1>2, CoreMoveDomain DEF DataTyped

LEMMA FinalizeTyped ==
  ASSUME DataTyped, NEW o \in Objects, FinalizeObject(o)
  PROVE  DataTyped'
BY AuthorityAssumption DEF FinalizeObject, Finalize, DataTyped

LEMMA ChangeTyped ==
  ASSUME DataTyped, NEW u \in Uris, NEW bytes \in Bytes \cup {Missing}, ChangeSource(u, bytes)
  PROVE  DataTyped'
BY CoreAssumption DEF ChangeSource, DataTyped

-----------------------------------------------------------------------------
(* Such rows move as the schema lets them, and fresh rows stay fresh.      *)

LEMMA RowsRespectSchema ==
  ASSUME DataTyped, FreshRows, \A o \in Objects : RowMoves(replica[o], replica'[o])
  PROVE  /\ \A o \in Objects : SchemaAllows(replica[o], replica'[o])
         /\ FreshRows'
<1>0. \A o \in Objects : replica[o] \in Rows /\ RowMoves(replica[o], replica'[o])
  BY DEF DataTyped
<1>1. ASSUME NEW o \in Objects PROVE SchemaAllows(replica[o], replica'[o])
  <2>1. replica[o] \in Rows /\ RowMoves(replica[o], replica'[o])
    BY <1>0
  <2> QED BY <2>1 DEF FreshRows, SchemaAllows, RowMoves, Rows
<1>2. ASSUME NEW o \in Objects, replica'[o].state = "unregistered"
      PROVE  ~replica'[o].attempted /\ replica'[o].error = "none"
  <2>1. replica'[o] = replica[o]
    <3>1. replica[o] \in Rows /\ RowMoves(replica[o], replica'[o])
      BY <1>0
    <3> QED BY <1>2, <3>1 DEF RowMoves, Rows
  <2> QED BY <1>2, <2>1 DEF FreshRows
<1> QED BY <1>1, <1>2 DEF FreshRows
-----------------------------------------------------------------------------
\* The states of the rows change by mark_verified and register_discovered alone.
StatesKept == \A o \in Objects : replica'[o].state = replica[o].state

LEMMA CoreMoveStates ==
  ASSUME DataTyped, NEW w \in Workers, NEW valid, CoreMove(w, valid)
  PROVE  \/ StatesKept
         \/ pc[w] \in {"rMark", "mark"} /\ VerifyRow(cur[w])
         \/ RegisterRows(found[w])
<1>1. ASSUME UNCHANGED replica PROVE StatesKept
  BY <1>1 DEF StatesKept
<1>2. CASE MarkVerified(w)
  BY <1>1, <1>2 DEF MarkVerified
<1>3. CASE Register(w)
  BY <1>3 DEF Register
<1>4. CASE RecordAttempt(w)
  BY <1>1, <1>4 DEF RecordAttempt, AttemptRow, StatesKept, DataTyped, Rows
<1>5. CASE RecordFailure(w)
  BY <1>1, <1>5 DEF RecordFailure, FailRow, StatesKept, DataTyped, Rows
<1> QED
  BY <1>1, <1>2, <1>3, <1>4, <1>5
     DEF CoreMove, ReconcileItem, ReconcileRecheck, Discover, LoadPending, RunItem,
         HashSource, VerifyItem, frame

\* Where what a worker iterates over comes from.
Iterates(w, busy) ==
  /\ found'[w] \subseteq found[w] \cup ledger
  /\ todo'[w] \subseteq todo[w] \cup PendingObjects' \cup VerifiedObjects'
  /\ pc'[w] \in busy => \/ pc[w] \in busy /\ cur'[w] = cur[w]
                        \/ cur'[w] \in todo[w]

LEMMA MovesIterate ==
  ASSUME NEW points, NEW busy, Fits(points, busy), WorkersTyped(points, busy),
         NEW w \in Workers
  PROVE  /\ \A how : Stop(w, how) => Iterates(w, busy)
         /\ \A point : Goto(w, point) /\ (point \in busy => pc[w] \in busy)
                         => Iterates(w, busy)
         /\ \A finding : Raise(w, finding) /\ pc[w] \in busy => Iterates(w, busy)
         /\ \A command \in Commands : Start(w, command) => Iterates(w, busy)
         /\ \A point : TakeFirst(w, point) => Iterates(w, busy)
<1> USE DEF WorkersTyped, Iterates
<1>0. \A point \in CoreFree : point \notin busy
  BY DEF Fits
<1>1. ASSUME NEW how, Stop(w, how) PROVE Iterates(w, busy)
  BY <1>0, <1>1 DEF Stop, CoreFree
<1>2. ASSUME NEW point, Goto(w, point), point \in busy => pc[w] \in busy
      PROVE  Iterates(w, busy)
  BY <1>2 DEF Goto
<1>3. ASSUME NEW finding, Raise(w, finding), pc[w] \in busy PROVE Iterates(w, busy)
  BY <1>3 DEF Raise
<1>4. ASSUME NEW command \in Commands, Start(w, command) PROVE Iterates(w, busy)
  BY <1>0, <1>4 DEF Start, CoreFree
<1>5. ASSUME NEW point, TakeFirst(w, point) PROVE Iterates(w, busy)
  BY <1>5 DEF TakeFirst
<1> HIDE DEF Iterates
<1> QED BY <1>1, <1>2, <1>3, <1>4, <1>5

LEMMA CoreIterates ==
  ASSUME NEW points, NEW busy, Fits(points, busy), WorkersTyped(points, busy),
         NEW w \in Workers, NEW valid \in BOOLEAN, LoadMove(w, valid) \/ CoreMove(w, valid)
  PROVE  Iterates(w, busy)
<1>0. /\ \A point \in CoreFree : point \notin busy
      /\ \A point \in CoreBusy : point \in busy
  BY DEF Fits
<1> USE MovesIterate, <1>0 DEF CoreFree, CoreBusy, AdapterEntries
<1>1. ASSUME NEW point \in CoreFree, NEW S, S \subseteq PendingObjects \cup VerifiedObjects,
             LoadAll(w, valid, S, point), UNCHANGED replica
      PROVE  Iterates(w, busy)
  <2>1. CASE Stop(w, "target_identity_mismatch")
    BY <2>1
  <2>2. CASE /\ todo' = [todo EXCEPT ![w] = S] /\ pc' = [pc EXCEPT ![w] = point]
             /\ UNCHANGED <<cmd, cur, found, outcome>>
    BY <1>1, <2>2 DEF WorkersTyped, Iterates, PendingObjects, VerifiedObjects, Pending,
                      Verified
  <2> QED BY <1>1, <2>1, <2>2 DEF LoadAll
<1>2. CASE LoadMove(w, valid)
  BY <1>1, <1>2 DEF LoadMove, ReconcileLoad, RunLoad, VerifyLoad, frame
<1>3. CASE Discover(w)
  <2>1. CASE /\ found' = [found EXCEPT ![w] = ledger]
             /\ pc' = [pc EXCEPT ![w] = "register"]
             /\ UNCHANGED <<cmd, todo, cur, outcome>>
    BY <2>1 DEF WorkersTyped, Iterates
  <2> QED BY <1>3, <2>1 DEF Discover
<1>4. CASE LoadPending(w)
  BY <1>4 DEF LoadPending, WorkersTyped, Iterates, frame, PendingObjects, Pending
<1>5. CASE MarkVerified(w) \/ ReconcileRecheck(w, valid) \/ RecordAttempt(w)
           \/ HashSource(w) \/ RecordFailure(w)
  BY <1>5 DEF MarkVerified, ReconcileRecheck, RecordAttempt, HashSource, RecordFailure
<1>7. CASE Register(w)
  BY <1>7 DEF Register
<1>6. CASE ReconcileItem(w, valid) \/ RunItem(w, valid) \/ VerifyItem(w, valid)
  BY <1>6 DEF ReconcileItem, RunItem, VerifyItem
<1> QED BY <1>2, <1>3, <1>4, <1>5, <1>6, <1>7 DEF CoreMove
-----------------------------------------------------------------------------
(* A step of one worker leaves the others where they are.                  *)

Still(w) ==
  /\ pc'[w] = pc[w] /\ cmd'[w] = cmd[w] /\ todo'[w] = todo[w]
  /\ cur'[w] = cur[w] /\ found'[w] = found[w] /\ outcome'[w] = outcome[w]

LEMMA MovesLocal ==
  ASSUME NEW points, NEW busy, WorkersTyped(points, busy),
         NEW v \in Workers, NEW w \in Workers, v # w
  PROVE  /\ \A how : Stop(v, how) => Still(w)
         /\ \A point : Goto(v, point) => Still(w)
         /\ \A finding : Raise(v, finding) => Still(w)
         /\ \A point : TakeFirst(v, point) => Still(w)
         /\ \A valid, S, point : LoadAll(v, valid, S, point) => Still(w)
         /\ \A command : Start(v, command) => Still(w)
<1> USE DEF WorkersTyped, Still
<1>1. ASSUME NEW how, Stop(v, how) PROVE Still(w)
  BY <1>1 DEF Stop
<1>2. ASSUME NEW point, Goto(v, point) PROVE Still(w)
  BY <1>2 DEF Goto
<1>3. ASSUME NEW finding, Raise(v, finding) PROVE Still(w)
  BY <1>3 DEF Raise
<1>4. ASSUME NEW point, TakeFirst(v, point) PROVE Still(w)
  BY <1>4 DEF TakeFirst
<1>5. ASSUME NEW valid, NEW S, NEW point, LoadAll(v, valid, S, point) PROVE Still(w)
  <2>1. CASE Stop(v, "target_identity_mismatch")
    BY <1>1, <2>1
  <2> QED BY <1>5, <2>1 DEF LoadAll
<1>6. ASSUME NEW command, Start(v, command) PROVE Still(w)
  BY <1>6 DEF Start
<1> HIDE DEF Still
<1> QED BY <1>1, <1>2, <1>3, <1>4, <1>5, <1>6

LEMMA CoreLocal ==
  ASSUME NEW points, NEW busy, WorkersTyped(points, busy),
         NEW v \in Workers, NEW w \in Workers, v # w, NEW valid \in BOOLEAN,
         LoadMove(v, valid) \/ CoreMove(v, valid)
  PROVE  Still(w)
<1>1. CASE Discover(v) \/ LoadPending(v)
  BY <1>1, MovesLocal DEF Discover, LoadPending, WorkersTyped, Still
<1> QED
  BY <1>1, MovesLocal
     DEF LoadMove, ReconcileLoad, RunLoad, VerifyLoad, CoreMove, ReconcileItem,
         ReconcileRecheck, MarkVerified, Register, RunItem, RecordAttempt, HashSource,
         RecordFailure, VerifyItem
-----------------------------------------------------------------------------
(* A run that passes leaves nothing behind.  at are the points from which  *)
(* run() works on the object it took from its snapshot.                    *)

RunPoints(at, busy) ==
  /\ {"attempt", "hash", "publish", "failing", "mark"} \subseteq at
  /\ at \subseteq busy
  /\ at \cap {"recheck", "rMark", "check", "clean", "inspect"} = {}

\* The points of verify(); an adapter may check an object in two steps.
Verifying == {"vLoad", "vItem", "check", "checked"}

\* What worker w has found is VERIFIED, still to do, or what it works on.
Accounted(w, at) ==
  /\ pc[w] = "pending" => found[w] \subseteq VerifiedObjects \cup PendingObjects
  /\ pc[w] = "item" => found[w] \subseteq VerifiedObjects \cup todo[w]
  /\ pc[w] \in at => found[w] \subseteq VerifiedObjects \cup todo[w] \cup {cur[w]}
  /\ outcome[w] = "pass" =>
       /\ pc[w] = "idle"
       /\ cmd[w] = "run" => found[w] \subseteq VerifiedObjects
  /\ pc[w] \in Verifying => cmd[w] = "verify"

AllAccounted(at) == \A w \in Workers : Accounted(w, at)

\* No row that is VERIFIED, and none that there is, goes away.
RowsGrow ==
  /\ VerifiedObjects \subseteq VerifiedObjects'
  /\ VerifiedObjects \cup PendingObjects \subseteq VerifiedObjects' \cup PendingObjects'

LEMMA MovesGrow ==
  ASSUME DataTyped, \A o \in Objects : RowMoves(replica[o], replica'[o])
  PROVE  RowsGrow
<1>1. ASSUME NEW o \in Objects
      PROVE  /\ replica[o].state = "VERIFIED" => replica'[o].state = "VERIFIED"
             /\ replica[o].state = "PENDING" => replica'[o].state \in {"PENDING", "VERIFIED"}
  <2>1. replica[o] \in Rows /\ RowMoves(replica[o], replica'[o])
    BY DEF DataTyped
  <2> QED BY <2>1 DEF RowMoves, Rows
<1> QED BY <1>1 DEF RowsGrow, VerifiedObjects, Verified, PendingObjects, Pending

LEMMA StillAccounted ==
  ASSUME NEW at, NEW w \in Workers, Still(w), Accounted(w, at),
         RowsGrow
  PROVE  Accounted(w, at)'
BY DEF Still, Accounted, RowsGrow

LEMMA StopAccounted ==
  ASSUME NEW points, NEW busy, NEW at, Fits(points, busy), WorkersTyped(points, busy),
         RunPoints(at, busy), NEW w \in Workers, NEW how \in Outcomes, Stop(w, how),
         how # "pass"
  PROVE  Accounted(w, at)'
<1>1. "idle" \notin at
  BY DEF Fits, RunPoints, CoreFree
<1> QED BY <1>1 DEF WorkersTyped, Stop, Accounted, Verifying

LEMMA GotoAccounted ==
  ASSUME NEW points, NEW busy, NEW at, WorkersTyped(points, busy), NEW w \in Workers,
         NEW point, Goto(w, point), Accounted(w, at), outcome[w] # "pass",
         RowsGrow,
         point = "pending" => found[w] \subseteq VerifiedObjects' \cup PendingObjects',
         point = "item" => pc[w] \in at /\ Verified(cur[w])',
         point \in at => pc[w] \in at,
         point \in Verifying => pc[w] \in Verifying
  PROVE  Accounted(w, at)'
<1>1. pc'[w] = point /\ UNCHANGED <<cmd, todo, cur, found, outcome>>
  BY DEF Goto, WorkersTyped
<1>2. pc[w] \in at /\ Verified(cur[w])' => found[w] \subseteq VerifiedObjects' \cup todo[w]
  BY <1>1 DEF Accounted, RowsGrow, VerifiedObjects, WorkersTyped
<1> QED BY <1>1, <1>2 DEF Accounted, RowsGrow

LEMMA RaiseAccounted ==
  ASSUME NEW points, NEW busy, NEW at, Fits(points, busy), WorkersTyped(points, busy),
         RunPoints(at, busy), NEW w \in Workers, NEW finding \in Findings,
         Raise(w, finding), pc[w] \in at, Accounted(w, at),
         RowsGrow
  PROVE  Accounted(w, at)'
<1>1. /\ pc'[w] = "failing" /\ outcome'[w] = finding /\ finding # "pass"
      /\ UNCHANGED <<cmd, todo, cur, found>>
  BY DEF Raise, WorkersTyped, Findings
<1> QED BY <1>1 DEF Accounted, RowsGrow, Verifying

LEMMA StartAccounted ==
  ASSUME NEW points, NEW busy, NEW at, Fits(points, busy), WorkersTyped(points, busy),
         RunPoints(at, busy), NEW w \in Workers, NEW command \in Commands, Start(w, command)
  PROVE  Accounted(w, at)'
<1>1. {"rLoad", "vLoad"} \cap at = {}
  BY DEF Fits, RunPoints, CoreFree
<1> QED BY <1>1 DEF WorkersTyped, Start, Accounted, Verifying

LEMMA LoadAccounted ==
  ASSUME NEW points, NEW busy, NEW at, Fits(points, busy), WorkersTyped(points, busy),
         RunPoints(at, busy), NEW w \in Workers, NEW valid \in BOOLEAN, LoadMove(w, valid),
         Accounted(w, at)
  PROVE  Accounted(w, at)'
<1>1. {"rItem", "discover", "vItem"} \cap at = {}
  BY DEF Fits, RunPoints, CoreFree
<1>2. CASE Stop(w, "target_identity_mismatch")
  BY <1>2, StopAccounted DEF Outcomes, Findings
<1>3. CASE ~Stop(w, "target_identity_mismatch")
  <2>1. ASSUME NEW S, NEW point \in {"rItem", "discover", "vItem"}, LoadAll(w, valid, S, point),
               point = "vItem" => cmd[w] = "verify", pc[w] # "idle"
        PROVE  Accounted(w, at)'
    BY <1>1, <1>3, <2>1 DEF LoadAll, WorkersTyped, Accounted, Verifying
  <2> QED BY <2>1 DEF LoadMove, ReconcileLoad, RunLoad, VerifyLoad, Accounted, Verifying
<1> QED BY <1>2, <1>3

LEMMA CoreAccounted ==
  ASSUME NEW points, NEW busy, NEW at, Fits(points, busy), WorkersTyped(points, busy),
         DataTyped, RunPoints(at, busy), NEW w \in Workers, NEW valid \in BOOLEAN,
         CoreMove(w, valid), Accounted(w, at)
  PROVE  Accounted(w, at)'
<1>1. RowsGrow
  BY CoreMoveRows, MovesGrow
<1>2. /\ {"attempt", "hash", "publish", "failing", "mark"} \subseteq at
      /\ at \cap ({"recheck", "rMark", "check", "clean", "inspect"} \cup CoreFree) = {}
  BY DEF RunPoints, Fits
<1>3. ASSUME NEW point, Goto(w, point), outcome[w] # "pass",
             point = "pending" => found[w] \subseteq VerifiedObjects' \cup PendingObjects',
             point = "item" => pc[w] \in at /\ Verified(cur[w])',
             point \in at => pc[w] \in at, point \notin Verifying
      PROVE  Accounted(w, at)'
  BY <1>1, <1>3, GotoAccounted
<1>4. ASSUME NEW how \in Outcomes \ {"pass"}, Stop(w, how) PROVE Accounted(w, at)'
  BY <1>4, StopAccounted
<1>5. ASSUME NEW finding \in Findings, Raise(w, finding), pc[w] \in at
      PROVE  Accounted(w, at)'
  BY <1>1, <1>5, RaiseAccounted
<1> USE DEF CoreFree, Outcomes, Findings, Verifying
<1>6. CASE ReconcileItem(w, valid)
  <2>1. CASE TakeFirst(w, "clean")
    BY <1>2, <1>6, <2>1 DEF ReconcileItem, TakeFirst, WorkersTyped, Accounted
  <2>2. CASE Stop(w, "pass") /\ cmd[w] = "reconcile"
    BY <1>2, <2>2 DEF Stop, WorkersTyped, Accounted
  <2> QED BY <1>2, <1>3, <1>4, <1>6, <2>1, <2>2 DEF ReconcileItem, Accounted
<1>7. CASE ReconcileRecheck(w, valid)
  BY <1>2, <1>3, <1>4, <1>7 DEF ReconcileRecheck, Accounted
<1>8. CASE MarkVerified(w)
  <2>1. ASSUME VerifyRow(cur[w]), pc[w] = "mark", Goto(w, "item") PROVE Verified(cur[w])'
    <3>1. cur[w] \in Objects /\ cur' = cur
      BY <2>1 DEF Fits, CoreBusy, WorkersTyped, Goto
    <3> QED BY <2>1, <3>1 DEF VerifyRow, Verified, DataTyped
  <2> QED BY <1>2, <1>3, <1>4, <1>8, <2>1 DEF MarkVerified, Accounted
<1>9. CASE Discover(w)
  <2>1. CASE \E how \in {"local_source_missing", "local_source_corrupt"} : Stop(w, how)
    BY <1>4, <2>1
  <2>2. CASE /\ found' = [found EXCEPT ![w] = ledger]
             /\ pc' = [pc EXCEPT ![w] = "register"]
             /\ UNCHANGED <<cmd, todo, cur, outcome>>
    BY <1>2, <1>9, <2>2 DEF Discover, WorkersTyped, Accounted
  <2> QED BY <1>9, <2>1, <2>2 DEF Discover
<1>10. CASE Register(w)
  <2>1. found[w] \subseteq VerifiedObjects' \cup PendingObjects'
    <3> SUFFICES ASSUME NEW o \in found[w] PROVE replica'[o].state \in {"PENDING", "VERIFIED"}
      BY DEF VerifiedObjects, PendingObjects, Verified, Pending, WorkersTyped
    <3>1. o \in Objects /\ replica[o] \in Rows
      BY DEF WorkersTyped, DataTyped
    <3> QED BY <1>10, <3>1 DEF Register, RegisterRows, Rows, RowStates
  <2> QED BY <1>2, <1>3, <1>10, <2>1 DEF Register, Accounted
<1>16. CASE LoadPending(w)
  <2>1. found[w] \subseteq VerifiedObjects' \cup PendingObjects
    BY <1>16 DEF LoadPending, Accounted, frame, VerifiedObjects, Verified
  <2> QED BY <1>2, <1>16, <2>1 DEF LoadPending, WorkersTyped, Accounted
<1>11. CASE RunItem(w, valid)
  <2>0. /\ pc[w] = "item" /\ outcome[w] # "pass"
        /\ found[w] \subseteq VerifiedObjects' \cup todo[w]
    BY <1>1, <1>11 DEF RunItem, Accounted, RowsGrow
  <2>1. CASE TakeFirst(w, "attempt")
    <3>1. PICK o \in todo[w] : /\ cur' = [cur EXCEPT ![w] = o]
                               /\ todo' = [todo EXCEPT ![w] = @ \ {o}]
      BY <2>1 DEF TakeFirst
    <3>2. /\ cur'[w] = o /\ todo'[w] = todo[w] \ {o} /\ pc'[w] = "attempt"
          /\ found' = found /\ outcome' = outcome
      BY <2>1, <3>1 DEF TakeFirst, WorkersTyped
    <3> QED BY <2>0, <3>2 DEF Accounted
  <2>2. CASE Stop(w, "pass") /\ todo[w] = {}
    <3>1. pc'[w] = "idle" /\ found' = found
      BY <2>2 DEF Stop, WorkersTyped
    <3> QED BY <1>2, <2>0, <2>2, <3>1 DEF Accounted
  <2> QED BY <1>4, <1>11, <2>1, <2>2 DEF RunItem
<1>12. CASE RecordAttempt(w)
  BY <1>2, <1>3, <1>4, <1>12 DEF RecordAttempt, Accounted
<1>13. CASE HashSource(w)
  BY <1>2, <1>3, <1>5, <1>13 DEF HashSource, Accounted
<1>14. CASE RecordFailure(w)
  <2>1. outcome[w] \in Findings
    BY <1>14 DEF RecordFailure, WorkersTyped
  <2> QED BY <1>4, <1>14, <2>1 DEF RecordFailure
<1>15. CASE VerifyItem(w, valid)
  <2>1. CASE TakeFirst(w, "check")
    BY <1>2, <1>15, <2>1 DEF VerifyItem, TakeFirst, WorkersTyped, Accounted
  <2>2. CASE Stop(w, "pass")
    BY <1>2, <1>15, <2>2 DEF VerifyItem, Stop, WorkersTyped, Accounted
  <2> QED BY <1>4, <1>15, <2>1, <2>2 DEF VerifyItem
<1> QED
  BY <1>6, <1>7, <1>8, <1>9, <1>10, <1>11, <1>12, <1>13, <1>14, <1>15, <1>16
     DEF CoreMove
=============================================================================
