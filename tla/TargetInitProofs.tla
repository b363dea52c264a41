-------------------------- MODULE TargetInitProofs --------------------------
(***************************************************************************)
(* For any number of init-target processes, target ids and mishaps: types, *)
(* MarkerForGood, RowMeansMarker and MarkerWhole.  The argument: a marker  *)
(* that holds a target id is never written again, because links and        *)
(* uploads only create and closing a file changes no closed one (Kept); so *)
(* what was read back before the transaction still holds when the row      *)
(* appears.  A process that has always been alone links only the inode it  *)
(* wrote and closed (AloneInv).                                            *)
(***************************************************************************)
EXTENDS TargetInit, TLAPS

\* Every step leaves every marker that holds a target id, or that an init
\* left incomplete, as it is.
Kept == \A k \in Kinds : marker[k] \in Ids \cup {Torn} => marker'[k] = marker[k]

\* Control moves keep the types of a process's own variables.
LEMMA MovesTyped ==
  ASSUME TypeOK, NEW p \in Processes, NEW point \in Points,
         NEW how \in {"pass", "failed", "target_identity_mismatch"},
         Goto(p, point) \/ Stop(p, how)
  PROVE  /\ pc' \in [Processes -> Points]
         /\ id' \in [Processes -> Ids] /\ kind' \in [Processes -> Kinds]
         /\ outcome' \in [Processes -> {"none", "running", "pass", "failed",
                                        "target_identity_mismatch"}]
  BY DEF TypeOK, Goto, Stop, Points

\* Closing a file keeps the types of the files, and what is in closed ones.
LEMMA CloseKeeps ==
  ASSUME TypeOK, NEW p \in Processes, NEW bytes \in Ids \cup {Torn}, Close(p, bytes)
  PROVE  /\ partial' \in Files /\ marker' \in [Kinds -> Files]
         /\ Kept
  BY InitAssumption DEF TypeOK, Close, Files, Kept

\* Type correctness of one step, and the stability of markers.
LEMMA StepTyped == TypeOK /\ [Next]_vars => TypeOK' /\ Kept
<1> SUFFICES ASSUME TypeOK, [Next]_vars PROVE TypeOK' /\ Kept
  OBVIOUS
<1> USE InitAssumption
<1>1. CASE UNCHANGED vars
  BY <1>1 DEF vars, TypeOK, Kept
<1>2. ASSUME NEW p \in Processes, NEW i \in Ids, NEW k \in Kinds, Start(p, i, k)
      PROVE  TypeOK' /\ Kept
  BY <1>2 DEF Start, TypeOK, Points, Kept, files
<1>3. ASSUME NEW p \in Processes, Step(p)
      PROVE  TypeOK' /\ Kept
  <2>1. CASE Lookup(p)
    BY <2>1, MovesTyped DEF Lookup, Mismatch, TypeOK, Kept, files, Points
  <2>2. CASE MarkerExists(p)
    BY <2>2, MovesTyped DEF MarkerExists, TypeOK, Kept, files, Points
  <2>3. CASE StatPartial(p)
    BY <2>3, MovesTyped DEF StatPartial, TypeOK, Kept, files, Points
  <2>4. CASE UnlinkOld(p)
    BY <2>4, MovesTyped DEF UnlinkOld, TypeOK, Kept, Files, Points
  <2>5. CASE CreatePartial(p)
    BY <2>5, MovesTyped DEF CreatePartial, TypeOK, Kept, Files, Points
  <2>6. CASE WritePartial(p)
    <3>1. id[p] \in Ids \cup {Torn}
      BY DEF TypeOK
    <3> QED
      BY <2>6, <3>1, CloseKeeps, MovesTyped DEF WritePartial, TypeOK, Points
  <2>7. CASE Link(p)
    <3>1. /\ marker' = [marker EXCEPT ![kind[p]] =
                          IF marker[kind[p]] = Absent THEN partial ELSE marker[kind[p]]]
          /\ marker \in [Kinds -> Files] /\ kind[p] \in Kinds /\ partial \in Files
      BY <2>7 DEF Link, TypeOK
    <3>2. marker' \in [Kinds -> Files] /\ Kept
      BY <3>1 DEF Kept, Files
    <3> QED
      BY <2>7, <3>2, MovesTyped DEF Link, TypeOK, Points
  <2>8. CASE DropPartial(p)
    BY <2>8, MovesTyped DEF DropPartial, TypeOK, Kept, Files, Points
  <2>9. CASE Upload(p)
    <3>1. /\ marker' = [marker EXCEPT !["gcs"] =
                          IF marker["gcs"] = Absent THEN id[p] ELSE marker["gcs"]]
          /\ marker \in [Kinds -> Files] /\ id[p] \in Ids
      BY <2>9 DEF Upload, TypeOK
    <3>2. marker' \in [Kinds -> Files] /\ Kept
      BY <3>1 DEF Kept, Files
    <3> QED
      BY <2>9, <3>2, MovesTyped DEF Upload, TypeOK, Points
  <2>10. CASE ReadBack(p)
    BY <2>10, MovesTyped DEF ReadBack, Mismatch, TypeOK, Kept, files, Points
  <2>11. CASE InsertTarget(p)
    <3>1. rows' \in [Ids -> Kinds \cup {"none"}]
      BY <2>11 DEF InsertTarget, TypeOK
    <3> QED
      BY <2>11, <3>1, MovesTyped DEF InsertTarget, Mismatch, TypeOK, Kept, files, Points
  <2>12. CASE Bind(p)
    BY <2>12, MovesTyped DEF Bind, Mismatch, TypeOK, Kept, files, Points
  <2> QED
    BY <1>3, <2>1, <2>2, <2>3, <2>4, <2>5, <2>6, <2>7, <2>8, <2>9, <2>10, <2>11, <2>12
       DEF Step
<1>4. ASSUME NEW p \in Processes, Mishap(p)
      PROVE  TypeOK' /\ Kept
  <2>1. partial' \in Files /\ marker' \in [Kinds -> Files] /\ Kept
    BY <1>4, CloseKeeps DEF Mishap, TypeOK, Kept, files
  <2>2. mishaps' \in 0..MaxMishaps
    BY <1>4 DEF Mishap, TypeOK
  <2>3. rows' = rows /\ raced' = raced /\ Stop(p, "failed")
    BY <1>4 DEF Mishap
  <2>4. "idle" \in Points
    BY DEF Points
  <2> QED
    BY <2>1, <2>2, <2>3, <2>4, MovesTyped DEF TypeOK
<1> QED
  BY <1>1, <1>2, <1>3, <1>4 DEF Next

LEMMA InitTyped == Init => TypeOK
  BY InitAssumption DEF Init, TypeOK, Files, Points

\* TypeOK, for any number of processes and ids.
THEOREM InitTypeCorrect == Spec => []TypeOK
<1>1. TypeOK /\ [Next]_vars => TypeOK'
  BY StepTyped
<1> QED
  BY InitTyped, <1>1, PTL DEF Spec

\* A marker, once there, is never replaced, repaired or removed by any init.
THEOREM MarkersStay == Spec => MarkerForGood
<1>1. TypeOK /\ [Next]_vars =>
        [\A k \in Kinds : marker[k] \in Ids \cup {Torn} => marker'[k] = marker[k]]_marker
  BY StepTyped DEF Kept
<1> QED
  BY InitTypeCorrect, <1>1, PTL DEF Spec, MarkerForGood

\* Only the read back leads to the transaction, and only with a match.
LEMMA InsertArrives ==
  ASSUME TypeOK, [Next]_vars, NEW q \in Processes, pc'[q] = "insert"
  PROVE  /\ id'[q] = id[q] /\ kind'[q] = kind[q]
         /\ pc[q] = "insert" \/ Marker(q) = id[q]
<1>1. CASE UNCHANGED vars
  BY <1>1 DEF vars
<1>2. ASSUME NEW p \in Processes, NEW i \in Ids, NEW k \in Kinds, Start(p, i, k)
      PROVE  id'[q] = id[q] /\ kind'[q] = kind[q] /\ pc[q] = "insert"
  BY <1>2 DEF Start, TypeOK
<1>3. ASSUME NEW p \in Processes, Step(p) \/ Mishap(p)
      PROVE  /\ id'[q] = id[q] /\ kind'[q] = kind[q]
             /\ pc[q] = "insert" \/ Marker(q) = id[q]
  <2>1. id' = id /\ kind' = kind
    BY <1>3 DEF Step, Mishap, Lookup, MarkerExists, StatPartial, UnlinkOld, CreatePartial,
       WritePartial, Link, DropPartial, Upload, ReadBack, InsertTarget, Bind, Mismatch,
       Goto, Stop
  <2>2. CASE q # p
    BY <1>3, <2>2 DEF Step, Mishap, Lookup, MarkerExists, StatPartial, UnlinkOld,
       CreatePartial, WritePartial, Link, DropPartial, Upload, ReadBack, InsertTarget, Bind,
       Mismatch, Goto, Stop, TypeOK
  <2>3. CASE q = p
    BY <1>3, <2>3 DEF Step, Mishap, Lookup, MarkerExists, StatPartial, UnlinkOld,
       CreatePartial, WritePartial, Link, DropPartial, Upload, ReadBack, InsertTarget, Bind,
       Mismatch, Goto, Stop, TypeOK
  <2> QED
    BY <2>1, <2>2, <2>3
<1> QED
  BY <1>1, <1>2, <1>3 DEF Next

\* Only InsertTarget writes rows, for an id whose marker was read back.
LEMMA RowArrives ==
  ASSUME TypeOK, [Next]_vars, NEW i \in Ids, rows'[i] # rows[i]
  PROVE  \E p \in Processes : /\ pc[p] = "insert" /\ i = id[p]
                              /\ rows'[i] = kind[p]
<1>1. PICK p \in Processes : InsertTarget(p)
  BY DEF Next, vars, Start, Step, Mishap, Lookup, MarkerExists, StatPartial, UnlinkOld,
     CreatePartial, WritePartial, Link, DropPartial, Upload, ReadBack, Bind
<1> QED
  BY <1>1 DEF InsertTarget, TypeOK

\* A row never claims a root or bucket that is marked for another target.
THEOREM RowsMatchMarkers == Spec => []RowMeansMarker
<1>1. Init => MarkerInv
  BY InitTyped DEF Init, MarkerInv, ReadBeforeInsert, RowMeansMarker
<1>2. MarkerInv /\ [Next]_vars => MarkerInv'
  <2> SUFFICES ASSUME MarkerInv, [Next]_vars PROVE MarkerInv'
    OBVIOUS
  <2>1. TypeOK /\ TypeOK' /\ Kept
    BY StepTyped DEF MarkerInv
  <2>2. ASSUME NEW q \in Processes, pc'[q] = "insert"
        PROVE  marker'[kind'[q]] = id'[q]
    <3>1. id'[q] = id[q] /\ kind'[q] = kind[q] /\ marker[kind[q]] = id[q]
      BY <2>1, <2>2, InsertArrives DEF MarkerInv, ReadBeforeInsert, Marker
    <3> QED
      BY <2>1, <3>1 DEF Kept, TypeOK
  <2>3. ASSUME NEW i \in Ids, rows'[i] # "none"
        PROVE  marker'[rows'[i]] = i
    <3>1. CASE rows'[i] = rows[i]
      BY <2>1, <2>3, <3>1 DEF MarkerInv, RowMeansMarker, Kept, TypeOK
    <3>2. CASE rows'[i] # rows[i]
      <4>1. PICK p \in Processes : /\ pc[p] = "insert" /\ i = id[p]
                                   /\ rows'[i] = kind[p]
        BY <2>1, <3>2, RowArrives
      <4> QED
        BY <2>1, <4>1 DEF MarkerInv, ReadBeforeInsert, Marker, Kept, TypeOK
    <3> QED
      BY <3>1, <3>2
  <2> QED
    BY <2>1, <2>2, <2>3 DEF MarkerInv, ReadBeforeInsert, RowMeansMarker, Marker
<1>3. MarkerInv => RowMeansMarker
  BY DEF MarkerInv
<1> QED
  BY <1>1, <1>2, <1>3, PTL DEF Spec

(* A process that has never had company.                                   *)

\* What it does before it links concerns its own inode and no other.
Alone ==
  /\ \A p, q \in Processes : pc[p] # "idle" /\ pc[q] # "idle" => p = q
  /\ \A p \in Processes : pc[p] = "write" => partial = p
  /\ \A p \in Processes : pc[p] = "link" => partial \in Ids \cup {Absent}
  /\ \A k \in Kinds : marker[k] \in Ids \cup {Absent}

AloneInv == TypeOK /\ (raced = {} => Alone)

LEMMA AloneStep == AloneInv /\ [Next]_vars => AloneInv'
<1> SUFFICES ASSUME AloneInv, [Next]_vars, raced' = {} PROVE Alone'
  BY StepTyped DEF AloneInv
<1> USE InitAssumption
<1>1. TypeOK
  BY DEF AloneInv
<1>2. CASE UNCHANGED vars
  BY <1>2 DEF vars, AloneInv, Alone
<1>3. ASSUME NEW p \in Processes, NEW i \in Ids, NEW k \in Kinds, Start(p, i, k)
      PROVE  Alone'
  <2>1. \A q \in Processes : pc[q] = "idle"
    BY <1>3 DEF Start
  <2>2. raced = {}
    BY <1>3 DEF Start
  <2> QED
    BY <1>1, <1>3, <2>1, <2>2 DEF Start, AloneInv, Alone, TypeOK, files
<1>4. ASSUME NEW p \in Processes, Step(p) \/ Mishap(p)
      PROVE  Alone'
  <2>1. raced = {} /\ pc[p] # "idle"
    BY <1>4 DEF Step, Mishap, Lookup, MarkerExists, StatPartial, UnlinkOld, CreatePartial,
       WritePartial, Link, DropPartial, Upload, ReadBack, InsertTarget, Bind
  <2>2. Alone
    BY <2>1 DEF AloneInv
  <2>3. \A q \in Processes \ {p} : pc[q] = "idle"
    BY <2>1, <2>2 DEF Alone
  <2>4. \E point \in Points : pc' = [pc EXCEPT ![p] = point]
    BY <1>4 DEF Step, Mishap, Lookup, MarkerExists, StatPartial, UnlinkOld, CreatePartial,
       WritePartial, Link, DropPartial, Upload, ReadBack, InsertTarget, Bind, Mismatch,
       Goto, Stop, Points
  <2>5. \A q \in Processes \ {p} : pc'[q] = "idle"
    BY <1>1, <2>3, <2>4 DEF TypeOK
  <2>6. CASE WritePartial(p)
    <3>1. pc[p] = "write" /\ pc'[p] = "link" /\ id[p] \in Ids
      BY <1>1, <2>6 DEF WritePartial, Goto, TypeOK
    <3>2. partial' = id[p] /\ marker' = marker
      BY <1>1, <2>2, <2>6, <3>1 DEF WritePartial, Close, Alone, TypeOK
    <3> QED
      BY <2>2, <2>5, <3>1, <3>2 DEF Alone
  <2>7. CASE Mishap(p)
    <3>1. pc'[p] = "idle"
      BY <1>1, <2>7 DEF Mishap, Stop, TypeOK
    <3>2. marker' = marker
      <4>1. CASE pc[p] = "write"
        <5>1. \A k \in Kinds : marker[k] # p
          BY <2>2 DEF Alone
        <5>2. PICK bytes \in {Torn, id[p]} : Close(p, bytes)
          BY <2>7, <4>1 DEF Mishap
        <5> QED
          BY <1>1, <5>1, <5>2 DEF Close, TypeOK
      <4>2. CASE pc[p] # "write"
        BY <2>7, <4>2 DEF Mishap, files
      <4> QED
        BY <4>1, <4>2
    <3> QED
      BY <2>2, <2>5, <3>1, <3>2 DEF Alone
  <2>8. CASE CreatePartial(p)
    BY <1>1, <2>2, <2>5, <2>8 DEF CreatePartial, Goto, Stop, Alone, TypeOK
  <2>9. CASE Link(p)
    <3>1. /\ pc'[p] \notin {"write", "link"}
          /\ \A k \in Kinds : marker'[k] \in Ids \cup {Absent}
      BY <1>1, <2>2, <2>9 DEF Link, Goto, Stop, Alone, TypeOK
    <3> QED
      BY <2>5, <3>1 DEF Alone
  <2>10. CASE Upload(p)
    <3>1. /\ pc'[p] = "readback"
          /\ \A k \in Kinds : marker'[k] \in Ids \cup {Absent}
      BY <1>1, <2>2, <2>10 DEF Upload, Goto, Alone, TypeOK
    <3> QED
      BY <2>5, <3>1 DEF Alone
  <2>11. CASE \/ Lookup(p) \/ MarkerExists(p) \/ StatPartial(p) \/ UnlinkOld(p)
              \/ DropPartial(p) \/ ReadBack(p) \/ InsertTarget(p) \/ Bind(p)
    <3>1. pc'[p] \notin {"write", "link"} /\ marker' = marker
      BY <1>1, <2>11 DEF Lookup, MarkerExists, StatPartial, UnlinkOld, DropPartial,
         ReadBack, InsertTarget, Bind, Mismatch, Goto, Stop, TypeOK, files
    <3> QED
      BY <2>2, <2>5, <3>1 DEF Alone
  <2> QED
    BY <1>4, <2>6, <2>7, <2>8, <2>9, <2>10, <2>11 DEF Step
<1> QED
  BY <1>2, <1>3, <1>4 DEF Next

\* Inits that never overlap leave no incomplete marker, wherever they die.
THEOREM LoneInitLeavesNoTornMarker == Spec => []MarkerWhole
<1>1. Init => AloneInv
  BY InitTyped DEF Init, AloneInv, Alone
<1>2. AloneInv => MarkerWhole
  BY DEF AloneInv, Alone, MarkerWhole
<1> QED
  BY <1>1, <1>2, AloneStep, PTL DEF Spec
=============================================================================
