------------------------ MODULE ReplicationContract ------------------------
(***************************************************************************)
(* What replication promises, whatever the adapter: the contract of        *)
(* packages/replication/contracts/target.py and the README.  A replica is  *)
(* created at most once, in one step, whole, and only for an object that   *)
(* was registered before; a row becomes VERIFIED only while its replica    *)
(* holds the expected bytes; nothing is ever taken back.                   *)
(***************************************************************************)
CONSTANTS Objects, Uris, Bytes, UriOf, Expected, Preexisting, Absent

VARIABLES row,    \* state of each object's row
          stored  \* the bytes at each uri on the target, or Absent

contractVars == <<row, stored>>

Init == /\ row = [o \in Objects |-> "unregistered"]
        /\ stored \in [Uris -> {Absent} \cup Preexisting]

Register(S) ==
  /\ \A o \in S : row[o] = "unregistered"
  /\ row' = [o \in Objects |-> IF o \in S THEN "PENDING" ELSE row[o]]
  /\ UNCHANGED stored

\* publish_immutable: create only if absent; never overwrite.
Create(o) ==
  /\ row[o] = "PENDING"
  /\ stored[UriOf[o]] = Absent
  /\ stored' = [stored EXCEPT ![UriOf[o]] = Expected[o]]
  /\ UNCHANGED row

\* After publication or adoption of exact existing bytes.
Accept(o) ==
  /\ row[o] = "PENDING"
  /\ stored[UriOf[o]] = Expected[o]
  /\ row' = [row EXCEPT ![o] = "VERIFIED"]
  /\ UNCHANGED stored

Next == \/ \E S \in SUBSET Objects : Register(S)
        \/ \E o \in Objects : Create(o) \/ Accept(o)

Spec == Init /\ [][Next]_contractVars
=============================================================================
