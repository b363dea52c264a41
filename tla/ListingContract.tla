-------------------------- MODULE ListingContract ---------------------------
(***************************************************************************)
(* What replication relies on in the capture ledger: register_discovered   *)
(* (packages/replication/core/authority.py) raises a conflict when a file  *)
(* it has registered is listed with other bytes, and reconcile never takes *)
(* a row back.  So a listed file stays listed, as it was, and one row only *)
(* speaks for it under each object_kind.  FinalizeObject, the only action  *)
(* of ReplicationCore on what it takes the ledger for, is such a step.     *)
(***************************************************************************)
VARIABLE listed  \* records with fields kind and uri, and what is said of them

Unambiguous(S) == \A e, f \in S : e.kind = f.kind /\ e.uri = f.uri => e = f

Init == listed = {}

List == listed \subseteq listed' /\ Unambiguous(listed')

Spec == Init /\ [][List]_listed
=============================================================================
