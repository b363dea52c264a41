-------------------------- MODULE MCGcsReplication --------------------------
(* Values of the constants of GcsReplication for TLC.                      *)
EXTENDS GcsReplication

\* Every object is to hold "good"; "bad" is any other whole content.
MCBytes == {"good", "bad"}
MCExpected == [o \in Objects |-> "good"]

\* Every object has a uri of its own, or all are kinds of object on one uri.
MCOwnUri == [o \in Objects |-> o]
MCOneUri == [o \in Objects |-> 1]
=============================================================================
