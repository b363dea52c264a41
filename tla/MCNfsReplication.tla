-------------------------- MODULE MCNfsReplication --------------------------
(* Values of the constants of NfsReplication for TLC.                      *)
EXTENDS NfsReplication

\* Every object is to hold "good"; "bad" is any other whole content.
MCBytes == {"good", "bad"}
MCExpected == [o \in Objects |-> "good"]

\* Every object has a uri of its own, or the first two are two kinds of object
\* on one uri.
MCOwnUri == [o \in Objects |-> o]
MCUriOf == [o \in Objects |-> IF o <= 2 THEN 1 ELSE 2]
=============================================================================
