------------------------- MODULE MCRealmSupervisor -------------------------
(* Small instances of RealmSupervisor. *)
EXTENDS RealmSupervisor, TLC

CONSTANT h1

\* The last version of the rules has no active rule.
NotTheLast == 0 .. (MaxChanges - 1)
=============================================================================
