-------------------------- MODULE MCInternalPorts --------------------------
(* Small instances of InternalPorts. *)
EXTENDS InternalPorts, TLC

CONSTANTS h1, h2, d1

Alike == Permutations({h1, h2})
=============================================================================
