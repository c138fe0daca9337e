------------------------------ MODULE MCSaving ------------------------------
(* Small instances of Saving. *)
EXTENDS Saving, TLC

CONSTANTS s1, s2, s3, i1, i2, i3, i4

Alike == Permutations({s1, s2, s3}) \cup Permutations({i1, i2, i3, i4})
=============================================================================
