--------------------------- MODULE MCTokenBucket ---------------------------
(* Small instances of TokenBucket. *)
EXTENDS TokenBucket, TLC

CONSTANTS c1, c2, b1, b2

Alike == Permutations({c1, c2}) \cup Permutations({b1, b2})
=============================================================================
