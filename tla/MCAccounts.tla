----------------------------- MODULE MCAccounts -----------------------------
(* Small instances of Accounts. *)
EXTENDS Accounts, TLC

CONSTANTS h1, h2

\* One of two ranges, a single number each.
Requested == { {[start |-> 1, end |-> 1], [start |-> 3, end |-> 3]} }
Alike == Permutations({h1, h2})
=============================================================================
