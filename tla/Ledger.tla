------------------------------- MODULE Ledger -------------------------------
(***************************************************************************)
(* What the accounting of relay.go promises, with no flush, no counters    *)
(* and no interleaving: each connection owes the units it has forwarded,   *)
(* and what it owes is settled, in one or several amounts, by a charge to  *)
(* its user or by the administrator's pardon.  A closed connection         *)
(* forwards nothing more; what it still owes is settled after.             *)
(***************************************************************************)
EXTENDS Integers

CONSTANT Conns

VARIABLES
    live,     \* the connections that may forward
    owed,     \* units forwarded and not settled
    settled   \* units charged or pardoned

ledger == <<live, owed, settled>>

Init ==
    /\ live = Conns
    /\ owed = [c \in Conns |-> 0]
    /\ settled = [c \in Conns |-> 0]

Forward(c) ==
    /\ c \in live
    /\ owed' = [owed EXCEPT ![c] = @ + 1]
    /\ UNCHANGED <<live, settled>>

Settle(c) ==
    /\ \E k \in 1 .. owed[c] :
          /\ owed' = [owed EXCEPT ![c] = @ - k]
          /\ settled' = [settled EXCEPT ![c] = @ + k]
    /\ UNCHANGED live

Close(c) ==
    /\ c \in live
    /\ live' = live \ {c}
    /\ UNCHANGED <<owed, settled>>

Next == \E c \in Conns : Forward(c) \/ Settle(c) \/ Close(c)

Spec == Init /\ [][Next]_ledger
=============================================================================
