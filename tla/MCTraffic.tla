----------------------------- MODULE MCTraffic -----------------------------
(* Small instances of Traffic. *)
EXTENDS Traffic, TLC

CONSTANTS u1, u2, g1, g2, c1, c2

\* All connections belong to one user.
SoleOwner == [c \in Conns |-> u1]

\* Everybody starts in one group.
SoleGroup == [u \in Users |-> g1]

\* Two users of one group, with a connection each.
TwoOwners == (c1 :> u1) @@ (c2 :> u2)

QuotaOne == [g \in Groups |-> 1]

\* A move from g1 to another group takes the quota away.
QuotaInG1 == [g \in Groups |-> IF g = g1 THEN 1 ELSE 0]

OneEach == [c \in Conns |-> 1]

\* The second connection forwards nothing.
OneSilent == [c \in Conns |-> IF c = c1 THEN 1 ELSE 0]
=============================================================================
