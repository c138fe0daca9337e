---------------------------- MODULE MCPortRules ----------------------------
(* Small instances of PortRules: two users, the first with two numbers. *)
EXTENDS PortRules, TLC

CONSTANTS r1, r2, r3, h1, h2, alice, bob

Ranges == alice :> {1, 2} @@ bob :> {3}
Busy == "tcp" :> {2} @@ "udp" :> {}

Alike == Permutations({r1, r2, r3}) \cup Permutations({h1, h2})
=============================================================================
