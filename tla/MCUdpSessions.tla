--------------------------- MODULE MCUdpSessions ---------------------------
(* Small instances of UdpSessions. *)
EXTENDS UdpSessions

CONSTANTS k1, s1, s2
=============================================================================
