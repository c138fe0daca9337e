----------------------------- MODULE MCAdmission -----------------------------
(* Small instances of Admission. *)
EXTENDS Admission, TLC

CONSTANTS c1, c2

\* A SOCKS5 greeting, OpenVPN over TCP with a (short) packet, a
\* WireGuard handshake with more behind it, and a stranger.
Clients == { <<5, 1, 0>>, <<0, 2, 56, 0>>, <<2, 0, 0, 0, 9, 9>>, <<71, 69, 84>> }
=============================================================================
