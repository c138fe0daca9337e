------------------------------- MODULE Detect -------------------------------
(***************************************************************************)
(* detect.go: the protocol of a connection, judged by its first bytes, and *)
(* whether a rule lets that protocol through.  No state.  The code's two   *)
(* lengths, 64 and 148, are constants so that small streams can have them. *)
(***************************************************************************)
EXTENDS Integers, Sequences

CONSTANTS
    WireGuardMin, \* shortest WireGuard handshake message
    SniffLimit    \* longest, and how much sniffTCP asks for

ASSUME LimitsAssumption ==
    /\ WireGuardMin \in Nat /\ SniffLimit \in Nat
    /\ 4 <= WireGuardMin /\ WireGuardMin <= SniffLimit

Byte == 0 .. 255
Buffer == Seq(Byte)
Known == {"socks5", "wireguard", "openvpn"}
Protocol == Known \cup {"unknown"}

IsSocks5(buf) == Len(buf) >= 3 /\ buf[1] = 5

\* The first four bytes of a WireGuard handshake message.
HandshakeHead(buf) ==
    Len(buf) >= 4 /\ buf[1] \in {1, 2, 3} /\ buf[2] = 0 /\ buf[3] = 0 /\ buf[4] = 0

IsWireGuard(buf) ==
    HandshakeHead(buf) /\ WireGuardMin <= Len(buf) /\ Len(buf) <= SniffLimit

\* Opcode in the high five bits, key_id in the low three.
IsHardReset(b) == b \div 8 \in {1, 7, 10} /\ b % 8 = 0

\* A plausible bug: the length prefix is believed, so that the first packet has
\* to be there as a whole.
IsOpenVPN_Whole(buf) ==
    \/ Len(buf) >= 1 /\ IsHardReset(buf[1])
    \/ Len(buf) >= 3 /\ IsHardReset(buf[3]) /\ buf[1] * 256 + buf[2] \in 1 .. (Len(buf) - 2)

\* Over UDP the opcode comes first, over TCP after a length that is not zero.
IsOpenVPN(buf) ==
    \/ Len(buf) >= 1 /\ IsHardReset(buf[1])
    \/ Len(buf) >= 3 /\ IsHardReset(buf[3]) /\ buf[1] * 256 + buf[2] > 0

detectProtocol(buf) ==
    IF IsSocks5(buf) THEN "socks5"
    ELSE IF IsWireGuard(buf) THEN "wireguard"
    ELSE IF IsOpenVPN(buf) THEN "openvpn"
    ELSE "unknown"

\* allowed is the rule's setting: one protocol, or anything else for all three.
allowedFor(allowed, proto) ==
    IF allowed \in Known THEN proto = allowed ELSE proto # "unknown"
=============================================================================
