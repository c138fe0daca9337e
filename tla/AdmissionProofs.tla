--------------------------- MODULE AdmissionProofs ---------------------------
(***************************************************************************)
(* What holds of admission for any streams, connections and lengths: the   *)
(* protocol found does not depend on how the bytes arrived; decisions are  *)
(* recorded and counted once; the records are the newest without a gap.    *)
(***************************************************************************)
EXTENDS Admission, FiniteSetTheorems, SequenceTheorems, TLAPS

-----------------------------------------------------------------------------
(* Prefixes *)

LEMMA Prefix ==
  ASSUME NEW s \in Buffer, NEW n \in 0 .. Len(s)
  PROVE  /\ SubSeq(s, 1, n) \in Buffer
         /\ Len(SubSeq(s, 1, n)) = n
         /\ \A i \in 1 .. n : SubSeq(s, 1, n)[i] = s[i]
  <1>1. Len(s) \in Nat /\ \A i \in 1 .. n : s[i] \in Byte
    BY LenProperties, ElementOfSeq DEF Buffer
  <1>2. 1 \in Int /\ n \in Int
    BY <1>1
  <1>3. /\ SubSeq(s, 1, n) \in Seq(Byte)
        /\ Len(SubSeq(s, 1, n)) = IF 1 <= n THEN n - 1 + 1 ELSE 0
        /\ \A i \in 1 .. n - 1 + 1 : SubSeq(s, 1, n)[i] = s[1 + i - 1]
    BY <1>1, <1>2, SubSeqProperties
  <1> QED BY <1>1, <1>3 DEF Buffer

\* From the third byte on, a stream that is not like a WireGuard handshake is
\* judged by its first three bytes.
LEMMA ThreeBytesDecide ==
  ASSUME NEW s \in Buffer, NEW n \in 3 .. Len(s), ~HandshakeHead(s)
  PROVE  detectProtocol(SubSeq(s, 1, n)) =
           IF s[1] = 5 THEN "socks5"
           ELSE IF IsHardReset(s[1]) \/ (IsHardReset(s[3]) /\ s[1] * 256 + s[2] > 0) THEN "openvpn"
           ELSE "unknown"
  <1> DEFINE b == SubSeq(s, 1, n)
  <1>1. Len(s) \in Nat
    BY LenProperties DEF Buffer
  <1>2. n \in Nat /\ n >= 3 /\ n <= Len(s)
    BY <1>1
  <1>3. Len(b) = n /\ \A i \in 1 .. n : b[i] = s[i]
    BY <1>1, <1>2, Prefix
  <1> HIDE DEF b
  <1>4. b[1] = s[1] /\ b[2] = s[2] /\ b[3] = s[3] /\ (n >= 4 => b[4] = s[4])
    BY <1>2, <1>3
  <1>5. ~IsWireGuard(b)
    BY <1>1, <1>2, <1>3, <1>4 DEF IsWireGuard, HandshakeHead
  <1>6. IsSocks5(b) <=> s[1] = 5
    BY <1>2, <1>3, <1>4 DEF IsSocks5
  <1>7. IsOpenVPN(b) <=> IsHardReset(s[1]) \/ (IsHardReset(s[3]) /\ s[1] * 256 + s[2] > 0)
    BY <1>2, <1>3, <1>4 DEF IsOpenVPN
  <1>8. detectProtocol(b) = IF s[1] = 5 THEN "socks5"
           ELSE IF IsHardReset(s[1]) \/ (IsHardReset(s[3]) /\ s[1] * 256 + s[2] > 0) THEN "openvpn"
           ELSE "unknown"
    BY <1>5, <1>6, <1>7 DEF detectProtocol
  <1> QED BY <1>8 DEF b

LEMMA Detected == \A buf : detectProtocol(buf) \in Protocol
BY DEF detectProtocol, Protocol, Known

-----------------------------------------------------------------------------
(* Sequences of records *)

\* The newest record of rs has the identifier m, and there is no gap.
Gapless(rs, m) == \A i \in 1 .. Len(rs) : rs[i] = m - Len(rs) + i

LEMMA AppendKeeps ==
  ASSUME NEW rs \in Seq(Nat), NEW m \in Nat, Gapless(rs, m), NEW n \in Nat \ {0}
  PROVE  LET all == Append(rs, m + 1)
             excess == IF Len(all) > n THEN Len(all) - n ELSE 0
             kept == SubSeq(all, excess + 1, Len(all))
         IN  kept \in Seq(Nat) /\ Gapless(kept, m + 1) /\ Len(kept) <= n
  <1> DEFINE all == Append(rs, m + 1)
             excess == IF Len(all) > n THEN Len(all) - n ELSE 0
             kept == SubSeq(all, excess + 1, Len(all))
  <1>1. Len(rs) \in Nat /\ \A i \in 1 .. Len(rs) : rs[i] \in Nat
    BY LenProperties, ElementOfSeq
  <1>2. /\ all \in Seq(Nat) /\ Len(all) = Len(rs) + 1
        /\ \A i \in 1 .. Len(rs) : all[i] = rs[i]
        /\ all[Len(rs) + 1] = m + 1
    BY <1>1
  <1> HIDE DEF all
  <1>3. excess \in Nat /\ excess + 1 <= Len(all) /\ Len(all) - excess <= n
    BY <1>1, <1>2
  <1> HIDE DEF excess
  <1>4. \A i \in (excess + 1) .. Len(all) : all[i] \in Nat /\ all[i] = m + 1 - Len(all) + i
    <2> TAKE i \in (excess + 1) .. Len(all)
    <2>1. CASE i = Len(all)
      BY <1>1, <1>2, <2>1
    <2>2. CASE i # Len(all)
      <3>1. i \in 1 .. Len(rs)
        BY <1>1, <1>2, <1>3, <2>2
      <3>2. rs[i] = m - Len(rs) + i
        BY <3>1 DEF Gapless
      <3> QED BY <1>1, <1>2, <3>1, <3>2
    <2> QED BY <2>1, <2>2
  <1>5. excess + 1 \in Int /\ Len(all) \in Int
    BY <1>1, <1>2, <1>3
  <1>6. /\ kept \in Seq(Nat)
        /\ Len(kept) = IF excess + 1 <= Len(all) THEN Len(all) - (excess + 1) + 1 ELSE 0
        /\ \A i \in 1 .. Len(all) - (excess + 1) + 1 : kept[i] = all[excess + 1 + i - 1]
    BY <1>4, <1>5, SubSeqProperties
  <1> HIDE DEF kept
  <1>7. Len(kept) = Len(all) - excess /\ \A i \in 1 .. Len(kept) : kept[i] = all[excess + i]
    BY <1>1, <1>2, <1>3, <1>6
  <1>8. \A i \in 1 .. Len(kept) : kept[i] = m + 1 - Len(kept) + i
    <2> TAKE i \in 1 .. Len(kept)
    <2>1. excess + i \in (excess + 1) .. Len(all)
      BY <1>1, <1>2, <1>3, <1>7
    <2>2. kept[i] = m + 1 - Len(all) + (excess + i)
      BY <1>4, <1>7, <2>1
    <2> QED BY <1>1, <1>2, <1>3, <1>7, <2>2
  <1>9. kept \in Seq(Nat) /\ Gapless(kept, m + 1) /\ Len(kept) <= n
    BY <1>3, <1>6, <1>7, <1>8 DEF Gapless
  <1> QED BY <1>9 DEF kept, excess, all

LEMMA MaxIs ==
  ASSUME NEW S, NEW m \in S, \A y \in S : y \in Nat /\ m >= y
  PROVE  Max(S) = m
  <1>1. \E x \in S : \A y \in S : x >= y
    OBVIOUS
  <1>2. Max(S) \in S /\ \A y \in S : Max(S) >= y
    BY <1>1 DEF Max
  <1>3. Max(S) >= m /\ m >= Max(S) /\ Max(S) \in Nat /\ m \in Nat
    BY <1>2
  <1> QED BY <1>3

\* What loadRecords finds to be the last identifier is that of the newest record.
LEMMA LastIsNewest ==
  ASSUME NEW rs \in Seq(Nat), NEW m \in Nat, Gapless(rs, m)
  PROVE  LastId(rs) \in Nat /\ Gapless(rs, LastId(rs))
  <1>1. Len(rs) \in Nat /\ DOMAIN rs = 1 .. Len(rs) /\ \A i \in 1 .. Len(rs) : rs[i] \in Nat
    BY LenProperties, ElementOfSeq
  <1> DEFINE S == {rs[i] : i \in DOMAIN rs} \cup {0}
  <1>2. CASE Len(rs) = 0
    <2>1. S = {0}
      BY <1>1, <1>2
    <2> HIDE DEF S
    <2>2. 0 \in S /\ \A y \in S : y \in Nat /\ 0 >= y
      BY <2>1
    <2>3. Max(S) = 0
      BY <2>2, MaxIs
    <2>4. LastId(rs) = 0
      BY <2>3 DEF LastId, S
    <2> QED BY <1>2, <2>4 DEF Gapless
  <1>3. CASE Len(rs) > 0
    <2>1. rs[Len(rs)] = m /\ m \in S
      BY <1>1, <1>3 DEF Gapless
    <2>2. \A y \in S : y \in Nat /\ m >= y
      BY <1>1, <1>3 DEF Gapless
    <2> HIDE DEF S
    <2>3. Max(S) = m
      BY <2>1, <2>2, MaxIs
    <2>4. LastId(rs) = m
      BY <2>3 DEF LastId, S
    <2> QED BY <2>4
  <1> QED BY <1>1, <1>2, <1>3

-----------------------------------------------------------------------------
(* Types *)

Connection == [at : Stages, udp : BOOLEAN, stream : Buffer, arrived : Nat,
               taken : Nat, proto : Protocol, allow : BOOLEAN]

\* What a handler knows of its client's bytes.
Sound(k) ==
    /\ k.at = "none" => k = Unused
    /\ k.at = "sniff" => k.taken <= k.arrived /\ k.arrived <= Len(k.stream)
    /\ k.at = "judge" => /\ k.taken <= Len(k.stream)
                         /\ k.proto = detectProtocol(SubSeq(k.stream, 1, k.taken))

\* The handlers' part of the invariant, and the rest of it.
Handlers == conn \in [Conns -> Connection] /\ \A c \in Conns : Sound(conn[c])

Settings ==
    /\ allowed \in Known \cup {"auto"} /\ barred \in BOOLEAN /\ limit \in Limits
    /\ budget \in [edits : Nat, crashes : Nat]

\* A file of records has no gap either, though it may be old.
Ring ==
    /\ seq \in Nat /\ boot \in Nat
    /\ records \in Seq(Nat) /\ Gapless(records, seq)
    /\ saved \in Seq(Nat) /\ \E m \in Nat : Gapless(saved, m)
    /\ \E n \in Limits : Len(records) <= n
    /\ \E n \in Limits : Len(saved) <= n

At(s) == {c \in Conns : conn[c].at = s}

Counted ==
    /\ day \in [connects : Nat, denies : Nat] /\ total \in Nat
    /\ seq - boot = day.connects + day.denies + Cardinality(At("day"))
    /\ day.connects = total + Cardinality(At("register"))

IInv == Handlers /\ Settings /\ Ring /\ Counted

LEMMA UnusedIsSound == Unused \in Connection /\ Sound(Unused)
  <1>1. <<>> \in Buffer /\ Len(<<>>) = 0
    BY DEF Buffer
  <1> QED BY <1>1 DEF Unused, Connection, Sound, Stages, Protocol, Known

\* A handler that goes from one stage to another, and leaves the others alone.
LEMMA OneMoves ==
  ASSUME Handlers, NEW c \in Conns, NEW k \in Connection, Sound(k),
         conn' = [conn EXCEPT ![c] = k]
  PROVE  Handlers'
BY DEF Handlers

\* After the sniffing the stage alone says whether a handler is sound.
LEMMA LaterIsSound ==
  ASSUME NEW k, k.at \notin {"none", "sniff", "judge"}
  PROVE  Sound(k)
BY DEF Sound

LEMMA Init_Handlers == Init => Handlers
BY UnusedIsSound DEF Init, Handlers

-----------------------------------------------------------------------------
(* The bytes of a client *)

LEMMA FirstSteps ==
  ASSUME Handlers, NEW c \in Conns, NEW s \in Streams, Accept(c, s) \/ Datagram(c, s)
  PROVE  Handlers'
  <1>1. conn \in [Conns -> Connection] /\ conn[c] \in Connection /\ Sound(conn[c])
    BY DEF Handlers
  <1>2. s \in Buffer /\ Len(s) \in Nat
    BY StreamsAssumption, LenProperties DEF Buffer
  <1>3. CASE Accept(c, s)
    <2> DEFINE k == [Unused EXCEPT !.at = "sniff", !.stream = s]
    <2>1. conn[c] = Unused /\ conn' = [conn EXCEPT ![c] = k]
      BY <1>1, <1>3 DEF Accept, Sound
    <2>2. k \in Connection
      BY <1>2, UnusedIsSound DEF Unused, Connection, Stages
    <2>3. k.at = "sniff" /\ k.taken = 0 /\ k.arrived = 0 /\ k.stream = s
      BY DEF Unused
    <2> HIDE DEF k
    <2>4. Sound(k)
      BY <1>2, <2>3 DEF Sound
    <2> QED BY <2>1, <2>2, <2>4, OneMoves
  <1>4. CASE Datagram(c, s)
    <2> DEFINE k == [Unused EXCEPT !.at = "judge", !.udp = TRUE, !.stream = s,
                                   !.taken = Len(s), !.proto = detectProtocol(s)]
    <2>1. conn' = [conn EXCEPT ![c] = k]
      BY <1>4 DEF Datagram
    <2>2. SubSeq(s, 1, Len(s)) = s
      BY <1>2, SubSeqFull DEF Buffer
    <2>3. k \in Connection
      BY <1>2, UnusedIsSound, Detected DEF Unused, Connection, Stages
    <2>4. k.at = "judge" /\ k.taken = Len(s) /\ k.stream = s /\ k.proto = detectProtocol(s)
      BY DEF Unused
    <2> HIDE DEF k
    <2>5. SubSeq(k.stream, 1, k.taken) = s
      BY <2>2, <2>4, Zenon
    <2>6. k.proto = detectProtocol(SubSeq(k.stream, 1, k.taken))
      BY <2>4, <2>5, Zenon
    <2>7. k.taken <= Len(k.stream)
      BY <1>2, <2>4
    <2>8. Sound(k)
      BY <2>4, <2>6, <2>7 DEF Sound
    <2> QED BY <2>1, <2>3, <2>8, OneMoves
  <1> QED BY <1>3, <1>4

LEMMA ByteSteps ==
  ASSUME Handlers, NEW c \in Conns, Arrive(c) \/ SniffRead(c) \/ SniffEnd(c) \/ Judge(c)
  PROVE  Handlers'
  <1>1. conn \in [Conns -> Connection] /\ conn[c] \in Connection /\ Sound(conn[c])
    BY DEF Handlers
  <1>2. Len(conn[c].stream) \in Nat
    BY <1>1, LenProperties DEF Connection, Buffer
  <1>5. CASE Arrive(c)
    <2>1. PICK n \in (conn[c].arrived + 1) .. Len(conn[c].stream) : conn' = [conn EXCEPT ![c].arrived = n]
      BY <1>5 DEF Arrive
    <2> DEFINE k == [conn[c] EXCEPT !.arrived = n]
    <2>2. conn' = [conn EXCEPT ![c] = k]
      BY <1>1, <2>1
    <2>3. n \in Nat /\ conn[c].arrived < n /\ n <= Len(conn[c].stream)
      BY <1>1, <1>2 DEF Connection
    <2>4. /\ k \in Connection
          /\ k.at = "sniff" /\ k.arrived = n
          /\ k.taken = conn[c].taken /\ k.stream = conn[c].stream
      BY <1>1, <1>5, <2>3 DEF Arrive, Connection
    <2>5. conn[c].taken <= conn[c].arrived /\ conn[c].taken \in Nat /\ conn[c].arrived \in Nat
      BY <1>1, <1>5 DEF Arrive, Connection, Sound
    <2> HIDE DEF k
    <2>6. k.taken <= n
      BY <2>3, <2>4, <2>5
    <2>7. Sound(k)
      BY <2>3, <2>4, <2>6 DEF Sound
    <2> QED BY <2>2, <2>4, <2>7, OneMoves
  <1>6. CASE SniffRead(c)
    <2> DEFINE m == conn[c].arrived - conn[c].taken
               t == conn[c].taken + (IF m < SniffLimit THEN m ELSE SniffLimit)
               k == [conn[c] EXCEPT !.taken = t]
    <2>1. conn' = [conn EXCEPT ![c] = k]
      BY <1>1, <1>6 DEF SniffRead
    <2>2. t \in Nat /\ t <= conn[c].arrived
      BY <1>1, <1>6, LimitsAssumption DEF SniffRead, Connection
    <2>3. k \in Connection /\ Sound(k)
      BY <1>1, <1>6, <2>2 DEF SniffRead, Connection, Sound
    <2> QED BY <2>1, <2>3, OneMoves
  <1>7. CASE SniffEnd(c)
    <2> DEFINE k == [conn[c] EXCEPT !.at = "judge", !.proto = detectProtocol(Sniffed(c))]
    <2>1. conn' = [conn EXCEPT ![c] = k]
      BY <1>1, <1>7 DEF SniffEnd
    <2>2. k \in Connection
      BY <1>1, Detected DEF Connection, Stages
    <2>3. Sound(k)
      BY <1>1, <1>2, <1>7 DEF SniffEnd, Connection, Sound, Sniffed
    <2> QED BY <2>1, <2>2, <2>3, OneMoves
  <1>8. CASE Judge(c)
    <2> DEFINE k == [Unused EXCEPT !.udp = conn[c].udp]
               a == [k EXCEPT !.at = "use"]
               d == [k EXCEPT !.at = "log", !.allow = FALSE]
    <2>1. conn' = [conn EXCEPT ![c] = a] \/ conn' = [conn EXCEPT ![c] = d]
      BY <1>8 DEF Judge
    <2>2. a \in Connection /\ Sound(a)
      BY <1>1, UnusedIsSound, LaterIsSound DEF Unused, Connection, Stages
    <2>3. d \in Connection /\ Sound(d)
      BY <1>1, UnusedIsSound, LaterIsSound DEF Unused, Connection, Stages
    <2> QED BY <2>1, <2>2, <2>3, OneMoves
  <1> QED BY <1>5, <1>6, <1>7, <1>8

-----------------------------------------------------------------------------
(* From the decision on *)

LEMMA LaterSteps ==
  ASSUME Handlers, NEW c \in Conns,
         Use(c) \/ Dial(c) \/ AddRecord(c) \/ DayEvent(c) \/ Register(c)
  PROVE  Handlers'
  <1>1. conn \in [Conns -> Connection] /\ conn[c] \in Connection
    BY DEF Handlers
  <1>2. ASSUME NEW s \in {"dial", "log", "day", "register"}, Goto(c, s)
        PROVE  Handlers'
    <2> DEFINE k == [conn[c] EXCEPT !.at = s]
    <2>1. conn' = [conn EXCEPT ![c] = k]
      BY <1>1, <1>2 DEF Goto
    <2>2. k \in Connection /\ Sound(k)
      BY <1>1, LaterIsSound DEF Connection, Stages
    <2> QED BY <2>1, <2>2, OneMoves
  <1>3. ASSUME NEW s \in {"gone", "serving"}, Leave(c, s)
        PROVE  Handlers'
    <2> DEFINE k == [Unused EXCEPT !.at = s]
    <2>1. conn' = [conn EXCEPT ![c] = k]
      BY <1>3 DEF Leave
    <2>2. k \in Connection /\ Sound(k)
      BY UnusedIsSound, LaterIsSound DEF Unused, Connection, Stages
    <2> QED BY <2>1, <2>2, OneMoves
  <1>4. ASSUME Deny(c)
        PROVE  Handlers'
    <2> DEFINE k == [conn[c] EXCEPT !.at = "log", !.allow = FALSE]
    <2>1. conn' = [conn EXCEPT ![c] = k]
      BY <1>1, <1>4 DEF Deny
    <2>2. k \in Connection /\ Sound(k)
      BY <1>1, LaterIsSound DEF Connection, Stages
    <2> QED BY <2>1, <2>2, OneMoves
  <1> QED BY <1>2, <1>3, <1>4 DEF Use, Dial, AddRecord, DayEvent, Register

LEMMA OtherSteps_Handlers ==
  ASSUME Handlers, Edit \/ SaveRecords \/ Crash \/ UNCHANGED vars
  PROVE  Handlers'
  <1>1. CASE Crash
    <2> DEFINE g == [Unused EXCEPT !.at = "gone"]
    <2>1. g \in Connection /\ Sound(g)
      BY UnusedIsSound, LaterIsSound DEF Unused, Connection, Stages
    <2>2. conn' = [c \in Conns |-> IF conn[c].at = "none" THEN conn[c] ELSE g]
      BY <1>1 DEF Crash
    <2> HIDE DEF g
    <2> QED BY <2>1, <2>2 DEF Handlers
  <1>2. CASE Edit \/ SaveRecords \/ UNCHANGED vars
    <2>1. conn' = conn
      BY <1>2 DEF Edit, SaveRecords, vars
    <2> QED BY <2>1 DEF Handlers
  <1> QED BY <1>1, <1>2

LEMMA Next_Handlers ==
  ASSUME Handlers, [Next]_vars
  PROVE  Handlers'
  <1>1. CASE \E c \in Conns, s \in Streams : Accept(c, s) \/ Datagram(c, s)
    BY <1>1, FirstSteps
  <1>2. CASE \E c \in Conns : Arrive(c) \/ Handle(c)
    <2>1. PICK c \in Conns : Arrive(c) \/ Handle(c)
      BY <1>2
    <2>2. CASE Arrive(c) \/ SniffRead(c) \/ SniffEnd(c) \/ Judge(c)
      BY <2>2, ByteSteps
    <2>3. CASE Use(c) \/ Dial(c) \/ AddRecord(c) \/ DayEvent(c) \/ Register(c)
      BY <2>3, LaterSteps
    <2> QED BY <2>1, <2>2, <2>3 DEF Handle
  <1>3. CASE Edit \/ SaveRecords \/ Crash \/ UNCHANGED vars
    BY <1>3, OtherSteps_Handlers
  <1> QED BY <1>1, <1>2, <1>3 DEF Next

\* Once three bytes were read, and unless they begin like a WireGuard handshake,
\* the protocol found for a connection does not depend on the pieces in which its
\* bytes arrived, nor on where the read deadline cut them off.
THEOREM SegmentsNeverMatter == Spec => []SegmentsDoNotMatter
  <1>1. ASSUME Handlers
        PROVE  SegmentsDoNotMatter
    <2> SUFFICES ASSUME NEW c \in Conns, conn[c].at = "judge", conn[c].taken >= 3,
                        ~HandshakeHead(conn[c].stream), NEW n \in 3 .. Len(conn[c].stream)
                 PROVE  detectProtocol(SubSeq(conn[c].stream, 1, n)) = conn[c].proto
      BY DEF SegmentsDoNotMatter
    <2> DEFINE s == conn[c].stream
    <2>1. s \in Buffer /\ conn[c].taken \in Nat /\ conn[c].taken <= Len(s)
      BY <1>1 DEF Handlers, Connection, Sound
    <2>2. conn[c].proto = detectProtocol(SubSeq(s, 1, conn[c].taken))
      BY <1>1 DEF Handlers, Sound
    <2>3. Len(s) \in Nat
      BY <2>1, LenProperties DEF Buffer
    <2>4. conn[c].taken \in 3 .. Len(s)
      BY <2>1, <2>3
    <2> QED BY <2>1, <2>2, <2>4, ThreeBytesDecide
  <1> QED BY <1>1, Init_Handlers, Next_Handlers, PTL DEF Spec

-----------------------------------------------------------------------------
(* The ring *)

LEMMA Init_Ring == Init => Settings /\ Ring
  <1> SUFFICES ASSUME Init
               PROVE  Settings /\ Ring
    OBVIOUS
  <1>1. <<>> \in Seq(Nat) /\ Len(<<>>) = 0 /\ \A m \in Nat : Gapless(<<>>, m)
    BY DEF Gapless
  <1>2. DefaultLimit \in Limits /\ DefaultLimit \in Nat \ {0}
    BY RingAssumption
  <1>3. 0 <= DefaultLimit
    BY <1>2
  <1> QED BY <1>1, <1>2, <1>3 DEF Init, Settings, Ring

LEMMA Next_Settings ==
  ASSUME Settings, [Next]_vars
  PROVE  Settings'
  <1>1. CASE Edit
    <2>1. budget' \in [edits : Nat, crashes : Nat]
      BY <1>1 DEF Settings, Edit
    <2>2. allowed' \in Known \cup {"auto"} /\ limit' \in Limits
      BY <1>1 DEF Settings, Edit
    <2>3. barred' = barred \/ barred' = ~barred
      BY <1>1 DEF Edit
    <2>4. barred' \in BOOLEAN
      BY <2>3 DEF Settings
    <2> QED BY <2>1, <2>2, <2>4 DEF Settings
  <1>2. CASE Crash
    BY <1>2 DEF Settings, Crash, settings
  <1>3. ASSUME UNCHANGED <<settings, budget>>
        PROVE  Settings'
    BY <1>3 DEF Settings, settings
  <1> QED BY <1>1, <1>2, <1>3
          DEF Next, Handle, Accept, Datagram, Arrive, SniffRead, SniffEnd, Judge, Use, Dial,
              AddRecord, DayEvent, Register, SaveRecords, vars

LEMMA Next_Ring ==
  ASSUME Settings, Ring, [Next]_vars
  PROVE  Ring'
  <1>1. ASSUME NEW c \in Conns, AddRecord(c)
        PROVE  Ring'
    <2>1. limit \in Limits /\ limit \in Nat \ {0}
      BY RingAssumption DEF Settings
    <2>2. records' \in Seq(Nat) /\ Gapless(records', seq + 1) /\ Len(records') <= limit
      BY <1>1, <2>1, AppendKeeps DEF AddRecord, Ring
    <2>3. seq' = seq + 1 /\ seq' \in Nat /\ UNCHANGED <<saved, boot>>
      BY <1>1 DEF AddRecord, Ring
    <2>4. Gapless(records, seq)'
      BY <2>2, <2>3 DEF Gapless
    <2> QED BY <2>1, <2>2, <2>3, <2>4 DEF Ring, Gapless
  <1>2. CASE SaveRecords
    BY <1>2 DEF Ring, SaveRecords, Gapless
  <1>3. CASE Crash
    <2>1. LastId(saved) \in Nat /\ Gapless(saved, LastId(saved))
      BY LastIsNewest DEF Ring
    <2>2. records' = saved /\ saved' = saved /\ seq' = LastId(saved) /\ boot' = LastId(saved)
      BY <1>3 DEF Crash
    <2>3. Gapless(records, seq)'
      BY <2>1, <2>2 DEF Gapless
    <2> QED BY <2>1, <2>2, <2>3 DEF Ring, Gapless
  <1>4. ASSUME UNCHANGED <<seq, records, saved, boot>>
        PROVE  Ring'
    BY <1>4 DEF Ring, Gapless
  <1> QED BY <1>1, <1>2, <1>3, <1>4
          DEF Next, Handle, Accept, Datagram, Arrive, SniffRead, SniffEnd, Judge, Use, Dial,
              DayEvent, Register, Edit, books, vars

\* The records kept are always the newest ones, without a gap, whatever the
\* limit is changed to and whatever file the panel starts again from.
THEOREM RingStaysNewest == Spec => []RingIsNewest
  <1> DEFINE I == Settings /\ Ring
  <1>1. Init => I
    BY Init_Ring
  <1>2. I /\ [Next]_vars => I'
    BY Next_Settings, Next_Ring
  <1>3. I => RingIsNewest
    <2> SUFFICES ASSUME Ring
                 PROVE  RingIsNewest
      OBVIOUS
    <2>1. DOMAIN records = 1 .. Len(records) /\ Len(records) \in Nat
      BY LenProperties DEF Ring
    <2> QED BY <2>1 DEF Ring, RingIsNewest, Gapless
  <1> QED BY <1>1, <1>2, <1>3, PTL DEF Spec

-----------------------------------------------------------------------------
(* Counting *)

LEMMA AtIsFinite == \A s : IsFiniteSet(At(s)) /\ Cardinality(At(s)) \in Nat
BY ConnsAssumption, FS_Subset, FS_CardinalityType DEF At

\* How many are at a stage, after one handler has moved.
LEMMA Moved ==
  ASSUME NEW c \in Conns, NEW s, NEW k,
         conn \in [Conns -> Connection], conn' = [conn EXCEPT ![c] = k]
  PROVE  Cardinality(At(s))' = Cardinality(At(s))
           + (IF k.at = s THEN 1 ELSE 0) - (IF conn[c].at = s THEN 1 ELSE 0)
  <1>1. IsFiniteSet(At(s)) /\ Cardinality(At(s)) \in Nat
    BY AtIsFinite
  <1>2. conn'[c] = k /\ \A d \in Conns \ {c} : conn'[d] = conn[d]
    OBVIOUS
  <1>3. At(s)' = {d \in Conns : conn'[d].at = s}
    BY DEF At
  <1>4. CASE k.at = s /\ conn[c].at # s
    <2>1. At(s)' = At(s) \cup {c} /\ c \notin At(s)
      BY <1>2, <1>3, <1>4 DEF At
    <2>2. Cardinality(At(s) \cup {c}) = Cardinality(At(s)) + 1
      BY <1>1, <2>1, FS_AddElement
    <2> QED BY <1>1, <1>4, <2>1, <2>2
  <1>5. CASE k.at # s /\ conn[c].at = s
    <2>1. At(s)' = At(s) \ {c} /\ c \in At(s)
      BY <1>2, <1>3, <1>5 DEF At
    <2>2. Cardinality(At(s) \ {c}) = Cardinality(At(s)) - 1
      BY <1>1, <2>1, FS_RemoveElement
    <2> QED BY <1>1, <1>5, <2>1, <2>2
  <1>6. CASE (k.at = s) = (conn[c].at = s)
    <2>1. At(s)' = At(s)
      BY <1>2, <1>3, <1>6 DEF At
    <2> QED BY <1>1, <1>6, <2>1
  <1> QED BY <1>4, <1>5, <1>6

\* The numbers that Counted compares.
Days == Cardinality(At("day"))
Registers == Cardinality(At("register"))
Books == Ring /\ Counted

LEMMA BooksTypes ==
  ASSUME Books
  PROVE  /\ Days \in Nat /\ Registers \in Nat
         /\ seq \in Nat /\ boot \in Nat /\ total \in Nat
         /\ day \in [connects : Nat, denies : Nat] /\ day.connects \in Nat /\ day.denies \in Nat
         /\ seq - boot = day.connects + day.denies + Days
         /\ day.connects = total + Registers
BY AtIsFinite DEF Books, Ring, Counted, Days, Registers

Is(x, s) == IF x = s THEN 1 ELSE 0

LEMMA BothMoved ==
  ASSUME Books, Handlers, NEW c \in Conns, NEW k, conn' = [conn EXCEPT ![c] = k]
  PROVE  /\ Days' = Days + Is(k.at, "day") - Is(conn[c].at, "day")
         /\ Registers' = Registers + Is(k.at, "register") - Is(conn[c].at, "register")
  <1>1. \A s : Cardinality(At(s))' = Cardinality(At(s)) + Is(k.at, s) - Is(conn[c].at, s)
    BY Moved DEF Handlers, Is
  <1> QED BY <1>1, Zenon DEF Days, Registers

LEMMA Init_Counted == Init => Counted
  <1> SUFFICES ASSUME Init
               PROVE  Counted
    OBVIOUS
  <1>1. At("day") = {} /\ At("register") = {}
    BY DEF Init, At, Unused
  <1>2. Days = 0 /\ Registers = 0
    BY <1>1, FS_EmptySet DEF Days, Registers
  <1> QED BY <1>2 DEF Init, Counted, Days, Registers

\* Before the decision is recorded nothing is counted.
LEMMA Early_Counted ==
  ASSUME Books, Handlers, NEW c \in Conns, NEW k, conn' = [conn EXCEPT ![c] = k],
         conn[c].at \notin {"day", "register"}, k.at \notin {"day", "register"}, UNCHANGED books
  PROVE  Counted'
  <1>1. /\ Days' = Days + Is(k.at, "day") - Is(conn[c].at, "day")
        /\ Registers' = Registers + Is(k.at, "register") - Is(conn[c].at, "register")
    BY BothMoved
  <1>2. Days' = Days /\ Registers' = Registers
    BY <1>1, BooksTypes DEF Is
  <1> QED BY <1>2, BooksTypes DEF Counted, Days, Registers, books

LEMMA EarlySteps_Counted ==
  ASSUME Books, Handlers, NEW c \in Conns,
         \/ \E s \in Streams : Accept(c, s) \/ Datagram(c, s)
         \/ Arrive(c) \/ SniffRead(c) \/ SniffEnd(c) \/ Judge(c) \/ Use(c) \/ Dial(c)
  PROVE  Counted'
  <1>1. conn \in [Conns -> Connection] /\ conn[c] \in Connection
    BY DEF Handlers
  <1>2. UNCHANGED books /\ conn[c].at \notin {"day", "register"}
    BY DEF Accept, Datagram, Arrive, SniffRead, SniffEnd, Judge, Use, Dial
  <1>3. conn' = [conn EXCEPT ![c] = conn'[c]]
    BY <1>1 DEF Accept, Datagram, Arrive, SniffRead, SniffEnd, Judge, Use, Dial, Deny, Goto
  <1>4. conn'[c].at \notin {"day", "register"}
    <2>1. CASE \E s \in Streams : Accept(c, s)
      BY <1>1, <2>1 DEF Accept, Connection
    <2>2. CASE \E s \in Streams : Datagram(c, s)
      BY <1>1, <2>2 DEF Datagram, Unused
    <2>3. CASE Arrive(c)
      BY <1>1, <2>3 DEF Arrive, Connection
    <2>4. CASE SniffRead(c)
      BY <1>1, <2>4 DEF SniffRead, Connection
    <2>5. CASE SniffEnd(c)
      BY <1>1, <2>5 DEF SniffEnd, Connection
    <2>6. CASE Judge(c)
      BY <1>1, <2>6 DEF Judge, Unused
    <2>7. CASE Use(c)
      BY <1>1, <2>7 DEF Use, Deny, Goto, Connection
    <2>8. CASE Dial(c)
      BY <1>1, <2>8 DEF Dial, Deny, Goto, Connection
    <2> QED BY <2>1, <2>2, <2>3, <2>4, <2>5, <2>6, <2>7, <2>8
  <1> QED BY <1>2, <1>3, <1>4, Early_Counted

LEMMA LateSteps_Counted ==
  ASSUME Books, Handlers, NEW c \in Conns, AddRecord(c) \/ DayEvent(c) \/ Register(c)
  PROVE  Counted'
  <1>1. conn \in [Conns -> Connection] /\ conn[c] \in Connection
    BY DEF Handlers
  <1>2. CASE AddRecord(c)
    <2> DEFINE k == [conn[c] EXCEPT !.at = "day"]
    <2>1. /\ conn[c].at = "log" /\ k.at = "day" /\ conn' = [conn EXCEPT ![c] = k]
          /\ seq' = seq + 1 /\ UNCHANGED <<boot, day, total>>
      BY <1>1, <1>2 DEF AddRecord, Goto, Connection
    <2> HIDE DEF k
    <2>moved. /\ Days' = Days + Is(k.at, "day") - Is(conn[c].at, "day")
          /\ Registers' = Registers + Is(k.at, "register") - Is(conn[c].at, "register")
      BY <1>1, <2>1, BothMoved
    <2>2. Days' = Days + 1 /\ Registers' = Registers
      BY <2>1, <2>moved, BooksTypes DEF Is
    <2> QED BY <2>1, <2>2, BooksTypes DEF Counted, Days, Registers
  <1>3. CASE DayEvent(c) /\ conn[c].allow
    <2> DEFINE k == [conn[c] EXCEPT !.at = "register"]
    <2>1. /\ conn[c].at = "day" /\ k.at = "register" /\ conn' = [conn EXCEPT ![c] = k]
          /\ day' = [day EXCEPT !.connects = @ + 1] /\ UNCHANGED <<seq, boot, total>>
      BY <1>1, <1>3 DEF DayEvent, Goto, Connection
    <2> HIDE DEF k
    <2>moved. /\ Days' = Days + Is(k.at, "day") - Is(conn[c].at, "day")
          /\ Registers' = Registers + Is(k.at, "register") - Is(conn[c].at, "register")
      BY <1>1, <2>1, BothMoved
    <2>2. Days' = Days - 1 /\ Registers' = Registers + 1
      BY <2>1, <2>moved, BooksTypes DEF Is
    <2>3. /\ day' \in [connects : Nat, denies : Nat]
          /\ day'.connects = day.connects + 1 /\ day'.denies = day.denies
      BY <2>1, BooksTypes
    <2> QED BY <2>1, <2>2, <2>3, BooksTypes DEF Counted, Days, Registers
  <1>4. CASE DayEvent(c) /\ ~conn[c].allow
    <2> DEFINE k == [Unused EXCEPT !.at = "gone"]
    <2>1. /\ conn[c].at = "day" /\ k.at = "gone" /\ conn' = [conn EXCEPT ![c] = k]
          /\ day' = [day EXCEPT !.denies = @ + 1] /\ UNCHANGED <<seq, boot, total>>
      BY <1>1, <1>4 DEF DayEvent, Leave, Unused
    <2> HIDE DEF k
    <2>moved. /\ Days' = Days + Is(k.at, "day") - Is(conn[c].at, "day")
          /\ Registers' = Registers + Is(k.at, "register") - Is(conn[c].at, "register")
      BY <1>1, <2>1, BothMoved
    <2>2. Days' = Days - 1 /\ Registers' = Registers
      BY <2>1, <2>moved, BooksTypes DEF Is
    <2>3. /\ day' \in [connects : Nat, denies : Nat]
          /\ day'.connects = day.connects /\ day'.denies = day.denies + 1
      BY <2>1, BooksTypes
    <2> QED BY <2>1, <2>2, <2>3, BooksTypes DEF Counted, Days, Registers
  <1>5. CASE Register(c)
    <2> DEFINE k == [Unused EXCEPT !.at = "serving"]
    <2>1. /\ conn[c].at = "register" /\ k.at = "serving" /\ conn' = [conn EXCEPT ![c] = k]
          /\ total' = total + 1 /\ UNCHANGED <<seq, boot, day>>
      BY <1>1, <1>5 DEF Register, Leave, Unused
    <2> HIDE DEF k
    <2>moved. /\ Days' = Days + Is(k.at, "day") - Is(conn[c].at, "day")
          /\ Registers' = Registers + Is(k.at, "register") - Is(conn[c].at, "register")
      BY <1>1, <2>1, BothMoved
    <2>2. Days' = Days /\ Registers' = Registers - 1
      BY <2>1, <2>moved, BooksTypes DEF Is
    <2> QED BY <2>1, <2>2, BooksTypes DEF Counted, Days, Registers
  <1> QED BY <1>2, <1>3, <1>4, <1>5

LEMMA OtherSteps_Counted ==
  ASSUME Books, Handlers, Edit \/ SaveRecords \/ Crash \/ UNCHANGED vars
  PROVE  Counted'
  <1>1. CASE Crash
    <2>1. \A c \in Conns : conn'[c].at \in {"none", "gone"}
      BY <1>1 DEF Crash, Unused
    <2>2. At("day")' = {} /\ At("register")' = {}
      BY <2>1 DEF At
    <2>3. Days' = 0 /\ Registers' = 0
      BY <2>2, FS_EmptySet DEF Days, Registers
    <2>4. LastId(saved) \in Nat
      BY LastIsNewest DEF Books, Ring
    <2>5. seq' - boot' = 0 /\ day' = [connects |-> 0, denies |-> 0] /\ total' = 0
      BY <1>1, <2>4 DEF Crash
    <2> QED BY <2>3, <2>5 DEF Counted, Days, Registers
  <1>2. CASE Edit \/ SaveRecords \/ UNCHANGED vars
    <2>1. UNCHANGED <<conn, seq, boot, day, total>>
      BY <1>2 DEF Edit, SaveRecords, vars, books
    <2> QED BY <2>1 DEF Books, Counted, At
  <1> QED BY <1>1, <1>2

LEMMA Next_Counted ==
  ASSUME Books, Handlers, [Next]_vars
  PROVE  Counted'
  <1>1. CASE \E c \in Conns, s \in Streams : Accept(c, s) \/ Datagram(c, s)
    BY <1>1, EarlySteps_Counted
  <1>2. CASE \E c \in Conns : Arrive(c) \/ Handle(c)
    <2>1. PICK c \in Conns : Arrive(c) \/ Handle(c)
      BY <1>2
    <2> QED BY <2>1, EarlySteps_Counted, LateSteps_Counted DEF Handle
  <1>3. CASE Edit \/ SaveRecords \/ Crash \/ UNCHANGED vars
    BY <1>3, OtherSteps_Counted
  <1> QED BY <1>1, <1>2, <1>3 DEF Next

LEMMA Always == Spec => []IInv
  <1>1. Init => IInv
    BY Init_Handlers, Init_Ring, Init_Counted DEF IInv
  <1>2. IInv /\ [Next]_vars => IInv'
    BY Next_Handlers, Next_Settings, Next_Ring, Next_Counted DEF IInv, Books
  <1> QED BY <1>1, <1>2, PTL DEF Spec

\* Every variable of admission keeps its type: what handlers, the ring and the
\* counters of relay.go and storage.go hold.
THEOREM AdmissionTypeCorrect == Spec => []TypeOK
  <1>1. IInv => TypeOK
    BY DEF IInv, Handlers, Settings, Ring, Counted, Connection, TypeOK
  <1> QED BY <1>1, Always, PTL

\* Every decision on a connection is recorded and counted once, whichever way
\* its handler leaves, for any number of connections.
THEOREM DecisionsAreRecorded == Spec => []EveryDecisionRecorded
  <1>1. IInv => EveryDecisionRecorded
    BY DEF IInv, Counted, At, EveryDecisionRecorded
  <1> QED BY <1>1, Always, PTL
=============================================================================
