------------------------------ MODULE Admission ------------------------------
(***************************************************************************)
(* From the first byte of a connection to the decision on it, and how that *)
(* is recorded: sniffTCP and the first half of handleTCP, the same for the *)
(* first datagram of a UDP client (relay.go), the ring of records and the  *)
(* day's counters (storage.go), and what of it survives a restart.         *)
(*                                                                         *)
(* The bytes of a client arrive in any pieces, and the read deadline may   *)
(* pass between any two of them.  A record and the day's counters are two  *)
(* critical sections; connections interleave at each of them.  What comes  *)
(* after register is the subject of modules Traffic and UdpSessions.       *)
(***************************************************************************)
EXTENDS Detect, FiniteSets, FiniteSetsExt

CONSTANTS
    Conns,        \* TCP connections and first datagrams; each is used once
    Streams,      \* what clients send
    Limits,       \* values of Settings.RecordsLimit
    DefaultLimit, \* the one of these that a new store has
    MaxEdits,     \* bound: changes by the administrator
    MaxCrashes    \* bound: ends of the panel

ASSUME ConnsAssumption == IsFiniteSet(Conns)
ASSUME StreamsAssumption == Streams \subseteq Buffer
ASSUME RingAssumption == Limits \subseteq Nat \ {0} /\ DefaultLimit \in Limits
ASSUME BoundsAssumption == MaxEdits \in Nat /\ MaxCrashes \in Nat

VARIABLES
    conn,     \* each connection: where its handler is, and what it has found
    allowed,  \* Port.Allowed
    barred,   \* canUse would find something against the rule, its user or group
    limit,    \* Settings.RecordsLimit
    seq,      \* Store.seq
    records,  \* Store.records: their identifiers, oldest first
    day,      \* what the panel has added to DayStat since it started
    total,    \* ... and to Port.TotalConns
    saved,    \* records.json
    boot,     \* history: seq when the panel started
    budget    \* what the environment has done so far, for the bounds

settings == <<allowed, barred, limit>>
books == <<seq, records, day, total, saved, boot>>
vars == <<conn, settings, books, budget>>

Stages == {"none", "sniff", "judge", "use", "dial", "log", "day", "register", "serving", "gone"}

TypeOK ==
    /\ conn \in [Conns -> [at : Stages, udp : BOOLEAN, stream : Buffer, arrived : Nat,
                           taken : Nat, proto : Protocol, allow : BOOLEAN]]
    /\ allowed \in Known \cup {"auto"}
    /\ barred \in BOOLEAN
    /\ limit \in Limits
    /\ seq \in Nat
    /\ records \in Seq(Nat)
    /\ saved \in Seq(Nat)
    /\ day \in [connects : Nat, denies : Nat]
    /\ total \in Nat
    /\ boot \in Nat
    /\ budget \in [edits : Nat, crashes : Nat]

Unused == [at |-> "none", udp |-> FALSE, stream |-> <<>>, arrived |-> 0, taken |-> 0,
           proto |-> "unknown", allow |-> TRUE]

Init ==
    /\ conn = [c \in Conns |-> Unused]
    /\ allowed = "auto"
    /\ barred = FALSE
    /\ limit = DefaultLimit
    /\ seq = 0 /\ records = <<>> /\ saved = <<>>
    /\ day = [connects |-> 0, denies |-> 0]
    /\ total = 0
    /\ boot = 0
    /\ budget = [edits |-> 0, crashes |-> 0]

\* What sniffTCP has in its buffer.
Sniffed(c) == SubSeq(conn[c].stream, 1, conn[c].taken)

Goto(c, at) == conn' = [conn EXCEPT ![c].at = at]
Leave(c, at) == conn' = [conn EXCEPT ![c] = [Unused EXCEPT !.at = at]]
\* To the record of a refusal, deny_protocol to deny_target: which, is left out.
Deny(c) == conn' = [conn EXCEPT ![c].at = "log", ![c].allow = FALSE]

-----------------------------------------------------------------------------
(* Bytes arrive, and are sniffed *)

\* acceptTCP starts a handler.
Accept(c, stream) ==
    /\ conn[c].at = "none"
    /\ conn' = [conn EXCEPT ![c].at = "sniff", ![c].stream = stream]
    /\ UNCHANGED <<settings, books, budget>>

\* The listener's loop reads a datagram of a client it has no session for; it
\* has finished with the one before.
Datagram(c, stream) ==
    /\ conn[c].at = "none"
    /\ \A d \in Conns : conn[d].udp => conn[d].at \in {"serving", "gone"}
    /\ conn' = [conn EXCEPT ![c] = [Unused EXCEPT !.at = "judge", !.udp = TRUE, !.stream = stream,
                                        !.taken = Len(stream), !.proto = detectProtocol(stream)]]
    /\ UNCHANGED <<settings, books, budget>>

\* More of the stream arrives; after the sniffing that is the pump's matter.
Arrive(c) ==
    /\ conn[c].at = "sniff"
    /\ \E n \in (conn[c].arrived + 1) .. Len(conn[c].stream) : conn' = [conn EXCEPT ![c].arrived = n]
    /\ UNCHANGED <<settings, books, budget>>

\* One Read, of at most SniffLimit bytes; as long as the buffer is short of the
\* limit there is another, so that it may end up with nearly twice as much.
SniffRead(c) ==
    /\ conn[c].at = "sniff"
    /\ conn[c].taken < SniffLimit
    /\ conn[c].arrived > conn[c].taken
    /\ LET n == conn[c].arrived - conn[c].taken
       IN  conn' = [conn EXCEPT ![c].taken = @ + (IF n < SniffLimit THEN n ELSE SniffLimit)]
    /\ UNCHANGED <<settings, books, budget>>

\* A plausible bug: the deadline is lifted with the first bytes.
SniffEnd_FirstOnly(c) ==
    /\ conn[c].at = "sniff"
    /\ conn[c].taken = 0 \/ conn[c].taken >= SniffLimit
    /\ conn' = [conn EXCEPT ![c].at = "judge", ![c].proto = detectProtocol(Sniffed(c))]
    /\ UNCHANGED <<settings, books, budget>>

\* The buffer has reached the limit, the deadline has passed (4 s for the first
\* bytes, 300 ms for the next), or the client has closed.
SniffEnd(c) ==
    /\ conn[c].at = "sniff"
    /\ conn' = [conn EXCEPT ![c].at = "judge", ![c].proto = detectProtocol(Sniffed(c))]
    /\ UNCHANGED <<settings, books, budget>>

-----------------------------------------------------------------------------
(* Permission and dial *)

\* The rule's protocols.  What follows no longer looks at the bytes.
Judge(c) ==
    /\ conn[c].at = "judge"
    /\ LET k == [Unused EXCEPT !.udp = conn[c].udp]
           good == conn[c].proto # "unknown" /\ allowedFor(allowed, conn[c].proto)
       IN  conn' = [conn EXCEPT ![c] = IF good THEN [k EXCEPT !.at = "use"]
                                       ELSE [k EXCEPT !.at = "log", !.allow = FALSE]]
    /\ UNCHANGED <<settings, books, budget>>

\* canUse.
Use(c) ==
    /\ conn[c].at = "use"
    /\ IF barred THEN Deny(c) ELSE Goto(c, "dial")
    /\ UNCHANGED <<settings, books, budget>>

\* dialAddr finds no internal port, the target does not answer, or it does and
\* gets what was sniffed.
Dial(c) ==
    /\ conn[c].at = "dial"
    /\ Deny(c) \/ Goto(c, "log")
    /\ UNCHANGED <<settings, books, budget>>

-----------------------------------------------------------------------------
(* logRecord and register *)

\* A plausible bug: a full ring keeps its oldest records.
AddRecord_Oldest(c) ==
    /\ conn[c].at = "log"
    /\ seq' = seq + 1
    /\ LET all == Append(records, seq + 1)
       IN  records' = SubSeq(all, 1, IF Len(all) > limit THEN limit ELSE Len(all))
    /\ Goto(c, "day")
    /\ UNCHANGED <<settings, day, total, saved, boot, budget>>

\* The newest limit records are kept.
AddRecord(c) ==
    /\ conn[c].at = "log"
    /\ seq' = seq + 1
    /\ LET all == Append(records, seq + 1)
           excess == IF Len(all) > limit THEN Len(all) - limit ELSE 0
       IN  records' = SubSeq(all, excess + 1, Len(all))
    /\ Goto(c, "day")
    /\ UNCHANGED <<settings, day, total, saved, boot, budget>>

\* A plausible bug: refusals are only recorded.
DayEvent_OnlyAllowed(c) ==
    /\ conn[c].at = "day"
    /\ day' = IF conn[c].allow THEN [day EXCEPT !.connects = @ + 1] ELSE day
    /\ IF conn[c].allow THEN Goto(c, "register") ELSE Leave(c, "gone")
    /\ UNCHANGED <<settings, seq, records, total, saved, boot, budget>>

DayEvent(c) ==
    /\ conn[c].at = "day"
    /\ day' = IF conn[c].allow THEN [day EXCEPT !.connects = @ + 1]
              ELSE [day EXCEPT !.denies = @ + 1]
    /\ IF conn[c].allow THEN Goto(c, "register") ELSE Leave(c, "gone")
    /\ UNCHANGED <<settings, seq, records, total, saved, boot, budget>>

\* register, with IncConn.
Register(c) ==
    /\ conn[c].at = "register"
    /\ total' = total + 1
    /\ Leave(c, "serving")
    /\ UNCHANGED <<settings, seq, records, day, saved, boot, budget>>

-----------------------------------------------------------------------------
(* The world outside the handlers *)

\* The administrator edits the rule, its user, the group or the settings; a
\* quota runs out or is reset.
Edit ==
    /\ budget.edits < MaxEdits
    /\ budget' = [budget EXCEPT !.edits = @ + 1]
    /\ \/ \E a \in Known \cup {"auto"} : allowed' = a /\ UNCHANGED <<barred, limit>>
       \/ barred' = ~barred /\ UNCHANGED <<allowed, limit>>
       \/ \E n \in Limits : limit' = n /\ UNCHANGED <<allowed, barred>>
    /\ UNCHANGED <<conn, books>>

\* saveRecords, once a minute.
SaveRecords ==
    /\ saved' = records
    /\ UNCHANGED <<conn, settings, seq, records, day, total, boot, budget>>

\* A plausible bug: records are numbered anew after every start.
LastId_Zero(rs) == 0

\* loadRecords: the greatest identifier that was saved.
LastId(rs) == Max({rs[i] : i \in DOMAIN rs} \cup {0})

\* The panel ends and starts again: handlers are gone, records are those of the
\* file.
Crash ==
    /\ budget.crashes < MaxCrashes
    /\ budget' = [budget EXCEPT !.crashes = @ + 1]
    /\ conn' = [c \in Conns |-> IF conn[c].at = "none" THEN conn[c]
                                ELSE [Unused EXCEPT !.at = "gone"]]
    /\ records' = saved
    /\ seq' = LastId(saved)
    /\ boot' = LastId(saved)
    /\ day' = [connects |-> 0, denies |-> 0]
    /\ total' = 0
    /\ UNCHANGED <<settings, saved>>

-----------------------------------------------------------------------------

\* What a handler does without waiting for its client or the administrator.
Handle(c) ==
    \/ SniffRead(c) \/ SniffEnd(c) \/ Judge(c) \/ Use(c) \/ Dial(c)
    \/ AddRecord(c) \/ DayEvent(c) \/ Register(c)

Next ==
    \/ \E c \in Conns, s \in Streams : Accept(c, s) \/ Datagram(c, s)
    \/ \E c \in Conns : Arrive(c) \/ Handle(c)
    \/ Edit \/ SaveRecords \/ Crash

Spec == Init /\ [][Next]_vars

\* Handlers are scheduled and deadlines pass; no client has to send or close.
Fairness == \A c \in Conns : WF_vars(Handle(c))

FairSpec == Spec /\ Fairness

-----------------------------------------------------------------------------
(* Properties *)

\* In whatever pieces a stream arrives and wherever the deadline falls, from the
\* third byte on the protocol found is the one that any other cut of the stream
\* would have given.  Only what begins like a WireGuard handshake is different:
\* it is recognised by its length (detectProtocol, "TCP 首包可能被分片").
SegmentsDoNotMatter ==
    \A c \in Conns : LET k == conn[c] IN
        k.at = "judge" /\ k.taken >= 3 /\ ~HandshakeHead(k.stream) =>
            \A n \in 3 .. Len(k.stream) : detectProtocol(SubSeq(k.stream, 1, n)) = k.proto

\* Every decision is recorded and counted exactly once, on whichever of its ways
\* out a handler leaves, and every one recorded as allowed is registered: since
\* the panel started, the records, the day's counters and the rule's total differ
\* by the handlers that are between two of them (README: "记录每次连接").
EveryDecisionRecorded ==
    LET at(s) == Cardinality({c \in Conns : conn[c].at = s})
    IN  /\ seq - boot = day.connects + day.denies + at("day")
        /\ day.connects = total + at("register")

\* The records listed are the newest, without a gap and so none twice, also after a
\* restart from an older file and when the limit changes (storage.go AddRecord,
\* loadRecords).  What was recorded after the last save is lost with the panel; its identifiers
\* are then given again.
RingIsNewest ==
    /\ \A i \in DOMAIN records : records[i] = seq - Len(records) + i
    /\ \E n \in Limits : Len(records) <= n

\* Whatever a client sends, and if it sends nothing at all, its connection is
\* decided and recorded, or lost with the panel.
EveryConnectionDecided ==
    \A c \in Conns : conn[c].at # "none" ~> conn[c].at \in {"serving", "gone"}
=============================================================================
