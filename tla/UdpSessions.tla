---------------------------- MODULE UdpSessions ----------------------------
(***************************************************************************)
(* One UDP listener of relay.go: udpLoop (the main loop and its cleaner),  *)
(* a readLoop per session, and what flush and Reload do to them from the   *)
(* outside.  Sessions are found by client address in a map that smu        *)
(* protects; counters and the kill flag are those of the registered        *)
(* connection.  One unit is one datagram; time is only whether the 120 s   *)
(* since a moment have passed.                                             *)
(*                                                                         *)
(* A critical section of smu is one step, and so is unregister, whose race *)
(* with the flush of the same counters is module Traffic's matter.         *)
(***************************************************************************)
EXTENDS Integers, FiniteSets, FiniteSetsExt

CONSTANTS
    Clients,   \* client addresses, the keys of the session map
    Sessions,  \* sessions that may come to exist; each is used once
    None,      \* no session, no client
    Quota,     \* quota of the rule's user in datagrams, 0 for none
    MaxUp,     \* bound: datagrams from the clients
    MaxDown    \* bound: datagrams from the targets

ASSUME NoneAssumption == None \notin Clients /\ None \notin Sessions
ASSUME NatAssumption  == Quota \in Nat /\ MaxUp \in Nat /\ MaxDown \in Nat

VARIABLES
    listening, \* the listener's socket is open
    main,      \* the main loop: where it is and the session it serves
    map,       \* sessions: the client's session, or None
    client,    \* udpSession.clientAddr, None for a session not yet made
    rcOpen,    \* udpSession.rc is open
    reader,    \* readLoop of each session
    refused,   \* an error is pending on rc: its target refused a datagram
    stale,     \* 120 s have passed since udpSession.last
    killed,    \* activeConn.killed
    bytes,     \* activeConn.upBytes and downBytes
    registry,  \* Relay.conns
    flush,     \* flush(): the connections it still has to look at
    billed,    \* User.TotalBytes
    sent       \* datagrams so far, for the bounds

sessVars == <<client, reader, stale, killed>>
vars == <<listening, main, map, sessVars, rcOpen, refused, bytes, registry, flush, billed, sent>>

Dirs == {"up", "down"}
NoBytes == [d \in Dirs |-> 0]
BytesOf(s) == bytes[s]["up"] + bytes[s]["down"]
OverQuota == Quota > 0 /\ billed >= Quota

TypeOK ==
    /\ listening \in BOOLEAN
    /\ main \in [at : {"read", "wait", "write", "delete", "exited"}, s : Sessions \cup {None}]
    /\ map \in [Clients -> Sessions \cup {None}]
    /\ client \in [Sessions -> Clients \cup {None}]
    /\ rcOpen \in [Sessions -> BOOLEAN]
    /\ reader \in [Sessions -> {"none", "read", "held", "done"}]
    /\ refused \in [Sessions -> BOOLEAN]
    /\ stale \in [Sessions -> BOOLEAN]
    /\ killed \in [Sessions -> BOOLEAN]
    /\ bytes \in [Sessions -> [Dirs -> Nat]]
    /\ registry \in SUBSET Sessions
    /\ flush \in [at : {"idle", "swap", "kill"}, snap : SUBSET Sessions, todo : SUBSET Sessions]
    /\ billed \in Nat
    /\ sent \in [Dirs -> Nat]

FlushIdle == [at |-> "idle", snap |-> {}, todo |-> {}]
Reading == [at |-> "read", s |-> None]

Init ==
    /\ listening = TRUE
    /\ main = Reading
    /\ map = [c \in Clients |-> None]
    /\ client = [s \in Sessions |-> None]
    /\ rcOpen = [s \in Sessions |-> FALSE]
    /\ reader = [s \in Sessions |-> "none"]
    /\ refused = [s \in Sessions |-> FALSE]
    /\ stale = [s \in Sessions |-> FALSE]
    /\ killed = [s \in Sessions |-> FALSE]
    /\ bytes = [s \in Sessions |-> NoBytes]
    /\ registry = {}
    /\ flush = FlushIdle
    /\ billed = 0
    /\ sent = NoBytes

\* s.rc.Close() and r.unregister(s.conn): what the counters hold is billed, also
\* when the session had been unregistered before.
CloseAndUnregister(s) ==
    /\ rcOpen' = [rcOpen EXCEPT ![s] = FALSE]
    /\ registry' = registry \ {s}
    /\ bytes' = [bytes EXCEPT ![s] = NoBytes]
    /\ billed' = billed + BytesOf(s)

-----------------------------------------------------------------------------
(* The main loop *)

Receive(c) ==
    /\ main.at = "read"
    /\ listening
    /\ sent["up"] < MaxUp
    /\ sent' = [sent EXCEPT !["up"] = @ + 1]

\* A new client whose datagram is refused: unknown or forbidden protocol,
\* canUse, or the dial.
Refuse(c) ==
    /\ Receive(c)
    /\ map[c] = None
    /\ UNCHANGED <<listening, main, map, sessVars, rcOpen, bytes, registry, flush, billed,
                   refused>>

\* A new client within the quota gets a session, registered and in the map
\* before its readLoop starts.
NewSession(c, s) ==
    /\ Receive(c)
    /\ map[c] = None
    /\ ~OverQuota
    /\ client[s] = None
    /\ client' = [client EXCEPT ![s] = c]
    /\ rcOpen' = [rcOpen EXCEPT ![s] = TRUE]
    /\ registry' = registry \cup {s}
    /\ map' = [map EXCEPT ![c] = s]
    /\ reader' = [reader EXCEPT ![s] = "read"]
    /\ main' = [at |-> "wait", s |-> s]
    /\ UNCHANGED <<listening, stale, killed, bytes, flush, billed, refused>>

\* A known client: its session is noted as active and the datagram is carried on.
KnownSession(c) ==
    /\ Receive(c)
    /\ map[c] # None /\ ~killed[map[c]]
    /\ stale' = [stale EXCEPT ![map[c]] = FALSE]
    /\ main' = [at |-> "wait", s |-> map[c]]
    /\ UNCHANGED <<listening, map, client, reader, killed, rcOpen, bytes, registry, flush, billed, refused>>

\* A known client whose session was killed: the session goes, and the datagram.
KilledSession(c) ==
    /\ Receive(c)
    /\ map[c] # None /\ killed[map[c]]
    /\ CloseAndUnregister(map[c])
    /\ map' = [map EXCEPT ![c] = None]
    /\ UNCHANGED <<listening, main, sessVars, flush, refused>>

\* After bucket.Wait, without the lock: the session may have gone meanwhile.
CountUp ==
    /\ main.at = "wait"
    /\ bytes' = [bytes EXCEPT ![main.s]["up"] = @ + 1]
    /\ main' = [main EXCEPT !.at = "write"]
    /\ UNCHANGED <<listening, map, sessVars, rcOpen, registry, flush, billed, sent,
                   refused>>

\* The datagram goes out; its target may be down and refuse it, which the next
\* Read or Write on the socket will report.
WriteUp ==
    /\ main.at = "write"
    /\ rcOpen[main.s] /\ ~refused[main.s]
    /\ \E r \in BOOLEAN : refused' = [refused EXCEPT ![main.s] = r]
    /\ main' = Reading
    /\ UNCHANGED <<listening, map, sessVars, rcOpen, bytes, registry, flush, billed, sent>>

\* A plausible bug: a failed write closes the socket and leaves the rest to the
\* map.
WriteFails_NoUnregister ==
    /\ main.at = "write"
    /\ rcOpen' = [rcOpen EXCEPT ![main.s] = FALSE]
    /\ main' = [main EXCEPT !.at = "delete"]
    /\ UNCHANGED <<listening, map, sessVars, bytes, registry, flush, billed, sent, refused>>

\* The write fails, as it must on a closed socket.
WriteFails ==
    /\ main.at = "write"
    /\ CloseAndUnregister(main.s)
    /\ main' = [main EXCEPT !.at = "delete"]
    /\ UNCHANGED <<listening, map, sessVars, flush, sent, refused>>

DeleteFailed ==
    /\ main.at = "delete"
    /\ map' = [map EXCEPT ![client[main.s]] = None]
    /\ main' = Reading
    /\ UNCHANGED <<listening, sessVars, rcOpen, bytes, registry, flush, billed, sent,
                   refused>>

\* A plausible bug: the loop returns and leaves its sessions.
Leave_Keeps ==
    /\ main.at = "read"
    /\ ~listening
    /\ main' = [main EXCEPT !.at = "exited"]
    /\ UNCHANGED <<listening, map, sessVars, rcOpen, bytes, registry, flush, billed, sent,
                   refused>>

\* ReadFromUDP fails because the listener was closed: every session of the map
\* is closed and unregistered, and stays in the map, which the cleaner still
\* walks.  What their counters hold is billed.
Leave ==
    /\ main.at = "read"
    /\ ~listening
    /\ LET mine == {map[c] : c \in Clients} \ {None}
       IN  /\ rcOpen' = [s \in Sessions |-> rcOpen[s] /\ s \notin mine]
           /\ registry' = registry \ mine
           /\ bytes' = [s \in Sessions |-> IF s \in mine THEN NoBytes ELSE bytes[s]]
           /\ billed' = billed + MapThenSumSet(BytesOf, mine)
    /\ main' = [main EXCEPT !.at = "exited"]
    /\ UNCHANGED <<listening, map, sessVars, flush, sent, refused>>

-----------------------------------------------------------------------------
(* The cleaner, readLoop, and the world outside udpLoop *)

\* A plausible bug: the cleaner forgets to close the socket.
Clean_KeepsOpen(c) ==
    /\ map[c] # None
    /\ stale[map[c]] \/ killed[map[c]]
    /\ registry' = registry \ {map[c]}
    /\ bytes' = [bytes EXCEPT ![map[c]] = NoBytes]
    /\ billed' = billed + BytesOf(map[c])
    /\ map' = [map EXCEPT ![c] = None]
    /\ UNCHANGED <<listening, main, sessVars, rcOpen, flush, sent, refused>>

\* A plausible bug: the cleaner looks at the idle time only.
Clean_IdleOnly(c) ==
    /\ map[c] # None
    /\ stale[map[c]]
    /\ CloseAndUnregister(map[c])
    /\ map' = [map EXCEPT ![c] = None]
    /\ UNCHANGED <<listening, main, sessVars, flush, sent, refused>>

\* The cleaner's tick, for one entry of the map; the cleaner outlives the main
\* loop.
Clean(c) ==
    /\ map[c] # None
    /\ stale[map[c]] \/ killed[map[c]]
    /\ CloseAndUnregister(map[c])
    /\ map' = [map EXCEPT ![c] = None]
    /\ UNCHANGED <<listening, main, sessVars, flush, sent, refused>>

\* 120 s pass after the client's last datagram, whatever the target has sent.
Elapse(s) ==
    /\ client[s] # None
    /\ stale' = [stale EXCEPT ![s] = TRUE]
    /\ UNCHANGED <<listening, main, map, client, reader, killed, rcOpen, bytes, registry, flush,
                   billed, sent, refused>>

\* readLoop gets a datagram from the target: it is dropped if the session was
\* killed, otherwise it waits for the bucket.  udpSession.last stays as it is.
ReadDown(s) ==
    /\ reader[s] = "read"
    /\ rcOpen[s]
    /\ sent["down"] < MaxDown
    /\ sent' = [sent EXCEPT !["down"] = @ + 1]
    /\ reader' = [reader EXCEPT ![s] = IF killed[s] THEN "done" ELSE "held"]
    /\ UNCHANGED <<listening, main, map, client, stale, killed, rcOpen, bytes, registry, flush,
                   billed, refused>>

\* After bucket.Wait: counted and sent to the client, whatever became of the
\* session.
CountDown(s) ==
    /\ reader[s] = "held"
    /\ bytes' = [bytes EXCEPT ![s]["down"] = @ + 1]
    /\ reader' = [reader EXCEPT ![s] = "read"]
    /\ UNCHANGED <<listening, main, map, client, stale, killed, rcOpen, registry, flush, billed,
                   sent, refused>>

\* Read fails: the socket was closed here, or it reports a refusal.  The session
\* stays where it is.
ReaderEnds(s) ==
    /\ reader[s] = "read"
    /\ ~rcOpen[s] \/ refused[s]
    /\ reader' = [reader EXCEPT ![s] = "done"]
    /\ refused' = [refused EXCEPT ![s] = FALSE]
    /\ UNCHANGED <<listening, main, map, client, stale, killed, rcOpen, bytes, registry, flush,
                   billed, sent>>

\* Reload closes the listener of a rule that is gone.
CloseListener ==
    /\ listening
    /\ listening' = FALSE
    /\ UNCHANGED <<main, map, sessVars, rcOpen, bytes, registry, flush, billed, sent,
                   refused>>

FlushStart ==
    /\ flush.at = "idle"
    /\ flush' = [at |-> "swap", snap |-> registry, todo |-> registry]
    /\ UNCHANGED <<listening, main, map, sessVars, rcOpen, bytes, registry, billed, sent,
                   refused>>

FlushSwap(s) ==
    /\ flush.at = "swap"
    /\ s \in flush.todo
    /\ flush' = [flush EXCEPT !.todo = @ \ {s}]
    /\ bytes' = [bytes EXCEPT ![s] = NoBytes]
    /\ billed' = billed + BytesOf(s)
    /\ UNCHANGED <<listening, main, map, sessVars, rcOpen, registry, sent, refused>>

\* Over quota: the connections of the snapshot are killed and their sockets
\* closed; nothing here touches the map.
FlushQuota ==
    /\ flush.at = "swap"
    /\ flush.todo = {}
    /\ IF OverQuota
          THEN /\ killed' = [s \in Sessions |-> killed[s] \/ s \in flush.snap]
               /\ rcOpen' = [s \in Sessions |-> rcOpen[s] /\ s \notin flush.snap]
          ELSE UNCHANGED <<killed, rcOpen>>
    /\ flush' = FlushIdle
    /\ UNCHANGED <<listening, main, map, client, reader, stale, bytes, registry, billed, sent, refused>>

-----------------------------------------------------------------------------

MainSteps == CountUp \/ WriteUp \/ WriteFails \/ DeleteFailed \/ Leave
FlushSteps == FlushStart \/ FlushQuota \/ \E s \in Sessions : FlushSwap(s)

Next ==
    \/ \E c \in Clients : Refuse(c) \/ KnownSession(c) \/ KilledSession(c) \/ Clean(c)
    \/ \E c \in Clients, s \in Sessions : NewSession(c, s)
    \/ \E s \in Sessions : Elapse(s) \/ ReadDown(s) \/ CountDown(s) \/ ReaderEnds(s)
    \/ MainSteps \/ FlushSteps \/ CloseListener

Spec == Init /\ [][Next]_vars

\* The goroutines are scheduled and the two tickers fire; datagrams come or not.
Fairness ==
    /\ WF_vars(MainSteps) /\ WF_vars(FlushSteps)
    /\ \A c \in Clients : WF_vars(Clean(c))
    /\ \A s \in Sessions : WF_vars(CountDown(s)) /\ WF_vars(ReaderEnds(s))

FairSpec == Spec /\ Fairness

-----------------------------------------------------------------------------
(* Properties *)

\* Who still holds a session's socket can be found by everyone who may have to
\* close it: an open upstream socket belongs to a registered session (so flush
\* can bill and kill it) that the map still has (so the cleaner and the end of
\* the loop reach it).  No path of udpLoop leaks one.
NoOrphanSocket ==
    \A s \in Sessions : rcOpen[s] => s \in registry /\ map[client[s]] = s

\* A session that is registered is in the map, so one that lost its socket to a
\* kill will be unregistered by the cleaner; the only session not in the map any
\* more is unregistered already.
RegisteredIsMapped ==
    \A s \in registry : map[client[s]] = s

\* Every datagram the main loop counts is billed: also when the session was
\* taken away while the loop waited for the bucket, the counter is emptied by
\* the unregister of the write that then fails.
UpIsBilled ==
    \A s \in Sessions : s \notin registry /\ main.s # s => bytes[s]["up"] = 0

\* readLoop counts without looking whether its session is still registered, and
\* what it counts then nobody bills.  That is at most the one datagram it had in
\* hand: the socket was closed with the session, so there is no further read.
LossIsBounded ==
    \A s \in Sessions : s \notin registry => bytes[s]["down"] <= 1

\* Quota cut-off reaches UDP: a killed session is unregistered, even if its
\* client never sends again.
KilledIsReaped == \A s \in Sessions : killed[s] ~> s \notin registry

\* Once the listener is closed, all its sessions go.
ClosedListenerEmpties == ~listening ~> registry = {}

=============================================================================
