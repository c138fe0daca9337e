------------------------------ MODULE Traffic ------------------------------
(***************************************************************************)
(* Accounting of forwarded bytes for TCP connections (relay.go, with the   *)
(* counters of storage.go).  Every connection has a handler goroutine, two *)
(* pumps (up: client to target, down: target to client) and two counters.  *)
(* The loop goroutine flushes the counters of registered connections into  *)
(* the store every 15 s and disconnects users over quota; the handler of a *)
(* finished connection settles what is left; the administrator may reset   *)
(* the totals of a user or of a group, or move a user with his total to    *)
(* another group, at any time.                                             *)
(*                                                                         *)
(* One unit of traffic is one successful Read of a pump.  A connection is  *)
(* used once, as connSeq never repeats.  The environment is the peers:     *)
(* they send, close and reset when they like.                              *)
(***************************************************************************)
EXTENDS Integers, FiniteSets, Functions

CONSTANTS
    Users, Groups, Conns,
    UserOf,     \* UserOf[c]: owner of the rule the connection came in by
    FirstGroup, \* FirstGroup[u]: the group the account was created in
    Quota,      \* Quota[g]: the group's quota in units, 0 for none
    None,       \* no connection, no user
    MaxUnits,   \* MaxUnits[c], bound: units forwarded by the connection
    MaxResets,  \* bound: resets of totals by the administrator
    MaxMoves    \* bound: moves of a user to another group

ASSUME ConnsAssumption  == None \notin Conns \cup Users /\ UserOf \in [Conns -> Users]
ASSUME FiniteAssumption == IsFiniteSet(Conns) /\ IsFiniteSet(Users)
ASSUME GroupsAssumption == FirstGroup \in [Users -> Groups] /\ Quota \in [Groups -> Nat]
ASSUME BoundsAssumption == MaxUnits \in [Conns -> Nat] /\ MaxResets \in Nat /\ MaxMoves \in Nat

VARIABLES
    pc,         \* stage of the handler of each connection
    pump,       \* pump[c][d]: where the pump of direction d is
    open,       \* open[c]: the sockets of the connection not yet closed
    killed,     \* activeConn.killed
    bytes,      \* activeConn.upBytes and downBytes
    taken,      \* what unregister swapped out and has not billed yet
    registry,   \* Relay.conns
    userTotal,  \* User.TotalBytes
    groupTotal, \* Group.TotalBytes
    flush,      \* the goroutine of Relay.loop inside flush()
    reset,      \* the request inside Relay.ResetUserTraffic
    memberOf,   \* User.GroupID
    billTo,     \* activeConn.groupID
    resets,     \* resets so far, for the bound
    moves,      \* moves so far, for the bound
    \* history variables, read by no action
    pumped,     \* units that c's pumps have counted
    credited,   \* units of c in its user's TotalBytes
    forgiven,   \* units of c that a reset zeroed or discarded
    brought     \* what of a user's total his present group was not charged

connVars   == <<pc, pump, open, killed>>
countVars  == <<bytes, taken, pumped>>
totalVars  == <<userTotal, groupTotal, credited, brought>>
groupVars  == <<memberOf, billTo, moves>>
resetVars  == <<reset, resets, forgiven>>
vars == <<connVars, countVars, totalVars, resetVars, groupVars, registry, flush>>

Dirs == {"up", "down"}
Sockets == {"client", "target"}
Source(d) == IF d = "up" THEN "client" ELSE "target"
Sink(d)   == IF d = "up" THEN "target" ELSE "client"

ConnsOf(u) == {c \in Conns : UserOf[c] = u}
UsersOf(g) == {u \in Users : memberOf[u] = g}
QuotaOf(u) == Quota[memberOf[u]]

\* QuotaBytes() > 0 and the total of the user has reached it.
OverQuota(u) == QuotaOf(u) > 0 /\ userTotal[u] >= QuotaOf(u)

\* Relay.mu is held across two steps only by the reset, while it walks r.conns.
MuFree == reset.at # "zero"

TypeOK ==
    /\ pc \in [Conns -> {"idle", "dial", "denied", "pump", "swapUp", "swapDown", "bill",
                       "gone"}]
    /\ pump \in [Conns -> [Dirs -> {"read", "held", "done"}]]
    /\ open \in [Conns -> SUBSET Sockets]
    /\ killed \in [Conns -> BOOLEAN]
    /\ bytes \in [Conns -> [Dirs -> Nat]]
    /\ taken \in [Conns -> Nat]
    /\ registry \in SUBSET Conns
    /\ userTotal \in [Users -> Nat]
    /\ groupTotal \in [Groups -> Nat]
    /\ flush \in [at : {"idle", "walk", "swapDown", "bill", "quota"},
                  snap : SUBSET Conns, todo : SUBSET Conns,
                  conn : Conns \cup {None}, amount : Nat,
                  users : SUBSET Users]
    /\ reset \in [at : {"idle", "zero", "store"}, user : Users \cup {None},
                  todo : SUBSET (Conns \X Dirs)]
    /\ resets \in Nat
    /\ pumped \in [Conns -> Nat]
    /\ credited \in [Conns -> Nat]
    /\ forgiven \in [Conns -> Nat]
    /\ memberOf \in [Users -> Groups]
    /\ billTo \in [Conns -> Groups]
    /\ moves \in Nat
    /\ brought \in [Users -> Nat]

FlushIdle == [at |-> "idle", snap |-> {}, todo |-> {}, conn |-> None,
              amount |-> 0, users |-> {}]
ResetIdle == [at |-> "idle", user |-> None, todo |-> {}]

Init ==
    /\ pc = [c \in Conns |-> "idle"]
    /\ pump = [c \in Conns |-> [d \in Dirs |-> "read"]]
    /\ open = [c \in Conns |-> Sockets]
    /\ killed = [c \in Conns |-> FALSE]
    /\ bytes = [c \in Conns |-> [d \in Dirs |-> 0]]
    /\ taken = [c \in Conns |-> 0]
    /\ registry = {}
    /\ userTotal = [u \in Users |-> 0]
    /\ groupTotal = [g \in Groups |-> 0]
    /\ flush = FlushIdle
    /\ reset = ResetIdle
    /\ resets = 0
    /\ pumped = [c \in Conns |-> 0]
    /\ credited = [c \in Conns |-> 0]
    /\ forgiven = [c \in Conns |-> 0]
    /\ memberOf = FirstGroup
    /\ billTo = [c \in Conns |-> FirstGroup[UserOf[c]]]
    /\ moves = 0
    /\ brought = [u \in Users |-> 0]

-----------------------------------------------------------------------------
(* handleTCP up to the pumps *)

\* canUse: the quota and the group are read here, before the dial, and never
\* again for this connection.
Admit(c) ==
    /\ pc[c] = "idle"
    /\ ~OverQuota(UserOf[c])
    /\ pc' = [pc EXCEPT ![c] = "dial"]
    /\ billTo' = [billTo EXCEPT ![c] = memberOf[UserOf[c]]]
    /\ UNCHANGED <<pump, open, killed, countVars, totalVars, resetVars, registry, flush,
                   memberOf, moves>>

\* A connection refused by canUse, by the protocol check or by the dial is
\* closed and never registered.
Refuse(c) ==
    /\ pc[c] \in {"idle", "dial"}
    /\ pc' = [pc EXCEPT ![c] = "denied"]
    /\ open' = [open EXCEPT ![c] = {}]
    /\ UNCHANGED <<pump, killed, countVars, totalVars, resetVars, registry, flush,
                   groupVars>>

\* The dial succeeded: register, then the two pumps start.
Register(c) ==
    /\ pc[c] = "dial"
    /\ MuFree
    /\ registry' = registry \cup {c}
    /\ pc' = [pc EXCEPT ![c] = "pump"]
    /\ UNCHANGED <<pump, open, killed, countVars, totalVars, resetVars, flush,
                   groupVars>>

-----------------------------------------------------------------------------
(* pump *)

PumpRead(c, d) ==
    /\ pc[c] = "pump"
    /\ pump[c][d] = "read"
    /\ Source(d) \in open[c]
    /\ pumped[c] + Cardinality({e \in Dirs : pump[c][e] = "held"}) < MaxUnits[c]
    /\ pump' = [pump EXCEPT ![c][d] = "held"]
    /\ UNCHANGED <<pc, open, killed, countVars, totalVars, resetVars, registry, flush,
                   groupVars>>

\* After bucket.Wait: count the unit and write it on.  The pump returns when
\* the write fails, which it must when the sink was closed here.
PumpMeter(c, d) ==
    /\ pump[c][d] = "held"
    /\ ~killed[c]
    /\ bytes' = [bytes EXCEPT ![c][d] = @ + 1]
    /\ pumped' = [pumped EXCEPT ![c] = @ + 1]
    /\ \/ /\ Sink(d) \in open[c]
          /\ pump' = [pump EXCEPT ![c][d] = "read"]
          /\ UNCHANGED open
       \/ /\ pump' = [pump EXCEPT ![c][d] = "done"]
          /\ open' = [open EXCEPT ![c] = @ \ {Sink(d)}]
    /\ UNCHANGED <<pc, killed, taken, totalVars, resetVars, registry, flush, groupVars>>

\* The pump returns: the connection was killed while it waited for the bucket,
\* or Read failed because a side was closed here or by its peer.  The goroutine
\* that ran it then closes the sink.
PumpReturn(c, d) ==
    /\ pc[c] = "pump"
    /\ \/ pump[c][d] = "held" /\ killed[c]
       \/ pump[c][d] = "read"
    /\ pump' = [pump EXCEPT ![c][d] = "done"]
    /\ open' = [open EXCEPT ![c] = @ \ {Sink(d)}]
    /\ UNCHANGED <<pc, killed, countVars, totalVars, resetVars, registry, flush,
                   groupVars>>

-----------------------------------------------------------------------------
(* unregister, once both pumps have returned (rc.Close, <-done) *)

\* A plausible bug: the handler does not wait for the other pump.
UnregDelete_NoWait(c) ==
    /\ pc[c] = "pump"
    /\ pump[c]["up"] = "done"
    /\ MuFree
    /\ registry' = registry \ {c}
    /\ open' = [open EXCEPT ![c] = {}]
    /\ pc' = [pc EXCEPT ![c] = "swapUp"]
    /\ UNCHANGED <<pump, killed, countVars, totalVars, resetVars, flush, groupVars>>

UnregDelete(c) ==
    /\ pc[c] = "pump"
    /\ \A d \in Dirs : pump[c][d] = "done"
    /\ MuFree
    /\ registry' = registry \ {c}
    /\ open' = [open EXCEPT ![c] = {}]
    /\ pc' = [pc EXCEPT ![c] = "swapUp"]
    /\ UNCHANGED <<pump, killed, countVars, totalVars, resetVars, flush, groupVars>>

Swapping(d) == IF d = "up" THEN "swapUp" ELSE "swapDown"
AfterSwap(d) == IF d = "up" THEN "swapDown" ELSE "bill"

\* A plausible bug: the second counter is cleared but not billed.
UnregSwap_OneSide(c, d) ==
    /\ pc[c] = Swapping(d)
    /\ taken' = [taken EXCEPT ![c] = IF d = "up" THEN bytes[c][d] ELSE @]
    /\ bytes' = [bytes EXCEPT ![c][d] = 0]
    /\ pc' = [pc EXCEPT ![c] = AfterSwap(d)]
    /\ UNCHANGED <<pump, open, killed, pumped, totalVars, resetVars, registry, flush,
                   groupVars>>

\* Swap the counter up, then the counter down, each atomically and without r.mu.
UnregSwap(c, d) ==
    /\ pc[c] = Swapping(d)
    /\ taken' = [taken EXCEPT ![c] = @ + bytes[c][d]]
    /\ bytes' = [bytes EXCEPT ![c][d] = 0]
    /\ pc' = [pc EXCEPT ![c] = AfterSwap(d)]
    /\ UNCHANGED <<pump, open, killed, pumped, totalVars, resetVars, registry, flush,
                   groupVars>>

\* Store.AddTraffic, one critical section of Store.mu.  It does nothing for n = 0.
\* The group charged is the one the connection was admitted under.
AddTraffic(c, n) ==
    /\ userTotal' = [userTotal EXCEPT ![UserOf[c]] = @ + n]
    /\ groupTotal' = [groupTotal EXCEPT ![billTo[c]] = @ + n]
    /\ brought' = [brought EXCEPT ![UserOf[c]] =
                       IF billTo[c] = memberOf[UserOf[c]] THEN @ ELSE @ + n]
    /\ credited' = [credited EXCEPT ![c] = @ + n]

UnregBill(c) ==
    /\ pc[c] = "bill"
    /\ AddTraffic(c, taken[c])
    /\ taken' = [taken EXCEPT ![c] = 0]
    /\ pc' = [pc EXCEPT ![c] = "gone"]
    /\ UNCHANGED <<pump, open, killed, bytes, pumped, resetVars, registry, flush,
                   groupVars>>

-----------------------------------------------------------------------------
(* flush, run by the one goroutine of Relay.loop *)

FlushStart ==
    /\ flush.at = "idle"
    /\ MuFree
    /\ flush' = [flush EXCEPT !.at = "walk", !.snap = registry, !.todo = registry]
    /\ UNCHANGED <<connVars, countVars, totalVars, resetVars, registry, groupVars>>

\* The next counter of the walk: up of a connection of the snapshot, then down of
\* the same one.
NextCounter(c, d) ==
    \/ d = "up" /\ flush.at = "walk" /\ c \in flush.todo
    \/ d = "down" /\ flush.at = "swapDown" /\ c = flush.conn

\* A plausible bug: the counters are read but not swapped.
FlushSwap_Load(c, d) ==
    /\ NextCounter(c, d)
    /\ flush' = [flush EXCEPT !.at = AfterSwap(d), !.todo = @ \ {c}, !.conn = c,
                              !.amount = @ + bytes[c][d]]
    /\ UNCHANGED <<connVars, countVars, totalVars, resetVars, registry, groupVars>>

\* Swap it, without r.mu.
FlushSwap(c, d) ==
    /\ NextCounter(c, d)
    /\ flush' = [flush EXCEPT !.at = AfterSwap(d), !.todo = @ \ {c}, !.conn = c,
                              !.amount = @ + bytes[c][d]]
    /\ bytes' = [bytes EXCEPT ![c][d] = 0]
    /\ UNCHANGED <<connVars, taken, pumped, totalVars, resetVars, registry, groupVars>>

FlushBill(c) ==
    /\ flush.at = "bill"
    /\ flush.conn = c
    /\ AddTraffic(c, flush.amount)
    /\ flush' = [flush EXCEPT !.at = "walk", !.conn = None, !.amount = 0]
    /\ UNCHANGED <<connVars, countVars, resetVars, registry, groupVars>>

\* The counters are billed (saveDB: module Saving); now the list of users.
FlushBilled ==
    /\ flush.at = "walk"
    /\ flush.todo = {}
    /\ flush' = [flush EXCEPT !.at = "quota", !.users = Users]
    /\ UNCHANGED <<connVars, countVars, totalVars, resetVars, registry, groupVars>>

\* The next user, under quota: left alone.
FlushSpare(u) ==
    /\ flush.at = "quota"
    /\ u \in flush.users
    /\ ~OverQuota(u)
    /\ flush' = [flush EXCEPT !.users = @ \ {u}]
    /\ UNCHANGED <<connVars, countVars, totalVars, resetVars, registry, groupVars>>

\* A plausible bug: the connections are marked and their sockets left open.
FlushKill_NoClose(u) ==
    /\ flush.at = "quota"
    /\ u \in flush.users
    /\ OverQuota(u)
    /\ killed' = [c \in Conns |-> killed[c] \/ (c \in flush.snap /\ UserOf[c] = u)]
    /\ flush' = [flush EXCEPT !.users = @ \ {u}]
    /\ UNCHANGED <<pc, pump, open, countVars, totalVars, resetVars, registry,
                   groupVars>>

\* The next user, over quota: every connection of the snapshot that is his is
\* marked killed and its two sockets are closed.
FlushKill(u) ==
    /\ flush.at = "quota"
    /\ u \in flush.users
    /\ OverQuota(u)
    /\ LET victims == {c \in flush.snap : UserOf[c] = u /\ ~killed[c]}
       IN  /\ killed' = [c \in Conns |-> killed[c] \/ c \in victims]
           /\ open' = [c \in Conns |-> IF c \in victims THEN {} ELSE open[c]]
    /\ flush' = [flush EXCEPT !.users = @ \ {u}]
    /\ UNCHANGED <<pc, pump, countVars, totalVars, resetVars, registry, groupVars>>

FlushEnd ==
    /\ flush.at = "quota"
    /\ flush.users = {}
    /\ flush' = FlushIdle
    /\ UNCHANGED <<connVars, countVars, totalVars, resetVars, registry, groupVars>>

-----------------------------------------------------------------------------
(* Resets by the administrator *)

\* Relay.ResetUserTraffic takes r.mu and walks the registered connections.
ResetLock(u) ==
    /\ reset.at = "idle"
    /\ resets < MaxResets
    /\ reset' = [at |-> "zero", user |-> u, todo |-> (registry \cap ConnsOf(u)) \X Dirs]
    /\ resets' = resets + 1
    /\ UNCHANGED <<connVars, countVars, totalVars, forgiven, registry, flush,
                   groupVars>>

\* The next counter of the walk, up before down.
NextToZero(c, d) ==
    /\ reset.at = "zero"
    /\ <<c, d>> \in reset.todo
    /\ d = "down" => <<c, "up">> \notin reset.todo

\* Store 0 in it: r.mu keeps no pump, swap or bill away.
ResetZero(c, d) ==
    /\ NextToZero(c, d)
    /\ bytes' = [bytes EXCEPT ![c][d] = 0]
    /\ forgiven' = [forgiven EXCEPT ![c] = @ + bytes[c][d]]
    /\ reset' = [reset EXCEPT !.todo = @ \ {<<c, d>>}]
    /\ UNCHANGED <<connVars, taken, pumped, totalVars, resets, registry, flush,
                   groupVars>>

ResetUnlock ==
    /\ reset.at = "zero"
    /\ reset.todo = {}
    /\ reset' = [reset EXCEPT !.at = "store"]
    /\ UNCHANGED <<connVars, countVars, totalVars, resets, forgiven, registry, flush,
                   groupVars>>

\* The totals of the users in us go to zero, and what they held is forgiven.
ClearTotals(us) ==
    /\ userTotal' = [u \in Users |-> IF u \in us THEN 0 ELSE userTotal[u]]
    /\ forgiven' = [c \in Conns |-> IF UserOf[c] \in us THEN forgiven[c] + credited[c]
                                                        ELSE forgiven[c]]
    /\ credited' = [c \in Conns |-> IF UserOf[c] \in us THEN 0 ELSE credited[c]]
    /\ brought' = [u \in Users |-> IF u \in us THEN 0 ELSE brought[u]]

\* Store.ResetUserTraffic: the group's total keeps what the user was charged.
ResetStore ==
    /\ reset.at = "store"
    /\ ClearTotals({reset.user})
    /\ reset' = ResetIdle
    /\ UNCHANGED <<connVars, countVars, groupTotal, resets, registry, flush, groupVars>>

\* A plausible bug: the group's total alone goes to zero.
ResetGroup_OnlyGroup(g) ==
    /\ resets < MaxResets
    /\ groupTotal' = [groupTotal EXCEPT ![g] = 0]
    /\ resets' = resets + 1
    /\ UNCHANGED <<connVars, countVars, userTotal, credited, brought, reset, forgiven,
                   registry, flush, groupVars>>

\* Store.ResetGroupTraffic: the group and all its users, no counter of a
\* live connection.
ResetGroup(g) ==
    /\ resets < MaxResets
    /\ ClearTotals(UsersOf(g))
    /\ groupTotal' = [groupTotal EXCEPT ![g] = 0]
    /\ resets' = resets + 1
    /\ UNCHANGED <<connVars, countVars, reset, registry, flush, groupVars>>

\* The administrator's edit gives the user another group: his total goes with
\* him, the totals of the two groups stay, and his live connections go on
\* charging the old one.
MoveUser(u, g) ==
    /\ moves < MaxMoves
    /\ g # memberOf[u]
    /\ memberOf' = [memberOf EXCEPT ![u] = g]
    /\ brought' = [brought EXCEPT ![u] = userTotal[u]]
    /\ moves' = moves + 1
    /\ UNCHANGED <<connVars, countVars, userTotal, groupTotal, credited, resetVars,
                   billTo, registry, flush>>

-----------------------------------------------------------------------------

Flush == \/ FlushStart \/ FlushBilled \/ FlushEnd
         \/ \E c \in Conns, d \in Dirs : FlushSwap(c, d)
         \/ \E c \in Conns : FlushBill(c)
         \/ \E u \in Users : FlushSpare(u) \/ FlushKill(u)

Unregister(c) == UnregDelete(c) \/ (\E d \in Dirs : UnregSwap(c, d)) \/ UnregBill(c)

ResetUser == \/ ResetUnlock \/ ResetStore
             \/ \E c \in Conns, d \in Dirs : ResetZero(c, d)

Next ==
    \/ \E c \in Conns : Admit(c) \/ Refuse(c) \/ Register(c) \/ Unregister(c)
    \/ \E c \in Conns, d \in Dirs : PumpRead(c, d) \/ PumpMeter(c, d) \/ PumpReturn(c, d)
    \/ \E u \in Users : ResetLock(u)
    \/ \E g \in Groups : ResetGroup(g) \/ \E u \in Users : MoveUser(u, g)
    \/ Flush
    \/ ResetUser

Spec == Init /\ [][Next]_vars

\* A pump that holds data goes on (the bucket's wait is finite), and one whose
\* source was closed on this side gets an error from Read.
PumpMustMove(c, d) ==
    \/ PumpMeter(c, d)
    \/ (pump[c][d] = "held" \/ Source(d) \notin open[c]) /\ PumpReturn(c, d)

\* The runtime schedules every goroutine and the ticker keeps firing; nothing
\* makes a client connect, send or close, or an administrator reset or move.
Fairness ==
    /\ WF_vars(Flush)
    /\ WF_vars(ResetUser)
    /\ \A c \in Conns : WF_vars(Unregister(c)) /\ WF_vars(Register(c))
    /\ \A c \in Conns, d \in Dirs : WF_vars(PumpMustMove(c, d))

FairSpec == Spec /\ Fairness

-----------------------------------------------------------------------------
(* Properties *)

\* Units of c that flush has swapped out and not yet billed.
InFlight(c) == IF flush.conn = c THEN flush.amount ELSE 0

\* What has been counted for c and charged to nobody yet.
Owed(c) == bytes[c]["up"] + bytes[c]["down"] + taken[c] + InFlight(c)

\* Every unit counted by a pump is charged exactly once or was forgiven by a
\* reset: the swaps of flush and of unregister, which race on the same
\* counters, neither lose nor repeat one (relay.go flush, unregister).
Conservation ==
    \A c \in Conns : pumped[c] = credited[c] + forgiven[c] + Owed(c)

\* Once unregister has returned, no counter of the connection will move again:
\* nothing is left in them, and neither pump holds data to add (the wait on
\* done in handleTCP comes before unregister).
NothingLeftBehind ==
    \A c \in Conns : pc[c] = "gone" =>
        /\ bytes[c] = [d \in Dirs |-> 0]
        /\ taken[c] = 0
        /\ c \notin registry

\* A user's total is exactly what the user's connections forwarded, less what
\* they still owe and what resets forgave: charges by flush, by unregister and
\* resets may interleave in any order (AddTraffic, ResetUserTraffic,
\* ResetGroupTraffic).
UserTotalIsExact ==
    \A u \in Users :
        userTotal[u] = SumFunctionOnSet([c \in Conns |-> pumped[c] - forgiven[c] - Owed(c)], ConnsOf(u))

\* A group's total falls below the sum of its members' totals by no more than
\* they brought along: their totals at the edit that moved them in (api.go:429),
\* and what connections admitted before it, or in between, charge to another
\* group after it.  No reset takes more from a group than from its members, and
\* who never moved is covered in full (AddTraffic, ResetUserTraffic,
\* ResetGroupTraffic).
GroupCoversUsers ==
    \A g \in Groups :
        groupTotal[g] >= SumFunctionOnSet([u \in Users |-> userTotal[u] - brought[u]], UsersOf(g))

\* A user over quota loses every connection, also one that was admitted before
\* and registered after the flush took its snapshot, unless a reset intervenes
\* (relay.go flush; README "超限自动断开所有连接").
OverQuotaIsCut ==
    \A u \in Users : OverQuota(u) ~>
        \/ ~OverQuota(u)
        \/ registry \cap ConnsOf(u) = {}

\* Every counted unit reaches the totals or is forgiven, also when the
\* connection stays open and silent for ever.
EveryUnitSettles ==
    \A c \in Conns : \A k \in 1 .. MaxUnits[c] :
        pumped[c] >= k ~> credited[c] + forgiven[c] >= k

\* The detailed accounting implements the ledger: the counters, the amounts in
\* the hands of flush and of unregister together are what is owed, and a
\* connection closes in the ledger when its handler unregisters it or refuses it.
Accounts == INSTANCE Ledger WITH
    live    <- {c \in Conns : pc[c] \in {"idle", "dial", "pump"}},
    owed    <- [c \in Conns |-> Owed(c)],
    settled <- [c \in Conns |-> credited[c] + forgiven[c]]

ImplementsLedger == Accounts!Spec
=============================================================================
