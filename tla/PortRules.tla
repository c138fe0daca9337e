----------------------------- MODULE PortRules -----------------------------
(***************************************************************************)
(* The port rules of the store, the handlers of api.go that change them,   *)
(* and the public listeners that Relay.Reload keeps in step with them.     *)
(*                                                                         *)
(* A handler checks a request under one lock, changes the rules under      *)
(* another (or, for an edit, under none) and then calls applyPorts; its    *)
(* steps interleave with those of other handlers.  Reload holds Relay.mu   *)
(* all the way.  A rule is an object the store's list points to, and every *)
(* accept loop keeps the pointer it was started with, so an edit reaches   *)
(* the running loops at once and a deleted rule lives on in them.          *)
(* Targets, protocols allowed and the save of the store are left out; what *)
(* applyPorts does to realm is module RealmSupervisor's matter.            *)
(***************************************************************************)
EXTENDS Integers, FiniteSets, Functions

CONSTANTS
    Rules,      \* rule objects that may come to exist
    Nums,       \* public port numbers
    Users,      \* users there are at the start
    RangeOf,    \* RangeOf[u]: the numbers of the user's port ranges
    Taken,      \* Taken[p]: numbers another program has bound for protocol p
    Handlers,   \* requests that may be served at once
    None,       \* no rule, no number
    MaxRequests, \* bound: requests
    MaxOverlaps, \* bound: those that begin while another is in progress
    MaxFails     \* bound: edits refused half-way and saves that fail

Protos == {"tcp", "udp"}

ASSUME RangesAssumption == /\ RangeOf \in [Users -> SUBSET Nums]
                           /\ Taken \in [Protos -> SUBSET Nums]
ASSUME BoundsAssumption == MaxRequests \in Nat /\ MaxOverlaps \in Nat /\ MaxFails \in Nat

VARIABLES
    users,     \* the users in the store
    rule,      \* the Port objects; None for one not yet made
    listed,    \* store.db.Ports
    socket,    \* Relay.tcp and Relay.udp: the rule a number's loop was started with
    req,       \* the request of each handler: where it is and what it is about
    budget,    \* requests, overlaps and failures so far, for the bounds
    unapplied, \* history: a change of the rules was left without applyPorts
    gaveUp     \* history: the protocols each rule asked for and does not any more

history == <<unapplied, gaveUp>>
vars == <<users, rule, listed, socket, req, budget, history>>

Rule == [num : Nums, user : Users, protos : SUBSET Protos, on : BOOLEAN]

ASSUME NoneAssumption == None \notin Rules /\ None \notin Nums /\ None \notin Rule

Idle == [at |-> "idle", rules |-> {}, num |-> None, batch |-> FALSE, touched |-> FALSE]

Budget == [requests : Nat, overlaps : Nat, fails : Nat]

Stages == {"idle", "append", "port", "user", "rest", "delete", "apply"}

TypeOK ==
    /\ users \in SUBSET Users
    /\ rule \in [Rules -> Rule \cup {None}]
    /\ listed \in SUBSET Rules
    /\ \A r \in listed : rule[r] # None
    /\ socket \in [Protos -> [Nums -> Rules \cup {None}]]
    /\ req \in [Handlers -> [at : Stages, rules : SUBSET Rules, num : Nums \cup {None},
                             batch : BOOLEAN, touched : BOOLEAN]]
    /\ budget \in Budget
    /\ unapplied \in BOOLEAN
    /\ gaveUp \in SUBSET (Rules \X Protos)

Init ==
    /\ users = Users
    /\ rule = [r \in Rules |-> None]
    /\ listed = {}
    /\ socket = [p \in Protos |-> [n \in Nums |-> None]]
    /\ req = [h \in Handlers |-> Idle]
    /\ budget = [requests |-> 0, overlaps |-> 0, fails |-> 0]
    /\ unapplied = FALSE
    /\ gaveUp = {}

Quiet == \A h \in Handlers : req[h].at = "idle"

\* A request comes to handler h and passes its first checks.
Begin(h, r) ==
    /\ req[h].at = "idle"
    /\ budget.requests < MaxRequests
    /\ Quiet \/ budget.overlaps < MaxOverlaps
    /\ budget' = [budget EXCEPT !.requests = @ + 1, !.overlaps = IF Quiet THEN @ ELSE @ + 1]
    /\ req' = [req EXCEPT ![h] = r]

Goto(h, at) == req' = [req EXCEPT ![h].at = at]

\* The request is answered with an error after it has changed a rule or not.
GiveUp(h) ==
    /\ budget.fails < MaxFails
    /\ budget' = [budget EXCEPT !.fails = @ + 1]
    /\ req' = [req EXCEPT ![h] = Idle]
    /\ unapplied' = (unapplied \/ req[h].touched)

\* validPortNum: no rule of the store has the number.
Free(n) == \A r \in listed : rule[r].num # n

\* The rule wants listeners: Enabled && (TCP || UDP).
Active(r) == rule[r].on /\ rule[r].protos # {}

Fresh == {r \in Rules : rule[r] = None}

-----------------------------------------------------------------------------
(* Creating rules: one, or a batch in one critical section *)

\* Begins to create the rules num says: DOMAIN num are the new objects, which
\* nobody else knows yet, num[r] is the number of r.  Rules made together differ
\* in their numbers.
Create(h, u, num, protos, on, batch) ==
    /\ Begin(h, [Idle EXCEPT !.at = "append", !.rules = DOMAIN num, !.batch = batch])
    /\ rule' = [r \in Rules |->
                  IF r \in DOMAIN num
                  THEN [num |-> num[r], user |-> u, protos |-> protos, on |-> on]
                  ELSE rule[r]]
    /\ UNCHANGED <<users, listed, socket, history>>

\* A plausible bug: nobody looks whether the number is free.
AdminCreate_NoNum(h, u, r, n, protos, on) ==
    /\ u \in users /\ n \in RangeOf[u]
    /\ Create(h, u, [x \in {r} |-> n], protos, on, FALSE)

\* The administrator's POST.
AdminCreate(h, u, r, n, protos, on) ==
    /\ Free(n)
    /\ u \in users /\ n \in RangeOf[u]
    /\ Create(h, u, [x \in {r} |-> n], protos, on, FALSE)

\* A user's POST for himself: the rule is always enabled.
UserCreate(h, u, r, n, protos) ==
    /\ u \in users
    /\ Free(n)
    /\ n \in RangeOf[u]
    /\ Create(h, u, [x \in {r} |-> n], protos, TRUE, FALSE)

\* A user's batch: one check for every rule of it.
UserBatch(h, u, num, protos, on) ==
    /\ u \in users
    /\ \A r \in DOMAIN num : Free(num[r]) /\ num[r] \in RangeOf[u]
    /\ Create(h, u, num, protos, on, TRUE)

\* The objects enter the list, under the store's lock.
CreateAppend(h) ==
    /\ req[h].at = "append"
    /\ listed' = listed \cup req[h].rules
    /\ req' = [req EXCEPT ![h].at = "apply", ![h].touched = TRUE]
    /\ UNCHANGED <<users, rule, socket, budget, history>>

\* Only the batch handlers look at the error of saveDB, and then return without
\* applying.
SaveFails(h) ==
    /\ req[h].at = "apply" /\ req[h].batch
    /\ GiveUp(h)
    /\ UNCHANGED <<users, rule, listed, socket, gaveUp>>

-----------------------------------------------------------------------------
(* Editing a rule: field by field, each change at once visible to all *)

\* The rule is found; its new number, if it gets one, is free.
EditCheck(h, r, n) ==
    /\ r \in listed
    /\ n = rule[r].num \/ Free(n)
    /\ Begin(h, [Idle EXCEPT !.at = IF n = rule[r].num THEN "user" ELSE "port",
                             !.rules = {r}, !.num = n])
    /\ UNCHANGED <<users, rule, listed, socket, history>>

EditPort(h, r) ==
    /\ req[h].at = "port" /\ req[h].rules = {r}
    /\ rule' = [rule EXCEPT ![r].num = req[h].num]
    /\ req' = [req EXCEPT ![h].at = "user", ![h].touched = TRUE]
    /\ UNCHANGED <<users, listed, socket, budget, history>>

\* The rule keeps its owner, whatever its number is now, or goes to one whose
\* range the number is in; any other new owner is refused.
EditUser(h, r) ==
    /\ req[h].at = "user" /\ req[h].rules = {r}
    /\ \/ /\ Goto(h, "rest")
          /\ UNCHANGED <<rule, budget, unapplied>>
       \/ \E u \in users \ {rule[r].user} :
            /\ rule[r].num \in RangeOf[u]
            /\ rule' = [rule EXCEPT ![r].user = u]
            /\ req' = [req EXCEPT ![h].at = "rest", ![h].touched = TRUE]
            /\ UNCHANGED <<budget, unapplied>>
       \/ GiveUp(h) /\ UNCHANGED rule
    /\ UNCHANGED <<users, listed, socket, gaveUp>>

\* A user edits a rule of his: neither number nor owner can change.
UserEdit(h, r) ==
    /\ r \in listed
    /\ Begin(h, [Idle EXCEPT !.at = "rest", !.rules = {r}])
    /\ UNCHANGED <<users, rule, listed, socket, history>>

\* A plausible bug: an edit is not applied.
EditRest_NoApply(h, r) ==
    /\ req[h].at = "rest" /\ req[h].rules = {r}
    /\ \E protos \in SUBSET Protos \ {{}}, on \in BOOLEAN :
            rule' = [rule EXCEPT ![r].protos = protos, ![r].on = on]
    /\ req' = [req EXCEPT ![h] = Idle]
    /\ UNCHANGED <<users, listed, socket, budget, history>>

\* The remaining fields, unless no protocol is asked for.
EditRest(h, r) ==
    /\ req[h].at = "rest" /\ req[h].rules = {r}
    /\ \/ \E protos \in SUBSET Protos \ {{}}, on \in BOOLEAN :
            /\ rule' = [rule EXCEPT ![r].protos = protos, ![r].on = on]
            /\ gaveUp' = (gaveUp \cup ({r} \X rule[r].protos)) \ ({r} \X protos)
            /\ req' = [req EXCEPT ![h].at = "apply", ![h].touched = TRUE]
            /\ UNCHANGED <<budget, unapplied>>
       \/ GiveUp(h) /\ UNCHANGED <<rule, gaveUp>>
    /\ UNCHANGED <<users, listed, socket>>

-----------------------------------------------------------------------------
(* Deleting, and what only refreshes *)

\* The rule is found (and, for a user, his).
DeleteOne(h, r) ==
    /\ r \in listed
    /\ Begin(h, [Idle EXCEPT !.at = "delete", !.rules = {r}])
    /\ UNCHANGED <<users, rule, listed, socket, history>>

\* Every rule of the batch is found and is the user's.
DeleteBatch(h, u, rs) ==
    /\ \A r \in rs : r \in listed /\ rule[r].user = u
    /\ Begin(h, [Idle EXCEPT !.at = "delete", !.rules = rs, !.batch = TRUE])
    /\ UNCHANGED <<users, rule, listed, socket, history>>

DeleteRules(h) ==
    /\ req[h].at = "delete"
    /\ listed' = listed \ req[h].rules
    /\ req' = [req EXCEPT ![h].at = "apply", ![h].touched = TRUE]
    /\ UNCHANGED <<users, rule, socket, budget, history>>

\* A plausible bug: the rules of a deleted user stay.
DeleteUser_KeepRules(h, u) ==
    /\ u \in users
    /\ Begin(h, [Idle EXCEPT !.at = "apply", !.touched = TRUE])
    /\ users' = users \ {u}
    /\ UNCHANGED <<rule, listed, socket, history>>

\* A user and all his rules leave in one critical section.
DeleteUser(h, u) ==
    /\ u \in users
    /\ Begin(h, [Idle EXCEPT !.at = "apply", !.touched = TRUE])
    /\ users' = users \ {u}
    /\ listed' = {r \in listed : rule[r].user # u}
    /\ UNCHANGED <<rule, socket, history>>

\* Resets, groups, settings and the realm page only reload.
Refresh(h) ==
    /\ Begin(h, [Idle EXCEPT !.at = "apply"])
    /\ UNCHANGED <<users, rule, listed, socket, history>>

-----------------------------------------------------------------------------
(* Reload *)

\* desired: an active rule for every number that has one; of two rules with one
\* number, either may come last.
Desired ==
    LET active == {r \in listed : Active(r)}
    IN  {d \in [{rule[r].num : r \in active} -> active] :
            \A n \in DOMAIN d : rule[d[n]].num = n}

\* A plausible bug: listeners are only ever added.
Reloaded_NoClose(d, p, n) ==
    IF n \notin DOMAIN d \/ socket[p][n] # None THEN socket[p][n]
    ELSE IF p \in rule[d[n]].protos /\ n \notin Taken[p] THEN d[n] ELSE None

\* The listener of number n for protocol p afterwards: closed if no rule wants
\* the number, kept with its old rule if there was one, opened otherwise, unless
\* the bind fails, which for TCP skips UDP too.
Reloaded(d, p, n) ==
    IF n \notin DOMAIN d THEN None
    ELSE IF socket[p][n] # None THEN socket[p][n]
    ELSE IF /\ p \in rule[d[n]].protos
            /\ n \notin Taken[p]
            /\ p = "udp" => ~ /\ "tcp" \in rule[d[n]].protos
                              /\ socket["tcp"][n] = None
                              /\ n \in Taken["tcp"]
         THEN d[n] ELSE None

Reload(h) ==
    /\ req[h].at = "apply"
    /\ \E d \in Desired :
         socket' = [p \in Protos |-> [n \in Nums |-> Reloaded(d, p, n)]]
    /\ req' = [req EXCEPT ![h] = Idle]
    /\ unapplied' = FALSE
    /\ UNCHANGED <<users, rule, listed, budget, gaveUp>>

-----------------------------------------------------------------------------

CreateAny(h) ==
    \E u \in Users, protos \in SUBSET Protos \ {{}}, on \in BOOLEAN :
        \/ \E r \in Fresh, n \in Nums : \/ AdminCreate(h, u, r, n, protos, on)
                                     \/ UserCreate(h, u, r, n, protos)
        \/ \E S \in SUBSET Fresh \ {{}} : \E num \in Injection(S, RangeOf[u]) :
             UserBatch(h, u, num, protos, on)

Next == \E h \in Handlers :
    \/ CreateAny(h) \/ CreateAppend(h) \/ SaveFails(h)
    \/ \E r \in Rules, n \in Nums : EditCheck(h, r, n)
    \/ \E r \in Rules : EditPort(h, r) \/ EditUser(h, r) \/ UserEdit(h, r) \/ EditRest(h, r)
    \/ \E r \in Rules : DeleteOne(h, r)
    \/ \E u \in Users, rs \in SUBSET listed \ {{}} : DeleteBatch(h, u, rs)
    \/ DeleteRules(h)
    \/ \E u \in Users : DeleteUser(h, u)
    \/ Refresh(h) \/ Reload(h)

Spec == Init /\ [][Next]_vars

-----------------------------------------------------------------------------
(* Properties *)

Alone == budget.overlaps = 0

\* A port number is in one rule only (storage.go PortByNum: "端口号全局唯一"):
\* no sequence of creations, batches, edits (also those refused half-way) and
\* deletions gives two rules one number, as long as no two ran at once.
UniqueNumbers ==
    Alone => \A r, s \in listed : rule[r].num = rule[s].num => r = s

\* Every rule belongs to a user there is, so that no listener serves a user that
\* was deleted, and a deleted user leaves no rule behind (handleAdminUserItem);
\* again as long as no two requests ran at once.
OwnersExist == Alone => \A r \in listed : rule[r].user \in users

Settled == Quiet /\ ~unapplied

\* When no request is in progress and every change was applied, every open
\* listener is on the number of an active rule, whatever the order in which
\* requests changed the rules and reloaded: the last Reload saw them all.  It may
\* be for a protocol that nobody asks for: Reload (relay.go:191-203) closes by
\* number, so a rule keeps the listener of a protocol it has given up.  That is
\* the only way: the rule a listener serves asks for its protocol, or did and has
\* given it up by an edit since.
NoStrayListener ==
    Settled => \A p \in Protos, n \in Nums : LET r == socket[p][n] IN
        r # None => /\ \E s \in listed : Active(s) /\ rule[s].num = n
                    /\ p \in rule[r].protos \/ <<r, p>> \in gaveUp

\* ... and, as long as no two requests ran at once, every active rule has the
\* listeners it asks for, but for the numbers another program has bound, which
\* cost a rule both protocols if it is TCP's.
EveryRuleListens ==
    Settled /\ Alone => \A r \in listed : Active(r) => \A p \in rule[r].protos :
        LET n == rule[r].num IN
        \/ socket[p][n] # None
        \/ n \in Taken[p]
        \/ "tcp" \in rule[r].protos /\ n \in Taken["tcp"]

\* When no request is in progress and every change was applied, a listener
\* serves the rule that has its number: what comes in on a port is judged,
\* billed and forwarded by the rule the store has for it (Reload, acceptTCP,
\* udpLoop).  This needs that no two requests ran at once and none was refused
\* half-way: the number that such an edit has left is free for another rule while
\* the edited one's listener is still open on it.
ServesItsRule ==
    Settled /\ Alone /\ budget.fails = 0 => \A p \in Protos, n \in Nums : LET r == socket[p][n] IN
        r # None => r \in listed /\ rule[r].num = n

=============================================================================
