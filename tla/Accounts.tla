------------------------------ MODULE Accounts ------------------------------
(***************************************************************************)
(* Users, groups, the settings' default group and the sessions (api.go,    *)
(* auth.go, storage.go).  Every request runs in a goroutine of its own;    *)
(* the store's lock is held for one lookup or one change at a time, never  *)
(* from a check to the change it allows, so that another request may step  *)
(* in between any two of the steps of Path.  NextID takes no lock at all.  *)
(*                                                                         *)
(* What a request says is checked against what it finds; what it finds may *)
(* be old by the time it writes.  The history variable met records which   *)
(* of the things that two requests can contend for were contended for.     *)
(* Left out: passwords, enabled and expired users (they may refuse a       *)
(* login, which the model may do without; a session looks at neither), and *)
(* saveDB (module Saving).                                                 *)
(***************************************************************************)
EXTENDS Integers, FiniteSets, Sequences, FiniteSetsExt, Functions

CONSTANTS
    Handlers,     \* goroutines of the HTTP server
    Names,        \* user names
    NoName,       \* the empty one, which in an edit means no change
    Seed,         \* the name of the account that seed() makes
    RangeSets,    \* what requests give as a user's port ranges
    Ttl,          \* how long a session lasts without being used
    MaxTokens,    \* bound: sessions ever made
    MaxRequests,  \* bound: changes ever requested
    MaxOverlaps   \* bound: those requested while another one ran

ASSUME NamesAssumption == Seed \in Names /\ NoName \notin Names
ASSUME BoundsAssumption == Ttl \in Nat /\ MaxTokens \in Nat /\ MaxRequests \in Nat /\ MaxOverlaps \in Nat

PortRange == [start : Nat, end : Nat]
Given == RangeSets \cup {{}}   \* a registered user has none
ASSUME RangesAssumption == \A rs \in RangeSets : IsFiniteSet(rs) /\ rs \subseteq PortRange

VARIABLES
    user,          \* the User objects ever made, the oldest first
    users,         \* those the store lists (it lists them in this order)
    admins,        \* those of the role "admin"
    demoted,       \* history: an edit has taken this role from one of them
    groups,        \* identifiers of the groups the store lists
    seq,           \* db.Seq
    defaultGroup,  \* Settings.DefaultGroupID
    sessions,      \* SessionStore.sessions
    req,           \* what each handler is doing
    budget,        \* tokens, requests and overlaps so far
    met            \* history: what two requests have contended for

store == <<user, users, groups, seq, defaultGroup>>
roles == <<admins, demoted>>
vars == <<store, roles, sessions, req, budget, met>>

NoUser == 0
Contended == {"names", "ranges", "ids", "groups", "deletes"}

\* The steps of each request, in order.
Path == [create    |-> <<"name", "group", "ranges", "id", "stamp", "append">>,
         register  |-> <<"name", "group", "id", "stamp", "append", "session">>,
         edit      |-> <<"name", "setName", "group", "setGroup", "ranges", "setRest">>,
         dropUser  |-> <<"self", "drop">>,
         newGroup  |-> <<"id", "stamp", "append">>,
         dropGroup |-> <<"members", "drop">>,
         settings  |-> <<"group", "store">>,
         login     |-> <<"session">>,
         none      |-> <<>>]
Kinds == DOMAIN Path

TypeOK ==
    /\ user \in Seq([id : Nat, name : Names, group : Nat, ranges : Given])
    /\ users \subseteq DOMAIN user
    /\ admins \subseteq DOMAIN user
    /\ demoted \in BOOLEAN
    /\ groups \subseteq Nat
    /\ seq \in Nat
    /\ defaultGroup \in Nat
    /\ DOMAIN sessions \subseteq 1 .. budget.tokens
    /\ \A k \in DOMAIN sessions : sessions[k] \in [id : Nat, owner : DOMAIN user, idle : 0 .. (Ttl + 1)]
    /\ req \in [Handlers -> [kind : Kinds, step : 1 .. 7, token : Nat, id : Nat, of : Nat, name : Names \cup {NoName},
                             group : Nat, ranges : Given]]
    /\ budget \in [tokens : 0 .. MaxTokens, requests : 0 .. MaxRequests, overlaps : 0 .. MaxOverlaps]
    /\ met \subseteq Contended

NoRequest == [kind |-> "none", step |-> 1, token |-> 0, id |-> 0, of |-> NoUser, name |-> NoName,
              group |-> 0, ranges |-> {}]

\* seed(): one group, and an administrator in it.
Init ==
    /\ user = <<[id |-> 2, name |-> Seed, group |-> 1, ranges |-> {}]>>
    /\ users = {1} /\ admins = {1} /\ demoted = FALSE
    /\ groups = {1}
    /\ seq = 2
    /\ defaultGroup = 1
    /\ sessions = <<>>
    /\ req = [h \in Handlers |-> NoRequest]
    /\ budget = [tokens |-> 0, requests |-> 0, overlaps |-> 0]
    /\ met = {}

-----------------------------------------------------------------------------
(* Lookups *)

First(hits) == IF hits = {} THEN NoUser ELSE Min(hits)
UserByID(id) == First({u \in users : user[u].id = id})
UserByName(name) == First({u \in users : user[u].name = name})

\* A plausible bug: ranges that share their last number do not overlap.
rangesOverlap_Strict(a, b) == a.start < b.end /\ b.start < a.end
rangesOverlap(a, b) == a.start <= b.end /\ b.start <= a.end

ValidRange(r) == r.start >= 1 /\ r.end <= 65535 /\ r.start <= r.end

\* validateUserRanges, for the user with the identifier that is given.
RangesFree(ranges, id) ==
    /\ \A r \in ranges : ValidRange(r)
    /\ \A r, s \in ranges : r # s => ~rangesOverlap(r, s)
    /\ \A u \in users : user[u].id # id =>
           \A r \in ranges, s \in user[u].ranges : ~rangesOverlap(r, s)

-----------------------------------------------------------------------------
(* Sessions *)

Fresh(k) == k \in DOMAIN sessions /\ sessions[k].idle <= Ttl
Without(ks) == Restrict(sessions, DOMAIN sessions \ ks)

\* SessionStore.Get: an expired session goes, any other begins its time anew.
Get(k) ==
    IF Fresh(k) THEN [sessions EXCEPT ![k].idle = 0] ELSE Without({k})
getUser(k) == IF Fresh(k) THEN UserByID(sessions[k].id) ELSE NoUser

\* setSession, for the object u, of which the session keeps the identifier.
NewSession(u) ==
    /\ budget.tokens < MaxTokens
    /\ LET k == budget.tokens + 1 IN
       /\ sessions' = [t \in DOMAIN sessions \cup {k} |->
                          IF t = k THEN [id |-> user[u].id, owner |-> u, idle |-> 0] ELSE sessions[t]]
       /\ budget' = [budget EXCEPT !.tokens = k]

\* A request that changes nothing, or is refused for want of a session or a role.
Visit(k) ==
    /\ k \in DOMAIN sessions
    /\ sessions' = Get(k)
    /\ UNCHANGED <<store, roles, req, budget, met>>

Logout(k) ==
    /\ k \in DOMAIN sessions
    /\ sessions' = Without({k})
    /\ UNCHANGED <<store, roles, req, budget, met>>

\* Time passes.
Elapse ==
    /\ \E k \in DOMAIN sessions : Fresh(k)
    /\ sessions' = [k \in DOMAIN sessions |->
                       [sessions[k] EXCEPT !.idle = IF @ <= Ttl THEN @ + 1 ELSE @]]
    /\ UNCHANGED <<store, roles, req, budget, met>>

\* The hourly cleaner of main().
Cleanup ==
    /\ \E k \in DOMAIN sessions : ~Fresh(k)
    /\ sessions' = Without({k \in DOMAIN sessions : ~Fresh(k)})
    /\ UNCHANGED <<store, roles, req, budget, met>>

-----------------------------------------------------------------------------
(* Requests begin *)

Names_(kind) == kind \in {"create", "register", "edit"}
Ranges_(kind) == kind \in {"create", "edit"}
Ids_(kind) == kind \in {"create", "register", "newGroup"}
Groups_(kind) == kind \in {"create", "register", "edit"}

\* What two requests at the same time contend for.
Contest(a, b) ==
    {c \in Contended :
        \/ c = "names" /\ Names_(a) /\ Names_(b)
        \/ c = "ranges" /\ Ranges_(a) /\ Ranges_(b)
        \/ c = "ids" /\ Ids_(a) /\ Ids_(b)
        \/ c = "groups" /\ ((Groups_(a) /\ b = "dropGroup") \/ (a = "dropGroup" /\ Groups_(b)))
        \/ c = "deletes" /\ a = "dropUser" /\ b = "dropUser"}

\* Handler h takes a request; those of an administrator come with a token, k.
Begin(h, r) ==
    /\ req[h].kind = "none"
    /\ budget.requests < MaxRequests
    /\ req' = [req EXCEPT ![h] = r]
    /\ met' = met \cup UNION {Contest(r.kind, req[o].kind) : o \in Handlers \ {h}}
    /\ LET beside == \E o \in Handlers \ {h} : req[o].kind # "none"
       IN  /\ beside => budget.overlaps < MaxOverlaps
           /\ budget' = [budget EXCEPT !.requests = @ + 1, !.overlaps = IF beside THEN @ + 1 ELSE @]
    /\ UNCHANGED <<store, roles>>
BeginAsAdmin(h, k, r) ==
    /\ getUser(k) # NoUser /\ getUser(k) \in admins
    /\ sessions' = Get(k)
    /\ Begin(h, r)

BeginCreate(h) ==
    \E k \in DOMAIN sessions, n \in Names, g \in groups, rs \in RangeSets :
        BeginAsAdmin(h, k, [NoRequest EXCEPT !.kind = "create", !.name = n, !.group = g, !.ranges = rs])
BeginEdit(h) ==
    \E k \in DOMAIN sessions, u \in users, n \in Names \cup {NoName}, g \in groups \cup {0}, rs \in RangeSets :
        BeginAsAdmin(h, k, [NoRequest EXCEPT !.kind = "edit", !.id = user[u].id, !.of = UserByID(user[u].id),
                                             !.name = n, !.group = g, !.ranges = rs])
BeginDropUser(h) ==
    \E k \in DOMAIN sessions, u \in users :
        BeginAsAdmin(h, k, [NoRequest EXCEPT !.kind = "dropUser", !.token = k, !.id = user[u].id])
BeginNewGroup(h) ==
    \E k \in DOMAIN sessions : BeginAsAdmin(h, k, [NoRequest EXCEPT !.kind = "newGroup"])
BeginDropGroup(h) ==
    \E k \in DOMAIN sessions, g \in groups :
        BeginAsAdmin(h, k, [NoRequest EXCEPT !.kind = "dropGroup", !.id = g])
BeginSettings(h) ==
    \E k \in DOMAIN sessions, g \in groups \cup {0} :
        BeginAsAdmin(h, k, [NoRequest EXCEPT !.kind = "settings", !.group = g])

\* handleRegister reads the settings first; those it read are the ones it uses.
BeginRegister(h) ==
    \E n \in Names :
        /\ Begin(h, [NoRequest EXCEPT !.kind = "register", !.name = n, !.group = defaultGroup])
        /\ UNCHANGED sessions
BeginLogin(h) ==
    \E u \in users :
        /\ req[h].kind = "none"
        /\ budget.tokens < MaxTokens
        /\ req' = [req EXCEPT ![h] = [NoRequest EXCEPT !.kind = "login", !.of = UserByName(user[u].name)]]
        /\ UNCHANGED <<store, roles, sessions, budget, met>>

-----------------------------------------------------------------------------
(* ... and go on, step by step *)

At(h, step) ==
    LET path == Path[req[h].kind] IN req[h].step <= Len(path) /\ path[req[h].step] = step
Is(h, kinds) == req[h].kind \in kinds

\* To the next step, with r for what the request holds, or to the end; what no
\* later step needs is forgotten.
GoOn(h, r) ==
    req' = [req EXCEPT ![h] = IF r.step = Len(Path[r.kind]) THEN NoRequest ELSE [r EXCEPT !.step = @ + 1]]
Next_(h) == GoOn(h, req[h])
Refuse(h) == req' = [req EXCEPT ![h] = NoRequest]
Check(h, ok) == IF ok THEN Next_(h) ELSE Refuse(h)

CheckName(h) ==
    /\ At(h, "name")
    /\ LET other == UserByName(req[h].name) IN
       Check(h, \/ other = NoUser
                \/ req[h].kind = "edit" /\ user[other].id = req[h].id)
    /\ UNCHANGED <<store, roles, sessions, budget, met>>

\* An edit writes the name at once, whatever the later checks will say.
SetName(h) ==
    /\ At(h, "setName")
    /\ user' = IF req[h].name = NoName THEN user ELSE [user EXCEPT ![req[h].of].name = req[h].name]
    /\ GoOn(h, [req[h] EXCEPT !.name = NoName])
    /\ UNCHANGED <<users, groups, seq, defaultGroup, roles, sessions, budget, met>>

CheckGroup(h) ==
    /\ At(h, "group")
    /\ Check(h, \/ req[h].group \in groups
                \/ req[h].group = 0 /\ Is(h, {"edit", "settings"}))
    /\ UNCHANGED <<store, roles, sessions, budget, met>>

SetGroup(h) ==
    /\ At(h, "setGroup")
    /\ user' = IF req[h].group = 0 THEN user ELSE [user EXCEPT ![req[h].of].group = req[h].group]
    /\ GoOn(h, [req[h] EXCEPT !.group = 0])
    /\ UNCHANGED <<users, groups, seq, defaultGroup, roles, sessions, budget, met>>

\* Of an edited user the ranges it has already are left out of the comparison.
CheckRanges(h) ==
    /\ At(h, "ranges")
    /\ Check(h, RangesFree(req[h].ranges, IF req[h].kind = "edit" THEN user[req[h].of].id ELSE 0))
    /\ UNCHANGED <<store, roles, sessions, budget, met>>

\* The role is changed if the request gives one.
SetRest(h) ==
    /\ At(h, "setRest")
    /\ LET me == req[h].of IN
       /\ user' = [user EXCEPT ![me].ranges = req[h].ranges]
       /\ admins' \in {admins, admins \cup {me}, admins \ {me}}
       /\ demoted' = (demoted \/ (me \in admins /\ me \notin admins'))
    /\ Next_(h)
    /\ UNCHANGED <<users, groups, seq, defaultGroup, sessions, budget, met>>

\* A plausible bug: one more than the highest identifier in use.
NextID_Highest(h) ==
    /\ At(h, "id")
    /\ GoOn(h, [req[h] EXCEPT !.id = Max(groups \cup {user[u].id : u \in users}) + 1])
    /\ UNCHANGED <<store, roles, sessions, budget, met>>
\* db.Seq++ : the number is read ...
NextID(h) ==
    /\ At(h, "id")
    /\ GoOn(h, [req[h] EXCEPT !.id = seq + 1])
    /\ UNCHANGED <<store, roles, sessions, budget, met>>
\* ... and written.
Stamp(h) ==
    /\ At(h, "stamp")
    /\ seq' = req[h].id
    /\ Next_(h)
    /\ UNCHANGED <<user, users, groups, defaultGroup, roles, sessions, budget, met>>

AppendUser(h) ==
    /\ At(h, "append") /\ Is(h, {"create", "register"})
    /\ user' = Append(user, [id |-> req[h].id, name |-> req[h].name,
                             group |-> req[h].group, ranges |-> req[h].ranges])
    /\ users' = users \cup {Len(user) + 1}
    /\ \/ admins' = admins
       \/ Is(h, {"create"}) /\ admins' = admins \cup {Len(user) + 1}
    /\ GoOn(h, [NoRequest EXCEPT !.kind = req[h].kind, !.step = req[h].step, !.of = Len(user) + 1])
    /\ UNCHANGED <<demoted, groups, seq, defaultGroup, sessions, budget, met>>
AppendGroup(h) ==
    /\ At(h, "append") /\ Is(h, {"newGroup"})
    /\ groups' = groups \cup {req[h].id}
    /\ Next_(h)
    /\ UNCHANGED <<user, users, seq, defaultGroup, roles, sessions, budget, met>>

\* The last step of a login and of a registration.
SetSession(h) ==
    /\ At(h, "session")
    /\ NewSession(req[h].of)
    /\ Next_(h)
    /\ UNCHANGED <<store, roles, met>>

\* A plausible bug: nothing keeps an administrator from deleting the own account.
CheckSelf_Skipped(h) ==
    /\ At(h, "self")
    /\ sessions' = Get(req[h].token)
    /\ Next_(h)
    /\ UNCHANGED <<store, roles, budget, met>>
\* getUser once more; without a user the handler dies of a nil pointer, which
\* net/http recovers from.
CheckSelf(h) ==
    /\ At(h, "self")
    /\ LET me == getUser(req[h].token) IN Check(h, me # NoUser /\ user[me].id # req[h].id)
    /\ sessions' = Get(req[h].token)
    /\ UNCHANGED <<store, roles, budget, met>>
\* Every user with the identifier (and its rules: module PortRules).
DropUser(h) ==
    /\ At(h, "drop") /\ Is(h, {"dropUser"})
    /\ users' = {u \in users : user[u].id # req[h].id}
    /\ Next_(h)
    /\ UNCHANGED <<user, groups, seq, defaultGroup, roles, sessions, budget, met>>

\* A plausible bug: only the default group is kept.
CheckMembers_DefaultOnly(h) ==
    /\ At(h, "members")
    /\ Check(h, req[h].id # defaultGroup)
    /\ UNCHANGED <<store, roles, sessions, budget, met>>
CheckMembers(h) ==
    /\ At(h, "members")
    /\ Check(h, \A u \in users : user[u].group # req[h].id)
    /\ UNCHANGED <<store, roles, sessions, budget, met>>
DropGroup(h) ==
    /\ At(h, "drop") /\ Is(h, {"dropGroup"})
    /\ groups' = groups \ {req[h].id}
    /\ Next_(h)
    /\ UNCHANGED <<user, users, seq, defaultGroup, roles, sessions, budget, met>>

StoreSettings(h) ==
    /\ At(h, "store")
    /\ defaultGroup' = req[h].group
    /\ Next_(h)
    /\ UNCHANGED <<user, users, groups, seq, roles, sessions, budget, met>>

-----------------------------------------------------------------------------
Start(h) ==
    \/ BeginCreate(h) \/ BeginEdit(h) \/ BeginDropUser(h) \/ BeginNewGroup(h)
    \/ BeginDropGroup(h) \/ BeginSettings(h) \/ BeginRegister(h) \/ BeginLogin(h)
Step(h) ==
    \/ CheckName(h) \/ SetName(h) \/ CheckGroup(h) \/ SetGroup(h) \/ CheckRanges(h) \/ SetRest(h)
    \/ NextID(h) \/ Stamp(h) \/ AppendUser(h) \/ AppendGroup(h) \/ SetSession(h)
    \/ CheckSelf(h) \/ DropUser(h) \/ CheckMembers(h) \/ DropGroup(h) \/ StoreSettings(h)

Next ==
    \/ \E h \in Handlers : Start(h) \/ Step(h)
    \/ \E k \in DOMAIN sessions : Visit(k) \/ Logout(k)
    \/ Elapse \/ Cleanup

Spec == Init /\ [][Next]_vars

-----------------------------------------------------------------------------
(* Properties *)

\* No port number is promised to two users and no name is given twice, as long
\* as no two requests that give them, or two creations, ran at the same time (two
\* users with one identifier are not compared with each other); an edit that is
\* refused half way leaves nothing behind that would break it (api.go 144-171,
\* 344, 411, 431).
NothingShared ==
    "ids" \in met \/ \A u, v \in users : u # v =>
        /\ "names" \in met \/ user[u].name # user[v].name
        /\ "ranges" \in met \/
               \A r \in user[u].ranges, s \in user[v].ranges : (r.start .. r.end) \cap (s.start .. s.end) = {}

\* Every listed user is in a group that exists, unless a deletion of a group ran
\* beside a request that takes one (api.go 348, 425, 571-585).
GroupsExist == "groups" \in met \/ \A u \in users : user[u].group \in groups

\* A session acts for the account it was made for or for none: no account comes
\* to be served to another one's session, also not after deletions, unless two
\* creations shared an identifier (storage.go 191, auth.go 97, api.go 47).
ActsAsItself ==
    "ids" \in met \/ \A k \in DOMAIN sessions : getUser(k) \in {NoUser, sessions[k].owner}

\* Only an edit can leave the panel without an administrator: no deletion, of
\* any account on any session, takes the last one, unless two deletions ran at the
\* same time.  (He may be disabled or expired: his session serves on, a new login
\* does not; api.go 47-80, 197-204, 435-436, 445.)
AdministratorRemains == "deletes" \in met \/ demoted \/ users \cap admins # {}
=============================================================================
