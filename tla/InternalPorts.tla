---------------------------- MODULE InternalPorts ----------------------------
(***************************************************************************)
(* The ports on which realm listens for the panel (realm.go 47-124, 193,   *)
(* storage.go 576-624).  A table gives each rule the internal port it has; *)
(* realm serves what was in the table when its configuration was written.  *)
(* internalPort looks a rule up, reads which ports are in use and stores   *)
(* its choice under three separate locks, and it is called by every apply  *)
(* and by every connection that is dialled, also for a rule that has been  *)
(* deleted or switched off since the connection was accepted.              *)
(*                                                                         *)
(* The model is of forwarding mode realm; in mode direct a connection goes *)
(* to the rule's target and none of this is used.  What becomes of realm's *)
(* process is module RealmSupervisor's matter.  Here it serves or does     *)
(* not, and once it has died, or requests have overlapped, a stop may take *)
(* a realm that lives for one that has exited, and leave it running.       *)
(***************************************************************************)
EXTENDS Integers, FiniteSets, Functions

CONSTANTS
    Handlers,     \* goroutines that change rules and apply them
    Dials,        \* connections
    Pool,         \* the internal ports, 20000..29999
    None,         \* no port; a connection that was refused
    MaxRules,     \* bound: rules ever made
    MaxRequests,  \* bound: changes and applies
    MaxOverlaps,  \* bound: those begun while another one ran
    MaxCrowded    \* bound: changes and applies, where two have overlapped

ASSUME PoolAssumption == Pool \subseteq Nat /\ IsFiniteSet(Pool) /\ None \notin Nat
ASSUME HandlersAssumption == Handlers \cap Dials = {}
ASSUME BoundsAssumption ==
    MaxRules \in Nat /\ MaxRequests \in Nat /\ MaxOverlaps \in Nat /\ MaxCrowded \in Nat

VARIABLES
    listed,     \* db.Ports: identifiers of rules, in the order of their making
    enabled,    \* rules whose object is enabled for some protocol, deleted ones included
    made,       \* rules made so far
    listening,  \* rules whose public listener is open
    table,      \* db.RealmPorts: rule -> internal port
    running,    \* what the realm that was started last serves: rule -> internal port
    orphans,    \* what realms that were left running may serve: rules and their ports
    died,       \* realm has died by itself
    proc,       \* each handler and each connection: where it is
    budget,     \* requests and overlaps so far
    raced,      \* history: two allocations were under way at once
    crowded,    \* history: two requests were under way at once
    late        \* history: rules a connection has allocated for though not active

rules == <<listed, enabled, made, listening>>
realm == <<running, orphans, died>>
history == <<raced, crowded, late>>
vars == <<rules, table, realm, proc, budget, history>>

Rules == 1 .. MaxRules
Procs == Handlers \cup Dials
Stages == {"idle", "free", "count", "stop", "gen", "loop", "lookup", "choose", "set", "prune", "start", "reload",
           "accepted", "connect", "done"}
Nothing == [r \in {} |-> None]

Tables == UNION {[S -> Pool] : S \in SUBSET Rules}
Proc == [at : Stages, counted : BOOLEAN, rule : 0 .. MaxRules, port : Pool \cup {None}, todo : SUBSET Rules,
         config : Tables, overtaken : BOOLEAN, got : Rules \cup {None}]

TypeOK ==
    /\ made \in 0 .. MaxRules /\ listed \subseteq 1 .. made /\ enabled \subseteq 1 .. made
    /\ listening \subseteq Rules
    /\ table \in Tables /\ running \in Tables /\ orphans \subseteq Rules \X Pool /\ died \in BOOLEAN
    /\ proc \in [Procs -> Proc]
    /\ budget \in [requests : 0 .. MaxRequests, overlaps : 0 .. MaxOverlaps]
    /\ raced \in BOOLEAN /\ crowded \in BOOLEAN /\ late \subseteq Rules

Idle == [at |-> "idle", counted |-> FALSE, rule |-> 0, port |-> None, todo |-> {}, config |-> Nothing,
         overtaken |-> FALSE, got |-> None]

Init ==
    /\ listed = {} /\ enabled = {} /\ made = 0 /\ listening = {}
    /\ table = Nothing /\ running = Nothing /\ orphans = {} /\ died = FALSE
    /\ proc = [p \in Procs |-> Idle]
    /\ budget = [requests |-> 0, overlaps |-> 0]
    /\ raced = FALSE /\ crowded = FALSE /\ late = {}

active == listed \cap enabled
AtRest == \A h \in Handlers : proc[h].at = "idle"
Goto(p, at) == proc' = [proc EXCEPT ![p].at = at]
Dialling(p) == p \in Dials /\ proc[p].at \in {"lookup", "choose", "set", "connect"}
Allocating(p) == proc[p].at \in {"choose", "set"}

Pairs(t) == {<<r, t[r]>> : r \in DOMAIN t}
\* t with p for r.
With(t, r, p) == [x \in DOMAIN t \cup {r} |-> IF x = r THEN p ELSE t[x]]

-----------------------------------------------------------------------------
(* internalPort, for an apply and for a connection alike *)

\* The rule p is about has its internal port, n: it goes into the configuration,
\* or is dialled.
Have(p, n) ==
    IF p \in Dials
    THEN [proc EXCEPT ![p].at = "connect", ![p].port = n]
    ELSE [proc EXCEPT ![p].at = "loop", ![p].port = None, ![p].config = With(@, proc[p].rule, n)]

Lookup(p) ==
    /\ proc[p].at = "lookup"
    /\ IF proc[p].rule \in DOMAIN table
       THEN proc' = Have(p, table[proc[p].rule]) /\ UNCHANGED raced
       ELSE Goto(p, "choose") /\ raced' = (raced \/ \E q \in Procs \ {p} : Allocating(q))
    /\ UNCHANGED <<rules, table, realm, budget, crowded, late>>

\* p takes the lowest of the free ports.  When there is none an apply goes on
\* without the rule, and a connection is refused.
TakeLowest(p, free) ==
    \/ \E n \in free : /\ \A m \in free : n <= m
                        /\ proc' = [proc EXCEPT ![p].at = "set", ![p].port = n]
    \/ free = {} /\ Goto(p, IF p \in Dials THEN "done" ELSE "loop")

\* A plausible bug: the port of a rule that is switched off counts as free.
Choose_Active(p) ==
    /\ proc[p].at = "choose"
    /\ TakeLowest(p, Pool \ {table[r] : r \in DOMAIN table \cap active})
    /\ UNCHANGED <<rules, table, realm, budget, history>>
Choose(p) ==
    /\ proc[p].at = "choose"
    /\ TakeLowest(p, Pool \ Range(table))
    /\ UNCHANGED <<rules, table, realm, budget, history>>

Set(p) ==
    /\ proc[p].at = "set"
    /\ table' = With(table, proc[p].rule, proc[p].port)
    /\ proc' = Have(p, proc[p].port)
    /\ late' = IF p \in Dials /\ proc[p].rule \notin active THEN late \cup {proc[p].rule} ELSE late
    /\ UNCHANGED <<rules, realm, budget, raced, crowded>>

-----------------------------------------------------------------------------
(* Requests, and the apply they end with *)

Begin(h, at, r) ==
    /\ proc[h].at = "idle"
    /\ budget.requests < MaxRequests
    /\ AtRest \/ budget.overlaps < MaxOverlaps
    /\ budget' = [requests |-> budget.requests + 1, overlaps |-> budget.overlaps + IF AtRest THEN 0 ELSE 1]
    /\ crowded' = (crowded \/ ~AtRest)
    /\ crowded' => budget'.requests <= MaxCrowded
    /\ proc' = [p \in Procs |-> IF p = h THEN [Idle EXCEPT !.at = at, !.rule = r]
                                ELSE IF Dialling(p) THEN [proc[p] EXCEPT !.overtaken = TRUE]
                                ELSE proc[p]]
    /\ UNCHANGED <<listening, table, realm, raced, late>>

Add(h) ==
    /\ made < MaxRules
    /\ made' = made + 1
    /\ listed' = listed \cup {made + 1}
    /\ enabled' = enabled \cup {made + 1}
    /\ Begin(h, "count", 0)

Delete(h, r) ==
    /\ r \in listed
    /\ listed' = listed \ {r}
    /\ Begin(h, "free", r)
    /\ UNCHANGED <<enabled, made>>

\* An edit that switches a rule on or off.
Switch(h, r) ==
    /\ r \in listed
    /\ enabled' = IF r \in enabled THEN enabled \ {r} ELSE enabled \cup {r}
    /\ Begin(h, "count", 0)
    /\ UNCHANGED <<listed, made>>

\* Any other apply: a change of a target, of the settings, the health check.
Refresh(h) ==
    /\ Begin(h, "count", 0)
    /\ UNCHANGED <<listed, enabled, made>>

\* freeInternalPort
Free(h) ==
    /\ proc[h].at = "free"
    /\ table' = Restrict(table, DOMAIN table \ {proc[h].rule})
    /\ Goto(h, "count")
    /\ UNCHANGED <<rules, realm, budget, history>>

\* apply counts the active rules ...
Count(h) ==
    /\ proc[h].at = "count"
    /\ proc' = [proc EXCEPT ![h].at = "stop", ![h].counted = active # {}]
    /\ UNCHANGED <<rules, table, realm, budget, history>>

\* ... and kills realm, unless it takes it for one that has exited; when it has
\* counted none that is all, and nothing is pruned.
Stop(h) ==
    /\ proc[h].at = "stop"
    /\ running' = Nothing
    /\ \/ UNCHANGED orphans
       \/ (died \/ crowded) /\ orphans' = orphans \cup Pairs(running)
    /\ Goto(h, IF proc[h].counted THEN "gen" ELSE "reload")
    /\ UNCHANGED <<rules, table, died, budget, history>>

\* genConfig copies the list of rules: a rule that is deleted after that is in the
\* copy, and enabled if it was ...
Gen(h) ==
    /\ proc[h].at = "gen"
    /\ proc' = [proc EXCEPT ![h].at = "loop", ![h].todo = listed, ![h].config = Nothing]
    /\ UNCHANGED <<rules, table, realm, budget, history>>

\* ... takes one after the other, in the order of their public ports, which need
\* not be that of their making, if it is enabled by now ...
Loop(h) ==
    /\ proc[h].at = "loop"
    /\ \/ proc[h].todo = {} /\ Goto(h, "prune")
       \/ \E r \in proc[h].todo :
             proc' = [proc EXCEPT ![h].todo = @ \ {r}, ![h].rule = r,
                                  ![h].at = IF r \in enabled THEN "lookup" ELSE "loop"]
    /\ UNCHANGED <<rules, table, realm, budget, history>>

\* A plausible bug: the entries of rules that are listed are kept, active or not.
Prune_Listed(h) ==
    /\ proc[h].at = "prune"
    /\ table' = Restrict(table, DOMAIN table \cap listed)
    /\ late' = {}
    /\ Goto(h, "start")
    /\ UNCHANGED <<rules, realm, budget, raced, crowded>>
\* A plausible bug: what is kept are the ports, not the rules: of the rules that
\* are served only the first.
Prune_First(h) ==
    /\ proc[h].at = "prune"
    /\ table' = Restrict(table, {r \in DOMAIN table \cap DOMAIN proc[h].config :
                                    \A s \in DOMAIN proc[h].config : r <= s})
    /\ late' = {}
    /\ Goto(h, "start")
    /\ UNCHANGED <<rules, realm, budget, raced, crowded>>
\* ... and prunes the table to those in the configuration.
Prune(h) ==
    /\ proc[h].at = "prune"
    /\ table' = Restrict(table, DOMAIN table \cap DOMAIN proc[h].config)
    /\ late' = {}
    /\ Goto(h, "start")
    /\ UNCHANGED <<rules, realm, budget, raced, crowded>>

\* realm is started with the configuration, and one that another request has
\* started meanwhile is nobody's; or the file cannot be written or realm started.
Start(h) ==
    /\ proc[h].at = "start"
    /\ \/ running' = proc[h].config /\ orphans' = orphans \cup Pairs(running)
       \/ UNCHANGED <<running, orphans>>
    /\ proc' = [proc EXCEPT ![h] = [Idle EXCEPT !.at = "reload"]]
    /\ UNCHANGED <<rules, table, died, budget, history>>

\* Relay.Reload, the other half of applyPorts.
Reload(h) ==
    /\ proc[h].at = "reload"
    /\ listening' = active
    /\ proc' = [proc EXCEPT ![h] = Idle]
    /\ UNCHANGED <<listed, enabled, made, table, realm, budget, history>>

\* Reload on another occasion: a reset, an edit of a group.
ReloadBeside ==
    /\ listening' = active
    /\ UNCHANGED <<listed, enabled, made, table, realm, proc, budget, history>>

\* realm dies.
Die ==
    /\ running # Nothing
    /\ running' = Nothing
    /\ died' = TRUE
    /\ UNCHANGED <<rules, table, orphans, proc, budget, history>>

-----------------------------------------------------------------------------
(* Connections *)

\* A connection is accepted; it is sniffed and judged (module Admission).
Accept(d, r) ==
    /\ proc[d].at = "idle"
    /\ r \in listening
    /\ proc' = [proc EXCEPT ![d] = [Idle EXCEPT !.at = "accepted", !.rule = r]]
    /\ UNCHANGED <<rules, table, realm, budget, history>>

\* dialAddr; by now the rule may be gone.
Dial(d) ==
    /\ proc[d].at = "accepted"
    /\ proc' = [proc EXCEPT ![d].at = "lookup", ![d].overtaken = ~AtRest]
    /\ UNCHANGED <<rules, table, realm, budget, history>>

\* The connection to realm: to the rule it serves at that port, if any, or to the
\* one an orphan serves there if it still lives.
Connect(d) ==
    /\ proc[d].at = "connect"
    /\ LET own == {r \in DOMAIN running : running[r] = proc[d].port}
           left == {r \in Rules : <<r, proc[d].port>> \in orphans} IN
       \E got \in own \cup left \cup IF own = {} THEN {None} ELSE {} :
           proc' = [proc EXCEPT ![d].at = "done", ![d].port = None, ![d].got = got]
    /\ UNCHANGED <<rules, table, realm, budget, history>>

-----------------------------------------------------------------------------
Request(h) ==
    \/ Add(h) \/ Refresh(h) \/ (\E r \in listed : Delete(h, r) \/ Switch(h, r))
    \/ Free(h) \/ Count(h) \/ Stop(h) \/ Gen(h) \/ Loop(h) \/ Prune(h) \/ Start(h) \/ Reload(h)
Connection(d) == Dial(d) \/ Connect(d) \/ (\E r \in listening : Accept(d, r))
Allocate(p) == Lookup(p) \/ Choose(p) \/ Set(p)

Next ==
    \/ \E h \in Handlers : Request(h)
    \/ \E d \in Dials : Connection(d)
    \/ \E p \in Procs : Allocate(p)
    \/ ReloadBeside \/ Die

Spec == Init /\ [][Next]_vars

-----------------------------------------------------------------------------
(* Properties *)

\* No two rules have one internal port, in particular not after rules were
\* switched off, deleted and made anew, unless two allocations ran at the same
\* time (realm.go 49-56).
OneRulePerPort == raced \/ IsInjective(table)

\* At rest the table has all that is served, by the realm that was started last and
\* by any other that lives, where it is served, unless two allocations or two
\* requests ran at the same time, or a stop left a realm running after realm had
\* died by itself (realm.go 80, 97, 168).
TableMatchesRealm ==
    \/ raced \/ crowded \/ ~AtRest
    \/ died /\ orphans # {}
    \/ Pairs(running) \cup orphans \subseteq Pairs(table)

\* A connection that is dialled while no request is under way gets to its own
\* rule's target, or to none when realm does not serve the rule, also when its rule
\* has been deleted.  It gets to the target of another only when two allocations or
\* two requests ran at the same time, or from a realm that a stop took for exited
\* after realm had died by itself (realm.go 168, 197-206).
DialsArrive ==
    \A d \in Dials : proc[d].at = "done" /\ ~proc[d].overtaken =>
        \/ raced \/ crowded
        \/ proc[d].got \in {proc[d].rule, None}
        \/ died /\ \E n \in Pool : <<proc[d].got, n>> \in orphans

\* What a rule that is no longer active held of the pool is given back by the time
\* its request is over, as long as there is an active rule, except for what a
\* connection of it has taken since (realm.go 97, 107, storage.go 607).
NothingLeaks ==
    AtRest /\ ~crowded /\ active # {} => DOMAIN table \subseteq active \cup late
=============================================================================
