-------------------------- MODULE RealmSupervisor --------------------------
(***************************************************************************)
(* The panel's supervision of the realm process: RealmManager (realm.go),  *)
(* the first apply and the health check of main.go, the handlers of api.go *)
(* that change a rule or the settings, which do not all get as far as an   *)
(* apply, and systemd, which starts the panel again.                       *)
(*                                                                         *)
(* rm.mu protects single reads and writes only, so an apply is a sequence  *)
(* of steps that other applies and the goroutines waiting for a process    *)
(* interleave with.  Process p has exit channel p: start makes both.       *)
(***************************************************************************)
EXTENDS Integers, FiniteSets

CONSTANTS
    Handlers,    \* requests that may be served at once
    Main,        \* the goroutine of main(), which runs the first apply
    Health,      \* the goroutine of the health check
    None,        \* nil
    Active,      \* the versions of the rules with at least one active rule
    MaxChanges,  \* bound: changes of the rules
    MaxModes,    \* bound: changes of the forwarding mode
    MaxCrashes,  \* bound: realm processes that exit by themselves
    MaxKills,    \* bound: ends of the panel from outside
    MaxFails,    \* bound: files that cannot be written and starts that find no
                 \* binary, no log file or cannot fork
    MaxOverlaps, \* bound: requests that begin while an apply is in progress
    MaxProcs     \* bound: processes started in one life of the panel

ASSUME NamesAssumption ==
    /\ Main # Health /\ Main \notin Handlers /\ Health \notin Handlers
    /\ None \notin Nat
ASSUME ParamsAssumption ==
    /\ MaxChanges \in Nat /\ MaxModes \in Nat /\ MaxCrashes \in Nat
    /\ MaxKills \in Nat /\ MaxFails \in Nat /\ MaxOverlaps \in Nat /\ MaxProcs \in Nat
    /\ Active \subseteq Nat

Appliers == Handlers \cup {Main, Health}
Procs == 1 .. MaxProcs

\* A configuration file that a failed write has cut short.
Torn == -1

VARIABLES
    up,       \* the panel runs
    rules,    \* version of the port rules in the store
    applied,  \* history: that version when the last apply began
    mode,     \* Settings.ForwardMode
    file,     \* version of the rules in realm's configuration file
    ap,       \* each applier: where it is in apply, and its local variables
    cmd,      \* RealmManager.cmd
    done,     \* RealmManager.done
    exited,   \* RealmManager.exited
    closed,   \* the exit channels that have been closed
    waiter,   \* the goroutine start leaves behind for each process
    started,  \* processes started in this life of the panel
    alive,    \* the realm processes that run
    doomed,   \* those that have been sent SIGKILL
    config,   \* config[p]: version of the rules p was started with
    budget    \* what the environment has done so far, for the bounds

store   == <<rules, mode, applied>>
manager == <<cmd, done, exited, closed, waiter>>
procs   == <<started, alive, doomed, config>>
vars == <<up, store, file, ap, manager, procs, budget>>

Idle == [at |-> "idle", active |-> FALSE, cmd |-> None, done |-> None, cfg |-> 0]
Begin == [Idle EXCEPT !.at = "count"]

Locals ==
    [at : {"idle", "count", "read", "kill", "wait", "clear", "gen", "write", "start"},
     active : BOOLEAN, cmd : Procs \cup {None}, done : Procs \cup {None}, cfg : Nat]

Budgets == [changes : Nat, modes : Nat, crashes : Nat, kills : Nat, fails : Nat, overlaps : Nat]

TypeOK ==
    /\ up \in BOOLEAN
    /\ rules \in Nat
    /\ applied \in Nat
    /\ mode \in {"realm", "direct"}
    /\ file \in Nat \cup {Torn}
    /\ ap \in [Appliers -> Locals]
    /\ cmd \in Procs \cup {None}
    /\ done \in Procs \cup {None}
    /\ exited \in BOOLEAN
    /\ closed \in SUBSET Procs
    /\ waiter \in [Procs -> {"none", "wait", "mark", "close", "ended"}]
    /\ started \in 0 .. MaxProcs
    /\ alive \in SUBSET Procs
    /\ doomed \in SUBSET Procs
    /\ config \in [Procs -> Nat \cup {Torn}]
    /\ budget \in Budgets

Init ==
    /\ up = FALSE
    /\ rules = 0 /\ applied = 0
    /\ mode = "realm"
    /\ file = 0
    /\ ap = [a \in Appliers |-> Idle]
    /\ cmd = None /\ done = None /\ exited = FALSE /\ closed = {}
    /\ waiter = [p \in Procs |-> "none"]
    /\ started = 0 /\ alive = {} /\ doomed = {}
    /\ config = [p \in Procs |-> 0]
    /\ budget = [changes |-> 0, modes |-> 0, crashes |-> 0, kills |-> 0, fails |-> 0,
                 overlaps |-> 0]

Running == cmd # None /\ ~exited

\* At least one rule is enabled for TCP or UDP (HasActivePorts, apply).
HasActive == rules \in Active

\* How many requests more will have begun beside an apply if one begins now.
Beside == IF \A b \in Appliers : ap[b].at = "idle" THEN 0 ELSE 1

MayBegin(a) ==
    /\ up
    /\ ap[a].at = "idle"
    /\ ap[Main].at = "idle"
    /\ budget.overlaps + Beside <= MaxOverlaps

\* a calls apply, when the store has this version of the rules.
Apply(a, version) ==
    /\ ap' = [ap EXCEPT ![a] = Begin]
    /\ applied' = version

Goto(a, at) == ap' = [ap EXCEPT ![a].at = at]
Return(a)   == ap' = [ap EXCEPT ![a] = Idle]

-----------------------------------------------------------------------------
(* The callers of apply *)

\* systemd starts the panel; main() applies before it serves or checks health.
Boot ==
    /\ ~up
    /\ up' = TRUE
    /\ Apply(Main, rules)
    /\ UNCHANGED <<rules, mode, file, manager, procs, budget>>

\* A handler changes a rule, then calls applyPorts.
ChangeRules(h) ==
    /\ MayBegin(h)
    /\ budget.changes < MaxChanges
    /\ rules' = rules + 1
    /\ Apply(h, rules + 1)
    /\ budget' = [budget EXCEPT !.changes = @ + 1, !.overlaps = @ + Beside]
    /\ UNCHANGED <<up, mode, file, manager, procs>>

\* A handler changes a rule and answers with an error: a batch that cannot be
\* saved, an edit refused after its first assignment.  Nobody applies the change.
LeaveUnapplied(h) ==
    /\ MayBegin(h)
    /\ budget.changes < MaxChanges
    /\ rules' = rules + 1
    /\ budget' = [budget EXCEPT !.changes = @ + 1, !.overlaps = @ + Beside]
    /\ UNCHANGED <<up, mode, applied, file, ap, manager, procs>>

\* The settings handler changes the forwarding mode, then calls applyPorts.
ChangeMode(h) ==
    /\ MayBegin(h)
    /\ budget.modes < MaxModes
    /\ mode' = IF mode = "realm" THEN "direct" ELSE "realm"
    /\ Apply(h, rules)
    /\ budget' = [budget EXCEPT !.modes = @ + 1, !.overlaps = @ + Beside]
    /\ UNCHANGED <<up, rules, file, manager, procs>>

\* A plausible bug: only a process that was never recorded counts as down.
HealthTick_OnlyIfNone ==
    /\ MayBegin(Health)
    /\ mode = "realm"
    /\ HasActive
    /\ cmd = None
    /\ Apply(Health, rules)
    /\ budget' = [budget EXCEPT !.overlaps = @ + Beside]
    /\ UNCHANGED <<up, rules, mode, file, manager, procs>>

\* The health check, every 30 s.
HealthTick ==
    /\ MayBegin(Health)
    /\ mode = "realm"
    /\ HasActive
    /\ ~Running
    /\ Apply(Health, rules)
    /\ budget' = [budget EXCEPT !.overlaps = @ + Beside]
    /\ UNCHANGED <<up, rules, mode, file, manager, procs>>

-----------------------------------------------------------------------------
(* apply, with stop and start *)

Count(a) ==
    /\ ap[a].at = "count"
    /\ ap' = [ap EXCEPT ![a].at = "read", ![a].active = HasActive]
    /\ UNCHANGED <<up, store, file, manager, procs, budget>>

StopRead(a) ==
    /\ ap[a].at = "read"
    /\ ap' = [ap EXCEPT ![a].at = "kill", ![a].cmd = cmd, ![a].done = done]
    /\ UNCHANGED <<up, store, file, manager, procs, budget>>

\* exited is read here, under a second lock, and is not that of a.cmd.
StopKill(a) ==
    /\ ap[a].at = "kill"
    /\ ap[a].cmd # None /\ ~exited
    /\ doomed' = doomed \cup ({ap[a].cmd} \cap alive)
    /\ Goto(a, IF ap[a].done # None THEN "wait" ELSE "clear")
    /\ UNCHANGED <<up, store, file, manager, started, alive, config, budget>>

\* A plausible bug: stop may go on without killing a process that runs.
StopSkip_Always(a) ==
    /\ ap[a].at = "kill"
    /\ Goto(a, "clear")
    /\ UNCHANGED <<up, store, file, manager, procs, budget>>

StopSkip(a) ==
    /\ ap[a].at = "kill"
    /\ ap[a].cmd = None \/ exited
    /\ Goto(a, "clear")
    /\ UNCHANGED <<up, store, file, manager, procs, budget>>

StopWait(a) ==
    /\ ap[a].at = "wait"
    /\ ap[a].done \in closed
    /\ Goto(a, "clear")
    /\ UNCHANGED <<up, store, file, manager, procs, budget>>

\* stop forgets the process; apply goes on only if it had counted a rule.
StopClear(a) ==
    /\ ap[a].at = "clear"
    /\ cmd' = None
    /\ done' = None
    /\ IF ap[a].active THEN Goto(a, "gen") ELSE Return(a)
    /\ UNCHANGED <<up, store, file, exited, closed, waiter, procs, budget>>

GenConfig(a) ==
    /\ ap[a].at = "gen"
    /\ ap' = [ap EXCEPT ![a].at = "write", ![a].cfg = rules]
    /\ UNCHANGED <<up, store, file, manager, procs, budget>>

\* A plausible bug: the file is written only by the first apply of the panel.
WriteConfig_Once(a) ==
    /\ ap[a].at = "write"
    /\ file' = IF started = 0 THEN ap[a].cfg ELSE file
    /\ Goto(a, "start")
    /\ UNCHANGED <<up, store, manager, procs, budget>>

WriteConfig(a) ==
    /\ ap[a].at = "write"
    /\ file' = ap[a].cfg
    /\ Goto(a, "start")
    /\ UNCHANGED <<up, store, manager, procs, budget>>

\* os.WriteFile fails to open the file, or leaves it short; apply returns.
WriteFails(a) ==
    /\ ap[a].at = "write"
    /\ budget.fails < MaxFails
    /\ file' \in {file, Torn}
    /\ Return(a)
    /\ budget' = [budget EXCEPT !.fails = @ + 1]
    /\ UNCHANGED <<up, store, manager, procs>>

\* start, one critical section of rm.mu.
Start(a) ==
    /\ ap[a].at = "start"
    /\ started < MaxProcs
    /\ LET p == started + 1 IN
         /\ started' = p
         /\ alive' = alive \cup {p}
         /\ config' = [config EXCEPT ![p] = file]
         /\ cmd' = p
         /\ done' = p
         /\ exited' = FALSE
         /\ waiter' = [waiter EXCEPT ![p] = "wait"]
    /\ Return(a)
    /\ UNCHANGED <<up, store, file, closed, doomed, budget>>

StartFails(a) ==
    /\ ap[a].at = "start"
    /\ budget.fails < MaxFails
    /\ Return(a)
    /\ budget' = [budget EXCEPT !.fails = @ + 1]
    /\ UNCHANGED <<up, store, file, manager, procs>>

-----------------------------------------------------------------------------
(* The processes, and the goroutines that wait for them *)

Die(p) ==
    /\ p \in alive \cap doomed
    /\ alive' = alive \ {p}
    /\ UNCHANGED <<up, store, file, ap, manager, started, doomed, config, budget>>

Crash(p) ==
    /\ p \in alive \ doomed
    /\ budget.crashes < MaxCrashes
    /\ alive' = alive \ {p}
    /\ budget' = [budget EXCEPT !.crashes = @ + 1]
    /\ UNCHANGED <<up, store, file, ap, manager, started, doomed, config>>

\* cmd.Wait returns.
WaiterReap(p) ==
    /\ waiter[p] = "wait"
    /\ p \notin alive
    /\ waiter' = [waiter EXCEPT ![p] = "mark"]
    /\ UNCHANGED <<up, store, file, ap, cmd, done, exited, closed, procs, budget>>

\* A plausible bug: the exit is signalled and not recorded.
WaiterMark_NoFlag(p) ==
    /\ waiter[p] = "mark"
    /\ waiter' = [waiter EXCEPT ![p] = "close"]
    /\ UNCHANGED <<up, store, file, ap, cmd, done, exited, closed, procs, budget>>

WaiterMark(p) ==
    /\ waiter[p] = "mark"
    /\ exited' = TRUE
    /\ waiter' = [waiter EXCEPT ![p] = "close"]
    /\ UNCHANGED <<up, store, file, ap, cmd, done, closed, procs, budget>>

\* A plausible bug: a process that stop killed gives no exit signal.
WaiterClose_IfClean(p) ==
    /\ waiter[p] = "close"
    /\ done # None /\ done \notin closed
    /\ closed' = IF p \in doomed THEN closed ELSE closed \cup {done}
    /\ waiter' = [waiter EXCEPT ![p] = "ended"]
    /\ UNCHANGED <<up, store, file, ap, cmd, done, exited, procs, budget>>

\* close(rm.done): the channel that is in rm.done now, read without the lock.
WaiterClose(p) ==
    /\ waiter[p] = "close"
    /\ done # None /\ done \notin closed
    /\ closed' = closed \cup {done}
    /\ waiter' = [waiter EXCEPT ![p] = "ended"]
    /\ UNCHANGED <<up, store, file, ap, cmd, done, exited, procs, budget>>

\* The panel ends, and systemd kills what is left of the service's processes.
PanelEnds ==
    /\ up' = FALSE
    /\ cmd' = None /\ done' = None /\ exited' = FALSE /\ closed' = {}
    /\ waiter' = [p \in Procs |-> "none"]
    /\ started' = 0 /\ alive' = {} /\ doomed' = {}
    /\ config' = [p \in Procs |-> 0]
    /\ ap' = [a \in Appliers |-> Idle]
    /\ UNCHANGED <<store, file>>

\* Closing nil or a closed channel panics.
WaiterPanic(p) ==
    /\ waiter[p] = "close"
    /\ done = None \/ done \in closed
    /\ PanelEnds
    /\ UNCHANGED budget

\* The panel is killed or the service restarted, in the middle of anything.
PanelKilled ==
    /\ up
    /\ budget.kills < MaxKills
    /\ PanelEnds
    /\ budget' = [budget EXCEPT !.kills = @ + 1]

-----------------------------------------------------------------------------

ApplyStep(a) ==
    \/ Count(a) \/ StopRead(a) \/ StopKill(a) \/ StopSkip(a) \/ StopWait(a) \/ StopClear(a)
    \/ GenConfig(a) \/ WriteConfig(a) \/ WriteFails(a) \/ Start(a) \/ StartFails(a)

WaiterStep(p) == WaiterReap(p) \/ WaiterMark(p) \/ WaiterClose(p) \/ WaiterPanic(p)

Next ==
    \/ Boot \/ HealthTick \/ PanelKilled
    \/ \E h \in Handlers : ChangeRules(h) \/ LeaveUnapplied(h) \/ ChangeMode(h)
    \/ \E a \in Appliers : ApplyStep(a)
    \/ \E p \in Procs : Die(p) \/ Crash(p) \/ WaiterStep(p)

Spec == Init /\ [][Next]_vars

\* Goroutines are scheduled, the ticker fires, SIGKILL works and systemd starts
\* the panel; no administrator has to change anything and no process to crash.
Fairness ==
    /\ WF_vars(Boot) /\ WF_vars(HealthTick)
    /\ \A a \in Appliers : WF_vars(ApplyStep(a))
    /\ \A p \in Procs : WF_vars(Die(p)) /\ WF_vars(WaiterStep(p))

FairSpec == Spec /\ Fairness

-----------------------------------------------------------------------------
(* Properties *)

\* Whatever applies overlap, Running() never says yes of a process whose exit
\* has been recorded: the process in rm.cmd still has its goroutine to come, so
\* the health check cannot be fooled for ever by a dead process.
RunningIsWatched == Running => waiter[cmd] \in {"wait", "mark"}

\* A process that is dead and still in rm.cmd is noticed: it stops counting as
\* running, or an apply replaces it, or the panel itself starts anew.
DeathIsNoticed ==
    \A p \in Procs : (cmd = p /\ p \notin alive) ~> ~(cmd = p /\ Running)

\* At most one realm is running that nobody has sent away.  Two would compete
\* for the same internal ports.
OneRealm == \A p, q \in alive \ doomed : p = q

Quiet == up /\ \A a \in Appliers : ap[a].at = "idle"

\* When no apply is in progress, realm runs exactly if a rule was active when the
\* last one began, and runs the configuration of the rules of that moment.  A
\* change that no apply followed has to wait: these need not be the store's rules.
ConfigCurrent ==
    Quiet => /\ applied \in Active => \E p \in alive \ doomed : config[p] = applied
             /\ applied \notin Active => alive \ doomed = {}

\* No request has begun while an apply was in progress.
Alone == budget.overlaps = 0

\* ... and no realm has exited by itself.  After the first that does, the goroutine
\* of a dead process may mark its successor, which stop then leaves alone.
Calm == Alone /\ budget.crashes = 0

\* Stop and start keep to one realm, whatever they are interrupted by, until
\* realm first exits by itself.
OneRealmWhileCalm == Calm => OneRealm

\* ... and so far every apply that could write its file and start realm leaves it
\* with the rules that it found, whatever was changed without an apply between.
CurrentWhileCalm == Calm /\ budget.fails = 0 => ConfigCurrent

\* realm comes back: once the administrator and the crashes are over, there is a
\* realm with the rules of the last apply for good (main.go health check; README
\* "realm 进程异常退出后面板每 30 秒自动重启").  The check sees that realm does not
\* run, never that it runs old rules.
RealmComesBack ==
    <>[](Alone /\ mode = "realm" /\ HasActive => \E p \in alive : config[p] = applied)

\* apply returns: stop does not wait for ever for the exit signal of a process,
\* although the goroutines of dead processes may close each other's channels.
ApplyReturns == \A a \in Appliers : ap[a].at # "idle" ~> ap[a].at = "idle" \/ ~Alone
=============================================================================
