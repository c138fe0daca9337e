---------------------------- MODULE RealmProofs ----------------------------
(***************************************************************************)
(* What holds of the supervisor however many applies overlap, whatever     *)
(* processes crash and whenever the panel is killed.                       *)
(***************************************************************************)
EXTENDS RealmSupervisor, TLAPS

LEMMA IdleType == Idle \in Locals /\ Begin \in Locals
BY DEF Idle, Begin, Locals

LEMMA ProcsFact == None \notin Procs /\ Main \in Appliers /\ Health \in Appliers
                   /\ Handlers \subseteq Appliers
BY NamesAssumption DEF Procs, Appliers

LEMMA RealmTypeInit == Init => TypeOK
  <1> SUFFICES ASSUME Init PROVE TypeOK
    OBVIOUS
  <1>1. ap \in [Appliers -> Locals] /\ started \in 0 .. MaxProcs
    BY IdleType, ParamsAssumption DEF Init
  <1>2. budget \in Budgets
    BY DEF Init, Budgets
  <1> QED BY <1>1, <1>2 DEF Init, TypeOK

\* How the steps of apply change an applier's record.
LEMMA GotoType ==
  ASSUME TypeOK, NEW a \in Appliers,
         NEW at \in {"idle", "count", "read", "kill", "wait", "clear", "gen", "write", "start"},
         Goto(a, at)
  PROVE  ap' \in [Appliers -> Locals]
  <1>1. [ap[a] EXCEPT !.at = at] \in Locals
    BY DEF TypeOK, Locals
  <1>2. ap' = [ap EXCEPT ![a] = [ap[a] EXCEPT !.at = at]]
    BY DEF Goto
  <1> QED BY <1>1, <1>2 DEF TypeOK

LEMMA ReturnType ==
  ASSUME TypeOK, NEW a \in Appliers, Return(a)
  PROVE  ap' \in [Appliers -> Locals]
BY IdleType DEF TypeOK, Return

LEMMA PanelEndsType ==
  ASSUME TypeOK, PanelEnds
  PROVE  /\ cmd' = None /\ ap' \in [Appliers -> Locals]
         /\ waiter' \in [Procs -> {"none", "wait", "mark", "close", "ended"}]
         /\ started' \in 0 .. MaxProcs
         /\ config' \in [Procs -> Nat \cup {Torn}]
BY IdleType, ParamsAssumption DEF PanelEnds

\* What a change of rules or mode adds to the budget.
LEMMA BudgetType ==
  ASSUME NEW b \in Budgets, NEW n \in Nat
  PROVE  /\ [b EXCEPT !.changes = @ + 1, !.overlaps = @ + n] \in Budgets
         /\ [b EXCEPT !.modes = @ + 1, !.overlaps = @ + n] \in Budgets
  <1>1. b.changes + 1 \in Nat /\ b.modes + 1 \in Nat /\ b.overlaps + n \in Nat
    BY DEF Budgets
  <1>2. [b EXCEPT !.changes = @ + 1] \in Budgets /\ [b EXCEPT !.modes = @ + 1] \in Budgets
    BY <1>1 DEF Budgets
  <1>3. ASSUME NEW c \in Budgets, c.overlaps = b.overlaps
        PROVE  [c EXCEPT !.overlaps = @ + n] \in Budgets
    BY <1>1, <1>3 DEF Budgets
  <1> QED
    BY <1>2, <1>3 DEF Budgets

LEMMA RealmTypeStep == TypeOK /\ [Next]_vars => TypeOK'
  <1> SUFFICES ASSUME TypeOK, [Next]_vars PROVE TypeOK'
    OBVIOUS
  <1> USE IdleType, ProcsFact DEF TypeOK, store, manager, procs
  <1>0. Beside \in Nat
    BY DEF Beside
  <1>1. CASE Boot
    BY <1>1 DEF Boot, Apply
  <1>2. CASE HealthTick
    <2>1. budget' \in Budgets
      BY <1>0, <1>2 DEF HealthTick, Budgets
    <2> QED BY <1>2, <2>1 DEF HealthTick, Apply
  <1>3. CASE PanelKilled
    <2>1. budget' \in Budgets
      BY <1>3 DEF PanelKilled, Budgets
    <2>2. PanelEnds
      BY <1>3 DEF PanelKilled
    <2> QED BY <2>1, <2>2, PanelEndsType DEF PanelEnds
  <1>4. ASSUME NEW h \in Handlers, ChangeRules(h) PROVE TypeOK'
    <2>1. budget' \in Budgets
      BY <1>0, <1>4, BudgetType DEF ChangeRules
    <2> QED BY <1>4, <2>1 DEF ChangeRules, Apply
  <1>4u. ASSUME NEW h \in Handlers, LeaveUnapplied(h) PROVE TypeOK'
    <2>1. budget' \in Budgets
      BY <1>0, <1>4u, BudgetType DEF LeaveUnapplied
    <2> QED BY <1>4u, <2>1 DEF LeaveUnapplied
  <1>5. ASSUME NEW h \in Handlers, ChangeMode(h) PROVE TypeOK'
    <2>1. budget' \in Budgets
      BY <1>0, <1>5, BudgetType DEF ChangeMode
    <2> QED BY <1>5, <2>1 DEF ChangeMode, Apply
  <1>6. ASSUME NEW a \in Appliers, ApplyStep(a) PROVE TypeOK'
    <2>1. CASE Count(a)
      <3>1. [ap[a] EXCEPT !.at = "read", !.active = HasActive] \in Locals
        <4>1. CASE HasActive
          <5>1. [ap[a] EXCEPT !.at = "read", !.active = TRUE] \in Locals
            BY DEF Locals
          <5>2. HasActive = TRUE
            BY <4>1 DEF HasActive
          <5> QED BY <5>1, <5>2
        <4>2. CASE ~HasActive
          <5>1. [ap[a] EXCEPT !.at = "read", !.active = FALSE] \in Locals
            BY DEF Locals
          <5>2. HasActive = FALSE
            BY <4>2 DEF HasActive
          <5> QED BY <5>1, <5>2
        <4> QED BY <4>1, <4>2
      <3>2. ap' \in [Appliers -> Locals]
        BY <2>1, <3>1 DEF Count
      <3> QED BY <2>1, <3>2 DEF Count
    <2>2. CASE StopRead(a)
      <3>1. [ap[a] EXCEPT !.at = "kill", !.cmd = cmd, !.done = done] \in Locals
        BY DEF Locals
      <3>2. ap' \in [Appliers -> Locals]
        BY <2>2, <3>1 DEF StopRead
      <3> QED BY <2>2, <3>2 DEF StopRead
    <2>3. CASE StopKill(a)
      <3>1. ap' \in [Appliers -> Locals]
        BY <2>3, GotoType DEF StopKill
      <3> QED BY <2>3, <3>1 DEF StopKill
    <2>4. CASE StopSkip(a)
      <3>1. ap' \in [Appliers -> Locals]
        BY <2>4, GotoType DEF StopSkip
      <3> QED BY <2>4, <3>1 DEF StopSkip
    <2>5. CASE StopWait(a)
      <3>1. ap' \in [Appliers -> Locals]
        BY <2>5, GotoType DEF StopWait
      <3> QED BY <2>5, <3>1 DEF StopWait
    <2>6. CASE StopClear(a)
      <3>1. ap' \in [Appliers -> Locals]
        BY <2>6, GotoType, ReturnType DEF StopClear
      <3> QED BY <2>6, <3>1 DEF StopClear
    <2>7. CASE GenConfig(a)
      <3>1. [ap[a] EXCEPT !.at = "write", !.cfg = rules] \in Locals
        BY DEF Locals
      <3>2. ap' \in [Appliers -> Locals]
        BY <2>7, <3>1 DEF GenConfig
      <3> QED BY <2>7, <3>2 DEF GenConfig
    <2>8. CASE WriteConfig(a)
      <3>1. ap' \in [Appliers -> Locals]
        BY <2>8, GotoType DEF WriteConfig
      <3>2. ap[a].cfg \in Nat
        BY DEF Locals
      <3> QED BY <2>8, <3>1, <3>2 DEF WriteConfig
    <2>9. CASE Start(a)
      <3>1. started + 1 \in Procs /\ started + 1 \in 0 .. MaxProcs
        BY <2>9, ParamsAssumption DEF Start, Procs
      <3>2. ap' \in [Appliers -> Locals]
        BY <2>9, ReturnType DEF Start
      <3> QED BY <2>9, <3>1, <3>2 DEF Start
    <2>10. CASE StartFails(a)
      <3>1. ap' \in [Appliers -> Locals]
        BY <2>10, ReturnType DEF StartFails
      <3>2. budget' \in Budgets
        BY <2>10 DEF StartFails, Budgets
      <3> QED BY <2>10, <3>1, <3>2 DEF StartFails
    <2>11. CASE WriteFails(a)
      <3>1. ap' \in [Appliers -> Locals]
        BY <2>11, ReturnType DEF WriteFails
      <3>2. budget' \in Budgets
        BY <2>11 DEF WriteFails, Budgets
      <3> QED BY <2>11, <3>1, <3>2 DEF WriteFails
    <2> QED BY <1>6, <2>1, <2>2, <2>3, <2>4, <2>5, <2>6, <2>7, <2>8, <2>9, <2>10, <2>11 DEF ApplyStep
  <1>7. ASSUME NEW p \in Procs, Die(p) PROVE TypeOK'
    BY <1>7 DEF Die
  <1>8. ASSUME NEW p \in Procs, Crash(p) PROVE TypeOK'
    <2>1. budget' \in Budgets
      BY <1>8 DEF Crash, Budgets
    <2> QED BY <1>8, <2>1 DEF Crash
  <1>9. ASSUME NEW p \in Procs, WaiterStep(p) PROVE TypeOK'
    <2>1. CASE WaiterReap(p)
      BY <2>1 DEF WaiterReap
    <2>2. CASE WaiterMark(p)
      BY <2>2 DEF WaiterMark
    <2>3. CASE WaiterClose(p)
      BY <2>3 DEF WaiterClose
    <2>4. CASE WaiterPanic(p)
      BY <2>4, PanelEndsType DEF WaiterPanic, PanelEnds
    <2> QED BY <1>9, <2>1, <2>2, <2>3, <2>4 DEF WaiterStep
  <1>10. CASE UNCHANGED vars
    BY <1>10 DEF vars
  <1> QED
    BY <1>1, <1>2, <1>3, <1>4, <1>4u, <1>5, <1>6, <1>7, <1>8, <1>9, <1>10 DEF Next

\* Only start makes exited false, and it makes the waiter of the new rm.cmd in
\* the same critical section; that waiter cannot close before it has marked.
LEMMA WatchedStep ==
    TypeOK /\ RunningIsWatched /\ [Next]_vars => RunningIsWatched'
  <1> SUFFICES ASSUME TypeOK, RunningIsWatched, [Next]_vars PROVE RunningIsWatched'
    OBVIOUS
  <1> USE ProcsFact DEF TypeOK, RunningIsWatched, Running, store, manager, procs
  <1>1. CASE Boot \/ HealthTick
    BY <1>1 DEF Boot, HealthTick
  <1>2. CASE PanelKilled
    BY <1>2 DEF PanelKilled, PanelEnds
  <1>3. ASSUME NEW h \in Handlers, ChangeRules(h) \/ LeaveUnapplied(h) \/ ChangeMode(h)
        PROVE  RunningIsWatched'
    BY <1>3 DEF ChangeRules, LeaveUnapplied, ChangeMode
  <1>4. ASSUME NEW a \in Appliers, ApplyStep(a) PROVE RunningIsWatched'
    <2>1. CASE Start(a)
      <3>1. started + 1 \in Procs
        BY <2>1, ParamsAssumption DEF Start, Procs
      <3> QED BY <2>1, <3>1 DEF Start
    <2>2. CASE StopClear(a)
      BY <2>2 DEF StopClear
    <2>3. CASE Count(a) \/ StopRead(a) \/ StopKill(a) \/ StopSkip(a) \/ StopWait(a)
               \/ GenConfig(a) \/ WriteConfig(a) \/ WriteFails(a) \/ StartFails(a)
      BY <2>3
         DEF Count, StopRead, StopKill, StopSkip, StopWait, GenConfig, WriteConfig, WriteFails, StartFails
    <2> QED BY <1>4, <2>1, <2>2, <2>3 DEF ApplyStep
  <1>5. ASSUME NEW p \in Procs, Die(p) \/ Crash(p) PROVE RunningIsWatched'
    BY <1>5 DEF Die, Crash
  <1>6. ASSUME NEW p \in Procs, WaiterStep(p) PROVE RunningIsWatched'
    <2>1. CASE WaiterReap(p) \/ WaiterMark(p) \/ WaiterClose(p)
      BY <2>1 DEF WaiterReap, WaiterMark, WaiterClose
    <2>2. CASE WaiterPanic(p)
      BY <2>2 DEF WaiterPanic, PanelEnds
    <2> QED BY <1>6, <2>1, <2>2 DEF WaiterStep
  <1>7. CASE UNCHANGED vars
    BY <1>7 DEF vars
  <1> QED
    BY <1>1, <1>2, <1>3, <1>4, <1>5, <1>6, <1>7 DEF Next

\* The state of the supervisor keeps its type.
THEOREM RealmTypeCorrect == Spec => []TypeOK
BY RealmTypeInit, RealmTypeStep, PTL DEF Spec

\* Running() never says yes of a process whose exit has been recorded, for any
\* number of overlapping applies, crashes and restarts of the panel.
THEOREM RunningAlwaysWatched == Spec => []RunningIsWatched
  <1>1. Init => RunningIsWatched
    BY DEF Init, RunningIsWatched, Running
  <1> QED BY <1>1, WatchedStep, RealmTypeCorrect, PTL DEF Spec
-----------------------------------------------------------------------------
(* The calm supervisor *)

\* Until applies overlap or realm exits by itself, there is no process, or the
\* one that rm.cmd names and nobody has stopped yet, or the one an apply is
\* stopping; the goroutines of all others have ended.
Rests(p) == waiter[p] \in {"none", "ended"}

Stopped == alive = {} /\ \A p \in Procs : Rests(p)
Down == cmd = None /\ done = None /\ Stopped
Runs ==
    /\ cmd \in Procs /\ done = cmd
    /\ alive = {cmd} /\ cmd \notin doomed /\ cmd \notin closed
    /\ ~exited /\ waiter[cmd] = "wait"
    /\ \A p \in Procs : p # cmd => Rests(p)
Leaves ==
    /\ cmd \in Procs /\ done = cmd
    /\ cmd \in doomed /\ alive \subseteq {cmd}
    /\ waiter[cmd] # "none"
    /\ waiter[cmd] = "wait" \/ alive = {}
    /\ cmd \in closed => waiter[cmd] = "ended"
    /\ \A p \in Procs : p # cmd => Rests(p)

\* A process not started yet has left no trace.
Fresh ==
    \A p \in Procs : p > started =>
        waiter[p] = "none" /\ p \notin alive /\ p \notin doomed /\ p \notin closed

\* What an apply in progress has established, by where it is.
Reached(a) ==
    /\ ap[a].at # "idle" => applied = rules
    /\ ap[a].at \in {"count", "read", "kill"} => Down \/ Runs
    /\ ap[a].at = "kill" => ap[a].cmd = cmd /\ ap[a].done = done
    /\ ap[a].at = "wait" => Leaves /\ ap[a].done = done
    /\ ap[a].at = "clear" => Stopped
    /\ ap[a].at \in {"read", "kill", "wait", "clear"} => (ap[a].active <=> HasActive)
    /\ ap[a].at \in {"gen", "write", "start"} => Down /\ HasActive
    /\ ap[a].at = "write" => ap[a].cfg = rules
    /\ ap[a].at = "start" => file = rules

AllIdle == \A a \in Appliers : ap[a].at = "idle"

\* What the last apply has left, when it did not fail.
Served ==
    /\ Down \/ Runs
    /\ up /\ budget.fails = 0 => IF applied \in Active THEN Runs /\ config[cmd] = applied ELSE Down

CalmInv ==
    /\ up \/ AllIdle
    /\ Calm => /\ \A a, b \in Appliers : ap[a].at # "idle" /\ ap[b].at # "idle" => a = b
               /\ \A a \in Appliers : Reached(a)
               /\ AllIdle => Served
               /\ Fresh

LEMMA CalmInit == Init => CalmInv
BY ProcsFact
   DEF Init, CalmInv, AllIdle, Idle, Reached, Served, Fresh, Down, Stopped, Rests, HasActive

\* Only the environment can end the calm, and nothing brings it back.
LEMMA CalmBefore == TypeOK /\ [Next]_vars /\ Calm' => Calm
  <1> SUFFICES ASSUME TypeOK, [Next]_vars, Calm'
               PROVE  Calm
    OBVIOUS
  <1>1. Beside \in Nat /\ budget.overlaps \in Nat /\ budget.crashes \in Nat
    BY DEF TypeOK, Budgets, Beside
  <1>2. CASE UNCHANGED budget
    BY <1>2 DEF Calm, Alone
  <1>3. CASE HealthTick \/ PanelKilled
    BY <1>1, <1>3 DEF HealthTick, PanelKilled, Calm, Alone, TypeOK, Budgets
  <1>4. ASSUME NEW h \in Handlers, ChangeRules(h) \/ LeaveUnapplied(h) \/ ChangeMode(h)
        PROVE  Calm
    <2>1. budget'.overlaps = budget.overlaps + Beside /\ budget'.crashes = budget.crashes
      <3>1. CASE ChangeRules(h)
        BY <3>1 DEF ChangeRules, TypeOK, Budgets
      <3>2. CASE ChangeMode(h)
        BY <3>2 DEF ChangeMode, TypeOK, Budgets
      <3>3. CASE LeaveUnapplied(h)
        BY <3>3 DEF LeaveUnapplied, TypeOK, Budgets
      <3> QED BY <1>4, <3>1, <3>2, <3>3
    <2> QED BY <1>1, <2>1 DEF Calm, Alone
  <1>5. ASSUME NEW a \in Appliers, WriteFails(a) \/ StartFails(a)
        PROVE  Calm
    BY <1>1, <1>5 DEF WriteFails, StartFails, Calm, Alone, TypeOK, Budgets
  <1>6. ASSUME NEW p \in Procs, Crash(p)
        PROVE  Calm
    BY <1>1, <1>6 DEF Crash, Calm, Alone, TypeOK, Budgets
  <1> QED
    BY <1>2, <1>3, <1>4, <1>5, <1>6
       DEF Next, Boot, ApplyStep, Count, StopRead, StopKill, StopSkip, StopWait, StopClear,
           GenConfig, WriteConfig, Start, Die, WaiterStep, WaiterReap, WaiterMark, WaiterClose,
           WaiterPanic, vars

\* An apply begins where the last one left off.
LEMMA Begins ==
  ASSUME TypeOK, CalmInv, NEW a \in Appliers, ap' = [ap EXCEPT ![a] = Begin],
         applied' = rules', Calm' => Calm /\ AllIdle, up', UNCHANGED <<manager, procs>>
  PROVE  CalmInv'
  <1>1. ap'[a] = Begin /\ Begin.at = "count" /\ \A b \in Appliers : b # a => ap'[b] = ap[b]
    BY DEF TypeOK, Begin, Idle
  <1>2. ~AllIdle'
    BY <1>1 DEF AllIdle
  <1>3. ASSUME Calm'
        PROVE  (\A b \in Appliers : Reached(b)') /\ Fresh'
               /\ \A b, c \in Appliers : ap'[b].at # "idle" /\ ap'[c].at # "idle" => b = c
    <2>1. AllIdle /\ (Down \/ Runs) /\ Fresh
      BY <1>3 DEF CalmInv, Served
    <2>2. Down' \/ Runs'
      BY <2>1 DEF Down, Runs, Stopped, Rests, manager, procs
    <2>3. Fresh'
      BY <2>1 DEF Fresh, manager, procs
    <2>4. \A b \in Appliers : b # a => ap'[b].at = "idle"
      BY <1>1, <2>1 DEF AllIdle
    <2>5. \A b \in Appliers : Reached(b)'
      BY <1>1, <2>2, <2>4 DEF Reached
    <2> QED BY <2>3, <2>4, <2>5
  <1> QED BY <1>2, <1>3 DEF CalmInv

\* A step of an apply changes what this apply has reached, and no other is there.
LEMMA Proceeds ==
  ASSUME TypeOK, CalmInv, Calm' => Calm, NEW a \in Appliers, ap[a].at # "idle",
         NEW r, ap' = [ap EXCEPT ![a] = r], up' = up,
         Calm => Fresh' /\ IF r.at = "idle" THEN Served' ELSE Reached(a)'
  PROVE  CalmInv'
  <1>1. ap'[a] = r /\ \A b \in Appliers : b # a => ap'[b] = ap[b]
    BY DEF TypeOK
  <1>2. up'
    BY DEF CalmInv, AllIdle
  <1>3. ASSUME Calm'
        PROVE  /\ \A b \in Appliers : Reached(b)'
               /\ AllIdle' => Served'
               /\ Fresh'
               /\ \A b, c \in Appliers : ap'[b].at # "idle" /\ ap'[c].at # "idle" => b = c
    <2>1. \A b \in Appliers : b # a => ap'[b].at = "idle"
      BY <1>1, <1>3 DEF CalmInv
    <2>2. \A b \in Appliers : ap'[b].at = "idle" => Reached(b)'
      BY DEF Reached
    <2>3. AllIdle' => r.at = "idle"
      BY <1>1 DEF AllIdle
    <2> QED BY <1>1, <1>3, <2>1, <2>2, <2>3
  <1> QED BY <1>2, <1>3 DEF CalmInv

\* While it is calm, a process ends and is waited for only because an apply is
\* stopping it, and this apply waits.
LEMMA Stopping ==
  ASSUME TypeOK, CalmInv, Calm, NEW p \in Procs,
         p \in alive \cap doomed \/ waiter[p] \in {"mark", "close"}
         \/ (waiter[p] = "wait" /\ p \notin alive)
  PROVE  \E a \in Appliers : ap[a].at = "wait" /\ Leaves /\ p = cmd
  <1>1. ~Stopped /\ ~Down /\ ~Runs
    BY DEF Down, Runs, Stopped, Rests
  <1>2. ~AllIdle
    BY <1>1 DEF CalmInv, Served
  <1>3. PICK a \in Appliers : ap[a].at # "idle"
    BY <1>2 DEF AllIdle
  <1>4. Reached(a)
    BY DEF CalmInv
  <1>5. ap[a].at = "wait" /\ Leaves
    BY <1>1, <1>3, <1>4 DEF Reached, TypeOK, Locals
  <1>6. p = cmd
    BY <1>5 DEF Leaves, Rests
  <1> QED BY <1>5, <1>6

\* A process that is being stopped ends and its goroutine does its work.
LEMMA Ends ==
  ASSUME TypeOK, CalmInv, Calm' => Calm, Calm => Leaves' /\ Fresh',
         Calm => \E a \in Appliers : ap[a].at = "wait",
         UNCHANGED <<up, store, file, ap, cmd, done>>
  PROVE  CalmInv'
  <1>1. up' \/ AllIdle'
    BY DEF CalmInv, AllIdle
  <1>2. ASSUME Calm'
        PROVE  /\ \A b \in Appliers : Reached(b)'
               /\ ~AllIdle'
               /\ \A b, c \in Appliers : ap'[b].at # "idle" /\ ap'[c].at # "idle" => b = c
    <2>1. PICK a \in Appliers : ap[a].at = "wait"
      BY <1>2
    <2>2. \A b \in Appliers : b # a => ap[b].at = "idle"
      BY <1>2, <2>1 DEF CalmInv
    <2>3. Reached(a)
      BY <1>2 DEF CalmInv
    <2>4. Reached(a)'
      BY <1>2, <2>1, <2>3 DEF Reached, HasActive, store
    <2>5. \A b \in Appliers : b # a => Reached(b)'
      BY <2>2 DEF Reached
    <2> QED BY <1>2, <2>1, <2>2, <2>4, <2>5 DEF AllIdle
  <1> QED BY <1>1, <1>2 DEF CalmInv

\* Everything ends with the panel.
LEMMA CalmAfterEnd == ASSUME TypeOK, PanelEnds PROVE CalmInv'
  <1>1. AllIdle'
    BY DEF PanelEnds, AllIdle, Idle
  <1>2. \A a \in Appliers : Reached(a)'
    BY <1>1 DEF AllIdle, Reached
  <1>3. Down' /\ Fresh' /\ ~up'
    BY DEF PanelEnds, Down, Stopped, Rests, Fresh
  <1>4. Served'
    BY <1>3 DEF Served
  <1> QED BY <1>1, <1>2, <1>3, <1>4 DEF CalmInv, AllIdle

LEMMA CalmStep == TypeOK /\ CalmInv /\ [Next]_vars => CalmInv'
  <1> SUFFICES ASSUME TypeOK, CalmInv, [Next]_vars
               PROVE  CalmInv'
    OBVIOUS
  <1>c. Calm' => Calm
    BY CalmBefore
  <1>1. CASE Boot
    <2>1. AllIdle
      BY <1>1 DEF Boot, CalmInv
    <2> QED BY <1>1, <1>c, <2>1, ProcsFact, Begins DEF Boot, Apply
  <1>2. CASE PanelKilled
    BY <1>2, CalmAfterEnd DEF PanelKilled
  <1>3. ASSUME NEW a \in Appliers, MayBegin(a), ap' = [ap EXCEPT ![a] = Begin], up' = up,
               applied' = rules', budget'.overlaps = budget.overlaps + Beside, UNCHANGED <<manager, procs>>
        PROVE  CalmInv'
    <2>1. Calm' => AllIdle
      <3>1. budget.overlaps \in Nat
        BY DEF TypeOK, Budgets
      <3> QED BY <1>3, <3>1 DEF Calm, Alone, Beside, AllIdle
    <2> QED BY <1>3, <1>c, <2>1, Begins DEF MayBegin
  <1>4. CASE HealthTick
    <2>1. budget'.overlaps = budget.overlaps + Beside
      BY <1>4 DEF HealthTick, TypeOK, Budgets
    <2> QED BY <1>3, <1>4, <2>1, ProcsFact DEF HealthTick, Apply
  <1>5. ASSUME NEW h \in Handlers, ChangeRules(h)
        PROVE  CalmInv'
    <2>1. budget'.overlaps = budget.overlaps + Beside
      BY <1>5 DEF ChangeRules, TypeOK, Budgets
    <2> QED BY <1>3, <1>5, <2>1, ProcsFact DEF ChangeRules, Apply
  <1>5u. ASSUME NEW h \in Handlers, LeaveUnapplied(h)
         PROVE  CalmInv'
    <2>1. budget'.overlaps = budget.overlaps + Beside /\ budget.overlaps \in Nat
      BY <1>5u DEF LeaveUnapplied, TypeOK, Budgets
    <2>2. Calm' => Calm /\ AllIdle
      BY <1>c, <2>1 DEF Calm, Alone, Beside, AllIdle
    <2>3. /\ UNCHANGED <<up, ap, applied, manager, procs>> /\ budget'.fails = budget.fails
      BY <1>5u DEF LeaveUnapplied, TypeOK, Budgets
    <2>4. Calm' => (\A a \in Appliers : Reached(a)') /\ Fresh' /\ AllIdle'
      BY <2>2, <2>3 DEF CalmInv, AllIdle, Reached, Fresh, manager, procs
    <2>5. Calm' => Served'
      BY <2>2, <2>3
         DEF CalmInv, Served, Down, Runs, Stopped, Rests, manager, procs
    <2> QED BY <2>3, <2>4, <2>5 DEF CalmInv, AllIdle
  <1>6. ASSUME NEW h \in Handlers, ChangeMode(h)
        PROVE  CalmInv'
    <2>1. budget'.overlaps = budget.overlaps + Beside
      BY <1>6 DEF ChangeMode, TypeOK, Budgets
    <2> QED BY <1>3, <1>6, <2>1, ProcsFact DEF ChangeMode, Apply
  <1>7. ASSUME NEW a \in Appliers, ApplyStep(a)
        PROVE  CalmInv'
    <2>a. ap[a] \in Locals /\ (Calm => Reached(a) /\ Fresh)
      BY DEF TypeOK, CalmInv
    <2>b. ASSUME ap[a].at # "idle", NEW r, ap' = [ap EXCEPT ![a] = r], up' = up,
                 Calm => Fresh' /\ IF r.at = "idle" THEN Served' ELSE Reached(a)'
          PROVE  CalmInv'
      BY <1>c, <2>b, Proceeds
    <2>1. CASE Count(a)
      <3> DEFINE r == [ap[a] EXCEPT !.at = "read", !.active = HasActive]
      <3>1. ap' = [ap EXCEPT ![a] = r]
        BY <2>1 DEF Count
      <3>2. ap'[a] = r /\ r.at = "read" /\ (r.active <=> HasActive)
        BY <3>1, <2>a DEF TypeOK, Locals
      <3> HIDE DEF r
      <3>3. Calm => Fresh' /\ Reached(a)'
        BY <2>1, <2>a, <3>2
           DEF Count, Reached, Fresh, HasActive, Down, Runs, Stopped, Rests, store, manager, procs
      <3> QED BY <2>1, <2>b, <3>1, <3>2, <3>3 DEF Count
    <2>2. CASE StopRead(a)
      <3> DEFINE r == [ap[a] EXCEPT !.at = "kill", !.cmd = cmd, !.done = done]
      <3>1. ap' = [ap EXCEPT ![a] = r]
        BY <2>2 DEF StopRead
      <3>2. /\ ap'[a] = r /\ r.at = "kill" /\ r.cmd = cmd /\ r.done = done
            /\ r.active = ap[a].active
        BY <3>1, <2>a DEF TypeOK, Locals
      <3> HIDE DEF r
      <3>3. Calm => Fresh' /\ Reached(a)'
        BY <2>2, <2>a, <3>2
           DEF StopRead, Reached, Fresh, HasActive, Down, Runs, Stopped, Rests, store, manager, procs
      <3> QED BY <2>2, <2>b, <3>1, <3>2, <3>3 DEF StopRead
    <2>c. ASSUME NEW at, Goto(a, at)
          PROVE  /\ ap' = [ap EXCEPT ![a] = [ap[a] EXCEPT !.at = at]]
                 /\ ap'[a] = [ap[a] EXCEPT !.at = at] /\ ap'[a].at = at
                 /\ ap'[a].cmd = ap[a].cmd /\ ap'[a].done = ap[a].done
                 /\ ap'[a].active = ap[a].active /\ ap'[a].cfg = ap[a].cfg
      BY <2>a, <2>c DEF Goto, TypeOK, Locals
    <2>d. ASSUME Return(a)
          PROVE  ap' = [ap EXCEPT ![a] = Idle] /\ Idle.at = "idle"
      BY <2>d DEF Return, Idle
    <2>3. CASE StopKill(a)
      <3> DEFINE at == IF ap[a].done # None THEN "wait" ELSE "clear"
                 r == [ap[a] EXCEPT !.at = at]
      <3>1. Goto(a, at)
        BY <2>3 DEF StopKill
      <3>2. at \in {"wait", "clear"}
        OBVIOUS
      <3> HIDE DEF at
      <3>3. /\ ap' = [ap EXCEPT ![a] = r] /\ ap'[a] = r /\ ap'[a].at = at
            /\ ap'[a].done = ap[a].done /\ ap'[a].active = ap[a].active
        BY <2>c, <3>1
      <3> HIDE DEF r
      <3>4. ASSUME Calm
            PROVE  Fresh' /\ Reached(a)'
        <4>1. Runs /\ ap[a].cmd = cmd /\ ap[a].done = cmd
          BY <2>3, <2>a, <3>4 DEF StopKill, Reached, Down, Runs
        <4>2. at = "wait" /\ doomed' = doomed \cup {cmd}
          BY <2>3, <4>1, ProcsFact DEF StopKill, Runs, at
        <4>3. Leaves'
          BY <2>3, <4>1, <4>2 DEF StopKill, Runs, Leaves, Rests, manager
        <4>4. Fresh'
          BY <2>3, <2>a, <3>4, <4>1, <4>2 DEF StopKill, Fresh, Runs, manager
        <4>5. HasActive' = HasActive /\ done' = cmd /\ applied' = applied /\ rules' = rules
          BY <2>3, <4>1 DEF StopKill, HasActive, store, manager, Runs
        <4>6. Reached(a)'
          BY <2>3, <2>a, <3>3, <3>4, <4>1, <4>2, <4>3, <4>5 DEF StopKill, Reached
        <4> QED BY <4>4, <4>6
      <3> QED BY <2>3, <2>b, <3>2, <3>3, <3>4 DEF StopKill
    <2>4. CASE StopSkip(a)
      <3> DEFINE r == [ap[a] EXCEPT !.at = "clear"]
      <3>1. /\ ap' = [ap EXCEPT ![a] = r] /\ ap'[a] = r /\ ap'[a].at = "clear"
            /\ ap'[a].active = ap[a].active
        BY <2>4, <2>c DEF StopSkip
      <3> HIDE DEF r
      <3>2. ASSUME Calm
            PROVE  Fresh' /\ Reached(a)'
        <4>1. Down
          BY <2>4, <2>a, <3>2, ProcsFact DEF StopSkip, Reached, Runs
        <4> QED BY <2>4, <2>a, <3>1, <3>2, <4>1
                DEF StopSkip, Reached, Fresh, HasActive, Down, Stopped, Rests, store, manager, procs
      <3> QED BY <2>4, <2>b, <3>1, <3>2 DEF StopSkip
    <2>5. CASE StopWait(a)
      <3> DEFINE r == [ap[a] EXCEPT !.at = "clear"]
      <3>1. /\ ap' = [ap EXCEPT ![a] = r] /\ ap'[a] = r /\ ap'[a].at = "clear"
            /\ ap'[a].active = ap[a].active
        BY <2>5, <2>c DEF StopWait
      <3> HIDE DEF r
      <3>2. ASSUME Calm
            PROVE  Fresh' /\ Reached(a)'
        <4>1. Stopped
          BY <2>5, <2>a, <3>2 DEF StopWait, Reached, Leaves, Stopped, Rests
        <4> QED BY <2>5, <2>a, <3>1, <3>2, <4>1
                DEF StopWait, Reached, Fresh, HasActive, Stopped, Rests, store, manager, procs
      <3> QED BY <2>5, <2>b, <3>1, <3>2 DEF StopWait
    <2>6. CASE StopClear(a)
      <3>1. ASSUME Calm
            PROVE  /\ Down' /\ Fresh' /\ (ap[a].active <=> HasActive) /\ (HasActive' <=> HasActive)
                   /\ applied' = applied /\ applied = rules /\ rules' = rules
        BY <2>6, <2>a, <3>1, ProcsFact
           DEF StopClear, Reached, Fresh, HasActive, Down, Stopped, Rests, store, procs
      <3>2. CASE ap[a].active
        <4> DEFINE r == [ap[a] EXCEPT !.at = "gen"]
        <4>1. ap' = [ap EXCEPT ![a] = r] /\ ap'[a] = r /\ ap'[a].at = "gen"
          BY <2>6, <2>c, <3>2 DEF StopClear
        <4> HIDE DEF r
        <4>2. Calm => Reached(a)'
          BY <3>1, <3>2, <4>1 DEF Reached
        <4> QED BY <2>6, <2>b, <3>1, <4>1, <4>2 DEF StopClear
      <3>3. CASE ~ap[a].active
        <4>1. ap' = [ap EXCEPT ![a] = Idle] /\ Idle.at = "idle"
          BY <2>6, <2>d, <3>3 DEF StopClear
        <4>2. Calm => Served'
          BY <3>1, <3>3 DEF Served, HasActive
        <4> QED BY <2>6, <2>b, <3>1, <4>1, <4>2 DEF StopClear
      <3> QED BY <3>2, <3>3
    <2>7. CASE GenConfig(a)
      <3> DEFINE r == [ap[a] EXCEPT !.at = "write", !.cfg = rules]
      <3>1. ap' = [ap EXCEPT ![a] = r]
        BY <2>7 DEF GenConfig
      <3>2. ap'[a] = r /\ r.at = "write" /\ r.cfg = rules
        BY <3>1, <2>a DEF TypeOK, Locals
      <3> HIDE DEF r
      <3>3. Calm => Fresh' /\ Reached(a)'
        BY <2>7, <2>a, <3>2
           DEF GenConfig, Reached, Fresh, HasActive, Down, Stopped, Rests, store, manager, procs
      <3> QED BY <2>7, <2>b, <3>1, <3>2, <3>3 DEF GenConfig
    <2>8. CASE WriteConfig(a)
      <3> DEFINE r == [ap[a] EXCEPT !.at = "start"]
      <3>1. ap' = [ap EXCEPT ![a] = r] /\ ap'[a] = r /\ ap'[a].at = "start"
        BY <2>8, <2>c DEF WriteConfig
      <3> HIDE DEF r
      <3>2. Calm => Fresh' /\ Reached(a)'
        BY <2>8, <2>a, <3>1
           DEF WriteConfig, Reached, Fresh, HasActive, Down, Stopped, Rests, store, manager, procs
      <3> QED BY <2>8, <2>b, <3>1, <3>2 DEF WriteConfig
    <2>9. CASE Start(a)
      <3>1. ap' = [ap EXCEPT ![a] = Idle] /\ Idle.at = "idle"
        BY <2>9, <2>d DEF Start
      <3>2. ASSUME Calm
            PROVE  Fresh' /\ Served'
        <4> DEFINE p == started + 1
        <4>1. p \in Procs /\ started \in Nat /\ p > started
          BY <2>9, ParamsAssumption DEF Start, Procs, TypeOK
        <4>2. /\ started' = p /\ alive' = alive \cup {p} /\ cmd' = p /\ done' = p /\ ~exited'
              /\ waiter' = [waiter EXCEPT ![p] = "wait"] /\ config' = [config EXCEPT ![p] = file]
              /\ UNCHANGED <<up, rules, applied, file, closed, doomed, budget>>
          BY <2>9 DEF Start, store
        <4> HIDE DEF p
        <4>3. Down /\ HasActive /\ file = rules /\ applied = rules /\ Fresh
          BY <2>9, <2>a, <3>2 DEF Start, Reached
        <4>4. /\ waiter'[p] = "wait" /\ config'[p] = file
              /\ \A q \in Procs : q # p => waiter'[q] = waiter[q]
          BY <4>1, <4>2 DEF TypeOK
        <4>5. Runs'
          BY <4>1, <4>2, <4>3, <4>4 DEF Runs, Down, Stopped, Rests, Fresh
        <4>6. Fresh'
          <5> SUFFICES ASSUME NEW q \in Procs, q > p
                       PROVE  waiter'[q] = "none" /\ q \notin alive' /\ q \notin doomed' /\ q \notin closed'
            BY <4>2 DEF Fresh
          <5>1. q # p /\ q > started
            BY <4>1 DEF Procs, p
          <5> QED BY <4>2, <4>3, <4>4, <5>1 DEF Fresh
        <4>7. applied' \in Active /\ config'[cmd'] = applied'
          BY <4>2, <4>3, <4>4 DEF HasActive
        <4> QED BY <4>5, <4>6, <4>7 DEF Served
      <3> QED BY <2>9, <2>b, <3>1, <3>2 DEF Start
    <2>10. CASE StartFails(a)
      <3>1. ap' = [ap EXCEPT ![a] = Idle] /\ Idle.at = "idle"
        BY <2>10, <2>d DEF StartFails
      <3>2. budget'.fails # 0
        BY <2>10 DEF StartFails, TypeOK, Budgets
      <3>3. Calm => Fresh' /\ Served'
        BY <2>10, <2>a, <3>2
           DEF StartFails, Reached, Served, Fresh, Down, Stopped, Rests, manager, procs
      <3> QED BY <2>10, <2>b, <3>1, <3>3 DEF StartFails
    <2>11. CASE WriteFails(a)
      <3>1. ap' = [ap EXCEPT ![a] = Idle] /\ Idle.at = "idle"
        BY <2>11, <2>d DEF WriteFails
      <3>2. budget'.fails # 0
        BY <2>11 DEF WriteFails, TypeOK, Budgets
      <3>3. Calm => Fresh' /\ Served'
        BY <2>11, <2>a, <3>2
           DEF WriteFails, Reached, Served, Fresh, Down, Stopped, Rests, manager, procs
      <3> QED BY <2>11, <2>b, <3>1, <3>3 DEF WriteFails
    <2> QED BY <1>7, <2>1, <2>2, <2>3, <2>4, <2>5, <2>6, <2>7, <2>8, <2>9, <2>10, <2>11 DEF ApplyStep
  <1>8. ASSUME NEW p \in Procs, Die(p)
        PROVE  CalmInv'
    <2>1. Calm => \E a \in Appliers : ap[a].at = "wait" /\ Leaves /\ p = cmd
      BY <1>8, Stopping DEF Die
    <2>2. Calm => Leaves' /\ Fresh'
      BY <1>8, <2>1 DEF Die, Leaves, Rests, Fresh, CalmInv, manager
    <2> QED BY <1>8, <1>c, <2>1, <2>2, Ends DEF Die, manager
  <1>9. ASSUME NEW p \in Procs, Crash(p)
        PROVE  CalmInv'
    <2>1. ~Calm'
      BY <1>9 DEF Crash, Calm, TypeOK, Budgets
    <2> QED BY <1>9, <2>1 DEF Crash, CalmInv, AllIdle
  <1>10. ASSUME NEW p \in Procs, WaiterStep(p)
         PROVE  CalmInv'
    <2>1. CASE WaiterPanic(p)
      BY <2>1, CalmAfterEnd DEF WaiterPanic
    <2>2. CASE WaiterReap(p) \/ WaiterMark(p) \/ WaiterClose(p)
      <3>1. Calm => \E a \in Appliers : ap[a].at = "wait" /\ Leaves /\ p = cmd
        BY <2>2, Stopping DEF WaiterReap, WaiterMark, WaiterClose
      <3>2. ASSUME Calm
            PROVE  Leaves' /\ Fresh'
        <4>1. Leaves /\ p = cmd /\ Fresh
          BY <3>1, <3>2 DEF CalmInv
        <4>2. CASE WaiterReap(p)
          BY <4>1, <4>2 DEF WaiterReap, Leaves, Rests, Fresh, procs, TypeOK
        <4>3. CASE WaiterMark(p)
          BY <4>1, <4>3 DEF WaiterMark, Leaves, Rests, Fresh, procs, TypeOK
        <4>4. CASE WaiterClose(p)
          BY <4>1, <4>4 DEF WaiterClose, Leaves, Rests, Fresh, procs, TypeOK
        <4> QED BY <2>2, <4>2, <4>3, <4>4
      <3> QED BY <2>2, <1>c, <3>1, <3>2, Ends DEF WaiterReap, WaiterMark, WaiterClose
    <2> QED BY <1>10, <2>1, <2>2 DEF WaiterStep
  <1>11. CASE UNCHANGED vars
    BY <1>11
       DEF vars, CalmInv, Calm, Alone, AllIdle, Reached, Served, Fresh, HasActive, Down, Runs, Leaves,
           Stopped, Rests, store, manager, procs
  <1> QED
    BY <1>1, <1>2, <1>4, <1>5, <1>5u, <1>6, <1>7, <1>8, <1>9, <1>10, <1>11 DEF Next

LEMMA CalmHolds == Spec => [](TypeOK /\ CalmInv)
BY CalmInit, CalmStep, RealmTypeCorrect, PTL DEF Spec

\* Until applies overlap or realm first exits by itself, two processes never
\* run, however many rules change, starts fail and panels are killed.
THEOREM OneRealmBeforeTrouble == Spec => []OneRealmWhileCalm
  <1>1. TypeOK /\ CalmInv => OneRealmWhileCalm
    <2> SUFFICES ASSUME TypeOK, CalmInv, Calm
                 PROVE  alive \ doomed \subseteq {cmd}
      BY DEF OneRealmWhileCalm, OneRealm
    <2>1. CASE AllIdle
      BY <2>1 DEF CalmInv, Served, Down, Stopped, Runs
    <2>2. CASE ~AllIdle
      <3>1. PICK a \in Appliers : ap[a].at # "idle"
        BY <2>2 DEF AllIdle
      <3>2. Down \/ Runs \/ Leaves \/ Stopped
        BY <3>1 DEF CalmInv, Reached, TypeOK, Locals
      <3> QED BY <3>2 DEF Down, Stopped, Runs, Leaves
    <2> QED BY <2>1, <2>2
  <1> QED BY <1>1, CalmHolds, PTL

\* ... and every apply that does not fail leaves realm with the rules that it
\* found, or no realm if none of them was active; a change that no apply follows
\* leaves realm as it is.
THEOREM CurrentBeforeTrouble == Spec => []CurrentWhileCalm
  <1>1. CalmInv => CurrentWhileCalm
    BY DEF CalmInv, CurrentWhileCalm, ConfigCurrent, Quiet, AllIdle, Served, Runs, Down, Stopped
  <1> QED BY <1>1, CalmHolds, PTL
=============================================================================
