------------------------- MODULE InternalPortProofs -------------------------
(***************************************************************************)
(* What holds of the internal ports for any pool, any number of rules, of  *)
(* requests and of connections: types; one rule per port; a dial gets to   *)
(* its own rule; and what was switched off gives back its port.            *)
(***************************************************************************)
EXTENDS InternalPorts, TLAPS

-----------------------------------------------------------------------------
(* Tables *)

LEMMA TableDef ==
  ASSUME NEW t \in Tables
  PROVE  /\ DOMAIN t \subseteq Rules
         /\ \A r \in DOMAIN t : t[r] \in Pool
         /\ t = [r \in DOMAIN t |-> t[r]]
BY DEF Tables

LEMMA NothingIsTable == Nothing \in Tables /\ DOMAIN Nothing = {}
  <1>1. Nothing \in [{} -> Pool]
    BY DEF Nothing
  <1> QED BY <1>1 DEF Tables, Nothing

LEMMA WithTable ==
  ASSUME NEW t \in Tables, NEW r \in Rules, NEW n \in Pool
  PROVE  /\ With(t, r, n) \in Tables
         /\ DOMAIN With(t, r, n) = DOMAIN t \cup {r}
         /\ \A x \in DOMAIN t \cup {r} : With(t, r, n)[x] = IF x = r THEN n ELSE t[x]
  <1>1. DOMAIN t \subseteq Rules /\ \A x \in DOMAIN t : t[x] \in Pool
    BY TableDef
  <1>2. With(t, r, n) \in [DOMAIN t \cup {r} -> Pool]
    BY <1>1 DEF With
  <1>3. DOMAIN t \cup {r} \in SUBSET Rules
    BY <1>1
  <1> QED BY <1>2, <1>3 DEF Tables, With

LEMMA RestrictTable ==
  ASSUME NEW t \in Tables, NEW S \in SUBSET DOMAIN t
  PROVE  /\ Restrict(t, S) \in Tables
         /\ DOMAIN Restrict(t, S) = S
         /\ \A x \in S : Restrict(t, S)[x] = t[x]
  <1>1. DOMAIN t \subseteq Rules /\ \A x \in DOMAIN t : t[x] \in Pool
    BY TableDef
  <1>2. Restrict(t, S) \in [S -> Pool]
    BY <1>1 DEF Restrict
  <1>3. S \in SUBSET Rules
    BY <1>1
  <1> QED BY <1>2, <1>3 DEF Tables, Restrict

-----------------------------------------------------------------------------
(* Types *)

\* A process that is about a rule has one, one that stores a port has chosen it,
\* and each keeps to the stages of its kind.
Grounded ==
    /\ \A p \in Procs :
          /\ proc[p].at \in {"free", "lookup", "choose", "set", "accepted"} => proc[p].rule \in Rules
          /\ proc[p].at = "set" => proc[p].port \in Pool
    /\ \A h \in Handlers : proc[h].at \notin {"accepted", "connect", "done"}
    /\ \A d \in Dials : proc[d].at \in {"idle", "accepted", "lookup", "choose", "set", "connect", "done"}

TypeInv == TypeOK /\ Grounded

LEMMA RulesMade == TypeInv => listed \subseteq Rules /\ enabled \subseteq Rules
BY BoundsAssumption DEF TypeInv, TypeOK, Rules

LEMMA PairsType == \A t \in Tables : Pairs(t) \subseteq Rules \X Pool
  <1> SUFFICES ASSUME NEW t \in Tables PROVE Pairs(t) \subseteq Rules \X Pool
    OBVIOUS
  <1>1. DOMAIN t \subseteq Rules /\ \A r \in DOMAIN t : t[r] \in Pool
    BY TableDef
  <1> QED BY <1>1 DEF Pairs

LEMMA IdleType == Idle \in Proc
BY NothingIsTable, BoundsAssumption DEF Idle, Proc, Stages

\* What the steps do to proc: p is replaced by q ...
Put(p, q) == \A x \in Procs : proc'[x] = IF x = p THEN q ELSE proc[x]

LEMMA PutType ==
  ASSUME TypeInv, NEW p \in Procs, NEW q \in Proc, proc' = [proc EXCEPT ![p] = q]
  PROVE  proc' \in [Procs -> Proc] /\ Put(p, q)
BY DEF TypeInv, TypeOK, Put

LEMMA GotoPut ==
  ASSUME TypeInv, NEW p \in Procs, NEW at \in Stages, Goto(p, at)
  PROVE  /\ proc' \in [Procs -> Proc]
         /\ \A x \in Procs : x # p => proc'[x] = proc[x]
         /\ proc'[p].at = at /\ proc'[p].rule = proc[p].rule /\ proc'[p].port = proc[p].port
         /\ proc'[p].config = proc[p].config /\ proc'[p].overtaken = proc[p].overtaken
         /\ proc'[p].got = proc[p].got /\ proc'[p].todo = proc[p].todo
  <1>1. proc[p] \in Proc
    BY DEF TypeInv, TypeOK
  <1>2. [proc[p] EXCEPT !.at = at] \in Proc
    BY <1>1 DEF Proc
  <1>3. proc' = [proc EXCEPT ![p] = [proc[p] EXCEPT !.at = at]]
    BY DEF Goto
  <1>4. proc' \in [Procs -> Proc] /\ Put(p, [proc[p] EXCEPT !.at = at])
    BY <1>2, <1>3, PutType
  <1> QED BY <1>1, <1>4 DEF Put, Proc

LEMMA CountPut ==
  ASSUME TypeInv, NEW h \in Procs, Count(h)
  PROVE  /\ proc' \in [Procs -> Proc]
         /\ \A x \in Procs : x # h => proc'[x] = proc[x]
         /\ proc[h].at = "count" /\ proc'[h].at = "stop" /\ proc'[h].counted = (active # {})
  <1> DEFINE some == active # {}
             q == [proc[h] EXCEPT !.at = "stop", !.counted = some]
  <1>1. proc[h] \in Proc
    BY DEF TypeInv, TypeOK
  <1>2. some \in BOOLEAN /\ "stop" \in Stages
    BY DEF Stages
  <1>3. proc' = [proc EXCEPT ![h] = q] /\ proc[h].at = "count"
    BY DEF Count
  <1> HIDE DEF some
  <1>4. q \in Proc /\ q.at = "stop" /\ q.counted = some
    BY <1>1, <1>2 DEF Proc
  <1> HIDE DEF q
  <1>5. proc' \in [Procs -> Proc] /\ Put(h, q)
    BY <1>3, <1>4, PutType
  <1> QED BY <1>3, <1>4, <1>5 DEF Put, some

LEMMA HavePut ==
  ASSUME TypeInv, NEW p \in Procs, proc[p].rule \in Rules, NEW n \in Pool, proc' = Have(p, n)
  PROVE  /\ proc' \in [Procs -> Proc]
         /\ \A x \in Procs : x # p => proc'[x] = proc[x]
         /\ proc'[p].rule = proc[p].rule /\ proc'[p].overtaken = proc[p].overtaken
         /\ proc'[p].got = proc[p].got /\ proc'[p].todo = proc[p].todo
         /\ p \in Dials => proc'[p].at = "connect" /\ proc'[p].port = n
         /\ p \notin Dials => proc'[p].at = "loop" /\ proc'[p].config = With(proc[p].config, proc[p].rule, n)
  <1>1. proc[p] \in Proc
    BY DEF TypeInv, TypeOK
  <1>2. CASE p \in Dials
    <2> DEFINE q == [proc[p] EXCEPT !.at = "connect", !.port = n]
    <2>1. q \in Proc /\ q.rule = proc[p].rule /\ q.overtaken = proc[p].overtaken /\ q.got = proc[p].got
          /\ q.todo = proc[p].todo /\ q.at = "connect" /\ q.port = n
      BY <1>1 DEF Proc, Stages
    <2>2. proc' = [proc EXCEPT ![p] = q]
      BY <1>2 DEF Have
    <2> HIDE DEF q
    <2>3. proc' \in [Procs -> Proc] /\ Put(p, q)
      BY <2>1, <2>2, PutType
    <2> QED BY <1>2, <2>1, <2>3 DEF Put
  <1>3. CASE p \notin Dials
    <2> DEFINE t == With(proc[p].config, proc[p].rule, n)
               q == [proc[p] EXCEPT !.at = "loop", !.port = None, !.config = t]
    <2>0. t \in Tables
      BY <1>1, WithTable DEF Proc
    <2>1. q \in Proc /\ q.rule = proc[p].rule /\ q.overtaken = proc[p].overtaken /\ q.got = proc[p].got
          /\ q.todo = proc[p].todo /\ q.at = "loop" /\ q.config = t
      BY <1>1, <2>0 DEF Proc, Stages
    <2>2. proc' = [proc EXCEPT ![p] = q]
      BY <1>3 DEF Have
    <2> HIDE DEF q
    <2>3. proc' \in [Procs -> Proc] /\ Put(p, q)
      BY <2>1, <2>2, PutType
    <2> QED BY <1>3, <2>1, <2>3 DEF Put
  <1> QED BY <1>2, <1>3

\* ... or, when a request begins, every connection that is dialling is overtaken.
LEMMA BeginPut ==
  ASSUME TypeInv, NEW h \in Handlers, NEW at \in {"count", "free"}, NEW r \in 0 .. MaxRules, Begin(h, at, r)
  PROVE  /\ proc' \in [Procs -> Proc]
         /\ proc[h].at = "idle" /\ proc'[h].at = at /\ proc'[h].rule = r
         /\ \A x \in Procs : x # h =>
               /\ proc'[x].at = proc[x].at /\ proc'[x].rule = proc[x].rule
               /\ proc'[x].port = proc[x].port /\ proc'[x].config = proc[x].config
               /\ proc'[x].got = proc[x].got
               /\ proc'[x].overtaken = (Dialling(x) \/ proc[x].overtaken)
         /\ budget' \in [requests : 0 .. MaxRequests, overlaps : 0 .. MaxOverlaps]
         /\ crowded' = (crowded \/ ~AtRest)
         /\ UNCHANGED <<listening, table, running, orphans, died, raced, late>>
  <1>1. proc \in [Procs -> Proc] /\ h \in Procs
    BY DEF TypeInv, TypeOK, Procs
  <1> DEFINE q == [Idle EXCEPT !.at = at, !.rule = r]
  <1>2. q \in Proc /\ q.at = at /\ q.rule = r
    BY IdleType DEF Idle, Proc, Stages
  <1>3. \A x \in Procs : LET o == [proc[x] EXCEPT !.overtaken = TRUE] IN
            /\ o \in Proc /\ o.at = proc[x].at /\ o.rule = proc[x].rule /\ o.port = proc[x].port
            /\ o.config = proc[x].config /\ o.got = proc[x].got /\ o.overtaken = TRUE
    BY <1>1 DEF Proc
  <1>4. proc' = [x \in Procs |-> IF x = h THEN q
                                 ELSE IF Dialling(x) THEN [proc[x] EXCEPT !.overtaken = TRUE]
                                 ELSE proc[x]]
    BY DEF Begin
  <1> HIDE DEF q
  <1>5. proc' \in [Procs -> Proc]
    BY <1>1, <1>2, <1>3, <1>4
  <1>6. \A x \in Procs : x # h =>
               /\ proc'[x].at = proc[x].at /\ proc'[x].rule = proc[x].rule
               /\ proc'[x].port = proc[x].port /\ proc'[x].config = proc[x].config
               /\ proc'[x].got = proc[x].got
               /\ proc'[x].overtaken = (Dialling(x) \/ proc[x].overtaken)
    <2> TAKE x \in Procs
    <2> HAVE x # h
    <2>1. proc[x].overtaken \in BOOLEAN
      BY <1>1 DEF Proc
    <2>2. CASE Dialling(x)
      BY <1>3, <1>4, <2>2
    <2>3. CASE ~Dialling(x)
      BY <1>4, <2>1, <2>3
    <2> QED BY <2>2, <2>3
  <1>7. budget' \in [requests : 0 .. MaxRequests, overlaps : 0 .. MaxOverlaps]
    BY BoundsAssumption DEF TypeInv, TypeOK, Begin
  <1> QED BY <1>1, <1>2, <1>4, <1>5, <1>6, <1>7 DEF Begin, realm

LEMMA TypeInit == Init => TypeInv
  <1> SUFFICES ASSUME Init PROVE TypeInv
    OBVIOUS
  <1>1. proc \in [Procs -> Proc] /\ \A p \in Procs : proc[p].at = "idle"
    BY IdleType DEF Init, Idle
  <1>2. TypeOK
    <2>1. /\ made \in 0 .. MaxRules /\ listed \subseteq 1 .. made /\ enabled \subseteq 1 .. made
          /\ listening \subseteq Rules /\ late \subseteq Rules
      BY BoundsAssumption DEF Init
    <2>2. budget \in [requests : 0 .. MaxRequests, overlaps : 0 .. MaxOverlaps]
      BY BoundsAssumption DEF Init
    <2>3. table \in Tables /\ running \in Tables /\ orphans \subseteq Rules \X Pool /\ died \in BOOLEAN
      BY NothingIsTable DEF Init
    <2>4. raced \in BOOLEAN /\ crowded \in BOOLEAN
      BY DEF Init
    <2> QED BY <1>1, <2>1, <2>2, <2>3, <2>4 DEF TypeOK
  <1> QED BY <1>1, <1>2 DEF TypeInv, Grounded, Procs

\* A step that moves one process, and what it may change besides.
LEMMA StepType ==
  ASSUME TypeInv, NEW p \in Procs, proc' \in [Procs -> Proc],
         \A x \in Procs : x # p => proc'[x] = proc[x],
         proc'[p].at \in {"free", "lookup", "choose", "set", "accepted"} => proc'[p].rule \in Rules,
         proc'[p].at = "set" => proc'[p].port \in Pool,
         p \in Handlers => proc'[p].at \notin {"accepted", "connect", "done"},
         p \in Dials => proc'[p].at \in {"idle", "accepted", "lookup", "choose", "set", "connect", "done"},
         UNCHANGED <<listed, enabled, made, budget, crowded>>,
         listening' \subseteq Rules, table' \in Tables, running' \in Tables,
         orphans' \subseteq Rules \X Pool, died' \in BOOLEAN,
         raced' \in BOOLEAN, late' \subseteq Rules
  PROVE  TypeInv'
  <1>1. Grounded'
    BY DEF TypeInv, Grounded, Procs
  <1>2. /\ made' \in 0 .. MaxRules /\ listed' \subseteq 1 .. made' /\ enabled' \subseteq 1 .. made'
        /\ crowded' \in BOOLEAN
        /\ budget' \in [requests : 0 .. MaxRequests, overlaps : 0 .. MaxOverlaps]
    BY DEF TypeInv, TypeOK
  <1> QED BY <1>1, <1>2 DEF TypeInv, TypeOK

LEMMA BeginType ==
  ASSUME TypeInv, NEW h \in Handlers, NEW at \in {"count", "free"}, NEW r \in 0 .. MaxRules,
         at = "free" => r \in Rules, Begin(h, at, r),
         made' \in 0 .. MaxRules /\ listed' \subseteq 1 .. made' /\ enabled' \subseteq 1 .. made'
  PROVE  TypeInv'
  <1>1. /\ proc' \in [Procs -> Proc]
        /\ proc'[h].at = at /\ proc'[h].rule = r
        /\ \A x \in Procs : x # h =>
               proc'[x].at = proc[x].at /\ proc'[x].rule = proc[x].rule /\ proc'[x].port = proc[x].port
        /\ budget' \in [requests : 0 .. MaxRequests, overlaps : 0 .. MaxOverlaps]
        /\ crowded' = (crowded \/ ~AtRest)
        /\ UNCHANGED <<listening, table, running, orphans, died, raced, late>>
    BY BeginPut
  <1>2. Grounded'
    BY <1>1, HandlersAssumption DEF TypeInv, Grounded, Procs
  <1>3. raced' \in BOOLEAN
    BY <1>1 DEF TypeInv, TypeOK
  <1>4. crowded' \in BOOLEAN
    BY <1>1 DEF TypeInv, TypeOK, AtRest
  <1>5. /\ listening' \subseteq Rules /\ table' \in Tables /\ running' \in Tables /\ late' \subseteq Rules
        /\ orphans' \subseteq Rules \X Pool /\ died' \in BOOLEAN
    BY <1>1 DEF TypeInv, TypeOK
  <1> QED BY <1>1, <1>2, <1>3, <1>4, <1>5 DEF TypeInv, TypeOK

LEMMA TypeStep == TypeInv /\ [Next]_vars => TypeInv'
  <1> SUFFICES ASSUME TypeInv, [Next]_vars PROVE TypeInv'
    OBVIOUS
  <1>a. /\ proc \in [Procs -> Proc] /\ table \in Tables /\ running \in Tables
        /\ listed \subseteq Rules /\ enabled \subseteq Rules
        /\ listed \subseteq 1 .. made /\ enabled \subseteq 1 .. made
        /\ made \in 0 .. MaxRules /\ listening \subseteq Rules /\ late \subseteq Rules
        /\ orphans \subseteq Rules \X Pool /\ died \in BOOLEAN /\ raced \in BOOLEAN
    BY RulesMade DEF TypeInv, TypeOK
  <1>b. Handlers \subseteq Procs /\ Dials \subseteq Procs /\ \A h \in Handlers : h \notin Dials
    BY HandlersAssumption DEF Procs
  <1>c. \A S \in SUBSET DOMAIN table : Restrict(table, S) \in Tables
    BY <1>a, RestrictTable
  <1>1. ASSUME NEW h \in Handlers, Add(h) PROVE TypeInv'
    <2>1. made' \in 0 .. MaxRules /\ listed' \subseteq 1 .. made' /\ enabled' \subseteq 1 .. made'
      BY <1>1, <1>a, BoundsAssumption DEF Add
    <2>3. Begin(h, "count", 0) /\ 0 \in 0 .. MaxRules
      BY <1>1, BoundsAssumption DEF Add
    <2> QED BY <2>1, <2>3, BeginType
  <1>2. ASSUME NEW h \in Handlers, NEW r \in listed, Delete(h, r) PROVE TypeInv'
    <2>1. r \in Rules /\ r \in 0 .. MaxRules
      BY <1>2, <1>a, BoundsAssumption DEF Rules
    <2>2. /\ Begin(h, "free", r)
          /\ made' \in 0 .. MaxRules /\ listed' \subseteq 1 .. made' /\ enabled' \subseteq 1 .. made'
      BY <1>2, <1>a DEF Delete
    <2> QED BY <2>1, <2>2, BeginType
  <1>3. ASSUME NEW h \in Handlers, NEW r \in listed, Switch(h, r) PROVE TypeInv'
    <2>1. /\ Begin(h, "count", 0) /\ 0 \in 0 .. MaxRules
          /\ made' \in 0 .. MaxRules /\ listed' \subseteq 1 .. made' /\ enabled' \subseteq 1 .. made'
      BY <1>3, <1>a, BoundsAssumption DEF Switch
    <2> QED BY <2>1, BeginType
  <1>4. ASSUME NEW h \in Handlers, Refresh(h) PROVE TypeInv'
    <2>1. /\ Begin(h, "count", 0) /\ 0 \in 0 .. MaxRules
          /\ made' \in 0 .. MaxRules /\ listed' \subseteq 1 .. made' /\ enabled' \subseteq 1 .. made'
      BY <1>4, <1>a, BoundsAssumption DEF Refresh
    <2> QED BY <2>1, BeginType
  <1>5. ASSUME NEW h \in Handlers, Free(h) PROVE TypeInv'
    <2>1. Goto(h, "count") /\ "count" \in Stages
      BY <1>5 DEF Free, Stages
    <2>2. proc' \in [Procs -> Proc] /\ proc'[h].at = "count" /\ \A x \in Procs : x # h => proc'[x] = proc[x]
      BY <2>1, <1>b, GotoPut
    <2>3. table' \in Tables
      BY <1>5, <1>c DEF Free
    <2> QED BY <1>5, <1>a, <1>b, <2>2, <2>3, StepType DEF Free, rules, realm, history
  <1>5a. ASSUME NEW h \in Handlers, Count(h) PROVE TypeInv'
    <2>1. proc' \in [Procs -> Proc] /\ proc'[h].at = "stop" /\ \A x \in Procs : x # h => proc'[x] = proc[x]
      BY <1>5a, <1>b, CountPut
    <2> QED BY <1>5a, <1>a, <1>b, <2>1, StepType DEF Count, rules, realm, history
  <1>6. ASSUME NEW h \in Handlers, Stop(h) PROVE TypeInv'
    <2> DEFINE at == IF proc[h].counted THEN "gen" ELSE "reload"
    <2>1. Goto(h, at) /\ at \in Stages /\ at \in {"reload", "gen"}
      BY <1>6 DEF Stop, Stages
    <2> HIDE DEF at
    <2>2. proc' \in [Procs -> Proc] /\ proc'[h].at \in {"reload", "gen"}
          /\ \A x \in Procs : x # h => proc'[x] = proc[x]
      BY <2>1, <1>b, GotoPut
    <2>3. running' \in Tables /\ orphans' \subseteq Rules \X Pool
      BY <1>6, <1>a, NothingIsTable, PairsType DEF Stop
    <2> QED BY <1>6, <1>a, <1>b, <2>2, <2>3, StepType DEF Stop, rules, history
  <1>7. ASSUME NEW h \in Handlers, Gen(h) PROVE TypeInv'
    <2> DEFINE q == [proc[h] EXCEPT !.at = "loop", !.todo = listed, !.config = Nothing]
    <2>1. q \in Proc /\ q.at = "loop" /\ proc' = [proc EXCEPT ![h] = q]
      BY <1>7, <1>a, <1>b, NothingIsTable DEF Gen, Proc, Stages
    <2> HIDE DEF q
    <2>2. proc' \in [Procs -> Proc] /\ proc'[h].at = "loop" /\ \A x \in Procs : x # h => proc'[x] = proc[x]
      BY <2>1, <1>b, PutType DEF Put
    <2> QED BY <1>7, <1>a, <1>b, <2>2, StepType DEF Gen, rules, realm, history
  <1>8. ASSUME NEW h \in Handlers, Loop(h) PROVE TypeInv'
    <2>1. CASE Goto(h, "prune")
      <3>1. "prune" \in Stages
        BY DEF Stages
      <3>2. proc' \in [Procs -> Proc] /\ proc'[h].at = "prune" /\ \A x \in Procs : x # h => proc'[x] = proc[x]
        BY <2>1, <3>1, <1>b, GotoPut
      <3> QED BY <1>8, <1>a, <1>b, <3>2, StepType DEF Loop, rules, realm, history
    <2>2. ASSUME NEW r \in proc[h].todo,
                 proc' = [proc EXCEPT ![h].todo = @ \ {r}, ![h].rule = r,
                                      ![h].at = IF r \in enabled THEN "lookup" ELSE "loop"]
          PROVE  TypeInv'
      <3> DEFINE at == IF r \in enabled THEN "lookup" ELSE "loop"
                 q == [proc[h] EXCEPT !.todo = @ \ {r}, !.rule = r, !.at = at]
      <3>1. proc[h] \in Proc
        BY <1>a, <1>b
      <3>2. r \in Rules /\ r \in 0 .. MaxRules
        BY <2>2, <3>1, BoundsAssumption DEF Proc, Rules
      <3>3. q \in Proc /\ q.at \in {"lookup", "loop"} /\ q.rule = r
        BY <3>1, <3>2 DEF Proc, Stages
      <3>4. proc' = [proc EXCEPT ![h] = q]
        BY <2>2, <1>a, <1>b
      <3> HIDE DEF q
      <3>5. proc' \in [Procs -> Proc] /\ proc'[h] = q /\ \A x \in Procs : x # h => proc'[x] = proc[x]
        BY <3>3, <3>4, <1>b, PutType DEF Put
      <3> QED BY <1>8, <1>a, <1>b, <3>2, <3>3, <3>5, StepType DEF Loop, rules, realm, history
    <2> QED BY <1>8, <2>1, <2>2 DEF Loop
  <1>9. ASSUME NEW h \in Handlers, Prune(h) PROVE TypeInv'
    <2>1. Goto(h, "start") /\ "start" \in Stages
      BY <1>9 DEF Prune, Stages
    <2>2. proc' \in [Procs -> Proc] /\ proc'[h].at = "start" /\ \A x \in Procs : x # h => proc'[x] = proc[x]
      BY <2>1, <1>b, GotoPut
    <2>3. table' \in Tables
      BY <1>9, <1>c DEF Prune
    <2> QED BY <1>9, <1>a, <1>b, <2>2, <2>3, StepType DEF Prune, rules, realm
  <1>10. ASSUME NEW h \in Handlers, Start(h) PROVE TypeInv'
    <2> DEFINE q == [Idle EXCEPT !.at = "reload"]
    <2>1. q \in Proc /\ q.at = "reload" /\ proc' = [proc EXCEPT ![h] = q]
      BY <1>10, IdleType DEF Start, Proc, Stages
    <2> HIDE DEF q
    <2>2. proc' \in [Procs -> Proc] /\ proc'[h].at = "reload" /\ \A x \in Procs : x # h => proc'[x] = proc[x]
      BY <2>1, <1>b, PutType DEF Put
    <2>3. running' \in Tables /\ orphans' \subseteq Rules \X Pool
      BY <1>10, <1>a, <1>b, PairsType DEF Start, Proc
    <2> QED BY <1>10, <1>a, <1>b, <2>2, <2>3, StepType DEF Start, rules, history
  <1>11. ASSUME NEW h \in Handlers, Reload(h) PROVE TypeInv'
    <2>1. proc' \in [Procs -> Proc] /\ proc'[h] = Idle /\ \A x \in Procs : x # h => proc'[x] = proc[x]
      BY <1>11, <1>b, IdleType, PutType DEF Reload, Put
    <2>2. proc'[h].at = "idle"
      BY <2>1 DEF Idle
    <2>3. listening' \subseteq Rules
      BY <1>11, <1>a DEF Reload, active
    <2> QED BY <1>11, <1>a, <1>b, <2>1, <2>2, <2>3, StepType DEF Reload, realm, history
  <1>12. ASSUME NEW d \in Dials, Dial(d) PROVE TypeInv'
    <2> DEFINE q == [proc[d] EXCEPT !.at = "lookup", !.overtaken = ~AtRest]
    <2>1. q \in Proc /\ q.at = "lookup" /\ q.rule = proc[d].rule /\ proc' = [proc EXCEPT ![d] = q]
      BY <1>12, <1>a, <1>b DEF Dial, Proc, Stages, AtRest
    <2> HIDE DEF q
    <2>2. proc' \in [Procs -> Proc] /\ proc'[d] = q /\ \A x \in Procs : x # d => proc'[x] = proc[x]
      BY <2>1, <1>b, PutType DEF Put
    <2>3. proc[d].rule \in Rules
      BY <1>12, <1>b DEF Dial, TypeInv, Grounded
    <2> QED BY <1>12, <1>a, <1>b, <2>1, <2>2, <2>3, StepType DEF Dial, rules, realm, history
  <1>13. ASSUME NEW d \in Dials, Connect(d) PROVE TypeInv'
    <2> DEFINE own == {r \in DOMAIN running : running[r] = proc[d].port}
               left == {r \in Rules : <<r, proc[d].port>> \in orphans}
    <2>1. PICK got \in own \cup left \cup (IF own = {} THEN {None} ELSE {}) :
            proc' = [proc EXCEPT ![d].at = "done", ![d].port = None, ![d].got = got]
      BY <1>13 DEF Connect
    <2>2. got \in Rules \cup {None}
      BY <1>a, TableDef
    <2> DEFINE q == [proc[d] EXCEPT !.at = "done", !.port = None, !.got = got]
    <2>3. q \in Proc /\ q.at = "done" /\ proc' = [proc EXCEPT ![d] = q]
      <3>1. proc[d] \in Proc
        BY <1>a, <1>b
      <3>2. q \in Proc /\ q.at = "done"
        BY <2>2, <3>1 DEF Proc, Stages
      <3> QED BY <2>1, <3>2
    <2> HIDE DEF q
    <2>4. proc' \in [Procs -> Proc] /\ proc'[d] = q /\ \A x \in Procs : x # d => proc'[x] = proc[x]
      BY <2>3, <1>b, PutType DEF Put
    <2> QED BY <1>13, <1>a, <1>b, <2>3, <2>4, StepType DEF Connect, rules, realm, history
  <1>14. ASSUME NEW d \in Dials, NEW r \in listening, Accept(d, r) PROVE TypeInv'
    <2> DEFINE q == [Idle EXCEPT !.at = "accepted", !.rule = r]
    <2>1. r \in Rules /\ r \in 0 .. MaxRules
      BY <1>14, <1>a, BoundsAssumption DEF Rules
    <2>2. q \in Proc /\ q.at = "accepted" /\ q.rule = r /\ proc' = [proc EXCEPT ![d] = q]
      BY <2>1, <1>14, IdleType DEF Accept, Proc, Stages, Idle
    <2> HIDE DEF q
    <2>3. proc' \in [Procs -> Proc] /\ proc'[d] = q /\ \A x \in Procs : x # d => proc'[x] = proc[x]
      BY <2>2, <1>b, PutType DEF Put
    <2> QED BY <1>14, <1>a, <1>b, <2>1, <2>2, <2>3, StepType DEF Accept, rules, realm, history
  <1>15. ASSUME NEW p \in Procs, Lookup(p) PROVE TypeInv'
    <2>1. proc[p].rule \in Rules /\ p \in Dials \cup Handlers
      BY <1>15 DEF Lookup, TypeInv, Grounded, Procs
    <2>2. CASE proc[p].rule \in DOMAIN table
      <3>1. table[proc[p].rule] \in Pool
        BY <2>2, <1>a, TableDef
      <3>2. proc' = Have(p, table[proc[p].rule]) /\ UNCHANGED raced
        BY <1>15, <2>2 DEF Lookup
      <3>3. /\ proc' \in [Procs -> Proc] /\ \A x \in Procs : x # p => proc'[x] = proc[x]
            /\ p \in Dials => proc'[p].at = "connect"
            /\ p \notin Dials => proc'[p].at = "loop"
        BY <3>1, <3>2, <2>1, HavePut
      <3> QED BY <1>15, <1>a, <1>b, <2>1, <3>2, <3>3, StepType DEF Lookup, rules, realm
    <2>3. CASE proc[p].rule \notin DOMAIN table
      <3>1. Goto(p, "choose") /\ "choose" \in Stages
        BY <1>15, <2>3 DEF Lookup, Stages
      <3>2. /\ proc' \in [Procs -> Proc] /\ \A x \in Procs : x # p => proc'[x] = proc[x]
            /\ proc'[p].at = "choose" /\ proc'[p].rule = proc[p].rule
        BY <3>1, GotoPut
      <3>3. raced' \in BOOLEAN
        BY <1>15, <2>3, <1>a DEF Lookup
      <3> QED BY <1>15, <1>a, <1>b, <2>1, <3>2, <3>3, StepType DEF Lookup, rules, realm
    <2> QED BY <2>2, <2>3
  <1>16. ASSUME NEW p \in Procs, Choose(p) PROVE TypeInv'
    <2>1. proc[p].rule \in Rules /\ p \in Dials \cup Handlers
      BY <1>16 DEF Choose, TypeInv, Grounded, Procs
    <2>2. CASE Goto(p, IF p \in Dials THEN "done" ELSE "loop")
      <3> DEFINE at == IF p \in Dials THEN "done" ELSE "loop"
      <3>1. Goto(p, at) /\ at \in Stages /\ at \in {"done", "loop"} /\ (p \in Dials => at = "done")
            /\ (p \notin Dials => at = "loop")
        BY <2>2 DEF Stages
      <3> HIDE DEF at
      <3>2. /\ proc' \in [Procs -> Proc] /\ \A x \in Procs : x # p => proc'[x] = proc[x]
            /\ proc'[p].at = at
        BY <3>1, GotoPut
      <3> QED BY <1>16, <1>a, <1>b, <2>1, <3>1, <3>2, StepType DEF Choose, rules, realm, history
    <2>3. ASSUME NEW n \in Pool, proc' = [proc EXCEPT ![p].at = "set", ![p].port = n]
          PROVE  TypeInv'
      <3> DEFINE q == [proc[p] EXCEPT !.at = "set", !.port = n]
      <3>1. q \in Proc /\ q.at = "set" /\ q.port = n /\ q.rule = proc[p].rule /\ proc' = [proc EXCEPT ![p] = q]
        BY <2>3, <1>a DEF Proc, Stages
      <3> HIDE DEF q
      <3>2. proc' \in [Procs -> Proc] /\ proc'[p] = q /\ \A x \in Procs : x # p => proc'[x] = proc[x]
        BY <3>1, PutType DEF Put
      <3> QED BY <1>16, <1>a, <1>b, <2>1, <3>1, <3>2, StepType DEF Choose, rules, realm, history
    <2> QED BY <1>16, <2>2, <2>3 DEF Choose, TakeLowest
  <1>17. ASSUME NEW p \in Procs, Set(p) PROVE TypeInv'
    <2>1. proc[p].rule \in Rules /\ proc[p].port \in Pool /\ p \in Dials \cup Handlers
      BY <1>17 DEF Set, TypeInv, Grounded, Procs
    <2>2. table' \in Tables
      BY <1>17, <2>1, <1>a, WithTable DEF Set
    <2>3. /\ proc' \in [Procs -> Proc] /\ \A x \in Procs : x # p => proc'[x] = proc[x]
          /\ p \in Dials => proc'[p].at = "connect"
          /\ p \notin Dials => proc'[p].at = "loop"
      BY <1>17, <2>1, HavePut DEF Set
    <2>4. late' \subseteq Rules
      BY <1>17, <2>1, <1>a DEF Set
    <2> QED BY <1>17, <1>a, <1>b, <2>1, <2>2, <2>3, <2>4, StepType DEF Set, rules, realm
  <1>18. CASE ReloadBeside
    <2>1. listening' \subseteq Rules
      BY <1>18, <1>a DEF ReloadBeside, active
    <2> QED BY <1>18, <2>1 DEF ReloadBeside, TypeInv, TypeOK, Grounded, realm, history
  <1>19. CASE Die
    <2>1. running' \in Tables
      BY <1>19, NothingIsTable DEF Die
    <2> QED BY <1>19, <2>1 DEF Die, TypeInv, TypeOK, Grounded, rules, history
  <1>20. CASE UNCHANGED vars
    BY <1>20 DEF vars, rules, realm, history, TypeInv, TypeOK, Grounded
  <1> QED
    BY <1>1, <1>2, <1>3, <1>4, <1>5, <1>5a, <1>6, <1>7, <1>8, <1>9, <1>10, <1>11, <1>12, <1>13, <1>14, <1>15,
       <1>16, <1>17, <1>18, <1>19, <1>20 DEF Next, Request, Connection, Allocate

\* The table is one of rules of the pool, each process is at a stage of its kind
\* and about a rule that there is, in any interleaving (realm.go 47-124).
THEOREM InternalTypeCorrect == Spec => []TypeOK
  <1>1. TypeInv => TypeOK
    BY DEF TypeInv
  <1> QED BY <1>1, TypeInit, TypeStep, PTL DEF Spec

-----------------------------------------------------------------------------
(* One rule per port *)

\* Until two allocations are under way at once: the rule that one of them is about
\* has no port, and the port it has chosen is still nobody's.
Sole ==
    raced \/
    /\ IsInjective(table)
    /\ \A p, q \in Procs : Allocating(p) /\ Allocating(q) => p = q
    /\ \A p \in Procs : Allocating(p) => proc[p].rule \notin DOMAIN table
    /\ \A p \in Procs : proc[p].at = "set" => proc[p].port \notin Range(table)

\* Who allocates after a step did before, for that rule and with that port.
NoNewcomer ==
    \A p \in Procs : Allocating(p)' =>
        /\ Allocating(p)
        /\ proc'[p].rule = proc[p].rule
        /\ proc'[p].at = "set" => proc[p].at = "set" /\ proc'[p].port = proc[p].port

\* A step that begins no allocation and takes nothing into the table.
LEMMA SoleKept ==
  ASSUME TypeInv, Sole, raced' = raced,
         NoNewcomer,
         NEW S \in SUBSET DOMAIN table, table' = table \/ table' = Restrict(table, S)
  PROVE  Sole'
  <1>1. table \in Tables
    BY DEF TypeInv, TypeOK
  <1>2. DOMAIN table' \subseteq DOMAIN table /\ \A r \in DOMAIN table' : table'[r] = table[r]
    BY <1>1, RestrictTable
  <1>3. IsInjective(table) => IsInjective(table)'
    BY <1>2 DEF IsInjective
  <1>4. Range(table)' \subseteq Range(table)
    BY <1>2 DEF Range
  <1>5. \A p \in Procs : proc'[p].at = "set" => Allocating(p)'
    BY DEF Allocating
  <1>6. \A p \in Procs : Allocating(p)' => Allocating(p) /\ proc'[p].rule = proc[p].rule
    BY DEF NoNewcomer
  <1> SUFFICES ASSUME ~raced PROVE Sole'
    BY DEF Sole
  <1>7. \A p, q \in Procs : Allocating(p)' /\ Allocating(q)' => p = q
    BY <1>6 DEF Sole
  <1>8. \A p \in Procs : Allocating(p)' => proc'[p].rule \notin DOMAIN table'
    BY <1>2, <1>6 DEF Sole
  <1>9. \A p \in Procs : proc'[p].at = "set" => proc'[p].port \notin Range(table)'
    BY <1>4, <1>5 DEF Sole, NoNewcomer
  <1> QED BY <1>3, <1>7, <1>8, <1>9 DEF Sole

LEMMA SoleStep == TypeInv /\ Sole /\ [Next]_vars => Sole'
  <1> SUFFICES ASSUME TypeInv, Sole, [Next]_vars PROVE Sole'
    OBVIOUS
  <1>a. /\ proc \in [Procs -> Proc] /\ table \in Tables
    BY DEF TypeInv, TypeOK
  <1>b. Handlers \subseteq Procs /\ Dials \subseteq Procs
    BY DEF Procs
  <1>c. {} \in SUBSET DOMAIN table
    OBVIOUS
  \* Requests that begin, and the steps of processes that are not allocating.
  <1>1. ASSUME NEW h \in Handlers, NEW at \in {"count", "free"}, NEW r \in 0 .. MaxRules, Begin(h, at, r)
        PROVE  Sole'
    <2>1. /\ proc'[h].at = at
          /\ \A x \in Procs : x # h => proc'[x].at = proc[x].at /\ proc'[x].rule = proc[x].rule
                                       /\ proc'[x].port = proc[x].port
          /\ table' = table /\ raced' = raced
      BY <1>1, BeginPut
    <2>2. NoNewcomer
      BY <2>1 DEF Allocating, NoNewcomer
    <2> QED BY <2>1, <2>2, <1>c, SoleKept
  <1>2. ASSUME NEW p \in Procs, NEW q \in Proc, proc' = [proc EXCEPT ![p] = q], q.at \notin {"choose", "set"},
               raced' = raced,
               NEW S \in SUBSET DOMAIN table, table' = table \/ table' = Restrict(table, S)
        PROVE  Sole'
    <2>1. \A x \in Procs : Allocating(x)' => Allocating(x) /\ proc'[x] = proc[x]
      BY <1>2, PutType DEF Put, Allocating
    <2> QED BY <1>2, <2>1, SoleKept DEF NoNewcomer
  <1>3. ASSUME NEW p \in Procs, NEW at \in Stages \ {"choose", "set"}, Goto(p, at), raced' = raced,
               NEW S \in SUBSET DOMAIN table, table' = table \/ table' = Restrict(table, S)
        PROVE  Sole'
    <2>1. \A x \in Procs : Allocating(x)' => Allocating(x) /\ proc'[x] = proc[x]
      BY <1>3, GotoPut DEF Allocating
    <2> QED BY <1>3, <2>1, SoleKept DEF NoNewcomer
  \* The allocation.
  <1>4. ASSUME NEW p \in Procs, Lookup(p) PROVE Sole'
    <2>1. proc[p].rule \in Rules
      BY <1>4 DEF Lookup, TypeInv, Grounded
    <2>2. CASE proc[p].rule \in DOMAIN table
      <3>1. table[proc[p].rule] \in Pool
        BY <2>2, <1>a, TableDef
      <3>2. proc' = Have(p, table[proc[p].rule]) /\ raced' = raced /\ table' = table
        BY <1>4, <2>2 DEF Lookup
      <3>3. \A x \in Procs : Allocating(x)' => Allocating(x) /\ proc'[x] = proc[x]
        BY <3>1, <3>2, <2>1, HavePut DEF Allocating
      <3> QED BY <3>2, <3>3, <1>c, SoleKept DEF NoNewcomer
    <2>3. CASE proc[p].rule \notin DOMAIN table
      <3>1. /\ Goto(p, "choose") /\ "choose" \in Stages /\ table' = table
            /\ raced' = (raced \/ \E q \in Procs \ {p} : Allocating(q))
        BY <1>4, <2>3 DEF Lookup, Stages
      <3>2. /\ \A x \in Procs : x # p => proc'[x] = proc[x]
            /\ proc'[p].at = "choose" /\ proc'[p].rule = proc[p].rule
        BY <3>1, GotoPut
      <3>3. SUFFICES ASSUME ~raced, \A q \in Procs \ {p} : ~Allocating(q) PROVE Sole'
        BY <3>1 DEF Sole
      <3>4. \A x \in Procs : Allocating(x)' => x = p
        BY <3>2, <3>3 DEF Allocating
      <3>5. \A x \in Procs : proc'[x].at # "set"
        BY <3>2, <3>3 DEF Allocating
      <3> QED BY <2>3, <3>1, <3>2, <3>3, <3>4, <3>5 DEF Sole, IsInjective
    <2> QED BY <2>2, <2>3
  <1>5. ASSUME NEW p \in Procs, Choose(p) PROVE Sole'
    <2>1. table' = table /\ raced' = raced /\ proc[p].at = "choose"
      BY <1>5 DEF Choose, history
    <2>2. CASE Goto(p, IF p \in Dials THEN "done" ELSE "loop")
      BY <2>1, <2>2, <1>3, <1>c DEF Stages
    <2>3. ASSUME NEW n \in Pool \ Range(table), proc' = [proc EXCEPT ![p].at = "set", ![p].port = n]
          PROVE  Sole'
      <3>1. /\ proc'[p].at = "set" /\ proc'[p].port = n /\ proc'[p].rule = proc[p].rule
            /\ \A x \in Procs : x # p => proc'[x] = proc[x]
        BY <2>3, <1>a DEF Proc
      <3>2. SUFFICES ASSUME ~raced PROVE Sole'
        BY <2>1 DEF Sole
      <3>3. \A x \in Procs : Allocating(x)' => Allocating(x) /\ proc'[x].rule = proc[x].rule
        BY <2>1, <3>1 DEF Allocating
      <3>4. \A x \in Procs : proc'[x].at = "set" => x = p
        BY <2>1, <3>1, <3>2 DEF Sole, Allocating
      <3>5. \A x, y \in Procs : Allocating(x)' /\ Allocating(y)' => x = y
        BY <3>2, <3>3 DEF Sole
      <3>6. \A x \in Procs : Allocating(x)' => proc'[x].rule \notin DOMAIN table'
        BY <2>1, <3>2, <3>3 DEF Sole
      <3>7. \A x \in Procs : proc'[x].at = "set" => proc'[x].port \notin Range(table)'
        BY <2>1, <2>3, <3>1, <3>4 DEF Range
      <3>8. IsInjective(table)'
        BY <2>1, <3>2 DEF Sole, IsInjective
      <3> QED BY <3>5, <3>6, <3>7, <3>8 DEF Sole
    <2> QED BY <1>5, <2>2, <2>3 DEF Choose, TakeLowest
  <1>6. ASSUME NEW p \in Procs, Set(p) PROVE Sole'
    <2>1. proc[p].rule \in Rules /\ proc[p].port \in Pool /\ raced' = raced /\ proc[p].at = "set"
      BY <1>6 DEF Set, TypeInv, Grounded
    <2>2. SUFFICES ASSUME ~raced PROVE Sole'
      BY <2>1 DEF Sole
    <2>3. /\ DOMAIN table' = DOMAIN table \cup {proc[p].rule}
          /\ \A x \in DOMAIN table' : table'[x] = IF x = proc[p].rule THEN proc[p].port ELSE table[x]
      <3>1. table' = With(table, proc[p].rule, proc[p].port)
        BY <1>6 DEF Set
      <3>2. DOMAIN With(table, proc[p].rule, proc[p].port) = DOMAIN table \cup {proc[p].rule}
        BY DEF With
      <3>3. \A x \in DOMAIN table \cup {proc[p].rule} :
                With(table, proc[p].rule, proc[p].port)[x] = IF x = proc[p].rule THEN proc[p].port ELSE table[x]
        BY DEF With
      <3> QED BY <3>1, <3>2, <3>3
    <2>4. IsInjective(table)'
      BY <2>1, <2>2, <2>3 DEF Sole, IsInjective, Range
    <2>5. \A x \in Procs : ~Allocating(x)'
      <3>1. /\ \A x \in Procs : x # p => proc'[x] = proc[x]
            /\ proc'[p].at \in {"connect", "loop"}
        BY <1>6, <2>1, HavePut DEF Set
      <3> QED BY <2>1, <2>2, <3>1 DEF Sole, Allocating
    <2> QED BY <2>4, <2>5 DEF Sole, Allocating
  \* The rest, one by one.
  <1>7. ASSUME NEW h \in Handlers, Add(h) \/ Refresh(h) \/ \E r \in listed : Delete(h, r) \/ Switch(h, r)
        PROVE  Sole'
    <2>1. \A r \in listed : r \in 0 .. MaxRules
      BY RulesMade, BoundsAssumption DEF Rules
    <2>2. 0 \in 0 .. MaxRules
      BY BoundsAssumption
    <2> QED BY <1>7, <2>1, <2>2, <1>1 DEF Add, Refresh, Delete, Switch
  <1>8. ASSUME NEW h \in Handlers, Free(h) \/ Prune(h) PROVE Sole'
    <2>1. CASE Free(h)
      BY <2>1, <1>3, <1>b DEF Free, Stages, history
    <2>2. CASE Prune(h)
      BY <2>2, <1>3, <1>b DEF Prune, Stages
    <2> QED BY <1>8, <2>1, <2>2
  <1>9. ASSUME NEW h \in Handlers, Count(h) \/ Stop(h) PROVE Sole'
    <2>1. CASE Count(h)
      <3>1. \A x \in Procs : Allocating(x)' => Allocating(x) /\ proc'[x] = proc[x]
        BY <2>1, <1>b, CountPut DEF Allocating
      <3> QED BY <2>1, <3>1, <1>c, SoleKept DEF NoNewcomer, Count, history
    <2>2. CASE Stop(h)
      BY <2>2, <1>3, <1>b, <1>c DEF Stop, Stages, history
    <2> QED BY <1>9, <2>1, <2>2
  <1>10. ASSUME NEW h \in Handlers, Gen(h) PROVE Sole'
    <2> DEFINE q == [proc[h] EXCEPT !.at = "loop", !.todo = listed, !.config = Nothing]
    <2>1. q \in Proc /\ q.at = "loop" /\ proc' = [proc EXCEPT ![h] = q]
      <3>1. proc[h] \in Proc /\ listed \subseteq Rules
        BY <1>a, <1>b, RulesMade
      <3>2. q \in Proc /\ q.at = "loop"
        BY <3>1, NothingIsTable DEF Proc, Stages
      <3> QED BY <1>10, <3>2 DEF Gen
    <2> HIDE DEF q
    <2> QED BY <1>10, <2>1, <1>2, <1>b, <1>c DEF Gen, history
  <1>11. ASSUME NEW h \in Handlers, Loop(h) PROVE Sole'
    <2>1. table' = table /\ raced' = raced
      BY <1>11 DEF Loop, history
    <2>2. \A x \in Procs : Allocating(x)' => Allocating(x) /\ proc'[x] = proc[x]
      <3>1. \A x \in Procs : x # h => proc'[x] = proc[x]
        BY <1>11, <1>a, <1>b DEF Loop, Goto
      <3>2. proc[h] \in Proc /\ h \in Procs
        BY <1>a, <1>b
      <3>3. proc'[h].at \in {"prune", "lookup", "loop"}
        <4>1. CASE Goto(h, "prune")
          BY <4>1, <1>a, <3>2 DEF Goto, Proc
        <4>2. ASSUME NEW r \in proc[h].todo,
                     proc' = [proc EXCEPT ![h].todo = @ \ {r}, ![h].rule = r,
                                          ![h].at = IF r \in enabled THEN "lookup" ELSE "loop"]
              PROVE  proc'[h].at \in {"lookup", "loop"}
          <5> DEFINE at == IF r \in enabled THEN "lookup" ELSE "loop"
                     q == [proc[h] EXCEPT !.todo = @ \ {r}, !.rule = r, !.at = at]
          <5>1. q.at \in {"lookup", "loop"}
            BY <3>2 DEF Proc
          <5>2. proc'[h] = q
            BY <4>2, <1>a, <3>2
          <5> QED BY <5>1, <5>2
        <4> QED BY <1>11, <4>1, <4>2 DEF Loop
      <3> QED BY <3>1, <3>3 DEF Allocating
    <2> QED BY <2>1, <2>2, <1>c, SoleKept DEF NoNewcomer
  <1>12. ASSUME NEW h \in Handlers, Start(h) PROVE Sole'
    <2> DEFINE q == [Idle EXCEPT !.at = "reload"]
    <2>1. q \in Proc /\ q.at = "reload"
      BY IdleType DEF Proc, Stages
    <2>2. proc' = [proc EXCEPT ![h] = q]
      BY <1>12 DEF Start
    <2> HIDE DEF q
    <2> QED BY <1>12, <2>1, <2>2, <1>2, <1>b, <1>c DEF Start, history
  <1>13. ASSUME NEW h \in Handlers, Reload(h) PROVE Sole'
    <2>1. Idle.at = "idle"
      BY DEF Idle
    <2> QED BY <1>13, <2>1, IdleType, <1>2, <1>b, <1>c DEF Reload, history
  <1>14. ASSUME NEW d \in Dials, Dial(d) \/ Connect(d) \/ \E r \in listening : Accept(d, r) PROVE Sole'
    <2>1. table' = table /\ raced' = raced
      BY <1>14 DEF Dial, Connect, Accept, history
    <2>2. \A x \in Procs : Allocating(x)' => Allocating(x) /\ proc'[x] = proc[x]
      <3>1. \A x \in Procs : x # d => proc'[x] = proc[x]
        BY <1>14, <1>a, <1>b DEF Dial, Connect, Accept
      <3>2. proc[d] \in Proc /\ d \in Procs
        BY <1>a, <1>b
      <3>3. CASE Dial(d)
        <4>1. proc'[d].at = "lookup"
          BY <3>3, <1>a, <3>2 DEF Dial, Proc
        <4> QED BY <3>1, <4>1 DEF Allocating
      <3>4. CASE Connect(d)
        <4>1. proc'[d].at = "done"
          BY <3>4, <1>a, <3>2 DEF Connect, Proc
        <4> QED BY <3>1, <4>1 DEF Allocating
      <3>5. CASE \E r \in listening : Accept(d, r)
        <4>1. proc'[d].at = "accepted"
          BY <3>5, <1>a, <3>2 DEF Accept, Idle
        <4> QED BY <3>1, <4>1 DEF Allocating
      <3> QED BY <1>14, <3>3, <3>4, <3>5
    <2> QED BY <2>1, <2>2, <1>c, SoleKept DEF NoNewcomer
  <1>15. CASE ReloadBeside \/ Die \/ UNCHANGED vars
    <2>1. UNCHANGED <<proc, table, raced>>
      BY <1>15 DEF ReloadBeside, Die, vars, history
    <2> QED BY <2>1 DEF Sole, Allocating, IsInjective, Range
  <1> QED
    BY <1>4, <1>5, <1>6, <1>7, <1>8, <1>9, <1>10, <1>11, <1>12, <1>13, <1>14, <1>15
       DEF Next, Request, Connection, Allocate

LEMMA SoleInit == Init => Sole
  <1> SUFFICES ASSUME Init PROVE Sole
    OBVIOUS
  <1>1. IsInjective(table)
    BY NothingIsTable DEF Init, IsInjective
  <1>2. \A p \in Procs : ~Allocating(p)
    BY DEF Init, Idle, Allocating
  <1> QED BY <1>1, <1>2 DEF Sole, Allocating

\* However many rules, requests and connections there are, no two rules have one
\* internal port, unless two allocations ran at the same time (realm.go 49-56).
THEOREM OnePort == Spec => []OneRulePerPort
  <1>1. Sole => OneRulePerPort
    BY DEF Sole, OneRulePerPort
  <1> QED BY <1>1, SoleInit, TypeInit, TypeStep, SoleStep, PTL DEF Spec

-----------------------------------------------------------------------------
(* What the steps do to the process that takes them, and to no other *)

Alone(p) == \A x \in Procs : x # p => proc'[x] = proc[x]
Keeps(p) == proc'[p].config = proc[p].config /\ proc'[p].rule = proc[p].rule /\ proc'[p].todo = proc[p].todo

LEMMA HandlerSteps ==
  ASSUME TypeInv, NEW h \in Handlers
  PROVE  /\ Free(h) => Alone(h) /\ proc[h].at = "free" /\ proc'[h].at = "count"
         /\ Count(h) => /\ Alone(h) /\ proc[h].at = "count"
                        /\ proc'[h].at = "stop" /\ proc'[h].counted = (active # {})
         /\ Stop(h) => /\ Alone(h) /\ proc[h].at = "stop"
                       /\ proc'[h].at = IF proc[h].counted THEN "gen" ELSE "reload"
         /\ Gen(h) => /\ Alone(h) /\ proc[h].at = "gen"
                      /\ proc'[h].at = "loop" /\ proc'[h].config = Nothing /\ proc'[h].todo = listed
         /\ Prune(h) => /\ Alone(h) /\ proc[h].at = "prune"
                        /\ proc'[h].at = "start" /\ proc'[h].config = proc[h].config
         /\ Start(h) => Alone(h) /\ proc[h].at = "start" /\ proc'[h].at = "reload"
         /\ Reload(h) => Alone(h) /\ proc[h].at = "reload" /\ proc'[h].at = "idle"
  <1>1. h \in Procs /\ proc \in [Procs -> Proc]
    BY DEF Procs, TypeInv, TypeOK
  <1>2. ASSUME Free(h) PROVE Alone(h) /\ proc[h].at = "free" /\ proc'[h].at = "count"
    BY <1>1, <1>2, GotoPut DEF Free, Alone, Stages
  <1>2a. ASSUME Count(h)
         PROVE  Alone(h) /\ proc[h].at = "count" /\ proc'[h].at = "stop" /\ proc'[h].counted = (active # {})
    BY <1>1, <1>2a, CountPut DEF Alone
  <1>3. ASSUME Stop(h)
        PROVE  Alone(h) /\ proc[h].at = "stop" /\ proc'[h].at = IF proc[h].counted THEN "gen" ELSE "reload"
    <2> DEFINE at == IF proc[h].counted THEN "gen" ELSE "reload"
    <2>1. Goto(h, at) /\ at \in Stages /\ proc[h].at = "stop"
      BY <1>3 DEF Stop, Stages
    <2> HIDE DEF at
    <2>2. Alone(h) /\ proc'[h].at = at
      BY <1>1, <2>1, GotoPut DEF Alone
    <2> QED BY <2>1, <2>2 DEF at
  <1>4. ASSUME Gen(h)
        PROVE  /\ Alone(h) /\ proc[h].at = "gen" /\ proc'[h].at = "loop" /\ proc'[h].config = Nothing
               /\ proc'[h].todo = listed
    <2> DEFINE q == [proc[h] EXCEPT !.at = "loop", !.todo = listed, !.config = Nothing]
    <2>1. q.at = "loop" /\ q.config = Nothing /\ q.todo = listed
      BY <1>1 DEF Proc
    <2>2. proc' = [proc EXCEPT ![h] = q] /\ proc[h].at = "gen"
      BY <1>4 DEF Gen
    <2> HIDE DEF q
    <2> QED BY <1>1, <2>1, <2>2 DEF Alone
  <1>5. ASSUME Prune(h)
        PROVE  Alone(h) /\ proc[h].at = "prune" /\ proc'[h].at = "start" /\ proc'[h].config = proc[h].config
    BY <1>1, <1>5, GotoPut DEF Prune, Alone, Stages
  <1>6. ASSUME Start(h) PROVE Alone(h) /\ proc[h].at = "start" /\ proc'[h].at = "reload"
    BY <1>1, <1>6 DEF Start, Alone, Idle
  <1>7. ASSUME Reload(h) PROVE Alone(h) /\ proc[h].at = "reload" /\ proc'[h].at = "idle"
    BY <1>1, <1>7 DEF Reload, Alone, Idle
  <1> QED BY <1>2, <1>2a, <1>3, <1>4, <1>5, <1>6, <1>7

LEMMA LoopSteps ==
  ASSUME TypeInv, NEW h \in Handlers, Loop(h)
  PROVE  /\ Alone(h) /\ proc[h].at = "loop" /\ proc'[h].config = proc[h].config
         /\ \/ proc'[h].at = "prune"
            \/ proc'[h].at = "loop" /\ proc'[h].todo \subseteq proc[h].todo
            \/ /\ proc'[h].at = "lookup" /\ proc'[h].rule \in proc[h].todo \cap enabled
               /\ proc'[h].todo \subseteq proc[h].todo
  <1>1. h \in Procs /\ proc \in [Procs -> Proc] /\ proc[h] \in Proc
    BY DEF Procs, TypeInv, TypeOK
  <1>2. CASE Goto(h, "prune")
    BY <1>1, <1>2, GotoPut DEF Loop, Alone, Stages
  <1>3. ASSUME NEW r \in proc[h].todo,
               proc' = [proc EXCEPT ![h].todo = @ \ {r}, ![h].rule = r,
                                    ![h].at = IF r \in enabled THEN "lookup" ELSE "loop"]
        PROVE  /\ Alone(h) /\ proc'[h].config = proc[h].config /\ proc'[h].todo \subseteq proc[h].todo
               /\ \/ proc'[h].at = "loop"
                  \/ proc'[h].at = "lookup" /\ proc'[h].rule \in proc[h].todo \cap enabled
    <2> DEFINE at == IF r \in enabled THEN "lookup" ELSE "loop"
               q == [proc[h] EXCEPT !.todo = @ \ {r}, !.rule = r, !.at = at]
    <2>1. q.config = proc[h].config /\ q.rule = r /\ q.at = at /\ q.todo \subseteq proc[h].todo
      BY <1>1 DEF Proc
    <2>2. proc' = [proc EXCEPT ![h] = q]
      BY <1>3, <1>1
    <2>3. at = "loop" \/ (at = "lookup" /\ r \in enabled)
      <3>1. CASE r \in enabled
        BY <3>1
      <3>2. CASE r \notin enabled
        BY <3>2
      <3> QED BY <3>1, <3>2
    <2> HIDE DEF q, at
    <2> QED BY <1>1, <1>3, <2>1, <2>2, <2>3 DEF Alone
  <1> QED BY <1>2, <1>3 DEF Loop

LEMMA DialSteps ==
  ASSUME TypeInv, NEW d \in Dials
  PROVE  /\ Dial(d) => /\ Alone(d) /\ proc[d].at = "accepted" /\ proc'[d].at = "lookup"
                       /\ proc'[d].overtaken = ~AtRest /\ proc'[d].got = proc[d].got
         /\ \A r \in listening : Accept(d, r) =>
                Alone(d) /\ proc[d].at = "idle" /\ proc'[d].at = "accepted" /\ proc'[d].got = None
         /\ Connect(d) => /\ Alone(d) /\ proc[d].at = "connect" /\ proc'[d].at = "done"
                          /\ proc'[d].rule = proc[d].rule /\ proc'[d].overtaken = proc[d].overtaken
                          /\ \/ proc'[d].got = None
                             \/ /\ proc'[d].got \in DOMAIN running
                                /\ running[proc'[d].got] = proc[d].port
                             \/ <<proc'[d].got, proc[d].port>> \in orphans
  <1>1. d \in Procs /\ proc \in [Procs -> Proc] /\ proc[d] \in Proc
    BY DEF Procs, TypeInv, TypeOK
  <1>2. ASSUME Dial(d)
        PROVE  /\ Alone(d) /\ proc[d].at = "accepted" /\ proc'[d].at = "lookup"
               /\ proc'[d].overtaken = ~AtRest /\ proc'[d].got = proc[d].got
    <2> DEFINE o == ~AtRest
               q == [proc[d] EXCEPT !.at = "lookup", !.overtaken = o]
    <2> HIDE DEF o
    <2>1. q.at = "lookup" /\ q.overtaken = o /\ q.got = proc[d].got
      BY <1>1 DEF Proc
    <2>2. proc' = [proc EXCEPT ![d] = q] /\ proc[d].at = "accepted"
      BY <1>2 DEF Dial, o
    <2> HIDE DEF q
    <2>3. Alone(d) /\ proc'[d] = q
      BY <1>1, <2>2 DEF Alone
    <2> QED BY <2>1, <2>2, <2>3 DEF o
  <1>3. ASSUME NEW r \in listening, Accept(d, r)
        PROVE  Alone(d) /\ proc[d].at = "idle" /\ proc'[d].at = "accepted" /\ proc'[d].got = None
    BY <1>1, <1>3 DEF Accept, Alone, Idle
  <1>4. ASSUME Connect(d)
        PROVE  /\ Alone(d) /\ proc[d].at = "connect" /\ proc'[d].at = "done"
               /\ proc'[d].rule = proc[d].rule /\ proc'[d].overtaken = proc[d].overtaken
               /\ \/ proc'[d].got = None
                  \/ proc'[d].got \in DOMAIN running /\ running[proc'[d].got] = proc[d].port
                  \/ <<proc'[d].got, proc[d].port>> \in orphans
    <2> DEFINE own == {r \in DOMAIN running : running[r] = proc[d].port}
               left == {r \in Rules : <<r, proc[d].port>> \in orphans}
    <2>1. PICK got \in own \cup left \cup (IF own = {} THEN {None} ELSE {}) :
            proc' = [proc EXCEPT ![d].at = "done", ![d].port = None, ![d].got = got]
      BY <1>4 DEF Connect
    <2>2. \/ got = None
          \/ got \in DOMAIN running /\ running[got] = proc[d].port
          \/ <<got, proc[d].port>> \in orphans
      OBVIOUS
    <2> DEFINE q == [proc[d] EXCEPT !.at = "done", !.port = None, !.got = got]
    <2>3. q.at = "done" /\ q.rule = proc[d].rule /\ q.overtaken = proc[d].overtaken /\ q.got = got
      BY <1>1 DEF Proc
    <2>4. proc' = [proc EXCEPT ![d] = q] /\ proc[d].at = "connect"
      BY <1>4, <2>1 DEF Connect
    <2> HIDE DEF q, own, left
    <2>5. Alone(d) /\ proc'[d] = q
      BY <1>1, <2>4 DEF Alone
    <2> QED BY <2>2, <2>3, <2>4, <2>5
  <1> QED BY <1>2, <1>3, <1>4

\* The port is known, by Lookup or by Set.
LEMMA HaveSteps ==
  ASSUME TypeInv, NEW p \in Procs, proc[p].rule \in Rules, NEW n \in Pool, proc' = Have(p, n)
  PROVE  /\ Alone(p)
         /\ p \in Dials => /\ proc'[p].at = "connect" /\ proc'[p].port = n /\ proc'[p].rule = proc[p].rule
                           /\ proc'[p].overtaken = proc[p].overtaken /\ proc'[p].got = proc[p].got
         /\ p \in Handlers => /\ proc'[p].at = "loop" /\ proc'[p].todo = proc[p].todo
                              /\ DOMAIN proc'[p].config = DOMAIN proc[p].config \cup {proc[p].rule}
                              /\ \A x \in DOMAIN proc'[p].config :
                                    proc'[p].config[x] = IF x = proc[p].rule THEN n ELSE proc[p].config[x]
  <1>1. /\ Alone(p)
        /\ p \in Dials => /\ proc'[p].at = "connect" /\ proc'[p].port = n /\ proc'[p].rule = proc[p].rule
                           /\ proc'[p].overtaken = proc[p].overtaken /\ proc'[p].got = proc[p].got
        /\ p \in Handlers => /\ proc'[p].at = "loop" /\ proc'[p].todo = proc[p].todo
                              /\ proc'[p].config = With(proc[p].config, proc[p].rule, n)
    BY HavePut, HandlersAssumption DEF Alone
  <1> QED BY <1>1 DEF With

LEMMA ChooseSteps ==
  ASSUME TypeInv, NEW p \in Procs, Choose(p)
  PROVE  /\ Alone(p) /\ proc[p].at = "choose" /\ Keeps(p)
         /\ proc'[p].overtaken = proc[p].overtaken /\ proc'[p].got = proc[p].got
         /\ proc'[p].at \in {"set", "done", "loop"}
  <1>1. proc \in [Procs -> Proc] /\ proc[p] \in Proc
    BY DEF TypeInv, TypeOK
  <1>2. CASE Goto(p, IF p \in Dials THEN "done" ELSE "loop")
    <2> DEFINE at == IF p \in Dials THEN "done" ELSE "loop"
    <2>1. Goto(p, at) /\ at \in Stages /\ at \in {"set", "done", "loop"} /\ proc[p].at = "choose"
      BY <1>2 DEF Choose, Stages
    <2> HIDE DEF at
    <2> QED BY <2>1, GotoPut DEF Alone, Keeps
  <1>3. ASSUME NEW n \in Pool, proc' = [proc EXCEPT ![p].at = "set", ![p].port = n]
        PROVE  /\ Alone(p) /\ Keeps(p) /\ proc'[p].overtaken = proc[p].overtaken
               /\ proc'[p].got = proc[p].got /\ proc'[p].at = "set"
    BY <1>1, <1>3 DEF Alone, Keeps, Proc
  <1> QED BY <1>2, <1>3 DEF Choose, TakeLowest

LEMMA LookupSteps ==
  ASSUME TypeInv, NEW p \in Procs, Lookup(p)
  PROVE  /\ Alone(p) /\ proc[p].at = "lookup" /\ proc'[p].rule = proc[p].rule
         /\ proc'[p].overtaken = proc[p].overtaken /\ proc'[p].got = proc[p].got
         /\ proc'[p].todo = proc[p].todo
         /\ \/ proc'[p].at = "choose" /\ proc'[p].config = proc[p].config
            \/ /\ proc[p].rule \in DOMAIN table
               /\ proc' = Have(p, table[proc[p].rule])
  <1>1. proc[p].at = "lookup" /\ proc[p].rule \in Rules
    BY DEF Lookup, TypeInv, Grounded
  <1>2. CASE proc[p].rule \in DOMAIN table
    <2>1. table[proc[p].rule] \in Pool
      BY <1>2, TableDef DEF TypeInv, TypeOK
    <2>2. proc' = Have(p, table[proc[p].rule])
      BY <1>2 DEF Lookup
    <2> QED BY <1>1, <1>2, <2>1, <2>2, HavePut DEF Alone
  <1>3. CASE proc[p].rule \notin DOMAIN table
    <2>1. Goto(p, "choose") /\ "choose" \in Stages
      BY <1>3 DEF Lookup, Stages
    <2> QED BY <1>1, <2>1, GotoPut DEF Alone
  <1> QED BY <1>2, <1>3

-----------------------------------------------------------------------------
(* Requests that do not overlap, and dials that none overtakes *)

OneRequest == crowded \/ \A g, h \in Handlers : proc[g].at # "idle" /\ proc[h].at # "idle" => g = h
Undisturbed == \A d \in Dials : Dialling(d) /\ ~proc[d].overtaken => AtRest
Calm == OneRequest /\ Undisturbed

\* A step of a handler in the middle of a request, or of a connection.
LEMMA CalmKept ==
  ASSUME TypeInv, Calm, NEW p \in Procs, Alone(p), crowded' = crowded,
         p \in Handlers => proc[p].at # "idle",
         p \in Dials /\ Dialling(p)' =>
            \/ Dialling(p) /\ proc'[p].overtaken = proc[p].overtaken
            \/ proc'[p].overtaken = ~AtRest
  PROVE  Calm'
  <1>1. \A h \in Handlers : h \in Procs /\ h \notin Dials
    BY HandlersAssumption DEF Procs
  <1>2. \A d \in Dials : d \in Procs
    BY DEF Procs
  <1>3. OneRequest'
    <2>1. \A h \in Handlers : proc'[h].at # "idle" => proc[h].at # "idle"
      BY <1>1 DEF Alone
    <2> QED BY <2>1 DEF Calm, OneRequest
  <1>4. ASSUME NEW d \in Dials, Dialling(d)', ~proc'[d].overtaken PROVE AtRest'
    <2>1. AtRest
      <3>1. CASE d = p
        BY <1>4, <3>1 DEF Calm, Undisturbed
      <3>2. CASE d # p
        <4>1. proc'[d] = proc[d]
          BY <1>2, <3>2 DEF Alone
        <4> QED BY <1>4, <4>1 DEF Calm, Undisturbed, Dialling
      <3> QED BY <3>1, <3>2
    <2>2. p \notin Handlers
      BY <2>1 DEF AtRest
    <2> QED BY <1>1, <2>1, <2>2 DEF AtRest, Alone
  <1> QED BY <1>3, <1>4 DEF Calm, Undisturbed

\* A request that begins: if it is alone, all handlers were at rest.
LEMMA CalmBegins ==
  ASSUME TypeInv, Calm, NEW h \in Handlers, NEW at \in {"count", "free"}, NEW r \in 0 .. MaxRules, Begin(h, at, r)
  PROVE  /\ Calm'
         /\ ~crowded' => ~crowded /\ AtRest
  <1>1. /\ proc[h].at = "idle" /\ proc'[h].at = at
        /\ \A x \in Procs : x # h =>
              /\ proc'[x].at = proc[x].at
              /\ proc'[x].overtaken = (Dialling(x) \/ proc[x].overtaken)
        /\ crowded' = (crowded \/ ~AtRest)
    BY BeginPut
  <1>2. OneRequest'
    BY <1>1 DEF OneRequest, AtRest, Procs
  <1>3. Undisturbed'
    <2> SUFFICES ASSUME NEW d \in Dials, Dialling(d)', ~proc'[d].overtaken PROVE FALSE
      BY DEF Undisturbed
    <2>1. d \in Procs /\ d # h
      BY HandlersAssumption DEF Procs
    <2>2. Dialling(d)
      BY <1>1, <2>1 DEF Dialling
    <2> QED BY <1>1, <2>1, <2>2
  <1> QED BY <1>1, <1>2, <1>3 DEF Calm

\* Every request that begins is of this form.
LEMMA Begins ==
  ASSUME TypeInv, NEW h \in Handlers, Add(h) \/ Refresh(h) \/ \E r \in listed : Delete(h, r) \/ Switch(h, r)
  PROVE  \E at \in {"count", "free"}, r \in 0 .. MaxRules : Begin(h, at, r)
  <1>1. \A r \in listed : r \in 0 .. MaxRules
    BY RulesMade, BoundsAssumption DEF Rules
  <1>2. 0 \in 0 .. MaxRules
    BY BoundsAssumption
  <1> QED BY <1>1, <1>2 DEF Add, Refresh, Delete, Switch

LEMMA CalmStep == TypeInv /\ Calm /\ [Next]_vars => Calm'
  <1> SUFFICES ASSUME TypeInv, Calm, [Next]_vars PROVE Calm'
    OBVIOUS
  <1>a. \A h \in Handlers : h \in Procs /\ h \notin Dials
    BY HandlersAssumption DEF Procs
  <1>b. \A d \in Dials : d \in Procs /\ d \notin Handlers
    BY HandlersAssumption DEF Procs
  <1>1. ASSUME NEW h \in Handlers, Add(h) \/ Refresh(h) \/ \E r \in listed : Delete(h, r) \/ Switch(h, r)
        PROVE  Calm'
    BY <1>1, Begins, CalmBegins
  <1>2. ASSUME NEW h \in Handlers, Free(h) \/ Count(h) \/ Stop(h) \/ Gen(h) \/ Prune(h) \/ Start(h) \/ Reload(h)
        PROVE  Calm'
    <2>1. Alone(h) /\ proc[h].at # "idle"
      BY <1>2, HandlerSteps
    <2>2. crowded' = crowded
      BY <1>2 DEF Free, Count, Stop, Gen, Prune, Start, Reload, history
    <2> QED BY <1>a, <2>1, <2>2, CalmKept
  <1>3. ASSUME NEW h \in Handlers, Loop(h) PROVE Calm'
    <2>1. Alone(h) /\ proc[h].at # "idle"
      BY <1>3, LoopSteps
    <2>2. crowded' = crowded
      BY <1>3 DEF Loop, history
    <2> QED BY <1>a, <2>1, <2>2, CalmKept
  <1>4. ASSUME NEW d \in Dials, Dial(d) \/ Connect(d) \/ \E r \in listening : Accept(d, r) PROVE Calm'
    <2>1. crowded' = crowded
      BY <1>4 DEF Dial, Connect, Accept, history
    <2>2. Alone(d)
      BY <1>4, DialSteps
    <2>3. Dialling(d)' => proc'[d].overtaken = ~AtRest
      BY <1>4, DialSteps DEF Dialling
    <2> QED BY <1>b, <2>1, <2>2, <2>3, CalmKept
  <1>5. ASSUME NEW p \in Procs, Lookup(p) \/ Choose(p) \/ Set(p) PROVE Calm'
    <2>1. crowded' = crowded
      BY <1>5 DEF Lookup, Choose, Set, history
    <2>2. /\ Alone(p) /\ proc[p].at \in {"lookup", "choose", "set"}
          /\ proc'[p].overtaken = proc[p].overtaken
      <3>1. CASE Lookup(p)
        BY <3>1, LookupSteps
      <3>2. CASE Choose(p)
        BY <3>2, ChooseSteps
      <3>3. CASE Set(p)
        <4>1. /\ proc[p].at = "set" /\ proc' = Have(p, proc[p].port)
              /\ proc[p].rule \in Rules /\ proc[p].port \in Pool
          BY <3>3 DEF Set, TypeInv, Grounded
        <4> QED BY <4>1, HavePut DEF Alone
      <3> QED BY <1>5, <3>1, <3>2, <3>3
    <2>3. p \in Dials => Dialling(p)
      BY <2>2 DEF Dialling
    <2> QED BY <2>1, <2>2, <2>3, CalmKept
  <1>6. CASE ReloadBeside \/ Die \/ UNCHANGED vars
    <2>1. UNCHANGED <<proc, crowded>>
      BY <1>6 DEF ReloadBeside, Die, vars, history
    <2> QED BY <2>1 DEF Calm, OneRequest, Undisturbed, Dialling, AtRest
  <1> QED BY <1>1, <1>2, <1>3, <1>4, <1>5, <1>6 DEF Next, Request, Connection, Allocate

LEMMA CalmInit == Init => Calm
  <1> SUFFICES ASSUME Init PROVE Calm
    OBVIOUS
  <1>1. \A p \in Procs : proc[p].at = "idle"
    BY DEF Init, Idle
  <1> QED BY <1>1 DEF Calm, OneRequest, Undisturbed, Dialling, Procs

-----------------------------------------------------------------------------
(* The realm that is started last, and those that were left running *)

\* Between the stop and the start of a request that none overlaps realm serves
\* nothing, and without an overlap a realm is left running only after a death.
Building == {"loop", "lookup", "choose", "set", "prune", "start"}
Working == Building \cup {"gen"}
Ended == crowded \/ \A h \in Handlers : proc[h].at \in Working => running = Nothing
Left == crowded \/ died \/ orphans = {}

\* A step of p that starts no realm.
LEMMA EndedKept ==
  ASSUME TypeInv, Ended, NEW p \in Procs, Alone(p), crowded' = crowded,
         running' \in {running, Nothing},
         p \in Handlers /\ proc'[p].at \in Working => proc[p].at \in Working \/ running' = Nothing
  PROVE  Ended'
  <1> SUFFICES ASSUME ~crowded, NEW h \in Handlers, proc'[h].at \in Working, running' # Nothing PROVE FALSE
    BY DEF Ended
  <1>1. h \in Procs /\ running' = running
    BY DEF Procs
  <1>2. proc[h].at \in Working
    BY <1>1 DEF Alone
  <1> QED BY <1>1, <1>2 DEF Ended

LEMMA EndedStep == TypeInv /\ Calm /\ Ended /\ [Next]_vars => Ended'
  <1> SUFFICES ASSUME TypeInv, Calm, Ended, [Next]_vars PROVE Ended'
    OBVIOUS
  <1>a. \A h \in Handlers : h \in Procs /\ h \notin Dials
    BY HandlersAssumption DEF Procs
  <1>b. \A d \in Dials : d \in Procs /\ d \notin Handlers
    BY HandlersAssumption DEF Procs
  <1>1. ASSUME NEW h \in Handlers, Add(h) \/ Refresh(h) \/ \E r \in listed : Delete(h, r) \/ Switch(h, r)
        PROVE  Ended'
    <2>1. PICK at \in {"count", "free"}, r \in 0 .. MaxRules : Begin(h, at, r)
      BY <1>1, Begins
    <2>2. ~crowded' => ~crowded /\ AtRest
      BY <2>1, CalmBegins
    <2>3. proc'[h].at = at /\ \A x \in Procs : x # h => proc'[x].at = proc[x].at
      BY <2>1, BeginPut
    <2>4. ~crowded' => \A g \in Handlers : proc'[g].at \in {"idle", "count", "free"}
      BY <1>a, <2>2, <2>3 DEF AtRest
    <2> QED BY <2>4 DEF Ended, Working, Building
  <1>2. ASSUME NEW h \in Handlers, Free(h) \/ Count(h) \/ Stop(h) \/ Gen(h) \/ Prune(h) \/ Reload(h)
        PROVE  Ended'
    <2>1. Alone(h) /\ (proc'[h].at \in Working => proc[h].at \in Working \/ Stop(h))
      BY <1>2, HandlerSteps DEF Working, Building
    <2>2. crowded' = crowded /\ running' \in {running, Nothing} /\ (Stop(h) => running' = Nothing)
      BY <1>2 DEF Free, Count, Stop, Gen, Prune, Reload, realm, history
    <2> QED BY <1>a, <2>1, <2>2, EndedKept
  <1>3. ASSUME NEW h \in Handlers, Loop(h) PROVE Ended'
    <2>1. Alone(h) /\ proc[h].at \in Working
      BY <1>3, LoopSteps DEF Working, Building
    <2>2. crowded' = crowded /\ running' = running
      BY <1>3 DEF Loop, realm, history
    <2> QED BY <1>a, <2>1, <2>2, EndedKept
  <1>4. ASSUME NEW h \in Handlers, Start(h) PROVE Ended'
    <2>1. Alone(h) /\ proc[h].at = "start" /\ proc'[h].at = "reload" /\ crowded' = crowded
      BY <1>4, HandlerSteps DEF Start, history
    <2>2. ~crowded => \A g \in Handlers : g # h => proc[g].at = "idle"
      BY <2>1 DEF Calm, OneRequest
    <2>3. ~crowded => \A g \in Handlers : proc'[g].at \in {"idle", "reload"}
      BY <1>a, <2>1, <2>2 DEF Alone
    <2> QED BY <2>1, <2>3 DEF Ended, Working, Building
  <1>5. ASSUME NEW d \in Dials, Dial(d) \/ Connect(d) \/ \E r \in listening : Accept(d, r) PROVE Ended'
    <2>1. Alone(d)
      BY <1>5, DialSteps
    <2>2. crowded' = crowded /\ running' = running
      BY <1>5 DEF Dial, Connect, Accept, realm, history
    <2> QED BY <1>b, <2>1, <2>2, EndedKept
  <1>6. ASSUME NEW p \in Procs, Lookup(p) \/ Choose(p) \/ Set(p) PROVE Ended'
    <2>1. crowded' = crowded /\ running' = running
      BY <1>6 DEF Lookup, Choose, Set, realm, history
    <2>2. Alone(p) /\ proc[p].at \in Working
      <3>1. CASE Lookup(p)
        BY <3>1, LookupSteps DEF Working, Building
      <3>2. CASE Choose(p)
        BY <3>2, ChooseSteps DEF Working, Building
      <3>3. CASE Set(p)
        <4>1. /\ proc[p].at = "set" /\ proc' = Have(p, proc[p].port)
              /\ proc[p].rule \in Rules /\ proc[p].port \in Pool
          BY <3>3 DEF Set, TypeInv, Grounded
        <4> QED BY <4>1, HavePut DEF Alone, Working, Building
      <3> QED BY <1>6, <3>1, <3>2, <3>3
    <2> QED BY <2>1, <2>2, EndedKept
  <1>7. CASE ReloadBeside \/ Die \/ UNCHANGED vars
    <2>1. UNCHANGED <<proc, crowded>> /\ running' \in {running, Nothing}
      BY <1>7 DEF ReloadBeside, Die, vars, realm, history
    <2> QED BY <2>1 DEF Ended
  <1> QED BY <1>1, <1>2, <1>3, <1>4, <1>5, <1>6, <1>7 DEF Next, Request, Connection, Allocate

\* What an orphan may serve is not forgotten, nor that realm has died.
Lasting == orphans \subseteq orphans' /\ (died => died')

LEMMA Lasts == TypeInv /\ Ended /\ Left /\ [Next]_vars => Lasting /\ Left'
  <1> SUFFICES ASSUME TypeInv, Ended, Left, [Next]_vars PROVE Lasting /\ Left'
    OBVIOUS
  <1>1. CASE UNCHANGED <<orphans, died>> /\ (crowded => crowded')
    BY <1>1 DEF Lasting, Left
  <1>2. CASE died' = TRUE /\ UNCHANGED orphans
    BY <1>2 DEF Lasting, Left
  <1>3. ASSUME NEW h \in Handlers, Stop(h) PROVE Lasting /\ Left'
    BY <1>3 DEF Stop, history, Lasting, Left
  <1>4. ASSUME NEW h \in Handlers, Start(h) PROVE Lasting /\ Left'
    <2>1. crowded \/ running = Nothing
      BY <1>4 DEF Start, Ended, Working, Building
    <2>2. Pairs(Nothing) = {}
      BY NothingIsTable DEF Pairs
    <2> QED BY <1>4, <2>1, <2>2 DEF Start, history, Lasting, Left
  <1>5. ASSUME NEW h \in Handlers, Add(h) \/ Refresh(h) \/ \E r \in listed : Delete(h, r) \/ Switch(h, r)
        PROVE  UNCHANGED <<orphans, died>> /\ (crowded => crowded')
    <2>1. PICK at \in {"count", "free"}, r \in 0 .. MaxRules : Begin(h, at, r)
      BY <1>5, Begins
    <2> QED BY <2>1, BeginPut
  <1>6. ASSUME NEW h \in Handlers, Free(h) \/ Count(h) \/ Gen(h) \/ Loop(h) \/ Prune(h) \/ Reload(h)
        PROVE  UNCHANGED <<orphans, died>> /\ (crowded => crowded')
    <2>1. CASE Free(h) \/ Count(h) \/ Gen(h)
      BY <2>1 DEF Free, Count, Gen, realm, history
    <2>2. CASE Loop(h)
      BY <2>2 DEF Loop, realm, history
    <2>3. CASE Prune(h)
      BY <2>3 DEF Prune, realm
    <2>4. CASE Reload(h)
      BY <2>4 DEF Reload, realm, history
    <2> QED BY <1>6, <2>1, <2>2, <2>3, <2>4
  <1>7. ASSUME NEW d \in Dials, Connection(d) PROVE UNCHANGED <<orphans, died>> /\ (crowded => crowded')
    <2>1. UNCHANGED <<realm, history>>
      BY <1>7 DEF Connection, Dial, Connect, Accept
    <2> QED BY <2>1 DEF realm, history
  <1>8. ASSUME NEW p \in Procs, Allocate(p) PROVE UNCHANGED <<orphans, died>> /\ (crowded => crowded')
    BY <1>8 DEF Allocate, Lookup, Choose, Set, realm, history
  <1>9. CASE Die
    BY <1>9, <1>2 DEF Die
  <1>10. CASE ReloadBeside \/ UNCHANGED vars
    BY <1>10, <1>1 DEF ReloadBeside, vars, realm, history
  <1> QED BY <1>1, <1>3, <1>4, <1>5, <1>6, <1>7, <1>8, <1>9, <1>10 DEF Next, Request

LEMMA EndedInit == Init => Ended /\ Left
BY DEF Init, Ended, Left

-----------------------------------------------------------------------------
(* The table agrees with what realm serves *)

Matched(t) == \A r \in DOMAIN t : r \in DOMAIN table /\ table[r] = t[r]

\* The configuration that is being made agrees with the table; so does what realm
\* serves, from the start of realm to the next request; and a connection has in
\* hand what the table has for its rule.
Built(h) == proc[h].at \in Building => Matched(proc[h].config)
Served == (\A h \in Handlers : proc[h].at \in {"idle", "reload"}) => Matched(running)
Reached(d) ==
    \/ proc[d].got \in {proc[d].rule, None}
    \/ died /\ \E n \in Pool : <<proc[d].got, n>> \in orphans
Arriving(d) ==
    /\ proc[d].at = "connect" /\ ~proc[d].overtaken =>
          proc[d].rule \in DOMAIN table /\ table[proc[d].rule] = proc[d].port
    /\ proc[d].at = "done" /\ ~proc[d].overtaken => Reached(d)
    /\ proc[d].at # "done" => proc[d].got = None
Agree == raced \/ crowded \/
    ((\A h \in Handlers : Built(h)) /\ Served /\ (\A d \in Dials : Arriving(d)))

Grows == \A r \in DOMAIN table : r \in DOMAIN table' /\ table'[r] = table[r]

\* A step of p that takes nothing from the table.
LEMMA AgreeKept ==
  ASSUME TypeInv, Agree, Lasting, NEW p \in Procs, Alone(p), Grows,
         raced' \/ crowded' \/ (~raced /\ ~crowded),
         ~raced' /\ ~crowded' /\ p \in Handlers => Built(p)',
         ~raced' /\ ~crowded' /\ p \in Dials => Arriving(p)',
         running' \in {running, Nothing} \/ (p \in Handlers /\ Matched(running)'),
         p \in Handlers /\ proc'[p].at \in {"idle", "reload"} =>
            proc[p].at \in {"idle", "reload"} \/ Matched(running)'
  PROVE  Agree'
  <1> SUFFICES ASSUME ~raced', ~crowded'
               PROVE  (\A h \in Handlers : Built(h)') /\ Served' /\ (\A d \in Dials : Arriving(d)')
    BY DEF Agree
  <1>1. (\A h \in Handlers : Built(h)) /\ Served /\ (\A d \in Dials : Arriving(d))
    BY DEF Agree
  <1>2. \A h \in Handlers : h \in Procs /\ h \notin Dials
    BY HandlersAssumption DEF Procs
  <1>3. \A d \in Dials : d \in Procs
    BY DEF Procs
  <1>4. ASSUME NEW h \in Handlers PROVE Built(h)'
    <2>1. CASE h = p
      BY <2>1
    <2>2. CASE h # p
      <3>1. proc'[h] = proc[h] /\ Built(h)
        BY <1>1, <1>2, <2>2 DEF Alone
      <3> QED BY <3>1 DEF Built, Matched, Grows
    <2> QED BY <2>1, <2>2
  <1>5. ASSUME NEW d \in Dials PROVE Arriving(d)'
    <2>1. CASE d = p
      BY <2>1
    <2>2. CASE d # p
      <3>1. proc'[d] = proc[d] /\ Arriving(d)
        BY <1>1, <1>3, <2>2 DEF Alone
      <3> QED BY <3>1 DEF Arriving, Reached, Grows, Lasting
    <2> QED BY <2>1, <2>2
  <1>6. Served'
    <2> SUFFICES ASSUME \A h \in Handlers : proc'[h].at \in {"idle", "reload"} PROVE Matched(running)'
      BY DEF Served
    <2>1. CASE Matched(running)'
      BY <2>1
    <2>2. CASE ~Matched(running)' /\ running' \in {running, Nothing}
      <3>1. \A h \in Handlers : proc[h].at \in {"idle", "reload"}
        BY <1>2, <2>2 DEF Alone
      <3>2. Matched(running)
        BY <1>1, <3>1 DEF Served
      <3> QED BY <2>2, <3>2, NothingIsTable DEF Matched, Grows
    <2> QED BY <2>1, <2>2
  <1> QED BY <1>4, <1>5, <1>6

\* A step that takes from the table what is not in the configuration: there is no
\* other request, and no connection that this could overtake unnoticed.
LEMMA AgreeShrinks ==
  ASSUME TypeInv, Agree, Lasting, Calm, NEW h \in Handlers, Alone(h), proc[h].at # "idle",
         raced' = raced, crowded' = crowded,
         proc'[h].at \notin {"idle", "reload"},
         proc'[h].at \in Building => Built(h)'
  PROVE  Agree'
  <1> SUFFICES ASSUME ~raced, ~crowded
               PROVE  (\A g \in Handlers : Built(g)') /\ Served' /\ (\A d \in Dials : Arriving(d)')
    BY DEF Agree
  <1>1. \A g \in Handlers : g \in Procs /\ g \notin Dials
    BY HandlersAssumption DEF Procs
  <1>2. ASSUME NEW g \in Handlers, g # h PROVE Built(g)'
    <2>1. proc[g].at = "idle" /\ proc'[g] = proc[g]
      BY <1>1, <1>2 DEF Calm, OneRequest, Alone
    <2> QED BY <2>1 DEF Built, Building
  <1>3. Built(h)'
    BY DEF Built
  <1>4. Served'
    BY DEF Served
  <1>5. ASSUME NEW d \in Dials PROVE Arriving(d)'
    <2>1. d \in Procs /\ d # h
      BY HandlersAssumption, <1>5 DEF Procs
    <2>2. proc'[d] = proc[d] /\ Arriving(d)
      BY <2>1 DEF Alone, Agree
    <2>3. ~(proc[d].at = "connect" /\ ~proc[d].overtaken)
      BY DEF Calm, Undisturbed, Dialling, AtRest
    <2> QED BY <2>2, <2>3 DEF Arriving, Reached, Lasting
  <1> QED BY <1>2, <1>3, <1>4, <1>5

LEMMA AgreeBegins ==
  ASSUME TypeInv, Agree, Lasting, Calm, NEW h \in Handlers, NEW at \in {"count", "free"}, NEW r \in 0 .. MaxRules,
         Begin(h, at, r)
  PROVE  Agree'
  <1>1. /\ proc'[h].at = at
        /\ \A x \in Procs : x # h =>
              /\ proc'[x].at = proc[x].at /\ proc'[x].rule = proc[x].rule
              /\ proc'[x].port = proc[x].port /\ proc'[x].config = proc[x].config
              /\ proc'[x].got = proc[x].got
              /\ proc'[x].overtaken = (Dialling(x) \/ proc[x].overtaken)
        /\ table' = table /\ running' = running /\ raced' = raced
        /\ crowded' = (crowded \/ ~AtRest)
    BY BeginPut
  <1> SUFFICES ASSUME ~raced, ~crowded
               PROVE  (\A g \in Handlers : Built(g)') /\ Served' /\ (\A d \in Dials : Arriving(d)')
    BY <1>1 DEF Agree
  <1>2. \A g \in Handlers : Built(g)'
    <2> TAKE g \in Handlers
    <2>1. g \in Procs /\ Built(g)
      BY DEF Agree, Procs
    <2>2. CASE g = h
      BY <1>1, <2>2 DEF Built, Building
    <2>3. CASE g # h
      BY <1>1, <2>1, <2>3 DEF Built, Matched
    <2> QED BY <2>2, <2>3
  <1>3. Served'
    BY <1>1 DEF Served
  <1>4. \A d \in Dials : Arriving(d)'
    <2> TAKE d \in Dials
    <2>1. d \in Procs /\ d # h /\ Arriving(d)
      BY HandlersAssumption DEF Agree, Procs
    <2>2. proc'[d].overtaken = (Dialling(d) \/ proc[d].overtaken)
      BY <1>1, <2>1
    <2>3. proc[d].at = "connect" => proc'[d].overtaken
      BY <2>2 DEF Dialling
    <2>4. proc[d].at = "done" => proc'[d].overtaken = proc[d].overtaken
      <3>1. proc[d] \in Proc
        BY <2>1 DEF TypeInv, TypeOK
      <3>2. proc[d].overtaken \in BOOLEAN
        BY <3>1 DEF Proc
      <3> QED BY <2>2, <3>2 DEF Dialling
    <2> QED BY <1>1, <2>1, <2>3, <2>4 DEF Arriving, Reached, Lasting
  <1> QED BY <1>2, <1>3, <1>4

LEMMA AgreeStep == TypeInv /\ Sole /\ Calm /\ Ended /\ Left /\ Agree /\ [Next]_vars => Agree'
  <1> SUFFICES ASSUME TypeInv, Sole, Calm, Ended, Left, Agree, [Next]_vars PROVE Agree'
    OBVIOUS
  <1>f. Lasting
    BY Lasts
  <1>a. \A h \in Handlers : h \in Procs /\ h \notin Dials
    BY HandlersAssumption DEF Procs
  <1>b. \A d \in Dials : d \in Procs /\ d \notin Handlers
    BY HandlersAssumption DEF Procs
  <1>c. table \in Tables /\ running \in Tables /\ proc \in [Procs -> Proc]
    BY DEF TypeInv, TypeOK
  <1>d. raced \/ crowded \/ ((\A h \in Handlers : Built(h)) /\ Served /\ (\A d \in Dials : Arriving(d)))
    BY DEF Agree
  <1>e. Matched(Nothing)'
    BY NothingIsTable DEF Matched
  <1>1. ASSUME NEW h \in Handlers, Add(h) \/ Refresh(h) \/ \E r \in listed : Delete(h, r) \/ Switch(h, r)
        PROVE  Agree'
    BY <1>1, <1>f, Begins, AgreeBegins
  <1>2. ASSUME NEW h \in Handlers, Free(h) PROVE Agree'
    <2>1. Alone(h) /\ proc[h].at = "free" /\ proc'[h].at = "count"
      BY <1>2, HandlerSteps
    <2>2. raced' = raced /\ crowded' = crowded
      BY <1>2 DEF Free, history
    <2> QED BY <2>1, <2>2, <1>f, AgreeShrinks DEF Building
  <1>3. ASSUME NEW h \in Handlers, Prune(h) PROVE Agree'
    <2>1. Alone(h) /\ proc[h].at = "prune" /\ proc'[h].at = "start" /\ proc'[h].config = proc[h].config
      BY <1>3, HandlerSteps
    <2>2. raced' = raced /\ crowded' = crowded
      BY <1>3 DEF Prune
    <2>3. CASE raced \/ crowded
      BY <2>2, <2>3 DEF Agree
    <2>4. CASE ~raced /\ ~crowded
      <3>1. Matched(proc[h].config)
        BY <1>d, <2>1, <2>4 DEF Built, Building
      <3> DEFINE S == DOMAIN table \cap DOMAIN proc[h].config
      <3>2. table' = Restrict(table, S)
        BY <1>3 DEF Prune
      <3>3. DOMAIN table' = S /\ \A x \in S : table'[x] = table[x]
        BY <1>c, <3>2, RestrictTable
      <3>4. Built(h)'
        BY <2>1, <3>1, <3>3 DEF Built, Matched
      <3> QED BY <2>1, <2>2, <3>4, <1>f, AgreeShrinks
    <2> QED BY <2>3, <2>4
  <1>4. ASSUME NEW h \in Handlers, Stop(h) PROVE Agree'
    <2>1. /\ Alone(h) /\ proc'[h].at \in {"reload", "gen"}
          /\ table' = table /\ running' = Nothing /\ raced' = raced /\ crowded' = crowded
      BY <1>4, HandlerSteps DEF Stop, history
    <2>2. Built(h)' /\ Grows /\ Matched(running)'
      BY <2>1, <1>e DEF Built, Building, Grows, Matched
    <2>3. raced' \/ crowded' \/ (~raced /\ ~crowded)
      BY <2>1
    <2> QED BY <2>1, <2>2, <2>3, <1>a, <1>f, AgreeKept
  <1>4a. ASSUME NEW h \in Handlers, Count(h) PROVE Agree'
    <2>1. /\ Alone(h) /\ proc[h].at = "count" /\ proc'[h].at = "stop"
          /\ table' = table /\ running' = running /\ raced' = raced /\ crowded' = crowded
      BY <1>4a, HandlerSteps DEF Count, realm, history
    <2>2. Built(h)' /\ Grows
      BY <2>1 DEF Built, Building, Grows
    <2>3. raced' \/ crowded' \/ (~raced /\ ~crowded)
      BY <2>1
    <2> QED BY <2>1, <2>2, <2>3, <1>a, <1>f, AgreeKept
  <1>5. ASSUME NEW h \in Handlers, Gen(h) PROVE Agree'
    <2>1. /\ Alone(h) /\ proc'[h].at = "loop" /\ proc'[h].config = Nothing
          /\ table' = table /\ running' = running /\ raced' = raced /\ crowded' = crowded
      BY <1>5, HandlerSteps DEF Gen, realm, history
    <2>2. Built(h)' /\ Grows
      BY <2>1, <1>e DEF Built, Matched, Grows
    <2>3. raced' \/ crowded' \/ (~raced /\ ~crowded)
      BY <2>1
    <2> QED BY <2>1, <2>2, <2>3, <1>a, <1>f, AgreeKept
  <1>6. ASSUME NEW h \in Handlers, Loop(h) PROVE Agree'
    <2>1. /\ Alone(h) /\ proc[h].at = "loop" /\ proc'[h].config = proc[h].config
          /\ proc'[h].at \in {"prune", "loop", "lookup"}
          /\ table' = table /\ running' = running /\ raced' = raced /\ crowded' = crowded
      BY <1>6, LoopSteps DEF Loop, realm, history
    <2>2. Grows
      BY <2>1 DEF Grows
    <2>3. ~raced /\ ~crowded => Built(h)'
      BY <2>1, <1>d DEF Built, Building, Matched
    <2>4. raced' \/ crowded' \/ (~raced /\ ~crowded)
      BY <2>1
    <2> QED BY <2>1, <2>2, <2>3, <2>4, <1>a, <1>f, AgreeKept
  <1>7. ASSUME NEW h \in Handlers, Start(h) PROVE Agree'
    <2>1. /\ Alone(h) /\ proc[h].at = "start" /\ proc'[h].at = "reload"
          /\ running' \in {proc[h].config, running}
          /\ table' = table /\ raced' = raced /\ crowded' = crowded
      BY <1>7, HandlerSteps DEF Start, history
    <2>2. Grows /\ Built(h)'
      BY <2>1 DEF Grows, Built, Building
    <2>3. CASE raced \/ crowded
      BY <2>1, <2>3 DEF Agree
    <2>4. CASE ~raced /\ ~crowded
      <3>1. Matched(proc[h].config)
        BY <1>d, <2>1, <2>4 DEF Built, Building
      <3>0. running = Nothing
        BY <2>1, <2>4 DEF Ended, Working, Building
      <3>2. Matched(running)'
        BY <2>1, <3>0, <3>1, <1>e DEF Matched
      <3>3. raced' \/ crowded' \/ (~raced /\ ~crowded)
        BY <2>4
      <3> QED BY <2>1, <2>2, <3>2, <3>3, <1>a, <1>f, AgreeKept
    <2> QED BY <2>3, <2>4
  <1>8. ASSUME NEW h \in Handlers, Reload(h) PROVE Agree'
    <2>1. /\ Alone(h) /\ proc[h].at = "reload" /\ proc'[h].at = "idle"
          /\ table' = table /\ running' = running /\ raced' = raced /\ crowded' = crowded
      BY <1>8, HandlerSteps DEF Reload, realm, history
    <2>2. Grows /\ Built(h)'
      BY <2>1 DEF Grows, Built, Building
    <2>3. raced' \/ crowded' \/ (~raced /\ ~crowded)
      BY <2>1
    <2> QED BY <2>1, <2>2, <2>3, <1>a, <1>f, AgreeKept
  <1>9. ASSUME NEW d \in Dials, Dial(d) \/ \E r \in listening : Accept(d, r) PROVE Agree'
    <2>1. /\ Alone(d) /\ proc'[d].at \in {"lookup", "accepted"}
          /\ table' = table /\ running' = running /\ raced' = raced /\ crowded' = crowded
          /\ proc'[d].got \in {proc[d].got, None} /\ proc[d].at # "done"
      BY <1>9, DialSteps DEF Dial, Accept, realm, history
    <2>2. Grows
      BY <2>1 DEF Grows
    <2>3. ~raced /\ ~crowded => Arriving(d)'
      BY <2>1, <1>d DEF Arriving
    <2>4. raced' \/ crowded' \/ (~raced /\ ~crowded)
      BY <2>1
    <2> QED BY <2>1, <2>2, <2>3, <2>4, <1>b, <1>f, AgreeKept
  <1>10. ASSUME NEW d \in Dials, Connect(d) PROVE Agree'
    <2>1. /\ Alone(d) /\ proc[d].at = "connect" /\ proc'[d].at = "done"
          /\ proc'[d].rule = proc[d].rule /\ proc'[d].overtaken = proc[d].overtaken
          /\ table' = table /\ running' = running /\ raced' = raced /\ crowded' = crowded
      BY <1>10, DialSteps DEF Connect, realm, history
    <2>2. \/ proc'[d].got = None
          \/ proc'[d].got \in DOMAIN running /\ running[proc'[d].got] = proc[d].port
          \/ <<proc'[d].got, proc[d].port>> \in orphans
      BY <1>10, DialSteps
    <2>3. Grows
      BY <2>1 DEF Grows
    <2>4. ASSUME ~raced, ~crowded PROVE Arriving(d)'
      <3>1. SUFFICES ASSUME ~proc[d].overtaken, proc'[d].got # None, <<proc'[d].got, proc[d].port>> \notin orphans
                     PROVE  proc'[d].got = proc[d].rule
        <4>1. ASSUME <<proc'[d].got, proc[d].port>> \in orphans PROVE Reached(d)'
          <5>1. died /\ proc[d].port \in Pool
            BY <2>4, <4>1 DEF Left, TypeInv, TypeOK
          <5> QED BY <4>1, <5>1, <1>f DEF Reached, Lasting
        <4> QED BY <2>1, <4>1 DEF Arriving, Reached
      <3>2. AtRest
        BY <2>1, <3>1 DEF Calm, Undisturbed, Dialling
      <3>3. Matched(running)
        BY <1>d, <2>4, <3>2 DEF Served, AtRest
      <3>4. /\ proc[d].rule \in DOMAIN table /\ table[proc[d].rule] = proc[d].port
            /\ proc'[d].got \in DOMAIN table /\ table[proc'[d].got] = proc[d].port
        BY <1>d, <2>1, <2>2, <2>4, <3>1, <3>3 DEF Arriving, Matched
      <3>5. IsInjective(table)
        BY <2>4 DEF Sole
      <3> QED BY <3>4, <3>5 DEF IsInjective
    <2>5. raced' \/ crowded' \/ (~raced /\ ~crowded)
      BY <2>1
    <2> QED BY <2>1, <2>3, <2>4, <2>5, <1>b, <1>f, AgreeKept
  <1>11. ASSUME NEW p \in Procs, Lookup(p) PROVE Agree'
    <2>1. /\ Alone(p) /\ proc[p].at = "lookup" /\ proc'[p].rule = proc[p].rule
          /\ proc'[p].overtaken = proc[p].overtaken /\ proc'[p].got = proc[p].got
          /\ table' = table /\ running' = running /\ crowded' = crowded
          /\ raced' \/ ~raced
      BY <1>11, LookupSteps DEF Lookup, realm
    <2>2. Grows
      BY <2>1 DEF Grows
    <2>3. raced' \/ crowded' \/ (~raced /\ ~crowded)
      BY <2>1
    <2>4. proc[p].rule \in Rules /\ p \in Handlers \cup Dials
      BY <2>1 DEF TypeInv, Grounded, Procs
    <2>5. CASE proc'[p].at = "choose" /\ proc'[p].config = proc[p].config
      <3>1. ~raced /\ ~crowded /\ p \in Handlers => Built(p)'
        BY <1>d, <2>1, <2>5 DEF Built, Building, Matched
      <3>2. ~raced /\ ~crowded /\ p \in Dials => Arriving(p)'
        BY <1>d, <2>1, <2>5 DEF Arriving
      <3> QED BY <2>1, <2>2, <2>3, <2>5, <3>1, <3>2, <1>f, AgreeKept
    <2>6. CASE proc[p].rule \in DOMAIN table /\ proc' = Have(p, table[proc[p].rule])
      <3> DEFINE n == table[proc[p].rule]
      <3>1. n \in Pool
        BY <2>6, <1>c, TableDef
      <3>2. /\ p \in Dials => /\ proc'[p].at = "connect" /\ proc'[p].port = n
            /\ p \in Handlers =>
                 /\ proc'[p].at = "loop"
                 /\ DOMAIN proc'[p].config = DOMAIN proc[p].config \cup {proc[p].rule}
                 /\ \A x \in DOMAIN proc'[p].config :
                       proc'[p].config[x] = IF x = proc[p].rule THEN n ELSE proc[p].config[x]
        BY <2>4, <2>6, <3>1, HaveSteps
      <3>3. ~raced /\ ~crowded /\ p \in Handlers => Built(p)'
        BY <1>d, <2>1, <2>6, <3>2 DEF Built, Building, Matched
      <3>4. ~raced /\ ~crowded /\ p \in Dials => Arriving(p)'
        BY <1>d, <2>1, <2>6, <3>2 DEF Arriving
      <3>5. p \in Handlers => proc'[p].at \notin {"idle", "reload"}
        BY <3>2
      <3> QED BY <2>1, <2>2, <2>3, <3>3, <3>4, <3>5, <1>f, AgreeKept
    <2> QED BY <1>11, <2>5, <2>6, LookupSteps
  <1>12. ASSUME NEW p \in Procs, Choose(p) PROVE Agree'
    <2>1. /\ Alone(p) /\ proc[p].at = "choose" /\ Keeps(p)
          /\ proc'[p].overtaken = proc[p].overtaken /\ proc'[p].got = proc[p].got
          /\ proc'[p].at \in {"set", "done", "loop"}
          /\ table' = table /\ running' = running /\ crowded' = crowded /\ raced' = raced
      BY <1>12, ChooseSteps DEF Choose, realm, history
    <2>2. Grows
      BY <2>1 DEF Grows
    <2>3. raced' \/ crowded' \/ (~raced /\ ~crowded)
      BY <2>1
    <2>4. ~raced /\ ~crowded /\ p \in Handlers => Built(p)'
      BY <1>d, <2>1 DEF Built, Building, Matched, Keeps
    <2>5. ~raced /\ ~crowded /\ p \in Dials => Arriving(p)'
      BY <1>d, <2>1 DEF Arriving, Reached
    <2> QED BY <2>1, <2>2, <2>3, <2>4, <2>5, <1>f, AgreeKept
  <1>13. ASSUME NEW p \in Procs, Set(p) PROVE Agree'
    <2> DEFINE n == proc[p].port
               r == proc[p].rule
    <2>1. /\ proc[p].at = "set" /\ proc' = Have(p, n) /\ r \in Rules /\ n \in Pool
          /\ table' = With(table, r, n) /\ running' = running /\ crowded' = crowded /\ raced' = raced
      BY <1>13 DEF Set, TypeInv, Grounded, realm
    <2>2. CASE raced \/ crowded
      BY <2>1, <2>2 DEF Agree
    <2>3. CASE ~raced /\ ~crowded
      <3>1. /\ DOMAIN table' = DOMAIN table \cup {r} /\ r \notin DOMAIN table
            /\ \A x \in DOMAIN table' : table'[x] = IF x = r THEN n ELSE table[x]
        <4>1. r \notin DOMAIN table
          BY <2>1, <2>3 DEF Sole, Allocating
        <4> HIDE DEF n, r
        <4>2. /\ DOMAIN With(table, r, n) = DOMAIN table \cup {r}
              /\ \A x \in DOMAIN table \cup {r} : With(table, r, n)[x] = IF x = r THEN n ELSE table[x]
          BY DEF With
        <4> QED BY <2>1, <4>1, <4>2
      <3>2. Grows
        BY <3>1 DEF Grows
      <3>3. /\ Alone(p) /\ proc'[p].got = proc[p].got /\ proc'[p].rule = r
            /\ p \in Dials => proc'[p].at = "connect" /\ proc'[p].port = n
            /\ p \in Handlers =>
                 /\ proc'[p].at = "loop"
                 /\ DOMAIN proc'[p].config = DOMAIN proc[p].config \cup {r}
                 /\ \A x \in DOMAIN proc'[p].config :
                       proc'[p].config[x] = IF x = r THEN n ELSE proc[p].config[x]
        BY <2>1, HaveSteps, HavePut
      <3> HIDE DEF n, r
      <3>4. p \in Handlers => Built(p)'
        BY <1>d, <2>1, <2>3, <3>1, <3>3 DEF Built, Building, Matched
      <3>5. p \in Dials => Arriving(p)'
        BY <1>d, <2>1, <2>3, <3>1, <3>3 DEF Arriving
      <3>6. p \in Handlers => proc'[p].at \notin {"idle", "reload"}
        BY <3>3
      <3>7. raced' \/ crowded' \/ (~raced /\ ~crowded)
        BY <2>3
      <3> QED BY <2>1, <3>2, <3>3, <3>4, <3>5, <3>6, <3>7, <1>f, AgreeKept
    <2> QED BY <2>2, <2>3
  <1>14. CASE ReloadBeside \/ Die \/ UNCHANGED vars
    <2>1. UNCHANGED <<proc, table, raced, crowded>> /\ running' \in {running, Nothing}
      BY <1>14 DEF ReloadBeside, Die, vars, realm, history
    <2>2. Served => Served'
      BY <2>1, <1>e DEF Served, Matched
    <2>3. \A h \in Handlers : Built(h) => Built(h)'
      BY <2>1 DEF Built, Matched
    <2>4. \A d \in Dials : Arriving(d) => Arriving(d)'
      BY <2>1, <1>f DEF Arriving, Reached, Lasting
    <2> QED BY <1>d, <2>1, <2>2, <2>3, <2>4 DEF Agree
  <1> QED
    BY <1>1, <1>2, <1>3, <1>4, <1>4a, <1>5, <1>6, <1>7, <1>8, <1>9, <1>10, <1>11, <1>12, <1>13, <1>14
       DEF Next, Request, Connection, Allocate

LEMMA AgreeInit == Init => Agree
  <1> SUFFICES ASSUME Init PROVE Agree
    OBVIOUS
  <1>1. running = Nothing /\ \A p \in Procs : proc[p] = Idle
    BY DEF Init
  <1>2. \A h \in Handlers : Built(h)
    BY <1>1 DEF Built, Building, Idle, Procs
  <1>3. \A d \in Dials : Arriving(d)
    BY <1>1 DEF Arriving, Idle, Procs
  <1>4. Served
    BY <1>1, NothingIsTable DEF Served, Matched
  <1> QED BY <1>2, <1>3, <1>4 DEF Agree

\* A connection that no request overtakes gets to its own rule or to none, for any
\* number of rules, handlers and connections, unless two allocations or two
\* requests ran at the same time, or it gets to a realm that a stop left running
\* after realm had died (realm.go 168, 197-206).
THEOREM DialsGetThere == Spec => []DialsArrive
  <1>1. Agree => DialsArrive
    BY DEF Agree, Arriving, Reached, DialsArrive
  <1> QED BY <1>1, TypeInit, TypeStep, SoleInit, SoleStep, CalmInit, CalmStep, EndedInit, EndedStep, Lasts,
             AgreeInit, AgreeStep, PTL DEF Spec

\* At rest the table has all that is served, where it is served, under the same
\* conditions (realm.go 80, 97, 168).
THEOREM TableHasWhatIsServed == Spec => []TableMatchesRealm
  <1>1. Left /\ Agree => TableMatchesRealm
    <2> SUFFICES ASSUME ~raced, ~crowded, AtRest, Left, Agree, ~(died /\ orphans # {})
                 PROVE  Pairs(running) \cup orphans \subseteq Pairs(table)
      BY DEF TableMatchesRealm
    <2>1. orphans = {}
      BY DEF Left
    <2>2. Matched(running)
      BY DEF Agree, Served, AtRest
    <2> QED BY <2>1, <2>2 DEF Matched, Pairs
  <1> QED BY <1>1, TypeInit, TypeStep, SoleInit, SoleStep, CalmInit, CalmStep, EndedInit, EndedStep, Lasts,
             AgreeInit, AgreeStep, PTL DEF Spec

-----------------------------------------------------------------------------
(* What is given back *)

\* A request that none overlaps takes ports for active rules only, for all in its
\* copy of the list are listed, and stops short of it when none is active; and once it has pruned the table,
\* what is in it belongs to active rules, or was taken since by a connection.
InHand(h) ==
    /\ proc[h].at \in {"lookup", "choose", "set"} => proc[h].rule \in active
    /\ proc[h].at \in {"loop", "lookup", "choose", "set", "prune"} => DOMAIN proc[h].config \subseteq active
    /\ proc[h].at \in {"loop", "lookup", "choose", "set"} => proc[h].todo \subseteq listed
    /\ proc[h].at = "stop" /\ ~proc[h].counted => active = {}
Resting == \A h \in Handlers : proc[h].at \in {"idle", "start", "reload"}
Tidy == crowded \/
    ((\A h \in Handlers : InHand(h)) /\ (Resting /\ active # {} => DOMAIN table \subseteq active \cup late))

\* A step of p in the middle of a request, or of a connection.
LEMMA TidyKept ==
  ASSUME TypeInv, Tidy, NEW p \in Procs, Alone(p), UNCHANGED <<listed, enabled, crowded>>,
         ~crowded /\ p \in Handlers => InHand(p)',
         \/ p \in Handlers /\ proc'[p].at \notin {"idle", "start", "reload"}
         \/ active = {}
         \/ DOMAIN table' \subseteq active \cup late'
         \/ /\ p \in Handlers => proc[p].at \in {"start", "reload"}
            /\ \E S \in SUBSET active : DOMAIN table' \subseteq DOMAIN table \cup S \cup late'
            /\ late \subseteq late'
  PROVE  Tidy'
  <1>0. active' = active /\ crowded' = crowded
    BY DEF active
  <1> SUFFICES ASSUME ~crowded
               PROVE  /\ \A h \in Handlers : InHand(h)'
                      /\ Resting' /\ active # {} => DOMAIN table' \subseteq active \cup late'
    BY <1>0 DEF Tidy
  <1>1. \A h \in Handlers : h \in Procs
    BY DEF Procs
  <1>2. ASSUME NEW h \in Handlers PROVE InHand(h)'
    <2>1. CASE h = p
      BY <2>1
    <2>2. CASE h # p
      <3>1. proc'[h] = proc[h] /\ InHand(h)
        BY <1>1, <2>2 DEF Alone, Tidy
      <3> QED BY <1>0, <3>1 DEF InHand
    <2> QED BY <2>1, <2>2
  <1>3. ASSUME Resting', active # {}, ~(DOMAIN table' \subseteq active \cup late') PROVE FALSE
    <2>1. /\ p \in Handlers => proc[p].at \in {"start", "reload"}
          /\ \E S \in SUBSET active : DOMAIN table' \subseteq DOMAIN table \cup S \cup late'
          /\ late \subseteq late'
      BY <1>3 DEF Resting
    <2>2. Resting
      BY <1>1, <1>3, <2>1 DEF Resting, Alone
    <2>3. DOMAIN table \subseteq active \cup late
      BY <1>3, <2>2 DEF Tidy
    <2> QED BY <1>3, <2>1, <2>3
  <1> QED BY <1>0, <1>2, <1>3

LEMMA TidyBegins ==
  ASSUME TypeInv, Calm, Tidy, NEW h \in Handlers, NEW at \in {"count", "free"}, NEW r \in 0 .. MaxRules,
         Begin(h, at, r)
  PROVE  Tidy'
  <1> SUFFICES ASSUME ~crowded' PROVE (\A g \in Handlers : InHand(g)') /\ ~Resting'
    BY DEF Tidy
  <1>1. \A g \in Handlers : g \in Procs /\ proc[g].at = "idle"
    BY CalmBegins DEF AtRest, Procs
  <1>2. proc'[h].at = at /\ \A x \in Procs : x # h => proc'[x].at = proc[x].at
    BY BeginPut
  <1>3. \A g \in Handlers : proc'[g].at \in {"idle", "count", "free"}
    BY <1>1, <1>2
  <1> QED BY <1>2, <1>3 DEF InHand, Resting

LEMMA TidyStep == TypeInv /\ Calm /\ Tidy /\ [Next]_vars => Tidy'
  <1> SUFFICES ASSUME TypeInv, Calm, Tidy, [Next]_vars PROVE Tidy'
    OBVIOUS
  <1>a. \A h \in Handlers : h \in Procs /\ h \notin Dials
    BY HandlersAssumption DEF Procs
  <1>b. \A d \in Dials : d \in Procs /\ d \notin Handlers
    BY HandlersAssumption DEF Procs
  <1>c. table \in Tables
    BY DEF TypeInv, TypeOK
  <1>d. ~crowded => \A h \in Handlers : InHand(h)
    BY DEF Tidy
  <1>1. ASSUME NEW h \in Handlers, Add(h) \/ Refresh(h) \/ \E r \in listed : Delete(h, r) \/ Switch(h, r)
        PROVE  Tidy'
    BY <1>1, Begins, TidyBegins
  <1>2. ASSUME NEW h \in Handlers, Free(h) PROVE Tidy'
    <2>1. Alone(h) /\ proc'[h].at = "count"
      BY <1>2, HandlerSteps
    <2>2. UNCHANGED <<listed, enabled, crowded>> /\ InHand(h)'
      BY <1>2, <2>1 DEF Free, rules, history, InHand
    <2> QED BY <1>a, <2>1, <2>2, TidyKept
  <1>2a. ASSUME NEW h \in Handlers, Count(h) PROVE Tidy'
    <2>1. Alone(h) /\ proc'[h].at = "stop" /\ proc'[h].counted = (active # {})
      BY <1>2a, HandlerSteps
    <2>2. UNCHANGED <<listed, enabled, crowded>>
      BY <1>2a DEF Count, rules, history
    <2>3. InHand(h)'
      BY <2>1, <2>2 DEF InHand, active
    <2> QED BY <1>a, <2>1, <2>2, <2>3, TidyKept
  <1>3. ASSUME NEW h \in Handlers, Stop(h) PROVE Tidy'
    <2>1. Alone(h) /\ proc[h].at = "stop" /\ proc'[h].at = IF proc[h].counted THEN "gen" ELSE "reload"
      BY <1>3, HandlerSteps
    <2>2. UNCHANGED <<listed, enabled, crowded>> /\ InHand(h)'
      BY <1>3, <2>1 DEF Stop, rules, history, InHand
    <2>3. CASE crowded
      BY <2>2, <2>3 DEF Tidy
    <2>4. CASE ~crowded
      <3>1. active = {} \/ proc'[h].at \notin {"idle", "start", "reload"}
        BY <1>d, <2>1, <2>4 DEF InHand
      <3> QED BY <1>a, <2>1, <2>2, <3>1, TidyKept
    <2> QED BY <2>3, <2>4
  <1>4. ASSUME NEW h \in Handlers, Gen(h) PROVE Tidy'
    <2>1. Alone(h) /\ proc'[h].at = "loop" /\ proc'[h].config = Nothing /\ proc'[h].todo = listed
      BY <1>4, HandlerSteps
    <2>2. UNCHANGED <<listed, enabled, crowded>> /\ InHand(h)'
      BY <1>4, <2>1, NothingIsTable DEF Gen, rules, history, InHand
    <2> QED BY <1>a, <2>1, <2>2, TidyKept
  <1>5. ASSUME NEW h \in Handlers, Loop(h) PROVE Tidy'
    <2>1. /\ Alone(h) /\ proc[h].at = "loop" /\ proc'[h].config = proc[h].config
          /\ \/ proc'[h].at = "prune"
             \/ proc'[h].at = "loop" /\ proc'[h].todo \subseteq proc[h].todo
             \/ /\ proc'[h].at = "lookup" /\ proc'[h].rule \in proc[h].todo \cap enabled
                /\ proc'[h].todo \subseteq proc[h].todo
      BY <1>5, LoopSteps
    <2>2. UNCHANGED <<listed, enabled, crowded>>
      BY <1>5 DEF Loop, rules, history
    <2>3. ~crowded => InHand(h)'
      BY <1>d, <2>1, <2>2 DEF InHand, active
    <2> QED BY <1>a, <2>1, <2>2, <2>3, TidyKept
  <1>6. ASSUME NEW h \in Handlers, Prune(h) PROVE Tidy'
    <2>1. Alone(h) /\ proc[h].at = "prune" /\ proc'[h].at = "start"
      BY <1>6, HandlerSteps
    <2>2. UNCHANGED <<listed, enabled, crowded>> /\ InHand(h)'
      BY <1>6, <2>1 DEF Prune, rules, InHand
    <2> DEFINE S == DOMAIN table \cap DOMAIN proc[h].config
    <2>3. table' = Restrict(table, S)
      BY <1>6 DEF Prune
    <2>4. DOMAIN table' = S
      BY <1>c, <2>3, RestrictTable
    <2>5. ~crowded => DOMAIN table' \subseteq active \cup late'
      BY <1>d, <2>1, <2>4 DEF InHand
    <2>6. CASE crowded
      BY <2>2, <2>6 DEF Tidy
    <2> QED BY <1>a, <2>1, <2>2, <2>5, <2>6, TidyKept
  <1>7. ASSUME NEW h \in Handlers, Start(h) \/ Reload(h) PROVE Tidy'
    <2>1. Alone(h) /\ proc[h].at \in {"start", "reload"} /\ proc'[h].at \in {"reload", "idle"}
      BY <1>7, HandlerSteps
    <2>2. /\ UNCHANGED <<listed, enabled, crowded>> /\ InHand(h)'
          /\ table' = table /\ late' = late
      BY <1>7, <2>1 DEF Start, Reload, rules, history, InHand
    <2>3. DOMAIN table' \subseteq DOMAIN table \cup {} \cup late' /\ {} \in SUBSET active
      BY <2>2
    <2> QED BY <1>a, <2>1, <2>2, <2>3, TidyKept
  <1>8. ASSUME NEW d \in Dials, Dial(d) \/ Connect(d) \/ \E r \in listening : Accept(d, r) PROVE Tidy'
    <2>1. Alone(d)
      BY <1>8, DialSteps
    <2>2. UNCHANGED <<listed, enabled, crowded>> /\ table' = table /\ late' = late
      BY <1>8 DEF Dial, Connect, Accept, rules, history
    <2>3. DOMAIN table' \subseteq DOMAIN table \cup {} \cup late' /\ {} \in SUBSET active
      BY <2>2
    <2> QED BY <1>b, <2>1, <2>2, <2>3, TidyKept
  <1>9. ASSUME NEW p \in Procs, Lookup(p) PROVE Tidy'
    <2>1. /\ Alone(p) /\ proc[p].at = "lookup" /\ proc'[p].rule = proc[p].rule /\ proc'[p].todo = proc[p].todo
          /\ UNCHANGED <<listed, enabled, crowded>> /\ table' = table /\ late' = late
      BY <1>9, LookupSteps DEF Lookup, rules
    <2>2. DOMAIN table' \subseteq DOMAIN table \cup {} \cup late' /\ {} \in SUBSET active
      BY <2>1
    <2>3. CASE proc'[p].at = "choose" /\ proc'[p].config = proc[p].config
      <3>1. ~crowded /\ p \in Handlers => InHand(p)'
        BY <1>d, <2>1, <2>3 DEF InHand, active
      <3> QED BY <1>b, <2>1, <2>2, <2>3, <3>1, TidyKept DEF Procs
    <2>4. CASE proc[p].rule \in DOMAIN table /\ proc' = Have(p, table[proc[p].rule])
      <3>1. table[proc[p].rule] \in Pool /\ proc[p].rule \in Rules
        BY <2>1, <2>4, <1>c, TableDef DEF TypeInv, Grounded
      <3>2. p \in Handlers => /\ proc'[p].at = "loop" /\ proc'[p].todo = proc[p].todo
                              /\ DOMAIN proc'[p].config = DOMAIN proc[p].config \cup {proc[p].rule}
        BY <2>4, <3>1, HaveSteps
      <3>3. ~crowded /\ p \in Handlers => InHand(p)'
        BY <1>d, <2>1, <3>2 DEF InHand, active
      <3> QED BY <1>b, <2>1, <2>2, <3>2, <3>3, TidyKept DEF Procs
    <2> QED BY <1>9, <2>3, <2>4, LookupSteps
  <1>10. ASSUME NEW p \in Procs, Choose(p) PROVE Tidy'
    <2>1. /\ Alone(p) /\ proc[p].at = "choose" /\ Keeps(p) /\ proc'[p].at \in {"set", "done", "loop"}
          /\ UNCHANGED <<listed, enabled, crowded>> /\ table' = table /\ late' = late
      BY <1>10, ChooseSteps DEF Choose, rules, history
    <2>2. DOMAIN table' \subseteq DOMAIN table \cup {} \cup late' /\ {} \in SUBSET active
      BY <2>1
    <2>3. ~crowded /\ p \in Handlers => InHand(p)'
      BY <1>d, <2>1 DEF InHand, Keeps, active
    <2> QED BY <2>1, <2>2, <2>3, TidyKept DEF Procs
  <1>11. ASSUME NEW p \in Procs, Set(p) PROVE Tidy'
    <2>1. /\ proc[p].at = "set" /\ proc' = Have(p, proc[p].port)
          /\ proc[p].rule \in Rules /\ proc[p].port \in Pool
          /\ table' = With(table, proc[p].rule, proc[p].port)
          /\ late' = IF p \in Dials /\ proc[p].rule \notin active THEN late \cup {proc[p].rule} ELSE late
          /\ UNCHANGED <<listed, enabled, crowded>>
      BY <1>11 DEF Set, TypeInv, Grounded, rules
    <2>2. DOMAIN table' = DOMAIN table \cup {proc[p].rule}
      BY <2>1 DEF With
    <2>3. /\ Alone(p)
          /\ p \in Handlers => /\ proc'[p].at = "loop" /\ proc'[p].todo = proc[p].todo
                               /\ DOMAIN proc'[p].config = DOMAIN proc[p].config \cup {proc[p].rule}
      BY <2>1, HaveSteps
    <2>4. CASE p \in Handlers
      <3>1. ~crowded => InHand(p)'
        BY <1>d, <2>1, <2>3, <2>4 DEF InHand, active
      <3> QED BY <2>1, <2>3, <2>4, <3>1, TidyKept
    <2>5. CASE p \in Dials
      <3>1. /\ DOMAIN table' \subseteq DOMAIN table \cup ({proc[p].rule} \cap active) \cup late'
            /\ late \subseteq late'
        BY <2>1, <2>2, <2>5
      <3>2. \E S \in SUBSET active : DOMAIN table' \subseteq DOMAIN table \cup S \cup late'
        <4>1. {proc[p].rule} \cap active \in SUBSET active
          OBVIOUS
        <4> QED BY <3>1, <4>1
      <3> QED BY <1>b, <2>1, <2>3, <2>5, <3>1, <3>2, TidyKept
    <2> QED BY <2>4, <2>5 DEF Procs
  <1>12. CASE ReloadBeside \/ Die \/ UNCHANGED vars
    <2>1. UNCHANGED <<proc, table, listed, enabled, crowded, late>>
      BY <1>12 DEF ReloadBeside, Die, vars, rules, history
    <2> QED BY <2>1 DEF Tidy, InHand, Resting, active
  <1> QED
    BY <1>1, <1>2, <1>2a, <1>3, <1>4, <1>5, <1>6, <1>7, <1>8, <1>9, <1>10, <1>11, <1>12
       DEF Next, Request, Connection, Allocate

\* Whatever the number of rules and connections: while requests do not overlap and
\* some rule is active, only active rules have ports when all is done, and those a
\* connection has taken one for since (realm.go 97, storage.go 607).
THEOREM PortsComeBack == Spec => []NothingLeaks
  <1>1. Init => Tidy
    <2> SUFFICES ASSUME Init PROVE Tidy
      OBVIOUS
    <2>1. \A h \in Handlers : proc[h].at = "idle"
      BY DEF Init, Idle, Procs
    <2> QED BY <2>1 DEF Init, Tidy, InHand, active
  <1>2. Tidy => NothingLeaks
    BY DEF Tidy, Resting, AtRest, NothingLeaks
  <1> QED BY <1>1, <1>2, TypeInit, TypeStep, CalmInit, CalmStep, TidyStep, PTL DEF Spec
=============================================================================
