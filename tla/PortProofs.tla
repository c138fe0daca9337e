----------------------------- MODULE PortProofs -----------------------------
(***************************************************************************)
(* What holds of the rules and the listeners for any numbers, users and    *)
(* requests, in any interleaving.                                          *)
(***************************************************************************)
EXTENDS PortRules, TLAPS

USE DEF history

Request == [at : Stages, rules : SUBSET Rules, num : Nums \cup {None},
            batch : BOOLEAN, touched : BOOLEAN]

\* The rules a request is about exist; an edit that has a number to set has one;
\* a handler at rest has changed nothing that is still to be applied.
Grounded ==
    \A h \in Handlers :
        /\ \A r \in req[h].rules : rule[r] # None
        /\ req[h].at = "port" => req[h].num \in Nums
        /\ req[h].at = "idle" => ~req[h].touched

TypeInv == TypeOK /\ Grounded

LEMMA IdleType == Idle \in Request
BY DEF Idle, Request, Stages

LEMMA RuleIsRule ==
  ASSUME TypeOK, NEW r \in Rules, rule[r] # None
  PROVE  /\ rule[r] \in Rule
         /\ rule[r].num \in Nums /\ rule[r].user \in Users
         /\ rule[r].protos \in SUBSET Protos /\ rule[r].on \in BOOLEAN
  <1>1. rule[r] \in Rule
    BY DEF TypeOK
  <1> QED BY <1>1 DEF Rule

LEMMA TypeInit == Init => TypeInv
  <1> SUFFICES ASSUME Init PROVE TypeInv
    OBVIOUS
  <1>1. req \in [Handlers -> Request]
    BY IdleType DEF Init
  <1>2. TypeOK
    BY <1>1 DEF Init, TypeOK, Request, Budget
  <1>3. Grounded
    BY DEF Init, Grounded, Idle
  <1> QED BY <1>2, <1>3 DEF TypeInv

\* A request that begins.
LEMMA BeginType ==
  ASSUME TypeInv, NEW h \in Handlers, NEW q \in Request, Begin(h, q),
         \A r \in q.rules : rule'[r] # None,
         q.at = "port" => q.num \in Nums, q.at # "idle",
         \A r \in Rules : rule[r] # None => rule'[r] # None
  PROVE  req' \in [Handlers -> Request] /\ budget' \in Budget /\ Grounded'
  <1>1. req' = [req EXCEPT ![h] = q]
    BY DEF Begin
  <1>2. req \in [Handlers -> Request] /\ budget \in Budget
    BY DEF TypeInv, TypeOK, Request
  <1>3. \A g \in Handlers : req'[g] = IF g = h THEN q ELSE req[g]
    BY <1>1, <1>2
  <1>4. Grounded'
    <2> SUFFICES ASSUME NEW g \in Handlers
                 PROVE  /\ \A r \in req'[g].rules : rule'[r] # None
                        /\ req'[g].at = "port" => req'[g].num \in Nums
                        /\ req'[g].at = "idle" => ~req'[g].touched
      BY DEF Grounded
    <2>1. CASE g = h
      BY <1>3, <2>1
    <2>2. CASE g # h
      <3>1. req'[g] = req[g] /\ req[g].rules \subseteq Rules
        BY <1>2, <1>3, <2>2 DEF Request
      <3> QED BY <3>1 DEF TypeInv, Grounded
    <2> QED BY <2>1, <2>2
  <1>5. budget' \in Budget
    <2> DEFINE more == IF Quiet THEN budget.overlaps ELSE budget.overlaps + 1
    <2>1. budget \in [requests : Nat, overlaps : Nat, fails : Nat]
      BY <1>2 DEF Budget
    <2>2. budget.requests + 1 \in Nat /\ more \in Nat
      BY <2>1
    <2>3. budget' = [budget EXCEPT !.requests = @ + 1, !.overlaps = more]
      BY DEF Begin
    <2> HIDE DEF more
    <2> QED BY <2>1, <2>2, <2>3 DEF Budget
  <1> QED BY <1>1, <1>2, <1>4, <1>5

\* A request that goes on to stage at; t says whether it has changed the rules.
LEMMA MoveType ==
  ASSUME TypeInv, NEW h \in Handlers, NEW at \in Stages, NEW t \in BOOLEAN,
         req' = [req EXCEPT ![h] = [req[h] EXCEPT !.at = at, !.touched = t]],
         at \notin {"port", "idle"},
         \A r \in Rules : rule[r] # None => rule'[r] # None
  PROVE  req' \in [Handlers -> Request] /\ Grounded'
  <1>1. req \in [Handlers -> Request]
    BY DEF TypeInv, TypeOK, Request
  <1>2. req' \in [Handlers -> Request]
    BY <1>1 DEF Request
  <1>3. \A g \in Handlers : req'[g].rules = req[g].rules /\ req[g].rules \subseteq Rules
    BY <1>1 DEF Request
  <1>4. \A g \in Handlers : g # h => req'[g] = req[g]
    BY <1>1
  <1>5. req'[h].at = at
    BY <1>1 DEF Request
  <1> QED BY <1>2, <1>3, <1>4, <1>5 DEF TypeInv, Grounded

\* A request that ends.
LEMMA EndType ==
  ASSUME TypeInv, NEW h \in Handlers, req' = [req EXCEPT ![h] = Idle], UNCHANGED rule
  PROVE  req' \in [Handlers -> Request] /\ Grounded'
  <1>1. req \in [Handlers -> Request]
    BY DEF TypeInv, TypeOK, Request
  <1>2. \A g \in Handlers : req'[g] = IF g = h THEN Idle ELSE req[g]
    BY <1>1
  <1> QED BY <1>1, <1>2, IdleType DEF TypeInv, Grounded, Idle

LEMMA GiveUpType ==
  ASSUME TypeInv, NEW h \in Handlers, GiveUp(h), UNCHANGED rule
  PROVE  req' \in [Handlers -> Request] /\ budget' \in Budget /\ unapplied' \in BOOLEAN /\ Grounded'
  <1>1. budget \in Budget /\ unapplied \in BOOLEAN /\ req[h].touched \in BOOLEAN
    BY DEF TypeInv, TypeOK
  <1>2. budget' \in Budget /\ unapplied' \in BOOLEAN
    BY <1>1 DEF GiveUp, Budget
  <1> QED BY <1>2, EndType DEF GiveUp

\* What a request to create rules has been checked for.
Checked(u, num) ==
    /\ u \in users
    /\ \A r \in DOMAIN num : Free(num[r])
    /\ \A r, s \in DOMAIN num : num[r] = num[s] => r = s

\* Each of the three ways to create is one with fresh objects.
LEMMA CreateAnyCreates ==
  ASSUME NEW h \in Handlers, CreateAny(h)
  PROVE  \E u \in Users, S \in SUBSET Fresh :
           \E num \in [S -> Nums], protos \in SUBSET Protos, on \in BOOLEAN, b \in BOOLEAN :
             Create(h, u, num, protos, on, b) /\ Checked(u, num)
  <1>1. PICK u \in Users, protos \in SUBSET Protos, on \in BOOLEAN :
          \/ \E r \in Fresh, n \in Nums : \/ AdminCreate(h, u, r, n, protos, on)
                                       \/ UserCreate(h, u, r, n, protos)
          \/ \E S \in SUBSET Fresh : \E num \in [S -> RangeOf[u]] :
               UserBatch(h, u, num, protos, on) /\ \A r, s \in S : num[r] = num[s] => r = s
    BY DEF CreateAny, Injection, IsInjective
  <1>2. CASE \E r \in Fresh, n \in Nums : AdminCreate(h, u, r, n, protos, on)
    <2>1. PICK r \in Fresh, n \in Nums :
            Create(h, u, [y \in {r} |-> n], protos, on, FALSE) /\ Free(n) /\ u \in users
      BY <1>2 DEF AdminCreate
    <2>2. {r} \in SUBSET Fresh /\ [y \in {r} |-> n] \in [{r} -> Nums]
      OBVIOUS
    <2> QED BY <2>1, <2>2 DEF Checked
  <1>3. CASE \E r \in Fresh, n \in Nums : UserCreate(h, u, r, n, protos)
    <2>1. PICK r \in Fresh, n \in Nums :
            Create(h, u, [y \in {r} |-> n], protos, TRUE, FALSE) /\ Free(n) /\ u \in users
      BY <1>3 DEF UserCreate
    <2>2. {r} \in SUBSET Fresh /\ [y \in {r} |-> n] \in [{r} -> Nums]
      OBVIOUS
    <2> QED BY <2>1, <2>2 DEF Checked
  <1>4. CASE \E S \in SUBSET Fresh : \E num \in [S -> RangeOf[u]] :
               UserBatch(h, u, num, protos, on) /\ \A r, s \in S : num[r] = num[s] => r = s
    <2>1. PICK S \in SUBSET Fresh : \E num \in [S -> RangeOf[u]] :
            UserBatch(h, u, num, protos, on) /\ \A r, s \in S : num[r] = num[s] => r = s
      BY <1>4
    <2>2. PICK num \in [S -> RangeOf[u]] :
            Create(h, u, num, protos, on, TRUE) /\ Checked(u, num)
      BY <2>1 DEF UserBatch, Checked
    <2>3. num \in [S -> Nums]
      BY RangesAssumption
    <2> QED BY <2>2, <2>3
  <1> QED BY <1>1, <1>2, <1>3, <1>4

LEMMA CreateType ==
  ASSUME TypeInv, NEW h \in Handlers, NEW u \in Users, NEW S \in SUBSET Fresh,
         NEW num \in [S -> Nums], NEW protos \in SUBSET Protos, NEW on \in BOOLEAN,
         NEW b \in BOOLEAN, Create(h, u, num, protos, on, b)
  PROVE  TypeInv'
  <1> USE NoneAssumption DEF TypeInv
  <1> DEFINE q == [Idle EXCEPT !.at = "append", !.rules = S, !.batch = b]
  <1>1. S \subseteq Rules
    BY DEF Fresh
  <1>2. q \in Request /\ q.at = "append" /\ q.rules = S
    BY <1>1 DEF Request, Idle, Stages
  <1>3. \A r \in Rules : IF r \in S THEN rule'[r] \in Rule ELSE rule'[r] = rule[r]
    BY DEF Create, Rule
  <1>4. rule' \in [Rules -> Rule \cup {None}]
    BY <1>3 DEF Create, TypeOK
  <1>5. Begin(h, q) /\ UNCHANGED <<users, listed, socket, history>>
    BY DEF Create
  <1>6. \A r \in Rules : rule[r] # None => rule'[r] # None
    BY <1>3
  <1>7. req' \in [Handlers -> Request] /\ budget' \in Budget /\ Grounded'
    <2> HIDE DEF q
    <2>1. \A r \in q.rules : rule'[r] # None
      BY <1>1, <1>2, <1>3
    <2> QED BY <1>2, <1>5, <1>6, <2>1, BeginType
  <1>8. \A r \in listed' : rule'[r] # None
    BY <1>5, <1>6 DEF TypeOK
  <1> QED BY <1>4, <1>5, <1>7, <1>8 DEF TypeOK, Request

LEMMA TypeStep == TypeInv /\ [Next]_vars => TypeInv'
  <1> SUFFICES ASSUME TypeInv, [Next]_vars PROVE TypeInv'
    OBVIOUS
  <1> USE NoneAssumption DEF TypeInv
  <1>a. /\ req \in [Handlers -> Request] /\ rule \in [Rules -> Rule \cup {None}]
        /\ listed \subseteq Rules /\ \A r \in listed : rule[r] # None
        /\ socket \in [Protos -> [Nums -> Rules \cup {None}]]
        /\ budget \in Budget /\ users \subseteq Users /\ unapplied \in BOOLEAN
        /\ gaveUp \in SUBSET (Rules \X Protos)
    BY DEF TypeOK, Request
  <1>b. \A h \in Handlers : req[h] \in Request /\ req[h].rules \subseteq Rules
                           /\ req[h].touched \in BOOLEAN
    BY <1>a DEF Request
  <1>1. ASSUME NEW h \in Handlers, CreateAny(h) PROVE TypeInv'
    <2>0. PICK u \in Users, S \in SUBSET Fresh :
            \E num \in [S -> Nums], protos \in SUBSET Protos, on \in BOOLEAN, b \in BOOLEAN :
              Create(h, u, num, protos, on, b)
      BY <1>1, CreateAnyCreates
    <2>1. PICK num \in [S -> Nums], protos \in SUBSET Protos, on \in BOOLEAN, b \in BOOLEAN :
            Create(h, u, num, protos, on, b)
      BY <2>0
    <2> QED BY <2>1, CreateType
  <1>2. ASSUME NEW h \in Handlers, CreateAppend(h) PROVE TypeInv'
    <2>1. req' = [req EXCEPT ![h] = [req[h] EXCEPT !.at = "apply", !.touched = TRUE]]
      BY <1>2, <1>a DEF CreateAppend, Request
    <2>2. req' \in [Handlers -> Request] /\ Grounded'
      BY <1>2, <2>1, MoveType DEF CreateAppend, Stages
    <2>3. listed' \subseteq Rules /\ \A r \in listed' : rule'[r] # None
      BY <1>2, <1>a, <1>b DEF CreateAppend, Grounded
    <2> QED BY <1>2, <1>a, <2>2, <2>3 DEF CreateAppend, TypeOK, Request
  <1>3. ASSUME NEW h \in Handlers, SaveFails(h) PROVE TypeInv'
    BY <1>3, <1>a, GiveUpType DEF SaveFails, TypeOK, Request
  <1>4. ASSUME NEW h \in Handlers, NEW r \in Rules, NEW n \in Nums, EditCheck(h, r, n)
        PROVE  TypeInv'
    <2> DEFINE q == [Idle EXCEPT !.at = IF n = rule[r].num THEN "user" ELSE "port",
                                 !.rules = {r}, !.num = n]
    <2>1. q \in Request /\ q.at # "idle" /\ q.rules = {r} /\ q.num = n
      BY DEF Request, Idle, Stages
    <2>2. Begin(h, q) /\ UNCHANGED <<users, rule, listed, socket, history>>
      BY <1>4 DEF EditCheck
    <2>3. rule[r] # None
      BY <1>4, <1>a DEF EditCheck
    <2>4. req' \in [Handlers -> Request] /\ budget' \in Budget /\ Grounded'
      <3> HIDE DEF q
      <3> QED BY <2>1, <2>2, <2>3, BeginType
    <2> QED BY <1>a, <2>2, <2>4 DEF TypeOK, Request
  <1>5. ASSUME NEW h \in Handlers, NEW r \in Rules, EditPort(h, r) PROVE TypeInv'
    <2>1. rule[r] \in Rule /\ req[h].num \in Nums
      BY <1>5, <1>a, RuleIsRule DEF EditPort, Grounded
    <2>2. [rule[r] EXCEPT !.num = req[h].num] \in Rule
      BY <2>1 DEF Rule
    <2>3. rule' = [rule EXCEPT ![r] = [rule[r] EXCEPT !.num = req[h].num]]
      BY <1>5 DEF EditPort
    <2>4. /\ rule' \in [Rules -> Rule \cup {None}]
          /\ \A s \in Rules : rule[s] # None => rule'[s] # None
      BY <2>2, <2>3, <1>a
    <2>5. req' = [req EXCEPT ![h] = [req[h] EXCEPT !.at = "user", !.touched = TRUE]]
      BY <1>5, <1>a DEF EditPort, Request
    <2>6. req' \in [Handlers -> Request] /\ Grounded'
      BY <2>4, <2>5, MoveType DEF Stages
    <2> QED BY <1>5, <1>a, <2>4, <2>6 DEF EditPort, TypeOK, Request
  <1>6. ASSUME NEW h \in Handlers, NEW r \in Rules, EditUser(h, r) PROVE TypeInv'
    <2>1. CASE Goto(h, "rest") /\ UNCHANGED <<rule, budget, unapplied>>
      <3>1. req' = [req EXCEPT ![h] = [req[h] EXCEPT !.at = "rest",
                                                      !.touched = req[h].touched]]
        BY <2>1, <1>a DEF Goto, Request
      <3>2. req' \in [Handlers -> Request] /\ Grounded'
        BY <1>b, <2>1, <3>1, MoveType DEF Stages
      <3> QED BY <1>6, <1>a, <2>1, <3>2 DEF EditUser, TypeOK, Request
    <2>2. ASSUME NEW u \in users \ {rule[r].user},
                 rule' = [rule EXCEPT ![r].user = u],
                 req' = [req EXCEPT ![h].at = "rest", ![h].touched = TRUE],
                 UNCHANGED <<budget, unapplied>>
          PROVE  TypeInv'
      <3>1. rule[r] \in Rule /\ u \in Users
        BY <1>6, <1>a, RuleIsRule DEF EditUser, Grounded
      <3>2. [rule[r] EXCEPT !.user = u] \in Rule
        BY <3>1 DEF Rule
      <3>3. /\ rule' \in [Rules -> Rule \cup {None}]
            /\ \A s \in Rules : rule[s] # None => rule'[s] # None
        BY <2>2, <3>2, <1>a
      <3>4. req' = [req EXCEPT ![h] = [req[h] EXCEPT !.at = "rest", !.touched = TRUE]]
        BY <2>2, <1>a DEF Request
      <3>5. req' \in [Handlers -> Request] /\ Grounded'
        BY <3>3, <3>4, MoveType DEF Stages
      <3> QED BY <1>6, <1>a, <2>2, <3>3, <3>5 DEF EditUser, TypeOK, Request
    <2>3. CASE GiveUp(h) /\ UNCHANGED rule
      BY <1>6, <2>3, <1>a, GiveUpType DEF EditUser, TypeOK, Request
    <2> QED BY <1>6, <2>1, <2>2, <2>3 DEF EditUser
  <1>7. ASSUME NEW h \in Handlers, NEW r \in Rules, EditRest(h, r) PROVE TypeInv'
    <2>1. ASSUME NEW protos \in SUBSET Protos, NEW on \in BOOLEAN,
                 rule' = [rule EXCEPT ![r].protos = protos, ![r].on = on],
                 req' = [req EXCEPT ![h].at = "apply", ![h].touched = TRUE],
                 gaveUp' = (gaveUp \cup ({r} \X rule[r].protos)) \ ({r} \X protos),
                 UNCHANGED <<budget, unapplied>>
          PROVE  TypeInv'
      <3>1. rule[r] \in Rule
        BY <1>7, <1>a, RuleIsRule DEF EditRest, Grounded
      <3>2. [rule[r] EXCEPT !.protos = protos, !.on = on] \in Rule
        BY <3>1 DEF Rule
      <3>3. rule' = [rule EXCEPT ![r] = [rule[r] EXCEPT !.protos = protos, !.on = on]]
        BY <2>1, <1>a, <3>1 DEF Rule
      <3>4. /\ rule' \in [Rules -> Rule \cup {None}]
            /\ \A s \in Rules : rule[s] # None => rule'[s] # None
        BY <3>2, <3>3, <1>a
      <3>5. req' = [req EXCEPT ![h] = [req[h] EXCEPT !.at = "apply", !.touched = TRUE]]
        BY <2>1, <1>a DEF Request
      <3>6. req' \in [Handlers -> Request] /\ Grounded'
        BY <3>4, <3>5, MoveType DEF Stages
      <3>7. gaveUp' \in SUBSET (Rules \X Protos)
        BY <2>1, <1>a, <3>1 DEF Rule
      <3> QED BY <1>7, <1>a, <2>1, <3>4, <3>6, <3>7 DEF EditRest, TypeOK, Request
    <2>2. CASE GiveUp(h) /\ UNCHANGED <<rule, gaveUp>>
      BY <1>7, <2>2, <1>a, GiveUpType DEF EditRest, TypeOK, Request
    <2> QED BY <1>7, <2>1, <2>2 DEF EditRest
  <1>8. ASSUME NEW h \in Handlers, NEW q \in Request, Begin(h, q),
               q.at \in {"rest", "delete"}, q.rules \subseteq listed,
               UNCHANGED <<users, rule, listed, socket, history>>
        PROVE  TypeInv'
    <2>1. req' \in [Handlers -> Request] /\ budget' \in Budget /\ Grounded'
      BY <1>a, <1>8, BeginType
    <2> QED BY <1>a, <1>8, <2>1 DEF TypeOK, Request
  <1>8a. ASSUME NEW h \in Handlers, NEW r \in Rules, UserEdit(h, r) PROVE TypeInv'
    <2> DEFINE q == [Idle EXCEPT !.at = "rest", !.rules = {r}]
    <2>1. q \in Request /\ q.at = "rest" /\ q.rules = {r}
      BY DEF Request, Idle, Stages
    <2>2. Begin(h, q) /\ r \in listed
      BY <1>8a DEF UserEdit
    <2> HIDE DEF q
    <2> QED BY <1>8, <1>8a, <2>1, <2>2 DEF UserEdit
  <1>8b. ASSUME NEW h \in Handlers, NEW r \in Rules, DeleteOne(h, r) PROVE TypeInv'
    <2> DEFINE q == [Idle EXCEPT !.at = "delete", !.rules = {r}]
    <2>1. q \in Request /\ q.at = "delete" /\ q.rules = {r}
      BY DEF Request, Idle, Stages
    <2>2. Begin(h, q) /\ r \in listed
      BY <1>8b DEF DeleteOne
    <2> HIDE DEF q
    <2> QED BY <1>8, <1>8b, <2>1, <2>2 DEF DeleteOne
  <1>8c. ASSUME NEW h \in Handlers, NEW u \in Users, NEW rs \in SUBSET listed,
                DeleteBatch(h, u, rs)
         PROVE  TypeInv'
    <2> DEFINE q == [Idle EXCEPT !.at = "delete", !.rules = rs, !.batch = TRUE]
    <2>1. q \in Request /\ q.at = "delete" /\ q.rules = rs
      BY <1>a DEF Request, Idle, Stages
    <2>2. Begin(h, q)
      BY <1>8c DEF DeleteBatch
    <2> HIDE DEF q
    <2> QED BY <1>8, <1>8c, <2>1, <2>2 DEF DeleteBatch
  <1>9. ASSUME NEW h \in Handlers, DeleteRules(h) PROVE TypeInv'
    <2>1. req' = [req EXCEPT ![h] = [req[h] EXCEPT !.at = "apply", !.touched = TRUE]]
      BY <1>9, <1>a DEF DeleteRules, Request
    <2>2. req' \in [Handlers -> Request] /\ Grounded'
      BY <1>9, <2>1, MoveType DEF DeleteRules, Stages
    <2> QED BY <1>9, <1>a, <2>2 DEF DeleteRules, TypeOK, Request
  <1>10. ASSUME NEW h \in Handlers, NEW u \in Users, DeleteUser(h, u) PROVE TypeInv'
    <2> DEFINE q == [Idle EXCEPT !.at = "apply", !.touched = TRUE]
    <2>1. q \in Request /\ q.at = "apply" /\ q.rules = {}
      BY DEF Request, Idle, Stages
    <2>2. /\ Begin(h, q) /\ UNCHANGED <<rule, socket, history>>
          /\ users' \subseteq Users /\ listed' \subseteq listed
      BY <1>10, <1>a DEF DeleteUser
    <2>3. req' \in [Handlers -> Request] /\ budget' \in Budget /\ Grounded'
      <3> HIDE DEF q
      <3> QED BY <2>1, <2>2, BeginType
    <2> QED BY <1>a, <2>2, <2>3 DEF TypeOK, Request
  <1>11. ASSUME NEW h \in Handlers, Refresh(h) PROVE TypeInv'
    <2> DEFINE q == [Idle EXCEPT !.at = "apply"]
    <2>1. q \in Request /\ q.at = "apply" /\ q.rules = {}
      BY DEF Request, Idle, Stages
    <2>2. Begin(h, q) /\ UNCHANGED <<users, rule, listed, socket, history>>
      BY <1>11 DEF Refresh
    <2>3. req' \in [Handlers -> Request] /\ budget' \in Budget /\ Grounded'
      <3> HIDE DEF q
      <3> QED BY <2>1, <2>2, BeginType
    <2> QED BY <1>a, <2>2, <2>3 DEF TypeOK, Request
  <1>12. ASSUME NEW h \in Handlers, Reload(h) PROVE TypeInv'
    <2>1. PICK d \in Desired :
            socket' = [p \in Protos |-> [n \in Nums |-> Reloaded(d, p, n)]]
      BY <1>12 DEF Reload
    <2>2. \A n \in DOMAIN d : d[n] \in Rules
      BY <1>a DEF Desired
    <2>3. \A p \in Protos, n \in Nums : Reloaded(d, p, n) \in Rules \cup {None}
      BY <1>a, <2>2 DEF Reloaded
    <2>4. socket' \in [Protos -> [Nums -> Rules \cup {None}]]
      BY <2>1, <2>3
    <2>5. req' \in [Handlers -> Request] /\ Grounded'
      BY <1>12, EndType DEF Reload
    <2> QED BY <1>12, <1>a, <2>4, <2>5 DEF Reload, TypeOK, Request
  <1>13. CASE UNCHANGED vars
    BY <1>13 DEF vars, TypeOK, Grounded
  <1> QED
    BY <1>1, <1>2, <1>3, <1>4, <1>5, <1>6, <1>7, <1>8a, <1>8b, <1>8c, <1>9, <1>10,
       <1>11, <1>12, <1>13
    DEF Next

\* No request, and no two requests at once, bring the rules, the listeners or
\* the handlers out of their types: in particular nothing is listed that was
\* never built, and no edit sets a number that no request had.
THEOREM PortsTypeCorrect == Spec => []TypeOK
  <1>1. TypeInv => TypeOK
    BY DEF TypeInv
  <1> QED BY TypeInit, TypeStep, <1>1, PTL DEF Spec

-----------------------------------------------------------------------------
(* Listeners *)

\* Every open listener has an active rule with its number.
Matched ==
    \A p \in Protos, n \in Nums :
        socket[p][n] # None => \E r \in listed : Active(r) /\ rule[r].num = n

\* Somebody has changed the rules and has not reloaded since.
Pending == unapplied \/ \E h \in Handlers : req[h].touched

Lagging == Pending \/ Matched

\* A step that changes no rule of the list and no listener.
Same == UNCHANGED <<listed, socket>> /\ \A r \in listed : rule'[r] = rule[r]

\* A request that begins finds its handler at rest.
LEMMA BeginPending ==
  ASSUME TypeInv, NEW h \in Handlers, NEW q, Begin(h, q), unapplied' = unapplied
  PROVE  Pending => Pending'
  <1>1. req \in [Handlers -> Request]
    BY DEF TypeInv, TypeOK, Request
  <1>2. \A g \in Handlers : req'[g] = IF g = h THEN q ELSE req[g]
    BY <1>1 DEF Begin
  <1>3. ~req[h].touched
    BY DEF Begin, TypeInv, Grounded
  <1> QED BY <1>2, <1>3 DEF Pending

LEMMA GiveUpPending ==
  ASSUME TypeInv, NEW h \in Handlers, GiveUp(h)
  PROVE  Pending => Pending'
  <1>1. req \in [Handlers -> Request]
    BY DEF TypeInv, TypeOK, Request
  <1>2. \A g \in Handlers \ {h} : req'[g] = req[g]
    BY <1>1 DEF GiveUp
  <1>3. CASE unapplied \/ req[h].touched
    BY <1>3 DEF GiveUp, Pending
  <1>4. CASE ~unapplied /\ ~req[h].touched
    BY <1>2, <1>4 DEF Pending
  <1> QED BY <1>3, <1>4

\* A change of the rules is marked until somebody reloads.
LEMMA ChangesAreMarked ==
  ASSUME TypeInv, [Next]_vars
  PROVE  Pending' \/ (~Pending /\ Same) \/ \E h \in Handlers : Reload(h)
  <1> DEFINE Goal == Pending' \/ (~Pending /\ Same) \/ \E h \in Handlers : Reload(h)
  <1>a. req \in [Handlers -> Request]
    BY DEF TypeInv, TypeOK, Request
  <1>b. \A r \in listed : rule[r] # None
    BY DEF TypeInv, TypeOK
  <1>c. ASSUME NEW h \in Handlers, req'[h].touched PROVE Goal
    BY <1>c DEF Pending
  <1>d. ASSUME Pending => Pending', Same PROVE Goal
    BY <1>d
  <1> HIDE DEF Goal
  <1>1. ASSUME NEW h \in Handlers, CreateAny(h) PROVE Goal
    <2>0. PICK u \in Users, S \in SUBSET Fresh :
            \E num \in [S -> Nums], protos \in SUBSET Protos, on \in BOOLEAN, b \in BOOLEAN :
              Create(h, u, num, protos, on, b)
      BY <1>1, CreateAnyCreates
    <2>1. PICK num \in [S -> Nums], protos \in SUBSET Protos, on \in BOOLEAN, b \in BOOLEAN :
            Create(h, u, num, protos, on, b)
      BY <2>0
    <2>2. \A r \in listed : r \in Rules /\ r \notin DOMAIN num
      BY <1>b DEF Fresh, TypeInv, TypeOK
    <2>3. Same
      BY <2>1, <2>2 DEF Create, Same
    <2>4. Pending => Pending'
      BY <2>1, BeginPending DEF Create
    <2> QED BY <1>d, <2>3, <2>4
  <1>2. ASSUME NEW h \in Handlers, CreateAppend(h) PROVE Goal
    BY <1>2, <1>a, <1>c DEF CreateAppend, Request
  <1>3. ASSUME NEW h \in Handlers, SaveFails(h) PROVE Goal
    BY <1>3, <1>d, GiveUpPending DEF SaveFails, Same
  <1>4. ASSUME NEW h \in Handlers, NEW r \in Rules, NEW n \in Nums, EditCheck(h, r, n)
        PROVE  Goal
    BY <1>4, <1>d, BeginPending DEF EditCheck, Same
  <1>5. ASSUME NEW h \in Handlers, NEW r \in Rules, EditPort(h, r) PROVE Goal
    BY <1>5, <1>a, <1>c DEF EditPort, Request
  <1>6. ASSUME NEW h \in Handlers, NEW r \in Rules, EditUser(h, r) PROVE Goal
    <2>1. CASE Goto(h, "rest") /\ UNCHANGED <<rule, budget, unapplied>>
      <3>1. Pending => Pending'
        BY <2>1, <1>a DEF Goto, Request, Pending
      <3> QED BY <1>6, <1>d, <2>1, <3>1 DEF EditUser, Same
    <2>2. ASSUME req' = [req EXCEPT ![h].at = "rest", ![h].touched = TRUE] PROVE Goal
      BY <1>a, <1>c, <2>2 DEF Request
    <2>3. CASE GiveUp(h) /\ UNCHANGED rule
      BY <1>6, <1>d, <2>3, GiveUpPending DEF EditUser, Same
    <2> QED BY <1>6, <2>1, <2>2, <2>3 DEF EditUser
  <1>7. ASSUME NEW h \in Handlers, NEW r \in Rules, EditRest(h, r) PROVE Goal
    <2>1. ASSUME req' = [req EXCEPT ![h].at = "apply", ![h].touched = TRUE] PROVE Goal
      BY <1>a, <1>c, <2>1 DEF Request
    <2>2. CASE GiveUp(h) /\ UNCHANGED rule
      BY <1>7, <1>d, <2>2, GiveUpPending DEF EditRest, Same
    <2> QED BY <1>7, <2>1, <2>2 DEF EditRest
  <1>8a. ASSUME NEW h \in Handlers, NEW r \in Rules, UserEdit(h, r) PROVE Goal
    BY <1>8a, <1>d, BeginPending DEF UserEdit, Same
  <1>8b. ASSUME NEW h \in Handlers, NEW r \in Rules, DeleteOne(h, r) PROVE Goal
    BY <1>8b, <1>d, BeginPending DEF DeleteOne, Same
  <1>8c. ASSUME NEW h \in Handlers, NEW u \in Users, NEW rs \in SUBSET listed,
                DeleteBatch(h, u, rs)
         PROVE  Goal
    BY <1>8c, <1>d, BeginPending DEF DeleteBatch, Same
  <1>9. ASSUME NEW h \in Handlers, DeleteRules(h) PROVE Goal
    BY <1>9, <1>a, <1>c DEF DeleteRules, Request
  <1>10. ASSUME NEW h \in Handlers, NEW u \in Users, DeleteUser(h, u) PROVE Goal
    BY <1>10, <1>a, <1>c DEF DeleteUser, Begin, Idle
  <1>11. ASSUME NEW h \in Handlers, Refresh(h) PROVE Goal
    BY <1>11, <1>d, BeginPending DEF Refresh, Same
  <1>12. ASSUME NEW h \in Handlers, Reload(h) PROVE Goal
    BY <1>12 DEF Goal
  <1>13. CASE UNCHANGED vars
    BY <1>13, <1>d DEF vars, Same, Pending
  <1> QED
    BY <1>1, <1>2, <1>3, <1>4, <1>5, <1>6, <1>7, <1>8a, <1>8b, <1>8c, <1>9, <1>10,
       <1>11, <1>12, <1>13
    DEF Next, Goal

\* After Reload every listener has its rule, whichever rule of a number is taken.
LEMMA ReloadMatches ==
  ASSUME TypeInv, NEW h \in Handlers, Reload(h)
  PROVE  Matched'
  <1>1. PICK d \in Desired :
          socket' = [p \in Protos |-> [n \in Nums |-> Reloaded(d, p, n)]]
    BY DEF Reload
  <1>2. \A n \in DOMAIN d : d[n] \in listed /\ Active(d[n]) /\ rule[d[n]].num = n
    BY <1>1 DEF Desired
  <1>3. ASSUME NEW p \in Protos, NEW n \in Nums, socket'[p][n] # None
        PROVE  n \in DOMAIN d
    BY <1>1, <1>3 DEF Reloaded
  <1>4. UNCHANGED <<rule, listed>>
    BY DEF Reload
  <1> QED BY <1>2, <1>3, <1>4 DEF Matched, Active

LEMMA LaggingStep == TypeInv /\ Lagging /\ [Next]_vars => Lagging'
  <1> SUFFICES ASSUME TypeInv, Lagging, [Next]_vars PROVE Lagging'
    OBVIOUS
  <1>1. CASE ~Pending /\ Same
    BY <1>1 DEF Lagging, Same, Matched, Active
  <1>2. CASE \E h \in Handlers : Reload(h)
    BY <1>2, ReloadMatches DEF Lagging
  <1> QED BY <1>1, <1>2, ChangesAreMarked DEF Lagging

\* The rule a listener serves asked for its protocol when the listener was opened,
\* and has lost it by an edit if it does not ask for it any more.
Asked ==
    \A p \in Protos, n \in Nums : LET r == socket[p][n] IN
        r # None => rule[r] # None /\ (p \in rule[r].protos \/ <<r, p>> \in gaveUp)

\* Rules that there are keep what they ask for or are on record for it.
LEMMA AskedKept ==
  ASSUME TypeInv, Asked, UNCHANGED socket,
         \A r \in Rules : rule[r] # None =>
             /\ rule'[r] # None
             /\ \A p \in Protos : p \in rule[r].protos \/ <<r, p>> \in gaveUp
                                => p \in rule'[r].protos \/ <<r, p>> \in gaveUp'
  PROVE  Asked'
  <1>1. socket \in [Protos -> [Nums -> Rules \cup {None}]]
    BY DEF TypeInv, TypeOK
  <1> QED BY <1>1 DEF Asked

LEMMA AskedStep == TypeInv /\ Asked /\ [Next]_vars => Asked'
  <1> SUFFICES ASSUME TypeInv, Asked, [Next]_vars PROVE Asked'
    OBVIOUS
  <1>a. /\ rule \in [Rules -> Rule \cup {None}]
        /\ listed \subseteq Rules /\ \A r \in listed : rule[r] # None
    BY DEF TypeInv, TypeOK
  <1>b. ASSUME UNCHANGED <<rule, socket, gaveUp>> PROVE Asked'
    BY <1>b DEF Asked
  <1>1. ASSUME NEW h \in Handlers, CreateAny(h) PROVE Asked'
    <2>0. PICK u \in Users, S \in SUBSET Fresh :
            \E num \in [S -> Nums], protos \in SUBSET Protos, on \in BOOLEAN, b \in BOOLEAN :
              Create(h, u, num, protos, on, b)
      BY <1>1, CreateAnyCreates
    <2>1. PICK num \in [S -> Nums], protos \in SUBSET Protos, on \in BOOLEAN, b \in BOOLEAN :
            Create(h, u, num, protos, on, b)
      BY <2>0
    <2>2. /\ UNCHANGED <<socket, gaveUp>>
          /\ \A r \in Rules : rule[r] # None => rule'[r] = rule[r]
      BY <2>1 DEF Create, Fresh
    <2> QED BY <2>2, AskedKept
  <1>2. ASSUME NEW h \in Handlers, NEW r \in Rules, EditPort(h, r) PROVE Asked'
    <2>1. /\ UNCHANGED <<socket, gaveUp>>
          /\ rule' = [rule EXCEPT ![r].num = req[h].num]
          /\ r \in Rules /\ rule[r] # None
      BY <1>2 DEF EditPort, TypeInv, Grounded
    <2>2. rule[r] \in Rule /\ [rule[r] EXCEPT !.num = req[h].num] # None
      BY <1>2, <2>1, RuleIsRule, NoneAssumption DEF EditPort, Rule, TypeInv, Grounded
    <2>3. \A s \in Rules : rule[s] # None => rule'[s] # None /\ rule'[s].protos = rule[s].protos
      BY <1>a, <2>1, <2>2 DEF Rule
    <2> QED BY <2>1, <2>3, AskedKept
  <1>3. ASSUME NEW h \in Handlers, NEW r \in Rules, EditUser(h, r) PROVE Asked'
    <2>1. CASE UNCHANGED rule
      BY <1>3, <1>b, <2>1 DEF EditUser
    <2>2. ASSUME NEW u \in users, rule' = [rule EXCEPT ![r].user = u] PROVE Asked'
      <3>1. UNCHANGED <<socket, gaveUp>> /\ rule[r] # None /\ u \in Users
        BY <1>3 DEF EditUser, TypeInv, TypeOK, Grounded
      <3>2. rule[r] \in Rule /\ [rule[r] EXCEPT !.user = u] \in Rule
        BY <3>1, RuleIsRule DEF TypeInv, Rule
      <3>3. \A s \in Rules : rule[s] # None => rule'[s] # None /\ rule'[s].protos = rule[s].protos
        BY <1>a, <2>2, <3>2, NoneAssumption DEF Rule
      <3> QED BY <3>1, <3>3, AskedKept
    <2> QED BY <1>3, <2>1, <2>2 DEF EditUser
  <1>4. ASSUME NEW h \in Handlers, NEW r \in Rules, EditRest(h, r) PROVE Asked'
    <2>1. CASE UNCHANGED <<rule, gaveUp>>
      BY <1>4, <1>b, <2>1 DEF EditRest
    <2>2. ASSUME NEW protos \in SUBSET Protos, NEW on \in BOOLEAN,
                 rule' = [rule EXCEPT ![r].protos = protos, ![r].on = on],
                 gaveUp' = (gaveUp \cup ({r} \X rule[r].protos)) \ ({r} \X protos)
          PROVE  Asked'
      <3>1. UNCHANGED socket /\ rule[r] # None
        BY <1>4 DEF EditRest, TypeInv, Grounded
      <3>2. rule[r] \in Rule /\ [rule[r] EXCEPT !.protos = protos, !.on = on] \in Rule
        BY <3>1, RuleIsRule DEF TypeInv, Rule
      <3>3. /\ rule'[r] # None /\ rule'[r].protos = protos
            /\ \A s \in Rules \ {r} : rule'[s] = rule[s]
        BY <1>a, <2>2, <3>2, NoneAssumption DEF Rule
      <3>4. \A s \in Rules \ {r}, p \in Protos : <<s, p>> \in gaveUp => <<s, p>> \in gaveUp'
        BY <2>2
      <3>5. \A p \in Protos : p \in rule[r].protos \/ <<r, p>> \in gaveUp
                             => p \in protos \/ <<r, p>> \in gaveUp'
        BY <2>2
      <3>6. ASSUME NEW s \in Rules, rule[s] # None
            PROVE  /\ rule'[s] # None
                   /\ \A p \in Protos : p \in rule[s].protos \/ <<s, p>> \in gaveUp
                                      => p \in rule'[s].protos \/ <<s, p>> \in gaveUp'
        <4>1. CASE s = r
          BY <3>3, <3>5, <4>1
        <4>2. CASE s # r
          BY <3>3, <3>4, <3>6, <4>2
        <4> QED BY <4>1, <4>2
      <3> QED BY <3>1, <3>6, AskedKept
    <2> QED BY <1>4, <2>1, <2>2 DEF EditRest
  <1>5. ASSUME NEW h \in Handlers, Reload(h) PROVE Asked'
    <2>1. PICK d \in Desired :
            socket' = [p \in Protos |-> [n \in Nums |-> Reloaded(d, p, n)]]
      BY <1>5 DEF Reload
    <2>2. \A n \in DOMAIN d : d[n] \in listed
      BY <2>1 DEF Desired
    <2>3. UNCHANGED <<rule, gaveUp>>
      BY <1>5 DEF Reload
    <2>4. ASSUME NEW p \in Protos, NEW n \in Nums, socket'[p][n] # None
          PROVE  \/ socket'[p][n] = socket[p][n]
                 \/ n \in DOMAIN d /\ socket'[p][n] = d[n] /\ p \in rule[d[n]].protos
      BY <2>1, <2>4 DEF Reloaded
    <2> QED BY <1>a, <2>2, <2>3, <2>4 DEF Asked
  <1> QED BY <1>b, <1>1, <1>2, <1>3, <1>4, <1>5
          DEF Next, vars, CreateAppend, SaveFails, EditCheck, UserEdit, DeleteOne, DeleteBatch,
              DeleteRules, DeleteUser, Refresh

\* However the requests of administrators and users interleave, and whichever of
\* them fail: once all are answered and every change was applied, every listener
\* is on the number of an active rule, and the rule it serves asks for its
\* protocol unless an edit took that away.
THEOREM NoStray == Spec => []NoStrayListener
  <1>1. Init => Lagging /\ Asked
    BY DEF Init, Lagging, Matched, Asked
  <1>2. TypeInv /\ Lagging /\ Asked => NoStrayListener
    <2> SUFFICES ASSUME TypeInv, Lagging, Asked, Settled PROVE Matched /\ Asked
      BY DEF NoStrayListener, Matched, Asked
    <2> QED BY DEF TypeInv, Grounded, Settled, Quiet, Lagging, Pending
  <1> QED BY TypeInit, TypeStep, LaggingStep, AskedStep, <1>1, <1>2, PTL DEF Spec

-----------------------------------------------------------------------------
(* Requests one at a time *)

OneAtATime == \A g, h \in Handlers : req[g].at # "idle" /\ req[h].at # "idle" => g = h
Distinct(S) == \A r, s \in S : rule[r].num = rule[s].num => r = s
Owned(S) == \A r \in S : rule[r].user \in users

\* What a request has checked still holds when it acts on it.
StillFree ==
    \A h \in Handlers :
        /\ req[h].at = "append" => Distinct(listed \cup req[h].rules) /\ Owned(req[h].rules)
        /\ req[h].at = "port" =>
              \A r \in req[h].rules, s \in listed : rule[s].num = req[h].num => s = r

Orderly == OneAtATime /\ Distinct(listed) /\ Owned(listed) /\ StillFree
AloneInv == Alone => Orderly

\* A request that begins alone finds all handlers at rest.
LEMMA BeginAlone ==
  ASSUME TypeInv, NEW h \in Handlers, NEW q, Begin(h, q), Alone'
  PROVE  /\ Alone
         /\ \A g \in Handlers : req[g].at = "idle"
         /\ \A g \in Handlers : req'[g] = IF g = h THEN q ELSE req[g]
         /\ OneAtATime'
  <1>1. Quiet /\ Alone
    <2>1. budget \in [requests : Nat, overlaps : Nat, fails : Nat]
      BY DEF TypeInv, TypeOK, Budget
    <2>2. Quiet
      <3> SUFFICES ASSUME ~Quiet PROVE FALSE
        OBVIOUS
      <3> QED BY <2>1 DEF Begin, Alone
    <2> QED BY <2>1, <2>2 DEF Begin, Alone
  <1>2. req \in [Handlers -> Request]
    BY DEF TypeInv, TypeOK, Request
  <1>3. \A g \in Handlers : req'[g] = IF g = h THEN q ELSE req[g]
    BY <1>2 DEF Begin
  <1> QED BY <1>1, <1>3 DEF Quiet, OneAtATime

\* A request that goes on, or ends, leaves the others where they are.
LEMMA OnlyMine ==
  ASSUME TypeInv, Orderly, NEW h \in Handlers, NEW q, req[h].at # "idle",
         req' = [req EXCEPT ![h] = q]
  PROVE  /\ \A g \in Handlers : req'[g] = IF g = h THEN q ELSE req[g]
         /\ \A g \in Handlers \ {h} : req'[g].at = "idle"
         /\ OneAtATime'
  <1>1. req \in [Handlers -> Request]
    BY DEF TypeInv, TypeOK, Request
  <1>2. \A g \in Handlers : req'[g] = IF g = h THEN q ELSE req[g]
    BY <1>1
  <1> QED BY <1>2 DEF Orderly, OneAtATime

\* A step after which no request is about to use what it checked.
LEMMA NothingToUse ==
  ASSUME OneAtATime', Distinct(listed)', Owned(listed)',
         \A g \in Handlers : req'[g].at \notin {"append", "port"}
  PROVE  Orderly'
BY DEF Orderly, StillFree

LEMMA SameAlone ==
  ASSUME TypeInv, AloneInv, Alone', budget' = budget
  PROVE  Orderly
BY DEF AloneInv, Alone

LEMMA GiveUpOrderly ==
  ASSUME TypeInv, AloneInv, Alone', NEW h \in Handlers, GiveUp(h), req[h].at # "idle",
         UNCHANGED <<users, rule, listed>>
  PROVE  Orderly'
  <1>1. Orderly
    <2>1. budget \in [requests : Nat, overlaps : Nat, fails : Nat]
      BY DEF TypeInv, TypeOK, Budget
    <2> QED BY <2>1 DEF GiveUp, AloneInv, Alone
  <1>2. /\ \A g \in Handlers : req'[g] = IF g = h THEN Idle ELSE req[g]
        /\ \A g \in Handlers \ {h} : req'[g].at = "idle"
        /\ OneAtATime'
    BY <1>1, OnlyMine DEF GiveUp
  <1>3. \A g \in Handlers : req'[g].at = "idle"
    BY <1>2 DEF Idle
  <1> QED BY <1>1, <1>2, <1>3, NothingToUse DEF Orderly, Distinct, Owned

LEMMA OrderlyStep == TypeInv /\ AloneInv /\ [Next]_vars => AloneInv'
  <1> SUFFICES ASSUME TypeInv, AloneInv, [Next]_vars, Alone' PROVE Orderly'
    BY DEF AloneInv
  <1>a. /\ req \in [Handlers -> Request] /\ rule \in [Rules -> Rule \cup {None}]
        /\ listed \subseteq Rules /\ \A r \in listed : rule[r] # None
    BY DEF TypeInv, TypeOK, Request
  <1>1. ASSUME NEW h \in Handlers, CreateAny(h) PROVE Orderly'
    <2>0. PICK u \in Users, S \in SUBSET Fresh :
            \E num \in [S -> Nums], protos \in SUBSET Protos, on \in BOOLEAN, b \in BOOLEAN :
              Create(h, u, num, protos, on, b) /\ Checked(u, num)
      BY <1>1, CreateAnyCreates
    <2>1. PICK num \in [S -> Nums], protos \in SUBSET Protos, on \in BOOLEAN, b \in BOOLEAN :
            Create(h, u, num, protos, on, b) /\ Checked(u, num)
      BY <2>0
    <2> DEFINE q == [Idle EXCEPT !.at = "append", !.rules = S, !.batch = b]
    <2>2. Begin(h, q) /\ UNCHANGED <<users, listed>>
      BY <2>1 DEF Create
    <2>3. q.at = "append" /\ q.rules = S
      BY DEF Idle
    <2> HIDE DEF q
    <2>4. /\ Alone /\ OneAtATime' /\ \A g \in Handlers : req[g].at = "idle"
          /\ \A g \in Handlers : req'[g] = IF g = h THEN q ELSE req[g]
      BY <2>2, BeginAlone
    <2>5. Orderly
      BY <2>4 DEF AloneInv
    <2>6. \A r \in listed : r \in Rules /\ r \notin S
      BY <1>a DEF Fresh
    <2>7. \A r \in Rules : rule'[r] = IF r \in S THEN [num |-> num[r], user |-> u, protos |-> protos, on |-> on]
                                     ELSE rule[r]
      BY <2>1 DEF Create
    <2>8. S \subseteq Rules
      BY DEF Fresh
    <2>9. /\ \A r \in S : rule'[r].num = num[r] /\ rule'[r].user = u
          /\ \A r \in listed : rule'[r] = rule[r]
      <3>1. \A r \in listed : rule'[r] = rule[r]
        BY <2>6, <2>7
      <3>2. ASSUME NEW r \in S PROVE rule'[r].num = num[r] /\ rule'[r].user = u
        <4>1. rule'[r] = [num |-> num[r], user |-> u, protos |-> protos, on |-> on]
          BY <2>7, <2>8
        <4> QED BY <4>1
      <3> QED BY <3>1, <3>2
    <2>10. Distinct(listed)' /\ Owned(listed)'
      BY <2>2, <2>5, <2>9 DEF Orderly, Distinct, Owned
    <2>11. Distinct(listed \cup S)' /\ Owned(S)'
      BY <2>1, <2>2, <2>9, <2>10 DEF Distinct, Owned, Checked, Free
    <2> QED BY <2>2, <2>3, <2>4, <2>10, <2>11 DEF Orderly, StillFree, Distinct, Owned
  <1>2. ASSUME NEW h \in Handlers, CreateAppend(h) PROVE Orderly'
    <2>1. Orderly
      BY <1>2, SameAlone DEF CreateAppend
    <2> DEFINE q == [req[h] EXCEPT !.at = "apply", !.touched = TRUE]
    <2>2. q.at = "apply" /\ req' = [req EXCEPT ![h] = q]
      BY <1>2, <1>a DEF CreateAppend, Request
    <2> HIDE DEF q
    <2>3. /\ \A g \in Handlers : req'[g] = IF g = h THEN q ELSE req[g]
          /\ \A g \in Handlers \ {h} : req'[g].at = "idle"
          /\ OneAtATime'
      BY <1>2, <2>1, <2>2, OnlyMine DEF CreateAppend
    <2>4. Distinct(listed)' /\ Owned(listed)'
      BY <1>2, <2>1 DEF CreateAppend, Orderly, StillFree, Distinct, Owned
    <2> QED BY <2>2, <2>3, <2>4, NothingToUse
  <1>3. ASSUME NEW h \in Handlers, SaveFails(h) PROVE Orderly'
    BY <1>3, GiveUpOrderly DEF SaveFails
  <1>4. ASSUME NEW h \in Handlers, NEW r \in Rules, NEW n \in Nums, EditCheck(h, r, n)
        PROVE  Orderly'
    <2> DEFINE q == [Idle EXCEPT !.at = IF n = rule[r].num THEN "user" ELSE "port",
                                 !.rules = {r}, !.num = n]
    <2>1. q.at \in {"user", "port"} /\ q.rules = {r} /\ q.num = n /\ (q.at = "port" => n # rule[r].num)
      BY DEF Idle
    <2>2. Begin(h, q) /\ UNCHANGED <<users, rule, listed>>
      BY <1>4 DEF EditCheck
    <2> HIDE DEF q
    <2>3. /\ Alone /\ OneAtATime' /\ \A g \in Handlers : req[g].at = "idle"
          /\ \A g \in Handlers : req'[g] = IF g = h THEN q ELSE req[g]
      BY <2>2, BeginAlone
    <2>4. Distinct(listed)' /\ Owned(listed)'
      BY <2>2, <2>3 DEF AloneInv, Orderly, Distinct, Owned
    <2>5. q.at = "port" => \A s \in listed : rule[s].num # n
      BY <1>4, <2>1 DEF EditCheck, Free
    <2> QED BY <2>1, <2>2, <2>3, <2>4, <2>5 DEF Orderly, StillFree
  <1>5. ASSUME NEW h \in Handlers, NEW r \in Rules, EditPort(h, r) PROVE Orderly'
    <2>1. Orderly
      BY <1>5, SameAlone DEF EditPort
    <2> DEFINE q == [req[h] EXCEPT !.at = "user", !.touched = TRUE]
    <2>2. q.at = "user" /\ req' = [req EXCEPT ![h] = q]
      BY <1>5, <1>a DEF EditPort, Request
    <2> HIDE DEF q
    <2>3. /\ \A g \in Handlers : req'[g] = IF g = h THEN q ELSE req[g]
          /\ \A g \in Handlers \ {h} : req'[g].at = "idle"
          /\ OneAtATime'
      BY <1>5, <2>1, <2>2, OnlyMine DEF EditPort
    <2>4. rule[r] \in Rule
      BY <1>5, RuleIsRule DEF EditPort, TypeInv, Grounded
    <2>5. /\ rule'[r].num = req[h].num /\ rule'[r].user = rule[r].user
          /\ \A s \in Rules : s # r => rule'[s] = rule[s]
      BY <1>5, <1>a, <2>4 DEF EditPort, Rule
    <2>6. \A s \in listed : rule[s].num = req[h].num => s = r
      BY <1>5, <2>1 DEF EditPort, Orderly, StillFree
    <2>7. Distinct(listed)' /\ Owned(listed)'
      BY <1>5, <1>a, <2>1, <2>5, <2>6 DEF EditPort, Orderly, Distinct, Owned
    <2> QED BY <2>2, <2>3, <2>7, NothingToUse
  <1>6. ASSUME NEW h \in Handlers, NEW r \in Rules, EditUser(h, r) PROVE Orderly'
    <2>1. CASE Goto(h, "rest") /\ UNCHANGED <<rule, budget, unapplied>>
      <3>1. Orderly
        BY <2>1, SameAlone
      <3> DEFINE q == [req[h] EXCEPT !.at = "rest"]
      <3>2. q.at = "rest" /\ req' = [req EXCEPT ![h] = q]
        BY <2>1, <1>a DEF Goto, Request
      <3> HIDE DEF q
      <3>3. /\ \A g \in Handlers : req'[g] = IF g = h THEN q ELSE req[g]
            /\ \A g \in Handlers \ {h} : req'[g].at = "idle"
            /\ OneAtATime'
        BY <1>6, <3>1, <3>2, OnlyMine DEF EditUser
      <3>4. Distinct(listed)' /\ Owned(listed)'
        BY <1>6, <2>1, <3>1 DEF EditUser, Orderly, Distinct, Owned
      <3> QED BY <3>2, <3>3, <3>4, NothingToUse
    <2>2. ASSUME NEW u \in users \ {rule[r].user},
                 rule' = [rule EXCEPT ![r].user = u],
                 req' = [req EXCEPT ![h].at = "rest", ![h].touched = TRUE],
                 UNCHANGED <<budget, unapplied>>
          PROVE  Orderly'
      <3>1. Orderly
        BY <2>2, SameAlone
      <3> DEFINE q == [req[h] EXCEPT !.at = "rest", !.touched = TRUE]
      <3>2. q.at = "rest" /\ req' = [req EXCEPT ![h] = q]
        BY <2>2, <1>a DEF Request
      <3> HIDE DEF q
      <3>3. /\ \A g \in Handlers : req'[g] = IF g = h THEN q ELSE req[g]
            /\ \A g \in Handlers \ {h} : req'[g].at = "idle"
            /\ OneAtATime'
        BY <1>6, <3>1, <3>2, OnlyMine DEF EditUser
      <3>4. rule[r] \in Rule
        BY <1>6, RuleIsRule DEF EditUser, TypeInv, Grounded
      <3>5. /\ rule'[r].num = rule[r].num /\ rule'[r].user = u
            /\ \A s \in Rules : s # r => rule'[s] = rule[s]
        BY <2>2, <1>a, <3>4 DEF Rule
      <3>6. Distinct(listed)' /\ Owned(listed)'
        BY <1>6, <1>a, <3>1, <3>5 DEF EditUser, Orderly, Distinct, Owned
      <3> QED BY <3>2, <3>3, <3>6, NothingToUse
    <2>3. CASE GiveUp(h) /\ UNCHANGED rule
      BY <1>6, <2>3, GiveUpOrderly DEF EditUser
    <2> QED BY <1>6, <2>1, <2>2, <2>3 DEF EditUser
  <1>7. ASSUME NEW h \in Handlers, NEW r \in Rules, EditRest(h, r) PROVE Orderly'
    <2>1. ASSUME NEW protos \in SUBSET Protos, NEW on \in BOOLEAN,
                 rule' = [rule EXCEPT ![r].protos = protos, ![r].on = on],
                 req' = [req EXCEPT ![h].at = "apply", ![h].touched = TRUE],
                 UNCHANGED <<budget, unapplied>>
          PROVE  Orderly'
      <3>1. Orderly
        BY <2>1, SameAlone
      <3> DEFINE q == [req[h] EXCEPT !.at = "apply", !.touched = TRUE]
      <3>2. q.at = "apply" /\ req' = [req EXCEPT ![h] = q]
        BY <2>1, <1>a DEF Request
      <3> HIDE DEF q
      <3>3. /\ \A g \in Handlers : req'[g] = IF g = h THEN q ELSE req[g]
            /\ \A g \in Handlers \ {h} : req'[g].at = "idle"
            /\ OneAtATime'
        BY <1>7, <3>1, <3>2, OnlyMine DEF EditRest
      <3>4. rule[r] \in Rule
        BY <1>7, RuleIsRule DEF EditRest, TypeInv, Grounded
      <3>5. /\ rule'[r].num = rule[r].num /\ rule'[r].user = rule[r].user
            /\ \A s \in Rules : s # r => rule'[s] = rule[s]
        BY <2>1, <1>a, <3>4 DEF Rule
      <3>6. Distinct(listed)' /\ Owned(listed)'
        BY <1>7, <1>a, <3>1, <3>5 DEF EditRest, Orderly, Distinct, Owned
      <3> QED BY <3>2, <3>3, <3>6, NothingToUse
    <2>2. CASE GiveUp(h) /\ UNCHANGED rule
      BY <1>7, <2>2, GiveUpOrderly DEF EditRest
    <2> QED BY <1>7, <2>1, <2>2 DEF EditRest
  <1>8. ASSUME NEW h \in Handlers, NEW q, Begin(h, q), q.at \in {"rest", "delete", "apply"},
               UNCHANGED rule, users' \subseteq users, listed' \subseteq listed,
               \A r \in listed' : rule[r].user \in users => rule[r].user \in users'
        PROVE  Orderly'
    <2>1. /\ Alone /\ OneAtATime' /\ \A g \in Handlers : req[g].at = "idle"
          /\ \A g \in Handlers : req'[g] = IF g = h THEN q ELSE req[g]
      BY <1>8, BeginAlone
    <2>2. Distinct(listed)' /\ Owned(listed)'
      BY <1>8, <2>1 DEF AloneInv, Orderly, Distinct, Owned
    <2> QED BY <1>8, <2>1, <2>2, NothingToUse
  <1>8a. ASSUME NEW h \in Handlers, NEW r \in Rules, UserEdit(h, r) PROVE Orderly'
    BY <1>8, <1>8a DEF UserEdit, Idle
  <1>8b. ASSUME NEW h \in Handlers, NEW r \in Rules, DeleteOne(h, r) PROVE Orderly'
    BY <1>8, <1>8b DEF DeleteOne, Idle
  <1>8c. ASSUME NEW h \in Handlers, NEW u \in Users, NEW rs \in SUBSET listed,
                DeleteBatch(h, u, rs)
         PROVE  Orderly'
    BY <1>8, <1>8c DEF DeleteBatch, Idle
  <1>9. ASSUME NEW h \in Handlers, DeleteRules(h) PROVE Orderly'
    <2>1. Orderly
      BY <1>9, SameAlone DEF DeleteRules
    <2> DEFINE q == [req[h] EXCEPT !.at = "apply", !.touched = TRUE]
    <2>2. q.at = "apply" /\ req' = [req EXCEPT ![h] = q]
      BY <1>9, <1>a DEF DeleteRules, Request
    <2> HIDE DEF q
    <2>3. /\ \A g \in Handlers : req'[g] = IF g = h THEN q ELSE req[g]
          /\ \A g \in Handlers \ {h} : req'[g].at = "idle"
          /\ OneAtATime'
      BY <1>9, <2>1, <2>2, OnlyMine DEF DeleteRules
    <2>4. Distinct(listed)' /\ Owned(listed)'
      BY <1>9, <2>1 DEF DeleteRules, Orderly, Distinct, Owned
    <2> QED BY <2>2, <2>3, <2>4, NothingToUse
  <1>10. ASSUME NEW h \in Handlers, NEW u \in Users, DeleteUser(h, u) PROVE Orderly'
    <2>1. \A r \in listed' : rule[r].user # u
      BY <1>10 DEF DeleteUser
    <2> QED BY <1>8, <1>10, <2>1 DEF DeleteUser, Idle
  <1>11. ASSUME NEW h \in Handlers, Refresh(h) PROVE Orderly'
    BY <1>8, <1>11 DEF Refresh, Idle
  <1>12. ASSUME NEW h \in Handlers, Reload(h) PROVE Orderly'
    <2>1. Orderly
      BY <1>12, SameAlone DEF Reload
    <2>2. /\ \A g \in Handlers : req'[g] = IF g = h THEN Idle ELSE req[g]
          /\ \A g \in Handlers \ {h} : req'[g].at = "idle"
          /\ OneAtATime'
      BY <1>12, <2>1, OnlyMine DEF Reload
    <2>3. \A g \in Handlers : req'[g].at = "idle"
      BY <2>2 DEF Idle
    <2>4. Distinct(listed)' /\ Owned(listed)'
      BY <1>12, <2>1 DEF Reload, Orderly, Distinct, Owned
    <2> QED BY <2>2, <2>3, <2>4, NothingToUse
  <1>13. CASE UNCHANGED vars
    <2>1. Orderly
      BY <1>13, SameAlone DEF vars
    <2> QED BY <1>13, <2>1 DEF vars, Orderly, OneAtATime, StillFree, Distinct, Owned
  <1> QED
    BY <1>1, <1>2, <1>3, <1>4, <1>5, <1>6, <1>7, <1>8a, <1>8b, <1>8c, <1>9, <1>10,
       <1>11, <1>12, <1>13
    DEF Next

LEMMA OrderlyInit == Init => AloneInv
BY DEF Init, AloneInv, Orderly, OneAtATime, StillFree, Distinct, Owned, Idle

\* Whatever creations, batches, edits and deletions follow one another, and
\* wherever an edit is refused, no number comes to be in two rules.
THEOREM NumbersUnique == Spec => []UniqueNumbers
  <1>1. AloneInv => UniqueNumbers
    BY DEF AloneInv, Orderly, Distinct, UniqueNumbers
  <1> QED BY TypeInit, TypeStep, OrderlyInit, OrderlyStep, <1>1, PTL DEF Spec

\* ... and no rule outlives its user.
THEOREM OwnersRemain == Spec => []OwnersExist
  <1>1. AloneInv => OwnersExist
    BY DEF AloneInv, Orderly, Owned, OwnersExist
  <1> QED BY TypeInit, TypeStep, OrderlyInit, OrderlyStep, <1>1, PTL DEF Spec
-----------------------------------------------------------------------------
(* Listeners while requests come one at a time *)

\* Every active rule has its listeners, but for the numbers that are taken.
Heard(r) ==
    \A p \in rule[r].protos :
        LET n == rule[r].num IN
        \/ socket[p][n] # None
        \/ n \in Taken[p]
        \/ "tcp" \in rule[r].protos /\ n \in Taken["tcp"]

HeardInv == Alone => Pending \/ \A r \in listed : Active(r) => Heard(r)

\* Two rules of one number would leave one of them without its protocol.
LEMMA ReloadHears ==
  ASSUME TypeInv, Distinct(listed), NEW h \in Handlers, Reload(h), NEW r \in listed, Active(r)
  PROVE  Heard(r)'
  <1>1. PICK d \in Desired :
          socket' = [p \in Protos |-> [n \in Nums |-> Reloaded(d, p, n)]]
    BY DEF Reload
  <1>2. r \in Rules /\ rule[r].num \in Nums /\ rule[r].protos \in SUBSET Protos
    BY RuleIsRule DEF TypeInv, TypeOK
  <1> DEFINE n == rule[r].num
  <1>3. n \in DOMAIN d /\ d[n] = r
    <2>1. n \in DOMAIN d /\ d[n] \in listed /\ rule[d[n]].num = n
      BY <1>1 DEF Desired
    <2> QED BY <2>1 DEF Distinct
  <1>4. UNCHANGED <<rule, listed>> /\ r # None
    BY <1>2, NoneAssumption DEF Reload
  <1>5. ASSUME NEW p \in rule[r].protos
        PROVE  \/ socket'[p][n] # None
               \/ n \in Taken[p]
               \/ "tcp" \in rule[r].protos /\ n \in Taken["tcp"]
    <2>1. socket'[p][n] = Reloaded(d, p, n)
      BY <1>1, <1>2
    <2> QED BY <1>2, <1>3, <1>4, <2>1 DEF Reloaded
  <1> QED BY <1>4, <1>5 DEF Heard

\* Nothing but the environment ends it, and it does not come back.
LEMMA AloneBefore == TypeInv /\ [Next]_vars /\ Alone' => Alone
  <1> SUFFICES ASSUME TypeInv, [Next]_vars, Alone'
               PROVE  Alone
    OBVIOUS
  <1>1. budget \in [requests : Nat, overlaps : Nat, fails : Nat]
    BY DEF TypeInv, TypeOK, Budget
  <1>2. CASE UNCHANGED budget
    BY <1>2 DEF Alone
  <1>3. ASSUME NEW h \in Handlers, NEW q, Begin(h, q)
        PROVE  Alone
    BY <1>1, <1>3 DEF Begin, Alone
  <1>4. ASSUME NEW h \in Handlers, GiveUp(h)
        PROVE  Alone
    BY <1>1, <1>4 DEF GiveUp, Alone
  <1>5. ASSUME NEW h \in Handlers, CreateAny(h)
        PROVE  Alone
    BY <1>3, <1>5, CreateAnyCreates DEF Create
  <1>6. ASSUME NEW h \in Handlers, NEW r \in Rules, EditUser(h, r) \/ EditRest(h, r)
        PROVE  Alone
    BY <1>2, <1>4, <1>6 DEF EditUser, EditRest
  <1>7. ASSUME NEW h \in Handlers, NEW r \in Rules,
               UserEdit(h, r) \/ DeleteOne(h, r) \/ \E n \in Nums : EditCheck(h, r, n)
        PROVE  Alone
    BY <1>3, <1>7 DEF UserEdit, DeleteOne, EditCheck
  <1>8. ASSUME NEW h \in Handlers, NEW u \in Users,
               DeleteUser(h, u) \/ (\E rs \in SUBSET listed : DeleteBatch(h, u, rs))
        PROVE  Alone
    BY <1>3, <1>8 DEF DeleteUser, DeleteBatch
  <1>9. ASSUME NEW h \in Handlers, Refresh(h)
        PROVE  Alone
    BY <1>3, <1>9 DEF Refresh
  <1>10. ASSUME NEW h \in Handlers,
                CreateAppend(h) \/ DeleteRules(h) \/ Reload(h) \/ \E r \in Rules : EditPort(h, r)
         PROVE  Alone
    BY <1>2, <1>10 DEF CreateAppend, DeleteRules, Reload, EditPort
  <1>11. ASSUME NEW h \in Handlers, SaveFails(h)
         PROVE  Alone
    BY <1>4, <1>11 DEF SaveFails
  <1>12. CASE UNCHANGED vars
    BY <1>2, <1>12 DEF vars
  <1> QED
    BY <1>5, <1>6, <1>7, <1>8, <1>9, <1>10, <1>11, <1>12 DEF Next

LEMMA HeardStep == TypeInv /\ AloneInv /\ HeardInv /\ [Next]_vars => HeardInv'
  <1> SUFFICES ASSUME TypeInv, AloneInv, HeardInv, [Next]_vars, Alone', ~Pending'
               PROVE  \A r \in listed' : Active(r)' => Heard(r)'
    BY DEF HeardInv
  <1>1. Alone /\ Distinct(listed)
    BY AloneBefore DEF AloneInv, Orderly
  <1>2. CASE ~Pending /\ Same
    BY <1>1, <1>2 DEF HeardInv, Same, Active, Heard
  <1>3. ASSUME NEW h \in Handlers, Reload(h)
        PROVE  \A r \in listed' : Active(r)' => Heard(r)'
    BY <1>1, <1>3, ReloadHears DEF Reload, Active
  <1> QED BY <1>2, <1>3, ChangesAreMarked

\* While requests come one at a time, whichever of them fail: once every change
\* was applied, every active rule has the listeners it asks for.
THEOREM RulesListen == Spec => []EveryRuleListens
  <1>1. Init => HeardInv
    BY DEF Init, HeardInv
  <1>2. TypeInv /\ HeardInv => EveryRuleListens
    BY DEF TypeInv, Grounded, Settled, Quiet, HeardInv, Pending, Heard, EveryRuleListens
  <1> QED BY TypeInit, TypeStep, OrderlyInit, OrderlyStep, HeardStep, <1>1, <1>2, PTL DEF Spec

-----------------------------------------------------------------------------
(* Listeners and their rules *)

\* A listener serves the rule of its number, if there is one; and the numbers a
\* request is about to use have no listener.
Mine ==
    \A p \in Protos, n \in Nums : socket[p][n] # None =>
        \A s \in listed : rule[s].num = n => s = socket[p][n]
Reserved ==
    \A h \in Handlers, p \in Protos :
        /\ req[h].at = "append" => \A r \in req[h].rules : socket[p][rule[r].num] = None
        /\ req[h].at = "port" => socket[p][req[h].num] = None

Calm == Alone /\ budget.fails = 0
MineInv == Calm => ~unapplied /\ Mine /\ Reserved

\* A request that begins while all is calm finds every listener with its rule.
LEMMA BeginCalm ==
  ASSUME TypeInv, AloneInv, Lagging, MineInv, NEW h \in Handlers, NEW q, Begin(h, q), Calm'
  PROVE  /\ Mine /\ Matched /\ ~unapplied
         /\ \A g \in Handlers : req[g].at = "idle"
         /\ \A g \in Handlers : req'[g] = IF g = h THEN q ELSE req[g]
  <1>1. /\ Alone /\ \A g \in Handlers : req[g].at = "idle"
        /\ \A g \in Handlers : req'[g] = IF g = h THEN q ELSE req[g]
    BY BeginAlone DEF Calm
  <1>2. budget.fails = 0
    BY DEF Begin, Calm, TypeInv, TypeOK, Budget
  <1>3. ~Pending
    BY <1>1, <1>2 DEF MineInv, Calm, Pending, TypeInv, Grounded
  <1> QED BY <1>1, <1>2, <1>3 DEF Lagging, MineInv, Calm

\* No rule has the number of a listener that is free, so there is no listener.
LEMMA FreeIsClosed ==
  ASSUME Matched, NEW p \in Protos, NEW n \in Nums, Free(n)
  PROVE  socket[p][n] = None
BY DEF Matched, Free

\* A step that gives no rule of the list another number.
LEMMA MineKept ==
  ASSUME Mine, listed' \subseteq listed, \A r \in listed' : rule'[r].num = rule[r].num, socket' = socket
  PROVE  Mine'
BY DEF Mine

\* A request that begins and is not about to use a number.
LEMMA BeginKeeps ==
  ASSUME TypeInv, AloneInv, Lagging, MineInv, Calm', NEW h \in Handlers, NEW q, Begin(h, q),
         q.at \notin {"append", "port"},
         UNCHANGED <<rule, socket, history>>, listed' \subseteq listed
  PROVE  ~unapplied' /\ Mine' /\ Reserved'
  <1>1. /\ Mine /\ ~unapplied
        /\ \A g \in Handlers : req[g].at = "idle"
        /\ \A g \in Handlers : req'[g] = IF g = h THEN q ELSE req[g]
    BY BeginCalm
  <1>2. Mine'
    BY <1>1, MineKept
  <1> QED BY <1>1, <1>2 DEF Reserved

\* A request that goes on and is not about to use a number.
LEMMA GoesOn ==
  ASSUME TypeInv, Orderly, NEW h \in Handlers, req[h].at # "idle",
         NEW q, req' = [req EXCEPT ![h] = q], q.at \notin {"append", "port"}
  PROVE  Reserved'
  <1>1. /\ \A g \in Handlers : req'[g] = IF g = h THEN q ELSE req[g]
        /\ \A g \in Handlers \ {h} : req'[g].at = "idle"
    BY OnlyMine
  <1>2. \A g \in Handlers : req'[g].at \notin {"append", "port"}
    BY <1>1
  <1> QED BY <1>2 DEF Reserved

LEMMA ReloadServes ==
  ASSUME TypeInv, Distinct(listed), Mine, NEW h \in Handlers, Reload(h)
  PROVE  Mine'
  <1>1. PICK d \in Desired :
          socket' = [p \in Protos |-> [n \in Nums |-> Reloaded(d, p, n)]]
    BY DEF Reload
  <1>2. UNCHANGED <<rule, listed>>
    BY DEF Reload
  <1>3. ASSUME NEW p \in Protos, NEW n \in Nums, socket'[p][n] # None,
               NEW s \in listed, rule[s].num = n
        PROVE  s = socket'[p][n]
    <2>1. socket'[p][n] = Reloaded(d, p, n)
      BY <1>1
    <2>2. n \in DOMAIN d /\ (socket'[p][n] = socket[p][n] \/ socket'[p][n] = d[n])
      BY <1>3, <2>1 DEF Reloaded
    <2>3. d[n] \in listed /\ rule[d[n]].num = n
      BY <1>1, <2>2 DEF Desired
    <2>4. s = d[n]
      BY <1>3, <2>3 DEF Distinct
    <2> QED BY <1>3, <2>2, <2>4 DEF Mine
  <1> QED BY <1>2, <1>3 DEF Mine

LEMMA MineStep == TypeInv /\ AloneInv /\ Lagging /\ MineInv /\ [Next]_vars => MineInv'
  <1> SUFFICES ASSUME TypeInv, AloneInv, Lagging, MineInv, [Next]_vars, Calm'
               PROVE  ~unapplied' /\ Mine' /\ Reserved'
    BY DEF MineInv
  <1> DEFINE Goal == ~unapplied' /\ Mine' /\ Reserved'
  <1>a. /\ req \in [Handlers -> Request] /\ rule \in [Rules -> Rule \cup {None}]
        /\ listed \subseteq Rules /\ \A r \in listed : rule[r] # None
    BY DEF TypeInv, TypeOK, Request
  <1>b. Alone /\ Orderly
    BY AloneBefore DEF AloneInv, Calm
  <1>c. ASSUME budget' = budget
        PROVE  ~unapplied /\ Mine /\ Reserved
    BY <1>b, <1>c DEF MineInv, Calm
  <1>d. ASSUME NEW h \in Handlers, GiveUp(h)
        PROVE  FALSE
    <2>1. budget \in [requests : Nat, overlaps : Nat, fails : Nat]
      BY DEF TypeInv, TypeOK, Budget
    <2> QED BY <1>d, <2>1 DEF GiveUp, Calm
  <1> HIDE DEF Goal
  <1>1. ASSUME NEW h \in Handlers, CreateAny(h) PROVE Goal
    <2>0. PICK u \in Users, S \in SUBSET Fresh :
            \E num \in [S -> Nums], protos \in SUBSET Protos, on \in BOOLEAN, b \in BOOLEAN :
              Create(h, u, num, protos, on, b) /\ Checked(u, num)
      BY <1>1, CreateAnyCreates
    <2>1. PICK num \in [S -> Nums], protos \in SUBSET Protos, on \in BOOLEAN, b \in BOOLEAN :
            Create(h, u, num, protos, on, b) /\ Checked(u, num)
      BY <2>0
    <2> DEFINE q == [Idle EXCEPT !.at = "append", !.rules = S, !.batch = b]
    <2>2. Begin(h, q) /\ UNCHANGED <<listed, socket, history>>
      BY <2>1 DEF Create
    <2>3. q.at = "append" /\ q.rules = S
      BY DEF Idle
    <2> HIDE DEF q
    <2>4. /\ Mine /\ Matched /\ ~unapplied
          /\ \A g \in Handlers : req[g].at = "idle"
          /\ \A g \in Handlers : req'[g] = IF g = h THEN q ELSE req[g]
      BY <2>2, BeginCalm
    <2>5. S \subseteq Rules /\ \A r \in listed : r \in Rules /\ r \notin S
      BY <1>a DEF Fresh
    <2>6. /\ \A r \in listed : rule'[r] = rule[r]
          /\ \A r \in S : rule'[r] = [num |-> num[r], user |-> u, protos |-> protos, on |-> on]
      BY <2>1, <2>5 DEF Create
    <2>7. ASSUME NEW r \in S
          PROVE  rule'[r].num = num[r] /\ num[r] \in Nums /\ Free(num[r])
      <3>1. rule'[r] = [num |-> num[r], user |-> u, protos |-> protos, on |-> on]
        BY <2>6
      <3>2. rule'[r].num = num[r]
        BY <3>1
      <3> QED BY <2>1, <3>2 DEF Checked
    <2>8. Reserved'
      BY <2>2, <2>3, <2>4, <2>7, FreeIsClosed DEF Reserved
    <2>9. Mine'
      BY <2>2, <2>4, <2>6, MineKept
    <2> QED BY <2>2, <2>4, <2>8, <2>9 DEF Goal
  <1>2. ASSUME NEW h \in Handlers, CreateAppend(h) PROVE Goal
    <2> DEFINE q == [req[h] EXCEPT !.at = "apply", !.touched = TRUE]
    <2>1. q.at = "apply" /\ req' = [req EXCEPT ![h] = q]
      BY <1>2, <1>a DEF CreateAppend, Request
    <2> HIDE DEF q
    <2>2. ~unapplied /\ Mine /\ Reserved
      BY <1>2, <1>c DEF CreateAppend
    <2>3. Mine'
      BY <1>2, <2>2 DEF CreateAppend, Mine, Reserved
    <2> QED BY <1>2, <1>b, <2>1, <2>2, <2>3, GoesOn DEF CreateAppend, Goal
  <1>3. ASSUME NEW h \in Handlers, SaveFails(h) PROVE Goal
    BY <1>3, <1>d DEF SaveFails
  <1>4. ASSUME NEW h \in Handlers, NEW r \in Rules, NEW n \in Nums, EditCheck(h, r, n)
        PROVE  Goal
    <2> DEFINE q == [Idle EXCEPT !.at = IF n = rule[r].num THEN "user" ELSE "port",
                                 !.rules = {r}, !.num = n]
    <2>1. q.at \in {"user", "port"} /\ q.num = n /\ (q.at = "port" => n # rule[r].num)
      BY DEF Idle
    <2>2. Begin(h, q) /\ UNCHANGED <<rule, listed, socket, history>>
      BY <1>4 DEF EditCheck
    <2> HIDE DEF q
    <2>3. /\ Mine /\ Matched /\ ~unapplied
          /\ \A g \in Handlers : req[g].at = "idle"
          /\ \A g \in Handlers : req'[g] = IF g = h THEN q ELSE req[g]
      BY <2>2, BeginCalm
    <2>4. q.at = "port" => \A p \in Protos : socket[p][n] = None
      BY <1>4, <2>1, <2>3, FreeIsClosed DEF EditCheck
    <2>5. Mine'
      BY <2>2, <2>3, MineKept
    <2> QED BY <2>1, <2>2, <2>3, <2>4, <2>5 DEF Reserved, Goal
  <1>5. ASSUME NEW h \in Handlers, NEW r \in Rules, EditPort(h, r) PROVE Goal
    <2> DEFINE q == [req[h] EXCEPT !.at = "user", !.touched = TRUE]
    <2>1. q.at = "user" /\ req' = [req EXCEPT ![h] = q]
      BY <1>5, <1>a DEF EditPort, Request
    <2> HIDE DEF q
    <2>2. ~unapplied /\ Mine /\ Reserved
      BY <1>5, <1>c DEF EditPort
    <2>3. rule[r] \in Rule
      BY <1>5, RuleIsRule DEF EditPort, TypeInv, Grounded
    <2>4. rule'[r].num = req[h].num /\ \A s \in Rules : s # r => rule'[s] = rule[s]
      BY <1>5, <1>a, <2>3 DEF EditPort, Rule
    <2>5. \A p \in Protos : socket[p][req[h].num] = None
      BY <1>5, <2>2 DEF EditPort, Reserved
    <2>6. Mine'
      BY <1>5, <1>a, <2>2, <2>4, <2>5 DEF EditPort, Mine
    <2> QED BY <1>5, <1>b, <2>1, <2>2, <2>6, GoesOn DEF EditPort, Goal
  <1>6. ASSUME NEW h \in Handlers, NEW r \in Rules, EditUser(h, r) PROVE Goal
    <2>1. CASE Goto(h, "rest") /\ UNCHANGED <<rule, budget, unapplied>>
      <3> DEFINE q == [req[h] EXCEPT !.at = "rest"]
      <3>1. q.at = "rest" /\ req' = [req EXCEPT ![h] = q]
        BY <2>1, <1>a DEF Goto, Request
      <3> HIDE DEF q
      <3>2. ~unapplied /\ Mine
        BY <2>1, <1>c
      <3>3. Mine'
        BY <1>6, <2>1, <3>2, MineKept DEF EditUser
      <3> QED BY <1>6, <1>b, <2>1, <3>1, <3>2, <3>3, GoesOn DEF EditUser, Goal
    <2>2. ASSUME NEW u \in users \ {rule[r].user},
                 rule' = [rule EXCEPT ![r].user = u],
                 req' = [req EXCEPT ![h].at = "rest", ![h].touched = TRUE],
                 UNCHANGED <<budget, unapplied>>
          PROVE  Goal
      <3> DEFINE q == [req[h] EXCEPT !.at = "rest", !.touched = TRUE]
      <3>1. q.at = "rest" /\ req' = [req EXCEPT ![h] = q]
        BY <2>2, <1>a DEF Request
      <3> HIDE DEF q
      <3>2. ~unapplied /\ Mine
        BY <2>2, <1>c
      <3>3. rule[r] \in Rule
        BY <1>6, RuleIsRule DEF EditUser, TypeInv, Grounded
      <3>4. \A s \in Rules : rule'[s].num = rule[s].num
        BY <2>2, <1>a, <3>3 DEF Rule
      <3>5. Mine'
        BY <1>6, <1>a, <3>2, <3>4, MineKept DEF EditUser
      <3> QED BY <1>6, <1>b, <2>2, <3>1, <3>2, <3>5, GoesOn DEF EditUser, Goal
    <2>3. CASE GiveUp(h) /\ UNCHANGED rule
      BY <1>d, <2>3
    <2> QED BY <1>6, <2>1, <2>2, <2>3 DEF EditUser
  <1>7. ASSUME NEW h \in Handlers, NEW r \in Rules, EditRest(h, r) PROVE Goal
    <2>1. ASSUME NEW protos \in SUBSET Protos, NEW on \in BOOLEAN,
                 rule' = [rule EXCEPT ![r].protos = protos, ![r].on = on],
                 req' = [req EXCEPT ![h].at = "apply", ![h].touched = TRUE],
                 UNCHANGED <<budget, unapplied>>
          PROVE  Goal
      <3> DEFINE q == [req[h] EXCEPT !.at = "apply", !.touched = TRUE]
      <3>1. q.at = "apply" /\ req' = [req EXCEPT ![h] = q]
        BY <2>1, <1>a DEF Request
      <3> HIDE DEF q
      <3>2. ~unapplied /\ Mine
        BY <2>1, <1>c
      <3>3. rule[r] \in Rule
        BY <1>7, RuleIsRule DEF EditRest, TypeInv, Grounded
      <3>4. \A s \in Rules : rule'[s].num = rule[s].num
        BY <2>1, <1>a, <3>3 DEF Rule
      <3>5. Mine'
        BY <1>7, <1>a, <3>2, <3>4, MineKept DEF EditRest
      <3> QED BY <1>7, <1>b, <2>1, <3>1, <3>2, <3>5, GoesOn DEF EditRest, Goal
    <2>2. CASE GiveUp(h) /\ UNCHANGED rule
      BY <1>d, <2>2
    <2> QED BY <1>7, <2>1, <2>2 DEF EditRest
  <1>8a. ASSUME NEW h \in Handlers, NEW r \in Rules, UserEdit(h, r) PROVE Goal
    BY <1>8a, BeginKeeps DEF UserEdit, Idle, Goal
  <1>8b. ASSUME NEW h \in Handlers, NEW r \in Rules, DeleteOne(h, r) PROVE Goal
    BY <1>8b, BeginKeeps DEF DeleteOne, Idle, Goal
  <1>8c. ASSUME NEW h \in Handlers, NEW u \in Users, NEW rs \in SUBSET listed,
                DeleteBatch(h, u, rs)
         PROVE  Goal
    BY <1>8c, BeginKeeps DEF DeleteBatch, Idle, Goal
  <1>9. ASSUME NEW h \in Handlers, DeleteRules(h) PROVE Goal
    <2> DEFINE q == [req[h] EXCEPT !.at = "apply", !.touched = TRUE]
    <2>1. q.at = "apply" /\ req' = [req EXCEPT ![h] = q]
      BY <1>9, <1>a DEF DeleteRules, Request
    <2> HIDE DEF q
    <2>2. ~unapplied /\ Mine
      BY <1>9, <1>c DEF DeleteRules
    <2>3. Mine'
      BY <1>9, <2>2, MineKept DEF DeleteRules
    <2> QED BY <1>9, <1>b, <2>1, <2>2, <2>3, GoesOn DEF DeleteRules, Goal
  <1>10. ASSUME NEW h \in Handlers, NEW u \in Users, DeleteUser(h, u) PROVE Goal
    BY <1>10, BeginKeeps DEF DeleteUser, Idle, Goal
  <1>11. ASSUME NEW h \in Handlers, Refresh(h) PROVE Goal
    BY <1>11, BeginKeeps DEF Refresh, Idle, Goal
  <1>12. ASSUME NEW h \in Handlers, Reload(h) PROVE Goal
    <2>1. ~unapplied' /\ Mine
      BY <1>12, <1>c DEF Reload
    <2>2. Mine'
      BY <1>12, <1>b, <2>1, ReloadServes DEF Orderly
    <2>3. Reserved'
      BY <1>12, <1>b, GoesOn DEF Reload, Idle
    <2> QED BY <2>1, <2>2, <2>3 DEF Goal
  <1>13. CASE UNCHANGED vars
    BY <1>13, <1>c DEF vars, Mine, Reserved, Goal
  <1> QED
    BY <1>1, <1>2, <1>3, <1>4, <1>5, <1>6, <1>7, <1>8a, <1>8b, <1>8c, <1>9, <1>10,
       <1>11, <1>12, <1>13
    DEF Next, Goal

\* While requests come one at a time and none is refused half-way: once every
\* change was applied, what comes in on a port is served by the rule of its number.
THEOREM ListenersServe == Spec => []ServesItsRule
  <1>1. Init => Lagging /\ MineInv
    BY DEF Init, Lagging, Matched, MineInv, Mine, Reserved, Idle
  <1>2. TypeInv /\ Lagging /\ MineInv => ServesItsRule
    <2> SUFFICES ASSUME TypeInv, Lagging, MineInv, Settled, Calm,
                        NEW p \in Protos, NEW n \in Nums, socket[p][n] # None
                 PROVE  socket[p][n] \in listed /\ rule[socket[p][n]].num = n
      BY DEF ServesItsRule, Calm
    <2>1. Matched
      BY DEF TypeInv, Grounded, Settled, Quiet, Lagging, Pending
    <2> QED BY <2>1 DEF Matched, MineInv, Mine
  <1> QED BY TypeInit, TypeStep, OrderlyInit, OrderlyStep, LaggingStep, MineStep, <1>1, <1>2, PTL DEF Spec
=============================================================================
