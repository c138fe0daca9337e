--------------------------- MODULE AccountsProofs ---------------------------
(***************************************************************************)
(* What holds of users, groups and sessions for any number of handlers,    *)
(* requests, names and ranges, as long as the requests that could disturb  *)
(* it did not run at the same time.                                        *)
(***************************************************************************)
EXTENDS Accounts, FiniteSetTheorems, SequenceTheorems, WellFoundedInduction, TLAPS

-----------------------------------------------------------------------------
(* Lookups *)

LEMMA SmallestIsThere ==
  ASSUME NEW S \in SUBSET Nat, S # {}
  PROVE  Min(S) \in S
  <1> DEFINE R == {ss \in Nat \X Nat : ss[1] < ss[2]}
  <1>1. IsWellFoundedOn(R, Nat)
    BY NatLessThanWellFounded DEF OpToRel
  <1>2. \E x \in S : \A y \in S : <<y, x>> \notin R
    <2> HIDE DEF R
    <2> QED BY <1>1, WFMin
  <1>3. PICK x \in S : \A y \in S : <<y, x>> \notin R
    BY <1>2
  <1>4. \A y \in S : x <= y
    <2> SUFFICES ASSUME NEW y \in S PROVE x <= y
      OBVIOUS
    <2>1. <<y, x>> \in R <=> y < x
      OBVIOUS
    <2> QED BY <1>3, <2>1
  <1> QED BY <1>4 DEF Min

\* A lookup finds one of those that fit, and 0 only if there is none.
LEMMA FirstIsHit ==
  ASSUME NEW S \in SUBSET (Nat \ {0})
  PROVE  /\ S = {} => First(S) = NoUser
         /\ S # {} => First(S) \in S /\ First(S) # NoUser
BY SmallestIsThere DEF First, NoUser

-----------------------------------------------------------------------------
(* The paths of the requests *)

LEMMA PathLengths ==
  /\ Kinds = {"create", "register", "edit", "dropUser", "newGroup", "dropGroup",
              "settings", "login", "none"}
  /\ Len(Path["create"]) = 6 /\ Len(Path["register"]) = 6 /\ Len(Path["edit"]) = 6
  /\ Len(Path["dropUser"]) = 2 /\ Len(Path["newGroup"]) = 3 /\ Len(Path["dropGroup"]) = 2
  /\ Len(Path["settings"]) = 2 /\ Len(Path["login"]) = 1 /\ Len(Path["none"]) = 0
BY DEF Path, Kinds

\* Which requests come by a step, and when.
Meets(h, kind, n) == req[h].kind = kind /\ req[h].step = n

LEMMA Steps ==
  ASSUME NEW h \in Handlers, req[h].kind \in Kinds, req[h].step \in 1 .. 7
  PROVE  /\ At(h, "name") => Meets(h, "create", 1) \/ Meets(h, "register", 1) \/ Meets(h, "edit", 1)
         /\ At(h, "setName") => Meets(h, "edit", 2)
         /\ At(h, "group") => \/ Meets(h, "create", 2) \/ Meets(h, "register", 2)
                              \/ Meets(h, "edit", 3) \/ Meets(h, "settings", 1)
         /\ At(h, "setGroup") => Meets(h, "edit", 4)
         /\ At(h, "ranges") => Meets(h, "create", 3) \/ Meets(h, "edit", 5)
         /\ At(h, "setRest") => Meets(h, "edit", 6)
         /\ At(h, "id") => Meets(h, "create", 4) \/ Meets(h, "register", 3) \/ Meets(h, "newGroup", 1)
         /\ At(h, "stamp") => Meets(h, "create", 5) \/ Meets(h, "register", 4) \/ Meets(h, "newGroup", 2)
         /\ At(h, "append") => Meets(h, "create", 6) \/ Meets(h, "register", 5) \/ Meets(h, "newGroup", 3)
         /\ At(h, "session") => Meets(h, "register", 6) \/ Meets(h, "login", 1)
         /\ At(h, "self") => Meets(h, "dropUser", 1)
         /\ At(h, "members") => Meets(h, "dropGroup", 1)
         /\ At(h, "drop") => Meets(h, "dropUser", 2) \/ Meets(h, "dropGroup", 2)
         /\ At(h, "store") => Meets(h, "settings", 2)
  <1> DEFINE k == req[h].kind
             n == req[h].step
  <1>1. CASE k = "create"
    BY <1>1 DEF At, Meets, Path
  <1>2. CASE k = "register"
    BY <1>2 DEF At, Meets, Path
  <1>3. CASE k = "edit"
    BY <1>3 DEF At, Meets, Path
  <1>4. CASE k = "dropUser"
    BY <1>4 DEF At, Meets, Path
  <1>5. CASE k = "newGroup"
    BY <1>5 DEF At, Meets, Path
  <1>6. CASE k = "dropGroup"
    BY <1>6 DEF At, Meets, Path
  <1>7. CASE k = "settings"
    BY <1>7 DEF At, Meets, Path
  <1>8. CASE k = "login"
    BY <1>8 DEF At, Meets, Path
  <1>9. CASE k = "none"
    BY <1>9 DEF At, Meets, Path
  <1> QED BY <1>1, <1>2, <1>3, <1>4, <1>5, <1>6, <1>7, <1>8, <1>9, PathLengths

-----------------------------------------------------------------------------
(* Types *)

Person == [id : Nat, name : Names, group : Nat, ranges : Given]
Request == [kind : Kinds, step : 1 .. 7, token : Nat, id : Nat, of : Nat,
            name : Names \cup {NoName}, group : Nat, ranges : Given]

\* What a request needs at a step, and its earlier steps have found.
Ready(us, r) ==
    /\ r.kind = "edit" => r.of \in DOMAIN us /\ us[r.of].id = r.id
    /\ r.kind = "create" => r.name # NoName
    /\ r.kind = "register" => IF r.step = 6 THEN r.of \in DOMAIN us ELSE r.name # NoName /\ r.ranges = {}
    /\ r.kind = "login" => r.of \in DOMAIN us

Typed ==
    /\ TypeOK
    /\ \A h \in Handlers : Ready(user, req[h])
    /\ \A k \in DOMAIN sessions : sessions[k].id = user[sessions[k].owner].id

LEMMA NoRequestType == NoRequest \in Request
BY PathLengths DEF NoRequest, Request, NoUser, Given

LEMMA UserFacts ==
  ASSUME user \in Seq(Person)
  PROVE  /\ Len(user) \in Nat /\ DOMAIN user = 1 .. Len(user)
         /\ DOMAIN user \in SUBSET (Nat \ {0})
         /\ \A u \in DOMAIN user : /\ user[u] \in Person
                                   /\ user[u].id \in Nat /\ user[u].name \in Names
                                   /\ user[u].group \in Nat /\ user[u].ranges \in Given
  <1>1. Len(user) \in Nat /\ DOMAIN user = 1 .. Len(user) /\ user \in [1 .. Len(user) -> Person]
    BY LenProperties
  <1> QED BY <1>1 DEF Person

\* A change of one object: the others, and how many there are, stay.
LEMMA ChangeType ==
  ASSUME user \in Seq(Person), NEW u \in DOMAIN user, NEW e \in Person,
         user' = [user EXCEPT ![u] = e]
  PROVE  /\ user' \in Seq(Person) /\ DOMAIN user' = DOMAIN user
         /\ user'[u] = e
         /\ \A v \in DOMAIN user \ {u} : user'[v] = user[v]
  <1>1. u \in 1 .. Len(user) /\ user \in [1 .. Len(user) -> Person]
    BY LenProperties
  <1>2. user' \in Seq(Person)
    BY <1>1, ExceptSeq
  <1> QED BY <1>1, <1>2

LEMMA AppendType ==
  ASSUME user \in Seq(Person), NEW e \in Person, user' = Append(user, e)
  PROVE  /\ user' \in Seq(Person) /\ DOMAIN user' = DOMAIN user \cup {Len(user) + 1}
         /\ Len(user) + 1 \notin DOMAIN user
         /\ user'[Len(user) + 1] = e
         /\ \A v \in DOMAIN user : user'[v] = user[v]
  <1>1. Len(user) \in Nat /\ DOMAIN user = 1 .. Len(user)
    BY LenProperties
  <1>2. user' \in Seq(Person) /\ Len(user') = Len(user) + 1
    BY AppendProperties
  <1>3. DOMAIN user' = 1 .. (Len(user) + 1)
    BY <1>2, LenProperties
  <1>4. user'[Len(user) + 1] = e /\ \A v \in 1 .. Len(user) : user'[v] = user[v]
    BY AppendProperties
  <1> QED BY <1>1, <1>2, <1>3, <1>4

\* Lookups find listed users, and only those that fit.
LEMMA Found ==
  ASSUME user \in Seq(Person), users \subseteq DOMAIN user
  PROVE  /\ \A id : LET hits == {u \in users : user[u].id = id} IN
                    IF hits = {} THEN UserByID(id) = NoUser ELSE UserByID(id) \in hits
         /\ \A name : LET hits == {u \in users : user[u].name = name} IN
                      IF hits = {} THEN UserByName(name) = NoUser ELSE UserByName(name) \in hits
         /\ NoUser \notin users
  <1>1. users \subseteq Nat \ {0}
    BY UserFacts
  <1> QED BY <1>1, FirstIsHit DEF UserByID, UserByName, NoUser

\* A request goes on or ends.
LEMMA Moves ==
  ASSUME NEW h \in Handlers, req \in [Handlers -> Request], NEW r \in Request,
         r.kind = req[h].kind, r.step = req[h].step, NEW s, At(h, s), GoOn(h, r)
  PROVE  /\ req' \in [Handlers -> Request]
         /\ \A o \in Handlers \ {h} : req'[o] = req[o]
         /\ req'[h] = IF r.step = Len(Path[r.kind]) THEN NoRequest ELSE [r EXCEPT !.step = @ + 1]
         /\ req'[h].kind \in {req[h].kind, "none"}
  <1> DEFINE L == Len(Path[r.kind])
             e == IF r.step = L THEN NoRequest ELSE [r EXCEPT !.step = @ + 1]
  <1>1. L \in 0 .. 6 /\ r.step <= L /\ r.step \in 1 .. 7
    BY PathLengths DEF At, Request
  <1>2. req' = [req EXCEPT ![h] = e]
    BY DEF GoOn
  <1> HIDE DEF L
  <1>3. e \in Request
    BY <1>1, NoRequestType DEF Request
  <1>4. e.kind \in {r.kind, "none"}
    BY DEF NoRequest, Request
  <1> HIDE DEF e
  <1>5. /\ req' \in [Handlers -> Request] /\ req'[h] = e
        /\ \A o \in Handlers \ {h} : req'[o] = req[o]
    BY <1>2, <1>3
  <1> QED BY <1>4, <1>5 DEF e, L

LEMMA Ends ==
  ASSUME NEW h \in Handlers, req \in [Handlers -> Request], Refuse(h)
  PROVE  /\ req' \in [Handlers -> Request]
         /\ \A o \in Handlers \ {h} : req'[o] = req[o]
         /\ req'[h] = NoRequest
BY NoRequestType DEF Refuse

\* What a request is after a step that leaves it r.
After(r) == IF r.step = Len(Path[r.kind]) THEN NoRequest ELSE [r EXCEPT !.step = @ + 1]

LEMMA Checked ==
  ASSUME NEW h \in Handlers, req \in [Handlers -> Request], NEW s, At(h, s),
         NEW ok, Check(h, ok)
  PROVE  /\ req' \in [Handlers -> Request]
         /\ \A o \in Handlers \ {h} : req'[o] = req[o]
         /\ req'[h] = NoRequest \/ (ok /\ req'[h] = After(req[h]))
         /\ req'[h].kind \in {req[h].kind, "none"}
  <1>1. CASE ok /\ Next_(h)
    BY <1>1, Moves DEF Next_, After
  <1>2. CASE Refuse(h)
    <2>1. NoRequest.kind = "none"
      BY DEF NoRequest
    <2> HIDE DEF NoRequest
    <2> QED BY <1>2, <2>1, Ends
  <1> QED BY <1>1, <1>2 DEF Check

\* Where After leads.
LEMMA AfterIs ==
  ASSUME NEW r \in Request, r.step <= Len(Path[r.kind])
  PROVE  /\ After(r) \in Request
         /\ After(r) = NoRequest \/ After(r) = [r EXCEPT !.step = r.step + 1]
         /\ After(r).kind \in {r.kind, "none"}
  <1>1. Len(Path[r.kind]) \in 0 .. 6
    BY PathLengths DEF Request
  <1>2. CASE After(r) = NoRequest
    BY <1>2, NoRequestType DEF NoRequest
  <1>3. CASE After(r) = [r EXCEPT !.step = r.step + 1] /\ r.step # Len(Path[r.kind])
    <2>1. r.step + 1 \in 1 .. 7
      <3> DEFINE L == Len(Path[r.kind])
      <3>1. L \in 0 .. 6 /\ r.step \in 1 .. 7 /\ r.step <= L
        BY <1>1 DEF Request
      <3> HIDE DEF L
      <3> QED BY <3>1
    <2>2. [r EXCEPT !.step = r.step + 1] \in Request /\ [r EXCEPT !.step = r.step + 1].kind = r.kind
      BY <2>1 DEF Request
    <2> QED BY <1>3, <2>2
  <1> QED BY <1>2, <1>3 DEF After

-----------------------------------------------------------------------------
(* What the steps do *)

Session == [id : Nat, owner : DOMAIN user, idle : 0 .. (Ttl + 1)]

\* Sessions may go and their time begin anew; whose they are stays.
SessionsStay ==
    /\ DOMAIN sessions' \subseteq DOMAIN sessions
    /\ \A k \in DOMAIN sessions' :
          /\ sessions'[k] \in Session
          /\ sessions'[k].id = sessions[k].id /\ sessions'[k].owner = sessions[k].owner

LEMMA SessionFacts ==
  ASSUME TypeOK
  PROVE  \A k \in DOMAIN sessions : sessions[k] \in Session
BY DEF TypeOK, Session

LEMMA GetStays ==
  ASSUME TypeOK, NEW k, sessions' = Get(k)
  PROVE  SessionsStay
  <1>1. \A j \in DOMAIN sessions : sessions[j] \in Session
    BY SessionFacts
  <1>2. CASE Fresh(k)
    <2>1. sessions' = [sessions EXCEPT ![k].idle = 0]
      BY <1>2 DEF Get
    <2>2. 0 \in 0 .. (Ttl + 1) /\ k \in DOMAIN sessions
      BY <1>2, BoundsAssumption DEF Fresh
    <2> QED BY <1>1, <2>1, <2>2 DEF SessionsStay, Session
  <1>3. CASE ~Fresh(k)
    BY <1>1, <1>3 DEF Get, Without, Restrict, SessionsStay
  <1> QED BY <1>2, <1>3

LEMMA WithoutStays ==
  ASSUME TypeOK, NEW ks, sessions' = Without(ks)
  PROVE  SessionsStay
BY SessionFacts DEF Without, Restrict, SessionsStay

LEMMA SameStays ==
  ASSUME TypeOK, sessions' = sessions
  PROVE  SessionsStay
BY SessionFacts DEF SessionsStay

LEMMA Serves ==
  ASSUME NEW k, getUser(k) # NoUser
  PROVE  k \in DOMAIN sessions
BY DEF getUser, Fresh

\* The session k, if it is still there, is that of a listed administrator.
AskedBy(k) ==
    /\ k \in 1 .. budget.tokens
    /\ k \in DOMAIN sessions => \E u \in users \cap admins : user[u].id = sessions[k].id

\* A request taken up by h: which it is, and what contends with it.
Taken(h, r) ==
    /\ req[h].kind = "none"
    /\ r \in Request /\ r.step = 1 /\ Ready(user, r)
    /\ r.kind \notin {"none"}
    /\ req' = [req EXCEPT ![h] = r]
    /\ UNCHANGED <<store, roles>>
    /\ SessionsStay
    /\ budget' \in [tokens : 0 .. MaxTokens, requests : 0 .. MaxRequests, overlaps : 0 .. MaxOverlaps]
    /\ budget'.tokens = budget.tokens
    /\ met \subseteq met' /\ met' \subseteq Contended
    /\ \A o \in Handlers \ {h} : Contest(r.kind, req[o].kind) \subseteq met'
    /\ r.kind = "dropUser" => AskedBy(r.token)

LEMMA BeginTakes ==
  ASSUME Typed, NEW h \in Handlers, NEW r \in Request, r.step = 1, Ready(user, r), r.kind # "none",
         r.kind = "dropUser" => AskedBy(r.token), Begin(h, r), SessionsStay
  PROVE  Taken(h, r)
  <1>1. budget \in [tokens : 0 .. MaxTokens, requests : 0 .. MaxRequests, overlaps : 0 .. MaxOverlaps]
    BY DEF Typed, TypeOK
  <1>2. \E b \in BOOLEAN :
           /\ b => budget.overlaps < MaxOverlaps
           /\ budget' = [budget EXCEPT !.requests = @ + 1, !.overlaps = IF b THEN @ + 1 ELSE @]
    BY DEF Begin
  <1>3. /\ budget' \in [tokens : 0 .. MaxTokens, requests : 0 .. MaxRequests, overlaps : 0 .. MaxOverlaps]
        /\ budget'.tokens = budget.tokens
    <2>1. budget.requests + 1 \in 0 .. MaxRequests
      BY <1>1, BoundsAssumption DEF Begin
    <2>2. CASE budget' = [budget EXCEPT !.requests = @ + 1, !.overlaps = @]
      BY <1>1, <2>1, <2>2
    <2>3. CASE /\ budget.overlaps < MaxOverlaps
               /\ budget' = [budget EXCEPT !.requests = @ + 1, !.overlaps = @ + 1]
      <3>1. budget.overlaps + 1 \in 0 .. MaxOverlaps
        BY <1>1, <2>3, BoundsAssumption
      <3> QED BY <1>1, <2>1, <2>3, <3>1
    <2> QED BY <1>2, <2>2, <2>3
  <1>4. met \subseteq met' /\ met' \subseteq Contended
    BY DEF Begin, Contest, Typed, TypeOK
  <1>5. \A o \in Handlers \ {h} : Contest(r.kind, req[o].kind) \subseteq met'
    BY DEF Begin
  <1> QED BY <1>3, <1>4, <1>5 DEF Begin, Taken

LEMMA StartTakes ==
  ASSUME Typed, NEW h \in Handlers, Start(h)
  PROVE  \E r : Taken(h, r)
  <1>0. /\ user \in Seq(Person) /\ users \subseteq DOMAIN user /\ groups \subseteq Nat
        /\ RangeSets \subseteq Given /\ {} \in Given /\ Names \subseteq Names \cup {NoName}
        /\ defaultGroup \in Nat
    BY DEF Typed, TypeOK, Person, Given
  <1>1. ASSUME NEW r \in Request, NEW k, r.step = 1, Ready(user, r), r.kind # "none", BeginAsAdmin(h, k, r),
               r.kind = "dropUser" => r.token = k
        PROVE  Taken(h, r)
    <2>0. AskedBy(k)
      <3>1. k \in DOMAIN sessions /\ UserByID(sessions[k].id) # NoUser /\ UserByID(sessions[k].id) \in admins
        BY <1>1, Serves DEF BeginAsAdmin, getUser
      <3>2. UserByID(sessions[k].id) \in users /\ user[UserByID(sessions[k].id)].id = sessions[k].id
        BY <1>0, <3>1, Found
      <3> QED BY <3>1, <3>2 DEF AskedBy, Typed, TypeOK
    <2>1. k \in DOMAIN sessions /\ sessions' = Get(k) /\ Begin(h, r)
      BY <1>1, Serves DEF BeginAsAdmin
    <2>2. SessionsStay
      BY <2>1, GetStays DEF Typed
    <2> QED BY <1>1, <2>0, <2>1, <2>2, BeginTakes
  <1>n. /\ NoRequest \in Request /\ NoRequest.step = 1 /\ NoRequest.ranges = {}
        /\ DOMAIN NoRequest = {"kind", "step", "token", "id", "of", "name", "group", "ranges"}
    BY NoRequestType DEF NoRequest
  <1> USE DEF Request, Ready
  <1>k. {"create", "register", "edit", "dropUser", "newGroup", "dropGroup", "settings", "login"} \subseteq Kinds
    BY PathLengths
  <1>2. CASE BeginCreate(h)
    <2>1. PICK k \in DOMAIN sessions, n \in Names, g \in groups, rs \in RangeSets :
             BeginAsAdmin(h, k, [NoRequest EXCEPT !.kind = "create", !.name = n, !.group = g, !.ranges = rs])
      BY <1>2 DEF BeginCreate
    <2> DEFINE r == [NoRequest EXCEPT !.kind = "create", !.name = n, !.group = g, !.ranges = rs]
    <2>2. r \in Request /\ r.step = 1 /\ Ready(user, r) /\ r.kind # "none" /\ (r.kind = "dropUser" => r.token = k)
      BY <1>0, <2>1, <1>k, <1>n, NamesAssumption
    <2> QED BY <1>1, <2>1, <2>2
  <1>3. CASE BeginEdit(h)
    <2>1. PICK k \in DOMAIN sessions, u \in users, n \in Names \cup {NoName}, g \in groups \cup {0}, rs \in RangeSets :
             BeginAsAdmin(h, k, [NoRequest EXCEPT !.kind = "edit", !.id = user[u].id, !.of = UserByID(user[u].id),
                                                  !.name = n, !.group = g, !.ranges = rs])
      BY <1>3 DEF BeginEdit
    <2> DEFINE r == [NoRequest EXCEPT !.kind = "edit", !.id = user[u].id, !.of = UserByID(user[u].id),
                                      !.name = n, !.group = g, !.ranges = rs]
    <2>2. UserByID(user[u].id) \in users /\ user[UserByID(user[u].id)].id = user[u].id
      BY <1>0, Found
    <2>3. UserByID(user[u].id) \in Nat /\ user[u].id \in Nat
      BY <1>0, <2>2, UserFacts
    <2>4. UserByID(user[u].id) \in DOMAIN user /\ g \in Nat /\ rs \in Given
      BY <1>0, <2>2
    <2>5. r \in Request /\ r.step = 1 /\ Ready(user, r) /\ r.kind # "none" /\ (r.kind = "dropUser" => r.token = k)
      BY <2>2, <2>3, <2>4, <1>k, <1>n
    <2> QED BY <1>1, <2>1, <2>5
  <1>4. CASE BeginDropUser(h)
    <2>1. PICK k \in DOMAIN sessions, u \in users :
             BeginAsAdmin(h, k, [NoRequest EXCEPT !.kind = "dropUser", !.token = k, !.id = user[u].id])
      BY <1>4 DEF BeginDropUser
    <2> DEFINE r == [NoRequest EXCEPT !.kind = "dropUser", !.token = k, !.id = user[u].id]
    <2>2. user[u].id \in Nat /\ k \in Nat
      BY <1>0, UserFacts DEF Typed, TypeOK
    <2>3. r \in Request /\ r.step = 1 /\ Ready(user, r) /\ r.kind # "none" /\ (r.kind = "dropUser" => r.token = k)
      BY <1>0, <2>2, <1>k, <1>n
    <2> QED BY <1>1, <2>1, <2>3
  <1>5. CASE BeginNewGroup(h)
    <2> DEFINE r == [NoRequest EXCEPT !.kind = "newGroup"]
    <2>1. PICK k \in DOMAIN sessions : BeginAsAdmin(h, k, [NoRequest EXCEPT !.kind = "newGroup"])
      BY <1>5 DEF BeginNewGroup
    <2>2. r \in Request /\ r.step = 1 /\ Ready(user, r) /\ r.kind # "none" /\ (r.kind = "dropUser" => r.token = k)
      BY <1>0, <1>k, <1>n
    <2> QED BY <1>1, <2>1, <2>2
  <1>6. CASE BeginDropGroup(h)
    <2>1. PICK k \in DOMAIN sessions, g \in groups :
             BeginAsAdmin(h, k, [NoRequest EXCEPT !.kind = "dropGroup", !.id = g])
      BY <1>6 DEF BeginDropGroup
    <2> DEFINE r == [NoRequest EXCEPT !.kind = "dropGroup", !.id = g]
    <2>2. r \in Request /\ r.step = 1 /\ Ready(user, r) /\ r.kind # "none" /\ (r.kind = "dropUser" => r.token = k)
      BY <1>0, <1>k, <1>n
    <2> QED BY <1>1, <2>1, <2>2
  <1>7. CASE BeginSettings(h)
    <2>1. PICK k \in DOMAIN sessions, g \in groups \cup {0} :
             BeginAsAdmin(h, k, [NoRequest EXCEPT !.kind = "settings", !.group = g])
      BY <1>7 DEF BeginSettings
    <2> DEFINE r == [NoRequest EXCEPT !.kind = "settings", !.group = g]
    <2>2. g \in Nat
      BY <1>0
    <2>3. r \in Request /\ r.step = 1 /\ Ready(user, r) /\ r.kind # "none" /\ (r.kind = "dropUser" => r.token = k)
      BY <2>2, <1>k, <1>n
    <2> QED BY <1>1, <2>1, <2>3
  <1>8. CASE BeginRegister(h)
    <2>1. PICK n \in Names :
             /\ Begin(h, [NoRequest EXCEPT !.kind = "register", !.name = n, !.group = defaultGroup])
             /\ UNCHANGED sessions
      BY <1>8 DEF BeginRegister
    <2> DEFINE r == [NoRequest EXCEPT !.kind = "register", !.name = n, !.group = defaultGroup]
    <2>2. n \in Names \cup {NoName} /\ n # NoName
      BY NamesAssumption
    <2>3. r \in Request
      BY <1>0, <2>2, <1>k, <1>n
    <2>4. r.step = 1 /\ r.kind = "register" /\ r.name = n /\ r.ranges = {}
      BY <1>n
    <2>5. Ready(user, r)
      BY <2>2, <2>4
    <2>6. SessionsStay
      BY <2>1, SameStays DEF Typed
    <2> QED BY <2>1, <2>3, <2>4, <2>5, <2>6, BeginTakes
  <1>9. CASE BeginLogin(h)
    <2>1. PICK u \in users :
            /\ req[h].kind = "none"
            /\ req' = [req EXCEPT ![h] = [NoRequest EXCEPT !.kind = "login", !.of = UserByName(user[u].name)]]
            /\ UNCHANGED <<store, roles, sessions, budget, met>>
      BY <1>9 DEF BeginLogin
    <2> DEFINE r == [NoRequest EXCEPT !.kind = "login", !.of = UserByName(user[u].name)]
    <2>2. UserByName(user[u].name) \in users
      BY <1>0, Found
    <2>3. UserByName(user[u].name) \in Nat
      BY <1>0, <2>2, UserFacts
    <2>4. r \in Request /\ r.step = 1 /\ Ready(user, r) /\ r.kind = "login"
      BY <1>0, <2>2, <2>3, <1>k, <1>n
    <2>5. SessionsStay
      BY <2>1, SameStays DEF Typed
    <2>6. \A o \in Handlers : Contest("login", req[o].kind) = {}
      BY DEF Contest, Contended, Names_, Ranges_, Ids_, Groups_
    <2> HIDE DEF r, Request
    <2>7. Taken(h, r)
      BY <2>1, <2>4, <2>5, <2>6 DEF Taken, Typed, TypeOK, r
    <2> QED BY <2>7
  <1> QED BY <1>2, <1>3, <1>4, <1>5, <1>6, <1>7, <1>8, <1>9 DEF Start

\* Objects are never removed, nor their identifiers changed.
IdsStay ==
    /\ DOMAIN user \subseteq DOMAIN user'
    /\ \A u \in DOMAIN user : user'[u].id = user[u].id

\* Of the handlers only h takes a step ...
Alone(h) ==
    /\ req' \in [Handlers -> Request]
    /\ \A o \in Handlers \ {h} : req'[o] = req[o]

\* ... in its request.
Only(h) ==
    /\ Alone(h)
    /\ req'[h].kind \in {req[h].kind, "none"}

LEMMA ReadyStays ==
  ASSUME NEW r, Ready(user, r), IdsStay
  PROVE  Ready(user', r)
BY DEF Ready, IdsStay

LEMMA ReadyAfter ==
  ASSUME NEW us, NEW r \in Request, Ready(us, r), r.step <= Len(Path[r.kind]),
         ~(r.kind = "register" /\ r.step = 5)
  PROVE  Ready(us, After(r)) /\ Ready(us, NoRequest)
  <1>1. Ready(us, NoRequest)
    BY DEF Ready, NoRequest
  <1>2. ASSUME After(r) = [r EXCEPT !.step = r.step + 1]
        PROVE  Ready(us, After(r))
    <2>1. CASE Len(Path[r.kind]) = r.step
      BY <1>1, <2>1 DEF After
    <2>2. CASE Len(Path[r.kind]) # r.step
      <3>1. ~(r.kind = "register" /\ r.step = 6)
        BY <2>2, PathLengths
      <3> QED BY <1>2, <3>1 DEF Ready, Request
    <2> QED BY <2>1, <2>2
  <1> QED BY <1>1, <1>2, AfterIs

LEMMA TypedFrom ==
  ASSUME Typed, NEW h \in Handlers, IdsStay, user' \in Seq(Person), users' \subseteq DOMAIN user',
         groups' \subseteq Nat, seq' \in Nat, defaultGroup' \in Nat, Alone(h), Ready(user', req'[h]),
         SessionsStay, met' \subseteq Contended,
         admins' \subseteq DOMAIN user', demoted' \in BOOLEAN,
         budget' \in [tokens : 0 .. MaxTokens, requests : 0 .. MaxRequests, overlaps : 0 .. MaxOverlaps],
         budget'.tokens = budget.tokens
  PROVE  Typed'
  <1>1. \A o \in Handlers : Ready(user', req'[o])
    BY ReadyStays DEF Typed, Alone
  <1>2. DOMAIN sessions' \subseteq 1 .. budget'.tokens
    BY DEF Typed, TypeOK, SessionsStay
  <1>3. \A k \in DOMAIN sessions' :
          /\ sessions'[k] \in [id : Nat, owner : DOMAIN user', idle : 0 .. (Ttl + 1)]
          /\ sessions'[k].id = user'[sessions'[k].owner].id
    BY DEF SessionsStay, Session, Typed, IdsStay
  <1> QED BY <1>1, <1>2, <1>3 DEF Typed, TypeOK, Alone, Person, Request

\* What holds of a handler on its way.
LEMMA OnTheWay ==
  ASSUME Typed, NEW h \in Handlers, NEW s, At(h, s)
  PROVE  /\ req[h] \in Request /\ Ready(user, req[h]) /\ req[h].step <= Len(Path[req[h].kind])
         /\ req \in [Handlers -> Request] /\ user \in Seq(Person) /\ users \subseteq DOMAIN user
BY DEF Typed, TypeOK, At, Request, Person

\* A check; a step that leaves the request as it is counts as one that succeeds.
LEMMA CheckMoves ==
  ASSUME Typed, NEW h \in Handlers, NEW s, At(h, s), NEW ok, Check(h, ok),
         ~Meets(h, "register", 5)
  PROVE  /\ Only(h)
         /\ Ready(user, req'[h])
         /\ req'[h] = NoRequest \/ (ok /\ req'[h] = [req[h] EXCEPT !.step = req[h].step + 1])
  <1>1. /\ req[h] \in Request /\ Ready(user, req[h]) /\ req[h].step <= Len(Path[req[h].kind])
        /\ req \in [Handlers -> Request]
    BY OnTheWay
  <1>2. /\ Only(h)
        /\ req'[h] = NoRequest \/ (ok /\ req'[h] = After(req[h]))
    BY <1>1, Checked DEF Only, Alone
  <1> QED BY <1>1, <1>2, AfterIs, ReadyAfter DEF Meets

LEMMA NextIsCheck == \A h \in Handlers : Next_(h) => Check(h, TRUE)
BY DEF Check

\* A step that changes the request first.
LEMMA ChangeMoves ==
  ASSUME Typed, NEW h \in Handlers, NEW s, At(h, s), NEW r \in Request, GoOn(h, r),
         r.kind = req[h].kind, r.step = req[h].step
  PROVE  /\ Only(h)
         /\ req'[h] = NoRequest \/ req'[h] = [r EXCEPT !.step = r.step + 1]
  <1>1. req \in [Handlers -> Request] /\ r.step <= Len(Path[r.kind])
    BY OnTheWay
  <1>2. Only(h) /\ req'[h] = After(r)
    BY <1>1, Moves DEF Only, Alone, After
  <1> QED BY <1>1, <1>2, AfterIs

\* What lies about the requests stays in type when the object of an edit changes.
LEMMA EditChanges ==
  ASSUME Typed, NEW h \in Handlers, req[h].kind = "edit", NEW e \in Person,
         e.id = user[req[h].of].id, user' = [user EXCEPT ![req[h].of] = e]
  PROVE  /\ user' \in Seq(Person) /\ IdsStay /\ DOMAIN user' = DOMAIN user
         /\ user'[req[h].of] = e
         /\ \A u \in DOMAIN user \ {req[h].of} : user'[u] = user[u]
  <1>1. req[h].of \in DOMAIN user /\ user \in Seq(Person)
    BY DEF Typed, Ready, TypeOK, Person
  <1> QED BY <1>1, ChangeType DEF IdsStay

LEMMA NothingChanges ==
  ASSUME Typed, user' = user
  PROVE  user' \in Seq(Person) /\ IdsStay /\ DOMAIN user' = DOMAIN user
BY DEF IdsStay, Typed, TypeOK, Person

\* What each step that changes an object makes of it.
LEMMA NameSet ==
  ASSUME Typed, NEW h \in Handlers, SetName(h)
  PROVE  /\ Meets(h, "edit", 2) /\ user' \in Seq(Person) /\ IdsStay /\ DOMAIN user' = DOMAIN user
         /\ \A u \in DOMAIN user \ {req[h].of} : user'[u] = user[u]
         /\ LET o == req[h].of IN
            /\ user'[o].group = user[o].group /\ user'[o].ranges = user[o].ranges
            /\ user'[o].name = IF req[h].name = NoName THEN user[o].name ELSE req[h].name
         /\ Only(h) /\ Ready(user', req'[h])
         /\ \/ req'[h] = NoRequest
            \/ /\ req'[h].kind = "edit" /\ req'[h].step = 3
               /\ req'[h].id = req[h].id /\ req'[h].of = req[h].of /\ req'[h].name = NoName
               /\ req'[h].group = req[h].group /\ req'[h].ranges = req[h].ranges
  <1> DEFINE o == req[h].of
             e == [user[o] EXCEPT !.name = req[h].name]
             r == [req[h] EXCEPT !.name = NoName]
  <1>1. At(h, "setName") /\ Meets(h, "edit", 2)
    BY Steps, OnTheWay DEF SetName, Request
  <1>2. req[h] \in Request /\ Ready(user, req[h]) /\ o \in DOMAIN user
    BY <1>1, OnTheWay DEF Ready, Meets
  <1>3. user[o] \in Person
    BY <1>2, UserFacts, OnTheWay, <1>1
  <1>4. /\ user' \in Seq(Person) /\ IdsStay /\ DOMAIN user' = DOMAIN user
        /\ \A u \in DOMAIN user \ {o} : user'[u] = user[u]
        /\ user'[o].group = user[o].group /\ user'[o].ranges = user[o].ranges
        /\ user'[o].name = IF req[h].name = NoName THEN user[o].name ELSE req[h].name
    <2>1. CASE req[h].name = NoName
      <3>1. user' = user
        BY <2>1 DEF SetName
      <3> QED BY <2>1, <3>1, NothingChanges
    <2>2. CASE req[h].name # NoName
      <3>1. e \in Person /\ e.id = user[o].id /\ user' = [user EXCEPT ![o] = e]
        BY <1>2, <1>3, <2>2 DEF SetName, Person, Request
      <3>2. /\ e.name = req[h].name /\ e.group = user[o].group /\ e.ranges = user[o].ranges
        BY <1>3 DEF Person
      <3>3. req[h].kind = "edit"
        BY <1>1 DEF Meets
      <3> HIDE DEF e
      <3>4. /\ user' \in Seq(Person) /\ IdsStay /\ DOMAIN user' = DOMAIN user
            /\ user'[o] = e /\ \A u \in DOMAIN user \ {o} : user'[u] = user[u]
        BY <3>1, <3>3, EditChanges
      <3> QED BY <2>2, <3>2, <3>4
    <2> QED BY <2>1, <2>2
  <1>6. r \in Request /\ r.kind = "edit" /\ r.step = 2
    BY <1>1, <1>2 DEF Request, Meets
  <1>7. Only(h) /\ (req'[h] = NoRequest \/ req'[h] = [r EXCEPT !.step = r.step + 1])
    BY <1>1, <1>6, ChangeMoves DEF SetName, Meets
  <1>8. \/ req'[h] = NoRequest
        \/ /\ req'[h].kind = "edit" /\ req'[h].step = 3
           /\ req'[h].id = req[h].id /\ req'[h].of = req[h].of /\ req'[h].name = NoName
           /\ req'[h].group = req[h].group /\ req'[h].ranges = req[h].ranges
    <2>1. /\ r.id = req[h].id /\ r.of = req[h].of /\ r.name = NoName
          /\ r.group = req[h].group /\ r.ranges = req[h].ranges
      BY <1>2 DEF Request
    <2> HIDE DEF r
    <2> QED BY <1>6, <1>7, <2>1 DEF Request
  <1>9. Ready(user', req'[h])
    <2>1. CASE req'[h] = NoRequest
      BY <2>1 DEF Ready, NoRequest
    <2>2. CASE req'[h] # NoRequest
      BY <1>1, <1>2, <1>4, <1>8, <2>2 DEF Ready, IdsStay, Meets
    <2> QED BY <2>1, <2>2
  <1> QED BY <1>1, <1>4, <1>7, <1>8, <1>9

LEMMA GroupSet ==
  ASSUME Typed, NEW h \in Handlers, SetGroup(h)
  PROVE  /\ Meets(h, "edit", 4) /\ user' \in Seq(Person) /\ IdsStay /\ DOMAIN user' = DOMAIN user
         /\ \A u \in DOMAIN user \ {req[h].of} : user'[u] = user[u]
         /\ LET o == req[h].of IN
            /\ user'[o].name = user[o].name /\ user'[o].ranges = user[o].ranges
            /\ user'[o].group = IF req[h].group = 0 THEN user[o].group ELSE req[h].group
         /\ Only(h) /\ Ready(user', req'[h])
         /\ \/ req'[h] = NoRequest
            \/ /\ req'[h].kind = "edit" /\ req'[h].step = 5
               /\ req'[h].id = req[h].id /\ req'[h].of = req[h].of /\ req'[h].name = req[h].name
               /\ req'[h].group = 0 /\ req'[h].ranges = req[h].ranges
  <1> DEFINE o == req[h].of
             e == [user[o] EXCEPT !.group = req[h].group]
             r == [req[h] EXCEPT !.group = 0]
  <1>1. At(h, "setGroup") /\ Meets(h, "edit", 4)
    BY Steps, OnTheWay DEF SetGroup, Request
  <1>2. req[h] \in Request /\ Ready(user, req[h]) /\ o \in DOMAIN user
    BY <1>1, OnTheWay DEF Ready, Meets
  <1>3. user[o] \in Person
    BY <1>2, UserFacts, OnTheWay, <1>1
  <1>4. /\ user' \in Seq(Person) /\ IdsStay /\ DOMAIN user' = DOMAIN user
        /\ \A u \in DOMAIN user \ {o} : user'[u] = user[u]
        /\ user'[o].name = user[o].name /\ user'[o].ranges = user[o].ranges
        /\ user'[o].group = IF req[h].group = 0 THEN user[o].group ELSE req[h].group
    <2>1. CASE req[h].group = 0
      <3>1. user' = user
        BY <2>1 DEF SetGroup
      <3> QED BY <2>1, <3>1, NothingChanges
    <2>2. CASE req[h].group # 0
      <3>1. e \in Person /\ e.id = user[o].id /\ user' = [user EXCEPT ![o] = e]
        BY <1>2, <1>3, <2>2 DEF SetGroup, Person, Request
      <3>2. /\ e.group = req[h].group /\ e.name = user[o].name /\ e.ranges = user[o].ranges
        BY <1>3 DEF Person
      <3>3. req[h].kind = "edit"
        BY <1>1 DEF Meets
      <3> HIDE DEF e
      <3>4. /\ user' \in Seq(Person) /\ IdsStay /\ DOMAIN user' = DOMAIN user
            /\ user'[o] = e /\ \A u \in DOMAIN user \ {o} : user'[u] = user[u]
        BY <3>1, <3>3, EditChanges
      <3> QED BY <2>2, <3>2, <3>4
    <2> QED BY <2>1, <2>2
  <1>6. r \in Request /\ r.kind = "edit" /\ r.step = 4
    BY <1>1, <1>2 DEF Request, Meets
  <1>7. Only(h) /\ (req'[h] = NoRequest \/ req'[h] = [r EXCEPT !.step = r.step + 1])
    BY <1>1, <1>6, ChangeMoves DEF SetGroup, Meets
  <1>8. \/ req'[h] = NoRequest
        \/ /\ req'[h].kind = "edit" /\ req'[h].step = 5
           /\ req'[h].id = req[h].id /\ req'[h].of = req[h].of /\ req'[h].name = req[h].name
           /\ req'[h].group = 0 /\ req'[h].ranges = req[h].ranges
    <2>1. /\ r.id = req[h].id /\ r.of = req[h].of /\ r.name = req[h].name
          /\ r.group = 0 /\ r.ranges = req[h].ranges
      BY <1>2 DEF Request
    <2> HIDE DEF r
    <2> QED BY <1>6, <1>7, <2>1 DEF Request
  <1>9. Ready(user', req'[h])
    <2>1. CASE req'[h] = NoRequest
      BY <2>1 DEF Ready, NoRequest
    <2>2. CASE req'[h] # NoRequest
      BY <1>1, <1>2, <1>4, <1>8, <2>2 DEF Ready, IdsStay, Meets
    <2> QED BY <2>1, <2>2
  <1> QED BY <1>1, <1>4, <1>7, <1>8, <1>9

LEMMA RestSet ==
  ASSUME Typed, NEW h \in Handlers, SetRest(h)
  PROVE  /\ Meets(h, "edit", 6) /\ user' \in Seq(Person) /\ IdsStay /\ DOMAIN user' = DOMAIN user
         /\ \A u \in DOMAIN user \ {req[h].of} : user'[u] = user[u]
         /\ LET o == req[h].of IN
            /\ user'[o].name = user[o].name /\ user'[o].group = user[o].group
            /\ user'[o].ranges = req[h].ranges
         /\ Only(h) /\ Ready(user', req'[h])
         /\ req'[h] = NoRequest
         /\ admins' \subseteq DOMAIN user' /\ demoted' \in BOOLEAN
         /\ ~demoted' => ~demoted /\ admins \subseteq admins'
  <1> DEFINE o == req[h].of
             e == [user[o] EXCEPT !.ranges = req[h].ranges]
  <1>1. At(h, "setRest") /\ Meets(h, "edit", 6)
    BY Steps, OnTheWay DEF SetRest, Request
  <1>2. req[h] \in Request /\ Ready(user, req[h]) /\ o \in DOMAIN user
    BY <1>1, OnTheWay DEF Ready, Meets
  <1>3. user[o] \in Person
    BY <1>2, UserFacts, OnTheWay, <1>1
  <1>4. e \in Person /\ e.id = user[o].id /\ user' = [user EXCEPT ![o] = e]
    BY <1>2, <1>3 DEF SetRest, Person, Request
  <1>5. /\ e.ranges = req[h].ranges /\ e.name = user[o].name /\ e.group = user[o].group
    BY <1>3 DEF Person
  <1>6. req[h].kind = "edit" /\ req[h].step = 6
    BY <1>1 DEF Meets
  <1> HIDE DEF e
  <1>7. /\ user' \in Seq(Person) /\ IdsStay /\ DOMAIN user' = DOMAIN user
        /\ user'[o] = e /\ \A u \in DOMAIN user \ {o} : user'[u] = user[u]
    BY <1>4, <1>6, EditChanges
  <1>8. Only(h) /\ req'[h] = NoRequest
    <2>1. GoOn(h, req[h]) /\ req \in [Handlers -> Request] /\ Len(Path[req[h].kind]) = 6
      BY <1>1, <1>6, OnTheWay, PathLengths DEF SetRest, Next_
    <2>2. /\ req' \in [Handlers -> Request]
          /\ \A x \in Handlers \ {h} : req'[x] = req[x]
          /\ req'[h] = IF req[h].step = Len(Path[req[h].kind])
                        THEN NoRequest ELSE [req[h] EXCEPT !.step = @ + 1]
          /\ req'[h].kind \in {req[h].kind, "none"}
      BY <1>1, <1>2, <2>1, Moves
    <2> QED BY <1>6, <2>1, <2>2 DEF Only, Alone
  <1>9. Ready(user', req'[h])
    BY <1>8 DEF Ready, NoRequest
  <1>10. /\ admins' \subseteq DOMAIN user' /\ demoted' \in BOOLEAN
         /\ ~demoted' => ~demoted /\ admins \subseteq admins'
    <2>1. /\ admins' \in {admins, admins \cup {o}, admins \ {o}}
          /\ demoted' = (demoted \/ (o \in admins /\ o \notin admins'))
      BY DEF SetRest
    <2>2. admins \subseteq DOMAIN user /\ demoted \in BOOLEAN
      BY DEF Typed, TypeOK
    <2> HIDE DEF o
    <2>3. admins' \subseteq DOMAIN user'
      BY <1>2, <1>7, <2>1, <2>2
    <2> QED BY <2>1, <2>2, <2>3
  <1> QED BY <1>1, <1>5, <1>7, <1>8, <1>9, <1>10

LEMMA UserAppended ==
  ASSUME Typed, NEW h \in Handlers, AppendUser(h)
  PROVE  LET new == Len(user) + 1 IN
         /\ Meets(h, "create", 6) \/ Meets(h, "register", 5)
         /\ user' \in Seq(Person) /\ IdsStay
         /\ DOMAIN user' = DOMAIN user \cup {new} /\ new \notin DOMAIN user
         /\ \A u \in DOMAIN user : user'[u] = user[u]
         /\ user'[new].id = req[h].id /\ user'[new].name = req[h].name
         /\ user'[new].group = req[h].group /\ user'[new].ranges = req[h].ranges
         /\ users' = users \cup {new}
         /\ admins' \subseteq DOMAIN user' /\ admins \subseteq admins' /\ demoted' = demoted
         /\ Only(h) /\ Ready(user', req'[h])
         /\ req'[h] = NoRequest \/ (req'[h].kind = "register" /\ req'[h].step = 6 /\ req'[h].of = new)
  <1> DEFINE e == [id |-> req[h].id, name |-> req[h].name, group |-> req[h].group, ranges |-> req[h].ranges]
             r == [NoRequest EXCEPT !.kind = req[h].kind, !.step = req[h].step, !.of = Len(user) + 1]
             new == Len(user) + 1
  <1>1. At(h, "append") /\ (Meets(h, "create", 6) \/ Meets(h, "register", 5))
    <2>1. At(h, "append") /\ req[h].kind \in {"create", "register"}
      BY DEF AppendUser, Is
    <2> QED BY <2>1, Steps, OnTheWay DEF Request, Meets
  <1>2. req[h] \in Request /\ Ready(user, req[h]) /\ user \in Seq(Person)
    BY <1>1, OnTheWay
  <1>3. e \in Person
    BY <1>1, <1>2 DEF Ready, Meets, Person, Request
  <1>4. user' = Append(user, e)
    BY DEF AppendUser
  <1>5. /\ e.id = req[h].id /\ e.name = req[h].name /\ e.group = req[h].group /\ e.ranges = req[h].ranges
    OBVIOUS
  <1> HIDE DEF e
  <1>6. /\ user' \in Seq(Person) /\ DOMAIN user' = DOMAIN user \cup {new} /\ new \notin DOMAIN user
        /\ user'[new] = e /\ \A u \in DOMAIN user : user'[u] = user[u]
    BY <1>2, <1>3, <1>4, AppendType
  <1>7. IdsStay
    BY <1>6 DEF IdsStay
  <1>8. r \in Request /\ r.kind = req[h].kind /\ r.step = req[h].step /\ r.of = new
    <2>1. new \in Nat
      BY <1>2, UserFacts
    <2> QED BY <1>2, <2>1, NoRequestType DEF Request
  <1>9. GoOn(h, r)
    BY DEF AppendUser
  <1> HIDE DEF r
  <1>10. /\ Only(h)
         /\ req'[h] = IF r.step = Len(Path[r.kind]) THEN NoRequest ELSE [r EXCEPT !.step = @ + 1]
    BY <1>1, <1>8, <1>9, OnTheWay, Moves DEF Only, Alone
  <1>11. req'[h] = NoRequest \/ (req'[h].kind = "register" /\ req'[h].step = 6 /\ req'[h].of = new)
    <2>1. CASE Meets(h, "create", 6)
      BY <1>8, <1>10, <2>1, PathLengths DEF Meets
    <2>2. CASE Meets(h, "register", 5)
      <3>1. req'[h] = [r EXCEPT !.step = 6]
        BY <1>8, <1>10, <2>2, PathLengths DEF Meets
      <3> QED BY <1>8, <2>2, <3>1 DEF Meets, Request
    <2> QED BY <1>1, <2>1, <2>2
  <1>12. Ready(user', req'[h])
    BY <1>6, <1>11 DEF Ready, NoRequest
  <1>13. users' = users \cup {new} /\ admins' \in {admins, admins \cup {new}} /\ demoted' = demoted
    BY DEF AppendUser
  <1>14. admins' \subseteq DOMAIN user' /\ admins \subseteq admins'
    BY <1>6, <1>13 DEF Typed, TypeOK
  <1> QED BY <1>1, <1>5, <1>6, <1>7, <1>10, <1>11, <1>12, <1>13, <1>14

LEMMA SessionMade ==
  ASSUME Typed, NEW h \in Handlers, SetSession(h)
  PROVE  LET new == budget.tokens + 1 IN
         /\ req[h].of \in DOMAIN user
         /\ DOMAIN sessions' = DOMAIN sessions \cup {new} /\ new \in 1 .. MaxTokens
         /\ \A k \in DOMAIN sessions' :
               sessions'[k] = IF k = new THEN [id |-> user[req[h].of].id, owner |-> req[h].of, idle |-> 0]
                              ELSE sessions[k]
         /\ budget' = [budget EXCEPT !.tokens = new]
         /\ Only(h) /\ req'[h] = NoRequest
  <1> DEFINE new == budget.tokens + 1
  <1>1. /\ At(h, "session") /\ (Meets(h, "register", 6) \/ Meets(h, "login", 1))
        /\ req[h] \in Request /\ Ready(user, req[h]) /\ req \in [Handlers -> Request]
    BY Steps, OnTheWay DEF SetSession, Request
  <1>2. req[h].of \in DOMAIN user
    BY <1>1 DEF Ready, Meets
  <1>3. new \in 1 .. MaxTokens
    BY BoundsAssumption DEF SetSession, NewSession, Typed, TypeOK
  <1>4. GoOn(h, req[h]) /\ req[h].step = Len(Path[req[h].kind])
    BY <1>1, PathLengths DEF SetSession, Next_, Meets
  <1>5. Only(h) /\ req'[h] = NoRequest
    BY <1>1, <1>4, Moves DEF Only, Alone
  <1> QED BY <1>2, <1>3, <1>5 DEF SetSession, NewSession

LEMMA ElapseStays ==
  ASSUME TypeOK, Elapse
  PROVE  SessionsStay
  <1>1. \A k \in DOMAIN sessions : sessions[k] \in Session
    BY SessionFacts
  <1>2. sessions' = [k \in DOMAIN sessions |->
                       [sessions[k] EXCEPT !.idle = IF @ <= Ttl THEN @ + 1 ELSE @]]
    BY DEF Elapse
  <1>3. \A k \in DOMAIN sessions :
          (IF sessions[k].idle <= Ttl THEN sessions[k].idle + 1 ELSE sessions[k].idle) \in 0 .. (Ttl + 1)
    BY <1>1, BoundsAssumption DEF Session
  <1> QED BY <1>1, <1>2, <1>3 DEF SessionsStay, Session

\* Steps that touch the sessions alone.
LEMMA SessionSteps ==
  ASSUME Typed,
         \/ \E k \in DOMAIN sessions : Visit(k) \/ Logout(k)
         \/ Elapse \/ Cleanup
  PROVE  SessionsStay /\ UNCHANGED <<store, roles, req, budget, met>>
  <1>1. TypeOK
    BY DEF Typed
  <1>2. ASSUME NEW k \in DOMAIN sessions, Visit(k) PROVE SessionsStay /\ UNCHANGED <<store, roles, req, budget, met>>
    BY <1>1, <1>2, GetStays DEF Visit
  <1>3. ASSUME NEW k \in DOMAIN sessions, Logout(k) PROVE SessionsStay /\ UNCHANGED <<store, roles, req, budget, met>>
    BY <1>1, <1>3, WithoutStays DEF Logout
  <1>4. CASE Elapse
    BY <1>1, <1>4, ElapseStays DEF Elapse
  <1>5. CASE Cleanup
    BY <1>1, <1>5, WithoutStays DEF Cleanup
  <1> QED BY <1>2, <1>3, <1>4, <1>5

LEMMA TypedSame ==
  ASSUME Typed, SessionsStay, UNCHANGED <<store, roles, req, budget, met>>
  PROVE  Typed'
  <1>1. \A k \in DOMAIN sessions' :
          /\ sessions'[k] \in [id : Nat, owner : DOMAIN user', idle : 0 .. (Ttl + 1)]
          /\ sessions'[k].id = user'[sessions'[k].owner].id
    BY DEF SessionsStay, Session, Typed, store
  <1>2. DOMAIN sessions' \subseteq 1 .. budget'.tokens
    BY DEF Typed, TypeOK, SessionsStay
  <1> QED BY <1>1, <1>2 DEF Typed, TypeOK, store, roles

\* Steps of a handler that only look: where they are and where they go.
Looks(h) == \/ CheckName(h) \/ CheckGroup(h) \/ CheckRanges(h) \/ CheckSelf(h) \/ CheckMembers(h)

LEMMA Looking ==
  ASSUME Typed, NEW h \in Handlers, Looks(h)
  PROVE  /\ Only(h) /\ Ready(user', req'[h]) /\ UNCHANGED <<store, roles, budget, met>> /\ SessionsStay
         /\ req'[h] = NoRequest \/ req'[h] = [req[h] EXCEPT !.step = req[h].step + 1]
  <1> DEFINE Goal == /\ Only(h) /\ Ready(user', req'[h]) /\ UNCHANGED <<store, roles, budget, met>> /\ SessionsStay
                     /\ req'[h] = NoRequest \/ req'[h] = [req[h] EXCEPT !.step = req[h].step + 1]
  <1>1. ASSUME NEW s, NEW ok, At(h, s), s \in {"name", "group", "ranges", "self", "members"}, Check(h, ok),
               UNCHANGED <<store, roles, budget, met>>, SessionsStay
        PROVE  Goal
    <2>1. ~Meets(h, "register", 5)
      BY <1>1, Steps, OnTheWay DEF Meets, Request
    <2>2. user' = user
      BY <1>1 DEF store
    <2> QED BY <1>1, <2>1, <2>2, CheckMoves
  <1>2. sessions' = sessions => SessionsStay
    BY SameStays DEF Typed
  <1> SUFFICES Goal
    OBVIOUS
  <1> HIDE DEF Goal
  <1>3. CASE CheckName(h)
    <2>1. PICK ok : Check(h, ok)
      BY <1>3 DEF CheckName
    <2>2. At(h, "name") /\ UNCHANGED <<store, roles, budget, met>> /\ SessionsStay
      BY <1>2, <1>3 DEF CheckName
    <2> QED BY <1>1, <2>1, <2>2
  <1>4. CASE CheckGroup(h)
    <2>1. PICK ok : Check(h, ok)
      BY <1>4 DEF CheckGroup
    <2>2. At(h, "group") /\ UNCHANGED <<store, roles, budget, met>> /\ SessionsStay
      BY <1>2, <1>4 DEF CheckGroup
    <2> QED BY <1>1, <2>1, <2>2
  <1>5. CASE CheckRanges(h)
    <2>1. PICK ok : Check(h, ok)
      BY <1>5 DEF CheckRanges
    <2>2. At(h, "ranges") /\ UNCHANGED <<store, roles, budget, met>> /\ SessionsStay
      BY <1>2, <1>5 DEF CheckRanges
    <2> QED BY <1>1, <2>1, <2>2
  <1>6. CASE CheckMembers(h)
    <2>1. PICK ok : Check(h, ok)
      BY <1>6 DEF CheckMembers
    <2>2. At(h, "members") /\ UNCHANGED <<store, roles, budget, met>> /\ SessionsStay
      BY <1>2, <1>6 DEF CheckMembers
    <2> QED BY <1>1, <2>1, <2>2
  <1>7. CASE CheckSelf(h)
    <2>1. PICK ok : Check(h, ok)
      BY <1>7 DEF CheckSelf
    <2>2. At(h, "self") /\ UNCHANGED <<store, roles, budget, met>> /\ SessionsStay
      BY <1>7, GetStays DEF CheckSelf, Typed
    <2> QED BY <1>1, <2>1, <2>2
  <1> QED BY <1>3, <1>4, <1>5, <1>6, <1>7 DEF Looks

LEMMA NumberRead ==
  ASSUME Typed, NEW h \in Handlers, NextID(h)
  PROVE  /\ Meets(h, "create", 4) \/ Meets(h, "register", 3) \/ Meets(h, "newGroup", 1)
         /\ Only(h) /\ Ready(user', req'[h])
         /\ \/ req'[h] = NoRequest
            \/ /\ req'[h].kind = req[h].kind /\ req'[h].step = req[h].step + 1
               /\ req'[h].id = seq + 1 /\ req'[h].of = req[h].of /\ req'[h].name = req[h].name
               /\ req'[h].group = req[h].group /\ req'[h].ranges = req[h].ranges
         /\ UNCHANGED <<store, roles, sessions, budget, met>>
  <1> DEFINE r == [req[h] EXCEPT !.id = seq + 1]
  <1>1. At(h, "id") /\ (Meets(h, "create", 4) \/ Meets(h, "register", 3) \/ Meets(h, "newGroup", 1))
    BY Steps, OnTheWay DEF NextID, Request
  <1>2. req[h] \in Request /\ Ready(user, req[h]) /\ seq \in Nat
    BY <1>1, OnTheWay DEF Typed, TypeOK
  <1>3. /\ r \in Request /\ r.kind = req[h].kind /\ r.step = req[h].step
        /\ r.id = seq + 1 /\ r.of = req[h].of /\ r.name = req[h].name
        /\ r.group = req[h].group /\ r.ranges = req[h].ranges
    BY <1>2 DEF Request
  <1>4. GoOn(h, r) /\ UNCHANGED <<store, roles, sessions, budget, met>>
    BY DEF NextID
  <1> HIDE DEF r
  <1>5. Only(h) /\ (req'[h] = NoRequest \/ req'[h] = [r EXCEPT !.step = r.step + 1])
    BY <1>1, <1>3, <1>4, ChangeMoves
  <1>6. \/ req'[h] = NoRequest
        \/ /\ req'[h].kind = req[h].kind /\ req'[h].step = req[h].step + 1
           /\ req'[h].id = seq + 1 /\ req'[h].of = req[h].of /\ req'[h].name = req[h].name
           /\ req'[h].group = req[h].group /\ req'[h].ranges = req[h].ranges
    BY <1>3, <1>5 DEF Request
  <1>7. Ready(user', req'[h])
    <2>1. CASE req'[h] = NoRequest
      BY <2>1 DEF Ready, NoRequest
    <2>2. CASE req'[h] # NoRequest
      BY <1>1, <1>2, <1>6, <2>2 DEF Ready, Meets
    <2> QED BY <2>1, <2>2
  <1> QED BY <1>1, <1>4, <1>5, <1>6, <1>7

\* A step that leaves its request as it is.
LEMMA NextMoves ==
  ASSUME Typed, NEW h \in Handlers, NEW s, At(h, s), Next_(h), ~Meets(h, "register", 5), user' = user
  PROVE  /\ Only(h) /\ Ready(user', req'[h])
         /\ IF req[h].step = Len(Path[req[h].kind]) THEN req'[h] = NoRequest
                                                    ELSE req'[h] = [req[h] EXCEPT !.step = req[h].step + 1]
  <1>1. /\ req[h] \in Request /\ Ready(user, req[h]) /\ req[h].step <= Len(Path[req[h].kind])
        /\ req \in [Handlers -> Request]
    BY OnTheWay
  <1>2. /\ req' \in [Handlers -> Request]
        /\ \A x \in Handlers \ {h} : req'[x] = req[x]
        /\ req'[h] = After(req[h])
        /\ req'[h].kind \in {req[h].kind, "none"}
    BY <1>1, Moves DEF Next_, After
  <1>3. Ready(user', req'[h])
    BY <1>1, <1>2, ReadyAfter DEF Meets
  <1> QED BY <1>2, <1>3 DEF Only, Alone, After

LEMMA NumberWritten ==
  ASSUME Typed, NEW h \in Handlers, Stamp(h)
  PROVE  /\ Meets(h, "create", 5) \/ Meets(h, "register", 4) \/ Meets(h, "newGroup", 2)
         /\ seq' = req[h].id /\ seq' \in Nat
         /\ Only(h) /\ Ready(user', req'[h])
         /\ req'[h] = [req[h] EXCEPT !.step = req[h].step + 1]
         /\ UNCHANGED <<user, users, groups, defaultGroup, roles, sessions, budget, met>>
  <1>1. /\ At(h, "stamp") /\ (Meets(h, "create", 5) \/ Meets(h, "register", 4) \/ Meets(h, "newGroup", 2))
        /\ req[h] \in Request
    BY Steps, OnTheWay DEF Stamp, Request
  <1>2. /\ seq' = req[h].id /\ Next_(h)
        /\ UNCHANGED <<user, users, groups, defaultGroup, roles, sessions, budget, met>>
    BY DEF Stamp
  <1>3. ~Meets(h, "register", 5) /\ req[h].step # Len(Path[req[h].kind])
    <2>1. CASE Meets(h, "create", 5)
      BY <2>1, PathLengths DEF Meets
    <2>2. CASE Meets(h, "register", 4)
      BY <2>2, PathLengths DEF Meets
    <2>3. CASE Meets(h, "newGroup", 2)
      BY <2>3, PathLengths DEF Meets
    <2> QED BY <1>1, <2>1, <2>2, <2>3
  <1> QED BY <1>1, <1>2, <1>3, NextMoves DEF Request

\* The last steps, which change the lists.
LEMMA LastSteps ==
  ASSUME Typed, NEW h \in Handlers,
         AppendGroup(h) \/ DropUser(h) \/ DropGroup(h) \/ StoreSettings(h)
  PROVE  /\ Only(h) /\ req'[h] = NoRequest /\ UNCHANGED <<user, seq, roles, sessions, budget, met>>
         /\ \/ /\ AppendGroup(h) /\ Meets(h, "newGroup", 3)
               /\ groups' = groups \cup {req[h].id} /\ UNCHANGED <<users, defaultGroup>>
            \/ /\ DropUser(h) /\ Meets(h, "dropUser", 2)
               /\ users' = {u \in users : user[u].id # req[h].id} /\ UNCHANGED <<groups, defaultGroup>>
            \/ /\ DropGroup(h) /\ Meets(h, "dropGroup", 2)
               /\ groups' = groups \ {req[h].id} /\ UNCHANGED <<users, defaultGroup>>
            \/ /\ StoreSettings(h) /\ Meets(h, "settings", 2)
               /\ defaultGroup' = req[h].group /\ UNCHANGED <<users, groups>>
  <1> DEFINE Goal == Only(h) /\ req'[h] = NoRequest
  <1>1. ASSUME NEW s, At(h, s), Next_(h), user' = user, s \in {"append", "drop", "store"},
               req[h].kind \notin {"create", "register"}
        PROVE  Goal
    <2>1. ~Meets(h, "register", 5) /\ req[h].step = Len(Path[req[h].kind])
      <3>1. Meets(h, "newGroup", 3) \/ Meets(h, "dropUser", 2) \/ Meets(h, "dropGroup", 2) \/ Meets(h, "settings", 2)
        BY <1>1, Steps, OnTheWay DEF Meets, Request
      <3>2. CASE Meets(h, "newGroup", 3)
        BY <3>2, PathLengths DEF Meets
      <3>3. CASE Meets(h, "dropUser", 2)
        BY <3>3, PathLengths DEF Meets
      <3>4. CASE Meets(h, "dropGroup", 2)
        BY <3>4, PathLengths DEF Meets
      <3>5. CASE Meets(h, "settings", 2)
        BY <3>5, PathLengths DEF Meets
      <3> QED BY <3>1, <3>2, <3>3, <3>4, <3>5
    <2> QED BY <1>1, <2>1, NextMoves
  <1> HIDE DEF Goal
  <1>2. CASE AppendGroup(h)
    <2>1. At(h, "append") /\ Next_(h) /\ user' = user /\ req[h].kind = "newGroup"
      BY <1>2 DEF AppendGroup, Is
    <2>2. Goal /\ Meets(h, "newGroup", 3)
      BY <1>1, <2>1, Steps, OnTheWay DEF Meets, Request
    <2> QED BY <1>2, <2>2 DEF AppendGroup, Goal
  <1>3. CASE DropUser(h)
    <2>1. At(h, "drop") /\ Next_(h) /\ user' = user /\ req[h].kind = "dropUser"
      BY <1>3 DEF DropUser, Is
    <2>2. Goal /\ Meets(h, "dropUser", 2)
      BY <1>1, <2>1, Steps, OnTheWay DEF Meets, Request
    <2> QED BY <1>3, <2>2 DEF DropUser, Goal
  <1>4. CASE DropGroup(h)
    <2>1. At(h, "drop") /\ Next_(h) /\ user' = user /\ req[h].kind = "dropGroup"
      BY <1>4 DEF DropGroup, Is
    <2>2. Goal /\ Meets(h, "dropGroup", 2)
      BY <1>1, <2>1, Steps, OnTheWay DEF Meets, Request
    <2> QED BY <1>4, <2>2 DEF DropGroup, Goal
  <1>5. CASE StoreSettings(h)
    <2>1. At(h, "store") /\ Next_(h) /\ user' = user
      BY <1>5 DEF StoreSettings
    <2>2. Meets(h, "settings", 2)
      BY <2>1, Steps, OnTheWay DEF Request
    <2>3. Goal
      BY <1>1, <2>1, <2>2 DEF Meets
    <2> QED BY <1>5, <2>2, <2>3 DEF StoreSettings, Goal
  <1> QED BY <1>2, <1>3, <1>4, <1>5

-----------------------------------------------------------------------------
(* Every step *)

\* The steps, as the lemmas above describe them.
LEMMA EveryStep ==
  ASSUME Typed, [Next]_vars
  PROVE  \/ \E h \in Handlers : \/ \E r : Taken(h, r)
                                \/ Looks(h) \/ SetName(h) \/ SetGroup(h) \/ SetRest(h)
                                \/ NextID(h) \/ Stamp(h) \/ AppendUser(h) \/ SetSession(h)
                                \/ AppendGroup(h) \/ DropUser(h) \/ DropGroup(h) \/ StoreSettings(h)
         \/ SessionsStay /\ UNCHANGED <<store, roles, req, budget, met>>
  <1>1. CASE UNCHANGED vars
    BY <1>1, SameStays DEF vars, Typed
  <1>2. ASSUME NEW h \in Handlers, Start(h) PROVE \E r : Taken(h, r)
    BY <1>2, StartTakes
  <1>3. ASSUME NEW h \in Handlers, Step(h)
        PROVE  \/ Looks(h) \/ SetName(h) \/ SetGroup(h) \/ SetRest(h)
               \/ NextID(h) \/ Stamp(h) \/ AppendUser(h) \/ SetSession(h)
               \/ AppendGroup(h) \/ DropUser(h) \/ DropGroup(h) \/ StoreSettings(h)
    BY <1>3 DEF Step, Looks
  <1>4. CASE \/ \E k \in DOMAIN sessions : Visit(k) \/ Logout(k)
             \/ Elapse \/ Cleanup
    BY <1>4, SessionSteps
  <1> QED BY <1>1, <1>2, <1>3, <1>4 DEF Next

LEMMA TypedInit == Init => Typed
  <1> SUFFICES ASSUME Init PROVE Typed
    OBVIOUS
  <1>1. user \in Seq(Person) /\ DOMAIN user = {1}
    BY NamesAssumption DEF Init, Person, Given
  <1>2. DOMAIN sessions = {}
    BY DEF Init
  <1>3. \A h \in Handlers : req[h] \in Request /\ Ready(user, req[h])
    BY NoRequestType DEF Init, Ready, NoRequest
  <1>4. req \in [Handlers -> Request]
    BY <1>3 DEF Init
  <1>5. budget \in [tokens : 0 .. MaxTokens, requests : 0 .. MaxRequests, overlaps : 0 .. MaxOverlaps]
    BY BoundsAssumption DEF Init
  <1>6. /\ users \subseteq DOMAIN user /\ groups \subseteq Nat /\ seq \in Nat /\ defaultGroup \in Nat
        /\ met \subseteq Contended
    BY <1>1 DEF Init
  <1>r. admins \subseteq DOMAIN user /\ demoted \in BOOLEAN
    BY <1>1 DEF Init
  <1>7. TypeOK
    BY <1>1, <1>2, <1>4, <1>5, <1>6, <1>r DEF TypeOK, Person, Request
  <1> QED BY <1>2, <1>3, <1>7 DEF Typed

LEMMA TypedStep == Typed /\ [Next]_vars => Typed'
  <1> SUFFICES ASSUME Typed, [Next]_vars PROVE Typed'
    OBVIOUS
  <1>0. /\ users \subseteq DOMAIN user /\ groups \subseteq Nat /\ seq \in Nat /\ defaultGroup \in Nat
        /\ budget \in [tokens : 0 .. MaxTokens, requests : 0 .. MaxRequests, overlaps : 0 .. MaxOverlaps]
        /\ met \subseteq Contended /\ req \in [Handlers -> Request]
        /\ (sessions' = sessions => SessionsStay)
        /\ \A h \in Handlers : req[h].id \in Nat /\ req[h].group \in Nat
    BY SameStays DEF Typed, TypeOK, Request
  <1>r. admins \subseteq DOMAIN user /\ demoted \in BOOLEAN
    BY DEF Typed, TypeOK
  <1>1. ASSUME NEW h \in Handlers, NEW r, Taken(h, r) PROVE Typed'
    <2>1. user' \in Seq(Person) /\ IdsStay /\ DOMAIN user' = DOMAIN user /\ user' = user
      BY <1>1, NothingChanges DEF Taken, store
    <2>2. Alone(h) /\ Ready(user', req'[h])
      BY <1>0, <1>1, <2>1 DEF Taken, Alone
    <2> QED BY <1>0, <1>1, <2>1, <2>2, <1>r, TypedFrom DEF roles, Taken, store
  <1>2. ASSUME NEW h \in Handlers, Looks(h) PROVE Typed'
    <2>1. user' \in Seq(Person) /\ IdsStay /\ DOMAIN user' = DOMAIN user
      BY <1>2, Looking, NothingChanges DEF store
    <2> QED BY <1>0, <1>2, <2>1, Looking, <1>r, TypedFrom DEF roles, store, Only
  <1>3. ASSUME NEW h \in Handlers, SetName(h) PROVE Typed'
    <2>1. UNCHANGED <<users, groups, seq, defaultGroup, admins, demoted, sessions, budget, met>>
      BY <1>3 DEF SetName, roles
    <2> QED BY <1>0, <1>3, <2>1, NameSet, <1>r, TypedFrom DEF roles, Only
  <1>4. ASSUME NEW h \in Handlers, SetGroup(h) PROVE Typed'
    <2>1. UNCHANGED <<users, groups, seq, defaultGroup, admins, demoted, sessions, budget, met>>
      BY <1>4 DEF SetGroup, roles
    <2> QED BY <1>0, <1>4, <2>1, GroupSet, <1>r, TypedFrom DEF roles, Only
  <1>5. ASSUME NEW h \in Handlers, SetRest(h) PROVE Typed'
    <2>1. UNCHANGED <<users, groups, seq, defaultGroup, sessions, budget, met>>
      BY <1>5 DEF SetRest
    <2> QED BY <1>0, <1>5, <2>1, RestSet, <1>r, TypedFrom DEF roles, Only
  <1>6. ASSUME NEW h \in Handlers, NextID(h) PROVE Typed'
    <2>1. user' \in Seq(Person) /\ IdsStay /\ DOMAIN user' = DOMAIN user
      BY <1>6, NumberRead, NothingChanges DEF store
    <2> QED BY <1>0, <1>6, <2>1, NumberRead, <1>r, TypedFrom DEF roles, Only, store
  <1>7. ASSUME NEW h \in Handlers, Stamp(h) PROVE Typed'
    <2>1. user' \in Seq(Person) /\ IdsStay /\ DOMAIN user' = DOMAIN user
      BY <1>7, NumberWritten, NothingChanges
    <2>2. seq' \in Nat
      BY <1>0, <1>7, NumberWritten
    <2> QED BY <1>0, <1>7, <2>1, <2>2, NumberWritten, <1>r, TypedFrom DEF roles, Only
  <1>8. ASSUME NEW h \in Handlers, AppendUser(h) PROVE Typed'
    <2>1. UNCHANGED <<groups, seq, defaultGroup, sessions, budget, met>> /\ admins' \subseteq DOMAIN user' /\ demoted' \in BOOLEAN
      BY <1>8, <1>r, UserAppended DEF AppendUser
    <2>2. users' \subseteq DOMAIN user'
      BY <1>0, <1>8, UserAppended
    <2> QED BY <1>0, <1>8, <2>1, <2>2, UserAppended, <1>r, TypedFrom DEF roles, Only
  <1>9. ASSUME NEW h \in Handlers, SetSession(h) PROVE Typed'
    <2>1. UNCHANGED <<store, roles, met>>
      BY <1>9 DEF SetSession
    <2>2. /\ user' = user /\ users' = users /\ groups' = groups /\ seq' = seq /\ defaultGroup' = defaultGroup
          /\ admins' = admins /\ demoted' = demoted
      BY <2>1 DEF store, roles
    <2>3. budget' \in [tokens : 0 .. MaxTokens, requests : 0 .. MaxRequests, overlaps : 0 .. MaxOverlaps]
      BY <1>0, <1>9, SessionMade
    <2>4. \A o \in Handlers : Ready(user', req'[o])
      <3>1. Ready(user', NoRequest)
        BY DEF Ready, NoRequest
      <3> QED BY <1>9, <2>2, <3>1, SessionMade DEF Only, Alone, Typed
    <2>5. user \in Seq(Person) /\ DOMAIN sessions \subseteq 1 .. budget.tokens
      BY DEF Typed, TypeOK, Person
    <2>6. DOMAIN sessions' \subseteq 1 .. budget'.tokens
      BY <1>0, <1>9, <2>5, SessionMade
    <2>7. \A k \in DOMAIN sessions' :
            /\ sessions'[k] \in [id : Nat, owner : DOMAIN user, idle : 0 .. (Ttl + 1)]
            /\ sessions'[k].id = user[sessions'[k].owner].id
      <3>1. \A k \in DOMAIN sessions : /\ sessions[k] \in Session
                                       /\ sessions[k].id = user[sessions[k].owner].id
        BY SessionFacts DEF Typed
      <3>2. 0 \in 0 .. (Ttl + 1) /\ req[h].of \in DOMAIN user /\ user[req[h].of].id \in Nat
        BY <1>9, <2>5, SessionMade, UserFacts, BoundsAssumption
      <3> QED BY <1>9, <3>1, <3>2, SessionMade DEF Session
    <2>8. req' \in [Handlers -> Request]
      BY <1>9, SessionMade DEF Only, Alone
    <2>9. TypeOK'
      BY <1>0, <1>r, <2>1, <2>2, <2>3, <2>5, <2>6, <2>7, <2>8 DEF TypeOK, Person, Request
    <2> QED BY <2>2, <2>4, <2>7, <2>9 DEF Typed
  <1>10. ASSUME NEW h \in Handlers, AppendGroup(h) \/ DropUser(h) \/ DropGroup(h) \/ StoreSettings(h)
         PROVE  Typed'
    <2>1. user' \in Seq(Person) /\ IdsStay /\ DOMAIN user' = DOMAIN user
      BY <1>10, LastSteps, NothingChanges
    <2>2. Ready(user', req'[h])
      BY <1>10, LastSteps DEF Ready, NoRequest
    <2>3. users' \subseteq DOMAIN user' /\ groups' \subseteq Nat /\ defaultGroup' \in Nat
      BY <1>0, <1>10, <2>1, LastSteps
    <2> QED BY <1>0, <1>10, <2>1, <2>2, <2>3, LastSteps, <1>r, TypedFrom DEF roles, Only
  <1>11. CASE SessionsStay /\ UNCHANGED <<store, roles, req, budget, met>>
    BY <1>11, TypedSame
  <1> QED BY <1>1, <1>2, <1>3, <1>4, <1>5, <1>6, <1>7, <1>8, <1>9, <1>10, <1>11, EveryStep

\* Every account, request and session is of its kind, an edit holds an object
\* that has the identifier it was asked for, and a session keeps the identifier of
\* the account it was made for (api.go 385, storage.go 191, auth.go 78-112).
THEOREM AccountsTypeCorrect == Spec => []Typed
BY TypedInit, TypedStep, PTL DEF Spec

-----------------------------------------------------------------------------
(* What two requests contend for, met knows *)

Apart == \A h, o \in Handlers : h # o => Contest(req[h].kind, req[o].kind) \subseteq met

LEMMA ContestIsMutual ==
  /\ \A a, b : Contest(a, b) = Contest(b, a)
  /\ \A a : Contest(a, "none") = {}
BY DEF Contest, Contended, Names_, Ranges_, Ids_, Groups_

LEMMA ApartInit == Init => Apart
BY ContestIsMutual DEF Init, Apart, NoRequest

LEMMA ApartTaken ==
  ASSUME Typed, Apart, NEW h \in Handlers, NEW r, Taken(h, r)
  PROVE  Apart'
  <1>1. req \in [Handlers -> Request]
    BY DEF Typed, TypeOK, Request
  <1>2. /\ req'[h] = r /\ \A o \in Handlers \ {h} : req'[o] = req[o]
        /\ met \subseteq met' /\ \A o \in Handlers \ {h} : Contest(r.kind, req[o].kind) \subseteq met'
    BY <1>1 DEF Taken
  <1> SUFFICES ASSUME NEW g \in Handlers, NEW o \in Handlers, g # o
               PROVE  Contest(req'[g].kind, req'[o].kind) \subseteq met'
    BY DEF Apart
  <1>3. CASE g = h
    BY <1>2, <1>3
  <1>4. CASE o = h
    BY <1>2, <1>4, ContestIsMutual
  <1>5. CASE g # h /\ o # h
    BY <1>2, <1>5 DEF Apart
  <1> QED BY <1>3, <1>4, <1>5

LEMMA ApartMoves ==
  ASSUME Apart, NEW h \in Handlers, Only(h), met' = met
  PROVE  Apart'
  <1>1. req'[h].kind = req[h].kind \/ req'[h].kind = "none"
    BY DEF Only
  <1>2. \A o \in Handlers \ {h} : req'[o] = req[o]
    BY DEF Only, Alone
  <1> SUFFICES ASSUME NEW g \in Handlers, NEW o \in Handlers, g # o
               PROVE  Contest(req'[g].kind, req'[o].kind) \subseteq met
    BY DEF Apart
  <1>3. CASE g = h
    BY <1>1, <1>2, <1>3, ContestIsMutual DEF Apart
  <1>4. CASE o = h
    BY <1>1, <1>2, <1>4, ContestIsMutual DEF Apart
  <1>5. CASE g # h /\ o # h
    BY <1>2, <1>5 DEF Apart
  <1> QED BY <1>3, <1>4, <1>5

\* The steps of a handler on its way: only its request moves, and what was
\* contended for stays as it is.
Strides(h) ==
    \/ Looks(h) \/ SetName(h) \/ SetGroup(h) \/ SetRest(h)
    \/ NextID(h) \/ Stamp(h) \/ AppendUser(h) \/ SetSession(h)
    \/ AppendGroup(h) \/ DropUser(h) \/ DropGroup(h) \/ StoreSettings(h)

LEMMA Striding ==
  ASSUME Typed, NEW h \in Handlers, Strides(h)
  PROVE  Only(h) /\ met' = met
  <1>1. CASE Looks(h)
    BY <1>1, Looking
  <1>2. CASE SetName(h)
    BY <1>2, NameSet DEF SetName
  <1>3. CASE SetGroup(h)
    BY <1>3, GroupSet DEF SetGroup
  <1>4. CASE SetRest(h)
    BY <1>4, RestSet DEF SetRest
  <1>5. CASE NextID(h)
    BY <1>5, NumberRead
  <1>6. CASE Stamp(h)
    BY <1>6, NumberWritten
  <1>7. CASE AppendUser(h)
    BY <1>7, UserAppended DEF AppendUser
  <1>8. CASE SetSession(h)
    BY <1>8, SessionMade DEF SetSession
  <1>9. CASE AppendGroup(h) \/ DropUser(h) \/ DropGroup(h) \/ StoreSettings(h)
    BY <1>9, LastSteps
  <1> QED BY <1>1, <1>2, <1>3, <1>4, <1>5, <1>6, <1>7, <1>8, <1>9 DEF Strides

LEMMA ThreeKinds ==
  ASSUME Typed, [Next]_vars
  PROVE  \/ \E h \in Handlers : (\E r : Taken(h, r)) \/ Strides(h)
         \/ SessionsStay /\ UNCHANGED <<store, roles, req, budget, met>>
BY EveryStep DEF Strides

LEMMA ApartStep == Typed /\ Apart /\ [Next]_vars => Apart'
  <1> SUFFICES ASSUME Typed, Apart, [Next]_vars PROVE Apart'
    OBVIOUS
  <1>1. ASSUME NEW h \in Handlers, NEW r, Taken(h, r) PROVE Apart'
    BY <1>1, ApartTaken
  <1>2. ASSUME NEW h \in Handlers, Strides(h) PROVE Apart'
    BY <1>2, Striding, ApartMoves
  <1>3. CASE UNCHANGED <<store, roles, req, budget, met>>
    BY <1>3 DEF Apart
  <1> QED BY <1>1, <1>2, <1>3, ThreeKinds

\* A handler that takes a request is at its first step.
LEMMA AtFirst ==
  ASSUME Typed, NEW h \in Handlers, NEW r, Taken(h, r)
  PROVE  /\ Alone(h) /\ req'[h] = r /\ r \in Request /\ r.step = 1
         /\ met \subseteq met' /\ UNCHANGED <<user, users, groups, seq, defaultGroup>>
         /\ req[h].kind = "none"
BY DEF Typed, TypeOK, Request, Taken, Alone, store

-----------------------------------------------------------------------------
(* An administrator remains *)

\* Whoever is about to delete an account leaves an administrator, because the
\* session was one's when the request began.
LeavesAdmin ==
    "deletes" \in met \/ demoted \/
        /\ users \cap admins # {}
        /\ \A h \in Handlers : Meets(h, "dropUser", 1) => AskedBy(req[h].token)
        /\ \A h \in Handlers : Meets(h, "dropUser", 2) => \E u \in users \cap admins : user[u].id # req[h].id

\* A deletion that goes on has a session, and it is not that of the account.
LEMMA SelfChecked ==
  ASSUME Typed, NEW h \in Handlers, Looks(h), Meets(h, "dropUser", 2)'
  PROVE  /\ req'[h].id = req[h].id /\ Meets(h, "dropUser", 1)
         /\ LET k == req[h].token IN k \in DOMAIN sessions /\ sessions[k].id # req[h].id
  <1>1. req'[h] = NoRequest \/ req'[h] = [req[h] EXCEPT !.step = req[h].step + 1]
    BY Looking
  <1>2. req'[h].kind = "dropUser" /\ req'[h].step = 2
    BY DEF Meets
  <1>3. req[h] \in Request /\ req \in [Handlers -> Request]
    BY DEF Typed, TypeOK, Request
  <1>4. req'[h] = [req[h] EXCEPT !.step = req[h].step + 1]
    BY <1>1, <1>2 DEF NoRequest
  <1>5. req[h].kind = "dropUser" /\ req[h].step = 1 /\ req'[h].id = req[h].id
    BY <1>2, <1>3, <1>4 DEF Request
  <1>6. CheckSelf(h)
    BY <1>3, <1>5, Steps DEF Looks, CheckName, CheckGroup, CheckRanges, CheckMembers, Meets, Request
  <1> DEFINE me == getUser(req[h].token)
             ok == me # NoUser /\ user[me].id # req[h].id
  <1>7. At(h, "self") /\ Check(h, ok)
    BY <1>6 DEF CheckSelf
  <1>8. ok
    <2> HIDE DEF ok
    <2>1. ~Meets(h, "register", 5)
      BY <1>5 DEF Meets
    <2>2. req'[h] = NoRequest \/ (ok /\ req'[h] = [req[h] EXCEPT !.step = req[h].step + 1])
      BY <1>7, <2>1, CheckMoves
    <2> QED BY <1>2, <2>2 DEF NoRequest
  <1>9. req[h].token \in DOMAIN sessions /\ me = UserByID(sessions[req[h].token].id)
    BY <1>8, Serves DEF getUser
  <1>10. user[me].id = sessions[req[h].token].id
    BY <1>8, <1>9, Found DEF Typed, TypeOK, Person
  <1> QED BY <1>5, <1>8, <1>9, <1>10 DEF Meets

LEMMA LeavesAdminInit == Init => LeavesAdmin
BY DEF Init, LeavesAdmin, Meets, NoRequest

\* Nobody is deleted, no administrator is demoted, and a handler that comes nearer
\* to deleting somebody does so as it should.
LEMMA AdminStays ==
  ASSUME Typed, LeavesAdmin, "deletes" \notin met', ~demoted', met \subseteq met', ~demoted,
         IdsStay, users \subseteq users', admins \subseteq admins',
         \A k \in 1 .. budget.tokens : /\ k \in 1 .. budget'.tokens
                                       /\ k \in DOMAIN sessions' =>
                                             k \in DOMAIN sessions /\ sessions'[k].id = sessions[k].id,
         NEW g \in Handlers, \A o \in Handlers \ {g} : req'[o] = req[o],
         Meets(g, "dropUser", 1)' => AskedBy(req'[g].token),
         Meets(g, "dropUser", 2)' => \E u \in users \cap admins : user[u].id # req'[g].id
  PROVE  LeavesAdmin'
  <1>0. users \subseteq DOMAIN user /\ admins \subseteq DOMAIN user
    BY DEF Typed, TypeOK
  <1>1. /\ users \cap admins # {}
        /\ \A h \in Handlers : Meets(h, "dropUser", 1) => AskedBy(req[h].token)
        /\ \A h \in Handlers : Meets(h, "dropUser", 2) => \E u \in users \cap admins : user[u].id # req[h].id
    BY DEF LeavesAdmin
  <1>2. ASSUME NEW k, AskedBy(k) PROVE AskedBy(k)'
    <2>1. ASSUME k \in DOMAIN sessions'
          PROVE  \E u \in users' \cap admins' : user'[u].id = sessions'[k].id
      <3>1. k \in DOMAIN sessions /\ sessions'[k].id = sessions[k].id
        BY <1>2, <2>1 DEF AskedBy
      <3>2. PICK u \in users \cap admins : user[u].id = sessions[k].id
        BY <1>2, <3>1 DEF AskedBy
      <3> QED BY <1>0, <3>1, <3>2 DEF IdsStay
    <2> QED BY <1>2, <2>1 DEF AskedBy
  <1>3. ASSUME NEW h \in Handlers, Meets(h, "dropUser", 1)'
        PROVE  AskedBy(req[h].token)'
    <2>1. CASE h = g
      BY <1>2, <1>3, <2>1
    <2>2. CASE h # g
      <3>1. req'[h] = req[h] /\ AskedBy(req[h].token)
        BY <1>1, <1>3, <2>2 DEF Meets
      <3> QED BY <1>2, <3>1
    <2> QED BY <2>1, <2>2
  <1>4. ASSUME NEW h \in Handlers, Meets(h, "dropUser", 2)'
        PROVE  \E u \in users' \cap admins' : user'[u].id # req'[h].id
    <2>1. \E u \in users \cap admins : user[u].id # req'[h].id
      <3>1. CASE h = g
        BY <1>4, <3>1
      <3>2. CASE h # g
        BY <1>1, <1>4, <3>2 DEF Meets
      <3> QED BY <3>1, <3>2
    <2> QED BY <1>0, <2>1 DEF IdsStay
  <1>5. users' \cap admins' # {}
    BY <1>1
  <1> QED BY <1>3, <1>4, <1>5 DEF LeavesAdmin

LEMMA LeavesAdminStep == Typed /\ Apart /\ LeavesAdmin /\ [Next]_vars => LeavesAdmin'
  <1> SUFFICES ASSUME Typed, Apart, LeavesAdmin, [Next]_vars, "deletes" \notin met', ~demoted'
               PROVE  LeavesAdmin'
    BY DEF LeavesAdmin
  <1>t. budget.tokens \in Nat /\ req \in [Handlers -> Request] /\ DOMAIN sessions \subseteq 1 .. budget.tokens
    BY DEF Typed, TypeOK, Request
  <1> DEFINE Kept == \A k \in 1 .. budget.tokens :
                        /\ k \in 1 .. budget'.tokens
                        /\ k \in DOMAIN sessions' => k \in DOMAIN sessions /\ sessions'[k].id = sessions[k].id
  <1>k. SessionsStay /\ budget'.tokens = budget.tokens => Kept
    BY DEF SessionsStay
  <1>j. sessions' = sessions /\ budget' = budget => Kept
    OBVIOUS
  <1>s. user' = user => IdsStay
    BY DEF IdsStay
  <1>n. NoRequest.kind = "none"
    BY DEF NoRequest
  <1> HIDE DEF Kept
  <1>1. ASSUME met \subseteq met', ~demoted, IdsStay, users \subseteq users', admins \subseteq admins', Kept,
               NEW g \in Handlers, \A o \in Handlers \ {g} : req'[o] = req[o],
               Meets(g, "dropUser", 1)' => AskedBy(req'[g].token),
               Meets(g, "dropUser", 2)' => \E u \in users \cap admins : user[u].id # req'[g].id
        PROVE  LeavesAdmin'
    BY <1>1, AdminStays DEF Kept
  <1>2. ASSUME NEW h \in Handlers, NEW r, Taken(h, r) PROVE LeavesAdmin'
    <2>1. /\ Alone(h) /\ req'[h] = r /\ r.step = 1 /\ met \subseteq met' /\ UNCHANGED <<user, users>>
          /\ UNCHANGED <<admins, demoted>>
      BY <1>2, AtFirst DEF Taken, roles
    <2>2. Kept
      BY <1>2, <1>k DEF Taken
    <2>3. Meets(h, "dropUser", 1)' => AskedBy(req'[h].token)
      BY <1>2, <2>1 DEF Meets, Taken
    <2>4. ~Meets(h, "dropUser", 2)'
      BY <2>1 DEF Meets
    <2> QED BY <1>1, <1>s, <2>1, <2>2, <2>3, <2>4 DEF Alone
  <1>3. ASSUME NEW h \in Handlers, Looks(h) PROVE LeavesAdmin'
    <2>1. /\ \A o \in Handlers \ {h} : req'[o] = req[o]
          /\ UNCHANGED <<user, users, met, admins, demoted, budget>> /\ SessionsStay
          /\ req'[h] = NoRequest \/ req'[h] = [req[h] EXCEPT !.step = req[h].step + 1]
      BY <1>3, Looking DEF Only, Alone, store, roles
    <2>2. Kept
      BY <1>k, <2>1
    <2>3. ~Meets(h, "dropUser", 1)'
      <3>1. CASE req'[h] = NoRequest
        BY <1>n, <3>1 DEF Meets
      <3>2. CASE req'[h] = [req[h] EXCEPT !.step = req[h].step + 1]
        <4>1. req[h] \in Request
          BY <1>t
        <4>2. req'[h].step = req[h].step + 1 /\ req[h].step \in 1 .. 7
          BY <3>2, <4>1 DEF Request
        <4>3. req'[h].step # 1
          BY <4>2
        <4> QED BY <4>3 DEF Meets
      <3> QED BY <2>1, <3>1, <3>2
    <2>4. ASSUME Meets(h, "dropUser", 2)'
          PROVE  \E u \in users \cap admins : user[u].id # req'[h].id
      <3>1. /\ req'[h].id = req[h].id /\ Meets(h, "dropUser", 1)
            /\ req[h].token \in DOMAIN sessions /\ sessions[req[h].token].id # req[h].id
        BY <1>3, <2>4, SelfChecked
      <3>2. AskedBy(req[h].token)
        BY <2>1, <3>1 DEF LeavesAdmin
      <3> QED BY <3>1, <3>2 DEF AskedBy
    <2> QED BY <1>1, <1>s, <2>1, <2>2, <2>3, <2>4
  <1>4. ASSUME NEW h \in Handlers, SetName(h) \/ SetGroup(h) \/ SetRest(h) PROVE LeavesAdmin'
    <2>1. Only(h) /\ IdsStay /\ req[h].kind = "edit"
      BY <1>4, NameSet, GroupSet, RestSet DEF Meets
    <2>2. UNCHANGED <<users, met, sessions, budget>>
      BY <1>4 DEF SetName, SetGroup, SetRest
    <2>3. ~demoted /\ admins \subseteq admins'
      <3>1. CASE SetName(h) \/ SetGroup(h)
        BY <3>1 DEF SetName, SetGroup, roles
      <3>2. CASE SetRest(h)
        BY <3>2, RestSet
      <3> QED BY <1>4, <3>1, <3>2
    <2>4. ~Meets(h, "dropUser", 1)' /\ ~Meets(h, "dropUser", 2)'
      BY <2>1 DEF Only, Meets
    <2> QED BY <1>1, <1>j, <2>1, <2>2, <2>3, <2>4 DEF Only, Alone
  <1>5. ASSUME NEW h \in Handlers, NextID(h) \/ Stamp(h) \/ AppendUser(h) PROVE LeavesAdmin'
    <2>1. Only(h) /\ req[h].kind # "dropUser"
      BY <1>5, NumberRead, NumberWritten, UserAppended DEF Meets
    <2>2. IdsStay /\ users \subseteq users' /\ UNCHANGED <<met, sessions, budget, demoted>> /\ admins \subseteq admins'
      <3>1. CASE NextID(h)
        BY <3>1, <1>s, NumberRead DEF store, roles
      <3>2. CASE Stamp(h)
        BY <3>2, <1>s, NumberWritten DEF roles
      <3>3. CASE AppendUser(h)
        BY <3>3, UserAppended DEF AppendUser
      <3> QED BY <1>5, <3>1, <3>2, <3>3
    <2>3. ~Meets(h, "dropUser", 1)' /\ ~Meets(h, "dropUser", 2)'
      BY <2>1 DEF Only, Meets
    <2> QED BY <1>1, <1>j, <2>1, <2>2, <2>3 DEF Only, Alone
  <1>6. ASSUME NEW h \in Handlers, SetSession(h) PROVE LeavesAdmin'
    <2>1. Only(h) /\ req'[h] = NoRequest
      BY <1>6, SessionMade
    <2>2. UNCHANGED <<user, users, met, admins, demoted>>
      BY <1>6 DEF SetSession, store, roles
    <2>3. ~Meets(h, "dropUser", 1)' /\ ~Meets(h, "dropUser", 2)'
      BY <1>n, <2>1 DEF Meets
    <2>4. Kept
      <3> DEFINE new == budget.tokens + 1
      <3>1. /\ DOMAIN sessions' = DOMAIN sessions \cup {new}
            /\ \A k \in DOMAIN sessions' : k # new => sessions'[k] = sessions[k]
            /\ budget' = [budget EXCEPT !.tokens = new]
        BY <1>6, SessionMade
      <3>2. budget'.tokens = new /\ \A k \in 1 .. budget.tokens : k # new /\ k \in 1 .. new
        BY <1>t, <3>1 DEF Typed, TypeOK
      <3> QED BY <3>1, <3>2 DEF Kept
    <2> QED BY <1>1, <1>s, <2>1, <2>2, <2>3, <2>4 DEF Only, Alone
  <1>7. ASSUME NEW h \in Handlers, AppendGroup(h) \/ DropUser(h) \/ DropGroup(h) \/ StoreSettings(h)
        PROVE  LeavesAdmin'
    <2>1. /\ Only(h) /\ req'[h] = NoRequest
          /\ UNCHANGED <<user, met, sessions, budget, admins, demoted>>
      BY <1>7, LastSteps DEF roles
    <2>2. ~Meets(h, "dropUser", 1)' /\ ~Meets(h, "dropUser", 2)'
      BY <1>n, <2>1 DEF Meets
    <2>3. CASE users' = users
      BY <1>1, <1>j, <1>s, <2>1, <2>2, <2>3 DEF Only, Alone
    <2>4. CASE Meets(h, "dropUser", 2) /\ users' = {u \in users : user[u].id # req[h].id}
      <3>1. users' \cap admins' # {}
        BY <2>1, <2>4 DEF LeavesAdmin
      <3>2. ASSUME NEW o \in Handlers PROVE ~Meets(o, "dropUser", 1)' /\ ~Meets(o, "dropUser", 2)'
        <4>1. CASE o = h
          BY <2>2, <4>1
        <4>2. CASE o # h
          <5>1. Contest(req[h].kind, req[o].kind) \subseteq met /\ req'[o] = req[o]
            BY <2>1, <4>2 DEF Apart, Only, Alone
          <5>2. Contest("dropUser", "dropUser") = {"deletes"}
            BY DEF Contest, Contended, Names_, Ranges_, Ids_, Groups_
          <5> QED BY <2>1, <2>4, <5>1, <5>2 DEF Meets
        <4> QED BY <4>1, <4>2
      <3> QED BY <3>1, <3>2 DEF LeavesAdmin
    <2> QED BY <1>7, <2>3, <2>4, LastSteps
  <1>8. CASE SessionsStay /\ UNCHANGED <<store, roles, req, budget, met>>
    <2>1. UNCHANGED <<user, users, req, budget, met, admins, demoted>> /\ Kept /\ IdsStay
      BY <1>8, <1>k, <1>s DEF store, roles
    <2>2. CASE Handlers = {}
      BY <2>1, <2>2 DEF LeavesAdmin
    <2>3. ASSUME NEW g \in Handlers PROVE LeavesAdmin'
      <3>1. Meets(g, "dropUser", 1)' => AskedBy(req'[g].token)
        BY <2>1 DEF LeavesAdmin, Meets
      <3>2. Meets(g, "dropUser", 2)' => \E u \in users \cap admins : user[u].id # req'[g].id
        BY <2>1 DEF LeavesAdmin, Meets
      <3> QED BY <1>1, <2>1, <3>1, <3>2
    <2> QED BY <2>2, <2>3
  <1> QED BY <1>2, <1>3, <1>4, <1>5, <1>6, <1>7, <1>8, EveryStep

\* Only an edit can leave the panel without an administrator: of any number of
\* deletions that follow each other none takes the last one, since the session of
\* an administrator asks for it and the account of the session is passed over
\* (api.go 66-80, 445).
THEOREM AdministratorLeft == Spec => []AdministratorRemains
  <1>1. LeavesAdmin => AdministratorRemains
    BY DEF LeavesAdmin, AdministratorRemains
  <1>2. Init => Typed /\ Apart /\ LeavesAdmin
    BY TypedInit, ApartInit, LeavesAdminInit
  <1>3. (Typed /\ Apart /\ LeavesAdmin) /\ [Next]_vars => (Typed /\ Apart /\ LeavesAdmin)'
    BY TypedStep, ApartStep, LeavesAdminStep
  <1> QED BY <1>1, <1>2, <1>3, PTL DEF Spec

-----------------------------------------------------------------------------
(* Groups exist *)

\* A request that has found its group and not yet written it finds it still.
GroupAtHand(h) ==
    /\ req[h].kind = "create" /\ req[h].step \in 3 .. 6 => req[h].group \in groups
    /\ req[h].kind = "register" /\ req[h].step \in 3 .. 5 => req[h].group \in groups
    /\ req[h].kind = "edit" /\ req[h].step = 4 => req[h].group \in groups \cup {0}

\* A request that is about to delete a group finds nobody in it.
NobodyIn(h) == Meets(h, "dropGroup", 2) => \A u \in users : user[u].group # req[h].id

GroupsKept ==
    "groups" \in met \/
        /\ \A u \in users : user[u].group \in groups
        /\ \A h \in Handlers : GroupAtHand(h) /\ NobodyIn(h)

LEMMA GroupsKeptInit == Init => GroupsKept
BY DEF Init, GroupsKept, GroupAtHand, NobodyIn, Meets, NoRequest

\* While one request deletes a group, none takes one.
LEMMA NoneTakesAGroup ==
  ASSUME Apart, "groups" \notin met, NEW h \in Handlers, NEW o \in Handlers, h # o
  PROVE  ~(Groups_(req[h].kind) /\ req[o].kind = "dropGroup")
  <1>1. ASSUME Groups_(req[h].kind), req[o].kind = "dropGroup" PROVE FALSE
    <2>1. "groups" \in Contest(req[h].kind, req[o].kind)
      BY <1>1 DEF Contest, Contended
    <2> QED BY <2>1 DEF Apart
  <1> QED BY <1>1

\* What a look leaves of a request that may write a group, or delete one.
LEMMA GroupChecked ==
  ASSUME Typed, GroupsKept, "groups" \notin met, NEW h \in Handlers, Looks(h)
  PROVE  GroupAtHand(h)' /\ NobodyIn(h)'
  <1> DEFINE Goal == GroupAtHand(h)' /\ NobodyIn(h)'
  <1>0. /\ req[h] \in Request /\ req \in [Handlers -> Request]
        /\ GroupAtHand(h) /\ NobodyIn(h)
    BY DEF Typed, TypeOK, Request, GroupsKept
  <1>1. /\ user' = user /\ users' = users /\ groups' = groups
        /\ req'[h] = NoRequest \/ req'[h] = [req[h] EXCEPT !.step = req[h].step + 1]
    BY Looking DEF store
  <1>2. CASE req'[h] = NoRequest
    BY <1>2 DEF GroupAtHand, NobodyIn, Meets, NoRequest
  <1>3. CASE req'[h] = [req[h] EXCEPT !.step = req[h].step + 1] /\ req'[h] # NoRequest
    <2>1. /\ req'[h].kind = req[h].kind /\ req'[h].step = req[h].step + 1
          /\ req'[h].group = req[h].group /\ req'[h].id = req[h].id
      BY <1>0, <1>3 DEF Request
    <2>2. CASE CheckGroup(h)
      <3> DEFINE ok == \/ req[h].group \in groups
                       \/ req[h].group = 0 /\ Is(h, {"edit", "settings"})
      <3>1. At(h, "group") /\ Check(h, ok)
        BY <2>2 DEF CheckGroup
      <3>2. Meets(h, "create", 2) \/ Meets(h, "register", 2) \/ Meets(h, "edit", 3) \/ Meets(h, "settings", 1)
        BY <1>0, <3>1, Steps DEF Request
      <3>3. ok
        <4> HIDE DEF ok
        <4>1. ~Meets(h, "register", 5)
          BY <3>2 DEF Meets
        <4> QED BY <1>3, <3>1, <4>1, CheckMoves
      <3> QED BY <1>1, <2>1, <3>2, <3>3 DEF GroupAtHand, NobodyIn, Meets, Is
    <2>3. CASE CheckMembers(h)
      <3> DEFINE ok == \A u \in users : user[u].group # req[h].id
      <3>1. At(h, "members") /\ Check(h, ok)
        BY <2>3 DEF CheckMembers
      <3>2. Meets(h, "dropGroup", 1)
        BY <1>0, <3>1, Steps DEF Request
      <3>3. ok
        <4> HIDE DEF ok
        <4>1. ~Meets(h, "register", 5)
          BY <3>2 DEF Meets
        <4> QED BY <1>3, <3>1, <4>1, CheckMoves
      <3> QED BY <1>1, <2>1, <3>2, <3>3 DEF GroupAtHand, NobodyIn, Meets
    <2>4. CASE CheckName(h) \/ CheckRanges(h) \/ CheckSelf(h)
      <3>1. \/ Meets(h, "create", 1) \/ Meets(h, "register", 1) \/ Meets(h, "edit", 1)
            \/ Meets(h, "create", 3) \/ Meets(h, "edit", 5) \/ Meets(h, "dropUser", 1)
        <4>1. At(h, "name") \/ At(h, "ranges") \/ At(h, "self")
          BY <2>4 DEF CheckName, CheckRanges, CheckSelf
        <4> QED BY <1>0, <4>1, Steps DEF Request
      <3> QED BY <1>0, <1>1, <2>1, <3>1 DEF GroupAtHand, NobodyIn, Meets
    <2> QED BY <2>2, <2>3, <2>4 DEF Looks
  <1> QED BY <1>1, <1>2, <1>3

LEMMA GroupsKeptStep == Typed /\ Apart /\ GroupsKept /\ [Next]_vars => GroupsKept'
  <1> SUFFICES ASSUME Typed, Apart, GroupsKept, [Next]_vars, "groups" \notin met'
               PROVE  /\ \A u \in users' : user'[u].group \in groups'
                      /\ \A h \in Handlers : GroupAtHand(h)' /\ NobodyIn(h)'
    BY DEF GroupsKept
  <1> DEFINE Goal == /\ \A u \in users' : user'[u].group \in groups'
                     /\ \A h \in Handlers : GroupAtHand(h)' /\ NobodyIn(h)'
             Had == /\ \A u \in users : user[u].group \in groups
                    /\ \A h \in Handlers : GroupAtHand(h) /\ NobodyIn(h)
             Others(g) == \A o \in Handlers \ {g} : req'[o] = req[o]
  <1>0. users \subseteq DOMAIN user
    BY DEF Typed, TypeOK
  <1> SUFFICES Goal
    OBVIOUS
  <1>n. NoRequest.kind = "none"
    BY DEF NoRequest
  <1>h. "groups" \notin met => Had
    BY DEF GroupsKept
  <1> HIDE DEF Goal
  \* A step that deletes no group and puts nobody into one: only its own
  \* request is to be looked at.
  <1>1. ASSUME "groups" \notin met, groups \subseteq groups', users' \subseteq users,
               \A u \in users : user'[u].group = user[u].group,
               NEW g \in Handlers, Others(g), GroupAtHand(g)', NobodyIn(g)'
        PROVE  Goal
    <2>1. ASSUME NEW h \in Handlers, h # g PROVE GroupAtHand(h)' /\ NobodyIn(h)'
      <3>1. GroupAtHand(h) /\ NobodyIn(h) /\ req'[h] = req[h]
        BY <1>1, <1>h, <2>1
      <3> QED BY <1>1, <3>1 DEF GroupAtHand, NobodyIn, Meets
    <2> QED BY <1>1, <1>h, <2>1 DEF Goal
  <1>e. ASSUME NEW g \in Handlers, req'[g].kind = "none" PROVE GroupAtHand(g)' /\ NobodyIn(g)'
    BY <1>e DEF GroupAtHand, NobodyIn, Meets
  <1>2. ASSUME NEW h \in Handlers, NEW r, Taken(h, r) PROVE Goal
    <2>1. /\ Others(h) /\ req'[h].step = 1 /\ "groups" \notin met
          /\ user' = user /\ users' = users /\ groups' = groups
      BY <1>2, AtFirst DEF Alone
    <2>2. GroupAtHand(h)' /\ NobodyIn(h)'
      BY <2>1 DEF GroupAtHand, NobodyIn, Meets
    <2> QED BY <1>1, <2>1, <2>2
  <1>3. ASSUME NEW h \in Handlers, Looks(h) PROVE Goal
    <2>1. Others(h) /\ "groups" \notin met /\ user' = user /\ users' = users /\ groups' = groups
      BY <1>3, Looking DEF Only, Alone, store
    <2>2. GroupAtHand(h)' /\ NobodyIn(h)'
      BY <1>3, <2>1, GroupChecked
    <2> QED BY <1>1, <2>1, <2>2
  <1>4. ASSUME NEW h \in Handlers, SetName(h) \/ SetRest(h) PROVE Goal
    <2>1. users' = users /\ groups' = groups /\ "groups" \notin met
      BY <1>4 DEF SetName, SetRest
    <2>2. Others(h) /\ \A u \in users : user'[u].group = user[u].group
      BY <1>0, <1>4, NameSet, RestSet DEF Only, Alone
    <2>3. GroupAtHand(h)' /\ NobodyIn(h)'
      <3>1. req'[h].kind = "none" \/ (req'[h].kind = "edit" /\ req'[h].step = 3)
        BY <1>n, <1>4, NameSet, RestSet
      <3> QED BY <3>1, <1>e DEF GroupAtHand, NobodyIn, Meets
    <2> QED BY <1>1, <2>1, <2>2, <2>3
  <1>5. ASSUME NEW h \in Handlers, SetGroup(h) PROVE Goal
    <2>1. users' = users /\ groups' = groups /\ "groups" \notin met
      BY <1>5 DEF SetGroup
    <2>2. Others(h) /\ req[h].kind = "edit" /\ req[h].step = 4
      BY <1>5, GroupSet DEF Only, Alone, Meets
    <2>3. Had /\ req[h].group \in groups \cup {0}
      BY <1>h, <2>1, <2>2 DEF GroupAtHand
    <2>4. \A u \in users : user'[u].group \in groups'
      <3>1. /\ \A u \in DOMAIN user \ {req[h].of} : user'[u] = user[u]
            /\ user'[req[h].of].group = IF req[h].group = 0 THEN user[req[h].of].group ELSE req[h].group
        BY <1>5, GroupSet
      <3> SUFFICES ASSUME NEW u \in users PROVE user'[u].group \in groups
        BY <2>1
      <3>2. user[u].group \in groups
        BY <2>3
      <3>3. CASE u = req[h].of
        BY <2>3, <3>1, <3>2, <3>3
      <3>4. CASE u # req[h].of
        BY <1>0, <3>1, <3>2, <3>4
      <3> QED BY <3>3, <3>4
    <2>5. ASSUME NEW o \in Handlers PROVE GroupAtHand(o)' /\ NobodyIn(o)'
      <3>1. CASE o = h
        <4>1. req'[h].kind = "none" \/ (req'[h].kind = "edit" /\ req'[h].step = 5)
          BY <1>n, <1>5, GroupSet
        <4> QED BY <3>1, <4>1, <1>e DEF GroupAtHand, NobodyIn, Meets
      <3>2. CASE o # h
        <4>1. req[o].kind # "dropGroup"
          BY <2>1, <2>2, <3>2, NoneTakesAGroup DEF Groups_
        <4> QED BY <2>1, <2>2, <2>3, <3>2, <4>1 DEF GroupAtHand, NobodyIn, Meets
      <3> QED BY <3>1, <3>2
    <2> QED BY <2>1, <2>4, <2>5 DEF Goal
  <1>6. ASSUME NEW h \in Handlers, NextID(h) PROVE Goal
    <2>1. Others(h) /\ "groups" \notin met /\ user' = user /\ users' = users /\ groups' = groups
      BY <1>6, NumberRead DEF Only, Alone, store
    <2>2. GroupAtHand(h)' /\ NobodyIn(h)'
      <3>1. CASE req'[h] = NoRequest
        BY <1>n, <1>e, <3>1
      <3>2. CASE req'[h] # NoRequest
        <4>1. /\ Meets(h, "create", 4) \/ Meets(h, "register", 3) \/ Meets(h, "newGroup", 1)
              /\ req'[h].kind = req[h].kind /\ req'[h].step = req[h].step + 1
              /\ req'[h].group = req[h].group
          BY <1>6, <3>2, NumberRead
        <4>2. GroupAtHand(h)
          BY <1>h, <2>1
        <4> QED BY <2>1, <4>1, <4>2 DEF GroupAtHand, NobodyIn, Meets
      <3> QED BY <3>1, <3>2
    <2> QED BY <1>1, <2>1, <2>2
  <1>7. ASSUME NEW h \in Handlers, Stamp(h) PROVE Goal
    <2>1. Others(h) /\ "groups" \notin met /\ user' = user /\ users' = users /\ groups' = groups
      BY <1>7, NumberWritten DEF Only, Alone
    <2>2. GroupAtHand(h)' /\ NobodyIn(h)'
      <3>1. req[h] \in Request
        BY DEF Typed, TypeOK, Request
      <3>2. /\ Meets(h, "create", 5) \/ Meets(h, "register", 4) \/ Meets(h, "newGroup", 2)
            /\ req'[h].kind = req[h].kind /\ req'[h].step = req[h].step + 1
            /\ req'[h].group = req[h].group
        BY <1>7, <3>1, NumberWritten DEF Request
      <3>3. GroupAtHand(h)
        BY <1>h, <2>1
      <3> QED BY <2>1, <3>2, <3>3 DEF GroupAtHand, NobodyIn, Meets
    <2> QED BY <1>1, <2>1, <2>2
  <1>8. ASSUME NEW h \in Handlers, AppendUser(h) PROVE Goal
    <2> DEFINE new == Len(user) + 1
    <2>1. groups' = groups /\ "groups" \notin met
      BY <1>8 DEF AppendUser
    <2>2. Others(h) /\ (Meets(h, "create", 6) \/ Meets(h, "register", 5))
      BY <1>8, UserAppended DEF Only, Alone
    <2>3. Had /\ req[h].group \in groups
      BY <1>h, <2>1, <2>2 DEF GroupAtHand, Meets
    <2>4. \A u \in users' : user'[u].group \in groups'
      BY <1>0, <1>8, <2>1, <2>3, UserAppended
    <2>5. ASSUME NEW o \in Handlers PROVE GroupAtHand(o)' /\ NobodyIn(o)'
      <3>1. CASE o = h
        <4>1. req'[h].kind = "none" \/ (req'[h].kind = "register" /\ req'[h].step = 6)
          BY <1>n, <1>8, UserAppended
        <4> QED BY <3>1, <4>1, <1>e DEF GroupAtHand, NobodyIn, Meets
      <3>2. CASE o # h
        <4>1. req[o].kind # "dropGroup"
          BY <2>1, <2>2, <3>2, NoneTakesAGroup DEF Groups_, Meets
        <4> QED BY <2>1, <2>2, <2>3, <3>2, <4>1 DEF GroupAtHand, NobodyIn, Meets
      <3> QED BY <3>1, <3>2
    <2> QED BY <2>4, <2>5 DEF Goal
  <1>9. ASSUME NEW h \in Handlers, SetSession(h) PROVE Goal
    <2>1. Others(h) /\ req'[h].kind = "none"
      BY <1>n, <1>9, SessionMade DEF Only, Alone
    <2>2. user' = user /\ users' = users /\ groups' = groups /\ "groups" \notin met
      BY <1>9 DEF SetSession, store
    <2> QED BY <1>1, <1>e, <2>1, <2>2
  <1>10. ASSUME NEW h \in Handlers, AppendGroup(h) \/ DropUser(h) \/ DropGroup(h) \/ StoreSettings(h)
         PROVE  Goal
    <2>1. Others(h) /\ req'[h].kind = "none" /\ user' = user /\ "groups" \notin met
      BY <1>n, <1>10, LastSteps DEF Only, Alone
    <2>2. CASE groups \subseteq groups' /\ users' \subseteq users
      BY <1>1, <1>e, <2>1, <2>2
    <2>3. CASE Meets(h, "dropGroup", 2) /\ groups' = groups \ {req[h].id} /\ users' = users
      <3>1. Had
        BY <1>h, <2>1
      <3>2. \A u \in users' : user'[u].group \in groups'
        BY <2>1, <2>3, <3>1 DEF NobodyIn
      <3>3. ASSUME NEW o \in Handlers PROVE GroupAtHand(o)' /\ NobodyIn(o)'
        <4>1. CASE o = h
          BY <1>e, <2>1, <4>1
        <4>2. CASE o # h
          <5>1. ~Groups_(req[o].kind)
            BY <2>1, <2>3, <4>2, NoneTakesAGroup DEF Meets
          <5>2. req'[o] = req[o] /\ NobodyIn(o)
            BY <2>1, <3>1, <4>2
          <5> QED BY <2>1, <2>3, <5>1, <5>2 DEF GroupAtHand, NobodyIn, Meets, Groups_
        <4> QED BY <4>1, <4>2
      <3> QED BY <3>2, <3>3 DEF Goal
    <2> QED BY <1>10, <2>2, <2>3, LastSteps
  <1>11. CASE UNCHANGED <<store, roles, req, budget, met>>
    <2>1. UNCHANGED <<user, users, groups, req>> /\ Had
      BY <1>11, <1>h DEF store
    <2> QED BY <2>1 DEF Goal, GroupAtHand, NobodyIn, Meets
  <1> QED BY <1>2, <1>3, <1>4, <1>5, <1>6, <1>7, <1>8, <1>9, <1>10, <1>11, EveryStep

\* Every listed user is in a group that exists, unless a deletion of a group ran
\* beside a request that takes one: what a request has found stays there until it
\* has written it (api.go 348, 425, 571-585).
THEOREM GroupsThere == Spec => []GroupsExist
  <1>1. GroupsKept => GroupsExist
    BY DEF GroupsKept, GroupsExist
  <1>2. Init => Typed /\ Apart /\ GroupsKept
    BY TypedInit, ApartInit, GroupsKeptInit
  <1>3. (Typed /\ Apart /\ GroupsKept) /\ [Next]_vars => (Typed /\ Apart /\ GroupsKept)'
    BY TypedStep, ApartStep, GroupsKeptStep
  <1> QED BY <1>1, <1>2, <1>3, PTL DEF Spec

-----------------------------------------------------------------------------
(* Identifiers *)

\* Whoever has read the number finds it where it was ...
AboutToStamp(h) ==
    Meets(h, "create", 5) \/ Meets(h, "register", 4) \/ Meets(h, "newGroup", 2) => req[h].id = seq + 1

\* ... and whoever has written it has one that nobody bears.
Stamped(h) == Meets(h, "create", 6) \/ Meets(h, "register", 5) \/ Meets(h, "newGroup", 3)
AboutToAppend(h) ==
    Stamped(h) => req[h].id = seq /\ \A u \in DOMAIN user : user[u].id < seq

Numbered ==
    "ids" \in met \/
        /\ seq > 0
        /\ \A u \in DOMAIN user : user[u].id \in 1 .. seq
        /\ \A u, v \in DOMAIN user : user[u].id = user[v].id => u = v
        /\ \A h \in Handlers : AboutToStamp(h) /\ AboutToAppend(h)

LEMMA NumberedInit == Init => Numbered
BY DEF Init, Numbered, AboutToStamp, AboutToAppend, Stamped, Meets, NoRequest

\* No two requests number anything at the same time.
LEMMA NoneNumbers ==
  ASSUME Apart, "ids" \notin met, NEW h \in Handlers, NEW o \in Handlers, h # o, Ids_(req[h].kind)
  PROVE  ~Ids_(req[o].kind)
  <1>1. ASSUME Ids_(req[o].kind) PROVE FALSE
    <2>1. "ids" \in Contest(req[h].kind, req[o].kind)
      BY <1>1 DEF Contest, Contended
    <2> QED BY <2>1 DEF Apart
  <1> QED BY <1>1

LEMMA NumberedStep == Typed /\ Apart /\ Numbered /\ [Next]_vars => Numbered'
  <1> DEFINE Goal == /\ seq' > 0
                     /\ \A u \in DOMAIN user' : user'[u].id \in 1 .. seq'
                     /\ \A u, v \in DOMAIN user' : user'[u].id = user'[v].id => u = v
                     /\ \A h \in Handlers : AboutToStamp(h)' /\ AboutToAppend(h)'
             Had == /\ seq > 0
                    /\ \A u \in DOMAIN user : user[u].id \in 1 .. seq
                    /\ \A u, v \in DOMAIN user : user[u].id = user[v].id => u = v
                    /\ \A h \in Handlers : AboutToStamp(h) /\ AboutToAppend(h)
             Others(g) == \A o \in Handlers \ {g} : req'[o] = req[o]
  <1> SUFFICES ASSUME Typed, Apart, Numbered, [Next]_vars, "ids" \notin met' PROVE Goal
    BY DEF Numbered
  <1>0. user \in Seq(Person) /\ seq \in Nat
    BY DEF Typed, TypeOK, Person
  <1>h. "ids" \notin met => Had
    BY DEF Numbered
  <1>n. NoRequest.kind = "none"
    BY DEF NoRequest
  <1> HIDE DEF Goal, Had
  \* A step that numbers nothing and makes no account.
  <1>1. ASSUME "ids" \notin met, seq' = seq, DOMAIN user' = DOMAIN user, IdsStay,
               NEW g \in Handlers, Others(g), AboutToStamp(g)', AboutToAppend(g)'
        PROVE  Goal
    <2>1. \A u \in DOMAIN user : user'[u].id = user[u].id
      BY <1>1 DEF IdsStay
    <2>2. ASSUME NEW h \in Handlers, h # g PROVE AboutToStamp(h)' /\ AboutToAppend(h)'
      <3>1. AboutToStamp(h) /\ AboutToAppend(h) /\ req'[h] = req[h]
        BY <1>1, <1>h, <2>2 DEF Had
      <3> QED BY <1>1, <2>1, <3>1 DEF AboutToStamp, AboutToAppend, Stamped, Meets
    <2> QED BY <1>1, <1>h, <2>1, <2>2 DEF Goal, Had
  <1>e. ASSUME NEW g \in Handlers, ~Ids_(req'[g].kind) PROVE AboutToStamp(g)' /\ AboutToAppend(g)'
    BY <1>e DEF AboutToStamp, AboutToAppend, Stamped, Meets, Ids_
  <1>s. user' = user => IdsStay /\ DOMAIN user' = DOMAIN user
    BY DEF IdsStay
  <1>o. ~Ids_("none") /\ ~Ids_("edit")
    BY DEF Ids_
  <1>2. ASSUME NEW h \in Handlers, NEW r, Taken(h, r) PROVE Goal
    <2>1. Others(h) /\ req'[h].step = 1 /\ "ids" \notin met /\ user' = user /\ seq' = seq
      BY <1>2, AtFirst DEF Alone
    <2>2. AboutToStamp(h)' /\ AboutToAppend(h)'
      BY <2>1 DEF AboutToStamp, AboutToAppend, Stamped, Meets
    <2> QED BY <1>1, <1>s, <2>1, <2>2
  <1>3. ASSUME NEW h \in Handlers, Looks(h) PROVE Goal
    <2>1. Others(h) /\ "ids" \notin met /\ user' = user /\ seq' = seq
      BY <1>3, Looking DEF Only, Alone, store
    <2>2. AboutToStamp(h)' /\ AboutToAppend(h)'
      <3>0. req[h] \in Request
        BY DEF Typed, TypeOK, Request
      <3>1. CASE req'[h] = NoRequest
        BY <1>n, <1>o, <1>e, <3>1
      <3>2. CASE req'[h] = [req[h] EXCEPT !.step = req[h].step + 1]
        <4>1. req'[h].kind = req[h].kind /\ req'[h].step = req[h].step + 1
          BY <3>0, <3>2 DEF Request
        <4>2. \/ Meets(h, "create", 1) \/ Meets(h, "register", 1) \/ Meets(h, "edit", 1)
              \/ Meets(h, "create", 2) \/ Meets(h, "register", 2) \/ Meets(h, "edit", 3)
              \/ Meets(h, "settings", 1) \/ Meets(h, "create", 3) \/ Meets(h, "edit", 5)
              \/ Meets(h, "dropUser", 1) \/ Meets(h, "dropGroup", 1)
          <5>1. At(h, "name") \/ At(h, "group") \/ At(h, "ranges") \/ At(h, "self") \/ At(h, "members")
            BY <1>3 DEF Looks, CheckName, CheckGroup, CheckRanges, CheckSelf, CheckMembers
          <5> QED BY <3>0, <5>1, Steps DEF Request
        <4> QED BY <4>1, <4>2 DEF AboutToStamp, AboutToAppend, Stamped, Meets
      <3> QED BY <1>3, <3>1, <3>2, Looking
    <2> QED BY <1>1, <1>s, <2>1, <2>2
  <1>4. ASSUME NEW h \in Handlers, SetName(h) \/ SetGroup(h) \/ SetRest(h) PROVE Goal
    <2>1. seq' = seq /\ "ids" \notin met
      BY <1>4 DEF SetName, SetGroup, SetRest
    <2>2. Only(h) /\ IdsStay /\ DOMAIN user' = DOMAIN user /\ req[h].kind = "edit"
      BY <1>4, NameSet, GroupSet, RestSet DEF Meets
    <2>3. AboutToStamp(h)' /\ AboutToAppend(h)'
      BY <1>e, <1>o, <2>2 DEF Only
    <2> QED BY <1>1, <2>1, <2>2, <2>3 DEF Only, Alone
  <1>5. ASSUME NEW h \in Handlers, NextID(h) PROVE Goal
    <2>1. Others(h) /\ "ids" \notin met /\ user' = user /\ seq' = seq
      BY <1>5, NumberRead DEF Only, Alone, store
    <2>2. AboutToStamp(h)' /\ AboutToAppend(h)'
      <3>1. CASE req'[h] = NoRequest
        BY <1>n, <1>o, <1>e, <3>1
      <3>2. CASE req'[h] # NoRequest
        <4>1. /\ Meets(h, "create", 4) \/ Meets(h, "register", 3) \/ Meets(h, "newGroup", 1)
              /\ req'[h].kind = req[h].kind /\ req'[h].step = req[h].step + 1
              /\ req'[h].id = seq + 1
          BY <1>5, <3>2, NumberRead
        <4> QED BY <2>1, <4>1 DEF AboutToStamp, AboutToAppend, Stamped, Meets
      <3> QED BY <3>1, <3>2
    <2> QED BY <1>1, <1>s, <2>1, <2>2
  <1>6. ASSUME NEW h \in Handlers, Stamp(h) PROVE Goal
    <2>0. req[h] \in Request
      BY DEF Typed, TypeOK, Request
    <2>1. /\ Others(h) /\ "ids" \notin met /\ user' = user /\ seq' = req[h].id
          /\ Meets(h, "create", 5) \/ Meets(h, "register", 4) \/ Meets(h, "newGroup", 2)
          /\ req'[h] = [req[h] EXCEPT !.step = req[h].step + 1]
      BY <1>6, NumberWritten DEF Only, Alone
    <2>2. req'[h].kind = req[h].kind /\ req'[h].step = req[h].step + 1 /\ req'[h].id = req[h].id
      BY <2>0, <2>1 DEF Request
    <2>3. Had /\ seq' = seq + 1
      BY <1>h, <2>1 DEF AboutToStamp, Had
    <2>4. \A u \in DOMAIN user : user[u].id \in 1 .. seq' /\ user[u].id < seq'
      BY <1>0, <2>3 DEF Had
    <2>5. ASSUME NEW o \in Handlers PROVE AboutToStamp(o)' /\ AboutToAppend(o)'
      <3>1. CASE o = h
        <4>1. ~Meets(h, "create", 5)' /\ ~Meets(h, "register", 4)' /\ ~Meets(h, "newGroup", 2)'
          BY <2>1, <2>2 DEF Meets
        <4>2. req'[h].id = seq' /\ \A u \in DOMAIN user' : user'[u].id < seq'
          BY <2>1, <2>2, <2>4
        <4> QED BY <3>1, <4>1, <4>2 DEF AboutToStamp, AboutToAppend
      <3>2. CASE o # h
        <4>1. Ids_(req[h].kind)
          BY <2>1 DEF Ids_, Meets
        <4>2. ~Ids_(req[o].kind) /\ req'[o] = req[o]
          BY <2>1, <3>2, <4>1, NoneNumbers
        <4> QED BY <4>2, <1>e
      <3> QED BY <3>1, <3>2
    <2>6. seq' > 0
      BY <1>0, <2>3
    <2>7. \A u, v \in DOMAIN user' : user'[u].id = user'[v].id => u = v
      BY <2>1, <2>3 DEF Had
    <2>8. \A u \in DOMAIN user' : user'[u].id \in 1 .. seq'
      BY <2>1, <2>4
    <2> QED BY <2>5, <2>6, <2>7, <2>8 DEF Goal
  <1>7. ASSUME NEW h \in Handlers, AppendUser(h) PROVE Goal
    <2> DEFINE new == Len(user) + 1
    <2>1. seq' = seq /\ "ids" \notin met
      BY <1>7 DEF AppendUser
    <2>2. Others(h) /\ (Meets(h, "create", 6) \/ Meets(h, "register", 5))
      BY <1>7, UserAppended DEF Only, Alone
    <2>3. Had /\ req[h].id = seq /\ \A u \in DOMAIN user : user[u].id < seq
      BY <1>h, <2>1, <2>2 DEF Had, AboutToAppend, Stamped
    <2>4. /\ DOMAIN user' = DOMAIN user \cup {new} /\ new \notin DOMAIN user
          /\ \A u \in DOMAIN user : user'[u] = user[u]
          /\ user'[new].id = req[h].id
      BY <1>7, UserAppended
    <2>5. \A u \in DOMAIN user : user'[u].id \in 1 .. seq /\ user'[u].id < seq
      BY <2>3, <2>4 DEF Had
    <2>6. user'[new].id = seq /\ seq \in 1 .. seq
      BY <1>0, <2>3, <2>4 DEF Had
    <2>7. \A u, v \in DOMAIN user' : user'[u].id = user'[v].id => u = v
      <3> SUFFICES ASSUME NEW u \in DOMAIN user', NEW v \in DOMAIN user', user'[u].id = user'[v].id
                   PROVE  u = v
        OBVIOUS
      <3>1. seq \in Int /\ ~(seq < seq)
        BY <1>0
      <3>2. CASE u = new /\ v # new
        BY <2>4, <2>5, <2>6, <3>1, <3>2
      <3>3. CASE u # new /\ v = new
        BY <2>4, <2>5, <2>6, <3>1, <3>3
      <3>4. CASE u # new /\ v # new
        BY <2>3, <2>4, <3>4 DEF Had
      <3> QED BY <3>2, <3>3, <3>4
    <2>8. ASSUME NEW o \in Handlers PROVE AboutToStamp(o)' /\ AboutToAppend(o)'
      <3>1. CASE o = h
        <4>1. req'[h].kind = "none" \/ (req'[h].kind = "register" /\ req'[h].step = 6)
          BY <1>n, <1>7, UserAppended
        <4> QED BY <3>1, <4>1, <1>e, <1>o DEF AboutToStamp, AboutToAppend, Stamped, Meets
      <3>2. CASE o # h
        <4>1. Ids_(req[h].kind)
          BY <2>2 DEF Ids_, Meets
        <4>2. ~Ids_(req[o].kind) /\ req'[o] = req[o]
          BY <2>1, <2>2, <3>2, <4>1, NoneNumbers
        <4> QED BY <4>2, <1>e
      <3> QED BY <3>1, <3>2
    <2>9. \A u \in DOMAIN user' : user'[u].id \in 1 .. seq'
      BY <2>1, <2>4, <2>5, <2>6
    <2> QED BY <2>1, <2>3, <2>7, <2>8, <2>9 DEF Goal, Had
  <1>8. ASSUME NEW h \in Handlers, SetSession(h) PROVE Goal
    <2>1. Others(h) /\ req'[h].kind = "none"
      BY <1>n, <1>8, SessionMade DEF Only, Alone
    <2>2. user' = user /\ seq' = seq /\ "ids" \notin met
      BY <1>8 DEF SetSession, store
    <2> QED BY <1>1, <1>e, <1>o, <1>s, <2>1, <2>2
  <1>9. ASSUME NEW h \in Handlers, AppendGroup(h) \/ DropUser(h) \/ DropGroup(h) \/ StoreSettings(h)
        PROVE  Goal
    <2>1. Others(h) /\ req'[h].kind = "none" /\ user' = user /\ seq' = seq /\ "ids" \notin met
      BY <1>n, <1>9, LastSteps DEF Only, Alone
    <2> QED BY <1>1, <1>e, <1>o, <1>s, <2>1
  <1>10. CASE UNCHANGED <<store, roles, req, budget, met>>
    <2>1. UNCHANGED <<user, seq, req>> /\ Had
      BY <1>10, <1>h DEF store
    <2> QED BY <2>1 DEF Goal, Had, AboutToStamp, AboutToAppend, Stamped, Meets
  <1> QED BY <1>2, <1>3, <1>4, <1>5, <1>6, <1>7, <1>8, <1>9, <1>10, EveryStep

\* A session acts for the account it was made for or for none, also after that
\* account was deleted: no identifier is given twice, unless two creations
\* number at the same time (storage.go 191, auth.go 97, api.go 47).
THEOREM EverybodyAsItself == Spec => []ActsAsItself
  <1>1. Typed /\ Numbered => ActsAsItself
    <2> SUFFICES ASSUME Typed, Numbered, "ids" \notin met, NEW k \in DOMAIN sessions,
                        getUser(k) # NoUser
                 PROVE  getUser(k) = sessions[k].owner
      BY DEF ActsAsItself
    <2>1. getUser(k) = UserByID(sessions[k].id)
      BY DEF getUser
    <2>2. getUser(k) \in users /\ user[getUser(k)].id = sessions[k].id
      BY <2>1, Found DEF Typed, TypeOK, Person
    <2>3. /\ sessions[k].owner \in DOMAIN user /\ users \subseteq DOMAIN user
          /\ sessions[k].id = user[sessions[k].owner].id
      BY SessionFacts DEF Typed, TypeOK, Session
    <2> QED BY <2>2, <2>3 DEF Numbered
  <1>2. Init => Typed /\ Apart /\ Numbered
    BY TypedInit, ApartInit, NumberedInit
  <1>3. (Typed /\ Apart /\ Numbered) /\ [Next]_vars => (Typed /\ Apart /\ Numbered)'
    BY TypedStep, ApartStep, NumberedStep
  <1> QED BY <1>1, <1>2, <1>3, PTL DEF Spec

-----------------------------------------------------------------------------
(* Names *)

\* A name that was looked up and not yet written is borne by nobody (else).
Unborne(name, but) == \A u \in users \ but : user[u].name # name
NameAtHand(h) ==
    /\ req[h].kind = "create" /\ req[h].step \in 2 .. 6 => Unborne(req[h].name, {})
    /\ req[h].kind = "register" /\ req[h].step \in 2 .. 5 => Unborne(req[h].name, {})
    /\ req[h].kind = "edit" /\ req[h].step = 2 => Unborne(req[h].name, {req[h].of})

NamesKept ==
    {"ids", "names"} \cap met # {} \/
        /\ \A u, v \in users : user[u].name = user[v].name => u = v
        /\ \A h \in Handlers : NameAtHand(h)

LEMMA NamesKeptInit == Init => NamesKept
BY DEF Init, NamesKept, NameAtHand, NoRequest

\* No two requests give names at the same time.
LEMMA NoneNames ==
  ASSUME Apart, "names" \notin met, NEW h \in Handlers, NEW o \in Handlers, h # o, Names_(req[h].kind)
  PROVE  ~Names_(req[o].kind)
  <1>1. ASSUME Names_(req[o].kind) PROVE FALSE
    <2>1. "names" \in Contest(req[h].kind, req[o].kind)
      BY <1>1 DEF Contest, Contended
    <2> QED BY <2>1 DEF Apart
  <1> QED BY <1>1

\* Which looks there are, by the kind of the request and its step.
LEMMA LooksAt ==
  ASSUME Typed, NEW h \in Handlers, Looks(h)
  PROVE  /\ \/ req'[h] = NoRequest
            \/ /\ req'[h].kind = req[h].kind /\ req'[h].step = req[h].step + 1
               /\ req'[h].id = req[h].id /\ req'[h].of = req[h].of /\ req'[h].name = req[h].name
               /\ req'[h].group = req[h].group /\ req'[h].ranges = req[h].ranges
         /\ \/ CheckName(h) /\ (Meets(h, "create", 1) \/ Meets(h, "register", 1) \/ Meets(h, "edit", 1))
            \/ CheckRanges(h) /\ (Meets(h, "create", 3) \/ Meets(h, "edit", 5))
            \/ /\ Meets(h, "create", 2) \/ Meets(h, "register", 2) \/ Meets(h, "edit", 3)
                  \/ Meets(h, "settings", 1) \/ Meets(h, "dropUser", 1) \/ Meets(h, "dropGroup", 1)
  <1>0. req[h] \in Request
    BY DEF Typed, TypeOK, Request
  <1>1. \/ req'[h] = NoRequest
        \/ /\ req'[h].kind = req[h].kind /\ req'[h].step = req[h].step + 1
           /\ req'[h].id = req[h].id /\ req'[h].of = req[h].of /\ req'[h].name = req[h].name
           /\ req'[h].group = req[h].group /\ req'[h].ranges = req[h].ranges
    <2>1. req'[h] = NoRequest \/ req'[h] = [req[h] EXCEPT !.step = req[h].step + 1]
      BY Looking
    <2> QED BY <1>0, <2>1 DEF Request
  <1>2. CASE CheckName(h)
    <2>1. At(h, "name")
      BY <1>2 DEF CheckName
    <2> QED BY <1>0, <1>1, <1>2, <2>1, Steps DEF Request
  <1>3. CASE CheckRanges(h)
    <2>1. At(h, "ranges")
      BY <1>3 DEF CheckRanges
    <2> QED BY <1>0, <1>1, <1>3, <2>1, Steps DEF Request
  <1>4. CASE CheckGroup(h) \/ CheckSelf(h) \/ CheckMembers(h)
    <2>1. At(h, "group") \/ At(h, "self") \/ At(h, "members")
      BY <1>4 DEF CheckGroup, CheckSelf, CheckMembers
    <2> QED BY <1>0, <1>1, <2>1, Steps DEF Request
  <1> QED BY <1>2, <1>3, <1>4 DEF Looks

LEMMA NameChecked ==
  ASSUME Typed, Numbered, NamesKept, {"ids", "names"} \cap met = {}, NEW h \in Handlers, Looks(h)
  PROVE  NameAtHand(h)'
  <1>0. /\ NameAtHand(h) /\ \A u, v \in users : user[u].name = user[v].name => u = v
        /\ user' = user /\ users' = users
    BY Looking DEF NamesKept, store
  <1>1. CASE req'[h] = NoRequest
    BY <1>1 DEF NameAtHand, NoRequest
  <1>2. CASE /\ req'[h].kind = req[h].kind /\ req'[h].step = req[h].step + 1
             /\ req'[h].of = req[h].of /\ req'[h].name = req[h].name
             /\ req'[h] # NoRequest
    <2>1. CASE CheckName(h) /\ (Meets(h, "create", 1) \/ Meets(h, "register", 1) \/ Meets(h, "edit", 1))
      <3> DEFINE other == UserByName(req[h].name)
                 ok == \/ other = NoUser
                       \/ req[h].kind = "edit" /\ user[other].id = req[h].id
      <3>1. At(h, "name") /\ Check(h, ok)
        BY <2>1 DEF CheckName
      <3>2. ok
        <4> HIDE DEF ok
        <4>1. ~Meets(h, "register", 5)
          BY <2>1 DEF Meets
        <4>2. req'[h] = NoRequest \/ (ok /\ req'[h] = [req[h] EXCEPT !.step = req[h].step + 1])
          BY <3>1, <4>1, CheckMoves
        <4> QED BY <1>2, <4>2
      <3>3. LET hits == {u \in users : user[u].name = req[h].name} IN
            IF hits = {} THEN other = NoUser ELSE other \in hits
        BY Found DEF Typed, TypeOK, Person
      <3>4. NoUser \notin users /\ users \subseteq DOMAIN user
        BY Found DEF Typed, TypeOK, Person
      <3>5. CASE other = NoUser
        <4>1. \A u \in users : user[u].name # req[h].name
          BY <3>3, <3>4, <3>5
        <4> QED BY <1>0, <1>2, <4>1 DEF NameAtHand, Unborne
      <3>6. CASE other # NoUser /\ req[h].kind = "edit" /\ user[other].id = req[h].id
        <4>1. other \in users /\ user[other].name = req[h].name
          BY <3>3, <3>6
        <4>2. req[h].of \in DOMAIN user /\ user[req[h].of].id = req[h].id
          BY <3>6 DEF Typed, Ready
        <4>3. other = req[h].of
          BY <3>4, <3>6, <4>1, <4>2 DEF Numbered
        <4>4. \A u \in users \ {req[h].of} : user[u].name # req[h].name
          BY <1>0, <4>1, <4>3
        <4> QED BY <1>0, <1>2, <3>6, <4>4 DEF NameAtHand, Unborne
      <3> QED BY <3>2, <3>5, <3>6
    <2>2. CASE \/ Meets(h, "create", 3) \/ Meets(h, "edit", 5)
               \/ Meets(h, "create", 2) \/ Meets(h, "register", 2) \/ Meets(h, "edit", 3)
               \/ Meets(h, "settings", 1) \/ Meets(h, "dropUser", 1) \/ Meets(h, "dropGroup", 1)
      BY <1>0, <1>2, <2>2 DEF NameAtHand, Unborne, Meets
    <2> QED BY <2>1, <2>2, LooksAt
  <1> QED BY <1>1, <1>2, LooksAt

LEMMA NamesKeptStep == Typed /\ Apart /\ Numbered /\ NamesKept /\ [Next]_vars => NamesKept'
  <1> DEFINE Goal == /\ \A u, v \in users' : user'[u].name = user'[v].name => u = v
                     /\ \A h \in Handlers : NameAtHand(h)'
             Had == /\ \A u, v \in users : user[u].name = user[v].name => u = v
                    /\ \A h \in Handlers : NameAtHand(h)
             Others(g) == \A o \in Handlers \ {g} : req'[o] = req[o]
             Calm == {"ids", "names"} \cap met = {}
  <1> SUFFICES ASSUME Typed, Apart, Numbered, NamesKept, [Next]_vars, {"ids", "names"} \cap met' = {}
               PROVE  Goal
    BY DEF NamesKept
  <1>0. users \subseteq DOMAIN user /\ user \in Seq(Person)
    BY DEF Typed, TypeOK, Person
  <1>h. Calm => Had
    BY DEF NamesKept
  <1>n. NoRequest.kind = "none"
    BY DEF NoRequest
  <1> HIDE DEF Goal, Had
  \* A step that gives no name: only its own request is to be looked at.
  <1>1. ASSUME Calm, users' \subseteq users, \A u \in users : user'[u].name = user[u].name,
               NEW g \in Handlers, Others(g), NameAtHand(g)'
        PROVE  Goal
    <2>1. ASSUME NEW h \in Handlers, h # g PROVE NameAtHand(h)'
      <3>1. NameAtHand(h) /\ req'[h] = req[h]
        BY <1>1, <1>h, <2>1 DEF Had
      <3> QED BY <1>1, <3>1 DEF NameAtHand, Unborne
    <2> QED BY <1>1, <1>h, <2>1 DEF Goal, Had
  <1>e. ASSUME NEW g \in Handlers, ~Names_(req'[g].kind) PROVE NameAtHand(g)'
    BY <1>e DEF NameAtHand, Names_
  <1>o. ~Names_("none") /\ ~Names_("newGroup")
    BY DEF Names_
  \* A step that writes a name: no other request has one.
  <1>w. ASSUME Calm, NEW h \in Handlers, Others(h), Names_(req[h].kind), NameAtHand(h)',
               NEW o \in Handlers
        PROVE  NameAtHand(o)'
    <2>1. CASE o = h
      BY <1>w, <2>1
    <2>2. CASE o # h
      <3>1. ~Names_(req[o].kind) /\ req'[o] = req[o]
        BY <1>w, <2>2, NoneNames
      <3> QED BY <3>1, <1>e
    <2> QED BY <2>1, <2>2
  <1>2. ASSUME NEW h \in Handlers, NEW r, Taken(h, r) PROVE Goal
    <2>1. Others(h) /\ req'[h].step = 1 /\ Calm /\ user' = user /\ users' = users
      BY <1>2, AtFirst DEF Alone
    <2>2. NameAtHand(h)'
      BY <2>1 DEF NameAtHand
    <2> QED BY <1>1, <2>1, <2>2
  <1>3. ASSUME NEW h \in Handlers, Looks(h) PROVE Goal
    <2>1. Others(h) /\ Calm /\ user' = user /\ users' = users
      BY <1>3, Looking DEF Only, Alone, store
    <2> QED BY <1>1, <1>3, <2>1, NameChecked
  <1>4. ASSUME NEW h \in Handlers, SetName(h) PROVE Goal
    <2> DEFINE o == req[h].of
    <2>1. users' = users /\ Calm
      BY <1>4 DEF SetName
    <2>2. /\ Others(h) /\ req[h].kind = "edit" /\ req[h].step = 2
          /\ \A u \in DOMAIN user \ {o} : user'[u] = user[u]
          /\ user'[o].name = IF req[h].name = NoName THEN user[o].name ELSE req[h].name
          /\ req'[h].kind = "none" \/ (req'[h].kind = "edit" /\ req'[h].step = 3)
      BY <1>4, <1>n, NameSet DEF Only, Alone, Meets
    <2>3. Had /\ \A u \in users \ {o} : user[u].name # req[h].name
      BY <1>h, <2>1, <2>2 DEF Had, NameAtHand, Unborne
    <2>4. ASSUME NEW u \in users, NEW v \in users, user'[u].name = user'[v].name PROVE u = v
      <3>1. CASE u # o /\ v # o
        BY <1>0, <2>2, <2>3, <2>4, <3>1 DEF Had
      <3>2. CASE u = o /\ v # o
        BY <1>0, <2>2, <2>3, <2>4, <3>2 DEF Had
      <3>3. CASE u # o /\ v = o
        BY <1>0, <2>2, <2>3, <2>4, <3>3 DEF Had
      <3> QED BY <3>1, <3>2, <3>3
    <2>5. NameAtHand(h)' /\ Names_(req[h].kind)
      BY <2>2 DEF NameAtHand, Names_
    <2> QED BY <1>w, <2>1, <2>2, <2>4, <2>5 DEF Goal
  <1>5. ASSUME NEW h \in Handlers, SetGroup(h) \/ SetRest(h) PROVE Goal
    <2>1. users' = users /\ Calm
      BY <1>5 DEF SetGroup, SetRest
    <2>2. Others(h) /\ \A u \in users : user'[u].name = user[u].name
      BY <1>0, <1>5, GroupSet, RestSet DEF Only, Alone
    <2>3. NameAtHand(h)'
      <3>1. req'[h].kind = "none" \/ (req'[h].kind = "edit" /\ req'[h].step = 5)
        BY <1>n, <1>5, GroupSet, RestSet
      <3> QED BY <3>1 DEF NameAtHand
    <2> QED BY <1>1, <2>1, <2>2, <2>3
  <1>6. ASSUME NEW h \in Handlers, NextID(h) \/ Stamp(h) PROVE Goal
    <2>0. req[h] \in Request
      BY DEF Typed, TypeOK, Request
    <2>1. Others(h) /\ Calm /\ user' = user /\ users' = users
      BY <1>6, NumberRead, NumberWritten DEF Only, Alone, store
    <2>2. \/ Meets(h, "create", 4) \/ Meets(h, "register", 3) \/ Meets(h, "newGroup", 1)
          \/ Meets(h, "create", 5) \/ Meets(h, "register", 4) \/ Meets(h, "newGroup", 2)
      BY <1>6, NumberRead, NumberWritten
    <2>3. \/ req'[h] = NoRequest
          \/ /\ req'[h].kind = req[h].kind /\ req'[h].step = req[h].step + 1
             /\ req'[h].name = req[h].name
      BY <1>6, <2>0, NumberRead, NumberWritten DEF Request
    <2>4. NameAtHand(h)
      BY <1>h, <2>1 DEF Had
    <2>5. NameAtHand(h)'
      <3>1. CASE req'[h] = NoRequest
        BY <1>n, <1>o, <1>e, <3>1
      <3>2. CASE /\ req'[h].kind = req[h].kind /\ req'[h].step = req[h].step + 1
                 /\ req'[h].name = req[h].name
        BY <2>1, <2>2, <2>4, <3>2 DEF NameAtHand, Unborne, Meets
      <3> QED BY <2>3, <3>1, <3>2
    <2> QED BY <1>1, <2>1, <2>5
  <1>7. ASSUME NEW h \in Handlers, AppendUser(h) PROVE Goal
    <2> DEFINE new == Len(user) + 1
    <2>1. Calm /\ users' = users \cup {new}
      BY <1>7, UserAppended DEF AppendUser
    <2>2. Others(h) /\ (Meets(h, "create", 6) \/ Meets(h, "register", 5))
      BY <1>7, UserAppended DEF Only, Alone
    <2>3. Had /\ \A u \in users : user[u].name # req[h].name
      BY <1>h, <2>1, <2>2 DEF Had, NameAtHand, Unborne, Meets
    <2>4. /\ \A u \in users : user'[u] = user[u]
          /\ user'[new].name = req[h].name
      BY <1>0, <1>7, UserAppended
    <2>5. \A u, v \in users' : user'[u].name = user'[v].name => u = v
      <3> HIDE DEF new
      <3> QED BY <2>1, <2>3, <2>4 DEF Had
    <2>6. NameAtHand(h)' /\ Names_(req[h].kind)
      <3>1. req'[h].kind = "none" \/ (req'[h].kind = "register" /\ req'[h].step = 6)
        BY <1>n, <1>7, UserAppended
      <3> QED BY <2>2, <3>1 DEF NameAtHand, Names_, Meets
    <2> QED BY <1>w, <2>1, <2>2, <2>5, <2>6 DEF Goal
  <1>8. ASSUME NEW h \in Handlers, SetSession(h) PROVE Goal
    <2>1. Others(h) /\ req'[h].kind = "none"
      BY <1>n, <1>8, SessionMade DEF Only, Alone
    <2>2. user' = user /\ users' = users /\ Calm
      BY <1>8 DEF SetSession, store
    <2> QED BY <1>1, <1>e, <1>o, <2>1, <2>2
  <1>9. ASSUME NEW h \in Handlers, AppendGroup(h) \/ DropUser(h) \/ DropGroup(h) \/ StoreSettings(h)
        PROVE  Goal
    <2>1. Others(h) /\ req'[h].kind = "none" /\ user' = user /\ users' \subseteq users /\ Calm
      BY <1>n, <1>9, LastSteps DEF Only, Alone
    <2> QED BY <1>1, <1>e, <1>o, <2>1
  <1>10. CASE UNCHANGED <<store, roles, req, budget, met>>
    <2>1. UNCHANGED <<user, users, req>> /\ Had
      BY <1>10, <1>h DEF store
    <2> QED BY <2>1 DEF Goal, Had, NameAtHand, Unborne
  <1> QED BY <1>2, <1>3, <1>4, <1>5, <1>6, <1>7, <1>8, <1>9, <1>10, EveryStep

-----------------------------------------------------------------------------
(* Port ranges *)

Disjoint(a, b) == \A r \in a, s \in b : ~rangesOverlap(r, s)

\* Ranges that were looked at and not yet written are nobody's (else).
Unclaimed(ranges, but) == \A u \in users \ but : Disjoint(ranges, user[u].ranges)
RangesAtHand(h) ==
    /\ req[h].kind = "create" /\ req[h].step \in 4 .. 6 => Unclaimed(req[h].ranges, {})
    /\ req[h].kind = "edit" /\ req[h].step = 6 => Unclaimed(req[h].ranges, {req[h].of})

RangesKept ==
    {"ids", "ranges"} \cap met # {} \/
        /\ \A u, v \in users : u # v => Disjoint(user[u].ranges, user[v].ranges)
        /\ \A h \in Handlers : RangesAtHand(h)

LEMMA DisjointIsMutual ==
  ASSUME NEW a, NEW b, Disjoint(a, b)
  PROVE  Disjoint(b, a)
BY DEF Disjoint, rangesOverlap

LEMMA NoRangesDisjoint == \A a : Disjoint(a, {}) /\ Disjoint({}, a)
BY DEF Disjoint

LEMMA RangesKeptInit == Init => RangesKept
BY DEF Init, RangesKept, RangesAtHand, NoRequest

\* No two requests give ranges at the same time.
LEMMA NoneClaims ==
  ASSUME Apart, "ranges" \notin met, NEW h \in Handlers, NEW o \in Handlers, h # o, Ranges_(req[h].kind)
  PROVE  ~Ranges_(req[o].kind)
  <1>1. ASSUME Ranges_(req[o].kind) PROVE FALSE
    <2>1. "ranges" \in Contest(req[h].kind, req[o].kind)
      BY <1>1 DEF Contest, Contended
    <2> QED BY <2>1 DEF Apart
  <1> QED BY <1>1

LEMMA RangesChecked ==
  ASSUME Typed, Numbered, RangesKept, {"ids", "ranges"} \cap met = {}, NEW h \in Handlers, Looks(h)
  PROVE  RangesAtHand(h)'
  <1>0. /\ RangesAtHand(h) /\ user' = user /\ users' = users /\ users \subseteq DOMAIN user
    BY Looking DEF RangesKept, store, Typed, TypeOK
  <1>1. CASE req'[h] = NoRequest
    BY <1>1 DEF RangesAtHand, NoRequest
  <1>2. CASE /\ req'[h].kind = req[h].kind /\ req'[h].step = req[h].step + 1
             /\ req'[h].of = req[h].of /\ req'[h].ranges = req[h].ranges
             /\ req'[h] # NoRequest
    <2>1. CASE CheckRanges(h) /\ (Meets(h, "create", 3) \/ Meets(h, "edit", 5))
      <3> DEFINE id == IF req[h].kind = "edit" THEN user[req[h].of].id ELSE 0
                 ok == RangesFree(req[h].ranges, id)
      <3>1. At(h, "ranges") /\ Check(h, ok)
        BY <2>1 DEF CheckRanges
      <3>2. ok
        <4> HIDE DEF ok
        <4>1. ~Meets(h, "register", 5)
          BY <2>1 DEF Meets
        <4>2. req'[h] = NoRequest \/ (ok /\ req'[h] = [req[h] EXCEPT !.step = req[h].step + 1])
          BY <3>1, <4>1, CheckMoves
        <4> QED BY <1>2, <4>2
      <3>3. \A u \in users : user[u].id # id => Disjoint(req[h].ranges, user[u].ranges)
        BY <3>2 DEF RangesFree, Disjoint
      <3>4. \A u \in DOMAIN user : user[u].id \in 1 .. seq
        BY DEF Numbered
      <3>5. CASE Meets(h, "create", 3)
        <4>1. \A u \in users : user[u].id # id
          BY <1>0, <3>4, <3>5 DEF Meets
        <4> QED BY <1>0, <1>2, <3>3, <3>5, <4>1 DEF RangesAtHand, Unclaimed, Meets
      <3>6. CASE Meets(h, "edit", 5)
        <4>1. req[h].of \in DOMAIN user
          BY <3>6 DEF Typed, Ready, Meets
        <4>2. \A u \in users \ {req[h].of} : user[u].id # id
          BY <1>0, <3>6, <4>1 DEF Meets, Numbered
        <4> QED BY <1>0, <1>2, <3>3, <3>6, <4>2 DEF RangesAtHand, Unclaimed, Meets
      <3> QED BY <2>1, <3>5, <3>6
    <2>2. CASE \/ Meets(h, "create", 1) \/ Meets(h, "register", 1) \/ Meets(h, "edit", 1)
               \/ Meets(h, "create", 2) \/ Meets(h, "register", 2) \/ Meets(h, "edit", 3)
               \/ Meets(h, "settings", 1) \/ Meets(h, "dropUser", 1) \/ Meets(h, "dropGroup", 1)
      BY <1>2, <2>2 DEF RangesAtHand, Meets
    <2> QED BY <2>1, <2>2, LooksAt
  <1> QED BY <1>1, <1>2, LooksAt

LEMMA RangesKeptStep == Typed /\ Apart /\ Numbered /\ RangesKept /\ [Next]_vars => RangesKept'
  <1> DEFINE Goal == /\ \A u, v \in users' : u # v => Disjoint(user'[u].ranges, user'[v].ranges)
                     /\ \A h \in Handlers : RangesAtHand(h)'
             Had == /\ \A u, v \in users : u # v => Disjoint(user[u].ranges, user[v].ranges)
                    /\ \A h \in Handlers : RangesAtHand(h)
             Others(g) == \A o \in Handlers \ {g} : req'[o] = req[o]
             Calm == {"ids", "ranges"} \cap met = {}
  <1> SUFFICES ASSUME Typed, Apart, Numbered, RangesKept, [Next]_vars, {"ids", "ranges"} \cap met' = {}
               PROVE  Goal
    BY DEF RangesKept
  <1>0. users \subseteq DOMAIN user /\ user \in Seq(Person)
    BY DEF Typed, TypeOK, Person
  <1>h. Calm => Had
    BY DEF RangesKept
  <1>n. NoRequest.kind = "none"
    BY DEF NoRequest
  <1> HIDE DEF Goal, Had
  \* A step that gives no ranges: only its own request is to be looked at.
  <1>1. ASSUME Calm, users' \subseteq users, \A u \in users : user'[u].ranges = user[u].ranges,
               NEW g \in Handlers, Others(g), RangesAtHand(g)'
        PROVE  Goal
    <2>1. ASSUME NEW h \in Handlers, h # g PROVE RangesAtHand(h)'
      <3>1. RangesAtHand(h) /\ req'[h] = req[h]
        BY <1>1, <1>h, <2>1 DEF Had
      <3> QED BY <1>1, <3>1 DEF RangesAtHand, Unclaimed
    <2> QED BY <1>1, <1>h, <2>1 DEF Goal, Had
  <1>e. ASSUME NEW g \in Handlers, ~Ranges_(req'[g].kind) PROVE RangesAtHand(g)'
    BY <1>e DEF RangesAtHand, Ranges_
  <1>o. ~Ranges_("none") /\ ~Ranges_("register")
    BY DEF Ranges_
  \* A step that writes ranges: no other request has any.
  <1>w. ASSUME Calm, NEW h \in Handlers, Others(h), Ranges_(req[h].kind), RangesAtHand(h)',
               NEW o \in Handlers
        PROVE  RangesAtHand(o)'
    <2>1. CASE o = h
      BY <1>w, <2>1
    <2>2. CASE o # h
      <3>1. ~Ranges_(req[o].kind) /\ req'[o] = req[o]
        BY <1>w, <2>2, NoneClaims
      <3> QED BY <3>1, <1>e
    <2> QED BY <2>1, <2>2
  <1>2. ASSUME NEW h \in Handlers, NEW r, Taken(h, r) PROVE Goal
    <2>1. Others(h) /\ req'[h].step = 1 /\ Calm /\ user' = user /\ users' = users
      BY <1>2, AtFirst DEF Alone
    <2>2. RangesAtHand(h)'
      BY <2>1 DEF RangesAtHand
    <2> QED BY <1>1, <2>1, <2>2
  <1>3. ASSUME NEW h \in Handlers, Looks(h) PROVE Goal
    <2>1. Others(h) /\ Calm /\ user' = user /\ users' = users
      BY <1>3, Looking DEF Only, Alone, store
    <2> QED BY <1>1, <1>3, <2>1, RangesChecked
  <1>4. ASSUME NEW h \in Handlers, SetRest(h) PROVE Goal
    <2> DEFINE o == req[h].of
    <2>1. users' = users /\ Calm
      BY <1>4 DEF SetRest
    <2>2. /\ Others(h) /\ req[h].kind = "edit" /\ req[h].step = 6
          /\ \A u \in DOMAIN user \ {o} : user'[u] = user[u]
          /\ user'[o].ranges = req[h].ranges
          /\ req'[h].kind = "none"
      BY <1>4, <1>n, RestSet DEF Only, Alone, Meets
    <2>3. Had /\ \A u \in users \ {o} : Disjoint(req[h].ranges, user[u].ranges)
      BY <1>h, <2>1, <2>2 DEF Had, RangesAtHand, Unclaimed
    <2>4. ASSUME NEW u \in users, NEW v \in users, u # v
          PROVE  Disjoint(user'[u].ranges, user'[v].ranges)
      <3>1. CASE u # o /\ v # o
        BY <1>0, <2>2, <2>3, <2>4, <3>1 DEF Had
      <3>2. CASE u = o /\ v # o
        BY <1>0, <2>2, <2>3, <2>4, <3>2
      <3>3. CASE u # o /\ v = o
        BY <1>0, <2>2, <2>3, <2>4, <3>3, DisjointIsMutual
      <3> QED BY <2>4, <3>1, <3>2, <3>3
    <2>5. RangesAtHand(h)' /\ Ranges_(req[h].kind)
      BY <2>2 DEF RangesAtHand, Ranges_
    <2> QED BY <1>w, <2>1, <2>2, <2>4, <2>5 DEF Goal
  <1>5. ASSUME NEW h \in Handlers, SetName(h) \/ SetGroup(h) PROVE Goal
    <2>1. users' = users /\ Calm
      BY <1>5 DEF SetName, SetGroup
    <2>2. Others(h) /\ \A u \in users : user'[u].ranges = user[u].ranges
      BY <1>0, <1>5, NameSet, GroupSet DEF Only, Alone
    <2>3. RangesAtHand(h)'
      <3>1. req'[h].kind = "none" \/ (req'[h].kind = "edit" /\ req'[h].step \in {3, 5})
        BY <1>n, <1>5, NameSet, GroupSet
      <3> QED BY <3>1 DEF RangesAtHand
    <2> QED BY <1>1, <2>1, <2>2, <2>3
  <1>6. ASSUME NEW h \in Handlers, NextID(h) \/ Stamp(h) PROVE Goal
    <2>0. req[h] \in Request
      BY DEF Typed, TypeOK, Request
    <2>1. Others(h) /\ Calm /\ user' = user /\ users' = users
      BY <1>6, NumberRead, NumberWritten DEF Only, Alone, store
    <2>2. \/ Meets(h, "create", 4) \/ Meets(h, "register", 3) \/ Meets(h, "newGroup", 1)
          \/ Meets(h, "create", 5) \/ Meets(h, "register", 4) \/ Meets(h, "newGroup", 2)
      BY <1>6, NumberRead, NumberWritten
    <2>3. \/ req'[h] = NoRequest
          \/ /\ req'[h].kind = req[h].kind /\ req'[h].step = req[h].step + 1
             /\ req'[h].ranges = req[h].ranges
      BY <1>6, <2>0, NumberRead, NumberWritten DEF Request
    <2>4. RangesAtHand(h)
      BY <1>h, <2>1 DEF Had
    <2>5. RangesAtHand(h)'
      <3>1. CASE req'[h] = NoRequest
        BY <1>n, <1>o, <1>e, <3>1
      <3>2. CASE /\ req'[h].kind = req[h].kind /\ req'[h].step = req[h].step + 1
                 /\ req'[h].ranges = req[h].ranges
        BY <2>1, <2>2, <2>4, <3>2 DEF RangesAtHand, Unclaimed, Meets
      <3> QED BY <2>3, <3>1, <3>2
    <2> QED BY <1>1, <2>1, <2>5
  <1>7. ASSUME NEW h \in Handlers, AppendUser(h) PROVE Goal
    <2> DEFINE new == Len(user) + 1
    <2>1. Calm /\ users' = users \cup {new}
      BY <1>7, UserAppended DEF AppendUser
    <2>2. /\ Others(h) /\ (Meets(h, "create", 6) \/ Meets(h, "register", 5))
          /\ req'[h].kind = "none" \/ req'[h].kind = "register"
      BY <1>7, <1>n, UserAppended DEF Only, Alone
    <2>3. \A u \in users : user'[u] = user[u]
      BY <1>0, <1>7, UserAppended
    <2>4. user'[new].ranges = req[h].ranges
      BY <1>7, UserAppended
    <2>5. Had
      BY <1>h, <2>1
    <2>6. \A u \in users : Disjoint(req[h].ranges, user[u].ranges)
      <3>1. CASE Meets(h, "create", 6)
        BY <2>5, <3>1 DEF Had, RangesAtHand, Unclaimed, Meets
      <3>2. CASE Meets(h, "register", 5)
        <4>1. req[h].ranges = {}
          BY <3>2 DEF Typed, Ready, Meets
        <4> QED BY <4>1, NoRangesDisjoint
      <3> QED BY <2>2, <3>1, <3>2
    <2> HIDE DEF new
    <2>7. ASSUME NEW u \in users', NEW v \in users', u # v
          PROVE  Disjoint(user'[u].ranges, user'[v].ranges)
      <3>1. CASE u \in users /\ v \in users
        BY <2>3, <2>5, <2>7, <3>1 DEF Had
      <3>2. CASE u = new /\ v \in users
        BY <2>3, <2>4, <2>6, <3>2
      <3>3. CASE u \in users /\ v = new
        BY <2>3, <2>4, <2>6, <3>3, DisjointIsMutual
      <3> QED BY <2>1, <2>7, <3>1, <3>2, <3>3
    <2>8. RangesAtHand(h)'
      BY <1>e, <1>o, <2>2
    <2>9. ASSUME NEW o \in Handlers PROVE RangesAtHand(o)'
      <3>1. CASE o = h
        BY <2>8, <3>1
      <3>2. CASE o # h /\ Meets(h, "create", 6)
        <4>1. Ranges_(req[h].kind)
          BY <3>2 DEF Ranges_, Meets
        <4> QED BY <1>w, <2>1, <2>2, <2>8, <4>1
      <3>3. CASE o # h /\ Meets(h, "register", 5)
        <4>1. user'[new].ranges = {}
          BY <2>4, <3>3 DEF Typed, Ready, Meets
        <4>2. RangesAtHand(o) /\ req'[o] = req[o]
          BY <2>2, <2>5, <3>3 DEF Had
        <4>3. \A ranges, but : Unclaimed(ranges, but) => Unclaimed(ranges, but)'
          BY <2>1, <2>3, <4>1, NoRangesDisjoint DEF Unclaimed
        <4> QED BY <4>2, <4>3 DEF RangesAtHand
      <3> QED BY <2>2, <3>1, <3>2, <3>3
    <2> QED BY <2>7, <2>9 DEF Goal
  <1>8. ASSUME NEW h \in Handlers, SetSession(h) PROVE Goal
    <2>1. Others(h) /\ req'[h].kind = "none"
      BY <1>n, <1>8, SessionMade DEF Only, Alone
    <2>2. user' = user /\ users' = users /\ Calm
      BY <1>8 DEF SetSession, store
    <2> QED BY <1>1, <1>e, <1>o, <2>1, <2>2
  <1>9. ASSUME NEW h \in Handlers, AppendGroup(h) \/ DropUser(h) \/ DropGroup(h) \/ StoreSettings(h)
        PROVE  Goal
    <2>1. Others(h) /\ req'[h].kind = "none" /\ user' = user /\ users' \subseteq users /\ Calm
      BY <1>n, <1>9, LastSteps DEF Only, Alone
    <2> QED BY <1>1, <1>e, <1>o, <2>1
  <1>10. CASE UNCHANGED <<store, roles, req, budget, met>>
    <2>1. UNCHANGED <<user, users, req>> /\ Had
      BY <1>10, <1>h DEF store
    <2> QED BY <2>1 DEF Goal, Had, RangesAtHand, Unclaimed
  <1> QED BY <1>2, <1>3, <1>4, <1>5, <1>6, <1>7, <1>8, <1>9, <1>10, EveryStep

\* Ranges that do not overlap share no port.
LEMMA NoPortShared ==
  ASSUME NEW a \in Given, NEW b \in Given, Disjoint(a, b), NEW r \in a, NEW s \in b
  PROVE  (r.start .. r.end) \cap (s.start .. s.end) = {}
  <1>1. r \in PortRange /\ s \in PortRange
    BY RangesAssumption DEF Given
  <1>2. ~(r.start <= s.end /\ s.start <= r.end)
    BY DEF Disjoint, rangesOverlap
  <1> QED BY <1>1, <1>2 DEF PortRange

\* No port number is promised to two users and no name is given twice, unless
\* two requests that give them, or two creations, ran at the same time: what a
\* check has found free stays so until the request has written it, also while
\* an edit writes half of what it was asked to (api.go 144-171, 344, 411, 431).
THEOREM NothingIsShared == Spec => []NothingShared
  <1>1. Typed /\ NamesKept /\ RangesKept => NothingShared
    <2> SUFFICES ASSUME Typed, NamesKept, RangesKept, "ids" \notin met,
                        NEW u \in users, NEW v \in users, u # v
                 PROVE  /\ "names" \in met \/ user[u].name # user[v].name
                        /\ "ranges" \in met \/
                               \A r \in user[u].ranges, s \in user[v].ranges :
                                   (r.start .. r.end) \cap (s.start .. s.end) = {}
      BY DEF NothingShared
    <2>1. "names" \in met \/ user[u].name # user[v].name
      BY DEF NamesKept
    <2>2. user[u].ranges \in Given /\ user[v].ranges \in Given
      BY UserFacts DEF Typed, TypeOK, Person
    <2>3. "ranges" \in met \/ Disjoint(user[u].ranges, user[v].ranges)
      BY DEF RangesKept
    <2> QED BY <2>1, <2>2, <2>3, NoPortShared
  <1>2. Init => Typed /\ Apart /\ Numbered /\ NamesKept /\ RangesKept
    BY TypedInit, ApartInit, NumberedInit, NamesKeptInit, RangesKeptInit
  <1>3. (Typed /\ Apart /\ Numbered /\ NamesKept /\ RangesKept) /\ [Next]_vars
           => (Typed /\ Apart /\ Numbered /\ NamesKept /\ RangesKept)'
    BY TypedStep, ApartStep, NumberedStep, NamesKeptStep, RangesKeptStep
  <1> QED BY <1>1, <1>2, <1>3, PTL DEF Spec
=============================================================================
