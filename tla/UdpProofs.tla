----------------------------- MODULE UdpProofs -----------------------------
(***************************************************************************)
(* What holds of the sessions of a UDP listener for any number of clients, *)
(* sessions and datagrams: no socket and no registration is lost, what the *)
(* main loop counts is billed, and of what a reader counts at most one     *)
(* datagram is not.  That billed is a number is not proved: it is a sum    *)
(* over a set, and that needs an induction the provers cannot do.          *)
(***************************************************************************)
EXTENDS UdpSessions, TLAPS

-----------------------------------------------------------------------------
(* The invariant *)

Shapes ==
    /\ main \in [at : {"read", "wait", "write", "delete", "exited"}, s : Sessions \cup {None}]
    /\ map \in [Clients -> Sessions \cup {None}]
    /\ client \in [Sessions -> Clients \cup {None}]
    /\ rcOpen \in [Sessions -> BOOLEAN]
    /\ reader \in [Sessions -> {"none", "read", "held", "done"}]
    /\ bytes \in [Sessions -> [Dirs -> Nat]]
    /\ registry \in SUBSET Sessions
    /\ flush \in [at : {"idle", "swap", "kill"}, snap : SUBSET Sessions, todo : SUBSET Sessions]

Zero(s) == bytes[s]["up"] = 0 /\ bytes[s]["down"] = 0

\* An entry of the map is the client's own session.
Mapped == \A c \in Clients : map[c] # None => client[map[c]] = c

\* Nobody has a session that has not been made.
Unmade == \A s \in Sessions : client[s] = None => s \notin registry /\ reader[s] = "none" /\ Zero(s)

\* The session the main loop is busy with is its client's, if the client has one;
\* before it is taken from the map it has been unregistered.
Serving ==
    /\ main.s # None <=> main.at \in {"wait", "write", "delete"}
    /\ main.s # None => client[main.s] # None /\ map[client[main.s]] \in {main.s, None}
    /\ main.at = "delete" => main.s \notin registry /\ bytes[main.s]["up"] = 0

\* An open socket is registered, what is registered is in the map.
Held == \A s \in Sessions :
    /\ rcOpen[s] => s \in registry
    /\ s \in registry => map[client[s]] = s

\* An unregistered session has nothing left to bill but what the main loop or the
\* reader had in hand: of the reader's, one datagram.
Settled == \A s \in Sessions \ registry :
    /\ main.s # s => bytes[s]["up"] = 0
    /\ bytes[s]["down"] + (IF reader[s] = "held" THEN 1 ELSE 0) <= 1

IInv == Shapes /\ Mapped /\ Unmade /\ Serving /\ Held /\ Settled

LEMMA ShapesFacts ==
  ASSUME Shapes
  PROVE  /\ main.at \in {"read", "wait", "write", "delete", "exited"} /\ main.s \in Sessions \cup {None}
         /\ NoBytes \in [Dirs -> Nat] /\ NoBytes["up"] = 0 /\ NoBytes["down"] = 0
         /\ \A s \in Sessions : bytes[s]["up"] \in Nat /\ bytes[s]["down"] \in Nat
         /\ \A at, s : [at |-> at, s |-> s].at = at /\ [at |-> at, s |-> s].s = s
         /\ Reading \in [at : {"read", "wait", "write", "delete", "exited"}, s : Sessions \cup {None}]
         /\ Reading.at = "read" /\ Reading.s = None
BY DEF Shapes, NoBytes, Dirs, Reading

LEMMA InvInit == Init => IInv
  <1> SUFFICES ASSUME Init PROVE IInv
    OBVIOUS
  <1>1. NoBytes \in [Dirs -> Nat] /\ NoBytes["up"] = 0 /\ NoBytes["down"] = 0
    BY DEF NoBytes, Dirs
  <1>2. Shapes
    BY <1>1 DEF Init, Shapes, Reading, FlushIdle
  <1>3. Serving
    BY DEF Init, Serving, Reading
  <1>4. Mapped /\ Unmade /\ Held
    BY <1>1 DEF Init, Mapped, Unmade, Held, Zero
  <1>5. Settled
    BY <1>1 DEF Init, Settled
  <1> QED BY <1>2, <1>3, <1>4, <1>5 DEF IInv

-----------------------------------------------------------------------------
(* A session is closed and unregistered *)

\* After it is out of the map, or while the main loop is about to take it out.
LEMMA Retire ==
  ASSUME IInv, NEW s \in Sessions, CloseAndUnregister(s), UNCHANGED <<client, reader, flush>>,
         main' \in [at : {"read", "wait", "write", "delete", "exited"}, s : Sessions \cup {None}],
         Serving',
         main'.s = main.s,
         \/ map' = map
         \/ map' = [map EXCEPT ![client[s]] = None] /\ map[client[s]] = s
  PROVE  IInv'
  <1> USE DEF IInv
  <1>1. NoBytes \in [Dirs -> Nat] /\ NoBytes["up"] = 0 /\ NoBytes["down"] = 0
    BY ShapesFacts
  <1>2. /\ rcOpen' \in [Sessions -> BOOLEAN] /\ bytes' \in [Sessions -> [Dirs -> Nat]]
        /\ registry' = registry \ {s}
        /\ \A x \in Sessions : rcOpen'[x] = (rcOpen[x] /\ x # s)
        /\ \A x \in Sessions : bytes'[x] = IF x = s THEN NoBytes ELSE bytes[x]
    BY <1>1 DEF CloseAndUnregister, Shapes
  <1>3. map' \in [Clients -> Sessions \cup {None}]
    BY DEF Shapes
  <1>4. Shapes'
    BY <1>2, <1>3 DEF Shapes
  <1>5. Mapped'
    BY DEF Mapped, Shapes
  <1>6. Unmade'
    BY <1>1, <1>2 DEF Unmade, Zero
  <1>7. Held'
    BY <1>2 DEF Held, Shapes, Unmade
  <1>8. Settled'
    <2> SUFFICES ASSUME NEW x \in Sessions \ registry'
                 PROVE  /\ main'.s # x => bytes'[x]["up"] = 0
                        /\ bytes'[x]["down"] + (IF reader[x] = "held" THEN 1 ELSE 0) <= 1
      BY DEF Settled
    <2>1. CASE x = s
      BY <1>1, <1>2, <2>1
    <2>2. CASE x # s
      <3>1. x \notin registry /\ bytes'[x] = bytes[x]
        BY <1>2, <2>2
      <3> QED BY <3>1 DEF Settled
    <2> QED BY <2>1, <2>2
  <1> QED BY <1>4, <1>5, <1>6, <1>7, <1>8

LEMMA RetireStep == IInv /\ (WriteFails \/ \E c \in Clients : KilledSession(c) \/ Clean(c)) => IInv'
  <1> USE DEF IInv
  <1>1. ASSUME IInv, NEW c \in Clients, KilledSession(c) \/ Clean(c) PROVE IInv'
    <2> DEFINE s == map[c]
    <2>1. /\ s \in Sessions /\ client[s] = c /\ CloseAndUnregister(s)
          /\ map' = [map EXCEPT ![client[s]] = None] /\ map[client[s]] = s
          /\ UNCHANGED <<main, client, reader, flush>>
      BY <1>1 DEF KilledSession, Clean, Mapped, Shapes, sessVars
    <2> HIDE DEF s
    <2>2. main' \in [at : {"read", "wait", "write", "delete", "exited"}, s : Sessions \cup {None}]
      BY <1>1, <2>1 DEF Shapes
    <2>3. Serving'
      <3>1. bytes'[main.s]["up"] \in {0, bytes[main.s]["up"]} \/ main.s \notin Sessions
        BY <1>1, <2>1, ShapesFacts DEF CloseAndUnregister, Shapes
      <3>2. \/ registry' \subseteq registry /\ map'[client[main.s]] \in {map[client[main.s]], None}
            \/ main.s = None
            \/ client[main.s] = None
        BY <1>1, <2>1 DEF CloseAndUnregister, Shapes
      <3>3. main.s \in Sessions \cup {None} /\ None \notin Sessions
        BY <1>1, ShapesFacts, NoneAssumption
      <3> QED BY <1>1, <2>1, <3>1, <3>2, <3>3 DEF Serving
    <2> QED BY <1>1, <2>1, <2>2, <2>3, Retire
  <1>2. ASSUME IInv, WriteFails PROVE IInv'
    <2>1. main.at = "write" /\ main.s \in Sessions
      BY <1>2, ShapesFacts DEF WriteFails, Serving
    <2>2. main' = [main EXCEPT !.at = "delete"]
      BY <1>2 DEF WriteFails
    <2>3. /\ main' \in [at : {"read", "wait", "write", "delete", "exited"}, s : Sessions \cup {None}]
          /\ main'.at = "delete" /\ main'.s = main.s
      BY <1>2, <2>2 DEF Shapes
    <2>4. UNCHANGED <<map, client, reader, flush>> /\ CloseAndUnregister(main.s)
      BY <1>2 DEF WriteFails, sessVars
    <2>5. bytes'[main.s]["up"] = 0 /\ main.s \notin registry'
      BY <1>2, <2>1, <2>4, ShapesFacts DEF CloseAndUnregister, Shapes
    <2>6. Serving'
      BY <1>2, <2>1, <2>3, <2>4, <2>5, NoneAssumption DEF Serving
    <2> QED BY <1>2, <2>1, <2>3, <2>4, <2>6, Retire
  <1> QED BY <1>1, <1>2

-----------------------------------------------------------------------------
(* The other steps *)

LEMMA InvStep == IInv /\ [Next]_vars => IInv'
  <1> SUFFICES ASSUME IInv, [Next]_vars PROVE IInv'
    OBVIOUS
  <1>a. Shapes /\ Mapped /\ Unmade /\ Serving /\ Held /\ Settled
    BY DEF IInv
  <1>1. ASSUME NEW c \in Clients, KilledSession(c) \/ Clean(c) PROVE IInv'
    BY <1>1, RetireStep
  <1>2. CASE WriteFails
    BY <1>2, RetireStep
  <1>3. ASSUME NEW c \in Clients, Refuse(c) PROVE IInv'
    BY <1>3 DEF Refuse, sessVars, IInv, Shapes, Mapped, Unmade, Serving, Held, Settled, Zero
  <1>4. ASSUME NEW c \in Clients, NEW s \in Sessions, NewSession(c, s) PROVE IInv'
    <2>1. /\ client[s] = None /\ map[c] = None /\ c # None /\ s # None
          /\ main.at = "read" /\ main.s = None
          /\ client' = [client EXCEPT ![s] = c] /\ map' = [map EXCEPT ![c] = s]
          /\ rcOpen' = [rcOpen EXCEPT ![s] = TRUE] /\ registry' = registry \cup {s}
          /\ reader' = [reader EXCEPT ![s] = "read"] /\ main' = [at |-> "wait", s |-> s]
          /\ UNCHANGED <<bytes, flush>>
      BY <1>4, <1>a, NoneAssumption DEF NewSession, Receive, Serving, Shapes
    <2>2. Shapes'
      BY <1>a, <2>1 DEF Shapes
    <2>3. /\ \A x \in Sessions : client'[x] = IF x = s THEN c ELSE client[x]
          /\ \A x \in Clients : map'[x] = IF x = c THEN s ELSE map[x]
          /\ \A x \in Sessions : rcOpen'[x] = IF x = s THEN TRUE ELSE rcOpen[x]
          /\ \A x \in Sessions : reader'[x] = IF x = s THEN "read" ELSE reader[x]
      BY <1>a, <2>1 DEF Shapes
    <2>4. Mapped'
      <3> SUFFICES ASSUME NEW x \in Clients, map'[x] # None PROVE client'[map'[x]] = x
        BY DEF Mapped
      <3>1. CASE x = c
        BY <2>1, <2>3, <3>1
      <3>2. CASE x # c
        <4>1. map'[x] = map[x] /\ map[x] \in Sessions /\ client[map[x]] = x
          BY <1>a, <2>3, <3>2 DEF Mapped, Shapes
        <4> QED BY <2>1, <2>3, <4>1, NoneAssumption
      <3> QED BY <3>1, <3>2
    <2>5. Unmade'
      BY <1>a, <2>1, <2>3 DEF Unmade, Zero
    <2>6. Serving'
      BY <1>a, <2>1, <2>3 DEF Serving
    <2>7. Held'
      <3> SUFFICES ASSUME NEW x \in Sessions
                   PROVE  (rcOpen'[x] => x \in registry') /\ (x \in registry' => map'[client'[x]] = x)
        BY DEF Held
      <3>1. CASE x = s
        BY <2>1, <2>3, <3>1
      <3>2. CASE x # s
        <4>1. x \in registry => client[x] \in Clients /\ client[x] # c
          BY <1>a, <2>1, <3>2, NoneAssumption DEF Held, Unmade, Shapes
        <4> QED BY <1>a, <2>1, <2>3, <3>2, <4>1 DEF Held
      <3> QED BY <3>1, <3>2
    <2>8. Settled'
      <3> SUFFICES ASSUME NEW x \in Sessions \ registry, x # s
                   PROVE  /\ bytes[x]["up"] = 0
                          /\ bytes[x]["down"] + (IF reader[x] = "held" THEN 1 ELSE 0) <= 1
        BY <2>1, <2>3 DEF Settled
      <3> QED BY <1>a, <2>1, NoneAssumption DEF Settled
    <2> QED BY <2>2, <2>4, <2>5, <2>6, <2>7, <2>8 DEF IInv
  <1>5. ASSUME NEW c \in Clients, KnownSession(c) PROVE IInv'
    <2>1. /\ map[c] \in Sessions /\ map[c] # None /\ main.at = "read" /\ main.s = None
          /\ client[map[c]] = c /\ c # None
          /\ main' = [at |-> "wait", s |-> map[c]]
          /\ UNCHANGED <<map, client, reader, rcOpen, bytes, registry, flush>>
      BY <1>5, <1>a, NoneAssumption DEF KnownSession, Receive, Serving, Shapes, Mapped
    <2>2. Shapes'
      BY <1>a, <2>1 DEF Shapes
    <2>3. Serving'
      BY <1>a, <2>1 DEF Serving
    <2>4. Mapped' /\ Unmade' /\ Held'
      BY <1>a, <2>1 DEF Mapped, Unmade, Zero, Held
    <2>5. Settled'
      BY <1>a, <2>1, NoneAssumption DEF Settled
    <2> QED BY <2>2, <2>3, <2>4, <2>5 DEF IInv
  <1>6. CASE CountUp
    <2>1. /\ main.at = "wait" /\ main.s \in Sessions
          /\ main' = [main EXCEPT !.at = "write"]
          /\ bytes' = [bytes EXCEPT ![main.s]["up"] = @ + 1]
          /\ UNCHANGED <<map, client, reader, rcOpen, registry, flush>>
      BY <1>6, <1>a, ShapesFacts DEF CountUp, sessVars, Serving
    <2>2. main'.at = "write" /\ main'.s = main.s
      BY <1>a, <2>1 DEF Shapes
    <2>3. /\ bytes' \in [Sessions -> [Dirs -> Nat]]
          /\ \A x \in Sessions : x # main.s => bytes'[x] = bytes[x]
          /\ bytes'[main.s]["down"] = bytes[main.s]["down"]
      BY <1>a, <2>1, ShapesFacts DEF Shapes, Dirs
    <2>4. Shapes'
      BY <1>a, <2>1, <2>3 DEF Shapes
    <2>5. Serving' /\ Mapped' /\ Held'
      BY <1>a, <2>1, <2>2, NoneAssumption DEF Serving, Mapped, Held
    <2>6. Unmade' /\ Settled'
      BY <1>a, <2>1, <2>2, <2>3, NoneAssumption DEF Unmade, Zero, Serving, Settled
    <2> QED BY <2>4, <2>5, <2>6 DEF IInv
  <1>7. CASE WriteUp
    <2>1. /\ main.at = "write" /\ main.s \in Sessions /\ rcOpen[main.s]
          /\ main' = Reading
          /\ UNCHANGED <<map, client, reader, rcOpen, bytes, registry, flush>>
      BY <1>7, <1>a, ShapesFacts DEF WriteUp, sessVars, Serving
    <2>2. Shapes' /\ Serving'
      BY <1>a, <2>1, ShapesFacts DEF Shapes, Serving
    <2>3. Mapped' /\ Unmade' /\ Held'
      BY <1>a, <2>1 DEF Mapped, Unmade, Zero, Held
    <2>4. Settled'
      BY <1>a, <2>1 DEF Settled, Held
    <2> QED BY <2>2, <2>3, <2>4 DEF IInv
  <1>8. CASE DeleteFailed
    <2> DEFINE c == client[main.s]
    <2>1. /\ main.at = "delete" /\ main.s \in Sessions /\ c \in Clients
          /\ map[c] \in {main.s, None} /\ main.s \notin registry /\ bytes[main.s]["up"] = 0
          /\ main' = Reading /\ map' = [map EXCEPT ![c] = None]
          /\ UNCHANGED <<client, reader, rcOpen, bytes, registry, flush>>
      BY <1>8, <1>a, ShapesFacts DEF DeleteFailed, sessVars, Serving, Shapes
    <2> HIDE DEF c
    <2>2. Shapes' /\ Serving'
      BY <1>a, <2>1, ShapesFacts DEF Shapes, Serving
    <2>3. Mapped'
      BY <1>a, <2>1, NoneAssumption DEF Mapped, Shapes
    <2>4. Unmade' /\ Settled'
      BY <1>a, <2>1 DEF Unmade, Zero, Settled
    <2>5. Held'
      <3>1. \A x \in registry : map'[client[x]] = x
        BY <1>a, <2>1, NoneAssumption DEF Held, Shapes, Unmade
      <3> QED BY <1>a, <2>1, <3>1 DEF Held
    <2> QED BY <2>2, <2>3, <2>4, <2>5 DEF IInv
  <1>9. CASE Leave
    <2> DEFINE mine == {map[c] : c \in Clients} \ {None}
    <2>1. /\ main.at = "read" /\ main.s = None
          /\ main' = [main EXCEPT !.at = "exited"]
          /\ rcOpen' = [s \in Sessions |-> rcOpen[s] /\ s \notin mine]
          /\ registry' = registry \ mine
          /\ bytes' = [s \in Sessions |-> IF s \in mine THEN NoBytes ELSE bytes[s]]
          /\ UNCHANGED <<map, client, reader, flush>>
      BY <1>9, <1>a DEF Leave, sessVars, Serving
    <2> HIDE DEF mine
    <2>2. main' \in [at : {"read", "wait", "write", "delete", "exited"}, s : Sessions \cup {None}]
          /\ main'.at = "exited" /\ main'.s = None
      BY <1>a, <2>1 DEF Shapes
    <2>3. Shapes'
      BY <1>a, <2>1, <2>2, ShapesFacts DEF Shapes
    <2>4. Serving' /\ Mapped'
      BY <1>a, <2>1, <2>2 DEF Serving, Mapped
    <2>5. Unmade' /\ Held'
      BY <1>a, <2>1, ShapesFacts DEF Unmade, Zero, Held
    <2>6. Settled'
      <3> SUFFICES ASSUME NEW x \in Sessions \ registry'
                   PROVE  /\ bytes'[x]["up"] = 0
                          /\ bytes'[x]["down"] + (IF reader[x] = "held" THEN 1 ELSE 0) <= 1
        BY <2>1 DEF Settled
      <3>1. CASE x \in mine
        BY <1>a, <2>1, <3>1, ShapesFacts
      <3>2. CASE x \notin mine
        BY <1>a, <2>1, <3>2, NoneAssumption DEF Settled
      <3> QED BY <3>1, <3>2
    <2> QED BY <2>3, <2>4, <2>5, <2>6 DEF IInv
  <1>10. ASSUME NEW s \in Sessions, ReadDown(s) \/ CountDown(s) \/ ReaderEnds(s) PROVE IInv'
    <2>1. /\ UNCHANGED <<main, map, client, rcOpen, registry, flush>>
          /\ \E r \in {"read", "held", "done"} : reader' = [reader EXCEPT ![s] = r]
          /\ reader[s] # "none"
      BY <1>10 DEF ReadDown, CountDown, ReaderEnds
    <2>2. /\ reader' \in [Sessions -> {"none", "read", "held", "done"}]
          /\ \A x \in Sessions : x # s => reader'[x] = reader[x]
      BY <1>a, <2>1 DEF Shapes
    <2>3. /\ bytes' \in [Sessions -> [Dirs -> Nat]]
          /\ \A x \in Sessions : x # s => bytes'[x] = bytes[x]
          /\ bytes'[s]["up"] = bytes[s]["up"]
      <3>1. CASE bytes' = bytes
        BY <1>a, <3>1 DEF Shapes
      <3>2. CASE bytes' = [bytes EXCEPT ![s]["down"] = @ + 1]
        BY <1>a, <3>2, ShapesFacts DEF Shapes, Dirs
      <3> QED BY <1>10, <3>1, <3>2 DEF ReadDown, CountDown, ReaderEnds
    <2>4. Shapes' /\ Mapped' /\ Held'
      BY <1>a, <2>1, <2>2, <2>3 DEF Shapes, Mapped, Held
    <2>5. Unmade'
      BY <1>a, <2>1, <2>2, <2>3 DEF Unmade, Zero
    <2>6. Serving'
      BY <1>a, <2>1, <2>3, ShapesFacts DEF Serving
    <2>7. s \notin registry => bytes'[s]["down"] + (IF reader'[s] = "held" THEN 1 ELSE 0) <= 1
      <3>1. CASE ReadDown(s)
        BY <1>a, <3>1 DEF ReadDown, Held
      <3>2. CASE CountDown(s)
        <4>1. reader[s] = "held" /\ reader'[s] = "read"
          BY <1>a, <3>2 DEF CountDown, Shapes
        <4>2. bytes'[s]["down"] = bytes[s]["down"] + 1
          BY <1>a, <3>2, ShapesFacts DEF CountDown, Shapes, Dirs
        <4>3. s \notin registry => bytes[s]["down"] + 1 <= 1
          BY <1>a, <4>1 DEF Settled
        <4> QED BY <4>1, <4>2, <4>3, ShapesFacts, <1>a
      <3>3. CASE ReaderEnds(s)
        <4>1. reader[s] = "read" /\ reader'[s] = "done" /\ bytes' = bytes
          BY <1>a, <3>3 DEF ReaderEnds, Shapes
        <4> QED BY <1>a, <4>1 DEF Settled
      <3> QED BY <1>10, <3>1, <3>2, <3>3
    <2>8. Settled'
      BY <1>a, <2>1, <2>2, <2>3, <2>7 DEF Settled
    <2> QED BY <2>4, <2>5, <2>6, <2>8 DEF IInv
  <1>11. ASSUME NEW s \in Sessions, FlushSwap(s) PROVE IInv'
    <2>1. /\ bytes' = [bytes EXCEPT ![s] = NoBytes] /\ flush' = [flush EXCEPT !.todo = @ \ {s}]
          /\ UNCHANGED <<main, map, client, reader, rcOpen, registry>>
      BY <1>11 DEF FlushSwap, sessVars
    <2>2. /\ bytes' \in [Sessions -> [Dirs -> Nat]]
          /\ \A x \in Sessions : bytes'[x] = IF x = s THEN NoBytes ELSE bytes[x]
      BY <1>a, <2>1, ShapesFacts DEF Shapes
    <2>3. flush' \in [at : {"idle", "swap", "kill"}, snap : SUBSET Sessions, todo : SUBSET Sessions]
      BY <1>a, <2>1 DEF Shapes
    <2>4. Shapes' /\ Mapped' /\ Held'
      BY <1>a, <2>1, <2>2, <2>3 DEF Shapes, Mapped, Held
    <2>5. Unmade' /\ Serving'
      BY <1>a, <2>1, <2>2, ShapesFacts, NoneAssumption DEF Unmade, Zero, Serving
    <2>6. Settled'
      BY <1>a, <2>1, <2>2, ShapesFacts DEF Settled
    <2> QED BY <2>4, <2>5, <2>6 DEF IInv
  <1>12. CASE FlushStart
    <2>1. flush' \in [at : {"idle", "swap", "kill"}, snap : SUBSET Sessions, todo : SUBSET Sessions]
      BY <1>12, <1>a DEF FlushStart, Shapes
    <2> QED BY <1>12, <1>a, <2>1
         DEF FlushStart, sessVars, IInv, Shapes, Mapped, Unmade, Serving, Held, Settled, Zero
  <1>13. CASE FlushQuota
    <2>1. /\ flush' = FlushIdle /\ UNCHANGED <<main, map, client, reader, bytes, registry>>
          /\ \/ rcOpen' = [s \in Sessions |-> rcOpen[s] /\ s \notin flush.snap]
             \/ rcOpen' = rcOpen
      BY <1>13 DEF FlushQuota
    <2>2. rcOpen' \in [Sessions -> BOOLEAN] /\ \A s \in Sessions : rcOpen'[s] => rcOpen[s]
      BY <1>a, <2>1 DEF Shapes
    <2>3. Shapes'
      BY <1>a, <2>1, <2>2 DEF Shapes, FlushIdle
    <2> QED BY <1>a, <2>1, <2>2, <2>3 DEF IInv, Mapped, Unmade, Serving, Held, Settled, Zero
  <1>14. ASSUME (\E s \in Sessions : Elapse(s)) \/ CloseListener \/ UNCHANGED vars PROVE IInv'
    <2>1. UNCHANGED <<main, map, client, rcOpen, reader, bytes, registry, flush>>
      BY <1>14 DEF Elapse, CloseListener, sessVars, vars
    <2> QED BY <1>a, <2>1 DEF IInv, Shapes, Mapped, Unmade, Serving, Held, Settled, Zero
  <1> QED
    BY <1>1, <1>2, <1>3, <1>4, <1>5, <1>6, <1>7, <1>8, <1>9, <1>10, <1>11, <1>12, <1>13, <1>14
       DEF Next, MainSteps, FlushSteps

-----------------------------------------------------------------------------
(* The theorems *)

LEMMA InvHolds == Spec => []IInv
BY InvInit, InvStep, PTL DEF Spec

\* An upstream socket that is open is registered and in the map, for any number of
\* clients and sessions: no path of udpLoop leaks one (relay.go 430-521).
THEOREM SocketsAreOwned == Spec => []NoOrphanSocket
  <1>1. IInv => NoOrphanSocket
    BY DEF IInv, Held, NoOrphanSocket
  <1> QED BY <1>1, InvHolds, PTL

\* A registered session is in the map, where the cleaner finds it (relay.go 433).
THEOREM RegisteredStayMapped == Spec => []RegisteredIsMapped
  <1>1. IInv => RegisteredIsMapped
    BY DEF IInv, Shapes, Held, RegisteredIsMapped
  <1> QED BY <1>1, InvHolds, PTL

\* What the main loop counts is billed, whoever takes the session away while it
\* waits for the bucket (relay.go 512).
THEOREM UpGetsBilled == Spec => []UpIsBilled
  <1>1. IInv => UpIsBilled
    BY DEF IInv, Settled, UpIsBilled
  <1> QED BY <1>1, InvHolds, PTL

\* At most one datagram that a reader counts goes unbilled (relay.go 527-535).
THEOREM DownLossBounded == Spec => []LossIsBounded
  <1>1. IInv => LossIsBounded
    <2> SUFFICES ASSUME IInv, NEW s \in Sessions, s \notin registry PROVE bytes[s]["down"] <= 1
      BY DEF LossIsBounded
    <2>1. bytes[s]["down"] + (IF reader[s] = "held" THEN 1 ELSE 0) <= 1 /\ bytes[s]["down"] \in Nat
      BY ShapesFacts DEF IInv, Settled
    <2> QED BY <2>1
  <1> QED BY <1>1, InvHolds, PTL
=============================================================================
