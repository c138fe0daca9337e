---------------------------- MODULE RelayProofs ----------------------------
(***************************************************************************)
(* What the relay counts (Traffic): Conservation and NothingLeftBehind for *)
(* any number of users and connections, the totals of users and groups as  *)
(* sums over them, and Traffic as an implementation of Ledger.             *)
(*                                                                         *)
(* What it lets through (TokenBucket): the tokens of a bucket, the sleeps  *)
(* of a caller, and the bound on all together.                             *)
(***************************************************************************)
EXTENDS Traffic, TokenBucket, FiniteSetTheorems, TLAPS

LEMMA DirsFact == Dirs = {"up", "down"} /\ \A d \in Dirs : Sink(d) \in Sockets
BY DEF Dirs, Sink, Sockets

\* The stage of the handler fixes where the pumps are, whether the connection
\* is registered and what may be left in its counters; and flush holds an
\* amount only between a swap and its bill.
Stages ==
    /\ \A c \in Conns :
         /\ c \in registry <=> pc[c] = "pump"
         /\ pc[c] # "pump" => \A d \in Dirs : pump[c][d] # "held"
         /\ pc[c] \in {"swapDown", "bill", "gone"} => bytes[c]["up"] = 0
         /\ pc[c] \in {"bill", "gone"} => bytes[c]["down"] = 0
         /\ pc[c] \notin {"swapDown", "bill"} => taken[c] = 0
    /\ flush.at \in {"swapDown", "bill"} <=> flush.conn # None
    /\ flush.conn = None => flush.amount = 0

IInv == TypeOK /\ Stages /\ Conservation

-----------------------------------------------------------------------------

LEMMA InitInv == Init => IInv
  <1> SUFFICES ASSUME Init PROVE IInv
    OBVIOUS
  <1>1. TypeOK
    BY ConnsAssumption, GroupsAssumption, BoundsAssumption
       DEF Init, TypeOK, FlushIdle, ResetIdle, Dirs, Sockets
  <1>2. Stages
    BY DirsFact DEF Init, Stages, FlushIdle
  <1>3. Conservation
    BY ConnsAssumption, DirsFact DEF Init, Conservation, Owed, InFlight, FlushIdle
  <1> QED BY <1>1, <1>2, <1>3 DEF IInv

\* What the shared pieces of the actions keep of the types.
LEMMA BillType ==
  ASSUME TypeOK, NEW c \in Conns, NEW n \in Nat, AddTraffic(c, n)
  PROVE  /\ userTotal' \in [Users -> Nat]
         /\ groupTotal' \in [Groups -> Nat]
         /\ credited' \in [Conns -> Nat]
         /\ brought' \in [Users -> Nat]
  <1>1. UserOf[c] \in Users /\ billTo[c] \in Groups
    BY ConnsAssumption DEF TypeOK
  <1> QED BY <1>1 DEF TypeOK, AddTraffic

LEMMA ClearType ==
  ASSUME TypeOK, NEW us, ClearTotals(us)
  PROVE  /\ userTotal' \in [Users -> Nat]
         /\ forgiven' \in [Conns -> Nat]
         /\ credited' \in [Conns -> Nat]
         /\ brought' \in [Users -> Nat]
  <1>1. \A c \in Conns : forgiven[c] \in Nat /\ forgiven[c] + credited[c] \in Nat
    BY DEF TypeOK
  <1> QED BY <1>1 DEF TypeOK, ClearTotals

LEMMA UpdateType ==
  ASSUME NEW S, NEW f \in [Conns -> [Dirs -> S]], NEW c \in Conns, NEW d \in Dirs,
         NEW x \in S
  PROVE  [f EXCEPT ![c][d] = x] \in [Conns -> [Dirs -> S]]
  <1>1. [f[c] EXCEPT ![d] = x] \in [Dirs -> S]
    OBVIOUS
  <1> QED BY <1>1

\* A counter that is swapped out or overwritten is what the sum loses.
LEMMA ZeroCounter ==
  ASSUME TypeOK, NEW c \in Conns, NEW d \in Dirs, bytes' = [bytes EXCEPT ![c][d] = 0]
  PROVE  /\ bytes' \in [Conns -> [Dirs -> Nat]]
         /\ bytes'[c]["up"] + bytes'[c]["down"] + bytes[c][d]
              = bytes[c]["up"] + bytes[c]["down"]
         /\ bytes[c][d] \in Nat
         /\ bytes'[c]["up"] \in Nat /\ bytes'[c]["down"] \in Nat
         /\ \A x \in Conns : x # c => bytes'[x] = bytes[x]
  <1>1. bytes \in [Conns -> [Dirs -> Nat]]
    BY DEF TypeOK
  <1>2. bytes' \in [Conns -> [Dirs -> Nat]]
    BY <1>1, UpdateType
  <1>3. /\ bytes'[c][d] = 0
        /\ \A e \in Dirs : e # d => bytes'[c][e] = bytes[c][e]
        /\ \A x \in Conns : x # c => bytes'[x] = bytes[x]
    BY <1>1
  <1>4. /\ bytes[c]["up"] \in Nat /\ bytes[c]["down"] \in Nat
        /\ bytes'[c]["up"] \in Nat /\ bytes'[c]["down"] \in Nat
    BY <1>1, <1>2, DirsFact
  <1>5. CASE d = "up"
    BY <1>2, <1>3, <1>4, <1>5, DirsFact
  <1>6. CASE d = "down"
    BY <1>2, <1>3, <1>4, <1>6, DirsFact
  <1> QED BY <1>5, <1>6, DirsFact

\* Type correctness of every step.
LEMMA TypeStep == TypeOK /\ [Next]_vars => TypeOK'
  <1> SUFFICES ASSUME TypeOK, [Next]_vars PROVE TypeOK'
    OBVIOUS
  <1> USE DEF TypeOK, connVars, countVars, totalVars, resetVars, groupVars
  <1>1. ASSUME NEW c \in Conns, Admit(c) PROVE TypeOK'
    BY <1>1, ConnsAssumption DEF Admit
  <1>2. ASSUME NEW c \in Conns, Refuse(c) PROVE TypeOK'
    BY <1>2 DEF Refuse
  <1>3. ASSUME NEW c \in Conns, Register(c) PROVE TypeOK'
    BY <1>3 DEF Register
  <1>4. ASSUME NEW c \in Conns, NEW d \in Dirs, PumpRead(c, d) PROVE TypeOK'
    BY <1>4 DEF PumpRead
  <1>5. ASSUME NEW c \in Conns, NEW d \in Dirs, PumpMeter(c, d) PROVE TypeOK'
    <2>1. bytes' \in [Conns -> [Dirs -> Nat]]
      <3>1. bytes[c][d] + 1 \in Nat /\ bytes \in [Conns -> [Dirs -> Nat]]
        OBVIOUS
      <3>2. [bytes EXCEPT ![c][d] = bytes[c][d] + 1] \in [Conns -> [Dirs -> Nat]]
        BY <3>1, UpdateType
      <3> QED BY <3>2, <1>5 DEF PumpMeter
    <2>2. pump' \in [Conns -> [Dirs -> {"read", "held", "done"}]]
      <3>1. \/ pump' = [pump EXCEPT ![c][d] = "read"]
            \/ pump' = [pump EXCEPT ![c][d] = "done"]
        BY <1>5 DEF PumpMeter
      <3>2. \A x \in {"read", "held", "done"} :
                [pump EXCEPT ![c][d] = x] \in [Conns -> [Dirs -> {"read", "held", "done"}]]
        <4> DEFINE S == {"read", "held", "done"}
        <4>1. pump \in [Conns -> [Dirs -> S]]
          OBVIOUS
        <4> HIDE DEF S
        <4>2. \A x \in S : [pump EXCEPT ![c][d] = x] \in [Conns -> [Dirs -> S]]
          BY <4>1, UpdateType
        <4> QED BY <4>2 DEF S
      <3> QED BY <3>1, <3>2
    <2>3. pumped' \in [Conns -> Nat]
      BY <1>5 DEF PumpMeter
    <2>4. open' \in [Conns -> SUBSET Sockets]
      <3>1. open' = open \/ open' = [open EXCEPT ![c] = open[c] \ {Sink(d)}]
        BY <1>5 DEF PumpMeter
      <3>2. open[c] \ {Sink(d)} \in SUBSET Sockets
        OBVIOUS
      <3>3. [open EXCEPT ![c] = open[c] \ {Sink(d)}] \in [Conns -> SUBSET Sockets]
        BY <3>2
      <3> QED BY <3>1, <3>3
    <2> QED BY <1>5, <2>1, <2>2, <2>3, <2>4 DEF PumpMeter
  <1>6. ASSUME NEW c \in Conns, NEW d \in Dirs, PumpReturn(c, d) PROVE TypeOK'
    BY <1>6 DEF PumpReturn
  <1>7. ASSUME NEW c \in Conns, UnregDelete(c) PROVE TypeOK'
    BY <1>7 DEF UnregDelete
  <1>8. ASSUME NEW c \in Conns, NEW d \in Dirs, UnregSwap(c, d) PROVE TypeOK'
    <2>1. bytes' \in [Conns -> [Dirs -> Nat]] /\ taken[c] + bytes[c][d] \in Nat
      BY <1>8, ZeroCounter DEF UnregSwap
    <2>2. AfterSwap(d) \in {"swapDown", "bill"}
      BY DEF AfterSwap
    <2> QED BY <1>8, <2>1, <2>2 DEF UnregSwap
  <1>9. ASSUME NEW c \in Conns, UnregBill(c) PROVE TypeOK'
    <2>1. /\ userTotal' \in [Users -> Nat]
          /\ groupTotal' \in [Groups -> Nat]
          /\ credited' \in [Conns -> Nat]
          /\ brought' \in [Users -> Nat]
      BY <1>9, BillType DEF UnregBill
    <2> QED BY <1>9, <2>1 DEF UnregBill
  <1>10. CASE FlushStart
    BY <1>10 DEF FlushStart
  <1>11. ASSUME NEW c \in Conns, NEW d \in Dirs, FlushSwap(c, d) PROVE TypeOK'
    <2>1. bytes' \in [Conns -> [Dirs -> Nat]] /\ flush.amount + bytes[c][d] \in Nat
      BY <1>11, ZeroCounter DEF FlushSwap
    <2>2. AfterSwap(d) \in {"swapDown", "bill"}
      BY DEF AfterSwap
    <2>3. flush' \in [at : {"idle", "walk", "swapDown", "bill", "quota"},
                      snap : SUBSET Conns, todo : SUBSET Conns,
                      conn : Conns \cup {None}, amount : Nat, users : SUBSET Users]
      BY <1>11, <2>1, <2>2 DEF FlushSwap
    <2> QED BY <1>11, <2>1, <2>3 DEF FlushSwap
  <1>12. ASSUME NEW c \in Conns, FlushBill(c) PROVE TypeOK'
    <2>1. /\ userTotal' \in [Users -> Nat]
          /\ groupTotal' \in [Groups -> Nat]
          /\ credited' \in [Conns -> Nat]
          /\ brought' \in [Users -> Nat]
      BY <1>12, BillType DEF FlushBill
    <2> QED BY <1>12, <2>1 DEF FlushBill
  <1>13. CASE FlushBilled
    BY <1>13 DEF FlushBilled
  <1>14. ASSUME NEW u \in Users, FlushSpare(u) PROVE TypeOK'
    BY <1>14 DEF FlushSpare
  <1>15. ASSUME NEW u \in Users, FlushKill(u) PROVE TypeOK'
    BY <1>15 DEF FlushKill
  <1>16. CASE FlushEnd
    BY <1>16 DEF FlushEnd, FlushIdle
  <1>17. ASSUME NEW u \in Users, ResetLock(u) PROVE TypeOK'
    BY <1>17 DEF ResetLock
  <1>18. ASSUME NEW c \in Conns, NEW d \in Dirs, ResetZero(c, d) PROVE TypeOK'
    <2>1. bytes' \in [Conns -> [Dirs -> Nat]] /\ forgiven[c] + bytes[c][d] \in Nat
      BY <1>18, ZeroCounter DEF ResetZero
    <2>2. forgiven' \in [Conns -> Nat]
      BY <1>18, <2>1 DEF ResetZero
    <2> QED BY <1>18, <2>1, <2>2 DEF ResetZero
  <1>19. CASE ResetUnlock
    BY <1>19 DEF ResetUnlock
  <1>20. CASE ResetStore
    <2>1. /\ userTotal' \in [Users -> Nat]
          /\ forgiven' \in [Conns -> Nat]
          /\ credited' \in [Conns -> Nat]
          /\ brought' \in [Users -> Nat]
      BY <1>20, ClearType DEF ResetStore
    <2> QED BY <1>20, <2>1 DEF ResetStore, ResetIdle
  <1>21. ASSUME NEW g \in Groups, ResetGroup(g) PROVE TypeOK'
    <2>1. /\ userTotal' \in [Users -> Nat]
          /\ forgiven' \in [Conns -> Nat]
          /\ credited' \in [Conns -> Nat]
          /\ brought' \in [Users -> Nat]
      BY <1>21, ClearType DEF ResetGroup, UsersOf
    <2> QED BY <1>21, <2>1 DEF ResetGroup
  <1>22. CASE UNCHANGED vars
    BY <1>22 DEF vars
  <1>23. ASSUME NEW u \in Users, NEW g \in Groups, MoveUser(u, g) PROVE TypeOK'
    BY <1>23 DEF MoveUser
  <1> QED
    BY <1>1, <1>2, <1>3, <1>4, <1>5, <1>6, <1>7, <1>8, <1>9, <1>10, <1>11, <1>12,
       <1>13, <1>14, <1>15, <1>16, <1>17, <1>18, <1>19, <1>20, <1>21, <1>22, <1>23
       DEF Next, Flush, Unregister, ResetUser

\* The stages hold after every step.
LEMMA StagesStep == TypeOK /\ Stages /\ [Next]_vars => Stages'
  <1> SUFFICES ASSUME TypeOK, Stages, [Next]_vars PROVE Stages'
    OBVIOUS
  <1> USE DEF TypeOK, Stages, connVars, countVars, totalVars, resetVars, groupVars
  <1>1. ASSUME NEW c \in Conns, Admit(c) PROVE Stages'
    BY <1>1 DEF Admit
  <1>2. ASSUME NEW c \in Conns, Refuse(c) PROVE Stages'
    BY <1>2 DEF Refuse
  <1>3. ASSUME NEW c \in Conns, Register(c) PROVE Stages'
    BY <1>3 DEF Register
  <1>4. ASSUME NEW c \in Conns, NEW d \in Dirs, PumpRead(c, d) PROVE Stages'
    BY <1>4 DEF PumpRead
  <1>5. ASSUME NEW c \in Conns, NEW d \in Dirs, PumpMeter(c, d) PROVE Stages'
    BY <1>5 DEF PumpMeter
  <1>6. ASSUME NEW c \in Conns, NEW d \in Dirs, PumpReturn(c, d) PROVE Stages'
    BY <1>6 DEF PumpReturn
  <1>7. ASSUME NEW c \in Conns, UnregDelete(c) PROVE Stages'
    BY <1>7 DEF UnregDelete
  <1>8. ASSUME NEW c \in Conns, NEW d \in Dirs, UnregSwap(c, d) PROVE Stages'
    BY <1>8, DirsFact DEF UnregSwap, Swapping, AfterSwap
  <1>9. ASSUME NEW c \in Conns, UnregBill(c) PROVE Stages'
    BY <1>9 DEF UnregBill, AddTraffic
  <1>10. CASE FlushStart
    BY <1>10 DEF FlushStart
  <1>11. ASSUME NEW c \in Conns, NEW d \in Dirs, FlushSwap(c, d) PROVE Stages'
    BY <1>11, ConnsAssumption, DirsFact DEF FlushSwap, NextCounter, AfterSwap
  <1>12. ASSUME NEW c \in Conns, FlushBill(c) PROVE Stages'
    BY <1>12 DEF FlushBill, AddTraffic
  <1>13. CASE FlushBilled
    BY <1>13 DEF FlushBilled
  <1>14. ASSUME NEW u \in Users, FlushSpare(u) PROVE Stages'
    BY <1>14 DEF FlushSpare
  <1>15. ASSUME NEW u \in Users, FlushKill(u) PROVE Stages'
    BY <1>15 DEF FlushKill
  <1>16. CASE FlushEnd
    BY <1>16 DEF FlushEnd, FlushIdle
  <1>17. ASSUME NEW u \in Users, ResetLock(u) PROVE Stages'
    BY <1>17 DEF ResetLock
  <1>18. ASSUME NEW c \in Conns, NEW d \in Dirs, ResetZero(c, d) PROVE Stages'
    BY <1>18, DirsFact DEF ResetZero
  <1>19. CASE ResetUnlock
    BY <1>19 DEF ResetUnlock
  <1>20. CASE ResetStore
    BY <1>20 DEF ResetStore, ClearTotals
  <1>21. ASSUME NEW g \in Groups, ResetGroup(g) PROVE Stages'
    BY <1>21 DEF ResetGroup, ClearTotals
  <1>22. CASE UNCHANGED vars
    BY <1>22 DEF vars
  <1>23. ASSUME NEW u \in Users, NEW g \in Groups, MoveUser(u, g) PROVE Stages'
    BY <1>23 DEF MoveUser
  <1> QED
    BY <1>1, <1>2, <1>3, <1>4, <1>5, <1>6, <1>7, <1>8, <1>9, <1>10, <1>11, <1>12,
       <1>13, <1>14, <1>15, <1>16, <1>17, <1>18, <1>19, <1>20, <1>21, <1>22, <1>23
       DEF Next, Flush, Unregister, ResetUser

\* No step loses a unit or charges one twice.
LEMMA ConservationStep == TypeOK /\ Stages /\ Conservation /\ [Next]_vars => Conservation'
  <1> SUFFICES ASSUME TypeOK, Stages, Conservation, [Next]_vars PROVE Conservation'
    OBVIOUS
  <1> USE DEF TypeOK, Stages, Conservation, Owed, InFlight, connVars, countVars, totalVars, resetVars, groupVars
  <1>1. ASSUME NEW c \in Conns, Admit(c) PROVE Conservation'
    BY <1>1 DEF Admit
  <1>2. ASSUME NEW c \in Conns, Refuse(c) PROVE Conservation'
    BY <1>2 DEF Refuse
  <1>3. ASSUME NEW c \in Conns, Register(c) PROVE Conservation'
    BY <1>3 DEF Register
  <1>4. ASSUME NEW c \in Conns, NEW d \in Dirs, PumpRead(c, d) PROVE Conservation'
    BY <1>4 DEF PumpRead
  <1>5. ASSUME NEW c \in Conns, NEW d \in Dirs, PumpMeter(c, d) PROVE Conservation'
    <2>1. /\ bytes'[c][d] = bytes[c][d] + 1
          /\ \A e \in Dirs : e # d => bytes'[c][e] = bytes[c][e]
          /\ pumped'[c] = pumped[c] + 1
      BY <1>5 DEF PumpMeter
    <2>2. \A x \in Conns : x # c => bytes'[x] = bytes[x] /\ pumped'[x] = pumped[x]
      BY <1>5 DEF PumpMeter
    <2>3. UNCHANGED <<taken, credited, forgiven, flush>>
      BY <1>5 DEF PumpMeter
    <2>4. /\ bytes'[c]["up"] \in Nat /\ bytes'[c]["down"] \in Nat
          /\ bytes'[c]["up"] + bytes'[c]["down"] = bytes[c]["up"] + bytes[c]["down"] + 1
      BY <2>1, DirsFact
    <2>5. ASSUME NEW x \in Conns PROVE (pumped[x] = credited[x] + forgiven[x] + Owed(x))'
      <3>0. /\ bytes[x]["up"] \in Nat /\ bytes[x]["down"] \in Nat /\ flush.amount \in Nat
            /\ pumped[x] \in Nat /\ credited[x] \in Nat /\ forgiven[x] \in Nat /\ taken[x] \in Nat
            /\ pumped[x] = credited[x] + forgiven[x] + Owed(x)
        BY DirsFact
      <3>1. CASE x = c
        <4>1. InFlight(c)' = InFlight(c) /\ InFlight(c) \in Nat /\ taken' = taken
          BY <2>3
        <4> HIDE DEF InFlight, TypeOK, Stages, Conservation
        <4>2. Owed(c)' = Owed(c) + 1 /\ Owed(c) \in Nat
          BY <4>1, <3>0, <3>1, <2>4
        <4>3. pumped'[c] = pumped[c] + 1 /\ credited' = credited /\ forgiven' = forgiven
          BY <2>1, <2>3
        <4> HIDE DEF Owed
        <4> QED BY <3>0, <3>1, <4>2, <4>3
      <3>2. CASE x # c
        BY <3>0, <3>2, <2>2, <2>3
      <3> QED BY <3>1, <3>2
    <2> QED BY <2>5
  <1>6. ASSUME NEW c \in Conns, NEW d \in Dirs, PumpReturn(c, d) PROVE Conservation'
    BY <1>6 DEF PumpReturn
  <1>7. ASSUME NEW c \in Conns, UnregDelete(c) PROVE Conservation'
    BY <1>7 DEF UnregDelete
  <1>8. ASSUME NEW c \in Conns, NEW d \in Dirs, UnregSwap(c, d) PROVE Conservation'
    <2>1. /\ bytes'[c]["up"] + bytes'[c]["down"] + bytes[c][d] = bytes[c]["up"] + bytes[c]["down"]
          /\ bytes[c][d] \in Nat /\ bytes'[c]["up"] \in Nat /\ bytes'[c]["down"] \in Nat
          /\ \A x \in Conns : x # c => bytes'[x] = bytes[x]
      BY <1>8, ZeroCounter DEF UnregSwap
    <2>2. /\ taken'[c] = taken[c] + bytes[c][d]
          /\ \A x \in Conns : x # c => taken'[x] = taken[x]
          /\ UNCHANGED <<pumped, credited, forgiven, flush>>
      BY <1>8 DEF UnregSwap
    <2>3. ASSUME NEW x \in Conns PROVE (pumped[x] = credited[x] + forgiven[x] + Owed(x))'
      <3>0. /\ bytes[x]["up"] \in Nat /\ bytes[x]["down"] \in Nat /\ flush.amount \in Nat
            /\ pumped[x] \in Nat /\ credited[x] \in Nat /\ forgiven[x] \in Nat /\ taken[x] \in Nat
            /\ pumped[x] = credited[x] + forgiven[x] + Owed(x)
        BY DirsFact
      <3>1. CASE x = c
        BY <3>0, <3>1, <2>1, <2>2
      <3>2. CASE x # c
        BY <3>0, <3>2, <2>1, <2>2
      <3> QED BY <3>1, <3>2
    <2> QED BY <2>3
  <1>9. ASSUME NEW c \in Conns, UnregBill(c) PROVE Conservation'
    <2>1. /\ credited'[c] = credited[c] + taken[c]
          /\ taken'[c] = 0
      BY <1>9 DEF UnregBill, AddTraffic
    <2>2. \A x \in Conns : x # c => credited'[x] = credited[x] /\ taken'[x] = taken[x]
      BY <1>9 DEF UnregBill, AddTraffic
    <2>3. UNCHANGED <<bytes, pumped, forgiven, flush>>
      BY <1>9 DEF UnregBill
    <2>5. ASSUME NEW x \in Conns PROVE (pumped[x] = credited[x] + forgiven[x] + Owed(x))'
      <3>0. /\ bytes[x]["up"] \in Nat /\ bytes[x]["down"] \in Nat /\ flush.amount \in Nat
            /\ pumped[x] \in Nat /\ credited[x] \in Nat /\ forgiven[x] \in Nat /\ taken[x] \in Nat
            /\ pumped[x] = credited[x] + forgiven[x] + Owed(x)
        BY DirsFact
      <3>1. CASE x = c
        BY <3>0, <3>1, <2>1, <2>3
      <3>2. CASE x # c
        BY <3>0, <3>2, <2>2, <2>3
      <3> QED BY <3>1, <3>2
    <2> QED BY <2>5
  <1>10. CASE FlushStart
    BY <1>10 DEF FlushStart
  <1>11. ASSUME NEW c \in Conns, NEW d \in Dirs, FlushSwap(c, d) PROVE Conservation'
    <2>1. /\ bytes'[c]["up"] + bytes'[c]["down"] + bytes[c][d] = bytes[c]["up"] + bytes[c]["down"]
          /\ bytes[c][d] \in Nat /\ bytes'[c]["up"] \in Nat /\ bytes'[c]["down"] \in Nat
          /\ \A x \in Conns : x # c => bytes'[x] = bytes[x]
      BY <1>11, ZeroCounter DEF FlushSwap
    <2>2. /\ flush'.conn = c /\ flush'.amount = flush.amount + bytes[c][d]
          /\ flush.conn = c \/ (flush.conn = None /\ flush.amount = 0)
          /\ UNCHANGED <<pumped, credited, forgiven, taken>>
      BY <1>11 DEF FlushSwap, NextCounter
    <2>4. None \notin Conns
      BY ConnsAssumption
    <2>3. ASSUME NEW x \in Conns PROVE (pumped[x] = credited[x] + forgiven[x] + Owed(x))'
      <3>0. /\ bytes[x]["up"] \in Nat /\ bytes[x]["down"] \in Nat /\ flush.amount \in Nat
            /\ pumped[x] \in Nat /\ credited[x] \in Nat /\ forgiven[x] \in Nat /\ taken[x] \in Nat
            /\ pumped[x] = credited[x] + forgiven[x] + Owed(x)
        BY DirsFact
      <3>1. CASE x = c
        BY <3>0, <3>1, <2>1, <2>2, <2>4
      <3>2. CASE x # c
        BY <3>0, <3>2, <2>1, <2>2, <2>4
      <3> QED BY <3>1, <3>2
    <2> QED BY <2>3
  <1>12. ASSUME NEW c \in Conns, FlushBill(c) PROVE Conservation'
    BY <1>12, DirsFact DEF FlushBill, AddTraffic
  <1>13. CASE FlushBilled
    BY <1>13 DEF FlushBilled
  <1>14. ASSUME NEW u \in Users, FlushSpare(u) PROVE Conservation'
    BY <1>14 DEF FlushSpare
  <1>15. ASSUME NEW u \in Users, FlushKill(u) PROVE Conservation'
    BY <1>15 DEF FlushKill
  <1>16. CASE FlushEnd
    BY <1>16 DEF FlushEnd, FlushIdle
  <1>17. ASSUME NEW u \in Users, ResetLock(u) PROVE Conservation'
    BY <1>17 DEF ResetLock
  <1>18. ASSUME NEW c \in Conns, NEW d \in Dirs, ResetZero(c, d) PROVE Conservation'
    <2>1. /\ bytes'[c]["up"] + bytes'[c]["down"] + bytes[c][d] = bytes[c]["up"] + bytes[c]["down"]
          /\ bytes[c][d] \in Nat /\ bytes'[c]["up"] \in Nat /\ bytes'[c]["down"] \in Nat
          /\ \A x \in Conns : x # c => bytes'[x] = bytes[x]
      BY <1>18, ZeroCounter DEF ResetZero
    <2>2. /\ forgiven'[c] = forgiven[c] + bytes[c][d]
          /\ \A x \in Conns : x # c => forgiven'[x] = forgiven[x]
          /\ UNCHANGED <<taken, pumped, credited, flush>>
      BY <1>18 DEF ResetZero
    <2>3. ASSUME NEW x \in Conns PROVE (pumped[x] = credited[x] + forgiven[x] + Owed(x))'
      <3>0. /\ bytes[x]["up"] \in Nat /\ bytes[x]["down"] \in Nat /\ flush.amount \in Nat
            /\ pumped[x] \in Nat /\ credited[x] \in Nat /\ forgiven[x] \in Nat /\ taken[x] \in Nat
            /\ pumped[x] = credited[x] + forgiven[x] + Owed(x)
        BY DirsFact
      <3>1. CASE x = c
        BY <3>0, <3>1, <2>1, <2>2
      <3>2. CASE x # c
        BY <3>0, <3>2, <2>1, <2>2
      <3> QED BY <3>1, <3>2
    <2> QED BY <2>3
  <1>19. CASE ResetUnlock
    BY <1>19 DEF ResetUnlock
  <1>20. CASE ResetStore
    BY <1>20 DEF ResetStore, ClearTotals
  <1>21. ASSUME NEW g \in Groups, ResetGroup(g) PROVE Conservation'
    BY <1>21 DEF ResetGroup, ClearTotals
  <1>22. CASE UNCHANGED vars
    BY <1>22 DEF vars
  <1>23. ASSUME NEW u \in Users, NEW g \in Groups, MoveUser(u, g) PROVE Conservation'
    BY <1>23 DEF MoveUser
  <1> QED
    BY <1>1, <1>2, <1>3, <1>4, <1>5, <1>6, <1>7, <1>8, <1>9, <1>10, <1>11, <1>12,
       <1>13, <1>14, <1>15, <1>16, <1>17, <1>18, <1>19, <1>20, <1>21, <1>22, <1>23
       DEF Next, Flush, Unregister, ResetUser

-----------------------------------------------------------------------------
(* The theorems *)

LEMMA InductiveInv == Spec => []IInv
  <1>1. Init => IInv
    BY InitInv
  <1>2. IInv /\ [Next]_vars => IInv'
    BY TypeStep, StagesStep, ConservationStep DEF IInv
  <1> QED BY <1>1, <1>2, PTL DEF Spec

\* All the state of the accounting keeps its type.
THEOREM TypeCorrect == Spec => []TypeOK
BY InductiveInv, PTL DEF IInv

\* Every unit counted by a pump is charged once or forgiven by a reset: flush,
\* unregister and the resets, on any number of connections.
THEOREM ConservationHolds == Spec => []Conservation
BY InductiveInv, PTL DEF IInv

\* A handler that has returned leaves nothing in the counters.
THEOREM NothingLeft == Spec => []NothingLeftBehind
  <1>1. IInv => NothingLeftBehind
    BY DirsFact DEF IInv, TypeOK, Stages, NothingLeftBehind
  <1> QED BY InductiveInv, <1>1, PTL

-----------------------------------------------------------------------------
(* Sums over finite sets *)

Sum(f, S) == SumFunctionOnSet(f, S)
Pick(T) == CHOOSE x \in T : TRUE
Body(f, g, T) == IF T = {} THEN 0 ELSE f[Pick(T)] + g[T \ {Pick(T)}]
\* The recursive function that a sum of f over S is defined by.
SumFcn(f, S) == CHOOSE g : g = [T \in SUBSET S |-> Body(f, g, T)]

LEMMA SumIs == \A f, S : Sum(f, S) = SumFcn(f, S)[S]
BY DEF Sum, SumFunctionOnSet, FoldFunctionOnSet, MapThenFoldSet, SumFcn, Pick, Body

\* Induction on the subsets of a finite set: a set of them has a minimal one.
LEMMA MinimalSet ==
  ASSUME NEW S, IsFiniteSet(S), NEW Bad \in SUBSET (SUBSET S), Bad # {}
  PROVE  \E A \in Bad : \A B \in Bad : ~(B \subseteq A /\ B # A)
  <1>1. IsWellFoundedOn(StrictSubsetOrdering(S), FiniteSubsetsOf(S))
    BY FS_StrictSubsetOrderingWellFounded
  <1>2. Bad \subseteq FiniteSubsetsOf(S)
    BY FS_FiniteSubsetsOfFinite
  <1>3. \E A \in Bad : \A B \in Bad : ~ (<<B, A>> \in StrictSubsetOrdering(S))
    BY <1>1, <1>2, WFMin
  <1>4. PICK A \in Bad : \A B \in Bad : ~ (<<B, A>> \in StrictSubsetOrdering(S))
    BY <1>3
  <1>5. ASSUME NEW B \in Bad, B \subseteq A, B # A PROVE FALSE
    <2>1. <<B, A>> \in StrictSubsetOrdering(S)
      BY <1>5 DEF StrictSubsetOrdering
    <2> QED BY <2>1, <1>4
  <1> QED BY <1>5

LEMMA PickIsIn == \A T : T # {} => Pick(T) \in T
BY DEF Pick

LEMMA Smaller ==
  ASSUME NEW S, IsFiniteSet(S), NEW x \in S
  PROVE  /\ IsFiniteSet(S \ {x}) /\ Cardinality(S \ {x}) = Cardinality(S) - 1
         /\ Cardinality(S) \in Nat /\ Cardinality(S \ {x}) \in Nat
BY FS_RemoveElement, FS_CardinalityType


Meets(f, g, S, n) == \A T \in SUBSET S : Cardinality(T) <= n => g[T] = Body(f, g, T)

\* One more round of the equation is right for sets of one more element.
LEMMA OneMore ==
  ASSUME NEW f, NEW S, IsFiniteSet(S), NEW g, NEW n \in Nat, Meets(f, g, S, n)
  PROVE  Meets(f, [T \in SUBSET S |-> Body(f, g, T)], S, n + 1)
  <1> DEFINE h == [T \in SUBSET S |-> Body(f, g, T)]
  <1> SUFFICES ASSUME NEW T \in SUBSET S, Cardinality(T) <= n + 1
               PROVE  h[T] = Body(f, h, T)
    BY DEF Meets
  <1>1. h[T] = Body(f, g, T)
    OBVIOUS
  <1>2. CASE T = {}
    BY <1>1, <1>2 DEF Body
  <1>3. CASE T # {}
    <2> DEFINE R == T \ {Pick(T)}
    <2>1. IsFiniteSet(T) /\ Pick(T) \in T
      BY <1>3, FS_Subset, PickIsIn
    <2>2. Cardinality(R) <= n /\ R \in SUBSET S
      BY <2>1, Smaller
    <2>3. g[R] = Body(f, g, R)
      BY <2>2 DEF Meets
    <2>4. h[R] = Body(f, g, R)
      BY <2>2
    <2>5. Body(f, g, T) = Body(f, h, T)
      BY <2>3, <2>4 DEF Body
    <2> QED BY <1>1, <2>5
  <1> QED BY <1>2, <1>3

\* There is a function that meets the recursive equation.
LEMMA SumFcnExists ==
  ASSUME NEW f, NEW S, IsFiniteSet(S)
  PROVE  \E g : g = [T \in SUBSET S |-> Body(f, g, T)]
  <1> DEFINE Good(A) == \E g : Meets(f, g, S, Cardinality(A))
             Bad == {A \in SUBSET S : ~Good(A)}
  <1>1. ASSUME NEW A \in SUBSET S
        PROVE  Good(A) 
    <2> SUFFICES ASSUME Bad # {}
                 PROVE  FALSE
      OBVIOUS
    <2>0. Bad \in SUBSET (SUBSET S)
      OBVIOUS
    <2>1. PICK B \in Bad : \A C \in Bad : ~(C \subseteq B /\ C # B)
      <3> HIDE DEF Bad
      <3> QED BY <2>0, MinimalSet
    <2>2. IsFiniteSet(B) /\ B \in SUBSET S
      BY FS_Subset
    <2>3. CASE B = {}
      <3> DEFINE z == [T \in SUBSET S |-> 0]
      <3>1. ASSUME NEW T \in SUBSET S, Cardinality(T) <= 0
            PROVE  z[T] = Body(f, z, T)
        <4>1. T = {}
          BY <3>1, FS_Subset, FS_CardinalityType, FS_EmptySet
        <4> QED BY <4>1 DEF Body
      <3>2. Cardinality(B) = 0
        BY <2>3, FS_EmptySet
      <3>3. Meets(f, z, S, Cardinality(B))
        BY <3>1, <3>2 DEF Meets
      <3> QED BY <3>3
    <2>4. CASE B # {}
      <3>1. PICK x : x \in B
        BY <2>4
      <3>2. B \ {x} \in SUBSET S /\ B \ {x} \notin Bad
        BY <2>1, <3>1
      <3>3. PICK g : Meets(f, g, S, Cardinality(B \ {x}))
        BY <3>2
      <3>4. /\ Cardinality(B \ {x}) \in Nat
            /\ Cardinality(B \ {x}) + 1 = Cardinality(B)
        BY <2>2, <3>1, Smaller
      <3>5. Meets(f, [T \in SUBSET S |-> Body(f, g, T)], S, Cardinality(B \ {x}) + 1)
        BY <3>3, <3>4, OneMore
      <3>6. Meets(f, [T \in SUBSET S |-> Body(f, g, T)], S, Cardinality(B))
        BY <3>4, <3>5
      <3> QED BY <3>6
    <2> QED BY <2>3, <2>4
  <1>2. PICK g : Meets(f, g, S, Cardinality(S))
    BY <1>1
  <1>3. \A T \in SUBSET S : Cardinality(T) <= Cardinality(S)
    BY FS_Subset
  <1>4. \A T \in SUBSET S : g[T] = Body(f, g, T)
    BY <1>2, <1>3 DEF Meets
  <1> DEFINE h == [T \in SUBSET S |-> Body(f, g, T)]
  <1>5. \A T \in SUBSET S : h[T] = g[T]
    BY <1>4
  <1>6. \A T \in SUBSET S : T # {} => T \ {Pick(T)} \in SUBSET S
    OBVIOUS
  <1>7. \A T \in SUBSET S : Body(f, h, T) = Body(f, g, T)
    BY <1>5, <1>6 DEF Body
  <1>8. h = [T \in SUBSET S |-> Body(f, h, T)]
    BY <1>7
  <1> QED BY <1>8

LEMMA SumFcnMeets ==
  ASSUME NEW f, NEW S, IsFiniteSet(S)
  PROVE  \A T \in SUBSET S : SumFcn(f, S)[T] = Body(f, SumFcn(f, S), T)
  <1> DEFINE g == SumFcn(f, S)
  <1>1. g = [T \in SUBSET S |-> Body(f, g, T)]
    BY SumFcnExists DEF SumFcn
  <1> HIDE DEF g
  <1>2. \A T \in SUBSET S : g[T] = Body(f, g, T)
    BY <1>1
  <1> QED BY <1>2 DEF g

\* Every subset has the sum that its superset's function gives it.
LEMMA SumOfSubset ==
  ASSUME NEW f, NEW S, IsFiniteSet(S), NEW A \in SUBSET S
  PROVE  SumFcn(f, S)[A] = Sum(f, A)
  <1> DEFINE g == SumFcn(f, S)
             h == SumFcn(f, A)
             Bad == {T \in SUBSET A : g[T] # h[T]}
  <1>1. IsFiniteSet(A)
    BY FS_Subset
  <1>2. /\ \A T \in SUBSET S : g[T] = Body(f, g, T)
        /\ \A T \in SUBSET A : h[T] = Body(f, h, T)
    BY <1>1, SumFcnMeets
  <1> HIDE DEF g, h
  <1>3. Bad = {}
    <2> SUFFICES ASSUME Bad # {}
                 PROVE  FALSE
      OBVIOUS
    <2>1. PICK B \in Bad : \A C \in Bad : ~(C \subseteq B /\ C # B)
      <3>1. Bad \in SUBSET (SUBSET A)
        OBVIOUS
      <3> HIDE DEF Bad
      <3> QED BY <1>1, <3>1, MinimalSet
    <2>2. B \in SUBSET A /\ B \in SUBSET S
      OBVIOUS
    <2>3. B # {} => Pick(B) \in B /\ B \ {Pick(B)} \in SUBSET A
      BY PickIsIn
    <2>4. B # {} => g[B \ {Pick(B)}] = h[B \ {Pick(B)}]
      BY <2>1, <2>3
    <2>5. Body(f, g, B) = Body(f, h, B)
      BY <2>4 DEF Body
    <2> QED BY <1>2, <2>2, <2>5
  <1>4. g[A] = h[A]
    BY <1>3
  <1> QED BY <1>4, SumIs DEF g, h

LEMMA SumEquation ==
  ASSUME NEW f, NEW S, IsFiniteSet(S)
  PROVE  Sum(f, S) = IF S = {} THEN 0 ELSE f[Pick(S)] + Sum(f, S \ {Pick(S)})
  <1>1. SumFcn(f, S)[S] = Body(f, SumFcn(f, S), S)
    BY SumFcnMeets
  <1>2. SumFcn(f, S)[S \ {Pick(S)}] = Sum(f, S \ {Pick(S)})
    BY SumOfSubset
  <1> QED BY <1>1, <1>2, SumIs DEF Body

LEMMA SumInt ==
  ASSUME NEW S, IsFiniteSet(S), NEW f, \A x \in S : f[x] \in Int
  PROVE  Sum(f, S) \in Int
  <1> DEFINE Bad == {T \in SUBSET S : Sum(f, T) \notin Int}
  <1> SUFFICES ASSUME Bad # {}
               PROVE  FALSE
    OBVIOUS
  <1>1. PICK B \in Bad : \A C \in Bad : ~(C \subseteq B /\ C # B)
    <2>1. Bad \in SUBSET (SUBSET S)
      OBVIOUS
    <2> HIDE DEF Bad
    <2> QED BY <2>1, MinimalSet
  <1>2. Sum(f, B) = IF B = {} THEN 0 ELSE f[Pick(B)] + Sum(f, B \ {Pick(B)})
    BY FS_Subset, SumEquation
  <1>3. B # {} => Pick(B) \in S /\ B \ {Pick(B)} \in SUBSET S /\ Sum(f, B \ {Pick(B)}) \in Int
    BY <1>1, PickIsIn
  <1> QED BY <1>2, <1>3

\* Any member can be taken out of a sum.
LEMMA SumSplit ==
  ASSUME NEW S, IsFiniteSet(S), NEW f, \A x \in S : f[x] \in Int
  PROVE  \A x \in S : Sum(f, S) = f[x] + Sum(f, S \ {x})
  <1> DEFINE Splits(T) == \A x \in T : Sum(f, T) = f[x] + Sum(f, T \ {x})
             Bad == {T \in SUBSET S : ~Splits(T)}
  <1> SUFFICES ASSUME Bad # {}
               PROVE  FALSE
    OBVIOUS
  <1>1. PICK B \in Bad : \A C \in Bad : ~(C \subseteq B /\ C # B)
    <2>1. Bad \in SUBSET (SUBSET S)
      OBVIOUS
    <2> HIDE DEF Bad
    <2> QED BY <2>1, MinimalSet
  <1>2. \A T \in SUBSET S : T \subseteq B /\ T # B => Splits(T)
    BY <1>1
  <1> HIDE DEF Splits
  <1>3. PICK x \in B : Sum(f, B) # f[x] + Sum(f, B \ {x})
    BY DEF Splits
  <1>4. ASSUME NEW T \in SUBSET S
        PROVE  Sum(f, T) \in Int /\ (T # {} => Sum(f, T) = f[Pick(T)] + Sum(f, T \ {Pick(T)}))
    BY FS_Subset, SumEquation, SumInt
  <1> DEFINE y == Pick(B)
  <1>5. y \in B /\ Sum(f, B) = f[y] + Sum(f, B \ {y})
    BY <1>4, PickIsIn
  <1> HIDE DEF y
  <1>6. y # x
    BY <1>3, <1>5
  <1>7. Splits(B \ {y}) /\ Splits(B \ {x})
    BY <1>2, <1>3, <1>5
  <1>8. Sum(f, B \ {y}) = f[x] + Sum(f, (B \ {y}) \ {x})
    BY <1>3, <1>6, <1>7 DEF Splits
  <1>9. Sum(f, B \ {x}) = f[y] + Sum(f, (B \ {y}) \ {x})
    <2>1. (B \ {y}) \ {x} = (B \ {x}) \ {y}
      OBVIOUS
    <2> QED BY <1>5, <1>6, <1>7, <2>1 DEF Splits
  <1>10. (B \ {y}) \ {x} \in SUBSET S /\ f[x] \in Int /\ f[y] \in Int
    BY <1>3, <1>5
  <1>11. Sum(f, (B \ {y}) \ {x}) \in Int
    BY <1>4, <1>10
  <1> QED BY <1>3, <1>5, <1>8, <1>9, <1>10, <1>11

\* A sum only looks at the values of its members, and grows with them.
LEMMA SumMonotonic ==
  ASSUME NEW S, IsFiniteSet(S), NEW f, NEW g,
         \A x \in S : f[x] \in Int /\ g[x] \in Int /\ f[x] <= g[x]
  PROVE  Sum(f, S) <= Sum(g, S)
  <1> DEFINE Bad == {T \in SUBSET S : ~(Sum(f, T) <= Sum(g, T))}
  <1> SUFFICES ASSUME Bad # {}
               PROVE  FALSE
    OBVIOUS
  <1>1. PICK B \in Bad : \A C \in Bad : ~(C \subseteq B /\ C # B)
    <2>1. Bad \in SUBSET (SUBSET S)
      OBVIOUS
    <2> HIDE DEF Bad
    <2> QED BY <2>1, MinimalSet
  <1>2. ASSUME NEW T \in SUBSET S
        PROVE  /\ Sum(f, T) \in Int /\ Sum(g, T) \in Int
               /\ Sum(f, T) = IF T = {} THEN 0 ELSE f[Pick(T)] + Sum(f, T \ {Pick(T)})
               /\ Sum(g, T) = IF T = {} THEN 0 ELSE g[Pick(T)] + Sum(g, T \ {Pick(T)})
    BY FS_Subset, SumEquation, SumInt
  <1>3. B # {}
    BY <1>2
  <1> DEFINE y == Pick(B)
             R == B \ {y}
  <1>4. y \in S /\ R \in SUBSET S /\ Sum(f, R) <= Sum(g, R)
    BY <1>1, <1>3, PickIsIn
  <1>5. Sum(f, B) = f[y] + Sum(f, R) /\ Sum(g, B) = g[y] + Sum(g, R)
    BY <1>2, <1>3
  <1>6. Sum(f, R) \in Int /\ Sum(g, R) \in Int
    BY <1>2, <1>4
  <1> HIDE DEF y, R
  <1> QED BY <1>4, <1>5, <1>6

\* A sum follows its members' values.
LEMMA SumSame ==
  ASSUME NEW S, IsFiniteSet(S), NEW f, NEW g, \A x \in S : f[x] \in Int /\ g[x] = f[x]
  PROVE  Sum(g, S) = Sum(f, S)
  <1>1. Sum(f, S) <= Sum(g, S) /\ Sum(g, S) <= Sum(f, S)
    BY SumMonotonic
  <1>2. Sum(f, S) \in Int /\ Sum(g, S) \in Int
    BY SumInt
  <1> QED BY <1>1, <1>2

LEMMA SumChange ==
  ASSUME NEW S, IsFiniteSet(S), NEW f, NEW g, NEW x \in S, NEW n \in Int,
         \A y \in S : f[y] \in Int, g[x] = f[x] + n, \A y \in S \ {x} : g[y] = f[y]
  PROVE  Sum(g, S) = Sum(f, S) + n
  <1>1. IsFiniteSet(S \ {x}) /\ f[x] \in Int /\ \A y \in S : g[y] \in Int
    BY FS_Subset
  <1>2. Sum(g, S \ {x}) = Sum(f, S \ {x}) /\ Sum(f, S \ {x}) \in Int
    BY <1>1, SumSame, SumInt
  <1>3. Sum(f, S) = f[x] + Sum(f, S \ {x}) /\ Sum(g, S) = g[x] + Sum(g, S \ {x})
    BY <1>1, SumSplit
  <1> QED BY <1>1, <1>2, <1>3

LEMMA SumZero ==
  ASSUME NEW S, IsFiniteSet(S), NEW f, \A x \in S : f[x] = 0
  PROVE  Sum(f, S) = 0
  <1> DEFINE Bad == {T \in SUBSET S : Sum(f, T) # 0}
  <1> SUFFICES ASSUME Bad # {}
               PROVE  FALSE
    OBVIOUS
  <1>1. PICK B \in Bad : \A C \in Bad : ~(C \subseteq B /\ C # B)
    <2>1. Bad \in SUBSET (SUBSET S)
      OBVIOUS
    <2> HIDE DEF Bad
    <2> QED BY <2>1, MinimalSet
  <1>2. Sum(f, B) = IF B = {} THEN 0 ELSE f[Pick(B)] + Sum(f, B \ {Pick(B)})
    BY FS_Subset, SumEquation
  <1>3. B # {} => Pick(B) \in S /\ B \ {Pick(B)} \in SUBSET S /\ Sum(f, B \ {Pick(B)}) = 0
    BY <1>1, PickIsIn
  <1> QED BY <1>2, <1>3

-----------------------------------------------------------------------------
(* The totals of users and groups *)

\* Each user's total is what his connections have been charged.
Charged == \A u \in Users : userTotal[u] = Sum(credited, ConnsOf(u))
\* What a user was charged together with the group he is in.
Own == [u \in Users |-> userTotal[u] - brought[u]]
Covered == /\ Own \in [Users -> Nat]
           /\ \A g \in Groups : groupTotal[g] >= Sum(Own, UsersOf(g))

LEMMA MembersFinite ==
  /\ \A u \in Users : IsFiniteSet(ConnsOf(u)) /\ ConnsOf(u) \subseteq Conns
  /\ \A g \in Groups : IsFiniteSet(UsersOf(g)) /\ UsersOf(g) \subseteq Users
  <1>1. \A u \in Users : ConnsOf(u) \in SUBSET Conns
    BY DEF ConnsOf
  <1>2. \A g \in Groups : UsersOf(g) \in SUBSET Users
    BY DEF UsersOf
  <1> QED BY <1>1, <1>2, FiniteAssumption, FS_Subset

LEMMA TotalsInit == Init => Charged /\ Covered
  <1> SUFFICES ASSUME Init
               PROVE  Charged /\ Covered
    OBVIOUS
  <1>1. \A u \in Users : Sum(credited, ConnsOf(u)) = 0
    BY MembersFinite, SumZero DEF Init
  <1>2. Own \in [Users -> Nat] /\ \A u \in Users : Own[u] = 0
    BY DEF Init, Own
  <1>3. \A g \in Groups : Sum(Own, UsersOf(g)) = 0
    BY <1>2, MembersFinite, SumZero
  <1> QED BY <1>1, <1>2, <1>3 DEF Init, Charged, Covered

\* A charge goes to the connection, its user and the group it was admitted under.
LEMMA TotalsCharge ==
  ASSUME TypeOK, Charged, Covered, NEW c \in Conns, NEW n \in Nat, AddTraffic(c, n),
         UNCHANGED memberOf
  PROVE  Charged' /\ Covered'
  <1> DEFINE v == UserOf[c]
             h == billTo[c]
  <1>1. v \in Users /\ h \in Groups /\ c \in ConnsOf(v)
    BY ConnsAssumption DEF TypeOK, ConnsOf
  <1>2. /\ \A d \in Conns : credited[d] \in Int
        /\ \A u \in Users : userTotal[u] \in Int
        /\ \A g \in Groups : groupTotal[g] \in Int
    BY DEF TypeOK
  <1>3. /\ credited'[c] = credited[c] + n /\ \A d \in Conns \ {c} : credited'[d] = credited[d]
        /\ userTotal'[v] = userTotal[v] + n /\ \A u \in Users \ {v} : userTotal'[u] = userTotal[u]
        /\ groupTotal'[h] = groupTotal[h] + n /\ \A g \in Groups \ {h} : groupTotal'[g] = groupTotal[g]
    BY <1>1 DEF TypeOK, AddTraffic
  <1>5. /\ Own' \in [Users -> Nat]
        /\ Own'[v] = IF h = memberOf[v] THEN Own[v] + n ELSE Own[v]
        /\ \A u \in Users \ {v} : Own'[u] = Own[u]
    <2>1. brought'[v] = (IF h = memberOf[v] THEN brought[v] ELSE brought[v] + n)
          /\ \A u \in Users \ {v} : brought'[u] = brought[u]
      BY <1>1 DEF TypeOK, AddTraffic
    <2>2. \A u \in Users : /\ Own[u] = userTotal[u] - brought[u] /\ Own[u] \in Nat
                           /\ userTotal[u] \in Nat /\ brought[u] \in Nat
                           /\ Own'[u] = userTotal'[u] - brought'[u]
      BY DEF Own, Covered, TypeOK
    <2> HIDE DEF v, h
    <2>3. \A u \in Users \ {v} : Own'[u] = Own[u]
      BY <1>3, <2>1, <2>2
    <2>4. Own'[v] = IF h = memberOf[v] THEN Own[v] + n ELSE Own[v]
      BY <1>1, <1>3, <2>1, <2>2
    <2>5. \A u \in Users : Own'[u] \in Nat
      BY <1>1, <2>2, <2>3, <2>4
    <2> QED BY <2>3, <2>4, <2>5 DEF Own
  <1> HIDE DEF v, h
  <1>z. n \in Int
    OBVIOUS
  <1>4. ASSUME NEW u \in Users
        PROVE  userTotal'[u] = Sum(credited', ConnsOf(u))
    <2>1. userTotal[u] = Sum(credited, ConnsOf(u))
      BY DEF Charged
    <2>2. CASE u = v
      <3>1. /\ c \in ConnsOf(u) /\ IsFiniteSet(ConnsOf(u)) /\ credited'[c] = credited[c] + n
            /\ \A d \in ConnsOf(u) : credited[d] \in Int
            /\ \A d \in ConnsOf(u) \ {c} : credited'[d] = credited[d]
        BY <1>1, <1>2, <1>3, <2>2, MembersFinite
      <3>2. Sum(credited', ConnsOf(u)) = Sum(credited, ConnsOf(u)) + n
        <4> DEFINE A == ConnsOf(u)
                   before == credited
                   after == credited'
        <4>1. /\ c \in A /\ IsFiniteSet(A) /\ after[c] = before[c] + n
              /\ \A d \in A : before[d] \in Int
              /\ \A d \in A \ {c} : after[d] = before[d]
          BY <3>1
        <4> HIDE DEF A, before, after
        <4>2. Sum(after, A) = Sum(before, A) + n
          BY <1>z, <4>1, SumChange
        <4> QED BY <4>2 DEF A, before, after
      <3> QED BY <1>3, <2>1, <2>2, <3>2
    <2>3. CASE u # v
      <3>1. c \notin ConnsOf(u)
        BY <2>3 DEF ConnsOf, v
      <3>2. \A d \in ConnsOf(u) : credited[d] \in Int /\ credited'[d] = credited[d]
        BY <1>2, <1>3, <3>1, MembersFinite
      <3>3. Sum(credited', ConnsOf(u)) = Sum(credited, ConnsOf(u))
        BY <3>2, MembersFinite, SumSame
      <3> QED BY <1>3, <2>1, <2>3, <3>3
    <2> QED BY <2>2, <2>3
  <1>6. ASSUME NEW g \in Groups
        PROVE  groupTotal'[g] >= Sum(Own', UsersOf(g))
    <2>1. groupTotal[g] >= Sum(Own, UsersOf(g)) /\ Sum(Own, UsersOf(g)) \in Int
          /\ \A u \in UsersOf(g) : Own[u] \in Int
      BY MembersFinite, SumInt DEF Covered
    <2>2. CASE g = h /\ g = memberOf[v]
      <3>1. v \in UsersOf(g) /\ Own'[v] = Own[v] + n /\ \A u \in UsersOf(g) \ {v} : Own'[u] = Own[u]
        BY <1>1, <1>5, <2>2, MembersFinite DEF UsersOf
      <3>2. Sum(Own', UsersOf(g)) = Sum(Own, UsersOf(g)) + n
        <4> DEFINE A == UsersOf(g)
                   before == Own
                   after == Own'
        <4>1. /\ v \in A /\ IsFiniteSet(A) /\ after[v] = before[v] + n
              /\ \A u \in A : before[u] \in Int
              /\ \A u \in A \ {v} : after[u] = before[u]
          BY <2>1, <3>1, MembersFinite
        <4> HIDE DEF A, before, after
        <4>2. Sum(after, A) = Sum(before, A) + n
          BY <1>z, <4>1, SumChange
        <4> QED BY <4>2 DEF A, before, after
      <3> QED BY <1>2, <1>3, <2>1, <2>2, <3>2
    <2>3. CASE ~(g = h /\ g = memberOf[v])
      <3>1. \A u \in UsersOf(g) : Own'[u] = Own[u]
        BY <1>5, <2>3, MembersFinite DEF UsersOf
      <3>2. Sum(Own', UsersOf(g)) = Sum(Own, UsersOf(g))
        BY <2>1, <3>1, MembersFinite, SumSame
      <3>3. groupTotal'[g] >= groupTotal[g] /\ groupTotal[g] \in Int /\ groupTotal'[g] \in Int
        BY <1>1, <1>2, <1>3
      <3> QED BY <2>1, <3>2, <3>3
    <2> QED BY <2>2, <2>3
  <1>7. UNCHANGED memberOf => \A g \in Groups : UsersOf(g)' = UsersOf(g)
    BY DEF UsersOf
  <1> QED BY <1>4, <1>5, <1>6, <1>7 DEF Charged, Covered

\* A reset takes from its users what their connections were charged, and from
\* their group no more.
LEMMA TotalsClear ==
  ASSUME TypeOK, Charged, Covered, NEW us, ClearTotals(us), UNCHANGED memberOf,
         \A g \in Groups : groupTotal'[g] = groupTotal[g] \/ (groupTotal'[g] = 0 /\ UsersOf(g) \subseteq us)
  PROVE  Charged' /\ Covered'
  <1>1. /\ \A d \in Conns : credited[d] \in Int
        /\ \A u \in Users : userTotal[u] \in Nat
        /\ \A g \in Groups : groupTotal[g] \in Int
    BY DEF TypeOK
  <1>2. /\ \A d \in Conns : credited'[d] = IF UserOf[d] \in us THEN 0 ELSE credited[d]
        /\ \A u \in Users : userTotal'[u] = IF u \in us THEN 0 ELSE userTotal[u]
    BY DEF ClearTotals
  <1>3. ASSUME NEW u \in Users
        PROVE  userTotal'[u] = Sum(credited', ConnsOf(u))
    <2>1. CASE u \in us
      <3>1. \A d \in ConnsOf(u) : credited'[d] = 0
        BY <1>2, <2>1 DEF ConnsOf
      <3> QED BY <1>2, <2>1, <3>1, MembersFinite, SumZero
    <2>2. CASE u \notin us
      <3>1. \A d \in ConnsOf(u) : credited[d] \in Int /\ credited'[d] = credited[d]
        BY <1>1, <1>2, <2>2 DEF ConnsOf
      <3>2. Sum(credited', ConnsOf(u)) = Sum(credited, ConnsOf(u))
        BY <3>1, MembersFinite, SumSame
      <3> QED BY <1>2, <2>2, <3>2 DEF Charged
    <2> QED BY <2>1, <2>2
  <1>4. /\ Own \in [Users -> Nat] /\ Own' \in [Users -> Nat]
        /\ \A u \in Users : Own'[u] = IF u \in us THEN 0 ELSE Own[u]
    <2>1. \A u \in Users : brought'[u] = IF u \in us THEN 0 ELSE brought[u]
      BY DEF ClearTotals
    <2>2. /\ Own \in [Users -> Nat]
          /\ \A u \in Users : Own[u] = userTotal[u] - brought[u]
          /\ \A u \in Users : Own'[u] = userTotal'[u] - brought'[u]
      BY DEF Own, Covered
    <2>3. \A u \in Users : Own'[u] = IF u \in us THEN 0 ELSE Own[u]
      BY <1>2, <2>1, <2>2
    <2>4. \A u \in Users : Own'[u] \in Nat
      BY <2>2, <2>3
    <2> QED BY <2>2, <2>3, <2>4 DEF Own
  <1>5. ASSUME NEW g \in Groups
        PROVE  groupTotal'[g] >= Sum(Own', UsersOf(g))
    <2>1. \A u \in UsersOf(g) : Own[u] \in Nat /\ Own'[u] \in Nat /\ Own'[u] <= Own[u]
      BY <1>4, MembersFinite
    <2>2. CASE groupTotal'[g] = groupTotal[g]
      <3>1. Sum(Own', UsersOf(g)) <= Sum(Own, UsersOf(g))
        BY <2>1, MembersFinite, SumMonotonic
      <3>2. Sum(Own', UsersOf(g)) \in Int /\ Sum(Own, UsersOf(g)) \in Int
        BY <2>1, MembersFinite, SumInt
      <3> QED BY <1>1, <2>2, <3>1, <3>2 DEF Covered
    <2>3. CASE groupTotal'[g] = 0 /\ UsersOf(g) \subseteq us
      <3>1. \A u \in UsersOf(g) : Own'[u] = 0
        BY <1>4, <2>3, MembersFinite
      <3>2. Sum(Own', UsersOf(g)) = 0
        BY <3>1, MembersFinite, SumZero
      <3> QED BY <2>3, <3>2
    <2> QED BY <2>2, <2>3
  <1>6. \A g \in Groups : UsersOf(g)' = UsersOf(g)
    BY DEF UsersOf
  <1> QED BY <1>3, <1>4, <1>5, <1>6 DEF Charged, Covered

\* A move leaves the totals and takes the user with nothing of his own to the
\* new group.
LEMMA TotalsMove ==
  ASSUME TypeOK, Charged, Covered, NEW v \in Users, NEW h \in Groups, MoveUser(v, h)
  PROVE  Charged' /\ Covered'
  <1>1. Charged'
    BY DEF MoveUser, Charged
  <1>2. /\ Own \in [Users -> Nat] /\ Own' \in [Users -> Nat]
        /\ Own'[v] = 0 /\ \A u \in Users \ {v} : Own'[u] = Own[u]
    <2>1. /\ brought'[v] = userTotal[v] /\ \A u \in Users \ {v} : brought'[u] = brought[u]
          /\ userTotal' = userTotal /\ userTotal[v] \in Nat
      BY DEF MoveUser, TypeOK
    <2>2. /\ Own \in [Users -> Nat]
          /\ \A u \in Users : Own[u] = userTotal[u] - brought[u]
          /\ \A u \in Users : Own'[u] = userTotal'[u] - brought'[u]
      BY DEF Own, Covered
    <2>3. Own'[v] = 0 /\ \A u \in Users \ {v} : Own'[u] = Own[u]
      BY <2>1, <2>2
    <2>4. \A u \in Users : Own'[u] \in Nat
      BY <2>2, <2>3
    <2> QED BY <2>2, <2>3, <2>4 DEF Own
  <1>3. ASSUME NEW g \in Groups
        PROVE  groupTotal'[g] >= Sum(Own', UsersOf(g)')
    <2> DEFINE A == UsersOf(g)
               B == UsersOf(g)'
               before == Own
               after == Own'
    <2>1. /\ IsFiniteSet(A) /\ IsFiniteSet(A \ {v}) /\ IsFiniteSet(B) /\ IsFiniteSet(B \ {v})
          /\ A \subseteq Users /\ B \subseteq Users
      <3>1. A \in SUBSET Users /\ B \in SUBSET Users /\ A \ {v} \in SUBSET Users /\ B \ {v} \in SUBSET Users
        BY DEF UsersOf
      <3> QED BY <3>1, FiniteAssumption, FS_Subset
    <2>2. A \ {v} = B \ {v}
      BY DEF UsersOf, MoveUser, TypeOK
    <2>3. groupTotal'[g] = groupTotal[g] /\ groupTotal[g] \in Int /\ groupTotal[g] >= Sum(before, A)
      BY DEF MoveUser, TypeOK, Covered
    <2>4. /\ \A u \in Users : before[u] \in Nat /\ after[u] \in Nat
          /\ after[v] = 0 /\ \A u \in Users \ {v} : after[u] = before[u]
      BY <1>2
    <2> HIDE DEF A, B, before, after
    <2>5. Sum(after, A \ {v}) = Sum(before, A \ {v}) /\ Sum(before, A \ {v}) \in Int
      BY <2>1, <2>4, SumSame, SumInt
    <2>6. Sum(before, A) >= Sum(before, A \ {v})
      <3>1. CASE v \in A
        <4>1. Sum(before, A) = before[v] + Sum(before, A \ {v})
          BY <2>1, <2>4, <3>1, SumSplit
        <4> QED BY <2>4, <2>5, <4>1
      <3>2. CASE v \notin A
        <4>1. A \ {v} = A
          BY <3>2
        <4> QED BY <2>5, <4>1
      <3> QED BY <3>1, <3>2
    <2>7. Sum(after, B) = Sum(after, B \ {v})
      <3>1. CASE v \in B
        <4>1. Sum(after, B) = after[v] + Sum(after, B \ {v})
          BY <2>1, <2>4, <3>1, SumSplit
        <4>2. Sum(after, B \ {v}) \in Int
          BY <2>2, <2>5
        <4>3. after[v] = 0
          BY <2>4
        <4> QED BY <4>1, <4>2, <4>3
      <3>2. CASE v \notin B
        <4>1. B \ {v} = B
          BY <3>2
        <4> QED BY <4>1
      <3> QED BY <3>1, <3>2
    <2>8. Sum(before, A) \in Int
      BY <2>1, <2>4, SumInt
    <2>9. groupTotal'[g] >= Sum(after, B)
      BY <2>2, <2>3, <2>5, <2>6, <2>7, <2>8
    <2> QED BY <2>9 DEF after, B
  <1> QED BY <1>1, <1>2, <1>3 DEF Covered

LEMMA TotalsStep == IInv /\ Charged /\ Covered /\ [Next]_vars => Charged' /\ Covered'
  <1> SUFFICES ASSUME IInv, Charged, Covered, [Next]_vars
               PROVE  Charged' /\ Covered'
    OBVIOUS
  <1>1. TypeOK
    BY DEF IInv
  <1>2. ASSUME NEW c \in Conns, UnregBill(c)
        PROVE  Charged' /\ Covered'
    BY <1>1, <1>2, TotalsCharge DEF UnregBill, TypeOK, groupVars
  <1>3. ASSUME NEW c \in Conns, FlushBill(c)
        PROVE  Charged' /\ Covered'
    BY <1>1, <1>3, TotalsCharge DEF FlushBill, TypeOK, groupVars
  <1>4. CASE ResetStore
    BY <1>1, <1>4, TotalsClear DEF ResetStore, groupVars
  <1>5. ASSUME NEW g \in Groups, ResetGroup(g)
        PROVE  Charged' /\ Covered'
    <2>2. \A h \in Groups : groupTotal'[h] = groupTotal[h]
                           \/ (groupTotal'[h] = 0 /\ UsersOf(h) \subseteq UsersOf(g))
      BY <1>1, <1>5 DEF ResetGroup, TypeOK
    <2> QED BY <1>1, <1>5, <2>2, TotalsClear DEF ResetGroup, groupVars
  <1>6. ASSUME UNCHANGED <<totalVars, memberOf>>
        PROVE  Charged' /\ Covered'
    BY <1>6 DEF totalVars, Charged, Covered, Own, UsersOf
  <1>7. ASSUME NEW u \in Users, NEW g \in Groups, MoveUser(u, g)
        PROVE  Charged' /\ Covered'
    BY <1>1, <1>7, TotalsMove
  <1> QED BY <1>2, <1>3, <1>4, <1>5, <1>6, <1>7
          DEF Next, groupVars, Admit, Refuse, Register, Unregister, UnregDelete, UnregSwap, PumpRead, PumpMeter,
              PumpReturn, ResetLock, Flush, FlushStart, FlushSwap, FlushBilled, FlushSpare, FlushKill,
              FlushEnd, ResetUser, ResetUnlock, ResetZero, vars

LEMMA TotalsHold == Spec => [](IInv /\ Charged /\ Covered)
  <1>1. Init => Charged /\ Covered
    BY TotalsInit
  <1>2. IInv /\ Charged /\ Covered /\ [Next]_vars => (Charged /\ Covered)'
    BY TotalsStep
  <1> QED BY <1>1, <1>2, InductiveInv, PTL DEF Spec

\* A user's total is what his connections forwarded, less what they owe still and
\* what resets forgave, for any number of users and connections.
THEOREM UserTotals == Spec => []UserTotalIsExact
  <1>1. IInv /\ Charged => UserTotalIsExact
    <2> SUFFICES ASSUME IInv, Charged, NEW u \in Users
                 PROVE  userTotal[u] = Sum([c \in Conns |-> pumped[c] - forgiven[c] - Owed(c)], ConnsOf(u))
      BY DEF UserTotalIsExact, Sum
    <2> DEFINE owing == [c \in Conns |-> pumped[c] - forgiven[c] - Owed(c)]
    <2>1. ASSUME NEW c \in Conns
          PROVE  credited[c] \in Int /\ owing[c] = credited[c]
      <3>1. /\ credited[c] \in Int /\ forgiven[c] \in Int /\ Owed(c) \in Int
            /\ pumped[c] = credited[c] + forgiven[c] + Owed(c)
        BY DirsFact DEF IInv, TypeOK, Conservation, Owed, InFlight
      <3> HIDE DEF owing
      <3>2. owing[c] = pumped[c] - forgiven[c] - Owed(c)
        BY DEF owing
      <3> QED BY <3>1, <3>2
    <2> HIDE DEF owing
    <2>2. Sum(owing, ConnsOf(u)) = Sum(credited, ConnsOf(u))
      BY <2>1, MembersFinite, SumSame
    <2> QED BY <2>2 DEF Charged, owing
  <1> QED BY <1>1, TotalsHold, PTL

\* A group's total covers the totals of its members but for what they brought
\* along, whatever resets, charges and moves interleave.
THEOREM GroupTotals == Spec => []GroupCoversUsers
  <1>1. Covered => GroupCoversUsers
    BY DEF Covered, GroupCoversUsers, Sum, Own
  <1> QED BY <1>1, TotalsHold, PTL

-----------------------------------------------------------------------------
(* The ledger *)

Live == {c \in Conns : pc[c] \in {"idle", "dial", "pump"}}
Settled(c) == credited[c] + forgiven[c]

\* What each kind of step of the ledger asks of the detailed state.
LEMMA Stutter ==
  ASSUME Live' = Live, \A c \in Conns : Owed(c)' = Owed(c) /\ Settled(c)' = Settled(c)
  PROVE  UNCHANGED Accounts!ledger
BY DEF Accounts!ledger, Live, Settled

LEMMA ForwardStep ==
  ASSUME NEW c \in Conns, c \in Live, Live' = Live,
         Owed(c)' = Owed(c) + 1,
         \A x \in Conns : Settled(x)' = Settled(x) /\ (x # c => Owed(x)' = Owed(x))
  PROVE  Accounts!Forward(c)
BY DEF Accounts!Forward, Live, Settled

LEMMA SettleStep ==
  ASSUME NEW c \in Conns, NEW k \in Nat, Live' = Live,
         \A x \in Conns : Owed(x) \in Nat /\ Settled(x) \in Nat,
         k <= Owed(c), Owed(c)' = Owed(c) - k, Settled(c)' = Settled(c) + k,
         \A x \in Conns : x # c => Settled(x)' = Settled(x) /\ Owed(x)' = Owed(x)
  PROVE  Accounts!Settle(c) \/ UNCHANGED Accounts!ledger
  <1>1. CASE k = 0
    <2>1. \A x \in Conns : Owed(x)' = Owed(x) /\ Settled(x)' = Settled(x)
      BY <1>1
    <2> QED BY <2>1, Stutter
  <1>2. CASE k # 0
    <2>1. k \in 1 .. Owed(c)
      BY <1>2
    <2> QED BY <2>1 DEF Accounts!Settle, Live, Settled
  <1> QED BY <1>1, <1>2

LEMMA CloseStep ==
  ASSUME NEW c \in Conns, c \in Live, Live' = Live \ {c},
         \A x \in Conns : Owed(x)' = Owed(x) /\ Settled(x)' = Settled(x)
  PROVE  Accounts!Close(c)
BY DEF Accounts!Close, Live, Settled

LEMMA LedgerInit == Init => Accounts!Init
BY ConnsAssumption, DirsFact
   DEF Init, Accounts!Init, Owed, InFlight, FlushIdle

LEMMA LedgerStep == IInv /\ [Next]_vars => [Accounts!Next]_(Accounts!ledger)
  <1> SUFFICES ASSUME IInv, [Next]_vars PROVE Accounts!Next \/ UNCHANGED Accounts!ledger
    OBVIOUS
  <1> DEFINE Quiet == Live' = Live /\ \A x \in Conns : Owed(x)' = Owed(x) /\ Settled(x)' = Settled(x)
  <1> DEFINE Goal == Accounts!Next \/ UNCHANGED Accounts!ledger
  <1>0. /\ \A x \in Conns : /\ bytes[x]["up"] \in Nat /\ bytes[x]["down"] \in Nat
                             /\ credited[x] \in Nat /\ forgiven[x] \in Nat /\ taken[x] \in Nat
                             /\ Owed(x) \in Nat /\ Settled(x) \in Nat
        /\ flush.amount \in Nat
    BY DirsFact DEF IInv, TypeOK, Owed, InFlight, Settled
  <1>q. Quiet => Goal
    BY Stutter
  <1>1. ASSUME NEW c \in Conns, Admit(c) PROVE Quiet
    BY <1>1, <1>0
       DEF Admit, IInv, TypeOK, Stages, Live, Owed, InFlight, Settled, connVars, countVars, totalVars, resetVars, groupVars
  <1>2. ASSUME NEW c \in Conns, Register(c) PROVE Quiet
    BY <1>2, <1>0
       DEF Register, IInv, TypeOK, Stages, Live, Owed, InFlight, Settled, connVars, countVars, totalVars, resetVars, groupVars
  <1>3. ASSUME NEW c \in Conns, NEW d \in Dirs, PumpRead(c, d) PROVE Quiet
    BY <1>3, <1>0
       DEF PumpRead, IInv, TypeOK, Stages, Live, Owed, InFlight, Settled, connVars, countVars, totalVars, resetVars, groupVars
  <1>4. ASSUME NEW c \in Conns, NEW d \in Dirs, PumpReturn(c, d) PROVE Quiet
    BY <1>4, <1>0
       DEF PumpReturn, IInv, TypeOK, Stages, Live, Owed, InFlight, Settled, connVars, countVars, totalVars, resetVars, groupVars
  <1>5. ASSUME NEW c \in Conns, NEW d \in Dirs, UnregSwap(c, d) PROVE Quiet
    <2>1. /\ Live' = Live
          /\ UNCHANGED <<credited, forgiven, flush>>
      BY <1>5 DEF UnregSwap, Swapping, AfterSwap, IInv, TypeOK, Live, totalVars, resetVars, groupVars
    <2>2. /\ bytes'[c]["up"] + bytes'[c]["down"] + bytes[c][d] = bytes[c]["up"] + bytes[c]["down"]
          /\ bytes[c][d] \in Nat /\ bytes'[c]["up"] \in Nat /\ bytes'[c]["down"] \in Nat
          /\ \A x \in Conns : x # c => bytes'[x] = bytes[x]
      BY <1>5, ZeroCounter DEF UnregSwap, IInv
    <2>3. /\ taken'[c] = taken[c] + bytes[c][d]
          /\ \A x \in Conns : x # c => taken'[x] = taken[x]
      BY <1>5 DEF UnregSwap, IInv, TypeOK
    <2>4. \A x \in Conns : InFlight(x)' = InFlight(x) /\ InFlight(x) \in Nat
      BY <2>1, <1>0 DEF InFlight
    <2>5. Owed(c)' = Owed(c)
      BY <2>2, <2>3, <2>4, <1>0 DEF Owed
    <2>6. \A x \in Conns : x # c => Owed(x)' = Owed(x)
      BY <2>2, <2>3, <2>4 DEF Owed
    <2> QED BY <2>1, <2>5, <2>6 DEF Settled
  <1>6. ASSUME FlushStart PROVE Quiet
    BY <1>6, <1>0
       DEF FlushStart, IInv, TypeOK, Stages, Live, Owed, InFlight, Settled, connVars, countVars, totalVars, resetVars, groupVars
  <1>7. ASSUME NEW c \in Conns, NEW d \in Dirs, FlushSwap(c, d) PROVE Quiet
    <2>1. /\ Live' = Live
          /\ UNCHANGED <<credited, forgiven, taken>>
      BY <1>7 DEF FlushSwap, Live, connVars, totalVars, resetVars, groupVars
    <2>2. /\ bytes'[c]["up"] + bytes'[c]["down"] + bytes[c][d] = bytes[c]["up"] + bytes[c]["down"]
          /\ bytes[c][d] \in Nat /\ bytes'[c]["up"] \in Nat /\ bytes'[c]["down"] \in Nat
          /\ \A x \in Conns : x # c => bytes'[x] = bytes[x]
      BY <1>7, ZeroCounter DEF FlushSwap, IInv
    <2>3. /\ InFlight(c)' = InFlight(c) + bytes[c][d]
          /\ InFlight(c) \in Nat
          /\ \A x \in Conns : x # c => InFlight(x)' = InFlight(x)
      BY <1>7, <1>0, ConnsAssumption DEF FlushSwap, NextCounter, InFlight, IInv, TypeOK, Stages
    <2>4. Owed(c)' = Owed(c)
      BY <2>1, <2>2, <2>3, <1>0 DEF Owed
    <2>5. \A x \in Conns : x # c => Owed(x)' = Owed(x)
      BY <2>1, <2>2, <2>3 DEF Owed
    <2> QED BY <2>1, <2>4, <2>5 DEF Settled
  <1>8. ASSUME FlushBilled PROVE Quiet
    BY <1>8, <1>0
       DEF FlushBilled, IInv, TypeOK, Stages, Live, Owed, InFlight, Settled, connVars, countVars, totalVars, resetVars, groupVars
  <1>9. ASSUME NEW u \in Users, FlushSpare(u) PROVE Quiet
    BY <1>9, <1>0
       DEF FlushSpare, IInv, TypeOK, Stages, Live, Owed, InFlight, Settled, connVars, countVars, totalVars, resetVars, groupVars
  <1>10. ASSUME NEW u \in Users, FlushKill(u) PROVE Quiet
    BY <1>10, <1>0
       DEF FlushKill, IInv, TypeOK, Stages, Live, Owed, InFlight, Settled, connVars, countVars, totalVars, resetVars, groupVars
  <1>11. ASSUME FlushEnd PROVE Quiet
    BY <1>11, <1>0
       DEF FlushEnd, FlushIdle, IInv, TypeOK, Stages, Live, Owed, InFlight, Settled, connVars, countVars, totalVars, resetVars, groupVars
  <1>12. ASSUME NEW u \in Users, ResetLock(u) PROVE Quiet
    BY <1>12, <1>0
       DEF ResetLock, IInv, TypeOK, Stages, Live, Owed, InFlight, Settled, connVars, countVars, totalVars, resetVars, groupVars
  <1>13. ASSUME ResetUnlock PROVE Quiet
    BY <1>13, <1>0
       DEF ResetUnlock, IInv, TypeOK, Stages, Live, Owed, InFlight, Settled, connVars, countVars, totalVars, resetVars, groupVars
  <1>14. ASSUME ResetStore PROVE Quiet
    BY <1>14, <1>0
       DEF ResetStore, ClearTotals, IInv, TypeOK, Stages, Live, Owed, InFlight, Settled, connVars, countVars, totalVars, resetVars, groupVars
  <1>15. ASSUME NEW g \in Groups, ResetGroup(g) PROVE Quiet
    BY <1>15, <1>0
       DEF ResetGroup, ClearTotals, IInv, TypeOK, Stages, Live, Owed, InFlight, Settled, connVars, countVars, totalVars, resetVars, groupVars
  <1>23. ASSUME NEW u \in Users, NEW g \in Groups, MoveUser(u, g) PROVE Quiet
    BY <1>23, <1>0
       DEF MoveUser, IInv, TypeOK, Stages, Live, Owed, InFlight, Settled, connVars, countVars, resetVars
  <1>16. ASSUME UNCHANGED vars PROVE Quiet
    BY <1>16 DEF vars, connVars, countVars, totalVars, resetVars, groupVars, Live, Owed, InFlight, Settled
  <1>17. ASSUME NEW c \in Conns, Refuse(c) PROVE Goal
    <2>1. c \in Live /\ Live' = Live \ {c}
      BY <1>17 DEF Refuse, IInv, TypeOK, Live
    <2>2. \A x \in Conns : Owed(x)' = Owed(x) /\ Settled(x)' = Settled(x)
      BY <1>17 DEF Refuse, connVars, countVars, totalVars, resetVars, groupVars, Owed, InFlight, Settled
    <2> QED BY <2>1, <2>2, CloseStep DEF Accounts!Next
  <1>18. ASSUME NEW c \in Conns, UnregDelete(c) PROVE Goal
    <2>1. c \in Live /\ Live' = Live \ {c}
      BY <1>18 DEF UnregDelete, IInv, TypeOK, Live
    <2>2. \A x \in Conns : Owed(x)' = Owed(x) /\ Settled(x)' = Settled(x)
      BY <1>18 DEF UnregDelete, connVars, countVars, totalVars, resetVars, groupVars, Owed, InFlight, Settled
    <2> QED BY <2>1, <2>2, CloseStep DEF Accounts!Next
  <1>19. ASSUME NEW c \in Conns, NEW d \in Dirs, PumpMeter(c, d) PROVE Goal
    <2>1. c \in Live /\ Live' = Live
      BY <1>19 DEF PumpMeter, IInv, Stages, Live
    <2>2. /\ bytes'[c][d] = bytes[c][d] + 1
          /\ \A e \in Dirs : e # d => bytes'[c][e] = bytes[c][e]
          /\ \A x \in Conns : x # c => bytes'[x] = bytes[x]
      BY <1>19 DEF PumpMeter, IInv, TypeOK
    <2>3. UNCHANGED <<taken, credited, forgiven, flush>>
      BY <1>19 DEF PumpMeter, connVars, countVars, totalVars, resetVars, groupVars
    <2>4. bytes'[c]["up"] + bytes'[c]["down"] = bytes[c]["up"] + bytes[c]["down"] + 1
          /\ bytes'[c]["up"] \in Nat /\ bytes'[c]["down"] \in Nat
      BY <2>2, <1>0, DirsFact
    <2>5. Owed(c)' = Owed(c) + 1
      <3>1. InFlight(c)' = InFlight(c) /\ InFlight(c) \in Nat
        BY <2>3, <1>0 DEF InFlight
      <3> QED BY <3>1, <2>3, <2>4, <1>0 DEF Owed
    <2>6. \A x \in Conns : Settled(x)' = Settled(x) /\ (x # c => Owed(x)' = Owed(x))
      BY <2>2, <2>3 DEF Settled, Owed, InFlight
    <2> QED BY <2>1, <2>5, <2>6, ForwardStep DEF Accounts!Next
  <1>20. ASSUME NEW c \in Conns, UnregBill(c) PROVE Goal
    <2>1. Live' = Live
      BY <1>20 DEF UnregBill, IInv, TypeOK, Live
    <2>2. /\ credited'[c] = credited[c] + taken[c] /\ taken'[c] = 0
          /\ \A x \in Conns : x # c => credited'[x] = credited[x] /\ taken'[x] = taken[x]
          /\ UNCHANGED <<bytes, forgiven, flush>>
      BY <1>20 DEF UnregBill, AddTraffic, IInv, TypeOK, connVars, countVars, totalVars, resetVars, groupVars
    <2>3. InFlight(c)' = InFlight(c) /\ InFlight(c) \in Nat
      BY <2>2, <1>0 DEF InFlight
    <2>4. taken[c] <= Owed(c) /\ Owed(c)' = Owed(c) - taken[c]
      BY <2>2, <2>3, <1>0 DEF Owed
    <2>5. Settled(c)' = Settled(c) + taken[c]
      BY <2>2, <1>0 DEF Settled
    <2>6. \A x \in Conns : x # c => Settled(x)' = Settled(x) /\ Owed(x)' = Owed(x)
      BY <2>2 DEF Settled, Owed, InFlight
    <2> QED BY <1>0, <2>1, <2>4, <2>5, <2>6, SettleStep DEF Accounts!Next
  <1>21. ASSUME NEW c \in Conns, FlushBill(c) PROVE Goal
    <2>1. Live' = Live
      BY <1>21 DEF FlushBill, connVars, countVars, totalVars, resetVars, groupVars, Live
    <2>2. /\ credited'[c] = credited[c] + flush.amount
          /\ flush.conn = c /\ flush'.conn = None
          /\ \A x \in Conns : x # c => credited'[x] = credited[x]
          /\ UNCHANGED <<bytes, taken, forgiven>>
      BY <1>21 DEF FlushBill, AddTraffic, IInv, TypeOK, connVars, countVars, totalVars, resetVars, groupVars
    <2>3. flush.amount <= Owed(c) /\ Owed(c)' = Owed(c) - flush.amount
      BY <2>2, <1>0, ConnsAssumption DEF Owed, InFlight
    <2>4. Settled(c)' = Settled(c) + flush.amount
      BY <2>2, <1>0 DEF Settled
    <2>5. \A x \in Conns : x # c => Settled(x)' = Settled(x) /\ Owed(x)' = Owed(x)
      BY <2>2, ConnsAssumption DEF Settled, Owed, InFlight
    <2> QED BY <1>0, <2>1, <2>3, <2>4, <2>5, SettleStep DEF Accounts!Next
  <1>22. ASSUME NEW c \in Conns, NEW d \in Dirs, ResetZero(c, d) PROVE Goal
    <2> DEFINE k == bytes[c][d]
    <2>1. Live' = Live
      BY <1>22 DEF ResetZero, connVars, Live
    <2>2. /\ bytes'[c]["up"] + bytes'[c]["down"] + bytes[c][d] = bytes[c]["up"] + bytes[c]["down"]
          /\ bytes[c][d] \in Nat /\ bytes'[c]["up"] \in Nat /\ bytes'[c]["down"] \in Nat
          /\ \A x \in Conns : x # c => bytes'[x] = bytes[x]
      BY <1>22, ZeroCounter DEF ResetZero, IInv
    <2>3. /\ forgiven'[c] = forgiven[c] + bytes[c][d]
          /\ \A x \in Conns : x # c => forgiven'[x] = forgiven[x]
          /\ UNCHANGED <<taken, credited, flush>>
      BY <1>22 DEF ResetZero, IInv, TypeOK, totalVars
    <2>4. \A x \in Conns : InFlight(x)' = InFlight(x) /\ InFlight(x) \in Nat
      BY <2>3, <1>0 DEF InFlight
    <2>5. k <= Owed(c) /\ Owed(c)' = Owed(c) - k
      BY <2>2, <2>3, <2>4, <1>0 DEF Owed
    <2>6. Settled(c)' = Settled(c) + k
      BY <2>2, <2>3, <1>0 DEF Settled
    <2>7. \A x \in Conns : x # c => Settled(x)' = Settled(x) /\ Owed(x)' = Owed(x)
      BY <2>2, <2>3, <2>4 DEF Settled, Owed
    <2>8. k \in Nat
      BY <2>2
    <2> HIDE DEF k
    <2> QED BY <1>0, <2>1, <2>5, <2>6, <2>7, <2>8, SettleStep DEF Accounts!Next
  <1> HIDE DEF Quiet, Goal
  <1>g. Goal
    BY <1>q, <1>1, <1>2, <1>3, <1>4, <1>5, <1>6, <1>7, <1>8, <1>9, <1>10,
       <1>11, <1>12, <1>13, <1>14, <1>15, <1>16, <1>17, <1>18, <1>19, <1>20, <1>21, <1>22, <1>23
       DEF Next, Flush, Unregister, ResetUser
  <1> QED BY <1>g DEF Goal

\* The accounting of relay.go implements the ledger: every interleaving of
\* pumps, flush, unregister and resets looks like units being forwarded, settled
\* and connections being closed, one at a time.
THEOREM LedgerImplemented == Spec => ImplementsLedger
BY InductiveInv, LedgerInit, LedgerStep, PTL DEF Spec, ImplementsLedger, Accounts!Spec

-----------------------------------------------------------------------------
(* The limit: what holds of buckets and callers *)

LEMMA CapNat == Cap \in Nat /\ Rate <= Cap
BY RateAssumption DEF Cap

LEMMA RefilledType ==
    ASSUME BucketTypeOK, NEW b \in Buckets, last[b] <= now
    PROVE  Refilled(b) \in 0 .. Cap /\ Refilled(b) <= tokens[b] + (now - last[b])
BY CapNat DEF BucketTypeOK, Refilled, Lesser

-----------------------------------------------------------------------------
(* The inductive invariant *)

\* Clocks run forward, and a bucket in use has been made.
Clocks ==
    /\ current # NoBucket => born[current] # NoBucket
    /\ \A c \in Callers : bucket[c] # NoBucket => born[bucket[c]] # NoBucket
    /\ \A b \in Buckets : last[b] <= now
    /\ \A b \in Made : born[b] <= last[b]
    /\ \A b \in Buckets \ Made : drawn[b] = 0

\* What a bucket has given out and what it holds came from its first second and
\* from the time until it last accrued.
Accrued == \A b \in Made : drawn[b] + tokens[b] <= Rate + (last[b] - born[b])

\* The sleeps of a caller do not overlap: all before this one had ended when it
\* began.
Sleeps ==
    \A c \in Callers :
        /\ slept[c] <= now
        /\ ~Awake(c) => slept[c] + missing[c] <= due[c]

BucketInv == BucketTypeOK /\ Clocks /\ Accrued /\ Sleeps

LEMMA BucketInvInit == BucketInit => BucketInv
<1> SUFFICES ASSUME BucketInit PROVE BucketInv
    OBVIOUS
<1> USE DEF BucketInit
<1>1. BucketTypeOK
    BY CapNat DEF BucketTypeOK
<1>2. Clocks /\ Accrued /\ Sleeps
    BY DEF Clocks, Accrued, Sleeps, Made, Awake
<1> QED BY <1>1, <1>2 DEF BucketInv

-----------------------------------------------------------------------------
(* Types *)

LEMMA WaitType ==
    ASSUME BucketInv, NEW c \in Callers, Wait(c)
    PROVE  BucketTypeOK'
<1> USE DEF BucketInv, BucketTypeOK
<1> DEFINE b == bucket[c]
<1>1. b \in Buckets /\ last[b] <= now
    BY DEF Wait, Clocks
<1>2. PICK n \in 1 .. MaxAsk : TakeAll(c, b, n) \/ TakeSome(c, b, n)
    BY DEF Wait
<1>3. Refilled(b) \in 0 .. Cap /\ n \in Nat
    BY <1>1, <1>2, RefilledType, BoundAssumption
<1>4. CASE TakeAll(c, b, n)
    BY <1>1, <1>3, <1>4, CapNat DEF Wait, TakeAll
<1>5. CASE TakeSome(c, b, n)
    BY <1>1, <1>3, <1>5, CapNat DEF Wait, TakeSome
<1> QED BY <1>2, <1>4, <1>5

LEMMA BucketTypeStep == BucketInv /\ [BucketNext]_limitVars => BucketTypeOK'
<1> SUFFICES ASSUME BucketInv, [BucketNext]_limitVars PROVE BucketTypeOK'
    OBVIOUS
<1> USE DEF BucketInv, BucketTypeOK, bucketVars, callerVars
<1>1. ASSUME NEW c \in Callers, OpenKnown(c) PROVE BucketTypeOK'
    BY <1>1 DEF OpenKnown
<1>2. ASSUME NEW c \in Callers, OpenNew(c) PROVE BucketTypeOK'
    BY <1>2, CapNat, RateAssumption DEF OpenNew
<1>3. ASSUME NEW c \in Callers, Close(c) PROVE BucketTypeOK'
    BY <1>3 DEF Close
<1>4. ASSUME NEW c \in Callers, Wait(c) PROVE BucketTypeOK'
    BY <1>4, WaitType
<1>5. ASSUME NEW c \in Callers, Wake(c) PROVE BucketTypeOK'
    BY <1>5 DEF Wake
<1>6. CASE Reload
    BY <1>6 DEF Reload
<1>7. CASE Tick
    BY <1>7 DEF Tick
<1>8. CASE UNCHANGED limitVars
    BY <1>8 DEF limitVars
<1> QED BY <1>1, <1>2, <1>3, <1>4, <1>5, <1>6, <1>7, <1>8 DEF BucketNext

-----------------------------------------------------------------------------
(* Buckets *)

LEMMA ClocksStep == BucketInv /\ [BucketNext]_limitVars => Clocks'
<1> SUFFICES ASSUME BucketInv, [BucketNext]_limitVars PROVE Clocks'
    OBVIOUS
<1> USE DEF BucketInv, BucketTypeOK, Clocks, Made, bucketVars, callerVars
<1>1. ASSUME NEW c \in Callers, OpenKnown(c) PROVE Clocks'
    BY <1>1 DEF OpenKnown
<1>2. ASSUME NEW c \in Callers, OpenNew(c) PROVE Clocks'
    BY <1>2, NoBucketAssumption DEF OpenNew
<1>3. ASSUME NEW c \in Callers, Close(c) PROVE Clocks'
    BY <1>3 DEF Close
<1>4. ASSUME NEW c \in Callers, Wait(c) PROVE Clocks'
    <2>1. PICK n \in 1 .. MaxAsk : TakeAll(c, bucket[c], n) \/ TakeSome(c, bucket[c], n)
        BY <1>4 DEF Wait
    <2>2. /\ last' = [last EXCEPT ![bucket[c]] = now]
          /\ \A a \in Buckets : a # bucket[c] => drawn'[a] = drawn[a]
        BY <2>1 DEF TakeAll, TakeSome
    <2>3. bucket[c] \in Made
        BY <1>4 DEF Wait
    <2> QED BY <1>4, <2>2, <2>3 DEF Wait
<1>5. ASSUME NEW c \in Callers, Wake(c) PROVE Clocks'
    BY <1>5 DEF Wake
<1>6. CASE Reload
    BY <1>6 DEF Reload
<1>7. CASE Tick
    BY <1>7 DEF Tick
<1>8. CASE UNCHANGED limitVars
    BY <1>8 DEF limitVars
<1> QED BY <1>1, <1>2, <1>3, <1>4, <1>5, <1>6, <1>7, <1>8 DEF BucketNext

LEMMA AccruedStep == BucketInv /\ [BucketNext]_limitVars => Accrued'
<1> SUFFICES ASSUME BucketInv, [BucketNext]_limitVars PROVE Accrued'
    OBVIOUS
<1> USE DEF BucketInv, BucketTypeOK, Accrued, Made, bucketVars, callerVars
<1>1. ASSUME NEW c \in Callers, OpenKnown(c) PROVE Accrued'
    BY <1>1 DEF OpenKnown
<1>2. ASSUME NEW c \in Callers, OpenNew(c) PROVE Accrued'
    BY <1>2, RateAssumption, NoBucketAssumption DEF OpenNew, Clocks
<1>3. ASSUME NEW c \in Callers, Close(c) PROVE Accrued'
    BY <1>3 DEF Close
<1>4. ASSUME NEW c \in Callers, Wait(c) PROVE Accrued'
    <2> DEFINE b == bucket[c]
    <2>1. b \in Made /\ last[b] <= now /\ born[b] <= last[b]
        BY <1>4 DEF Wait, Clocks
    <2>2. PICK n \in 1 .. MaxAsk : TakeAll(c, b, n) \/ TakeSome(c, b, n)
        BY <1>4 DEF Wait
    <2>3. /\ Refilled(b) \in Nat
          /\ Refilled(b) <= tokens[b] + (now - last[b])
          /\ n \in Nat
        BY <2>1, <2>2, RefilledType, CapNat, BoundAssumption
    <2>4. /\ drawn'[b] + tokens'[b] = drawn[b] + Refilled(b)
          /\ last'[b] = now
        BY <2>1, <2>2, <2>3 DEF TakeAll, TakeSome
    <2>5. \A a \in Buckets : a # b => /\ drawn'[a] = drawn[a]
                                      /\ tokens'[a] = tokens[a]
                                      /\ last'[a] = last[a]
        BY <2>2 DEF TakeAll, TakeSome
    <2>6. born' = born
        BY <1>4 DEF Wait
    <2>7. drawn[b] + tokens[b] <= Rate + (last[b] - born[b])
        BY <2>1
    <2>8. drawn'[b] + tokens'[b] <= Rate + (last'[b] - born[b])
        BY <2>1, <2>3, <2>4, <2>7, RateAssumption
    <2> QED BY <2>5, <2>6, <2>8
<1>5. ASSUME NEW c \in Callers, Wake(c) PROVE Accrued'
    BY <1>5 DEF Wake
<1>6. CASE Reload
    BY <1>6 DEF Reload
<1>7. CASE Tick
    BY <1>7 DEF Tick
<1>8. CASE UNCHANGED limitVars
    BY <1>8 DEF limitVars
<1> QED BY <1>1, <1>2, <1>3, <1>4, <1>5, <1>6, <1>7, <1>8 DEF BucketNext

-----------------------------------------------------------------------------
(* Callers *)

LEMMA SleepsStep == BucketInv /\ [BucketNext]_limitVars => Sleeps'
<1> SUFFICES ASSUME BucketInv, [BucketNext]_limitVars PROVE Sleeps'
    OBVIOUS
<1> USE DEF BucketInv, BucketTypeOK, Sleeps, Awake, bucketVars, callerVars
<1>1. ASSUME NEW c \in Callers, OpenKnown(c) \/ OpenNew(c) \/ Close(c) PROVE Sleeps'
    BY <1>1 DEF OpenKnown, OpenNew, Close
<1>2. ASSUME NEW c \in Callers, Wait(c) PROVE Sleeps'
    <2> DEFINE b == bucket[c]
    <2>1. b \in Buckets /\ last[b] <= now
        BY <1>2 DEF Wait, Clocks
    <2>2. PICK n \in 1 .. MaxAsk : TakeAll(c, b, n) \/ TakeSome(c, b, n)
        BY <1>2 DEF Wait
    <2>3. Refilled(b) \in Nat /\ n \in Nat
        BY <2>1, <2>2, RefilledType, CapNat, BoundAssumption
    <2>4. CASE TakeAll(c, b, n)
        BY <1>2, <2>4 DEF Wait, TakeAll
    <2>5. CASE TakeSome(c, b, n)
        BY <1>2, <2>3, <2>5 DEF Wait, TakeSome
    <2> QED BY <2>2, <2>4, <2>5
<1>3. ASSUME NEW c \in Callers, Wake(c) PROVE Sleeps'
    BY <1>3 DEF Wake
<1>4. CASE Reload
    BY <1>4 DEF Reload
<1>5. CASE Tick
    BY <1>5 DEF Tick
<1>6. CASE UNCHANGED limitVars
    BY <1>6 DEF limitVars
<1> QED BY <1>1, <1>2, <1>3, <1>4, <1>5, <1>6 DEF BucketNext

-----------------------------------------------------------------------------
(* Theorems *)

LEMMA BucketStep == BucketInv /\ [BucketNext]_limitVars => BucketInv'
BY BucketTypeStep, ClocksStep, AccruedStep, SleepsStep DEF BucketInv

LEMMA BucketInvHolds == BucketSpec => []BucketInv
BY BucketInvInit, BucketStep, PTL DEF BucketSpec

LEMMA WithinTokens ==
    ASSUME BucketInv
    PROVE  NeverOverdrawn
<1> SUFFICES ASSUME NEW b \in Made PROVE drawn[b] <= Rate + (now - born[b])
    BY DEF NeverOverdrawn
<1>1. /\ b \in Buckets /\ born[b] \in Nat /\ now \in Nat /\ last[b] \in Nat
      /\ drawn[b] \in Nat /\ tokens[b] \in Nat
    BY CapNat DEF BucketInv, BucketTypeOK, Made
<1>2. last[b] <= now /\ drawn[b] + tokens[b] <= Rate + (last[b] - born[b])
    BY <1>1 DEF BucketInv, Clocks, Accrued
<1> QED BY <1>1, <1>2, RateAssumption

\* The state keeps its types: the tokens of a bucket stay between zero and its
\* capacity whoever waits, opens, closes or reloads.
THEOREM BucketTypeCorrect == BucketSpec => []BucketTypeOK
<1>1. BucketInv => BucketTypeOK
    BY DEF BucketInv
<1> QED BY <1>1, BucketInvHolds, PTL

\* Whatever its rate and however many call it, a bucket gives out no more than its
\* first second and the time since.
THEOREM BucketNotOverdrawn == BucketSpec => []NeverOverdrawn
BY BucketInvHolds, WithinTokens, PTL

\* What a caller gets without a token it pays with time of its own, so one caller
\* never gets more than the rate in this way, whatever the others do.
THEOREM CallerSleeps == BucketSpec => []SleepPays
<1>1. BucketInv => SleepPays
    BY DEF BucketInv, Sleeps, SleepPays
<1> QED BY <1>1, BucketInvHolds, PTL

-----------------------------------------------------------------------------
(* The limit: all that Wait lets through *)

\* What a sleeping caller has drawn already, of what it asked for.
Held == [c \in Callers |-> asked[c] - missing[c]]

\* Nothing passes that no bucket gave out and nobody slept for.
LetThrough ==
    /\ \A c \in Callers : IF Awake(c) THEN asked[c] = 0 ELSE missing[c] <= asked[c]
    /\ passed + Sum(Held, Callers) = Sum(drawn, Made) + Sum(slept, Callers)

LEMMA SharersFinite ==
    IsFiniteSet(Callers) /\ IsFiniteSet(Made) /\ Made \in SUBSET Buckets
<1>1. Made \in SUBSET Buckets
    BY DEF Made
<1> QED BY <1>1, CallersAssumption, FS_Subset

LEMMA ShareTypes ==
    ASSUME BucketTypeOK
    PROVE  /\ \A c \in Callers : Held[c] \in Int /\ slept[c] \in Int
           /\ \A b \in Buckets : drawn[b] \in Int
           /\ Sum(Held, Callers) \in Int /\ Sum(slept, Callers) \in Int
           /\ Sum(drawn, Made) \in Int
<1>1. /\ \A c \in Callers : Held[c] \in Int /\ slept[c] \in Int
      /\ \A b \in Buckets : drawn[b] \in Int
    BY DEF BucketTypeOK, Held
<1>2. Sum(Held, Callers) \in Int /\ Sum(slept, Callers) \in Int
    BY <1>1, SharersFinite, SumInt
<1>3. Sum(drawn, Made) \in Int
    BY <1>1, SharersFinite, SumInt
<1> QED BY <1>1, <1>2, <1>3

LEMMA LetThroughInit == BucketInit => LetThrough
<1> SUFFICES ASSUME BucketInit PROVE LetThrough
    OBVIOUS
<1>1. Sum(Held, Callers) = 0 /\ Sum(slept, Callers) = 0
    BY SharersFinite, SumZero DEF BucketInit, Held
<1>2. Sum(drawn, Made) = 0
    BY SharersFinite, SumZero DEF BucketInit, Made
<1> QED BY <1>1, <1>2 DEF LetThrough, BucketInit, Awake

\* A bucket that is made has given out nothing.
LEMMA MakingDrawsNothing ==
    ASSUME BucketInv, NEW c \in Callers, OpenNew(c)
    PROVE  Sum(drawn', Made') = Sum(drawn, Made)
<1>1. PICK b \in Buckets : born[b] = NoBucket /\ born' = [born EXCEPT ![b] = now]
    BY DEF OpenNew
<1>2. now \in Nat /\ drawn' = drawn
    BY DEF OpenNew, BucketInv, BucketTypeOK
<1>3. Made' = Made \cup {b} /\ b \notin Made
    BY <1>1, <1>2, NoBucketAssumption DEF Made, BucketInv, BucketTypeOK
<1>4. drawn[b] = 0
    BY <1>1, <1>3 DEF BucketInv, Clocks
<1> DEFINE S == Made \cup {b}
<1>5. IsFiniteSet(S) /\ S \in SUBSET Buckets
    <2>1. S \in SUBSET Buckets
        BY SharersFinite
    <2> QED BY <2>1, CallersAssumption, FS_Subset
<1>6. b \in S /\ S \ {b} = Made
    BY <1>3
<1>7. \A x \in S : drawn[x] \in Int
    BY <1>5, ShareTypes DEF BucketInv
<1>8. Sum(drawn, Made) \in Int
    BY ShareTypes DEF BucketInv
<1> HIDE DEF S
<1>9. Sum(drawn, S) = drawn[b] + Sum(drawn, S \ {b})
    BY <1>5, <1>6, <1>7, SumSplit
<1>10. Sum(drawn, S) = Sum(drawn, Made)
    BY <1>4, <1>6, <1>8, <1>9
<1> QED BY <1>2, <1>3, <1>10 DEF S

\* What a call of Wait draws adds to the sum over the buckets.
LEMMA DrawingAdds ==
    ASSUME BucketInv, NEW b \in Made, NEW n \in Int, Made' = Made,
           drawn' = [drawn EXCEPT ![b] = @ + n]
    PROVE  Sum(drawn', Made') = Sum(drawn, Made) + n
<1> DEFINE S == Made
           before == drawn
           after == [drawn EXCEPT ![b] = @ + n]
<1>1. /\ IsFiniteSet(S) /\ b \in S
      /\ \A x \in S : before[x] \in Int
      /\ after[b] = before[b] + n
      /\ \A x \in S \ {b} : after[x] = before[x]
    BY SharersFinite, ShareTypes DEF BucketInv, BucketTypeOK
<1> HIDE DEF S, before, after
<1>2. Sum(after, S) = Sum(before, S) + n
    BY <1>1, SumChange
<1>3. drawn' = after /\ Made' = S
    BY DEF after, S
<1> QED BY <1>2, <1>3 DEF before, S

LEMMA LetThroughWait ==
    ASSUME BucketInv, LetThrough, NEW c \in Callers, Wait(c)
    PROVE  LetThrough'
<1> DEFINE b == bucket[c]
<1>1. /\ b \in Made /\ last[b] <= now /\ asked[c] = 0 /\ missing[c] = 0
      /\ Made' = Made /\ slept' = slept
    BY DEF Wait, BucketInv, BucketTypeOK, Clocks, LetThrough, Awake, Made
<1>2. PICK n \in 1 .. MaxAsk : TakeAll(c, b, n) \/ TakeSome(c, b, n)
    BY DEF Wait
<1>3. b \in Buckets /\ Refilled(b) \in Nat /\ n \in Nat
    BY <1>1, <1>2, RefilledType, CapNat, BoundAssumption DEF BucketInv, Made
<1>4. /\ Sum(Held, Callers) \in Int /\ Sum(slept, Callers) \in Int
      /\ Sum(drawn, Made) \in Int /\ passed \in Int
    BY ShareTypes DEF BucketInv, BucketTypeOK
<1>5. passed + Sum(Held, Callers) = Sum(drawn, Made) + Sum(slept, Callers)
    BY DEF LetThrough
<1> HIDE DEF b
<1>6. CASE TakeAll(c, b, n)
    <2>1. /\ drawn' = [drawn EXCEPT ![b] = @ + n]
          /\ passed' = passed + n
          /\ missing' = missing /\ asked' = asked
        BY <1>6 DEF TakeAll
    <2>n. n \in Int
        BY <1>3
    <2>2. Sum(drawn', Made') = Sum(drawn, Made) + n
        BY <1>1, <2>n, <2>1, DrawingAdds
    <2>3. Held' = Held
        BY <2>1 DEF Held
    <2>4. passed' + Sum(Held', Callers) = Sum(drawn', Made') + Sum(slept', Callers)
        BY <1>1, <1>3, <1>4, <1>5, <2>1, <2>2, <2>3
    <2> QED BY <2>1, <2>4 DEF LetThrough, Awake
<1>7. CASE TakeSome(c, b, n)
    <2> DEFINE k == Refilled(b)
    <2>1. /\ drawn' = [drawn EXCEPT ![b] = @ + k]
          /\ passed' = passed
          /\ missing' = [missing EXCEPT ![c] = n - k]
          /\ asked' = [asked EXCEPT ![c] = n]
          /\ k < n /\ k \in Nat
        BY <1>3, <1>7 DEF TakeSome
    <2> HIDE DEF k
    <2>k. k \in Int
        BY <2>1
    <2>2. Sum(drawn', Made') = Sum(drawn, Made) + k
        BY <1>1, <2>k, <2>1, DrawingAdds
    <2>3. Sum(Held', Callers) = Sum(Held, Callers) + k
        <3> DEFINE before == Held
                   after == Held'
        <3>1. /\ \A x \in Callers : before[x] \in Int
              /\ after[c] = before[c] + k
              /\ \A x \in Callers \ {c} : after[x] = before[x]
            BY <1>1, <1>3, <2>1 DEF Held, BucketInv, BucketTypeOK
        <3> HIDE DEF before, after
        <3>2. Sum(after, Callers) = Sum(before, Callers) + k
            BY <2>k, <3>1, SharersFinite, SumChange
        <3> QED BY <3>2 DEF before, after
    <2>4. passed' + Sum(Held', Callers) = Sum(drawn', Made') + Sum(slept', Callers)
        BY <1>1, <1>4, <1>5, <2>k, <2>1, <2>2, <2>3
    <2>5. \A x \in Callers : IF Awake(x)' THEN asked'[x] = 0 ELSE missing'[x] <= asked'[x]
        BY <1>3, <2>1 DEF LetThrough, Awake, BucketInv, BucketTypeOK
    <2> QED BY <2>4, <2>5 DEF LetThrough, Awake
<1> QED BY <1>2, <1>6, <1>7

LEMMA LetThroughWake ==
    ASSUME BucketInv, LetThrough, NEW c \in Callers, Wake(c)
    PROVE  LetThrough'
<1> DEFINE n == missing[c]
           k == asked[c]
<1>1. /\ n \in Int /\ k \in Int /\ k - n \in Int /\ n - k \in Int
      /\ Sum(Held, Callers) \in Int /\ Sum(slept, Callers) \in Int
      /\ Sum(drawn, Made) \in Int /\ passed \in Int
    BY ShareTypes DEF BucketInv, BucketTypeOK
<1>2. /\ slept' = [slept EXCEPT ![c] = @ + n]
      /\ passed' = passed + k
      /\ missing' = [missing EXCEPT ![c] = 0]
      /\ asked' = [asked EXCEPT ![c] = 0]
      /\ drawn' = drawn /\ Made' = Made
    BY DEF Wake, bucketVars, Made
<1>3. Held[c] = k - n
    BY DEF Held
<1> DEFINE before == Held
           after == Held'
           sleptBefore == slept
           sleptAfter == slept'
<1>4. /\ \A x \in Callers : before[x] \in Int /\ sleptBefore[x] \in Int
      /\ after[c] = before[c] + (n - k)
      /\ \A x \in Callers \ {c} : after[x] = before[x]
      /\ sleptAfter[c] = sleptBefore[c] + n
      /\ \A x \in Callers \ {c} : sleptAfter[x] = sleptBefore[x]
    BY <1>1, <1>2 DEF Held, BucketInv, BucketTypeOK
<1> HIDE DEF n, k, before, after, sleptBefore, sleptAfter
<1>5. Sum(after, Callers) = Sum(before, Callers) + (n - k)
    BY <1>1, <1>4, SharersFinite, SumChange
<1>6. Sum(sleptAfter, Callers) = Sum(sleptBefore, Callers) + n
    BY <1>1, <1>4, SharersFinite, SumChange
<1>7. passed + Sum(Held, Callers) = Sum(drawn, Made) + Sum(slept, Callers)
    BY DEF LetThrough
<1>8. passed' + Sum(Held', Callers) = Sum(drawn', Made') + Sum(slept', Callers)
    BY <1>1, <1>2, <1>5, <1>6, <1>7 DEF before, after, sleptBefore, sleptAfter
<1>9. \A x \in Callers : IF Awake(x)' THEN asked'[x] = 0 ELSE missing'[x] <= asked'[x]
    BY <1>2 DEF LetThrough, Awake, BucketInv, BucketTypeOK
<1> QED BY <1>8, <1>9 DEF LetThrough, Awake

LEMMA LetThroughStep == BucketInv /\ LetThrough /\ [BucketNext]_limitVars => LetThrough'
<1> SUFFICES ASSUME BucketInv, LetThrough, [BucketNext]_limitVars PROVE LetThrough'
    OBVIOUS
<1>1. ASSUME UNCHANGED <<missing, asked, slept, passed, drawn>>, Sum(drawn', Made') = Sum(drawn, Made)
      PROVE  LetThrough'
    <2>1. Held' = Held
        BY <1>1 DEF Held
    <2> QED BY <1>1, <2>1 DEF LetThrough, Awake
<1>2. ASSUME UNCHANGED <<missing, asked, slept, passed, drawn, born>>
      PROVE  LetThrough'
    <2>1. Made' = Made
        BY <1>2 DEF Made
    <2> QED BY <1>1, <1>2, <2>1
<1> USE DEF bucketVars, callerVars
<1>3. ASSUME NEW c \in Callers, OpenKnown(c) \/ Close(c) PROVE LetThrough'
    BY <1>2, <1>3 DEF OpenKnown, Close
<1>4. ASSUME NEW c \in Callers, OpenNew(c) PROVE LetThrough'
    BY <1>1, <1>4, MakingDrawsNothing DEF OpenNew
<1>5. ASSUME NEW c \in Callers, Wait(c) PROVE LetThrough'
    BY <1>5, LetThroughWait
<1>6. ASSUME NEW c \in Callers, Wake(c) PROVE LetThrough'
    BY <1>6, LetThroughWake
<1>7. CASE Reload \/ Tick
    BY <1>2, <1>7 DEF Reload, Tick
<1>8. CASE UNCHANGED limitVars
    BY <1>2, <1>8 DEF limitVars
<1> QED BY <1>3, <1>4, <1>5, <1>6, <1>7, <1>8 DEF BucketNext

\* Whatever their number, their rates and the order in which they are called or
\* replaced, all that Wait lets through is bounded by the rate of each bucket made
\* and once more by the time of each caller.
THEOREM ExcessBounded == BucketSpec => []ExcessIsBounded
<1>1. BucketInv /\ LetThrough => ExcessIsBounded
    <2> SUFFICES ASSUME BucketInv, LetThrough
                 PROVE  ExcessIsBounded
        OBVIOUS
    <2> DEFINE ofBuckets == [b \in Made |-> Rate + (now - born[b])]
               ofCallers == [c \in Callers |-> now]
               nothing == [c \in Callers |-> 0]
    <2>1. \A b \in Made : drawn[b] \in Int /\ ofBuckets[b] \in Int /\ drawn[b] <= ofBuckets[b]
        <3> SUFFICES ASSUME NEW b \in Made
                     PROVE  drawn[b] \in Int /\ ofBuckets[b] \in Int /\ drawn[b] <= ofBuckets[b]
            OBVIOUS
        <3>1. /\ b \in Buckets /\ born[b] \in Nat /\ now \in Nat
              /\ drawn[b] \in Nat /\ Rate \in Nat
            BY RateAssumption DEF BucketInv, BucketTypeOK, Made
        <3>2. drawn[b] <= Rate + (now - born[b])
            BY WithinTokens DEF NeverOverdrawn
        <3> QED BY <3>1, <3>2
    <2>2. \A c \in Callers : slept[c] \in Int /\ ofCallers[c] \in Int /\ slept[c] <= ofCallers[c]
        BY DEF BucketInv, BucketTypeOK, Sleeps
    <2>3. \A c \in Callers : nothing[c] \in Int /\ Held[c] \in Int /\ nothing[c] <= Held[c]
        BY DEF BucketInv, BucketTypeOK, LetThrough, Held, Awake
    <2>4. \A c \in Callers : nothing[c] = 0
        OBVIOUS
    <2> HIDE DEF ofBuckets, ofCallers, nothing
    <2>5. Sum(drawn, Made) <= Sum(ofBuckets, Made) /\ Sum(ofBuckets, Made) \in Int
        BY <2>1, SharersFinite, SumMonotonic, SumInt
    <2>6. Sum(slept, Callers) <= Sum(ofCallers, Callers) /\ Sum(ofCallers, Callers) \in Int
        BY <2>2, SharersFinite, SumMonotonic, SumInt
    <2>7. 0 <= Sum(Held, Callers)
        <3>1. Sum(nothing, Callers) <= Sum(Held, Callers)
            BY <2>3, SharersFinite, SumMonotonic
        <3>2. Sum(nothing, Callers) = 0
            BY <2>4, SharersFinite, SumZero
        <3> QED BY <3>1, <3>2
    <2>8. /\ Sum(Held, Callers) \in Int /\ Sum(slept, Callers) \in Int
          /\ Sum(drawn, Made) \in Int /\ passed \in Int
        BY ShareTypes DEF BucketInv, BucketTypeOK
    <2>9. passed + Sum(Held, Callers) = Sum(drawn, Made) + Sum(slept, Callers)
        BY DEF LetThrough
    <2>10. passed <= Sum(ofBuckets, Made) + Sum(ofCallers, Callers)
        BY <2>5, <2>6, <2>7, <2>8, <2>9
    <2> QED BY <2>10 DEF ExcessIsBounded, Sum, ofBuckets, ofCallers
<1>2. BucketInv /\ LetThrough /\ [BucketNext]_limitVars => (BucketInv /\ LetThrough)'
    BY BucketStep, LetThroughStep
<1>3. BucketInit => BucketInv /\ LetThrough
    BY BucketInvInit, LetThroughInit
<1>4. BucketSpec => [](BucketInv /\ LetThrough)
    BY <1>2, <1>3, PTL DEF BucketSpec
<1> QED BY <1>1, <1>4, PTL
=============================================================================
