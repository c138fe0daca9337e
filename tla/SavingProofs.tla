---------------------------- MODULE SavingProofs ----------------------------
(***************************************************************************)
(* Proofs about Saving: its types; that a crash at any point finds db.json *)
(* whole and no older than the last save that succeeded, as long as no two *)
(* saves overlap; and that saves which do overlap leave it whole and       *)
(* complete when all are over.                                             *)
(***************************************************************************)
EXTENDS Saving, TLAPS

-----------------------------------------------------------------------------
(* Types *)

LEMMA WrittenType ==
    ASSUME NEW old \in Contents, NEW new \in Nat
    PROVE  Written(old, new) \subseteq Contents
BY DEF Written, Contents

LEMMA TypeInit == Init => TypeOK
<1> SUFFICES ASSUME Init PROVE TypeOK
    OBVIOUS
<1> USE DEF Init
<1>1. at \in [Savers -> Stages]
    BY DEF Stages
<1>2. content \in [Inodes -> Contents]
    BY DEF Contents
<1> QED BY <1>1, <1>2 DEF TypeOK

LEMMA TypeStep == TypeOK /\ [Next]_vars => TypeOK'
<1> SUFFICES ASSUME TypeOK, [Next]_vars PROVE TypeOK'
    OBVIOUS
<1> USE DEF TypeOK, Stages, Contents, disk, past
<1>1. ASSUME NEW s \in Savers, Change(s) PROVE TypeOK'
    BY <1>1, BoundAssumption DEF Change, NextVersion, Goto
<1>2. ASSUME NEW s \in Savers, ChangeUnlocked(s) PROVE TypeOK'
    BY <1>2, BoundAssumption DEF ChangeUnlocked, NextVersion, Goto
<1>3. ASSUME NEW s \in Savers, Marshal(s) PROVE TypeOK'
    BY <1>3 DEF Marshal, Goto
<1>4. ASSUME NEW s \in Savers, OpenTmp(s) PROVE TypeOK'
    BY <1>4 DEF OpenTmp, Goto
<1>5. ASSUME NEW s \in Savers, WriteTmp(s) PROVE TypeOK'
    <2>1. PICK c \in Written(content[fd[s]], data[s]) :
             content' = [content EXCEPT ![fd[s]] = c]
        BY <1>5 DEF WriteTmp
    <2>2. fd[s] \in Inodes => c \in Contents
        BY <2>1, WrittenType
    <2>3. content' \in [Inodes -> Contents]
        BY <2>1, <2>2
    <2> QED BY <1>5, <2>3 DEF WriteTmp, Goto
<1>6. ASSUME NEW s \in Savers, WriteFails(s) PROVE TypeOK'
    BY <1>6 DEF WriteFails, Goto
<1>7. ASSUME NEW s \in Savers, Rename(s) PROVE TypeOK'
    BY <1>7 DEF Rename, Goto
<1>8. ASSUME NEW s \in Savers, RenameFails(s) PROVE TypeOK'
    BY <1>8 DEF RenameFails, Goto
<1>9. CASE Charge
    BY <1>9, BoundAssumption DEF Charge, NextVersion
<1>10. CASE Crash
    <2>1. at' \in [Savers -> Stages] /\ fd' \in [Savers -> Inodes \cup {None}]
        BY <1>10 DEF Crash
    <2>2. up' \in BOOLEAN
        BY <1>10, Zenon DEF Crash
    <2>3. crashes' = crashes + 1 /\ UNCHANGED <<db, data, disk, changes, past>>
        BY <1>10, Zenon DEF Crash
    <2> QED BY <2>1, <2>2, <2>3
<1>11. CASE Boot
    BY <1>11 DEF Boot
<1>12. CASE UNCHANGED vars
    BY <1>12 DEF vars
<1> QED
    BY <1>1, <1>2, <1>3, <1>4, <1>5, <1>6, <1>7, <1>8, <1>9, <1>10, <1>11, <1>12
       DEF Next, Save

\* The state of the store keeps its types for any number of savers and inodes:
\* in particular what is loaded at start is a whole version.
THEOREM SavingTypeCorrect == Spec => []TypeOK
BY TypeInit, TypeStep, PTL DEF Spec

-----------------------------------------------------------------------------
(* Saves that do not overlap *)

\* Nothing in memory, marshalled or written is newer than the last change.
Bounded ==
    /\ db <= changes
    /\ \A s \in Savers : data[s] <= changes
    /\ \A i \in Inodes : content[i] = Torn \/ content[i] <= changes

\* A dead panel has no savers.
Quiet == \A s \in Savers : at[s] # "idle" => up

\* What one saver may rely on while it is the only one.
Solo(s) ==
    /\ Saving(s) => acked <= data[s] /\ data[s] <= db
    /\ at[s] = "write" => /\ fd[s] = tmp /\ tmp \in Inodes
                          /\ content[tmp] = Torn
    /\ at[s] = "rename" => tmp \in Inodes /\ content[tmp] = data[s]

Alone ==
    /\ \A s, t \in Savers : Saving(s) /\ Saving(t) => s = t
    /\ \A s \in Savers : Solo(s)
    /\ tmp # file
    /\ content[file] # Torn
    /\ acked <= content[file]
    /\ up => acked <= db

IInv == TypeOK /\ Bounded /\ Quiet /\ (~overlapped => Alone)

LEMMA InvInit == Init => IInv
<1> SUFFICES ASSUME Init PROVE IInv
    OBVIOUS
<1>1. TypeOK
    BY TypeInit
<1>2. Bounded /\ Quiet
    BY DEF Init, Bounded, Quiet
<1>3. Alone
    BY NoneAssumption DEF Init, Alone, Solo, Saving
<1> QED BY <1>1, <1>2, <1>3 DEF IInv

LEMMA BoundedStep == TypeOK /\ Bounded /\ [Next]_vars => Bounded'
<1> SUFFICES ASSUME TypeOK, Bounded, [Next]_vars PROVE Bounded'
    OBVIOUS
<1> USE DEF TypeOK, Bounded, Contents, disk, past
<1>1. ASSUME NEW s \in Savers, Change(s) PROVE Bounded'
    BY <1>1, BoundAssumption DEF Change, NextVersion
<1>2. ASSUME NEW s \in Savers, ChangeUnlocked(s) PROVE Bounded'
    BY <1>2, BoundAssumption DEF ChangeUnlocked, NextVersion
<1>3. ASSUME NEW s \in Savers, Marshal(s) PROVE Bounded'
    BY <1>3 DEF Marshal
<1>4. ASSUME NEW s \in Savers, OpenTmp(s) PROVE Bounded'
    BY <1>4 DEF OpenTmp
<1>5. ASSUME NEW s \in Savers, WriteTmp(s) PROVE Bounded'
    BY <1>5 DEF WriteTmp, Written
<1>6. ASSUME NEW s \in Savers, WriteFails(s) PROVE Bounded'
    BY <1>6 DEF WriteFails
<1>7. ASSUME NEW s \in Savers, Rename(s) PROVE Bounded'
    BY <1>7 DEF Rename
<1>8. ASSUME NEW s \in Savers, RenameFails(s) PROVE Bounded'
    BY <1>8 DEF RenameFails
<1>9. CASE Charge
    BY <1>9, BoundAssumption DEF Charge, NextVersion
<1>10. CASE Crash
    BY <1>10 DEF Crash
<1>11. CASE Boot
    BY <1>11 DEF Boot
<1>12. CASE UNCHANGED vars
    BY <1>12 DEF vars
<1> QED
    BY <1>1, <1>2, <1>3, <1>4, <1>5, <1>6, <1>7, <1>8, <1>9, <1>10, <1>11, <1>12
       DEF Next, Save

LEMMA QuietStep == TypeOK /\ Quiet /\ [Next]_vars => Quiet'
<1> SUFFICES ASSUME TypeOK, Quiet, [Next]_vars PROVE Quiet'
    OBVIOUS
<1> USE DEF Quiet, TypeOK
<1>1. ASSUME NEW s \in Savers, Change(s) \/ ChangeUnlocked(s) PROVE Quiet'
    BY <1>1 DEF Change, ChangeUnlocked, Goto
<1>2. ASSUME NEW s \in Savers, Save(s) PROVE Quiet'
    BY <1>2 DEF Save, Marshal, OpenTmp, WriteTmp, WriteFails, Rename, RenameFails, Goto
<1>3. CASE Charge
    BY <1>3 DEF Charge
<1>4. CASE Crash
    BY <1>4 DEF Crash
<1>5. CASE Boot
    BY <1>5 DEF Boot
<1>6. CASE UNCHANGED vars
    BY <1>6 DEF vars
<1> QED BY <1>1, <1>2, <1>3, <1>4, <1>5, <1>6 DEF Next

\* No step forgets that saves have overlapped.
LEMMA OverlapStays == [Next]_vars /\ ~overlapped' => ~overlapped
BY DEF Next, Save, vars, past, Change, ChangeUnlocked, Charge, Marshal, OpenTmp, WriteTmp,
       WriteFails, Rename, RenameFails, Crash, Boot

\* A saver in the middle of a save is alone with the temporary file.
LEMMA AloneStep ==
    ASSUME TypeOK, Bounded, Quiet, Alone, [Next]_vars, ~overlapped'
    PROVE  Alone'
<1> USE DEF TypeOK, Alone, Solo, Saving, disk, past
<1>1. ASSUME NEW s \in Savers, Change(s) PROVE Alone'
    BY <1>1, BoundAssumption DEF Change, NextVersion, Goto, Bounded
<1>2. ASSUME NEW s \in Savers, ChangeUnlocked(s) PROVE Alone'
    BY <1>2, BoundAssumption DEF ChangeUnlocked, NextVersion, Goto, Bounded
<1>3. ASSUME NEW s \in Savers, Marshal(s) PROVE Alone'
    <2>1. \A t \in Savers : ~Saving(t)
        BY <1>3 DEF Marshal
    <2>2. up
        BY <1>3 DEF Marshal, Quiet
    <2> QED BY <1>3, <2>1, <2>2 DEF Marshal, Goto
<1>4. ASSUME NEW s \in Savers, OpenTmp(s) PROVE Alone'
    <2>1. \A t \in Savers : Saving(t) => t = s
        BY <1>4 DEF OpenTmp
    <2>2. PICK i \in Inodes :
             /\ IF tmp = None THEN Free(i) ELSE i = tmp
             /\ tmp' = i
             /\ content' = [content EXCEPT ![i] = Torn]
             /\ fd' = [fd EXCEPT ![s] = i]
        BY <1>4 DEF OpenTmp
    <2>3. i # file
        BY <2>2 DEF Free
    <2> QED BY <1>4, <2>1, <2>2, <2>3 DEF OpenTmp, Goto
<1>5. ASSUME NEW s \in Savers, WriteTmp(s) PROVE Alone'
    <2>1. \A t \in Savers : Saving(t) => t = s
        BY <1>5 DEF WriteTmp
    <2>2. fd[s] = tmp /\ tmp \in Inodes /\ Written(content[fd[s]], data[s]) = {data[s]}
        BY <1>5 DEF WriteTmp, Written
    <2>3. content' = [content EXCEPT ![tmp] = data[s]]
        BY <1>5, <2>2 DEF WriteTmp
    <2> QED BY <1>5, <2>1, <2>2, <2>3 DEF WriteTmp, Goto
<1>6. ASSUME NEW s \in Savers, WriteFails(s) PROVE Alone'
    <2>1. \A t \in Savers : Saving(t) => t = s
        BY <1>6 DEF WriteFails
    <2> QED BY <1>6, <2>1 DEF WriteFails, Goto
<1>7. ASSUME NEW s \in Savers, Rename(s) PROVE Alone'
    <2>1. \A t \in Savers : Saving(t) => t = s
        BY <1>7 DEF Rename
    <2>2. file' \in Inodes /\ content[file'] = data[s] /\ acked' = data[s]
        BY <1>7 DEF Rename
    <2>3. data[s] # Torn
        BY NoneAssumption
    <2> QED BY <1>7, <2>1, <2>2, <2>3, NoneAssumption DEF Rename, Goto, Quiet
<1>8. ASSUME NEW s \in Savers, RenameFails(s) PROVE Alone'
    BY <1>8, NoneAssumption DEF RenameFails, Goto
<1>9. CASE Charge
    BY <1>9, BoundAssumption DEF Charge, NextVersion, Bounded
<1>10. CASE Crash
    BY <1>10 DEF Crash
<1>11. CASE Boot
    BY <1>11 DEF Boot, Quiet
<1>12. CASE UNCHANGED vars
    BY <1>12 DEF vars
<1> QED
    BY <1>1, <1>2, <1>3, <1>4, <1>5, <1>6, <1>7, <1>8, <1>9, <1>10, <1>11, <1>12
       DEF Next, Save

LEMMA InvStep == IInv /\ [Next]_vars => IInv'
BY TypeStep, BoundedStep, QuietStep, OverlapStays, AloneStep DEF IInv

\* For any number of savers, and whatever writes fail, edits are made during a
\* save or crashes come in between: as long as no two saves of saveDB overlap,
\* db.json is whole and has at least what the last successful save wrote.
THEOREM CrashSafe == Spec => []CrashSafeAlone
<1>1. IInv => CrashSafeAlone
    BY DEF IInv, Alone, CrashSafeAlone, Whole
<1> QED BY <1>1, InvInit, InvStep, PTL DEF Spec
-----------------------------------------------------------------------------
(* Saves that overlap *)

\* A saver has inode i open and will write it.
Filling(i) == \E s \in Savers : at[s] = "write" /\ fd[s] = i

\* Somebody has still to put a file in the place of db.json.
Ahead ==
    \/ \E s \in Savers : at[s] \in {"save", "open"}
    \/ tmp # None /\ \E s \in Savers : at[s] \in {"write", "rename"}

\* Whoever saves, saves the store as it is: a file that is torn will be filled,
\* and one that is too old will be replaced.
Steady ==
    /\ due <= db
    /\ \A s \in Savers : Saving(s) => data[s] = db
    /\ \A s \in Savers : at[s] = "write" => fd[s] \in Inodes /\ content[fd[s]] \in {Torn, db}
    /\ tmp # None /\ (\E s \in Savers : at[s] \in {"write", "rename"}) =>
           content[tmp] = db \/ (content[tmp] = Torn /\ Filling(tmp))
    /\ content[file] = Torn => Filling(file)
    /\ content[file] # Torn /\ content[file] < due => Ahead

RestInv == tmp # file /\ (up /\ ~edited /\ ~failed => Steady)

LEMMA RestStep == IInv /\ RestInv /\ [Next]_vars => RestInv'
<1> SUFFICES ASSUME IInv, RestInv, [Next]_vars PROVE RestInv'
    OBVIOUS
<1> USE NoneAssumption DEF TypeOK, RestInv, disk, past
<1>a. TypeOK /\ Bounded /\ Quiet
    BY DEF IInv
<1>b. \A i \in Inodes : content[i] \in Nat \cup {Torn}
    BY <1>a DEF Contents
<1>1. ASSUME NEW s \in Savers, Change(s) \/ ChangeUnlocked(s) PROVE RestInv'
    <2>1. tmp' # file' /\ db' \in Nat /\ due' = db' /\ up /\ edited \in BOOLEAN
        BY <1>1, <1>a, BoundAssumption DEF Change, ChangeUnlocked, NextVersion, Bounded
    <2>2. at[s] = "idle" /\ at' = [at EXCEPT ![s] = "save"]
        BY <1>1 DEF Change, ChangeUnlocked, Goto
    <2>3. ASSUME ~edited', ~failed' PROVE Steady'
        <3>1. Steady /\ \A t \in Savers : ~Saving(t)
            BY <1>1, <2>1, <2>3 DEF Change, ChangeUnlocked
        <3>2. \A t \in Savers : ~(at'[t] \in {"open", "write", "rename"})
            BY <1>a, <2>2, <3>1 DEF Saving
        <3>3. \A i \in Inodes : ~Filling(i)
            BY <3>1 DEF Filling, Saving
        <3>4. content[file] # Torn /\ UNCHANGED <<file, content>>
            BY <1>1, <1>a, <3>1, <3>3 DEF Change, ChangeUnlocked, Steady
        <3>5. Ahead'
            BY <1>a, <2>2 DEF Ahead
        <3>6. due' <= db' /\ content'[file'] # Torn
            BY <1>a, <2>1, <3>4
        <3>7. \A t \in Savers : ~Saving(t)'
            BY <3>2 DEF Saving
        <3> QED BY <3>2, <3>5, <3>6, <3>7 DEF Steady
    <2> QED BY <2>1, <2>3
<1>2. ASSUME NEW s \in Savers, Marshal(s) PROVE RestInv'
    <2>1. /\ at[s] = "save" /\ at' = [at EXCEPT ![s] = "open"]
          /\ data' = [data EXCEPT ![s] = db]
          /\ UNCHANGED <<up, db, fd, tmp, file, content, due, edited, failed>>
        BY <1>2 DEF Marshal, Goto
    <2>2. ASSUME Steady PROVE Steady'
        <3>1. \A t \in Savers : Saving(t)' => data'[t] = db'
            BY <1>a, <2>1, <2>2 DEF Steady, Saving
        <3>2. \A t \in Savers : /\ at'[t] = "write" <=> at[t] = "write"
                                /\ at'[t] = "rename" <=> at[t] = "rename"
            BY <1>a, <2>1
        <3>3. \A i \in Inodes : Filling(i) => Filling(i)'
            BY <2>1, <3>2 DEF Filling
        <3>4. Ahead'
            BY <1>a, <2>1 DEF Ahead
        <3> QED BY <1>a, <2>1, <2>2, <3>1, <3>2, <3>3, <3>4 DEF Steady
    <2> QED BY <2>1, <2>2
<1>3. ASSUME NEW s \in Savers, OpenTmp(s) PROVE RestInv'
    <2>1. PICK i \in Inodes :
             /\ IF tmp = None THEN Free(i) ELSE i = tmp
             /\ tmp' = i
             /\ content' = [content EXCEPT ![i] = Torn]
             /\ fd' = [fd EXCEPT ![s] = i]
        BY <1>3 DEF OpenTmp
    <2>2. /\ at[s] = "open" /\ at' = [at EXCEPT ![s] = "write"]
          /\ UNCHANGED <<up, db, data, file, due, edited, failed>>
        BY <1>3 DEF OpenTmp, Goto
    <2>3. i # file
        BY <2>1 DEF Free
    <2>4. ASSUME Steady PROVE Steady'
        <3>1. /\ at'[s] = "write" /\ fd'[s] = i /\ content'[i] = Torn /\ content'[file] = content[file]
              /\ \A t \in Savers : t # s => at'[t] = at[t] /\ fd'[t] = fd[t]
              /\ \A j \in Inodes : content'[j] \in {content[j], Torn}
            BY <1>a, <2>1, <2>2, <2>3
        <3>2. \A t \in Savers : Saving(t)' => data'[t] = db'
            BY <2>2, <2>4, <3>1 DEF Steady, Saving
        <3>3. \A t \in Savers : at'[t] = "write" => fd'[t] \in Inodes /\ content'[fd'[t]] \in {Torn, db}
            BY <2>4, <3>1 DEF Steady
        <3>4. Filling(i)' /\ (Filling(file) => Filling(file)')
            BY <2>2, <3>1 DEF Filling
        <3>5. Ahead'
            BY <2>1, <3>1 DEF Ahead
        <3> QED BY <2>1, <2>2, <2>4, <3>1, <3>2, <3>3, <3>4, <3>5 DEF Steady
    <2> QED BY <2>1, <2>2, <2>3, <2>4
<1>4. ASSUME NEW s \in Savers, WriteTmp(s) PROVE RestInv'
    <2>1. /\ at[s] = "write" /\ at' = [at EXCEPT ![s] = "rename"]
          /\ fd' = [fd EXCEPT ![s] = None]
          /\ UNCHANGED <<up, db, data, tmp, file, due, edited, failed>>
        BY <1>4 DEF WriteTmp, Goto
    <2>2. ASSUME Steady PROVE Steady'
        <3> DEFINE i == fd[s]
        <3>1. i \in Inodes /\ content[i] \in {Torn, db} /\ data[s] = db
            BY <2>1, <2>2 DEF Steady, Saving
        <3>2. content' = [content EXCEPT ![i] = db]
            BY <1>4, <3>1 DEF WriteTmp, Written
        <3> HIDE DEF i
        <3>3. /\ at'[s] = "rename" /\ content'[i] = db
              /\ \A t \in Savers : t # s => at'[t] = at[t] /\ fd'[t] = fd[t]
              /\ \A j \in Inodes : j # i => content'[j] = content[j]
            BY <1>a, <2>1, <3>1, <3>2
        <3>4. \A j \in Inodes : j # i /\ Filling(j) => Filling(j)'
            BY <3>3 DEF Filling, i
        <3>5. \A t \in Savers : Saving(t)' => data'[t] = db'
            BY <2>1, <2>2, <3>3 DEF Steady, Saving
        <3>6. \A t \in Savers : at'[t] = "write" => fd'[t] \in Inodes /\ content'[fd'[t]] \in {Torn, db}
            BY <2>2, <3>3 DEF Steady
        <3>7. tmp # None => content'[tmp] = db \/ (content'[tmp] = Torn /\ Filling(tmp)')
            BY <1>a, <2>1, <2>2, <3>3, <3>4 DEF Steady
        <3>8. content'[file] = Torn => Filling(file)'
            <4>1. CASE file = i
                BY <1>a, <2>1, <3>3, <4>1
            <4>2. CASE file # i
                <5>1. content'[file] = Torn => Filling(file)
                    BY <1>a, <2>2, <3>3, <4>2 DEF Steady
                <5>2. Filling(file) => \E t \in Savers : at'[t] = "write" /\ fd'[t] = file
                    BY <3>3, <4>2 DEF Filling, i
                <5> QED BY <2>1, <5>1, <5>2 DEF Filling
            <4> QED BY <4>1, <4>2
        <3>9. content'[file] # Torn /\ content'[file] < due => Ahead'
            <4> SUFFICES ASSUME content'[file] # Torn, content'[file] < due
                         PROVE  Ahead'
                OBVIOUS
            <4>1. file # i
                BY <1>a, <2>2, <3>3 DEF Steady
            <4>2. Ahead
                BY <1>a, <2>2, <3>3, <4>1 DEF Steady
            <4> QED BY <2>1, <3>3, <4>2 DEF Ahead
        <3> QED BY <2>1, <2>2, <3>5, <3>6, <3>7, <3>8, <3>9 DEF Steady
    <2> QED BY <2>1, <2>2
<1>5. ASSUME NEW s \in Savers, WriteFails(s) PROVE RestInv'
    BY <1>5 DEF WriteFails
<1>6. ASSUME NEW s \in Savers, Rename(s) PROVE RestInv'
    <2>1. /\ at[s] = "rename" /\ at' = [at EXCEPT ![s] = "idle"]
          /\ tmp \in Inodes /\ file' = tmp /\ tmp' = None
          /\ UNCHANGED <<up, db, data, fd, content, due, edited, failed>>
        BY <1>6, <1>a DEF Rename, Goto
    <2>2. ASSUME Steady PROVE Steady'
        <3>1. \A t \in Savers : t # s => at'[t] = at[t]
            BY <1>a, <2>1
        <3>2. at'[s] = "idle"
            BY <1>a, <2>1
        <3>3. content[tmp] = db \/ (content[tmp] = Torn /\ Filling(tmp))
            BY <2>1, <2>2 DEF Steady
        <3>4. content'[file'] = Torn => Filling(file)'
            <4>1. Filling(tmp) => \E t \in Savers : at'[t] = "write" /\ fd'[t] = tmp
                BY <2>1, <3>1 DEF Filling
            <4>2. content[tmp] = Torn => Filling(tmp)
                BY <1>a, <3>3
            <4> QED BY <2>1, <4>1, <4>2 DEF Filling
        <3>5. content'[file'] # Torn => content'[file'] >= due'
            BY <1>a, <2>1, <2>2, <3>3 DEF Steady
        <3>6. content'[file'] # Torn => content'[file'] \in Nat
            BY <1>a, <1>b, <2>1
        <3>7. \A t \in Savers : Saving(t)' => data'[t] = db'
            BY <2>1, <2>2, <3>1, <3>2 DEF Steady, Saving
        <3>8. \A t \in Savers : at'[t] = "write" => fd'[t] \in Inodes /\ content'[fd'[t]] \in {Torn, db'}
            BY <2>1, <2>2, <3>1, <3>2 DEF Steady
        <3>9. ~(content'[file'] # Torn /\ content'[file'] < due')
            BY <1>a, <2>1, <3>5, <3>6
        <3> QED BY <2>1, <2>2, <3>4, <3>7, <3>8, <3>9 DEF Steady
    <2> QED BY <2>1, <2>2
<1>7. ASSUME NEW s \in Savers, RenameFails(s) PROVE RestInv'
    <2>1. /\ at[s] = "rename" /\ at' = [at EXCEPT ![s] = "idle"] /\ tmp = None
          /\ UNCHANGED <<up, db, data, fd, tmp, file, content, due, edited, failed>>
        BY <1>7 DEF RenameFails, Goto
    <2>2. ASSUME Steady PROVE Steady'
        <3>1. at'[s] = "idle" /\ \A t \in Savers : t # s => at'[t] = at[t]
            BY <1>a, <2>1
        <3>2. \A i \in Inodes : Filling(i) => Filling(i)'
            BY <2>1, <3>1 DEF Filling
        <3>3. Ahead => Ahead'
            BY <2>1, <3>1 DEF Ahead
        <3>4. \A t \in Savers : Saving(t)' => data'[t] = db'
            BY <2>1, <2>2, <3>1 DEF Steady, Saving
        <3> QED BY <1>a, <2>1, <2>2, <3>1, <3>2, <3>3, <3>4 DEF Steady
    <2> QED BY <2>1, <2>2
<1>8. CASE Charge
    <2>1. /\ \A t \in Savers : ~Saving(t)
          /\ db < db' /\ db' \in Nat
          /\ UNCHANGED <<up, at, data, fd, tmp, file, content, due, edited, failed>>
        BY <1>8, <1>a, BoundAssumption DEF Charge, NextVersion, Bounded
    <2>2. ASSUME Steady PROVE Steady'
        <3>1. \A t \in Savers : at[t] \notin {"open", "write", "rename"}
            BY <2>1 DEF Saving
        <3>2. Ahead => Ahead'
            BY <2>1 DEF Ahead
        <3>3. content[file] = Torn => Filling(file)'
            BY <2>1, <2>2 DEF Steady, Filling
        <3> QED BY <1>a, <2>1, <2>2, <3>1, <3>2, <3>3 DEF Steady, Saving
    <2> QED BY <2>1, <2>2
<1>9. CASE Crash
    BY <1>9 DEF Crash
<1>10. CASE Boot
    <2>1. /\ \A t \in Savers : at[t] = "idle"
          /\ content[file] # Torn /\ db' = content[file] /\ due' = content[file]
          /\ UNCHANGED <<at, tmp, file, content>>
        BY <1>10, <1>a DEF Boot, Quiet
    <2>2. Steady'
        BY <1>a, <1>b, <2>1 DEF Steady, Saving
    <2> QED BY <2>1, <2>2
<1>11. CASE UNCHANGED vars
    BY <1>11 DEF vars, Steady, Saving, Filling, Ahead
<1> QED
    BY <1>1, <1>2, <1>3, <1>4, <1>5, <1>6, <1>7, <1>8, <1>9, <1>10, <1>11 DEF Next, Save

\* However many saves overlap, and wherever the panel crashed before: when all are
\* over, db.json is whole and has every change that somebody undertook to save, if
\* nobody edited without the lock during a save and no write failed.
THEOREM CompleteWhenAllRest == Spec => []CompleteAtRest
<1>1. Init => RestInv
    <2> SUFFICES ASSUME Init PROVE RestInv
        OBVIOUS
    <2>1. content[file] = 0 /\ 0 # Torn /\ tmp # file
        BY NoneAssumption DEF Init
    <2>2. \A s \in Savers : at[s] = "idle"
        BY DEF Init
    <2>3. db = 0 /\ due = 0
        BY DEF Init
    <2> QED BY <2>1, <2>2, <2>3 DEF RestInv, Steady, Saving
<1>2. IInv /\ RestInv => CompleteAtRest
    <2> SUFFICES ASSUME IInv, RestInv, up, ~edited, ~failed, \A s \in Savers : at[s] = "idle"
                 PROVE  content[file] # Torn /\ content[file] >= due
        BY DEF CompleteAtRest, Whole
    <2>1. ~Ahead /\ ~Filling(file) /\ Steady
        BY DEF Ahead, Filling, RestInv
    <2>2. content[file] \in Nat \cup {Torn} /\ due \in Nat
        BY DEF IInv, TypeOK, Contents
    <2> QED BY <2>1, <2>2 DEF Steady
<1> QED BY <1>1, <1>2, InvInit, InvStep, RestStep, PTL DEF Spec
=============================================================================
