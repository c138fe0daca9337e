------------------------------- MODULE Saving -------------------------------
(***************************************************************************)
(* How the store reaches db.json (storage.go: saveDB, save, loadDB), and   *)
(* what a crash of the panel leaves of it.                                 *)
(*                                                                         *)
(* Request handlers and the flush change the store and then call saveDB.   *)
(* saveDB holds Store.mu as a reader from json.Marshal to os.Rename, so    *)
(* that saves exclude the changes made under Store.mu, but neither each    *)
(* other nor the changes that handlers make to a rule or a user without    *)
(* the lock.  All saves go through one temporary file.                     *)
(*                                                                         *)
(* The content of the store is a version number, its changes so far.  A    *)
(* file is an inode: a name may move, a descriptor stays.  What a crash of *)
(* the machine does to unwritten pages is left out.                        *)
(***************************************************************************)
EXTENDS Integers

CONSTANTS
    Savers,     \* goroutines that change the store and may save it
    Inodes,     \* of the directory; enough for every saver, tmp and db.json
    None,       \* no inode
    Torn,       \* the content of a file that is no whole version
    MaxChanges, \* bound: changes of the store
    MaxCrashes  \* bound: crashes of the panel

ASSUME NoneAssumption == None \notin Inodes /\ Torn \notin Nat
ASSUME SomeAssumption == \E i \in Inodes : TRUE
ASSUME BoundAssumption == MaxChanges \in Nat /\ MaxCrashes \in Nat

VARIABLES
    up,         \* the panel runs
    db,         \* the version in memory
    at,         \* each saver: where it is
    data,       \* the bytes a saver has marshalled: their version
    fd,         \* the inode a saver has open
    tmp,        \* db.json.tmp
    file,       \* db.json
    content,    \* of each inode
    changes, crashes, \* so far, for the bounds
    \* history variables, read by no action
    acked,      \* the newest version of a save that returned nil
    due,        \* the newest version that somebody undertook to save
    overlapped, \* a save has begun during another
    edited,     \* a change without the lock was made during a save
    failed      \* a write has failed

disk == <<tmp, file, content>>
past == <<acked, due, overlapped, edited, failed>>
vars == <<up, db, at, data, fd, disk, changes, crashes, past>>

Stages == {"idle", "save", "open", "write", "rename"}
Contents == Nat \cup {Torn}

TypeOK ==
    /\ up \in BOOLEAN
    /\ db \in Nat
    /\ at \in [Savers -> Stages]
    /\ data \in [Savers -> Nat]
    /\ fd \in [Savers -> Inodes \cup {None}]
    /\ tmp \in Inodes \cup {None}
    /\ file \in Inodes
    /\ content \in [Inodes -> Contents]
    /\ changes \in Nat /\ crashes \in Nat
    /\ acked \in Nat /\ due \in Nat
    /\ overlapped \in BOOLEAN /\ edited \in BOOLEAN /\ failed \in BOOLEAN

\* The first start has seeded the store and saved it, alone.
Init ==
    /\ up = TRUE
    /\ db = 0
    /\ at = [s \in Savers |-> "idle"]
    /\ data = [s \in Savers |-> 0]
    /\ fd = [s \in Savers |-> None]
    /\ tmp = None
    /\ file \in Inodes
    /\ content = [i \in Inodes |-> IF i = file THEN 0 ELSE Torn]
    /\ changes = 0 /\ crashes = 0
    /\ acked = 0 /\ due = 0
    /\ overlapped = FALSE /\ edited = FALSE /\ failed = FALSE

\* s is inside saveDB and holds Store.mu as a reader.
Saving(s) == at[s] \in {"open", "write", "rename"}
Goto(s, stage) == at' = [at EXCEPT ![s] = stage]

-----------------------------------------------------------------------------
(* Changes *)

NextVersion ==
    /\ changes < MaxChanges
    /\ changes' = changes + 1
    /\ db' = changes + 1

\* A plausible bug: the change does not wait for the readers of Store.mu.
Change_NoLock(s) ==
    /\ up
    /\ at[s] = "idle"
    /\ NextVersion
    /\ Goto(s, "save")
    /\ due' = changes + 1
    /\ UNCHANGED <<up, data, fd, disk, crashes, acked, overlapped, edited, failed>>

\* Under Store.mu, by somebody who saves next: a handler, or flush (which saves
\* only what it has itself found to bill).
Change(s) ==
    /\ up
    /\ at[s] = "idle"
    /\ \A t \in Savers : ~Saving(t)
    /\ NextVersion
    /\ Goto(s, "save")
    /\ due' = changes + 1
    /\ UNCHANGED <<up, data, fd, disk, crashes, acked, overlapped, edited, failed>>

\* By a handler that edits a rule or a user where it lies, without the lock.  A
\* json.Marshal that reads meanwhile sees the field before or after the change.
ChangeUnlocked(s) ==
    /\ up
    /\ at[s] = "idle"
    /\ NextVersion
    /\ Goto(s, "save")
    /\ due' = changes + 1
    /\ edited' = (edited \/ \E t \in Savers : Saving(t))
    /\ UNCHANGED <<up, data, fd, disk, crashes, acked, overlapped, failed>>

\* By unregister, which charges what is left under Store.mu and does not save.
Charge ==
    /\ up
    /\ \A t \in Savers : ~Saving(t)
    /\ NextVersion
    /\ UNCHANGED <<up, at, data, fd, disk, crashes, past>>

-----------------------------------------------------------------------------
(* saveDB *)

\* RLock and json.Marshal.
Marshal(s) ==
    /\ at[s] = "save"
    /\ data' = [data EXCEPT ![s] = db]
    /\ Goto(s, "open")
    /\ overlapped' = (overlapped \/ \E t \in Savers : Saving(t))
    /\ UNCHANGED <<up, db, fd, disk, changes, crashes, acked, due, edited, failed>>

Free(i) == i # tmp /\ i # file /\ \A t \in Savers : fd[t] # i

\* A plausible bug: the database itself is opened, without a temporary file.
OpenTmp_InPlace(s) ==
    /\ at[s] = "open"
    /\ content' = [content EXCEPT ![file] = Torn]
    /\ fd' = [fd EXCEPT ![s] = file]
    /\ tmp' = file
    /\ Goto(s, "write")
    /\ UNCHANGED <<up, db, data, file, changes, crashes, past>>

\* os.WriteFile opens the temporary file, which another saver may have open, and
\* truncates it; or it makes a new one.
OpenTmp(s) ==
    /\ at[s] = "open"
    /\ \E i \in Inodes :
         /\ IF tmp = None THEN Free(i) ELSE i = tmp
         /\ tmp' = i
         /\ content' = [content EXCEPT ![i] = Torn]
         /\ fd' = [fd EXCEPT ![s] = i]
    /\ Goto(s, "write")
    /\ UNCHANGED <<up, db, data, file, changes, crashes, past>>

\* The bytes of a version, written from the start of a file that may hold those
\* of another: what is longer shows behind them.
Written(old, new) == IF old \in {Torn, new} THEN {new} ELSE {new, Torn}

WriteTmp(s) ==
    /\ at[s] = "write"
    /\ \E c \in Written(content[fd[s]], data[s]) :
         content' = [content EXCEPT ![fd[s]] = c]
    /\ fd' = [fd EXCEPT ![s] = None]
    /\ Goto(s, "rename")
    /\ UNCHANGED <<up, db, data, tmp, file, changes, crashes, past>>

\* The disk is full: save returns the error and leaves the temporary file.
WriteFails(s) ==
    /\ at[s] = "write"
    /\ content' = [content EXCEPT ![fd[s]] = Torn]
    /\ fd' = [fd EXCEPT ![s] = None]
    /\ Goto(s, "idle")
    /\ failed' = TRUE
    /\ UNCHANGED <<up, db, data, tmp, file, changes, crashes, acked, due, overlapped, edited>>

\* The temporary file takes the place of db.json, whoever wrote it last.
Rename(s) ==
    /\ at[s] = "rename"
    /\ tmp # None
    /\ file' = tmp
    /\ tmp' = None
    /\ Goto(s, "idle")
    /\ acked' = IF data[s] > acked THEN data[s] ELSE acked
    /\ UNCHANGED <<up, db, data, fd, content, changes, crashes, due, overlapped, edited, failed>>

\* Another saver has renamed it already: save returns an error.
RenameFails(s) ==
    /\ at[s] = "rename"
    /\ tmp = None
    /\ Goto(s, "idle")
    /\ UNCHANGED <<up, db, data, fd, disk, changes, crashes, past>>

-----------------------------------------------------------------------------
(* Crash and restart *)

Crash ==
    /\ up
    /\ crashes < MaxCrashes
    /\ crashes' = crashes + 1
    /\ up' = FALSE
    /\ at' = [s \in Savers |-> "idle"]
    /\ fd' = [s \in Savers |-> None]
    /\ UNCHANGED <<db, data, disk, changes, past>>

\* loadDB, when systemd starts the panel again.  If db.json does not parse the
\* panel ends at once, and this step is never taken.
Boot ==
    /\ ~up
    /\ content[file] # Torn
    /\ up' = TRUE
    /\ db' = content[file]
    /\ due' = content[file]
    /\ UNCHANGED <<at, data, fd, disk, changes, crashes, acked, overlapped, edited, failed>>

-----------------------------------------------------------------------------

Save(s) == Marshal(s) \/ OpenTmp(s) \/ WriteTmp(s) \/ WriteFails(s) \/ Rename(s) \/ RenameFails(s)

Next ==
    \/ \E s \in Savers : Change(s) \/ ChangeUnlocked(s) \/ Save(s)
    \/ Charge \/ Crash \/ Boot

Spec == Init /\ [][Next]_vars

-----------------------------------------------------------------------------
(* Properties *)

Whole == content[file] # Torn

\* As long as no two saves overlap, a crash at any point finds db.json whole, and
\* no older than the last save that succeeded: with writes that fail, edits
\* made during the save, and what an earlier crash left of the temporary file.
CrashSafeAlone ==
    ~overlapped => Whole /\ content[file] >= acked

\* Saves that overlap do damage on the way, but when all are over db.json is
\* whole and has everything that anybody undertook to save, also what a saver
\* saved whose rename failed: the lock kept the store as it was, so all have
\* written the same.  This needs that nobody edited without the lock meanwhile,
\* and that no write failed.
CompleteAtRest ==
    up /\ ~edited /\ ~failed /\ (\A s \in Savers : at[s] = "idle")
        => Whole /\ content[file] >= due

\* The comment of save says that it writes the file atomically.
SaveIsAtomic == Whole
=============================================================================
