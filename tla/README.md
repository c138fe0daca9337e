# A TLA+ development of the zhuanfa port-forwarding panel

The program is a Go server (`src/*.go`). Users own *rules*: a public TCP or UDP port that is relayed to a
target, either directly or through a child process, **realm**, that listens on a local internal port.
The panel admits and meters the traffic itself, charges it to the port, the user and the user's group, and cuts
a user who is over quota. Almost everything that can go wrong is concurrency: goroutines share counters,
maps and pointers under several mutexes that are held for less than one operation.

Every definition is translated from the source at the lines that `PROJECT.json` ("map") names.

## 1. Inventory

| Component (source) | State | Operations | Interacts with |
|---|---|---|---|
| Admission, records, statistics (`relay.go` 246-324, 338-395, 452-488; `storage.go` 214-262, 407-441, 488-528, 626-653) | the sniffed bytes; ring of records (3000, or as set, 100 to 20000), counters per day | accept, sniff, judge, dial, `AddRecord`, `DayEvent`, `IncConn`, save and load of records, views | detection, store, accounting |
| Protocol detection (`detect.go`) | none (pure) | classify the first bytes, check against the rule | admission |
| TCP traffic accounting (`relay.go` 62-73, 117-159, 270-411, 541-578; `storage.go` 454-486, 530-574) | `conns`, a connection's `upBytes`/`downBytes` and `killed`, totals of port, user, group and day | register, pump, unregister, flush, reset of a user or a group | store (`AddTraffic`), API (resets), bucket |
| UDP sessions (`relay.go` 423-539) | map client -> session, `rc`, `last`, `killed`; the listener | main loop, cleaner, `readLoop` per session | flush (kill, swap), `Reload` (closes the listener), realm (target) |
| Port rules and listeners (`api.go` 605-753, 858-1118; `relay.go` 176-223) | `store.db.Ports`, `Relay.tcp`, `Relay.udp` | create, batch create, edit, delete, delete a user, `Reload` | store, realm (`applyPorts` calls both) |
| Realm internal ports (`realm.go` 47-124, 193-206, `storage.go` 576-624) | map rule -> internal port; what realm serves | allocate by config or by dial, prune, free | relay dials, `genConfig` |
| Realm supervisor (`realm.go`, `main.go` 35-74, `api.go` 817-854) | `cmd`, `done`, `exited`; the configuration file; processes | `apply` = stop, `genConfig`, write, start; a waiting goroutine per process; health check | store, every rule handler, systemd |
| Users, groups, settings (`api.go` 138-171, 317-603, 817-849) | `db.Users`, `db.Groups`, `db.Seq`, ranges, the default group | check-then-act handlers | store, sessions, rules |
| Login sessions (`auth.go`, `api.go` 28-120) | token -> user identifier, expiry | create, get, delete, cleanup; login, logout, register | API middleware, users |
| Token bucket (`relay.go` 13-58, 235-245) | tokens, last refill; map of buckets | `Wait`; replaced by `Reload` | pumps, `readLoop`, UDP main loop |
| Store: persistence (`storage.go` 196-289) | `db`, `records`, two files | load, save, periodic save | everything |
| System monitor, web pages, echo tool, installer | - | input and output | - |

**What is hard here.**

* *Counting against billing.* Pumps add to counters without a lock, the flush swaps them out and bills them
  later, `unregister` swaps and bills as well, and a reset zeroes them in between (`relay.go` 117, 325, 541).
* *Two owners of one session.* The UDP main loop writes to sessions that the cleaner, a reader or the end of
  the listener takes away at the same time (`relay.go` 430-521).
* *Check, then act.* Handlers check under one lock and change under the next (`api.go` 138 / 666, 144-171, 572),
  or change shared objects under none (`api.go` 415-440, 692-733; `storage.go` 192).
* *Names that outlive things.* A session names a user, a dial an internal port, an accept loop a rule, each of which
  may have been deleted and made anew (`auth.go` 97, `realm.go` 201, `relay.go` 231).
* *Processes.* `apply` is not serialised, and the goroutine of an old process writes fields that by then
  describe a new one (`realm.go` 101-178).
* *Bytes in pieces.* The protocol is judged by what happened to arrive before a deadline (`relay.go` 246-268).
* *Limits.* Quotas, the burst of a bucket, the ring of records, the range of internal ports.

**What makes each component correct.**

* Accounting: a counted unit is charged exactly once or explicitly forgiven by a reset; the total of a group
  covers its members', but for what they brought along from another; who is over quota is cut; what was counted is
  settled some day.
* Admission: the decision does not depend on how the bytes were cut; each is recorded, counted and registered
  once; no client can keep its connection undecided; the records are the newest, numbered without a gap.
* UDP: no upstream socket without an owner; every registered session reachable by its cleaner; what goes out
  is billed; a killed session goes away although its client is silent.
* Rules: numbers unique, owners exist; every active rule has its listeners, every listener is on the number of one, and each
  number is served by the rule that has it.
* Internal ports: one rule per port; a dial reaches the target of its own rule or none; ports come back.
* Supervisor: one realm; it runs the rules that the last apply found; its death is noticed; it comes back; `apply` ends.
* Accounts: names and ranges are given once, groups exist, a session acts for the account it was made for, and
  no deletion takes the last administrator.
* Persistence: a crash finds a whole file, as new as the last save that succeeded; what was to be saved gets there.
* Bandwidth: what Wait lets through is bounded, whoever shares the bucket and whatever Reload replaces.

## 2. Plan

Done, in this order:

1. `Ledger` (abstract), `Traffic`, `RelayProofs`: the accounting, its ledger and the refinement between them.
2. `RealmSupervisor`, `RealmProofs`.
3. `UdpSessions`, `UdpProofs`.
4. `PortRules`, `PortProofs`; then numbers and owners for requests that do not overlap.
5. `Saving`, `SavingProofs`: how the store reaches the disk.
6. `TokenBucket`, and its part of `RelayProofs`: the bandwidth limit.
7. `Detect`, an operator, and `Admission`, which uses it, `AdmissionProofs`: from a connection's first byte to its record.
8. `Accounts`, `AccountsProofs`: users, groups, sessions and settings.
9. `InternalPorts`, `InternalPortProofs`.

Next, most important first:

* a rate that changes in `TokenBucket` (`relay.go` 235-245), and the bucket the UDP main loop waits for;
* `InternalPorts` with `RealmSupervisor` in place of its own view of what realm serves, which would say exactly when a
  stop leaves a realm running;
* enabled and expired users in `Accounts` (who may log in, when nobody can);
* what the sums over sessions in `UdpSessions` are, as `RelayProofs` has it for the totals of `Traffic`.

All modules are written to be proved about: constants with named assumptions, one action per operation, no
recursion.

## 3. Modules

Each component has a module, each `MC...` module only names values for TLC.

| Module | Models | Correspondence |
|---|---|---|
| `Ledger` | what accounting promises | per connection: a unit is forwarded, then charged or forgiven; a connection closes once, owing nothing |
| `Traffic` | a TCP connection from `canUse` to settlement, the flush, both resets, moves of users between groups | `bytes` = `upBytes`/`downBytes`; `taken` = what `unregister` swapped out; `flush` = the flush goroutine's locals; `reset` = the handler's; `registry` = `conns`; `memberOf` = `User.GroupID`, `billTo` = the `groupID` a connection took from it |
| `UdpSessions` | one UDP listener with its goroutines | `map`, `client`, `reader`, `rcOpen`, `main` as in the code; `refused` = an ICMP error pending on the upstream socket |
| `Detect` | `detectProtocol`, `allowedFor` | operators on sequences of bytes, one per test of the code |
| `Admission` | `sniffTCP`, the decision in `handleTCP` and for a first datagram, `logRecord`, `register`, the records' file | `conn` = each handler's locals; `records`, `seq` as in the store; `day`, `total` = what was added since the start; `saved` = `records.json` |
| `PortRules` | handlers that change rules, `Reload` | `rule` = the `Port` objects by pointer, `listed` = `db.Ports`, `socket` = `Relay.tcp/udp` with the rule each loop was started with, `req` = the handlers' progress |
| `InternalPorts` | `internalPort`, `genConfig`, pruning and freeing, a dial from accept to realm | `table` = `db.RealmPorts`; `running` = what realm serves; `orphans` = what realms that were left running may serve; `enabled` = the flag of the rule objects, which deleted ones keep; `proc` = each handler's and each connection's locals |
| `RealmSupervisor` | apply, requests that end before it, waiting goroutines, health check, restarts of the panel | `cmd`, `done`, `exited` as in `RealmManager`; `waiter` = a goroutine per process; `ap` = each apply's locals |
| `Accounts` | handlers of users, their roles, groups, settings, login; the session store | `user` = the `User` objects by pointer, `users` = `db.Users`, `admins` = those with the role; `groups`, `seq`, `defaultGroup`, `sessions` as in the code; `req` = a request and its step of `Path` |
| `TokenBucket` | `Wait`, and the buckets `Reload` replaces | `tokens`, `last` as in the code; `current` = the user's entry in `Relay.buckets`; `bucket` = the one a caller found when its connection began; `missing`, `due`, `asked` = a sleeping caller's locals |
| `Saving` | `saveDB`, its temporary file, crash and load | `at`, `data`, `fd` = each saver's place in `saveDB`, its bytes and its open file; `tmp`, `file` = the two names; `content` = the inodes; `db` = the store, as a version number |

The components meet at narrow places, where one module stands for the other by what it can do: the handlers of
`Admission` end where connections of `Traffic` and `UdpSessions` begin; `InternalPorts` has realm only as what it
serves, which may vanish at any time, or stay when it should not, while `RealmSupervisor` has the rules only as a version; `PortRules` deletes
a user's rules, `Accounts` the user.

**Grain.** A critical section of one mutex is one step when everything it touches is under that mutex. What
the code does outside of a lock, and every atomic counter, is a step of its own. So `flush` is start (copy of
the registry), a swap per counter, a bill per connection, then a step per user over quota; `Reload`, which holds `Relay.mu`
all the way, is one step; an edit is a step per field it can be refused after; `NextID`, which takes no lock, is a
read and a write; `internalPort` is a look-up, a choice and a store. Goroutine-local state is in
records (`flush`, `reset`, `req`, `ap`, `main`, `conn`, `proc`).

**Abstractions.** A unit of traffic is one successful read, or one datagram. Time is only whether a timer has
expired, but in `TokenBucket`, where it is counted in the time one token takes, and for sessions, which expire after so
many hours unused. A rate that changes is left out of `TokenBucket`; a listener's loop counts as one caller per session it
serves. In `PortRules` the ranges are constants; targets, names and protocols allowed are left out. In `UdpSessions` `unregister` is one step, as its race with the
flush is `Traffic`'s subject. All rules of a batch share their flags, as in the request. In `Admission` the causes of a
refusal by `canUse` are one flag that may change at any moment, a record is its identifier, and the two lengths that
sniffing and WireGuard share are small. In `Accounts` a session
acts as administrator if its account has the role at that moment, enabled or not, as in the code.
In `InternalPorts` a stop may leave realm running as soon as realm has once died or requests have overlapped; in the code
this takes as well that the goroutine of a dead process comes late to mark it (`realm.go` 154), which `RealmSupervisor` has. A rule object, a connection and a
session are used once, because `NextID` and `connSeq` never repeat in one run; where `NextID` may repeat, `Accounts` has it so.

**Names with an underscore** (`FlushSwap_Load`, `Clean_IdleOnly`, ...) are plausible mistakes in the definition
that follows them; `PROJECT.json` ("mutants") says which property each one breaks.

## 4. Runs

`tlc -config X.cfg MCmodule`. Passing runs, with what they show:

| Run | Bounds | Shows |
|---|---|---|
| `TrafficSafety` | two users with a connection each, a unit each (in either direction), two groups, one with quota 1, one reset of either kind, one move | `Conservation`: each unit read is charged once, still owed or forgiven, at every interleaving of pumps, flush, unregister and reset; `NothingLeftBehind`: a finished connection leaves no counter behind; `UserTotalIsExact`: the user's total is the charges since his reset, and no more; `GroupCoversUsers`: a group's total is never less than its members' together, but for what they brought along |
| `TrafficLive` | two connections of one user, one of them silent, a unit, one reset of either kind | `OverQuotaIsCut` and `EveryUnitSettles`; `ImplementsLedger`: the accounting is an implementation of `Ledger` |
| `UdpLoop` | one client, two sessions, quota 2, two datagrams up, two down | `NoOrphanSocket`, `RegisteredIsMapped`, `UpIsBilled` and `LossIsBounded` against idle timeouts, kills, failed writes and the end of the listener; `KilledIsReaped` with a silent client, `ClosedListenerEmpties` |
| `PortRequests` | three rules, three numbers, one busy, two users, three requests, two of them at once, one of them failing half-way | `UniqueNumbers`, `OwnersExist`, `EveryRuleListens`, `ServesItsRule` as long as requests do not overlap or fail; `NoStrayListener` whatever happens: each listener is on the number of an active rule, for a protocol that its own rule asks for or has given up |
| `InternalPorts` | three rules, a pool of two ports, two handlers, one connection, four requests, or three where one ran beside another, any number of deaths of realm | `OneRulePerPort` unless two allocations raced; `DialsArrive`: a connection whose dial no request overtakes gets to its own rule's target or nowhere, also when the rule was deleted, unless a realm that was left running serves there; `NothingLeaks`: a rule switched off or deleted gives its port back |
| `RealmRecovery` | two changes, each followed by an apply or by none, one switch of mode, a handler, health check and boot with one apply beside another, one failing write or start, one crash of realm, one kill of the panel | `OneRealmWhileCalm`, `CurrentWhileCalm` until the first crash or overlap: realm has the rules the last apply found; `RunningIsWatched` and `DeathIsNoticed` always; `RealmComesBack`: the health check restores realm for good, with those rules; `ApplyReturns` |
| `Accounts` | the seeded account and one more name, one range, two handlers, three requests, one beside another, two sessions that expire at once when unused | `NothingShared`, `GroupsExist`, `ActsAsItself`: each until two requests have contended for the thing it is about; `AdministratorRemains`: no deletion takes the last administrator, unless two deletions overlap |
| `AdmitAndRecord` | two connections, four streams (one for each protocol, one for none; a WireGuard message is four to five bytes), a ring of one or two, one edit, one restart | `SegmentsDoNotMatter`, `EveryDecisionRecorded`, `RingIsNewest`; `EveryConnectionDecided` |
| `BucketBound` | two callers, two buckets (one Reload), two tokens a second, up to three asked for at once, three ticks | `NeverOverdrawn`, `SleepPays` and `ExcessIsBounded`: the rate holds per bucket and per caller, if not for both together |
| `SavingCrash` | three savers, four inodes, four changes, a crash, any number of failed writes | `CrashSafeAlone`: while no two saves have overlapped, `db.json` is whole at every moment and as new as the last save that succeeded; `CompleteAtRest`: also after saves that overlapped, once all are over, it has everything somebody undertook to save |

The bounds are the smallest with all the actors in conflict: two connections give a flush one to swap while
the other finishes, a reset falls on either, and a quota of one lets the kill come before the last unit; one move has charges before it,
in the flush's hands during it and after it, with a reset of either group before or behind. Two UDP
sessions are a session and its successor, which is what a stale reader or cleaner could confuse. Three rules
and three numbers give a conflict, a free number and a third party. Three rules for two internal ports exhaust the pool, and
four requests reach create, create, switch off or delete, create again: a port that changes hands, also under a realm that
was left running. Two accounts
and three requests reach a deletion and a creation with a session from before. Streams of up to six
bytes with a limit of five have every cut, and a buffer beyond the limit. A token bucket of rate two has a
capacity of three, so three asked for can find it full, short and empty. Three savers are one that holds the temporary file, one that takes it and one
that comes between them. Two applies at once, or one crash, are already enough for the failures of the
supervisor; the passing run has both. All disjuncts of every next-state relation are taken by these runs.

**Conditions.** Many promises of this code hold only for requests that do not overlap. The models say when that ends
with history variables: `raced` and `crowded` (`InternalPorts`), `met` (`Accounts`, one entry per thing that can be
contended for), the budget of overlaps (`PortRules`, `RealmSupervisor`, `Saving`). Others end, or promise less, by what
somebody did: realm died and a stop left it running (`died` and `orphans`, `InternalPorts`), an edit took a role away (`demoted`,
`Accounts`), a rule gave a protocol up (`gaveUp`, `PortRules`), a user moved (`brought`, `Traffic`), rules changed without an apply
(`applied`, the rules of the last one, `RealmSupervisor`). The behaviours beyond are in the models
and explored in the runs; what goes wrong in them is listed below.

Deadlock is not checked: with every bound used up and every request answered the models rightly stop.

### Disagreements between the code and what it says

Each of these runs violates one property that a comment or the repository's README states. `PROJECT.json`
("findings") quotes the line.

| Run | Property | What happens |
|---|---|---|
| `BucketRate` | `RateKept` | the time a caller sleeps for missing tokens is accrued by the bucket as well: one connection alone gets twice the rate |
| `SavingTorn` | `SaveIsAtomic` | two saves share the temporary file: the second empties what the first puts in place of `db.json`; a panel that ends then cannot start again |

Others came up while the models were written; each is behaviour the models contain, and no run is kept for it:

* A reset that falls between the flush's swap and its charge lets traffic from before it come back to the totals it has
  just cleared (`relay.go` 552-556), which `relay.go` 117 says it discards.
* `OneRealm` fails after a crash of realm: the goroutine of the dead process marks its successor as exited (`realm.go` 154),
  so the next stop leaves that one running (`realm.go` 168) and a second is started beside it.
* Such an orphan goes on serving its old table, on ports that the table may have given to other rules since: a connection of
  theirs then reaches the target of the rule that had the port before (`realm.go` 168, 201). Without its last case `DialsArrive` fails.
* A request that changes the rules and ends in an error leaves a living realm on the old ones: a batch whose save fails
  (`api.go` 1026, 1057), an edit refused half-way (`api.go` 702, 706-724). The health check asks only whether realm runs
  (`main.go` 66), so this lasts until some other request applies; `ConfigCurrent` is therefore about the last apply's rules.
* An edit that moves a user to another group takes his total along but leaves both groups' as they are (`api.go` 429), and
  the connections he has go on charging the group he left (`relay.go` 312): a group's total may fall below its members' together.
* The last administrator may demote or disable himself, or let himself expire (`api.go` 435-439), where `api.go` 445 keeps him
  from deleting himself. A disabled or expired one cannot log in again (`api.go` 197-204), though his session serves on.
* The members of a group do not share a bucket: buckets are keyed by user (`relay.go` 371, 491), where README.md:22 of the
  repository and `relay.go` 235 speak of one for the group.
* The quota of a group is compared with each member's own total (`relay.go` 283, 563), where README.md:23 of the
  repository speaks of the group's total.
* `UniqueNumbers` fails when requests overlap: both find a number free before either appends (`api.go` 138, 666),
  where `storage.go` 326 calls numbers globally unique.
* `CompleteAtRest` fails without its condition on edits: two saves overlap, an edit made without the lock between them
  (`api.go` 692-733), and the saver that has the renamed file still open writes over a longer or newer `db.json`.
* `ServesItsRule` fails when an edit is refused after it has moved the rule's number (`api.go` 702, 709-733): a new rule
  may take the old number, and `Reload`, which looks at numbers only (`relay.go` 192, 205), leaves it the old rule's listener.
* `ConfigCurrent` fails when applies overlap: the older configuration may be written last (`realm.go` 119).
* `ApplyReturns` fails when applies overlap: a goroutine closes whatever channel `rm.done` holds by then
  (`realm.go` 157), and a stop (`realm.go` 171) waits for one that nobody will close.
* The first apply starts realm in direct mode too (`realm.go` 123 does not look at the mode that `main.go` 35 speaks of).
* An edit of a rule's number alone does not look at its owner's ranges (`api.go` 702).
* A rule that gives up TCP or UDP keeps that listener as long as its number has any active rule (`relay.go` 191-203), which
  is why `NoStrayListener` excepts it.
* Only the client's datagrams count as activity of a UDP session (`relay.go` 506): one that carries
  nothing but answers is closed after 120 s.
* One refused datagram, as while realm restarts, ends `readLoop` and not the session (`relay.go` 527), which then
  carries the client's datagrams and drops every answer.
* `unregister` charges what was left and saves nothing (`relay.go` 332): a panel that ends before the next flush with
  traffic loses it.
* `sniffTCP` may return up to 295 bytes where `relay.go` 246 says at most 148: a buffer short of the limit is
  followed by one more full read. What begins like a WireGuard handshake is therefore judged by where its bytes were cut.
* `detect.go` 17 lists the fixed lengths of WireGuard messages; any from 64 to 148 is accepted.
* Statistics of past days are never removed: `DayStat`, which removes those from before 90 days (`storage.go` 415), has no
  caller.
* An edit of a user that is refused for its ranges has changed the name and the group already (`api.go` 415).
* The default group may be deleted; registration then fails until another is set (`api.go` 572).
* Two users with one identifier, which overlapping creations may make (`storage.go` 192), are not compared with each
  other by `validateUserRanges`, and deleting one deletes both.
* A connection of a rule that was switched off while it was on its way takes an internal port for it again
  (`realm.go` 201), which stays taken until the next apply that finds an active rule (`realm.go` 97).

### Fairness

`Spec` has none. `FairSpec` assumes weak fairness of goroutines that have something to do, which the Go
scheduler gives:

* `Traffic`: flush (a ticker that is never stopped), a reset in progress, unregister, register,
  and a pump *only* where it must move by itself: it holds a unit, or its source is closed. Peers
  need never send, close or accept.
* `UdpSessions`: the main loop's own steps, flush, the cleaner, a reader that has a datagram in hand or whose socket
  is closed. Clients and targets owe nothing.
* `RealmSupervisor`: steps of an apply, of a process's goroutine, the health check, the death of a process that
  was sent SIGKILL, and the start of the panel by systemd (`install.sh` 112, `Restart=always`).
* `Admission`: each handler, which ends its sniffing by a deadline if by nothing else, and whose dial has a
  timeout. Clients need not send or close.

No strong fairness is used.

## 5. Proofs

Checked by TLAPS for all values of the constants that meet the assumptions of the modules.

**`RelayProofs`, accounting.** The inductive invariant is `IInv == TypeOK /\ Stages /\ Conservation`. `Conservation` by
itself is not inductive: a swap must know that the place it swaps to is empty (`taken`, or the amount in the
flush's hands), and closing needs to know that both pumps have returned. `Stages` says exactly that of each stage.
Each conjunct is preserved action by action (`TypeStep`, `StagesStep`, `ConservationStep`); the subtractions
stay in Nat because `TypeOK` is part of it. From `IInv`: `TypeCorrect`, `ConservationHolds`, `NothingLeft`.
`LedgerImplemented` shows that every step is a step of `Ledger` (a pump's read forwards, a bill settles, a reset
forgives, the last step of unregister closes) or a stutter, under the mapping in `Traffic`; three lemmas
(`ForwardStep`, `SettleStep`, `CloseStep`) say what has to be shown for each.

`UserTotals` and `GroupTotals` are about sums over the connections of a user and the users of a group. `SumFunctionOnSet`
is a fold, which is defined by recursion over finite sets; nothing can be proved about it by induction, as the induction
theorems take an operator as a parameter. Instead `RelayProofs` takes a smallest set for which a sum does not do what it
should (`MinimalSet`: the strict subsets of a finite set are well-founded), removes one element, and has a
contradiction. What follows is a handful of lemmas: a sum is an integer, grows by what one summand grows by, and does
not change if no summand does. With these `Charged` (a user's total is the sum of what his connections were charged) and `Covered`
(no user has brought more than he has, and a group's total is at least the sum of the rest) are inductive: a bill adds to the
user's group or to what he brought, and a move makes all he has part of that (`TotalsMove`).

**`RealmProofs`.** `RealmTypeCorrect`, and `RunningAlwaysWatched`: a process that counts as running has a goroutine
that will record its exit. It is inductive with `TypeOK`, and it is what remains true while `OneRealm` fails:
the mistakes of the supervisor lose processes to stop, never the notice of the current one's death.
`OneRealmBeforeTrouble` and `CurrentBeforeTrouble` hold until applies overlap or realm exits by itself for the first time. Their
invariant, `CalmInv`, says that there is no process at all (`Down`), or the one that `cmd` names and nobody has stopped
(`Runs`), or the one an apply is stopping (`Leaves`), that the goroutines of all others have ended, and what the one apply under way
has established by where it is (`Reached`), which is of the rules it found when it began; at rest that is what `Served` says of `applied`. The goroutine of a stopped process still marks and closes; in `Leaves` it can only
do so to the channel that was its own.

**`PortProofs`.** `PortsTypeCorrect` needs that a request in progress holds only rules that exist (`Grounded`).
`NoStray` follows from `Lagging == Pending \/ Matched`: the listeners are on numbers of active
rules, or some request has still to apply, or one has failed to; and from `Asked`: what the rule of a listener does not ask for it
has given up. Every change of the rules sets `Pending`, and only
`Reload` clears it, which matches the listeners to the rules. `NumbersUnique` and `OwnersRemain` hold until the first
overlap (`AloneInv`): till then at most one request is under way (`OneAtATime`), and what its checks have found is still so
when it acts on it (`StillFree`, with the rest in `Orderly`). `RulesListen` adds `HeardInv`: every active rule has its listeners or
a change is still to be applied; `Reload` makes it so because no two rules have one number. `ListenersServe` adds, while
no edit was refused half-way, that a listener whose number a rule has is that rule's (`Mine`), and that the numbers a request
is about to write have none (`Reserved`).

**`InternalPortProofs`.** `OnePort` rests on `Sole`: until two allocations race, one at most is under way, its rule has no port yet,
and the port it has chosen is nobody's. For `DialsGetThere`, `Calm` says that one request at most is under way (`OneRequest`) and none
during a dial that counts as not overtaken (`Undisturbed`); `Agree` says that the configuration being made, what realm serves
outside of a request (`Built`, `Served`), and the port a connection has in hand (`Arriving`) are those of the table. A request that is
making a configuration has ended what realm served (`Ended`), and nothing was left running while realm has not died (`Left`), so that
only an orphan can answer for another rule; orphans and the death stay on record (`Lasts`), so that an arrival once excused remains so.
`TableHasWhatIsServed` is the part of it that holds at rest. `PortsComeBack` adds `Tidy`: a request takes ports for
active rules only, and after it has pruned the table every rule there is active or was entered since by a connection.

**`UdpProofs`.** For any number of sessions, clients and datagrams. One invariant gives all four: an open socket is
registered and what is registered is in the map (`Held`), an entry of the map is the client's own session (`Mapped`), the main
loop's is in the map or gone from it (`Serving`), a session not made yet has nothing (`Unmade`), and an unregistered one has nothing
left to bill but what main loop or reader had in hand (`Settled`).

**`AdmissionProofs`.** `SegmentsNeverMatter` reduces to a lemma on `detectProtocol` (`ThreeBytesDecide`: from the third byte on, the
first three bytes alone decide, unless the stream begins like a WireGuard handshake) and to what a handler has in its
buffer being a prefix of the stream (`Sound`). `RingStaysNewest` is two lemmas on sequences: appending and cutting from the front
leaves no gap (`AppendKeeps`), and the last identifier that a start finds in the file is that of its newest record (`LastIsNewest`), where
the file may be of any age. `DecisionsAreRecorded` counts the handlers between two stages; a step moves one of them.

**`AccountsProofs`.** For any number of handlers, requests, names, ranges and accounts. `Typed` is `TypeOK` with what a request
needs of what its earlier steps have found (`Ready`: the object an edit holds has the identifier it was asked for). `Apart` says that whatever
two requests under way contend for is in `met`; so where it is not, no other request is of a kind that could
disturb this one, and what each check has found is still so when the request acts on it. That is one invariant per
theorem: another administrator is listed when an account is about to be deleted, because the session that asked is one's
(`LeavesAdmin`, `AskedBy`, for `AdministratorLeft`); the group in
hand exists, and nobody is in the one about to be deleted (`GroupsKept`, for `GroupsThere`); the number in hand is the next and then one
that nobody bears, and no two accounts ever had the same (`Numbered`, for `EverybodyAsItself`); the name and the ranges in hand are nobody
else's (`NamesKept`, `RangesKept`, for `NothingIsShared`). The last two need `Numbered`: an edit leaves its own account
out of the comparison by its identifier. A lemma per step (`NameSet`, `Looking`, `UserAppended`, ...) says what it does to
the accounts and where it leads its request, so that the five invariants are proved from these and not from the definitions.

**`RelayProofs`, bandwidth.** For every rate, capacity and number of callers: `BucketTypeCorrect`; `BucketNotOverdrawn`; and
`CallerSleeps`. The invariant says when each bucket last accrued (`Accrued`: what it gave out and holds came from its
first second and the time until then) and that the sleeps of one caller follow each other (`Sleeps`: the one
in progress ends no earlier than all slept so far). `ExcessBounded` sums them over the buckets made and the callers, with the equation
(`LetThrough`) that what has passed and what sleeping callers have drawn already is what all buckets gave out and all callers slept for.

**`SavingProofs`.** `SavingTypeCorrect`, and `CrashSafe`: `CrashSafeAlone` for any number of savers, changes and crashes.
The invariant `IInv` adds what a saver relies on while it is the only one (`Solo`: it has the temporary file open,
what it wrote is still there, nothing newer has been acknowledged), that the temporary file is not `db.json`, and that no
version is newer than the last change (`Bounded`), as otherwise a change could go back behind one already saved. All of
it falls with the first overlap, which `OverlapStays` records. `CompleteWhenAllRest` is about what saves that do overlap leave behind, while
nobody edits without the lock and no write fails: all savers have marshalled the same store (`Steady`), a torn file is
still being filled (`Filling`), and a `db.json` too old will be replaced (`Ahead`).

**Only model-checked**: liveness (`OverQuotaIsCut`, `EveryUnitSettles`, `KilledIsReaped`, `ClosedListenerEmpties`,
`DeathIsNoticed`, `RealmComesBack`, `ApplyReturns`, `EveryConnectionDecided`), as the prover has no rules for it. Every safety property
that a run checks is proved. The types of the totals in `UdpSessions` are not proved beyond
what the theorems need, as the billed amount is a sum over sessions.

## 6. Not modelled

* Views: lists of records with their filters and cursor, daily statistics, encodings. They only read.
* The change of date: a new `DayStat` begins at midnight; the counters of one day are modelled.
* Passwords, and users disabled or expired, but for what `canUse` says of them (`barred` in `Admission`): `Accounts`
  lets every account log in that the code may let in. Bandwidth and quota settings of groups are constants of `Traffic` and `TokenBucket`.
* A bucket whose rate changes while somebody waits.
* For good: the system monitor, the web pages, the echo tool and the installer, which only read and print; password hashing, which
  is cryptography; realm itself, which is another program and appears only as a process that lives, listens and dies.
