---------------------------- MODULE TokenBucket ----------------------------
(***************************************************************************)
(* The bandwidth limit (relay.go: TokenBucket, Relay.bucket).              *)
(*                                                                         *)
(* A user has one bucket at a time.  Every pump of his connections, every  *)
(* reader of his UDP sessions and the loops of his UDP listeners call Wait *)
(* on the bucket they found when the connection or session began; Reload   *)
(* throws the map of buckets away, so later ones find another.  A caller   *)
(* passes on its bytes when Wait returns.                                  *)
(*                                                                         *)
(* Time is counted in the time one token takes: a bucket accrues a token   *)
(* per tick, a second has Rate ticks, and a wait of missing / rate seconds *)
(* is one of missing ticks.  Amounts are whole numbers of tokens, where    *)
(* the code rounds no coarser than a nanosecond.  A user without a limit   *)
(* has no bucket and is left out.                                          *)
(***************************************************************************)
EXTENDS Integers, FiniteSets, Functions

CONSTANTS
    Callers,    \* goroutines that call Wait
    Buckets,    \* each made once
    NoBucket,       \* no bucket
    Rate,       \* tokens per second, hence ticks per second
    MaxAsk,     \* bound: tokens asked for at once (a buffer, a datagram)
    MaxTime     \* bound: ticks

ASSUME NoBucketAssumption == NoBucket \notin Buckets \cup Nat
ASSUME CallersAssumption == IsFiniteSet(Callers) /\ IsFiniteSet(Buckets)
ASSUME RateAssumption == Rate \in Nat \ {0}
ASSUME BoundAssumption == MaxAsk \in Nat /\ MaxTime \in Nat

VARIABLES
    now,        \* the clock
    current,    \* Relay.buckets: the user's bucket
    tokens,     \* of each bucket
    last,       \* of each bucket: when it last accrued
    bucket,     \* of each caller, NoBucket when it has no connection
    missing,    \* of a caller asleep in Wait: what it sleeps for; else 0
    due,        \* of a caller asleep: when it may wake
    asked,      \* of a caller asleep: the argument of Wait
    \* history variables, read by no action
    born,       \* of each bucket: when it was made, or NoBucket
    drawn,      \* of each bucket: tokens taken out
    slept,      \* of each caller: tokens it has slept for
    passed      \* all that Wait has let through

bucketVars == <<current, tokens, last, born, drawn>>
callerVars == <<bucket, missing, due, asked, slept>>
limitVars == <<now, bucketVars, callerVars, passed>>

\* A second and a half of tokens.
Cap == (3 * Rate) \div 2

BucketTypeOK ==
    /\ now \in Nat
    /\ current \in Buckets \cup {NoBucket}
    /\ tokens \in [Buckets -> 0 .. Cap]
    /\ last \in [Buckets -> Nat]
    /\ bucket \in [Callers -> Buckets \cup {NoBucket}]
    /\ missing \in [Callers -> Nat]
    /\ due \in [Callers -> Nat]
    /\ asked \in [Callers -> Nat]
    /\ born \in [Buckets -> Nat \cup {NoBucket}]
    /\ drawn \in [Buckets -> Nat]
    /\ slept \in [Callers -> Nat]
    /\ passed \in Nat

BucketInit ==
    /\ now = 0
    /\ current = NoBucket
    /\ tokens = [b \in Buckets |-> 0]
    /\ last = [b \in Buckets |-> 0]
    /\ bucket = [c \in Callers |-> NoBucket]
    /\ missing = [c \in Callers |-> 0]
    /\ due = [c \in Callers |-> 0]
    /\ asked = [c \in Callers |-> 0]
    /\ born = [b \in Buckets |-> NoBucket]
    /\ drawn = [b \in Buckets |-> 0]
    /\ slept = [c \in Callers |-> 0]
    /\ passed = 0

Awake(c) == missing[c] = 0
Lesser(m, n) == IF m < n THEN m ELSE n

-----------------------------------------------------------------------------
(* Relay.bucket and Reload *)

\* A connection or session begins and finds its user's bucket.
OpenKnown(c) ==
    /\ bucket[c] = NoBucket
    /\ current # NoBucket
    /\ bucket' = [bucket EXCEPT ![c] = current]
    /\ UNCHANGED <<now, bucketVars, missing, due, asked, slept, passed>>

\* The first since Reload: a bucket is made, with the tokens of a second.
OpenNew(c) ==
    /\ bucket[c] = NoBucket
    /\ current = NoBucket
    /\ \E b \in Buckets :
         /\ born[b] = NoBucket
         /\ current' = b
         /\ tokens' = [tokens EXCEPT ![b] = Rate]
         /\ last' = [last EXCEPT ![b] = now]
         /\ born' = [born EXCEPT ![b] = now]
         /\ bucket' = [bucket EXCEPT ![c] = b]
    /\ UNCHANGED <<now, drawn, missing, due, asked, slept, passed>>

Close(c) ==
    /\ bucket[c] # NoBucket
    /\ Awake(c)
    /\ bucket' = [bucket EXCEPT ![c] = NoBucket]
    /\ UNCHANGED <<now, bucketVars, missing, due, asked, slept, passed>>

\* The map is replaced; who holds a bucket keeps it.
Reload ==
    /\ current # NoBucket
    /\ current' = NoBucket
    /\ UNCHANGED <<now, tokens, last, born, drawn, callerVars, passed>>

-----------------------------------------------------------------------------
(* Wait *)

\* What the bucket holds now that it has accrued since the last call.
Refilled(b) == Lesser(tokens[b] + (now - last[b]), Cap)

\* A plausible bug: the time of the refill is not recorded.
TakeAll_NoLast(c, b, n) ==
    /\ Refilled(b) >= n
    /\ tokens' = [tokens EXCEPT ![b] = Refilled(b) - n]
    /\ drawn' = [drawn EXCEPT ![b] = @ + n]
    /\ passed' = passed + n
    /\ UNCHANGED <<last, missing, due, asked>>

\* There are enough tokens: Wait returns at once.
TakeAll(c, b, n) ==
    /\ Refilled(b) >= n
    /\ tokens' = [tokens EXCEPT ![b] = Refilled(b) - n]
    /\ last' = [last EXCEPT ![b] = now]
    /\ drawn' = [drawn EXCEPT ![b] = @ + n]
    /\ passed' = passed + n
    /\ UNCHANGED <<missing, due, asked>>

\* A plausible bug: the bucket is not emptied by who sleeps for the rest.
TakeSome_Keeps(c, b, n) ==
    /\ Refilled(b) < n
    /\ tokens' = [tokens EXCEPT ![b] = Refilled(b)]
    /\ last' = [last EXCEPT ![b] = now]
    /\ drawn' = [drawn EXCEPT ![b] = @ + Refilled(b)]
    /\ missing' = [missing EXCEPT ![c] = n - Refilled(b)]
    /\ due' = [due EXCEPT ![c] = now + n - Refilled(b)]
    /\ asked' = [asked EXCEPT ![c] = n]
    /\ UNCHANGED passed

\* There are not: the caller takes what there is and sleeps for the rest, while
\* the bucket, empty, goes on accruing for others.
TakeSome(c, b, n) ==
    /\ Refilled(b) < n
    /\ tokens' = [tokens EXCEPT ![b] = 0]
    /\ last' = [last EXCEPT ![b] = now]
    /\ drawn' = [drawn EXCEPT ![b] = @ + Refilled(b)]
    /\ missing' = [missing EXCEPT ![c] = n - Refilled(b)]
    /\ due' = [due EXCEPT ![c] = now + n - Refilled(b)]
    /\ asked' = [asked EXCEPT ![c] = n]
    /\ UNCHANGED passed

Wait(c) ==
    /\ bucket[c] # NoBucket
    /\ Awake(c)
    /\ \E n \in 1 .. MaxAsk : TakeAll(c, bucket[c], n) \/ TakeSome(c, bucket[c], n)
    /\ UNCHANGED <<now, current, bucket, born, slept>>

\* A plausible bug: the sleep ends early (a context that is cancelled, say), and
\* the bytes are passed on all the same.
Wake_Early(c) ==
    /\ ~Awake(c)
    /\ slept' = [slept EXCEPT ![c] = @ + missing[c]]
    /\ passed' = passed + asked[c]
    /\ missing' = [missing EXCEPT ![c] = 0]
    /\ due' = [due EXCEPT ![c] = 0]
    /\ asked' = [asked EXCEPT ![c] = 0]
    /\ UNCHANGED <<now, bucketVars, bucket>>

\* time.Sleep ends, at its time or later.
Wake(c) ==
    /\ ~Awake(c)
    /\ now >= due[c]
    /\ slept' = [slept EXCEPT ![c] = @ + missing[c]]
    /\ passed' = passed + asked[c]
    /\ missing' = [missing EXCEPT ![c] = 0]
    /\ due' = [due EXCEPT ![c] = 0]
    /\ asked' = [asked EXCEPT ![c] = 0]
    /\ UNCHANGED <<now, bucketVars, bucket>>

Tick ==
    /\ now < MaxTime
    /\ now' = now + 1
    /\ UNCHANGED <<bucketVars, callerVars, passed>>

-----------------------------------------------------------------------------

BucketNext ==
    \/ \E c \in Callers : OpenKnown(c) \/ OpenNew(c) \/ Close(c) \/ Wait(c) \/ Wake(c)
    \/ Reload \/ Tick

BucketSpec == BucketInit /\ [][BucketNext]_limitVars

-----------------------------------------------------------------------------
(* Properties *)

Made == {b \in Buckets : born[b] # NoBucket}

\* A bucket gives out no more than the tokens of its first second and those of
\* the time since, however its callers interleave and whoever still holds it
\* after a Reload.
NeverOverdrawn ==
    \A b \in Made : drawn[b] <= Rate + (now - born[b])

\* What a caller got beyond the tokens of buckets it paid with its own time, one
\* sleep after the other.
SleepPays ==
    \A c \in Callers : slept[c] <= now

\* So Wait does limit what it lets through, in spite of Reload: to the rate of a
\* bucket for each bucket made, and once more for each caller.  This is what the
\* code guarantees, and less than what it says.
ExcessIsBounded ==
    passed <=   SumFunctionOnSet([b \in Made |-> Rate + (now - born[b])], Made)
              + SumFunctionOnSet([c \in Callers |-> now], Callers)

\* The comments promise the rate with a burst of a second and a half, for all
\* who share the bucket.
RateKept ==
    \A b \in Buckets : Made \subseteq {b} => passed <= Cap + now
=============================================================================
