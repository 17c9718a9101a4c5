---------------------------- MODULE RateLimiter ----------------------------
(***************************************************************************)
(* The per-vehicle token bucket of app/notifications/ratelimit.py, which   *)
(* every notification passes before any database work.                     *)
(*                                                                         *)
(* A bucket holds up to Burst tokens and gains one per Interval. Tokens are*)
(* counted in units of 1/Interval, so a fraction of a token is a natural   *)
(* number: one token is Interval units and a unit of time refills one. An  *)
(* Interval of 0 is the code's "no limit". Buckets that are full again are *)
(* forgotten, and the whole table is when it holds too many.               *)
(***************************************************************************)
EXTENDS Integers, Sequences, FiniteSets

CONSTANTS
    Vehicles,       \* the ids that publishers send
    Interval,       \* interval_seconds
    Burst,          \* burst
    MaxTracked,     \* max_tracked
    MaxTime         \* bound on the clock

ASSUME LimiterAssumption ==
    /\ Interval \in Nat /\ Burst \in Nat \ {0} /\ MaxTracked \in Nat /\ MaxTime \in Nat

VARIABLES
    now,        \* the monotonic clock
    buckets,    \* _last_seen: what each bucket held when it was last stamped
    log         \* history: when each vehicle was admitted since the table was last cleared

limiterVars == <<now, buckets, log>>

\* The capacity of a bucket.
Full == Burst * Interval

\* A vehicle the table does not know.
NoBucket == [credit |-> 0, at |-> -1]

LimiterTypeOK ==
    /\ now \in Nat
    /\ buckets \in [Vehicles -> [credit : Nat, at : Nat \cup {-1}]]
    /\ log \in [Vehicles -> Seq(Nat)]

LimiterInit ==
    /\ now = 0
    /\ buckets = [v \in Vehicles |-> NoBucket]
    /\ log = [v \in Vehicles |-> <<>>]

-----------------------------------------------------------------------------
\* Mutant: the refill is not capped at the burst size.
LevelUncapped(v) ==
    IF buckets[v] = NoBucket THEN Full ELSE buckets[v].credit + (now - buckets[v].at)

\* What acquire finds in a bucket: the stamped count and the refill since, at most Full.
Level(v) ==
    LET refilled == buckets[v].credit + (now - buckets[v].at)
    IN  IF buckets[v] = NoBucket \/ refilled > Full THEN Full ELSE refilled

\* A vehicle must wait.
Suppressed(v) == Level(v) < Interval

\* The cutoff of _evict_locked.
Expired(b) == b # NoBucket /\ b.at < now - Interval * (Burst + 1)

Evicted(bs) == [v \in Vehicles |-> IF Expired(bs[v]) THEN NoBucket ELSE bs[v]]

Tracked(bs) == {v \in Vehicles : bs[v] # NoBucket}

\* The backstop of _evict_locked.
TooMany(bs) == Cardinality(Tracked(bs)) > MaxTracked

\* The table after acquire took a token, stamped the bucket and evicted the old ones.
Taken(v) == Evicted([buckets EXCEPT ![v] = [credit |-> Level(v) - Interval, at |-> now]])

\* acquire with a token in the bucket. Without one acquire changes nothing.
Acquire(v) ==
    /\ ~Suppressed(v)
    /\ IF TooMany(Taken(v))
       THEN /\ buckets' = [w \in Vehicles |-> NoBucket]
            /\ log' = [w \in Vehicles |-> <<>>]
       ELSE /\ buckets' = Taken(v)
            /\ log' = [log EXCEPT ![v] = Append(@, now)]
    /\ UNCHANGED now

Tick ==
    /\ now < MaxTime
    /\ now' = now + 1
    /\ UNCHANGED <<buckets, log>>

LimiterNext == Tick \/ \E v \in Vehicles : Acquire(v)

LimiterSpec == LimiterInit /\ [][LimiterNext]_limiterVars

-----------------------------------------------------------------------------
\* Between any two notifications that were admitted lie Interval seconds for every
\* notification beyond the burst, whatever the table forgot between them
\* (ratelimit.py:12-17, 59-71, 78-80).
RateIsKept == \A v \in Vehicles : \A i, j \in 1..Len(log[v]) :
    i <= j => (j - i + 1) * Interval <= Full + (log[v][j] - log[v][i])

\* A vehicle whose last notification is Interval seconds old is admitted: the notifications
\* suppressed since do not lengthen its wait (ratelimit.py:60-69).
NoStarvation == \A v \in Vehicles :
    log[v] # <<>> /\ now - log[v][Len(log[v])] >= Interval => ~Suppressed(v)

\* "An entry whose bucket has had time to refill completely can no longer suppress
\* anything, so dropping it cannot change a decision" (ratelimit.py:74-80): another
\* vehicle's notification changes no level, unless the table is cleared.
EvictionIsInvisible == [][\A v \in Vehicles :
    log'[v] = log[v] /\ now' = now /\ buckets' # [w \in Vehicles |-> NoBucket]
        => Level(v)' = Level(v)]_limiterVars

=============================================================================
