---------------------------- MODULE LimitsProofs ----------------------------
(***************************************************************************)
(* The limits of the server.                                               *)
(*                                                                         *)
(* The rate of a vehicle's notifications, for any number of vehicles, any  *)
(* interval, burst and table size: the invariant ties what a bucket holds  *)
(* to the history: from each admission on, what was admitted since and the *)
(* level together never exceed a full bucket and the time that has passed. *)
(* De-duplication: a message that passed is behind its type cache entry,   *)
(* or past its window. Failed logins: a counted failure is in memory, past *)
(* its window, or its address is blocked for longer than its window.       *)
(***************************************************************************)
EXTENDS SecurityManager, NotificationDedup, FiniteSetTheorems, SequenceTheorems, TLAPS

\* A bucket's stamp is in the past and its count within the capacity.
BucketsInv == \A v \in Vehicles :
    buckets[v] # NoBucket => buckets[v].at \in 0..now /\ buckets[v].credit \in 0..Full

\* Admissions lie in the past.
LogInv == \A v \in Vehicles : \A i \in 1..Len(log[v]) : log[v][i] <= now

\* What was admitted since the i-th notification, and what may be at once.
BudgetInv == \A v \in Vehicles : \A i \in 1..Len(log[v]) :
    (Len(log[v]) - i + 1) * Interval + Level(v) <= Full + (now - log[v][i])

\* A vehicle that was admitted has a bucket stamped then, or a full one.
StampInv == \A v \in Vehicles : log[v] # <<>> =>
    buckets[v] = NoBucket \/ buckets[v].at = log[v][Len(log[v])]

LimiterInv == LimiterTypeOK /\ BucketsInv /\ LogInv /\ BudgetInv /\ StampInv /\ RateIsKept

LEMMA FullType == Full \in Nat /\ Interval <= Full
<1>1. Interval \in Nat /\ Burst \in Nat /\ Burst >= 1
  BY LimiterAssumption
<1> QED
  BY <1>1 DEF Full

LEMMA LevelType ==
  ASSUME LimiterTypeOK, BucketsInv, NEW v \in Vehicles
  PROVE  Level(v) \in 0..Full
<1>1. Full \in Nat
  BY FullType
<1>2. buckets[v] \in [credit : Nat, at : Nat \cup {-1}] /\ now \in Nat
  BY DEF LimiterTypeOK
<1>3. CASE buckets[v] = NoBucket
  BY <1>1, <1>3 DEF Level
<1>4. CASE buckets[v] # NoBucket
  <2>1. buckets[v].at \in 0..now /\ buckets[v].credit \in 0..Full
    BY <1>4 DEF BucketsInv
  <2> QED
    BY <1>1, <1>2, <2>1 DEF Level
<1> QED
  BY <1>3, <1>4

\* A bucket that _evict_locked drops was full.
LEMMA ExpiredIsFull ==
  ASSUME LimiterTypeOK, BucketsInv, NEW v \in Vehicles, Expired(buckets[v])
  PROVE  Level(v) = Full
<1>1. Full \in Nat /\ Interval \in Nat /\ Burst \in Nat
  BY FullType, LimiterAssumption
<1>2. Interval * (Burst + 1) = Full + Interval
  BY <1>1 DEF Full
<1>3. buckets[v] # NoBucket /\ buckets[v].at < now - (Full + Interval)
  BY <1>2 DEF Expired
<1>4. buckets[v].at \in 0..now /\ buckets[v].credit \in 0..Full /\ now \in Nat
  BY <1>3 DEF BucketsInv, LimiterTypeOK
<1>5. buckets[v].credit + (now - buckets[v].at) > Full
  BY <1>1, <1>3, <1>4
<1> QED
  BY <1>5 DEF Level

\* The buckets after an admission that does not clear the table.
LEMMA TakenLevels ==
  ASSUME LimiterTypeOK, BucketsInv, NEW v \in Vehicles,
         ~Suppressed(v), buckets' = Taken(v), now' = now
  PROVE  /\ buckets' \in [Vehicles -> [credit : Nat, at : Nat \cup {-1}]]
         /\ BucketsInv'
         /\ buckets'[v] = [credit |-> Level(v) - Interval, at |-> now]
         /\ Level(v)' = Level(v) - Interval
         /\ \A w \in Vehicles \ {v} :
              Level(w)' = Level(w) /\ buckets'[w] \in {NoBucket, buckets[w]}
<1> DEFINE new == [credit |-> Level(v) - Interval, at |-> now]
<1>1. Full \in Nat /\ Interval \in Nat /\ Burst \in Nat /\ Interval <= Full
  BY FullType, LimiterAssumption
<1>2. now \in Nat /\ Level(v) \in 0..Full /\ Level(v) >= Interval
  BY LevelType, <1>1 DEF LimiterTypeOK, Suppressed
<1>3. new \in [credit : Nat, at : Nat] /\ new # NoBucket /\ new.at = now
        /\ new.credit = Level(v) - Interval /\ new.credit \in 0..Full
  BY <1>1, <1>2 DEF NoBucket
<1>4. ~Expired(new)
  <2>1. Interval * (Burst + 1) \in Nat
    BY <1>1
  <2> QED
    BY <1>2, <1>3, <2>1 DEF Expired
<1>5. buckets'[v] = new
  BY <1>4 DEF Taken, Evicted, LimiterTypeOK
<1>6. \A w \in Vehicles \ {v} :
        buckets'[w] = IF Expired(buckets[w]) THEN NoBucket ELSE buckets[w]
  BY DEF Taken, Evicted, LimiterTypeOK
<1>7. DOMAIN buckets' = Vehicles /\ buckets' = [w \in Vehicles |-> buckets'[w]]
  BY DEF Taken, Evicted
<1> HIDE DEF new
<1>8. Level(v)' = Level(v) - Interval
  <2>1. now - now = 0
    BY <1>2
  <2> QED
    BY <1>1, <1>2, <1>3, <1>5, <2>1 DEF Level, Full
<1>9. ASSUME NEW w \in Vehicles \ {v}
      PROVE  Level(w)' = Level(w) /\ buckets'[w] \in {NoBucket, buckets[w]}
  <2>1. CASE Expired(buckets[w])
    BY <1>6, <2>1, ExpiredIsFull DEF Level, Full
  <2>2. CASE ~Expired(buckets[w])
    BY <1>6, <2>2 DEF Level, Full
  <2> QED
    BY <2>1, <2>2
<1>10. BucketsInv'
  <2> SUFFICES ASSUME NEW w \in Vehicles, buckets'[w] # NoBucket
               PROVE  buckets'[w].at \in 0..now /\ buckets'[w].credit \in 0..Full
    BY DEF BucketsInv, Full, NoBucket
  <2>1. CASE w = v
    BY <1>2, <1>3, <1>5, <2>1
  <2>2. CASE w # v
    BY <1>9, <2>2 DEF BucketsInv
  <2> QED
    BY <2>1, <2>2
<1>11. buckets' \in [Vehicles -> [credit : Nat, at : Nat \cup {-1}]]
  <2> SUFFICES ASSUME NEW w \in Vehicles
               PROVE  buckets'[w] \in [credit : Nat, at : Nat \cup {-1}]
    BY <1>7
  <2>1. NoBucket \in [credit : Nat, at : Nat \cup {-1}]
    BY DEF NoBucket
  <2>2. CASE w = v
    <3>1. [credit : Nat, at : Nat] \subseteq [credit : Nat, at : Nat \cup {-1}]
      OBVIOUS
    <3> QED
      BY <1>3, <1>5, <2>2, <3>1
  <2>3. CASE w # v
    BY <1>9, <2>1, <2>3 DEF LimiterTypeOK
  <2> QED
    BY <2>2, <2>3
<1> QED
  BY <1>2, <1>5, <1>8, <1>9, <1>10, <1>11 DEF new, LimiterTypeOK

\* Time adds at most one unit to a bucket.
LEMMA TickLevels ==
  ASSUME LimiterTypeOK, BucketsInv, Tick, NEW v \in Vehicles
  PROVE  Level(v)' \in Int /\ Level(v)' <= Level(v) + 1
<1>1. Full \in Nat /\ now \in Nat /\ now' = now + 1 /\ buckets' = buckets
  BY FullType DEF Tick, LimiterTypeOK
<1>2. CASE buckets[v] = NoBucket
  BY <1>1, <1>2 DEF Level, Full, NoBucket
<1>3. CASE buckets[v] # NoBucket
  <2>1. buckets[v].at \in 0..now /\ buckets[v].credit \in 0..Full
    BY <1>3 DEF BucketsInv
  <2> DEFINE old == buckets[v].credit + (now - buckets[v].at)
             new == buckets[v].credit + ((now + 1) - buckets[v].at)
  <2>2. new = old + 1 /\ old \in Int
    BY <1>1, <2>1
  <2>3. Level(v) = IF old > Full THEN Full ELSE old
    BY <1>3 DEF Level
  <2>4. Level(v)' = IF new > Full THEN Full ELSE new
    BY <1>1, <1>3 DEF Level, Full, NoBucket
  <2> HIDE DEF old, new
  <2> QED
    BY <1>1, <2>2, <2>3, <2>4
<1> QED
  BY <1>2, <1>3

\* A unit of time pays for a unit of refill.
LEMMA PaidByTime ==
  ASSUME NEW o \in Int, NEW l \in Int, NEW m \in Int, NEW f \in Int, NEW t \in Int, NEW a \in Int,
         o + l <= f + (t - a), m <= l + 1
  PROVE  o + m <= f + ((t + 1) - a)
  OBVIOUS

\* What is owed never exceeds the budget on its own.
LEMMA WithinBudget ==
  ASSUME NEW o \in Int, NEW l \in Int, NEW i \in Int, NEW f \in Int, NEW t \in Int, NEW a \in Int,
         o + (l - i) <= f + (t - a), l >= i
  PROVE  o <= f + (t - a)
  OBVIOUS

\* A token moves from the level to the admissions.
LEMMA TokenMoves ==
  ASSUME NEW o \in Int, NEW l \in Int, NEW i \in Int
  PROVE  (o + i) + (l - i) = o + l
  OBVIOUS

\* One more admission after k of them.
LEMMA OneMore == ASSUME NEW k \in Int PROVE (k + 1) * Interval = k * Interval + Interval
  BY LimiterAssumption

LEMMA InitInv == LimiterInit => LimiterInv
<1> SUFFICES ASSUME LimiterInit PROVE LimiterInv
  OBVIOUS
<1>1. LimiterTypeOK
  BY DEF LimiterInit, LimiterTypeOK, NoBucket
<1>2. \A v \in Vehicles : log[v] = <<>> /\ buckets[v] = NoBucket
  BY DEF LimiterInit
<1> QED
  BY <1>1, <1>2 DEF LimiterInv, BucketsInv, LogInv, BudgetInv, StampInv, RateIsKept

LEMMA TickInv == LimiterInv /\ Tick => LimiterInv'
<1> SUFFICES ASSUME LimiterInv, Tick PROVE LimiterInv'
  OBVIOUS
<1> USE DEF LimiterInv
<1>1. now \in Nat /\ now' = now + 1 /\ buckets' = buckets /\ log' = log
  BY DEF Tick, LimiterTypeOK
<1>2. log \in [Vehicles -> Seq(Nat)] /\ Interval \in Nat /\ Full \in Nat
  BY FullType, LimiterAssumption DEF LimiterTypeOK
<1>3. LimiterTypeOK'
  BY <1>1 DEF LimiterTypeOK
<1>4. BucketsInv'
  BY <1>1 DEF BucketsInv, NoBucket, Full
<1>5. LogInv'
  BY <1>1, <1>2 DEF LogInv
<1>6. StampInv'
  BY <1>1 DEF StampInv, NoBucket
<1>7. RateIsKept'
  BY <1>1 DEF RateIsKept, Full
<1>8. BudgetInv'
  <2> SUFFICES ASSUME NEW v \in Vehicles, NEW i \in 1..Len(log[v])
               PROVE  (Len(log[v]) - i + 1) * Interval + Level(v)'
                        <= Full + ((now + 1) - log[v][i])
    BY <1>1 DEF BudgetInv, Full
  <2> DEFINE owed == (Len(log[v]) - i + 1) * Interval
  <2>1. owed + Level(v) <= Full + (now - log[v][i])
    BY DEF BudgetInv
  <2>2. Level(v)' \in Int /\ Level(v)' <= Level(v) + 1 /\ Level(v) \in Int
    BY TickLevels, LevelType, <1>2
  <2>3. owed \in Int /\ log[v][i] \in Int
    BY <1>2
  <2>4. owed + Level(v)' <= Full + ((now + 1) - log[v][i])
    <3>1. Full \in Int /\ now \in Int
      BY <1>1, <1>2
    <3> HIDE DEF owed
    <3> QED
      BY <3>1, <2>1, <2>2, <2>3, PaidByTime
  <2> QED
    BY <2>4
<1> QED
  BY <1>3, <1>4, <1>5, <1>6, <1>7, <1>8

LEMMA ClearInv ==
  ASSUME LimiterInv, now' = now, buckets' = [w \in Vehicles |-> NoBucket],
         log' = [w \in Vehicles |-> <<>>]
  PROVE  LimiterInv'
<1>1. LimiterTypeOK'
  BY DEF LimiterInv, LimiterTypeOK, NoBucket
<1>2. \A v \in Vehicles : log'[v] = <<>> /\ buckets'[v] = NoBucket
  OBVIOUS
<1>3. BucketsInv' /\ StampInv'
  BY <1>2 DEF BucketsInv, StampInv, NoBucket
<1>4. LogInv' /\ BudgetInv' /\ RateIsKept'
  BY <1>2 DEF LogInv, BudgetInv, RateIsKept
<1> QED
  BY <1>1, <1>3, <1>4 DEF LimiterInv

LEMMA TakenInv ==
  ASSUME LimiterInv, NEW v \in Vehicles, ~Suppressed(v), now' = now, buckets' = Taken(v),
         log' = [log EXCEPT ![v] = Append(@, now)]
  PROVE  LimiterInv'
<1> USE DEF LimiterInv
<1>1. now \in Nat /\ log \in [Vehicles -> Seq(Nat)]
        /\ Interval \in Nat /\ Full \in Nat /\ Interval <= Full
  BY FullType, LimiterAssumption DEF LimiterTypeOK
<1>2. /\ buckets' \in [Vehicles -> [credit : Nat, at : Nat \cup {-1}]]
      /\ BucketsInv'
      /\ buckets'[v] = [credit |-> Level(v) - Interval, at |-> now]
      /\ Level(v)' = Level(v) - Interval
      /\ \A w \in Vehicles \ {v} :
           Level(w)' = Level(w) /\ buckets'[w] \in {NoBucket, buckets[w]}
  BY TakenLevels
<1>3. Level(v) \in 0..Full /\ Level(v) >= Interval
  BY LevelType, <1>1 DEF Suppressed
<1>4. /\ log' \in [Vehicles -> Seq(Nat)]
      /\ Len(log'[v]) = Len(log[v]) + 1 /\ Len(log[v]) \in Nat
      /\ log'[v][Len(log[v]) + 1] = now
      /\ \A i \in 1..Len(log[v]) : log'[v][i] = log[v][i] /\ log[v][i] \in Nat
      /\ \A w \in Vehicles \ {v} : log'[w] = log[w]
  BY <1>1
<1>5. LimiterTypeOK'
  BY <1>1, <1>2, <1>4 DEF LimiterTypeOK
<1>6. LogInv'
  <2> SUFFICES ASSUME NEW w \in Vehicles, NEW i \in 1..Len(log'[w])
               PROVE  log'[w][i] <= now
    BY DEF LogInv
  <2>1. CASE w = v /\ i = Len(log[v]) + 1
    BY <1>1, <1>4, <2>1
  <2>2. CASE w = v /\ i # Len(log[v]) + 1
    BY <1>4, <2>2 DEF LogInv
  <2>3. CASE w # v
    BY <1>4, <2>3 DEF LogInv
  <2> QED
    BY <2>1, <2>2, <2>3
<1>7. StampInv'
  <2> SUFFICES ASSUME NEW w \in Vehicles, log'[w] # <<>>
               PROVE  buckets'[w] = NoBucket \/ buckets'[w].at = log'[w][Len(log'[w])]
    BY DEF StampInv, NoBucket
  <2>1. CASE w = v
    BY <1>2, <1>4, <2>1
  <2>2. CASE w # v
    BY <1>2, <1>4, <2>2 DEF StampInv
  <2> QED
    BY <2>1, <2>2
<1>8. ASSUME NEW i \in 1..(Len(log[v]) + 1)
      PROVE  (Len(log'[v]) - i + 1) * Interval + (Level(v) - Interval)
               <= Full + (now - log'[v][i])
  <2>1. CASE i = Len(log[v]) + 1
    <3>1. Len(log'[v]) - i + 1 = 1 /\ now - log'[v][i] = 0
      BY <1>1, <1>4, <2>1
    <3>2. 1 * Interval + (Level(v) - Interval) = Level(v) /\ Full + 0 = Full
      BY <1>1, <1>3
    <3>3. Level(v) <= Full
      BY <1>1, <1>3
    <3> QED
      BY <3>1, <3>2, <3>3
  <2>2. CASE i \in 1..Len(log[v])
    <3> DEFINE k == Len(log[v]) - i + 1
               owed == k * Interval
    <3>1. k \in Int /\ Len(log'[v]) - i + 1 = k + 1 /\ log'[v][i] = log[v][i] /\ log[v][i] \in Nat
      BY <1>4, <2>2
    <3>2. (k + 1) * Interval = owed + Interval
      BY <3>1, OneMore
    <3>3. owed + Level(v) <= Full + (now - log[v][i]) /\ owed \in Int
      BY <1>1, <1>4, <2>2, <3>1 DEF BudgetInv
    <3>4. (owed + Interval) + (Level(v) - Interval) = owed + Level(v)
      <4>1. Level(v) \in Int /\ Interval \in Int
        BY <1>1, <1>3
      <4> HIDE DEF owed
      <4> QED
        BY <3>3, <4>1, TokenMoves
    <3>5. (k + 1) * Interval + (Level(v) - Interval) <= Full + (now - log'[v][i])
      <4> HIDE DEF owed, k
      <4> QED
        BY <3>1, <3>2, <3>3, <3>4
    <3> QED
      BY <3>1, <3>5
  <2> QED
    BY <1>4, <2>1, <2>2
<1>9. BudgetInv'
  <2> SUFFICES ASSUME NEW w \in Vehicles, NEW i \in 1..Len(log'[w])
               PROVE  (Len(log'[w]) - i + 1) * Interval + Level(w)' <= Full + (now - log'[w][i])
    BY DEF BudgetInv, Full
  <2>1. CASE w = v
    BY <1>2, <1>4, <1>8, <2>1
  <2>2. CASE w # v
    BY <1>2, <1>4, <2>2 DEF BudgetInv
  <2> QED
    BY <2>1, <2>2
<1>10. RateIsKept'
  <2> SUFFICES ASSUME NEW w \in Vehicles, NEW i \in 1..Len(log'[w]), NEW j \in 1..Len(log'[w]),
                      i <= j
               PROVE  (j - i + 1) * Interval <= Full + (log'[w][j] - log'[w][i])
    BY DEF RateIsKept, Full
  <2>1. CASE w # v
    BY <1>4, <2>1 DEF RateIsKept
  <2>2. CASE w = v /\ j # Len(log[v]) + 1
    BY <1>4, <2>2 DEF RateIsKept
  <2>3. CASE w = v /\ j = Len(log[v]) + 1
    <3> DEFINE owed == (j - i + 1) * Interval
    <3>1. owed + (Level(v) - Interval) <= Full + (now - log'[v][i])
      BY <1>4, <1>8, <2>3
    <3>2. owed \in Int /\ log'[v][i] \in Int
      BY <1>1, <1>4, <2>3
    <3>3. owed <= Full + (now - log'[v][i])
      <4>1. Full \in Int /\ now \in Int /\ Interval \in Int /\ Level(v) \in Int
               /\ Level(v) >= Interval
        BY <1>1, <1>3
      <4> HIDE DEF owed
      <4> QED
        BY <3>1, <3>2, <4>1, WithinBudget
    <3> QED
      BY <1>4, <2>3, <3>3
  <2> QED
    BY <2>1, <2>2, <2>3
<1> QED
  BY <1>2, <1>5, <1>6, <1>7, <1>9, <1>10

LEMMA NextInv == LimiterInv /\ [LimiterNext]_limiterVars => LimiterInv'
<1> SUFFICES ASSUME LimiterInv, [LimiterNext]_limiterVars PROVE LimiterInv'
  OBVIOUS
<1>1. CASE Tick
  BY <1>1, TickInv
<1>2. ASSUME NEW v \in Vehicles, Acquire(v) PROVE LimiterInv'
  <2>1. CASE TooMany(Taken(v))
    BY <1>2, <2>1, ClearInv DEF Acquire
  <2>2. CASE ~TooMany(Taken(v))
    BY <1>2, <2>2, TakenInv DEF Acquire
  <2> QED
    BY <2>1, <2>2
<1>3. CASE UNCHANGED limiterVars
  BY <1>3 DEF limiterVars, LimiterInv, LimiterTypeOK, BucketsInv, LogInv, BudgetInv, StampInv,
              RateIsKept, Level, Full, NoBucket
<1> QED
  BY <1>1, <1>2, <1>3 DEF LimiterNext

\* The invariant holds of every behaviour of the limiter (ratelimit.py).
THEOREM LimiterInvariant == LimiterSpec => []LimiterInv
<1> QED
  BY InitInv, NextInv, PTL DEF LimiterSpec

\* No run of admitted notifications beats the burst and the sustained rate, however the
\* table is evicted (ratelimit.py:59-80).
THEOREM RateIsAlwaysKept == LimiterSpec => []RateIsKept
<1>1. LimiterInv => RateIsKept
  BY DEF LimiterInv
<1> QED
  BY <1>1, LimiterInvariant, PTL

\* A vehicle that was last admitted an interval ago is admitted, however often it was
\* suppressed since (ratelimit.py:60-69).
THEOREM NobodyStarves == LimiterSpec => []NoStarvation
<1>1. LimiterInv => NoStarvation
  <2> SUFFICES ASSUME LimiterInv, NEW v \in Vehicles, log[v] # <<>>,
                      now - log[v][Len(log[v])] >= Interval
               PROVE  Level(v) >= Interval /\ Level(v) \in Int
    BY LimiterAssumption DEF NoStarvation, Suppressed
  <2>1. Full \in Nat /\ Interval \in Nat /\ Interval <= Full /\ now \in Nat
    BY FullType, LimiterAssumption DEF LimiterInv, LimiterTypeOK
  <2>2. CASE buckets[v] = NoBucket
    BY <2>1, <2>2 DEF Level
  <2>3. CASE buckets[v] # NoBucket
    <3>1. buckets[v].at = log[v][Len(log[v])]
      BY <2>3 DEF LimiterInv, StampInv
    <3>2. buckets[v].at \in 0..now /\ buckets[v].credit \in 0..Full
      BY <2>3 DEF LimiterInv, BucketsInv
    <3> QED
      BY <2>1, <2>3, <3>1, <3>2 DEF Level
  <2> QED
    BY <2>2, <2>3
<1> QED
  BY <1>1, LimiterInvariant, PTL

\* Short of a clear, forgetting old buckets changes no decision (ratelimit.py:74-80).
THEOREM EvictionChangesNothing == LimiterSpec => EvictionIsInvisible
<1> DEFINE same(v) == log'[v] = log[v] /\ now' = now
                        /\ buckets' # [w \in Vehicles |-> NoBucket] => Level(v)' = Level(v)
<1>1. ASSUME LimiterInv, [LimiterNext]_limiterVars, NEW v \in Vehicles
      PROVE  same(v)
  <2>1. CASE Tick
    <3>1. now' # now
      BY <1>1, <2>1 DEF Tick, LimiterInv, LimiterTypeOK
    <3> QED
      BY <3>1
  <2>2. ASSUME NEW w \in Vehicles, Acquire(w) PROVE same(v)
    <3>1. CASE TooMany(Taken(w))
      BY <2>2, <3>1 DEF Acquire
    <3>2. CASE ~TooMany(Taken(w)) /\ v # w
      BY <1>1, <2>2, <3>2, TakenLevels DEF Acquire, LimiterInv
    <3>3. CASE ~TooMany(Taken(w)) /\ v = w
      <4>1. log[v] \in Seq(Nat) /\ now \in Nat /\ log'[v] = Append(log[v], now)
        BY <1>1, <2>2, <3>3 DEF Acquire, LimiterInv, LimiterTypeOK
      <4>2. Len(log'[v]) # Len(log[v])
        BY <4>1
      <4> QED
        BY <4>2
    <3> QED
      BY <3>1, <3>2, <3>3
  <2>3. CASE UNCHANGED limiterVars
    BY <2>3 DEF limiterVars, Level, Full, NoBucket
  <2> QED
    BY <1>1, <2>1, <2>2, <2>3 DEF LimiterNext
<1>2. LimiterInv /\ [LimiterNext]_limiterVars => [\A v \in Vehicles : same(v)]_limiterVars
  BY <1>1
<1> QED
  BY <1>2, LimiterInvariant, PTL DEF LimiterSpec, EvictionIsInvisible

-----------------------------------------------------------------------------
(***************************************************************************)
(* De-duplication                                                          *)
(***************************************************************************)
Messages == [vehicle : Vehicles, key : Keys, body : Bodies, at : Nat, fate : Fates]

\* What the proof needs of the types.
DedupTypes ==
    /\ now \in Nat /\ messages \in Seq(Messages)
    /\ last \in [Vehicles -> 0..Len(messages)]
    /\ lastType \in [Vehicles \X Keys -> 0..Len(messages)]
    /\ queue \in Seq(1..Len(messages)) /\ cleared \in 0..Len(messages)

\* Messages came in the order of their times.
InOrder == \A m, n \in 1..Len(messages) : m <= n => messages[m].at <= messages[n].at /\ messages[n].at <= now

\* A fate of a message that the caches let pass.
Passing(fate) == fate \notin {"duplicate", "similar"}

\* What is queued has passed the caches.
QueuedPassed == \A i \in 1..Len(queue) : Passing(messages[queue[i]].fate)

\* A vehicle's slot is held by one of its own messages.
SlotIsOwn == \A v \in Vehicles : last[v] # 0 => messages[last[v]].vehicle = v

\* The type cache remembers the message that passed, a later one, or its window is over.
Remembered == \A m \in 1..Len(messages) :
    cleared < m /\ Passing(messages[m].fate) => \/ lastType[<<messages[m].vehicle, messages[m].key>>] >= m
                            \/ now - messages[m].at > Window

DedupInv == DedupTypes /\ InOrder /\ QueuedPassed /\ SlotIsOwn /\ Remembered /\ OnePerWindow

\* What a message consists of.
LEMMA MessageFields ==
    ASSUME NEW ms \in Seq(Messages), NEW i \in 1..Len(ms)
    PROVE  ms[i] \in Messages /\ ms[i].vehicle \in Vehicles /\ ms[i].key \in Keys /\ ms[i].at \in Nat
<1>1. ms[i] \in Messages
  OBVIOUS
<1>2. \A r \in Messages : r.vehicle \in Vehicles /\ r.key \in Keys /\ r.at \in Nat
  BY DEF Messages
<1>q. QED  BY <1>1, <1>2

\* A sequence of messages after one of them got another fate.
LEMMA FateChanges ==
    ASSUME NEW ms \in Seq(Messages), NEW m \in 1..Len(ms), NEW f \in Fates
    PROVE  LET new == [ms EXCEPT ![m].fate = f]
           IN  /\ new \in Seq(Messages) /\ Len(new) = Len(ms)
               /\ \A i \in 1..Len(ms) :
                     /\ new[i].vehicle = ms[i].vehicle /\ new[i].key = ms[i].key
                     /\ new[i].body = ms[i].body /\ new[i].at = ms[i].at
                     /\ new[i].fate = IF i = m THEN f ELSE ms[i].fate
<1> DEFINE old == ms[m]
           one == [old EXCEPT !.fate = f]
           new == [ms EXCEPT ![m] = one]
<1>1. old \in Messages
  OBVIOUS
<1> HIDE DEF old
<1>2. /\ one \in Messages /\ one.vehicle = old.vehicle /\ one.key = old.key /\ one.body = old.body
      /\ one.at = old.at /\ one.fate = f
  BY <1>1 DEF Messages
<1> HIDE DEF one
<1>3. new \in Seq(Messages) /\ Len(new) = Len(ms)
  BY <1>2
<1>4. \A i \in 1..Len(ms) : new[i] = IF i = m THEN one ELSE ms[i]
  BY <1>2
<1>5. new = [ms EXCEPT ![m].fate = f]
  BY DEF one, old
<1> HIDE DEF new
<1>q. QED  BY <1>2, <1>3, <1>4, <1>5 DEF old

\* Old messages keep what they are, and a fate that let them pass; what is not mentioned stays.
Same == /\ Len(messages) <= Len(messages')
        /\ \A i \in 1..Len(messages) :
             /\ messages'[i].vehicle = messages[i].vehicle /\ messages'[i].key = messages[i].key
             /\ messages'[i].at = messages[i].at
             /\ Passing(messages'[i].fate) <=> Passing(messages[i].fate)

\* A step in which no message comes.
LEMMA NoneComes ==
    ASSUME DedupInv, Same, Len(messages') = Len(messages), messages' \in Seq(Messages),
           UNCHANGED <<lastType, cleared>>, now' \in Nat, now' >= now,
           queue' \in {queue, Tail(queue)}, queue # <<>> \/ queue' = queue,
           last' \in [Vehicles -> 0..Len(messages)],
           \A v \in Vehicles : last'[v] # 0 =>
              last'[v] = last[v] /\ (messages[last[v]].fate # "thrown" => messages'[last[v]].fate # "thrown")
    PROVE  DedupInv'
<1>1. /\ DedupTypes /\ InOrder /\ QueuedPassed /\ SlotIsOwn /\ Remembered /\ OnePerWindow
  BY DEF DedupInv
<1>2. Len(messages) \in Nat /\ now \in Nat /\ Window \in Nat
      /\ \A i \in 1..Len(messages) : messages[i].at \in Nat /\ messages[i].vehicle \in Vehicles
                                   /\ messages[i].key \in Keys
  <2>1. messages \in Seq(Messages)
    BY <1>1 DEF DedupTypes
  <2>q. QED  BY <1>1, <2>1, MessageFields, DedupAssumption DEF DedupTypes
<1>3. queue' \in Seq(1..Len(messages)) /\ \A i \in 1..Len(queue') : \E j \in 1..Len(queue) : queue'[i] = queue[j]
  <2>1. queue \in Seq(1..Len(messages))
    BY <1>1 DEF DedupTypes
  <2>2. CASE queue' = queue
    BY <2>1, <2>2
  <2>3. CASE queue # <<>> /\ queue' = Tail(queue)
    BY <2>1, <2>3
  <2>q. QED  BY <2>2, <2>3
<1>4. DedupTypes'
  BY <1>1, <1>3 DEF DedupTypes
<1>5. InOrder'
  BY <1>1, <1>2 DEF InOrder, Same
<1>6. QueuedPassed'
  <2>1. \A j \in 1..Len(queue) : queue[j] \in 1..Len(messages)
    BY <1>1 DEF DedupTypes
  <2>2. ASSUME NEW i \in 1..Len(queue') PROVE Passing(messages'[queue'[i]].fate)
    <3>1. PICK j \in 1..Len(queue) : queue'[i] = queue[j]
      BY <1>3
    <3>2. Passing(messages[queue[j]].fate) /\ queue[j] \in 1..Len(messages)
      BY <1>1, <2>1 DEF QueuedPassed
    <3>q. QED  BY <3>1, <3>2 DEF Same
  <2>q. QED  BY <2>2 DEF QueuedPassed
<1>7. SlotIsOwn'
  BY <1>1 DEF SlotIsOwn, Same, DedupTypes
<1>8. Remembered'
  <2>1. ASSUME NEW m \in 1..Len(messages), cleared < m, Passing(messages'[m].fate)
        PROVE  \/ lastType[<<messages'[m].vehicle, messages'[m].key>>] >= m
               \/ now' - messages'[m].at > Window
    <3>1. /\ messages'[m].vehicle = messages[m].vehicle /\ messages'[m].key = messages[m].key
          /\ messages'[m].at = messages[m].at /\ Passing(messages[m].fate)
      BY <2>1 DEF Same
    <3>2. now - messages[m].at > Window => now' - messages[m].at > Window
      BY <1>2
    <3>q. QED  BY <1>1, <2>1, <3>1, <3>2 DEF Remembered
  <2>q. QED  BY <2>1 DEF Remembered
<1>9. OnePerWindow'
  <2>1. DOMAIN messages = 1..Len(messages) /\ DOMAIN messages' = 1..Len(messages)
    BY <1>1 DEF DedupTypes
  <2>q. QED  BY <1>1, <2>1 DEF OnePerWindow, Same, Let, Passing
<1>q. QED  BY <1>4, <1>5, <1>6, <1>7, <1>8, <1>9 DEF DedupInv

\* What the prune leaves of a cache: the entry itself, or none, which it is when its window
\* is over unless the whole cache went.
LEMMA Pruned ==
    ASSUME DedupTypes, NEW S, NEW cache \in [S -> 0..Len(messages)]
    PROVE  /\ Capped(Fresh(cache)) \in [S -> 0..Len(messages)]
           /\ \A x \in S : Capped(Fresh(cache))[x] \in {0, cache[x]}
           /\ Capped(Fresh(cache)) = Fresh(cache) =>
                 \A x \in S : cache[x] # 0 /\ Capped(Fresh(cache))[x] = 0 => Age(cache[x]) > Window
<1>1. 0 \in 0..Len(messages) /\ DOMAIN cache = S
  BY DEF DedupTypes
<1>2. /\ Fresh(cache) \in [S -> 0..Len(messages)]
      /\ \A x \in S : Fresh(cache)[x] = IF cache[x] # 0 /\ Age(cache[x]) > Window THEN 0 ELSE cache[x]
  BY <1>1 DEF Fresh
<1>3. Capped(Fresh(cache)) = Fresh(cache) \/ Capped(Fresh(cache)) = [x \in S |-> 0]
  BY <1>2 DEF Capped
<1> HIDE DEF Age
<1>q. QED  BY <1>1, <1>2, <1>3

\* A new message.
LEMMA MessageComes ==
    ASSUME DedupInv, NEW v \in Vehicles, NEW k \in Keys, NEW b \in Bodies, Arrive(v, k, b)
    PROVE  DedupInv'
<1> DEFINE m == Len(messages) + 1
           bodies == Capped(Fresh(last))
           types  == Capped(Fresh(lastType))
           byBody == Within(bodies[v]) /\ messages[bodies[v]].body = b
           byType == Within(types[<<v, k>>])
           fate   == IF byBody THEN "duplicate" ELSE IF byType THEN "similar" ELSE "queued"
           record == [vehicle |-> v, key |-> k, body |-> b, at |-> now, fate |-> fate]
           more   == Append(messages, record)
<1>1. /\ DedupTypes /\ InOrder /\ QueuedPassed /\ SlotIsOwn /\ Remembered /\ OnePerWindow
  BY DEF DedupInv
<1>2. /\ messages' = Fated(m, fate, more)
      /\ last' = IF byBody THEN bodies ELSE [bodies EXCEPT ![v] = m]
      /\ lastType' = [x \in DOMAIN types |-> IF x \in Judged(v, k, byBody, byType) THEN m ELSE types[x]]
      /\ queue' = IF fate = "queued" THEN Queued(m) ELSE queue
      /\ cleared' = IF types # Fresh(lastType) THEN Len(messages) ELSE cleared
      /\ now' = now
  BY DEF Arrive, limiterVars
<1>3. /\ m \in Nat /\ Len(messages) \in Nat /\ now \in Nat /\ Window \in Nat /\ m = Len(messages) + 1
      /\ messages \in Seq(Messages) /\ queue \in Seq(1..Len(messages)) /\ cleared \in 0..Len(messages)
  BY <1>1, DedupAssumption DEF DedupTypes
<1>4. /\ bodies \in [Vehicles -> 0..Len(messages)] /\ \A w \in Vehicles : bodies[w] \in {0, last[w]}
      /\ types \in [Vehicles \X Keys -> 0..Len(messages)]
      /\ types = Fresh(lastType) => \A x \in Vehicles \X Keys :
            types[x] = lastType[x] \/ (types[x] = 0 /\ Age(lastType[x]) > Window)
  BY <1>1, Pruned DEF DedupTypes
<1>5. fate \in {"duplicate", "similar", "queued"} /\ (fate = "queued" <=> ~byBody /\ ~byType)
  OBVIOUS
<1>6. ~byType => types[<<v, k>>] = 0 \/ Age(types[<<v, k>>]) >= Window
  <2>1. types[<<v, k>>] \in 0..Len(messages)
    BY <1>4
  <2>2. types[<<v, k>>] # 0 => Age(types[<<v, k>>]) \in Int
    <3>1. types[<<v, k>>] # 0 => messages[types[<<v, k>>]] \in Messages
      BY <1>3, <2>1
    <3>q. QED  BY <1>3, <3>1 DEF Age, Messages
  <2> HIDE DEF types
  <2>q. QED  BY <1>3, <2>1, <2>2 DEF Within
<1> HIDE DEF m, byBody, byType, bodies, types, fate
<1>7. record \in Messages /\ record.vehicle = v /\ record.key = k /\ record.at = now /\ record.fate = fate
  BY <1>3, <1>5 DEF Messages, Fates
<1> HIDE DEF record
<1>8. /\ more \in Seq(Messages) /\ Len(more) = m /\ more[m] = record
      /\ \A i \in 1..Len(messages) : more[i] = messages[i]
  BY <1>3, <1>7 DEF m
<1> HIDE DEF more
<1>9. /\ messages' \in Seq(Messages) /\ Len(messages') = m
      /\ \A i \in 1..m :
            /\ messages'[i].vehicle = more[i].vehicle /\ messages'[i].key = more[i].key
            /\ messages'[i].at = more[i].at
            /\ messages'[i].fate = IF i = m THEN fate
                  ELSE IF fate = "queued" /\ Len(queue) >= QueueSize /\ i = Head(queue) THEN "displaced"
                  ELSE more[i].fate
  <2>1. DOMAIN more = 1..m
    BY <1>8
  <2>2. \A i \in 1..m : more[i] \in Messages
    BY <1>8
  <2>3. messages' = [i \in 1..m |-> IF i = m THEN [more[i] EXCEPT !.fate = fate]
            ELSE IF fate = "queued" /\ Len(queue) >= QueueSize /\ i = Head(queue)
            THEN [more[i] EXCEPT !.fate = "displaced"] ELSE more[i]]
    BY <1>2, <2>1 DEF Fated
  <2>4. ASSUME NEW r \in Messages, NEW f \in Fates
        PROVE  /\ [r EXCEPT !.fate = f] \in Messages /\ [r EXCEPT !.fate = f].fate = f
               /\ [r EXCEPT !.fate = f].vehicle = r.vehicle /\ [r EXCEPT !.fate = f].key = r.key
               /\ [r EXCEPT !.fate = f].at = r.at
    BY DEF Messages
  <2>5. fate \in Fates /\ "displaced" \in Fates
    BY <1>5 DEF Fates
  <2>6. ASSUME NEW i \in 1..m
        PROVE  /\ messages'[i] \in Messages
               /\ messages'[i].vehicle = more[i].vehicle /\ messages'[i].key = more[i].key
               /\ messages'[i].at = more[i].at
               /\ messages'[i].fate = IF i = m THEN fate
                     ELSE IF fate = "queued" /\ Len(queue) >= QueueSize /\ i = Head(queue) THEN "displaced"
                     ELSE more[i].fate
    <3>1. CASE i = m
      <4>1. messages'[i] = [more[i] EXCEPT !.fate = fate] /\ more[i] \in Messages
        BY <2>2, <2>3, <3>1
      <4>2. /\ messages'[i] \in Messages /\ messages'[i].fate = fate
            /\ messages'[i].vehicle = more[i].vehicle /\ messages'[i].key = more[i].key
            /\ messages'[i].at = more[i].at
        BY <2>4, <2>5, <4>1
      <4>q. QED  BY <3>1, <4>2
    <3>2. CASE i # m /\ fate = "queued" /\ Len(queue) >= QueueSize /\ i = Head(queue)
      BY <2>2, <2>3, <2>4, <2>5, <3>2
    <3>3. CASE i # m /\ ~(fate = "queued" /\ Len(queue) >= QueueSize /\ i = Head(queue))
      BY <2>2, <2>3, <3>3
    <3>q. QED  BY <3>1, <3>2, <3>3
  <2>7. messages' \in Seq(Messages) /\ Len(messages') = m
    <3>1. messages' \in [1..m -> Messages]
      BY <2>3, <2>6
    <3>2. messages' \in Seq(Messages)
      BY <1>3, <3>1, SeqDef
    <3>q. QED  BY <1>3, <3>1, <3>2, LenProperties
  <2>q. QED  BY <2>6, <2>7
<1>10. queue # <<>> => Head(queue) \in 1..Len(messages) /\ Passing(messages[Head(queue)].fate)
  <2>1. queue # <<>> => Head(queue) = queue[1] /\ 1 \in 1..Len(queue)
    BY <1>3
  <2>q. QED  BY <1>1, <1>3, <2>1 DEF QueuedPassed
<1>11. Len(queue) >= QueueSize => queue # <<>>
  BY <1>3, DedupAssumption
<1>12. /\ \A i \in 1..Len(messages) :
            /\ messages'[i].vehicle = messages[i].vehicle /\ messages'[i].key = messages[i].key
            /\ messages'[i].at = messages[i].at /\ i \in 1..m /\ i # m
            /\ Passing(messages'[i].fate) <=> Passing(messages[i].fate)
            /\ messages[i].fate # "thrown" => messages'[i].fate # "thrown"
       /\ messages'[m].vehicle = v /\ messages'[m].key = k /\ messages'[m].at = now
       /\ Passing(messages'[m].fate) <=> fate = "queued"
       /\ messages'[m].fate = fate /\ m \in 1..m
  <2>1. \A i \in 1..Len(messages) : i \in 1..m /\ i # m
    BY <1>3
  <2>2. m \in 1..m
    BY <1>3
  <2>3. messages'[m].fate = fate /\ (Passing(fate) <=> fate = "queued")
    BY <1>5, <1>9, <2>2 DEF Passing
  <2>4. \A i \in 1..Len(messages) : /\ Passing(messages'[i].fate) <=> Passing(messages[i].fate)
                                    /\ messages[i].fate # "thrown" => messages'[i].fate # "thrown"
    BY <1>8, <1>9, <1>10, <1>11, <2>1 DEF Passing
  <2>5. Passing(messages'[m].fate) <=> fate = "queued"
    BY <1>3, <1>9, <2>3 DEF Passing, m
  <2>q. QED  BY <1>7, <1>8, <1>9, <2>1, <2>2, <2>3, <2>4, <2>5
<1>13. /\ queue' \in Seq(1..m)
       /\ \A i \in 1..Len(queue') : (queue'[i] = m /\ fate = "queued") \/ \E j \in 1..Len(queue) : queue'[i] = queue[j]
  <2> DEFINE rest == IF Len(queue) >= QueueSize THEN Tail(queue) ELSE queue
  <2>1. queue \in Seq(1..m)
    <3>1. 1..Len(messages) \subseteq 1..m
      BY <1>3
    <3>q. QED  BY <1>3, <3>1, SeqMonotonic
  <2>2. rest \in Seq(1..m) /\ \A i \in 1..Len(rest) : \E j \in 1..Len(queue) : rest[i] = queue[j]
    <3>1. CASE Len(queue) >= QueueSize
      BY <1>11, <2>1, <3>1
    <3>2. CASE ~(Len(queue) >= QueueSize)
      BY <2>1, <3>2
    <3>q. QED  BY <3>1, <3>2
  <2>3. queue' = IF fate = "queued" THEN Append(rest, m) ELSE queue
    BY <1>2 DEF Queued
  <2> HIDE DEF rest
  <2>4. CASE fate = "queued"
    <3>1. queue' = Append(rest, m) /\ m \in 1..m
      BY <1>12, <2>3, <2>4
    <3>q. QED  BY <2>2, <2>4, <3>1
  <2>5. CASE fate # "queued"
    BY <2>1, <2>3, <2>5
  <2>q. QED  BY <2>4, <2>5
<1>14. /\ lastType' \in [Vehicles \X Keys -> 0..m]
       /\ \A x \in Vehicles \X Keys :
            lastType'[x] = IF fate = "queued" /\ x = <<v, k>> THEN m ELSE types[x]
  <2>1. DOMAIN types = Vehicles \X Keys /\ \A x \in Vehicles \X Keys : types[x] \in 0..m
    BY <1>3, <1>4
  <2>2. m \in 0..m
    BY <1>3
  <2>3. \A x : x \in Judged(v, k, byBody, byType) <=> fate = "queued" /\ x = <<v, k>>
    BY <1>5 DEF Judged
  <2>q. QED  BY <1>2, <2>1, <2>2, <2>3
<1>15. /\ last' \in [Vehicles -> 0..m]
       /\ \A w \in Vehicles : last'[w] \in {0, last[w]} \/ (last'[w] = m /\ w = v)
  <2>1. bodies \in [Vehicles -> 0..m] /\ m \in 0..m
    BY <1>3, <1>4
  <2>q. QED  BY <1>2, <1>4, <2>1
<1>16. DedupTypes'
  BY <1>2, <1>3, <1>9, <1>13, <1>14, <1>15 DEF DedupTypes
<1>17. InOrder'
  <2>1. ASSUME NEW i \in 1..m, NEW j \in 1..m, i <= j
        PROVE  messages'[i].at <= messages'[j].at /\ messages'[j].at <= now
    <3>1. CASE j \in 1..Len(messages)
      <4>1. i \in 1..Len(messages)
        BY <1>3, <2>1, <3>1
      <4>q. QED  BY <1>1, <1>12, <2>1, <3>1, <4>1 DEF InOrder
    <3>2. CASE j = m /\ i \in 1..Len(messages)
      <4>1. messages[i].at <= now
        BY <1>1, <1>3, <3>2 DEF InOrder
      <4>q. QED  BY <1>3, <1>12, <3>2, <4>1
    <3>3. CASE j = m /\ i = m
      BY <1>3, <1>12, <3>3
    <3>q. QED  BY <1>3, <2>1, <3>1, <3>2, <3>3
  <2>q. QED  BY <1>2, <1>9, <2>1 DEF InOrder
<1>18. QueuedPassed'
  <2>1. \A j \in 1..Len(queue) : queue[j] \in 1..Len(messages) /\ Passing(messages[queue[j]].fate)
    BY <1>1, <1>3 DEF QueuedPassed
  <2>2. ASSUME NEW i \in 1..Len(queue') PROVE Passing(messages'[queue'[i]].fate)
    BY <1>12, <1>13, <2>1, <2>2
  <2>q. QED  BY <2>2 DEF QueuedPassed
<1>19. SlotIsOwn'
  <2>1. \A w \in Vehicles : last[w] \in 0..Len(messages)
    BY <1>1 DEF DedupTypes
  <2>q. QED  BY <1>1, <1>3, <1>12, <1>15, <2>1 DEF SlotIsOwn
<1>20. \A i \in 1..Len(messages) : messages[i].at \in Nat /\ <<messages[i].vehicle, messages[i].key>> \in Vehicles \X Keys
  <2>1. \A i \in 1..Len(messages) : messages[i] \in Messages
    BY <1>3
  <2>q. QED  BY <2>1 DEF Messages
\* Unless the cache went, an old message that passed is still remembered, or past its window.
<1>21. ASSUME NEW i \in 1..Len(messages), cleared' < i, Passing(messages[i].fate)
       PROVE  /\ types = Fresh(lastType)
              /\ LET x == <<messages[i].vehicle, messages[i].key>>
                 IN  types[x] >= i \/ now - messages[i].at > Window
  <2>1. types = Fresh(lastType) /\ cleared < i
    BY <1>2, <1>3, <1>21
  <2>2. PICK x \in Vehicles \X Keys : x = <<messages[i].vehicle, messages[i].key>>
    BY <1>20
  <2>3. lastType[x] >= i \/ now - messages[i].at > Window
    BY <1>1, <1>21, <2>1, <2>2 DEF Remembered
  <2>4. types[x] = lastType[x] \/ now - messages[lastType[x]].at > Window
    BY <1>4, <2>1 DEF Age
  <2>5. lastType[x] \in 0..Len(messages) /\ types[x] \in 0..Len(messages)
    BY <1>1, <1>4 DEF DedupTypes
  <2>6. ASSUME lastType[x] >= i PROVE now - messages[i].at >= now - messages[lastType[x]].at
    <3>1. lastType[x] \in 1..Len(messages) /\ i <= lastType[x]
      BY <1>3, <2>5, <2>6
    <3>2. messages[i].at <= messages[lastType[x]].at
      BY <1>1, <3>1 DEF InOrder
    <3>3. messages[i].at \in Nat /\ messages[lastType[x]].at \in Nat
      BY <1>20, <3>1
    <3>q. QED  BY <1>3, <3>2, <3>3
  <2>7. types[x] >= i \/ now - messages[i].at > Window
    <3>1. CASE lastType[x] >= i /\ types[x] # lastType[x]
      <4>1. lastType[x] \in 1..Len(messages)
        BY <1>3, <2>5, <3>1
      <4>2. messages[i].at \in Nat /\ messages[lastType[x]].at \in Nat
        BY <1>20, <4>1
      <4>3. now \in Nat /\ Window \in Nat
        BY <1>3
      <4>4. now - messages[i].at >= now - messages[lastType[x]].at /\ now - messages[lastType[x]].at > Window
        BY <2>4, <2>6, <3>1
      <4>q. QED  BY <4>2, <4>3, <4>4
    <3>2. CASE lastType[x] >= i /\ types[x] = lastType[x]
      BY <3>2
    <3>3. CASE ~(lastType[x] >= i)
      BY <2>3, <3>3
    <3>q. QED  BY <3>1, <3>2, <3>3
  <2>q. QED  BY <2>1, <2>2, <2>7
<1>22. Remembered'
  <2>1. ASSUME NEW i \in 1..m, cleared' < i, Passing(messages'[i].fate)
        PROVE  \/ lastType'[<<messages'[i].vehicle, messages'[i].key>>] >= i
               \/ now' - messages'[i].at > Window
    <3>1. CASE i = m
      <4>1. fate = "queued" /\ <<v, k>> \in Vehicles \X Keys
        BY <1>9, <1>12, <2>1, <3>1
      <4>q. QED  BY <1>3, <1>12, <1>14, <3>1, <4>1
    <3>2. CASE i # m
      <4>1. i \in 1..Len(messages)
        BY <1>3, <3>2
      <4>2. Passing(messages[i].fate) /\ messages'[i].at = messages[i].at
            /\ <<messages'[i].vehicle, messages'[i].key>> = <<messages[i].vehicle, messages[i].key>>
        BY <1>12, <2>1, <4>1
      <4>3. PICK x \in Vehicles \X Keys : x = <<messages[i].vehicle, messages[i].key>>
        BY <1>20, <4>1
      <4>4. types[x] >= i \/ now - messages[i].at > Window
        BY <1>21, <2>1, <4>1, <4>2, <4>3
      <4>5. lastType'[x] = m \/ lastType'[x] = types[x]
        BY <1>14
      <4>6. <<messages'[i].vehicle, messages'[i].key>> = x /\ now' = now /\ messages'[i].at = messages[i].at
        BY <1>2, <4>2, <4>3
      <4>7. types[x] \in Nat /\ i \in Nat /\ m \in Nat /\ i <= m
        BY <1>3, <1>4, <4>1
      <4>8. lastType'[x] >= i \/ now - messages[i].at > Window
        BY <4>4, <4>5, <4>7
      <4>q. QED  BY <4>6, <4>8
    <3>q. QED  BY <3>1, <3>2
  <2>q. QED  BY <1>9, <2>1 DEF Remembered
<1>23. OnePerWindow'
  <2>1. DOMAIN messages = 1..Len(messages) /\ DOMAIN messages' = 1..m
    BY <1>3, <1>9
  <2>2. ASSUME NEW i \in 1..m, NEW j \in 1..m, i < j, cleared' < i, Passing(messages'[i].fate), Passing(messages'[j].fate),
               messages'[i].vehicle = messages'[j].vehicle, messages'[i].key = messages'[j].key
        PROVE  messages'[j].at - messages'[i].at >= Window
    <3>1. i \in 1..Len(messages) /\ Passing(messages[i].fate) /\ cleared < i
      BY <1>2, <1>3, <1>12, <2>2
    <3>2. CASE j \in 1..Len(messages)
      BY <1>1, <1>12, <2>1, <2>2, <3>1, <3>2 DEF OnePerWindow, Let, Passing
    <3>3. CASE j \notin 1..Len(messages)
      <4>1. j = m
        BY <1>3, <3>3
      <4>2. fate = "queued" /\ messages[i].vehicle = v /\ messages[i].key = k /\ messages'[j].at = now
        BY <1>9, <1>12, <2>2, <3>1, <4>1
      <4>3. types[<<v, k>>] >= i \/ now - messages[i].at > Window
        BY <1>21, <2>2, <3>1, <4>2
      <4>4. types[<<v, k>>] >= i => now - messages[i].at >= Window
        <5>1. types[<<v, k>>] \in 0..Len(messages)
          BY <1>4
        <5>2. ASSUME types[<<v, k>>] >= i PROVE now - messages[i].at >= Window
          <6>1. PICK c \in 1..Len(messages) : c = types[<<v, k>>] /\ c >= i
            BY <1>3, <3>1, <5>1, <5>2
          <6>2. now - messages[c].at >= Window
            BY <1>3, <1>5, <1>6, <4>2, <6>1 DEF Age
          <6>3. messages[i].at <= messages[c].at
            BY <1>1, <3>1, <6>1 DEF InOrder
          <6>4. messages[i].at \in Nat /\ messages[c].at \in Nat
            BY <1>20, <3>1
          <6>5. now \in Nat /\ Window \in Nat
            BY <1>3
          <6>q. QED  BY <6>2, <6>3, <6>4, <6>5
        <5>q. QED  BY <5>2
      <4>q. QED  BY <1>3, <1>12, <1>20, <3>1, <4>2, <4>3, <4>4
    <3>q. QED  BY <3>2, <3>3
  <2>3. ASSUME NEW w \in Vehicles, last'[w] # 0 PROVE messages'[last'[w]].fate # "thrown"
    <3>1. last[w] \in 0..Len(messages)
      BY <1>1 DEF DedupTypes
    <3>2. CASE last'[w] = last[w]
      <4>1. last[w] \in 1..Len(messages) /\ messages[last[w]].fate # "thrown"
        BY <1>1, <1>3, <2>3, <3>1, <3>2 DEF OnePerWindow
      <4>q. QED  BY <1>12, <3>2, <4>1
    <3>3. CASE last'[w] # last[w]
      BY <1>5, <1>12, <1>15, <2>3, <3>3
    <3>q. QED  BY <3>2, <3>3
  <2>q. QED  BY <2>1, <2>2, <2>3 DEF OnePerWindow, Let, Passing
<1>q. QED  BY <1>16, <1>17, <1>18, <1>19, <1>22, <1>23 DEF DedupInv

\* A step that gives one message another fate with which it has passed.
LEMMA FateStep ==
    ASSUME DedupInv, NEW m \in 1..Len(messages), NEW f \in Fates,
           messages' = [messages EXCEPT ![m].fate = f], Passing(f), Passing(messages[m].fate),
           UNCHANGED <<lastType, cleared, now>>,
           queue' \in {queue, Tail(queue)}, queue # <<>> \/ queue' = queue,
           last' \in [Vehicles -> 0..Len(messages)],
           \A v \in Vehicles : last'[v] # 0 => last'[v] = last[v] /\ (f = "thrown" => last[v] # m)
    PROVE  DedupInv'
<1>1. messages \in Seq(Messages) /\ now \in Nat /\ now' \in Nat /\ now' >= now
      /\ last \in [Vehicles -> 0..Len(messages)]
  BY DEF DedupInv, DedupTypes
<1>2. /\ messages' \in Seq(Messages) /\ Len(messages') = Len(messages)
      /\ \A i \in 1..Len(messages) :
            /\ messages'[i].vehicle = messages[i].vehicle /\ messages'[i].key = messages[i].key
            /\ messages'[i].body = messages[i].body /\ messages'[i].at = messages[i].at
            /\ messages'[i].fate = IF i = m THEN f ELSE messages[i].fate
  BY <1>1, FateChanges
<1>3. Same
  <2>1. Len(messages) <= Len(messages')
    BY <1>1, <1>2
  <2>q. QED  BY <1>2, <2>1 DEF Same
<1>4. \A v \in Vehicles : last'[v] # 0 =>
        last'[v] = last[v] /\ (messages[last[v]].fate # "thrown" => messages'[last[v]].fate # "thrown")
  <2>1. ASSUME NEW v \in Vehicles, last'[v] # 0, messages[last[v]].fate # "thrown"
        PROVE  messages'[last[v]].fate # "thrown"
    <3>1. last[v] \in 1..Len(messages) /\ (f = "thrown" => last[v] # m)
      BY <1>1, <2>1
    <3>q. QED  BY <1>2, <2>1, <3>1
  <2>q. QED  BY <2>1
<1>q. QED  BY <1>1, <1>2, <1>3, <1>4, NoneComes

\* A step that leaves the messages and both caches alone.
LEMMA NothingComes ==
    ASSUME DedupInv, UNCHANGED <<messages, last, lastType, queue, cleared>>, now' \in Nat, now' >= now
    PROVE  DedupInv'
<1>1. messages \in Seq(Messages) /\ last \in [Vehicles -> 0..Len(messages)]
  BY DEF DedupInv, DedupTypes
<1>2. Len(messages) <= Len(messages')
  BY <1>1
<1>3. Same
  BY <1>2 DEF Same
<1>q. QED  BY <1>1, <1>3, NoneComes

\* Initially.
LEMMA DedupInit == Init => DedupInv
<1> SUFFICES ASSUME Init PROVE DedupInv
  OBVIOUS
<1>1. Len(messages) = 0 /\ Len(queue) = 0 /\ DOMAIN messages = {}
  BY DEF Init
<1>2. DedupTypes
  BY <1>1 DEF Init, LimiterInit, DedupTypes
<1>3. \A i : ~(i \in 1..0)
  OBVIOUS
<1>q. QED  BY <1>1, <1>2, <1>3 DEF Init, DedupInv, InOrder, QueuedPassed, SlotIsOwn, Remembered, OnePerWindow

\* Every step.
LEMMA DedupStep == DedupInv /\ [Next]_vars => DedupInv'
<1> SUFFICES ASSUME DedupInv, [Next]_vars PROVE DedupInv'
  OBVIOUS
<1>1. /\ messages \in Seq(Messages) /\ now \in Nat /\ last \in [Vehicles -> 0..Len(messages)]
      /\ queue \in Seq(1..Len(messages)) /\ DOMAIN messages = 1..Len(messages)
  BY DEF DedupInv, DedupTypes
<1>2. \A v \in Vehicles : Acquire(v) => now' = now
  BY DEF Acquire
<1>3. ASSUME NEW v \in Vehicles, NEW k \in Keys, NEW b \in Bodies, Arrive(v, k, b) PROVE DedupInv'
  BY <1>3, MessageComes
<1>4. CASE Offer
  <2>1. /\ queue # <<>> /\ messages' = [messages EXCEPT ![Head(queue)].fate = "offered"]
        /\ queue' = Tail(queue) /\ UNCHANGED <<lastType, cleared, now, last>>
    BY <1>4 DEF Offer, limiterVars
  <2>2. Head(queue) \in 1..Len(messages) /\ Head(queue) = queue[1] /\ 1 \in 1..Len(queue)
    BY <1>1, <2>1
  <2>3. Passing(messages[Head(queue)].fate)
    BY <2>2 DEF DedupInv, QueuedPassed
  <2>4. Passing("offered") /\ "offered" \in Fates
    BY DEF Passing, Fates
  <2>q. QED  BY <1>1, <2>1, <2>2, <2>3, <2>4, FateStep
<1>5. ASSUME NEW m \in DOMAIN messages, Consider(m) PROVE DedupInv'
  <2>1. /\ messages[m].fate = "offered" /\ messages' = [messages EXCEPT ![m].fate = "considered"]
        /\ UNCHANGED <<lastType, cleared, now, last, queue>>
    BY <1>5 DEF Consider, Acquire
  <2>2. Passing("offered") /\ Passing("considered") /\ "considered" \in Fates
    BY DEF Passing, Fates
  <2>q. QED  BY <1>1, <2>1, <2>2, FateStep
<1>6. ASSUME NEW m \in DOMAIN messages, Refuse(m) PROVE DedupInv'
  <2>1. /\ messages[m].fate = "offered" /\ messages' = [messages EXCEPT ![m].fate = "refused"]
        /\ UNCHANGED <<lastType, cleared, now, last, queue>>
    BY <1>6 DEF Refuse, limiterVars
  <2>2. Passing("offered") /\ Passing("refused") /\ "refused" \in Fates
    BY DEF Passing, Fates
  <2>q. QED  BY <1>1, <2>1, <2>2, FateStep
\* The slot that goes is the only one the message can hold.
<1>7. ASSUME NEW m \in DOMAIN messages, Forget(m) PROVE DedupInv'
  <2>1. /\ messages[m].fate = "refused" /\ messages' = [messages EXCEPT ![m].fate = "thrown"]
        /\ last' = [last EXCEPT ![messages[m].vehicle] = 0]
        /\ UNCHANGED <<lastType, cleared, now, queue>>
    BY <1>7 DEF Forget, limiterVars
  <2>2. Passing("refused") /\ Passing("thrown") /\ "thrown" \in Fates
    BY DEF Passing, Fates
  <2>3. last' \in [Vehicles -> 0..Len(messages)]
    <3>1. 0 \in 0..Len(messages)
      BY <1>1
    <3>q. QED  BY <1>1, <2>1, <3>1
  <2>4. \A v \in Vehicles : last'[v] # 0 => last'[v] = last[v] /\ last[v] # m
    <3>1. \A v \in Vehicles : last'[v] # 0 => v # messages[m].vehicle /\ last'[v] = last[v]
      BY <1>1, <2>1
    <3>2. \A v \in Vehicles : last[v] # 0 => messages[last[v]].vehicle = v
      BY DEF DedupInv, SlotIsOwn
    <3>q. QED  BY <3>1, <3>2
  <2>q. QED  BY <1>1, <2>1, <2>2, <2>3, <2>4, FateStep
<1>8. ASSUME NEW v \in Vehicles, Elsewhere(v) PROVE DedupInv'
  BY <1>1, <1>2, <1>8, NothingComes DEF Elsewhere
<1>9. CASE Tick /\ UNCHANGED <<messages, last, lastType, queue, cleared>>
  BY <1>1, <1>9, NothingComes DEF Tick
<1>10. CASE UNCHANGED vars
  BY <1>1, <1>10, NothingComes DEF vars, limiterVars
<1>q. QED  BY <1>3, <1>4, <1>5, <1>6, <1>7, <1>8, <1>9, <1>10 DEF Next

\* The caches remember what they must, through every order of messages, refusals and prunes
\* (mqtt_notification_subscriber.py:82-122, 258-269).
THEOREM DedupInvariance == Spec => []DedupInv
BY DedupInit, DedupStep, PTL DEF Spec

\* Messages of one vehicle and key that both pass lie a window apart, and no message that
\* the limiter threw away holds its vehicle's slot (mqtt_notification_subscriber.py:82-122).
THEOREM OneInEachWindow == Spec => []OnePerWindow
<1>1. DedupInv => OnePerWindow
  BY DEF DedupInv
<1>q. QED  BY <1>1, DedupInvariance, PTL

\* The de-duplication uses the limiter as its specification allows, so what is proved of the
\* limiter holds for it behind the queue and its workers too.
THEOREM DedupUsesTheLimiter == Spec => LimiterSpec
<1>1. Init => LimiterInit
  BY DEF Init
<1>2. DedupInv /\ [Next]_vars => [LimiterNext]_limiterVars
  <2> SUFFICES ASSUME DedupInv, [Next]_vars PROVE LimiterNext \/ UNCHANGED limiterVars
    OBVIOUS
  <2>1. ASSUME NEW m \in DOMAIN messages, Consider(m) PROVE LimiterNext
    <3>1. messages[m].vehicle \in Vehicles
      <4>1. messages \in Seq(Messages)
        BY DEF DedupInv, DedupTypes
      <4>q. QED  BY <4>1, MessageFields
    <3>q. QED  BY <2>1, <3>1 DEF Consider, LimiterNext
  <2>2. ASSUME NEW m \in DOMAIN messages, Refuse(m) \/ Forget(m) PROVE UNCHANGED limiterVars
    BY <2>2 DEF Refuse, Forget
  <2>3. ASSUME NEW v \in Vehicles, NEW k \in Keys, NEW b \in Bodies, Arrive(v, k, b)
        PROVE  UNCHANGED limiterVars
    BY <2>3 DEF Arrive
  <2>4. CASE Offer
    BY <2>4 DEF Offer
  <2>5. ASSUME NEW v \in Vehicles, Elsewhere(v) PROVE LimiterNext
    BY <2>5 DEF Elsewhere, LimiterNext
  <2>6. CASE Tick
    BY <2>6 DEF LimiterNext
  <2>7. CASE UNCHANGED vars
    BY <2>7 DEF vars
  <2>q. QED  BY <2>1, <2>2, <2>3, <2>4, <2>5, <2>6, <2>7 DEF Next
<1>q. QED  BY <1>1, <1>2, DedupInvariance, PTL DEF Spec, LimiterSpec

-----------------------------------------------------------------------------
(***************************************************************************)
(* Failed logins                                                           *)
(***************************************************************************)
Stages == {"refused", "account", "expire account", "checked", "expire record", "record", "count",
           "lock", "extend", "persist", "done", "lost"}
Attempted == [pc : Stages, ip : Ips, type : Types, user : Users, n : Nat]
SavedBlocks == [pc : {"persist"}, ip : Ips, until : Nat]
Lifted == [pc : {"remove"}, ip : Ips]

RequestsTyped ==
    /\ op \in [Attempts -> {Idle} \cup Attempted]
    /\ admin \in [AdminOps -> {Idle, [pc |-> "done"]} \cup SavedBlocks \cup Lifted]

\* A request that has not come has neither a row nor a count; a server that is down serves
\* none, and forgets what it had counted; no more than MaxInFlight are under way.
Served ==
    /\ \A k \in Attempts : op[k].pc = "idle" => seen[k] = 0 /\ row[k] = 0
    /\ ~up => InFlight = {} /\ \A k \in Attempts : seen[k] > 0 => k \in forgiven
    /\ Cardinality(InFlight) <= MaxInFlight

\* A counted failure is in memory, past its window, or its address is blocked for longer.
Counted == \A k \in Attempts : op[k].pc # "idle" /\ seen[k] > 0 /\ k \notin forgiven =>
    \/ k \in mem \/ seen[k] + FailureWindow < time
    \/ seen[k] + FailureWindow < blocked[op[k].ip].until

\* Memory holds fewer than the threshold.
FewInMemory == \A i \in Ips, t \in Types :
    Cardinality(Recent(Of(i, t) \cap mem, seen, FailureWindow)) < Threshold[t]

\* No automatic block lasts longer than ExtTime.
BlocksAreShort == \A i \in Ips : blocked[i].by = "auto" => blocked[i].until <= time + ExtTime

\* The requests that have passed the account's check and not yet made their row count as if
\* they had.
Passed(u, t) == {k \in OfUser(u, t) : op[k].pc \in {"checked", "expire record", "record"}}
Budget == ~dbFails => \A u \in Users, t \in Types :
    Cardinality(Recent(OfUser(u, t), row, UserTime) \cup Passed(u, t)) < UserThreshold[t] + MaxInFlight

SecurityInv == /\ SecurityTypeOK /\ RequestsTyped /\ Served
               /\ Counted /\ FewInMemory /\ BlocksAreShort /\ Budget

\* The units of time and the limits are numbers.
LEMMA Limits ==
    /\ FailureWindow \in Nat /\ UserWindow \in Nat /\ Day \in Nat /\ MaxInFlight \in Nat
    /\ MaxClock \in Nat /\ MaxCrashes \in Nat /\ BlockTime \in Nat \ {0} /\ ExtTime \in Nat \ {0}
    /\ UserTime \in Nat \ {0} /\ AdminTime \in Nat \ {0}
    /\ FailureWindow < BlockTime /\ BlockTime <= ExtTime
    /\ \A t \in Types : Threshold[t] \in Nat \ {0} /\ UserThreshold[t] \in Nat \ {0}
BY SecurityAssumption

\* Any set of attempts is finite, and a smaller one has no more of them.
LEMMA AttemptsFinite ==
    ASSUME NEW S \in SUBSET Attempts, NEW T \in SUBSET S
    PROVE  /\ IsFiniteSet(S) /\ IsFiniteSet(T)
           /\ Cardinality(S) \in Nat /\ Cardinality(T) \in Nat /\ Cardinality(T) <= Cardinality(S)
<1>1. IsFiniteSet(Attempts)
  BY SecurityAssumption
<1>2. IsFiniteSet(S)
  BY <1>1, FS_Subset
<1>3. IsFiniteSet(T) /\ Cardinality(T) <= Cardinality(S)
  BY <1>2, FS_Subset
<1>q. QED  BY <1>2, <1>3, FS_CardinalityType

\* A block's entry.
LEMMA EntriesTyped ==
    None \in Entries /\ None.by = "none" /\ None.until = 0
    /\ \A n \in Nat : /\ Automatic(n) \in Entries /\ Automatic(n).until = n /\ Automatic(n).by = "auto"
                      /\ [until |-> n, by |-> "admin"] \in Entries
BY DEF Entries, None, Automatic

\* A request under way is one of a server that is up.
LEMMA UnderWay ==
    ASSUME SecurityInv, NEW k \in Attempts, op[k].pc \notin Ended \cup {"idle"}
    PROVE  /\ up /\ op[k] \in Attempted /\ op[k].ip \in Ips /\ op[k].type \in Types /\ op[k].user \in Users
           /\ op[k].n \in Nat
<1>1. op[k] \in Attempted
  BY DEF SecurityInv, RequestsTyped, Idle
<1>2. k \in InFlight
  BY DEF InFlight
<1>3. up
  BY <1>2 DEF SecurityInv, Served
<1>4. \A r \in Attempted : r.ip \in Ips /\ r.type \in Types /\ r.user \in Users /\ r.n \in Nat
  BY DEF Attempted
<1>q. QED  BY <1>1, <1>3, <1>4

\* No request comes or is under way again, and each is still the same attempt.
Continues == \A k \in Attempts :
    /\ op'[k].pc = "idle" <=> op[k].pc = "idle"
    /\ op[k].pc # "idle" => op'[k].ip = op[k].ip /\ op'[k].type = op[k].type /\ op'[k].user = op[k].user
    /\ op'[k].pc \notin Ended \cup {"idle"} => op[k].pc \notin Ended \cup {"idle"}

\* A request goes on to a stage, with another number.
LEMMA Moves ==
    ASSUME SecurityInv, NEW k \in Attempts, op[k].pc \notin Ended \cup {"idle"}, NEW pc \in Stages, NEW n \in Nat,
           \/ op' = [op EXCEPT ![k].pc = pc] \/ op' = [op EXCEPT ![k].pc = pc, ![k].n = n]
    PROVE  /\ Continues /\ op' \in [Attempts -> {Idle} \cup Attempted]
           /\ op'[k].pc = pc /\ op'[k].ip = op[k].ip /\ \A j \in Attempts : j # k => op'[j] = op[j]
<1> DEFINE old == op[k]
           one == [old EXCEPT !.pc = pc]
           two == [old EXCEPT !.pc = pc, !.n = n]
<1>1. op \in [Attempts -> {Idle} \cup Attempted] /\ old \in Attempted
  BY UnderWay DEF SecurityInv, RequestsTyped
<1>2. op' = [op EXCEPT ![k] = one] \/ op' = [op EXCEPT ![k] = two]
  BY <1>1
<1> HIDE DEF old
<1>3. /\ one \in Attempted /\ one.pc = pc /\ one.ip = old.ip /\ one.type = old.type /\ one.user = old.user
      /\ two \in Attempted /\ two.pc = pc /\ two.ip = old.ip /\ two.type = old.type /\ two.user = old.user
  BY <1>1 DEF Attempted
<1> HIDE DEF one, two
<1>4. PICK new \in Attempted : /\ new.pc = pc /\ new.ip = old.ip /\ new.type = old.type /\ new.user = old.user
                               /\ op' = [op EXCEPT ![k] = new]
  BY <1>2, <1>3
<1>5. op'[k] = new /\ \A j \in Attempts : j # k => op'[j] = op[j]
  BY <1>1, <1>4
<1>6. op' \in [Attempts -> {Idle} \cup Attempted]
  BY <1>1, <1>4
<1>7. pc # "idle"
  BY DEF Stages
<1>8. Continues
  BY <1>4, <1>5, <1>7 DEF Continues, old
<1>q. QED  BY <1>4, <1>5, <1>6, <1>8 DEF old

\* Nothing moves.
LEMMA Stays == UNCHANGED op => Continues
BY DEF Continues

\* The attempts of an address and of an account are the same afterwards, and none more is under way.
LEMMA SameAttempts ==
    ASSUME Continues
    PROVE  /\ \A i, t : {k \in Attempts : op'[k].pc # "idle" /\ op'[k].ip = i /\ op'[k].type = t} = Of(i, t)
           /\ \A u, t : {k \in Attempts : op'[k].pc # "idle" /\ op'[k].user = u /\ op'[k].type = t} = OfUser(u, t)
           /\ InFlight' \subseteq InFlight
BY DEF Continues, Of, OfUser, InFlight

-----------------------------------------------------------------------------
\* Failures are counted on, in memory or in a block, as time passes.
LEMMA CountingGoesOn ==
    ASSUME SecurityInv, SecurityTypeOK', time' >= time,
           \A k \in Attempts : op'[k].pc # "idle" /\ seen'[k] > 0 /\ k \notin forgiven' =>
               /\ op[k].pc # "idle" /\ k \notin forgiven /\ seen'[k] = seen[k] /\ op'[k].ip = op[k].ip
               /\ op[k].ip \in Ips
               /\ k \in mem => k \in mem' \/ seen[k] + FailureWindow < time
               /\ \/ blocked'[op[k].ip].until >= blocked[op[k].ip].until
                  \/ blocked[op[k].ip].until <= time
                  \/ blocked'[op[k].ip].until > time + FailureWindow
    PROVE  Counted'
<1>1. SecurityTypeOK /\ Counted
  BY DEF SecurityInv
<1>2. ASSUME NEW k \in Attempts, op'[k].pc # "idle", seen'[k] > 0, k \notin forgiven'
      PROVE  k \in mem' \/ seen'[k] + FailureWindow < time' \/ seen'[k] + FailureWindow < blocked'[op'[k].ip].until
  <2>1. PICK i \in Ips : i = op[k].ip /\ op'[k].ip = i
    BY <1>2
  <2>2. /\ time \in Nat /\ time' \in Nat /\ seen[k] \in Nat /\ seen[k] <= time /\ FailureWindow \in Nat
        /\ blocked[i].until \in Nat /\ blocked'[i].until \in Nat
    BY <1>1, Limits DEF SecurityTypeOK, Entries
  <2>3. k \in mem \/ seen[k] + FailureWindow < time \/ seen[k] + FailureWindow < blocked[i].until
    BY <1>1, <1>2, <2>1 DEF Counted
  <2>4. /\ seen'[k] = seen[k]
        /\ k \in mem => k \in mem' \/ seen[k] + FailureWindow < time
        /\ \/ blocked'[i].until >= blocked[i].until \/ blocked[i].until <= time
           \/ blocked'[i].until > time + FailureWindow
    BY <1>2, <2>1
  <2>5. CASE k \in mem \/ seen[k] + FailureWindow < time
    BY <2>2, <2>4, <2>5
  <2>6. CASE seen[k] + FailureWindow < blocked[i].until
    <3>1. seen[k] + FailureWindow < time \/ seen[k] + FailureWindow < blocked'[i].until
      BY <2>2, <2>4, <2>6
    <3>q. QED  BY <2>1, <2>2, <2>4, <3>1
  <2>q. QED  BY <2>3, <2>5, <2>6
<1>q. QED  BY <1>2 DEF Counted

\* No attempt is remembered that was not.
LEMMA NoneRemembered ==
    ASSUME SecurityInv,
           \A i \in Ips, t \in Types :
               Recent(Of(i, t) \cap mem, seen, FailureWindow)' \subseteq Recent(Of(i, t) \cap mem, seen, FailureWindow)
    PROVE  FewInMemory'
<1>1. FewInMemory
  BY DEF SecurityInv
<1>2. ASSUME NEW i \in Ips, NEW t \in Types
      PROVE  Cardinality(Recent(Of(i, t) \cap mem, seen, FailureWindow))' < Threshold[t]
  <2>1. Recent(Of(i, t) \cap mem, seen, FailureWindow) \subseteq Attempts
    BY DEF Recent, Of
  <2>2. Cardinality(Recent(Of(i, t) \cap mem, seen, FailureWindow)) < Threshold[t]
    BY <1>1 DEF FewInMemory
  <2>3. /\ Cardinality(Recent(Of(i, t) \cap mem, seen, FailureWindow))' \in Nat
        /\ Cardinality(Recent(Of(i, t) \cap mem, seen, FailureWindow)) \in Nat
        /\ Cardinality(Recent(Of(i, t) \cap mem, seen, FailureWindow))'
              <= Cardinality(Recent(Of(i, t) \cap mem, seen, FailureWindow))
    BY <2>1, AttemptsFinite
  <2>q. QED  BY <2>2, <2>3, Limits
<1>q. QED  BY <1>2 DEF FewInMemory

LEMMA MemoryShrinks ==
    ASSUME SecurityInv, SecurityTypeOK', time' >= time, Continues, mem' \subseteq mem, UNCHANGED seen
    PROVE  FewInMemory'
<1>1. SecurityTypeOK
  BY DEF SecurityInv
<1>2. /\ time \in Nat /\ time' \in Nat /\ FailureWindow \in Nat /\ \A k \in Attempts : seen[k] \in Nat
  BY <1>1, Limits DEF SecurityTypeOK
<1>3. ASSUME NEW i \in Ips, NEW t \in Types
      PROVE  Recent(Of(i, t) \cap mem, seen, FailureWindow)' \subseteq Recent(Of(i, t) \cap mem, seen, FailureWindow)
  BY <1>2, SameAttempts DEF Recent, Of
<1>q. QED  BY <1>3, NoneRemembered

\* No attempt counts against an account that did not.
LEMMA BudgetShrinks ==
    ASSUME SecurityInv, UNCHANGED dbFails,
           \A u \in Users, t \in Types :
               (Recent(OfUser(u, t), row, UserTime) \cup Passed(u, t))'
                 \subseteq Recent(OfUser(u, t), row, UserTime) \cup Passed(u, t)
    PROVE  Budget'
<1>1. Budget
  BY DEF SecurityInv
<1>2. ASSUME NEW u \in Users, NEW t \in Types, ~dbFails
      PROVE  Cardinality(Recent(OfUser(u, t), row, UserTime) \cup Passed(u, t))' < UserThreshold[t] + MaxInFlight
  <2>1. Recent(OfUser(u, t), row, UserTime) \cup Passed(u, t) \subseteq Attempts
    BY DEF Recent, OfUser, Passed
  <2>2. Cardinality(Recent(OfUser(u, t), row, UserTime) \cup Passed(u, t)) < UserThreshold[t] + MaxInFlight
    BY <1>1, <1>2 DEF Budget
  <2>q. QED  BY <2>1, <2>2, AttemptsFinite, Limits
<1>q. QED  BY <1>2 DEF Budget

PassedStages == {"checked", "expire record", "record"}

\* What every step but an arrival and a count keeps to: no new failure is counted, none is
\* given up unless it is forgiven, out of its window or its address stays blocked, and a row
\* is made only by a request that has passed its account's check.
LEMMA StepKeeps ==
    ASSUME SecurityInv, Continues, SecurityTypeOK', RequestsTyped', time' >= time,
           UNCHANGED <<seen, dbFails>>, mem' \subseteq mem,
           \A k \in Attempts : k \in forgiven /\ seen[k] > 0 => k \in forgiven',
           \/ up' \/ UNCHANGED <<up, forgiven>>
           \/ InFlight' = {} /\ \A k \in Attempts : seen[k] > 0 => k \in forgiven',
           \A k \in Attempts : op[k].pc # "idle" /\ seen[k] > 0 /\ k \notin forgiven' =>
               /\ k \in mem => k \in mem' \/ seen[k] + FailureWindow < time
               /\ \/ blocked'[op[k].ip].until >= blocked[op[k].ip].until
                  \/ blocked[op[k].ip].until <= time
                  \/ blocked'[op[k].ip].until > time + FailureWindow,
           \A i \in Ips : blocked'[i].by = "auto" => blocked'[i].until <= time' + ExtTime,
           \A k \in Attempts : /\ op[k].pc = "idle" => row'[k] = 0
                               /\ row'[k] \in {0, row[k]} \/ op[k].pc = "record",
           \/ Budget' \/ \A k \in Attempts : op'[k].pc \in PassedStages => op[k].pc \in PassedStages
    PROVE  SecurityInv'
<1>1. SecurityTypeOK /\ RequestsTyped /\ Served /\ Budget
  BY DEF SecurityInv
<1>2. \A k \in Attempts : op[k].pc # "idle" => op[k].ip \in Ips
  <2>1. \A r \in Attempted : r.ip \in Ips
    BY DEF Attempted
  <2>q. QED  BY <1>1, <2>1 DEF RequestsTyped, Idle
<1>3. Counted'
  <2>1. \A k \in Attempts : op'[k].pc # "idle" /\ seen'[k] > 0 /\ k \notin forgiven' =>
               /\ op[k].pc # "idle" /\ k \notin forgiven /\ seen'[k] = seen[k] /\ op'[k].ip = op[k].ip
               /\ op[k].ip \in Ips
               /\ k \in mem => k \in mem' \/ seen[k] + FailureWindow < time
               /\ \/ blocked'[op[k].ip].until >= blocked[op[k].ip].until
                  \/ blocked[op[k].ip].until <= time
                  \/ blocked'[op[k].ip].until > time + FailureWindow
    BY <1>2 DEF Continues
  <2>q. QED  BY <2>1, CountingGoesOn
<1>4. FewInMemory'
  BY MemoryShrinks
<1>5. BlocksAreShort'
  BY DEF BlocksAreShort
<1>6. Budget'
  <2> SUFFICES ASSUME \A k \in Attempts : op'[k].pc \in PassedStages => op[k].pc \in PassedStages PROVE Budget'
    OBVIOUS
  <2>1. ASSUME NEW u \in Users, NEW t \in Types
        PROVE  (Recent(OfUser(u, t), row, UserTime) \cup Passed(u, t))'
                 \subseteq Recent(OfUser(u, t), row, UserTime) \cup Passed(u, t)
    <3>0. OfUser(u, t)' = OfUser(u, t)
      BY SameAttempts DEF OfUser
    <3>1. ASSUME NEW k \in Attempts, k \in Recent(OfUser(u, t), row, UserTime)'
          PROVE  k \in Recent(OfUser(u, t), row, UserTime) \cup Passed(u, t)
      <4>1. k \in OfUser(u, t) /\ row'[k] > 0 /\ row'[k] + UserTime >= time'
        BY <3>0, <3>1 DEF Recent
      <4>2. row'[k] = row[k] \/ op[k].pc = "record"
        BY <4>1
      <4>3. row[k] + UserTime >= time \/ op[k].pc = "record"
        <5>1. time \in Nat /\ time' \in Nat /\ row[k] \in Nat /\ row'[k] \in Nat /\ UserTime \in Nat
          BY <1>1, Limits DEF SecurityTypeOK
        <5>q. QED  BY <4>1, <4>2, <5>1
      <4>q. QED  BY <4>1, <4>2, <4>3 DEF Recent, Passed
    <3>2. ASSUME NEW k \in Attempts, k \in Passed(u, t)' PROVE k \in Passed(u, t)
      <4>1. k \in OfUser(u, t) /\ op'[k].pc \in {"checked", "expire record", "record"}
        BY <3>0, <3>2 DEF Passed
      <4>q. QED  BY <4>1 DEF Passed, PassedStages
    <3>3. Recent(OfUser(u, t), row, UserTime)' \subseteq Attempts /\ Passed(u, t)' \subseteq Attempts
      BY DEF Recent, OfUser, Passed
    <3>q. QED  BY <3>1, <3>2, <3>3
  <2>q. QED  BY <2>1, BudgetShrinks
<1>7. Served'
  <2>1. \A k \in Attempts : op'[k].pc = "idle" => seen'[k] = 0 /\ row'[k] = 0
    BY <1>1 DEF Continues, Served
  <2>2. InFlight' \subseteq InFlight /\ InFlight \subseteq Attempts
    BY SameAttempts DEF InFlight
  <2>3. ~up' => InFlight' = {} /\ \A k \in Attempts : seen'[k] > 0 => k \in forgiven'
    BY <1>1, <2>2 DEF Served
  <2>4. Cardinality(InFlight)' <= MaxInFlight
    <3>1. Cardinality(InFlight') <= Cardinality(InFlight) /\ Cardinality(InFlight') \in Nat /\ Cardinality(InFlight) \in Nat
      BY <2>2, AttemptsFinite
    <3>q. QED  BY <1>1, <3>1, Limits DEF Served
  <2>q. QED  BY <2>1, <2>3, <2>4 DEF Served
<1>q. QED  BY <1>3, <1>4, <1>5, <1>6, <1>7 DEF SecurityInv

\* What the types say of the state.
LEMMA StateTyped ==
    ASSUME SecurityInv
    PROVE  /\ time \in Nat /\ blocked \in [Ips -> Entries] /\ dbBlock \in [Ips -> Entries]
           /\ \A i \in Ips : blocked[i].until \in Nat
           /\ \A k \in Attempts : seen[k] \in Nat /\ seen[k] <= time /\ row[k] \in Nat /\ row[k] <= time
           /\ \A k \in Attempts : op[k].pc = "idle" => row[k] = 0
           /\ \A k \in Attempts : op[k].pc # "idle" => op[k].ip \in Ips
           /\ \A i \in Ips : blocked[i].by = "auto" => blocked[i].until <= time + ExtTime
<1>1. SecurityTypeOK /\ RequestsTyped /\ Served /\ BlocksAreShort
  BY DEF SecurityInv
<1>2. \A e \in Entries : e.until \in Nat
  BY DEF Entries
<1>3. \A r \in Attempted : r.ip \in Ips
  BY DEF Attempted
<1>4. \A k \in Attempts : op[k].pc # "idle" => op[k].ip \in Ips
  BY <1>1, <1>3 DEF RequestsTyped, Idle
<1>5. /\ time \in Nat /\ blocked \in [Ips -> Entries] /\ dbBlock \in [Ips -> Entries]
      /\ \A k \in Attempts : seen[k] \in Nat /\ seen[k] <= time /\ row[k] \in Nat /\ row[k] <= time
  BY <1>1 DEF SecurityTypeOK
<1>q. QED  BY <1>1, <1>2, <1>4, <1>5 DEF Served, BlocksAreShort

\* The same for a step that takes no time and forgives nothing.
LEMMA RequestKeeps ==
    ASSUME SecurityInv, Continues, SecurityTypeOK', RequestsTyped',
           UNCHANGED <<time, up, seen, mem, dbFails, forgiven>>,
           \A i \in Ips : \/ blocked'[i] = blocked[i]
                          \/ blocked[i].until <= time /\ blocked'[i] = None
                          \/ blocked'[i].until > time + FailureWindow /\ blocked'[i].until <= time + ExtTime,
           \A k \in Attempts : row'[k] \in {0, row[k]} \/ op[k].pc = "record",
           \/ Budget' \/ \A k \in Attempts : op'[k].pc \in PassedStages => op[k].pc \in PassedStages
    PROVE  SecurityInv'
<1>1. time' >= time /\ mem' \subseteq mem /\ UNCHANGED <<seen, dbFails>>
  BY StateTyped
<1>2. ASSUME NEW i \in Ips
      PROVE  /\ blocked'[i].until >= blocked[i].until \/ blocked[i].until <= time
                \/ blocked'[i].until > time + FailureWindow
             /\ blocked'[i].by = "auto" => blocked'[i].until <= time' + ExtTime
  <2>1. /\ blocked[i].until \in Nat /\ time' = time
        /\ blocked[i].by = "auto" => blocked[i].until <= time + ExtTime
    BY StateTyped
  <2>2. CASE blocked'[i] = blocked[i]
    BY <2>1, <2>2
  <2>3. CASE blocked[i].until <= time /\ blocked'[i] = None
    BY <2>1, <2>3, EntriesTyped
  <2>4. CASE blocked'[i].until > time + FailureWindow /\ blocked'[i].until <= time + ExtTime
    BY <2>1, <2>4
  <2>q. QED  BY <2>2, <2>3, <2>4
<1>3. \A k \in Attempts : op[k].pc = "idle" => row'[k] = 0
  BY StateTyped
<1>4. \A k \in Attempts : op[k].pc # "idle" => op[k].ip \in Ips
  BY StateTyped
<1>q. QED  BY <1>1, <1>2, <1>3, <1>4, StepKeeps

-----------------------------------------------------------------------------
LEMMA LoadStep == ASSUME SecurityInv, LoadFromDb PROVE SecurityInv'
<1>1. /\ ~up /\ up' = TRUE
      /\ UNCHANGED <<time, crashes, dbFails, row, seen, mem, userMem, userBlocked, op, admin, forgiven>>
  BY DEF LoadFromDb, failures, accounts, history
<1>2. SecurityTypeOK /\ RequestsTyped /\ Served
  BY DEF SecurityInv
<1>3. /\ blocked' \in [Ips -> Entries] /\ dbBlock' \in [Ips -> Entries]
      /\ \A i \in Ips : blocked'[i].by = "auto" => blocked'[i].until <= time + ExtTime
  <2>1. CASE UNCHANGED blocks
    BY <2>1, StateTyped DEF blocks
  <2>2. CASE /\ blocked' = [i \in Ips |->
                   CASE dbBlock[i].until <= time -> None
                     [] dbBlock[i].by = "auto" /\ dbBlock[i].until > time + ExtTime -> Automatic(time + ExtTime)
                     [] OTHER -> dbBlock[i]]
             /\ dbBlock' = blocked'
    <3>1. ASSUME NEW i \in Ips
          PROVE  blocked'[i] \in Entries /\ (blocked'[i].by = "auto" => blocked'[i].until <= time + ExtTime)
      <4>1. dbBlock[i] \in Entries /\ time \in Nat /\ ExtTime \in Nat /\ dbBlock[i].until \in Nat
        <5>1. \A e \in Entries : e.until \in Nat
          BY DEF Entries
        <5>q. QED  BY <5>1, StateTyped, Limits
      <4>2. Automatic(time + ExtTime) \in Entries /\ Automatic(time + ExtTime).until = time + ExtTime
        <5>1. time + ExtTime \in Nat
          BY <4>1
        <5>q. QED  BY <5>1, EntriesTyped
      <4>0. blocked'[i] = CASE dbBlock[i].until <= time -> None
                [] dbBlock[i].by = "auto" /\ dbBlock[i].until > time + ExtTime -> Automatic(time + ExtTime)
                [] OTHER -> dbBlock[i]
        BY <2>2
      <4>3. CASE dbBlock[i].until <= time
        <5>0. ~(dbBlock[i].until > time + ExtTime)
          BY <4>1, <4>3
        <5>1. blocked'[i] = None
          BY <4>0, <4>3, <5>0
        <5>q. QED  BY <5>1, EntriesTyped
      <4>4. CASE ~(dbBlock[i].until <= time) /\ dbBlock[i].by = "auto" /\ dbBlock[i].until > time + ExtTime
        BY <2>2, <4>1, <4>2, <4>4
      <4>5. CASE ~(dbBlock[i].until <= time) /\ ~(dbBlock[i].by = "auto" /\ dbBlock[i].until > time + ExtTime)
        BY <2>2, <4>1, <4>5
      <4>q. QED  BY <4>3, <4>4, <4>5
    <3>q. QED  BY <2>2, <3>1
  <2>q. QED  BY <2>1, <2>2 DEF LoadFromDb
<1>4. SecurityTypeOK'
  BY <1>1, <1>2, <1>3 DEF SecurityTypeOK
<1>5. RequestsTyped'
  BY <1>1, <1>2 DEF RequestsTyped
<1>6. \A k \in Attempts : seen[k] > 0 => k \in forgiven
  BY <1>1, <1>2 DEF Served
<1>q. QED  BY <1>1, <1>3, <1>4, <1>5, <1>6, Stays, StateTyped, StepKeeps

LEMMA CrashStep == ASSUME SecurityInv, Crash PROVE SecurityInv'
<1>1. /\ up' = FALSE /\ crashes < MaxCrashes /\ crashes' = crashes + 1
      /\ blocked' = [i \in Ips |-> None] /\ mem' = {} /\ forgiven' = {k \in Attempts : seen[k] > 0}
      /\ userMem' = {} /\ userBlocked' = [u \in Users |-> 0]
      /\ op' = [k \in Attempts |-> IF k \in InFlight THEN [op[k] EXCEPT !.pc = "lost", !.n = 0] ELSE op[k]]
      /\ admin' = [a \in AdminOps |-> IF admin[a].pc = "idle" THEN Idle ELSE [pc |-> "done"]]
      /\ UNCHANGED <<time, dbFails, dbBlock, row, seen>>
  BY DEF Crash
<1>2. SecurityTypeOK /\ RequestsTyped /\ Served
  BY DEF SecurityInv
<1>3. \A r \in Attempted :
        LET new == [r EXCEPT !.pc = "lost", !.n = 0]
        IN  new \in Attempted /\ new.pc = "lost" /\ new.ip = r.ip /\ new.type = r.type /\ new.user = r.user
  BY DEF Attempted, Stages
<1>4. ASSUME NEW k \in Attempts
      PROVE  /\ op'[k] \in {Idle} \cup Attempted
             /\ op'[k].pc = "idle" <=> op[k].pc = "idle"
             /\ op[k].pc # "idle" => op'[k].ip = op[k].ip /\ op'[k].type = op[k].type /\ op'[k].user = op[k].user
             /\ op'[k].pc \in Ended \cup {"idle"}
  <2>1. CASE k \in InFlight
    <3>1. op[k] \in Attempted /\ op[k].pc # "idle"
      BY <1>2, <2>1 DEF RequestsTyped, InFlight, Idle
    <3>2. op'[k] = [op[k] EXCEPT !.pc = "lost", !.n = 0]
      BY <1>1, <2>1
    <3>q. QED  BY <1>3, <3>1, <3>2 DEF Ended
  <2>2. CASE k \notin InFlight
    <3>1. op'[k] = op[k]
      BY <1>1, <2>2
    <3>q. QED  BY <1>2, <2>2, <3>1 DEF InFlight, RequestsTyped
  <2>q. QED  BY <2>1, <2>2
<1>5. Continues
  BY <1>4 DEF Continues
<1>6. SecurityTypeOK'
  <2>1. /\ blocked' \in [Ips -> Entries] /\ userBlocked' \in [Users -> Nat]
        /\ forgiven' \subseteq Attempts /\ mem' \subseteq Attempts /\ userMem' \subseteq Attempts
    BY <1>1, EntriesTyped
  <2>2. crashes' \in 0..MaxCrashes /\ up' \in BOOLEAN
    <3>1. crashes \in Nat /\ MaxCrashes \in Nat
      BY <1>2, Limits DEF SecurityTypeOK
    <3>2. crashes < MaxCrashes
      BY <1>1
    <3>3. crashes + 1 \in 0..MaxCrashes
      BY <3>1, <3>2
    <3>q. QED  BY <1>1, <3>3
  <2>q. QED  BY <1>1, <1>2, <2>1, <2>2 DEF SecurityTypeOK
<1>7. RequestsTyped'
  <2>1. op' \in [Attempts -> {Idle} \cup Attempted]
    BY <1>1, <1>4
  <2>2. admin' \in [AdminOps -> {Idle, [pc |-> "done"]} \cup SavedBlocks \cup Lifted]
    BY <1>1
  <2>q. QED  BY <2>1, <2>2 DEF RequestsTyped
<1>8. InFlight' = {}
  BY <1>4 DEF InFlight
<1>9. \A k \in Attempts : seen[k] > 0 => k \in forgiven'
  BY <1>1
<1>10. \A i \in Ips : blocked'[i].by # "auto"
  BY <1>1, EntriesTyped
<1>11. \A k \in Attempts : op'[k].pc \notin PassedStages
  BY <1>4 DEF PassedStages, Ended
<1>12. /\ time' >= time /\ mem' \subseteq mem /\ UNCHANGED <<seen, dbFails>>
       /\ \A k \in Attempts : row'[k] = row[k] /\ (op[k].pc = "idle" => row'[k] = 0)
  <2>1. UNCHANGED <<time, seen, dbFails, row>> /\ mem' = {}
    BY <1>1
  <2>2. time' >= time
    BY <2>1, StateTyped
  <2>q. QED  BY <2>1, <2>2, StateTyped
<1>q. QED  BY <1>5, <1>6, <1>7, <1>8, <1>9, <1>10, <1>11, <1>12, StepKeeps

LEMMA TimeStep == ASSUME SecurityInv, TimePasses PROVE SecurityInv'
<1>1. /\ time < MaxClock /\ time' = time + 1
      /\ UNCHANGED <<up, crashes, dbFails, blocked, dbBlock, row, seen, mem, userMem, userBlocked, op, admin, forgiven>>
  BY DEF TimePasses, blocks, failures, accounts, history
<1>2. SecurityTypeOK /\ RequestsTyped
  BY DEF SecurityInv
<1>3. time \in Nat /\ time >= 1 /\ time' \in 1..(MaxClock + 1) /\ time' >= time
  BY <1>1, <1>2, Limits DEF SecurityTypeOK
<1>4. row' \in [Attempts -> 0..time'] /\ seen' \in [Attempts -> 0..time']
  <2>1. 0..time \subseteq 0..time'
    BY <1>1, <1>3
  <2>q. QED  BY <1>1, <1>2, <2>1 DEF SecurityTypeOK
<1>5. SecurityTypeOK'
  BY <1>1, <1>2, <1>3, <1>4 DEF SecurityTypeOK
<1>6. RequestsTyped'
  BY <1>1, <1>2 DEF RequestsTyped
<1>7. \A i \in Ips : blocked'[i].by = "auto" => blocked'[i].until <= time' + ExtTime
  BY <1>1, <1>3, StateTyped, Limits
<1>q. QED  BY <1>1, <1>3, <1>5, <1>6, <1>7, Stays, StateTyped, StepKeeps

LEMMA SweepStep == ASSUME SecurityInv, Sweep PROVE SecurityInv'
<1>1. /\ mem' = Recent(mem, seen, FailureWindow)
      /\ userMem' = {k \in userMem : Recent(userMem \cap OfUser(op[k].user, op[k].type), seen, UserWindow) # {}}
      /\ userBlocked' = [u \in Users |-> IF time >= userBlocked[u] THEN 0 ELSE userBlocked[u]]
      /\ UNCHANGED <<time, up, crashes, dbFails, blocked, dbBlock, row, seen, op, admin, forgiven>>
  BY DEF Sweep, clock, blocks, history
<1>2. SecurityTypeOK /\ RequestsTyped
  BY DEF SecurityInv
<1>3. /\ mem' \subseteq mem /\ userMem' \subseteq userMem /\ userBlocked' \in [Users -> Nat]
      /\ \A k \in Attempts : k \in mem /\ seen[k] > 0 => k \in mem' \/ seen[k] + FailureWindow < time
  <2>1. userBlocked \in [Users -> Nat]
    BY <1>2 DEF SecurityTypeOK
  <2>q. QED  BY <1>1, <2>1, StateTyped, Limits DEF Recent
<1>4. SecurityTypeOK'
  BY <1>1, <1>2, <1>3 DEF SecurityTypeOK
<1>5. RequestsTyped'
  BY <1>1, <1>2 DEF RequestsTyped
<1>q. QED  BY <1>1, <1>3, <1>4, <1>5, Stays, StateTyped, StepKeeps

-----------------------------------------------------------------------------
LEMMA RemoveStep ==
    ASSUME SecurityInv, NEW k \in Attempts, NEW pc, NEW next, RemoveExpired(k, pc, next),
           (pc = "expire account" /\ next = "account") \/ (pc = "expire record" /\ next = "record")
    PROVE  SecurityInv'
<1>2. /\ op[k].pc = pc /\ op' = [op EXCEPT ![k].pc = next]
      /\ dbBlock' = [dbBlock EXCEPT ![op[k].ip] = None] \/ dbBlock' = dbBlock
      /\ UNCHANGED <<time, up, crashes, dbFails, blocked, row, seen, mem, userMem, userBlocked, admin, forgiven>>
  BY DEF RemoveExpired, Goto, clock, failures, accounts, history
<1>3. SecurityTypeOK /\ RequestsTyped
  BY DEF SecurityInv
<1>4. op[k].pc \notin Ended \cup {"idle"} /\ next \in Stages
      /\ (next \in PassedStages => op[k].pc \in PassedStages)
  BY <1>2 DEF Ended, Stages, PassedStages
<1>5. /\ Continues /\ op' \in [Attempts -> {Idle} \cup Attempted]
      /\ op'[k].pc = next /\ \A j \in Attempts : j # k => op'[j] = op[j]
  BY <1>2, <1>4, Moves
<1>6. dbBlock' \in [Ips -> Entries]
  BY <1>2, StateTyped, EntriesTyped
<1>7. SecurityTypeOK' /\ RequestsTyped'
  BY <1>2, <1>3, <1>5, <1>6 DEF SecurityTypeOK, RequestsTyped
<1>8. \A j \in Attempts : op'[j].pc \in PassedStages => op[j].pc \in PassedStages
  BY <1>4, <1>5
<1>q. QED  BY <1>2, <1>5, <1>7, <1>8, StateTyped, RequestKeeps

\* With the database the account's rows are fewer than its threshold, and the requests that
\* have passed with it no more than are under way.
LEMMA CheckStep ==
    ASSUME SecurityInv, NEW k \in Attempts, IsUsernameBlocked(k) PROVE SecurityInv'
<1>1. /\ op[k].pc = "account"
      /\ UNCHANGED <<time, up, crashes, dbFails, blocked, dbBlock, row, seen, mem, userMem, admin, forgiven>>
  BY DEF IsUsernameBlocked, clock, blocks, failures, history
<1>2. SecurityTypeOK /\ RequestsTyped /\ Served /\ Budget
  BY DEF SecurityInv
<1>3. op[k].pc \notin Ended \cup {"idle"}
  BY <1>1 DEF Ended
<1>4. op[k].type \in Types /\ op[k].user \in Users
  BY <1>3, UnderWay
<1>5. /\ op' = [op EXCEPT ![k].pc = "refused"]
         \/ /\ op' = [op EXCEPT ![k].pc = "checked"]
            /\ ~dbFails => \A t \in Types : ~OverUserLimit(op[k].user, t)
      /\ userBlocked' = userBlocked \/ userBlocked' = [userBlocked EXCEPT ![op[k].user] = 0]
  <2>1. PICK answered \in IF dbFails THEN SUBSET Types ELSE {Types} :
        \/ /\ \E t \in answered : OverUserLimit(op[k].user, t)
           /\ Goto(k, "refused") /\ UNCHANGED userBlocked
        \/ /\ answered # {} /\ \A t \in answered : ~OverUserLimit(op[k].user, t)
           /\ Goto(k, "checked") /\ UNCHANGED userBlocked
        \/ /\ answered = {}
           /\ IF time < userBlocked[op[k].user]
              THEN Goto(k, "refused") /\ UNCHANGED userBlocked
              ELSE Goto(k, "checked") /\ userBlocked' = [userBlocked EXCEPT ![op[k].user] = 0]
    BY DEF IsUsernameBlocked
  <2>2. ~dbFails => answered = Types /\ answered # {}
    BY <1>4, <2>1
  <2>q. QED  BY <2>1, <2>2 DEF Goto
<1>6. PICK pc \in {"refused", "checked"} : op' = [op EXCEPT ![k].pc = pc]
  BY <1>5
<1>7. /\ Continues /\ op' \in [Attempts -> {Idle} \cup Attempted]
      /\ op'[k].pc = pc /\ \A j \in Attempts : j # k => op'[j] = op[j]
  <2>1. pc \in Stages
    BY DEF Stages
  <2>q. QED  BY <1>3, <1>6, <2>1, Moves
<1>8. userBlocked' \in [Users -> Nat]
  BY <1>2, <1>5 DEF SecurityTypeOK
<1>9. SecurityTypeOK' /\ RequestsTyped'
  BY <1>1, <1>2, <1>7, <1>8 DEF SecurityTypeOK, RequestsTyped
<1>10. CASE pc = "refused"
  <2>1. \A j \in Attempts : op'[j].pc \in PassedStages => op[j].pc \in PassedStages
    BY <1>7, <1>10 DEF PassedStages
  <2>q. QED  BY <1>1, <1>7, <1>9, <2>1, StateTyped, StepKeeps
<1>11. CASE pc = "checked" /\ dbFails
  <2>1. Budget'
    BY <1>1, <1>11 DEF Budget
  <2>q. QED  BY <1>1, <1>7, <1>9, <2>1, StateTyped, StepKeeps
<1>12. CASE pc = "checked" /\ ~dbFails
  <2>1. \A t \in Types : ~OverUserLimit(op[k].user, t)
    <3>1. op'[k].pc = "checked"
      BY <1>7, <1>12
    <3>2. op' # [op EXCEPT ![k].pc = "refused"]
      <4>1. op \in [Attempts -> {Idle} \cup Attempted] /\ op[k] \in Attempted
        BY <1>2, <1>3, UnderWay DEF RequestsTyped
      <4>2. [op EXCEPT ![k].pc = "refused"][k] = [op[k] EXCEPT !.pc = "refused"]
        BY <4>1
      <4>3. \A r \in Attempted : [r EXCEPT !.pc = "refused"].pc = "refused"
        BY DEF Attempted
      <4>q. QED  BY <3>1, <4>1, <4>2, <4>3
    <3>q. QED  BY <1>5, <1>12, <3>2
  <2>2. ASSUME NEW u \in Users, NEW t \in Types
        PROVE  Cardinality(Recent(OfUser(u, t), row, UserTime) \cup Passed(u, t))' < UserThreshold[t] + MaxInFlight
    <3> DEFINE rows == Recent(OfUser(u, t), row, UserTime)
               now2 == {j \in OfUser(u, t) : op'[j].pc \in {"checked", "expire record", "record"}}
    <3>1. OfUser(u, t)' = OfUser(u, t)
      BY <1>7, SameAttempts DEF OfUser
    <3>2. (Recent(OfUser(u, t), row, UserTime) \cup Passed(u, t))' = rows \cup now2
      BY <1>1, <3>1 DEF Recent, Passed
    <3>3. CASE u = op[k].user
      <4>1. rows \subseteq Attempts /\ now2 \subseteq InFlight' /\ InFlight' \subseteq InFlight /\ InFlight \subseteq Attempts
        BY <1>7, SameAttempts DEF Recent, OfUser, InFlight, Ended
      <4>2. /\ IsFiniteSet(rows) /\ IsFiniteSet(now2) /\ Cardinality(rows) \in Nat /\ Cardinality(now2) \in Nat
            /\ Cardinality(InFlight) \in Nat /\ Cardinality(now2) <= Cardinality(InFlight)
            /\ Cardinality(rows \cap now2) \in Nat
        <5>1. now2 \subseteq InFlight /\ rows \cap now2 \subseteq rows
          BY <4>1
        <5>q. QED  BY <4>1, <5>1, AttemptsFinite
      <4>3. Cardinality(rows \cup now2) = Cardinality(rows) + Cardinality(now2) - Cardinality(rows \cap now2)
        BY <4>2, FS_Union
      <4>4. ~(Cardinality(rows) >= UserThreshold[t])
        BY <2>1, <3>3 DEF OverUserLimit
      <4>5. Cardinality(InFlight) <= MaxInFlight /\ UserThreshold[t] \in Nat /\ MaxInFlight \in Nat
        BY <1>2, Limits DEF Served
      <4> HIDE DEF rows, now2
      <4>6. Cardinality(rows \cup now2) < UserThreshold[t] + MaxInFlight
        BY <4>2, <4>3, <4>4, <4>5
      <4>q. QED  BY <3>2, <4>6
    <3>4. CASE u # op[k].user
      <4>1. now2 = Passed(u, t)
        BY <1>7, <3>4 DEF Passed, OfUser
      <4>q. QED  BY <1>2, <1>12, <3>2, <4>1 DEF Budget
    <3>q. QED  BY <3>3, <3>4
  <2>3. Budget'
    BY <2>2 DEF Budget
  <2>q. QED  BY <1>1, <1>7, <1>9, <2>3, StateTyped, StepKeeps
<1>q. QED  BY <1>10, <1>11, <1>12

LEMMA RecordStep == ASSUME SecurityInv, NEW k \in Attempts, RecordFailure(k) PROVE SecurityInv'
<1>1. /\ op[k].pc = "checked"
      /\ UNCHANGED <<time, up, crashes, dbFails, dbBlock, row, seen, mem, userMem, userBlocked, admin, forgiven>>
  BY DEF RecordFailure, clock, failures, accounts, history
<1>2. PICK pc \in {"refused", "expire record", "record"} :
        /\ op' = [op EXCEPT ![k].pc = pc]
        /\ \/ blocked' = blocked
           \/ time >= blocked[op[k].ip].until /\ blocked' = [blocked EXCEPT ![op[k].ip] = None]
  <2>1. IsBlocked(k, op[k].ip, "refused", "expire record", "record")
    BY DEF RecordFailure
  <2>2. ~Blocked(op[k].ip) => time >= blocked[op[k].ip].until
    <3>1. op[k].pc # "idle"
      BY <1>1
    <3>2. time \in Nat /\ blocked[op[k].ip].until \in Nat
      BY <3>1, StateTyped
    <3>q. QED  BY <3>2 DEF Blocked
  <2>q. QED  BY <2>1, <2>2 DEF IsBlocked, Goto
<1>3. SecurityTypeOK /\ RequestsTyped
  BY DEF SecurityInv
<1>4. op[k].pc \notin Ended \cup {"idle"} /\ pc \in Stages /\ op[k].pc \in PassedStages
  BY <1>1, <1>2 DEF Ended, Stages, PassedStages
<1>5. /\ Continues /\ op' \in [Attempts -> {Idle} \cup Attempted]
      /\ op'[k].pc = pc /\ \A j \in Attempts : j # k => op'[j] = op[j]
  BY <1>2, <1>4, Moves
<1>6. blocked' \in [Ips -> Entries]
  BY <1>2, StateTyped, EntriesTyped
<1>7. SecurityTypeOK' /\ RequestsTyped'
  BY <1>1, <1>3, <1>5, <1>6 DEF SecurityTypeOK, RequestsTyped
<1>8. \A j \in Attempts : op'[j].pc \in PassedStages => op[j].pc \in PassedStages
  BY <1>4, <1>5
<1>9. \A i \in Ips : blocked'[i] = blocked[i] \/ (blocked[i].until <= time /\ blocked'[i] = None)
  <2>1. \A i \in Ips : i = op[k].ip => blocked[op[k].ip].until \in Nat /\ time \in Nat
    BY StateTyped
  <2>q. QED  BY <1>2, <2>1, StateTyped
<1>q. QED  BY <1>1, <1>5, <1>7, <1>8, <1>9, RequestKeeps

LEMMA InsertStep == ASSUME SecurityInv, NEW k \in Attempts, InsertRow(k) PROVE SecurityInv'
<1>1. /\ op[k].pc = "record"
      /\ UNCHANGED <<time, up, crashes, dbFails, blocked, dbBlock, seen, mem, userMem, userBlocked, admin, forgiven>>
  BY DEF InsertRow, clock, blocks, accounts, history
<1>2. PICK pc \in {"count", "lock"} :
        op' = [op EXCEPT ![k].pc = pc] /\ (row' = row \/ row' = [row EXCEPT ![k] = time])
  BY DEF InsertRow, Goto
<1>3. SecurityTypeOK /\ RequestsTyped
  BY DEF SecurityInv
<1>4. op[k].pc \notin Ended \cup {"idle"} /\ pc \in Stages /\ pc \notin PassedStages
  BY <1>1, <1>2 DEF Ended, Stages, PassedStages
<1>5. /\ Continues /\ op' \in [Attempts -> {Idle} \cup Attempted]
      /\ op'[k].pc = pc /\ \A j \in Attempts : j # k => op'[j] = op[j]
  BY <1>2, <1>4, Moves
<1>6. row' \in [Attempts -> 0..time'] /\ \A j \in Attempts : row'[j] = row[j] \/ op[j].pc = "record"
  <2>1. row \in [Attempts -> 0..time] /\ time \in 0..time /\ time' = time
    BY <1>1, <1>3, StateTyped DEF SecurityTypeOK
  <2>q. QED  BY <1>1, <1>2, <2>1
<1>7. SecurityTypeOK' /\ RequestsTyped'
  BY <1>1, <1>3, <1>5, <1>6 DEF SecurityTypeOK, RequestsTyped
<1>8. \A j \in Attempts : op'[j].pc \in PassedStages => op[j].pc \in PassedStages
  BY <1>4, <1>5
<1>q. QED  BY <1>1, <1>5, <1>6, <1>7, <1>8, RequestKeeps

LEMMA CountRowsStep == ASSUME SecurityInv, NEW k \in Attempts, CountRows(k) PROVE SecurityInv'
<1>1. /\ op[k].pc = "count"
      /\ row' \in {row, [j \in Attempts |-> IF row[j] + Day < time THEN 0 ELSE row[j]]}
      /\ UNCHANGED <<time, up, crashes, dbFails, blocked, dbBlock, seen, mem, userMem, userBlocked, admin, forgiven>>
  BY DEF CountRows, clock, blocks, accounts, history
<1>2. PICK n \in Nat : op' = [op EXCEPT ![k].pc = "lock", ![k].n = n]
  <2>1. Recent(Of(op[k].ip, op[k].type), row, FailureWindow) \subseteq Attempts
    BY DEF Recent, Of
  <2>2. Cardinality(Recent(Of(op[k].ip, op[k].type), row, FailureWindow)) \in Nat /\ 0 \in Nat
    BY <2>1, AttemptsFinite
  <2>q. QED  BY <2>2 DEF CountRows
<1>3. SecurityTypeOK /\ RequestsTyped
  BY DEF SecurityInv
<1>4. op[k].pc \notin Ended \cup {"idle"} /\ "lock" \in Stages /\ "lock" \notin PassedStages
  BY <1>1 DEF Ended, Stages, PassedStages
<1>5. /\ Continues /\ op' \in [Attempts -> {Idle} \cup Attempted]
      /\ op'[k].pc = "lock" /\ \A j \in Attempts : j # k => op'[j] = op[j]
  BY <1>2, <1>4, Moves
<1>6. row' \in [Attempts -> 0..time'] /\ \A j \in Attempts : row'[j] \in {0, row[j]}
  <2>1. row \in [Attempts -> 0..time] /\ 0 \in 0..time /\ time' = time
    BY <1>1, <1>3, StateTyped DEF SecurityTypeOK
  <2>q. QED  BY <1>1, <2>1
<1>7. SecurityTypeOK' /\ RequestsTyped'
  BY <1>1, <1>3, <1>5, <1>6 DEF SecurityTypeOK, RequestsTyped
<1>8. \A j \in Attempts : op'[j].pc \in PassedStages => op[j].pc \in PassedStages
  BY <1>4, <1>5
<1>q. QED  BY <1>1, <1>5, <1>6, <1>7, <1>8, RequestKeeps

LEMMA ExtendStep == ASSUME SecurityInv, NEW k \in Attempts, Extend(k) PROVE SecurityInv'
<1>1. /\ op[k].pc = "extend"
      /\ UNCHANGED <<time, up, crashes, dbFails, dbBlock, row, seen, mem, userMem, userBlocked, admin, forgiven>>
  BY DEF Extend, clock, failures, accounts, history
<1>2. /\ op' = [op EXCEPT ![k].pc = "persist"] \/ op' = [op EXCEPT ![k].pc = "persist", ![k].n = time + ExtTime]
      /\ blocked' = blocked \/ blocked' = [blocked EXCEPT ![op[k].ip] = Automatic(time + ExtTime)]
  BY DEF Extend, Goto
<1>3. SecurityTypeOK /\ RequestsTyped
  BY DEF SecurityInv
<1>4. op[k].pc \notin Ended \cup {"idle"} /\ "persist" \in Stages /\ "persist" \notin PassedStages
  BY <1>1 DEF Ended, Stages, PassedStages
<1>5. time + ExtTime \in Nat /\ time \in Nat /\ FailureWindow < ExtTime /\ FailureWindow \in Nat /\ ExtTime \in Nat
  BY StateTyped, Limits
<1>6. /\ Continues /\ op' \in [Attempts -> {Idle} \cup Attempted]
      /\ op'[k].pc = "persist" /\ \A j \in Attempts : j # k => op'[j] = op[j]
  BY <1>2, <1>4, <1>5, Moves
<1>7. /\ Automatic(time + ExtTime) \in Entries /\ Automatic(time + ExtTime).until = time + ExtTime
      /\ time + ExtTime > time + FailureWindow /\ time + ExtTime <= time + ExtTime
  <2>1. Automatic(time + ExtTime) \in Entries /\ Automatic(time + ExtTime).until = time + ExtTime
    BY <1>5, EntriesTyped
  <2>2. time + ExtTime > time + FailureWindow /\ time + ExtTime <= time + ExtTime
    BY <1>5
  <2>q. QED  BY <2>1, <2>2
<1>8. /\ blocked' \in [Ips -> Entries]
      /\ \A i \in Ips : blocked'[i] = blocked[i] \/ blocked'[i].until = time + ExtTime
  BY <1>2, <1>7, StateTyped
<1>9. SecurityTypeOK' /\ RequestsTyped'
  BY <1>1, <1>3, <1>6, <1>8 DEF SecurityTypeOK, RequestsTyped
<1>10. \A j \in Attempts : op'[j].pc \in PassedStages => op[j].pc \in PassedStages
  BY <1>4, <1>6
<1>11. \A i \in Ips : blocked'[i] = blocked[i]
          \/ (blocked'[i].until > time + FailureWindow /\ blocked'[i].until <= time + ExtTime)
  BY <1>7, <1>8
<1>q. QED  BY <1>1, <1>6, <1>9, <1>10, <1>11, RequestKeeps

LEMMA PersistStep == ASSUME SecurityInv, NEW k \in Attempts, PersistBlock(k) PROVE SecurityInv'
<1>1. /\ op[k].pc = "persist" /\ op' = [op EXCEPT ![k].pc = "done", ![k].n = 0]
      /\ dbBlock' = [dbBlock EXCEPT ![op[k].ip] = Automatic(op[k].n)] \/ dbBlock' = dbBlock
      /\ UNCHANGED <<time, up, crashes, dbFails, blocked, row, seen, mem, userMem, userBlocked, admin, forgiven>>
  BY DEF PersistBlock, clock, failures, accounts, history
<1>2. SecurityTypeOK /\ RequestsTyped
  BY DEF SecurityInv
<1>3. op[k].pc \notin Ended \cup {"idle"} /\ "done" \in Stages /\ "done" \notin PassedStages
  BY <1>1 DEF Ended, Stages, PassedStages
<1>4. /\ Continues /\ op' \in [Attempts -> {Idle} \cup Attempted]
      /\ op'[k].pc = "done" /\ \A j \in Attempts : j # k => op'[j] = op[j]
  BY <1>1, <1>3, Moves
<1>5. dbBlock' \in [Ips -> Entries]
  <2>1. op[k].n \in Nat
    BY <1>3, UnderWay
  <2>q. QED  BY <1>1, <2>1, StateTyped, EntriesTyped
<1>6. SecurityTypeOK' /\ RequestsTyped'
  BY <1>1, <1>2, <1>4, <1>5 DEF SecurityTypeOK, RequestsTyped
<1>7. \A j \in Attempts : op'[j].pc \in PassedStages => op[j].pc \in PassedStages
  BY <1>3, <1>4
<1>q. QED  BY <1>1, <1>4, <1>6, <1>7, RequestKeeps

LEMMA AdminSavesStep == ASSUME SecurityInv, NEW a \in AdminOps, AdminSaves(a) PROVE SecurityInv'
<1>1. /\ admin[a].pc \in {"persist", "remove"} /\ admin' = [admin EXCEPT ![a] = [pc |-> "done"]]
      /\ \/ dbBlock' = [dbBlock EXCEPT ![admin[a].ip] =
                           IF admin[a].pc = "remove" THEN None ELSE [until |-> admin[a].until, by |-> "admin"]]
         \/ dbBlock' = dbBlock
      /\ UNCHANGED <<time, up, crashes, dbFails, blocked, row, seen, mem, userMem, userBlocked, op, forgiven>>
  BY DEF AdminSaves, clock, failures, accounts, history
<1>2. SecurityTypeOK /\ RequestsTyped
  BY DEF SecurityInv
<1>3. dbBlock' \in [Ips -> Entries]
  <2>1. admin[a].pc = "remove" \/ admin[a].until \in Nat
    <3>1. \A s \in SavedBlocks : s.until \in Nat
      BY DEF SavedBlocks
    <3>2. \A s \in Lifted : s.pc = "remove"
      BY DEF Lifted
    <3>3. admin[a] \in SavedBlocks \cup Lifted
      BY <1>1, <1>2 DEF RequestsTyped, Idle
    <3>q. QED  BY <3>1, <3>2, <3>3
  <2>q. QED  BY <1>1, <2>1, StateTyped, EntriesTyped
<1>4. admin' \in [AdminOps -> {Idle, [pc |-> "done"]} \cup SavedBlocks \cup Lifted]
  BY <1>1, <1>2 DEF RequestsTyped
<1>5. SecurityTypeOK' /\ RequestsTyped'
  BY <1>1, <1>2, <1>3, <1>4 DEF SecurityTypeOK, RequestsTyped
<1>q. QED  BY <1>1, <1>5, Stays, RequestKeeps

LEMMA BlockStep == ASSUME SecurityInv, NEW a \in AdminOps, NEW i \in Ips, BlockManually(a, i) PROVE SecurityInv'
<1>1. /\ up /\ admin' = [admin EXCEPT ![a] = [pc |-> "persist", ip |-> i, until |-> time + AdminTime]]
      /\ blocked' = [blocked EXCEPT ![i] = [until |-> time + AdminTime, by |-> "admin"]]
      /\ mem' = {k \in mem : op[k].ip # i} /\ forgiven' = forgiven \cup {k \in Attempts : seen[k] > 0 /\ op[k].ip = i}
      /\ UNCHANGED <<time, up, crashes, dbFails, dbBlock, row, seen, userMem, userBlocked, op>>
  BY DEF BlockManually, Forgive, clock, accounts
<1>2. SecurityTypeOK /\ RequestsTyped
  BY DEF SecurityInv
<1>3. time + AdminTime \in Nat
  BY StateTyped, Limits
<1>4. blocked' \in [Ips -> Entries] /\ blocked'[i].by # "auto" /\ \A j \in Ips : j # i => blocked'[j] = blocked[j]
  BY <1>1, <1>3, StateTyped, EntriesTyped
<1>5. admin' \in [AdminOps -> {Idle, [pc |-> "done"]} \cup SavedBlocks \cup Lifted]
  <2>1. [pc |-> "persist", ip |-> i, until |-> time + AdminTime] \in SavedBlocks
    BY <1>3 DEF SavedBlocks
  <2>q. QED  BY <1>1, <1>2, <2>1 DEF RequestsTyped
<1>6. mem' \subseteq mem /\ forgiven' \subseteq Attempts /\ forgiven \subseteq forgiven'
  BY <1>1, <1>2 DEF SecurityTypeOK
<1>7. SecurityTypeOK' /\ RequestsTyped'
  BY <1>1, <1>2, <1>4, <1>5, <1>6 DEF SecurityTypeOK, RequestsTyped
<1>8. \A k \in Attempts : op[k].pc # "idle" /\ seen[k] > 0 /\ k \notin forgiven' =>
        op[k].ip # i /\ (k \in mem => k \in mem') /\ blocked'[op[k].ip].until >= blocked[op[k].ip].until
  BY <1>1, <1>4, StateTyped
<1>9. time' >= time /\ \A j \in Ips : blocked'[j].by = "auto" => blocked'[j].until <= time' + ExtTime
  BY <1>1, <1>4, StateTyped
<1>q. QED  BY <1>1, <1>6, <1>7, <1>8, <1>9, Stays, StateTyped, StepKeeps

LEMMA UnblockStep == ASSUME SecurityInv, NEW a \in AdminOps, NEW i \in Ips, UnblockIp(a, i) PROVE SecurityInv'
<1>1. /\ up /\ admin' = [admin EXCEPT ![a] = [pc |-> "remove", ip |-> i]]
      /\ blocked' = [blocked EXCEPT ![i] = None]
      /\ forgiven' = forgiven \cup {k \in Attempts : seen[k] > 0 /\ op[k].ip = i}
      /\ UNCHANGED <<time, up, crashes, dbFails, dbBlock, row, seen, mem, userMem, userBlocked, op>>
  BY DEF UnblockIp, Forgive, clock, failures, accounts
<1>2. SecurityTypeOK /\ RequestsTyped
  BY DEF SecurityInv
<1>3. blocked' \in [Ips -> Entries] /\ blocked'[i].by # "auto" /\ \A j \in Ips : j # i => blocked'[j] = blocked[j]
  BY <1>1, StateTyped, EntriesTyped
<1>4. admin' \in [AdminOps -> {Idle, [pc |-> "done"]} \cup SavedBlocks \cup Lifted]
  <2>1. [pc |-> "remove", ip |-> i] \in Lifted
    BY DEF Lifted
  <2>q. QED  BY <1>1, <1>2, <2>1 DEF RequestsTyped
<1>5. forgiven' \subseteq Attempts /\ forgiven \subseteq forgiven'
  BY <1>1, <1>2 DEF SecurityTypeOK
<1>6. SecurityTypeOK' /\ RequestsTyped'
  BY <1>1, <1>2, <1>3, <1>4, <1>5 DEF SecurityTypeOK, RequestsTyped
<1>7. \A k \in Attempts : op[k].pc # "idle" /\ seen[k] > 0 /\ k \notin forgiven' =>
        op[k].ip # i /\ blocked'[op[k].ip].until >= blocked[op[k].ip].until
  BY <1>1, <1>3, StateTyped
<1>8. time' >= time /\ \A j \in Ips : blocked'[j].by = "auto" => blocked'[j].until <= time' + ExtTime
  BY <1>1, <1>3, StateTyped
<1>q. QED  BY <1>1, <1>5, <1>6, <1>7, <1>8, Stays, StateTyped, StepKeeps

-----------------------------------------------------------------------------
\* The stages in which a request arrives.
Arrivals == {"refused", "account", "expire account"}

\* A request that comes has neither a row nor a count.
LEMMA AttemptArrives ==
    ASSUME SecurityInv, NEW k \in Attempts, NEW i \in Ips, NEW t \in Types, NEW u \in Users,
           up, op[k].pc = "idle", Cardinality(InFlight) < MaxInFlight,
           UNCHANGED <<time, up, crashes, dbFails, dbBlock, row, seen, mem, userMem, userBlocked, admin, forgiven>>,
           NEW pc \in Arrivals,
           op' = [op EXCEPT ![k] = [pc |-> pc, ip |-> i, type |-> t, user |-> u, n |-> 0]],
           blocked' = blocked \/ (blocked[i].until <= time /\ blocked' = [blocked EXCEPT ![i] = None])
    PROVE  SecurityInv'
<1>1. /\ up /\ op[k].pc = "idle" /\ Cardinality(InFlight) < MaxInFlight
      /\ UNCHANGED <<time, up, crashes, dbFails, dbBlock, row, seen, mem, userMem, userBlocked, admin, forgiven>>
  OBVIOUS
<1>2. SecurityTypeOK /\ RequestsTyped /\ Served
  BY DEF SecurityInv
<1>3. time \in Nat /\ blocked[i].until \in Nat /\ seen[k] = 0 /\ row[k] = 0
  BY <1>1, <1>2, StateTyped DEF Served
<1>4. /\ op' = [op EXCEPT ![k] = [pc |-> pc, ip |-> i, type |-> t, user |-> u, n |-> 0]]
      /\ blocked' = blocked \/ (blocked[i].until <= time /\ blocked' = [blocked EXCEPT ![i] = None])
  OBVIOUS
<1>0. seen' = seen /\ row' = row /\ mem' = mem /\ forgiven' = forgiven /\ time' = time /\ dbFails' = dbFails
  BY <1>1
<1> DEFINE new == [pc |-> pc, ip |-> i, type |-> t, user |-> u, n |-> 0]
<1>5. new \in Attempted /\ new.pc = pc
  BY DEF Attempted, Stages, Arrivals
<1> HIDE DEF new
<1>6. /\ op' \in [Attempts -> {Idle} \cup Attempted] /\ op'[k].pc = pc
      /\ \A j \in Attempts : j # k => op'[j] = op[j]
  <2>1. op \in [Attempts -> {Idle} \cup Attempted] /\ op' = [op EXCEPT ![k] = new]
    BY <1>2, <1>4 DEF RequestsTyped, new
  <2>q. QED  BY <1>5, <2>1
<1>7. /\ blocked' \in [Ips -> Entries]
      /\ \A j \in Ips : blocked'[j] = blocked[j] \/ (blocked[j].until <= time /\ blocked'[j] = None)
  BY <1>4, StateTyped, EntriesTyped
<1>8. SecurityTypeOK' /\ RequestsTyped'
  BY <1>1, <1>2, <1>6, <1>7 DEF SecurityTypeOK, RequestsTyped
<1>9. Counted'
  <2>1. \A j \in Attempts : op'[j].pc # "idle" /\ seen'[j] > 0 /\ j \notin forgiven' =>
               /\ op'[j] = op[j] /\ op[j].pc # "idle" /\ op[j].ip \in Ips
               /\ j \in mem => j \in mem' \/ seen[j] + FailureWindow < time
               /\ \/ blocked'[op[j].ip].until >= blocked[op[j].ip].until
                  \/ blocked[op[j].ip].until <= time
                  \/ blocked'[op[j].ip].until > time + FailureWindow
    <3>1. ASSUME NEW j \in Attempts, op'[j].pc # "idle", seen'[j] > 0
          PROVE  op'[j] = op[j] /\ op[j].pc # "idle" /\ op[j].ip \in Ips
      <4>1. j # k
        BY <1>0, <1>3, <3>1
      <4>q. QED  BY <1>6, <3>1, <4>1, StateTyped
    <3>2. \A j \in Ips : blocked'[j].until >= blocked[j].until \/ blocked[j].until <= time
      <4>1. ASSUME NEW j \in Ips PROVE blocked'[j].until >= blocked[j].until \/ blocked[j].until <= time
        <5>1. blocked[j].until \in Nat
          BY StateTyped
        <5>2. blocked'[j] = blocked[j] \/ blocked[j].until <= time
          BY <1>7
        <5>q. QED  BY <5>1, <5>2
      <4>q. QED  BY <4>1
    <3>q. QED  BY <1>0, <3>1, <3>2
  <2>2. time' >= time
    BY <1>0, <1>3
  <2>3. \A j \in Attempts : op'[j].pc # "idle" /\ seen'[j] > 0 /\ j \notin forgiven' =>
               /\ op[j].pc # "idle" /\ j \notin forgiven /\ seen'[j] = seen[j] /\ op'[j].ip = op[j].ip
               /\ op[j].ip \in Ips
               /\ j \in mem => j \in mem' \/ seen[j] + FailureWindow < time
               /\ \/ blocked'[op[j].ip].until >= blocked[op[j].ip].until
                  \/ blocked[op[j].ip].until <= time
                  \/ blocked'[op[j].ip].until > time + FailureWindow
    BY <1>0, <2>1
  <2>q. QED  BY <1>8, <2>2, <2>3, CountingGoesOn
<1>10. FewInMemory'
  <2>1. ASSUME NEW j \in Ips, NEW s \in Types
        PROVE  Recent(Of(j, s) \cap mem, seen, FailureWindow)' \subseteq Recent(Of(j, s) \cap mem, seen, FailureWindow)
    <3>1. \A x \in Attempts : x \in Of(j, s)' /\ seen[x] > 0 => x \in Of(j, s)
      <4>1. ASSUME NEW x \in Attempts, x \in Of(j, s)', seen[x] > 0 PROVE x \in Of(j, s)
        <5>1. x # k
          BY <1>3, <4>1
        <5>2. op'[x] = op[x]
          BY <1>6, <5>1
        <5>q. QED  BY <4>1, <5>2 DEF Of
      <4>q. QED  BY <4>1
    <3>2. Of(j, s)' \subseteq Attempts
      BY DEF Of
    <3>q. QED  BY <1>0, <3>1, <3>2 DEF Recent
  <2>q. QED  BY <2>1, NoneRemembered
<1>11. BlocksAreShort'
  <2>1. \A j \in Ips : blocked'[j].by = "auto" => blocked'[j].until <= time + ExtTime
    BY <1>7, StateTyped, EntriesTyped
  <2>q. QED  BY <1>1, <2>1 DEF BlocksAreShort
<1>12. Budget'
  <2>1. ASSUME NEW w \in Users, NEW s \in Types
        PROVE  (Recent(OfUser(w, s), row, UserTime) \cup Passed(w, s))'
                 \subseteq Recent(OfUser(w, s), row, UserTime) \cup Passed(w, s)
    <3>1. \A j \in Attempts : j \in Recent(OfUser(w, s), row, UserTime)' => j \in Recent(OfUser(w, s), row, UserTime)
      <4>1. ASSUME NEW x \in Attempts, x \in OfUser(w, s)', row[x] > 0 PROVE x \in OfUser(w, s)
        <5>1. x # k
          BY <1>3, <4>1
        <5>2. op'[x] = op[x]
          BY <1>6, <5>1
        <5>q. QED  BY <4>1, <5>2 DEF OfUser
      <4>q. QED  BY <1>0, <4>1 DEF Recent
    <3>2. \A j \in Attempts : j \in Passed(w, s)' => j \in Passed(w, s)
      BY <1>6 DEF Passed, OfUser, Arrivals
    <3>3. Recent(OfUser(w, s), row, UserTime)' \subseteq Attempts /\ Passed(w, s)' \subseteq Attempts
      BY DEF Recent, OfUser, Passed
    <3>q. QED  BY <3>1, <3>2, <3>3
  <2>q. QED  BY <1>1, <2>1, BudgetShrinks
<1>13. Served'
  <2>1. \A j \in Attempts : op'[j].pc = "idle" => seen'[j] = 0 /\ row'[j] = 0
    BY <1>1, <1>2, <1>6 DEF Served, Arrivals
  <2>2. Cardinality(InFlight)' <= MaxInFlight
    <3>1. InFlight \subseteq Attempts /\ InFlight' \subseteq InFlight \cup {k} /\ InFlight \cup {k} \subseteq Attempts
      BY <1>6 DEF InFlight
    <3>2. IsFiniteSet(InFlight) /\ Cardinality(InFlight) \in Nat
      BY <3>1, AttemptsFinite
    <3>3. Cardinality(InFlight \cup {k}) <= Cardinality(InFlight) + 1
      <4>1. Cardinality(InFlight \cup {k}) = IF k \in InFlight THEN Cardinality(InFlight) ELSE Cardinality(InFlight) + 1
        BY <3>2, FS_AddElement
      <4>q. QED  BY <3>2, <4>1
    <3>4. Cardinality(InFlight') <= Cardinality(InFlight \cup {k}) /\ Cardinality(InFlight') \in Nat
          /\ Cardinality(InFlight \cup {k}) \in Nat
      BY <3>1, AttemptsFinite
    <3>5. Cardinality(InFlight) < MaxInFlight /\ MaxInFlight \in Nat
      BY <1>1, Limits
    <3>q. QED  BY <3>2, <3>3, <3>4, <3>5
  <2>q. QED  BY <1>1, <2>1, <2>2 DEF Served
<1>q. QED  BY <1>8, <1>9, <1>10, <1>11, <1>12, <1>13 DEF SecurityInv

LEMMA AttemptStep ==
    ASSUME SecurityInv, NEW k \in Attempts, NEW i \in Ips, NEW t \in Types, NEW u \in Users, Attempt(k, i, t, u)
    PROVE  SecurityInv'
<1>1. /\ up /\ op[k].pc = "idle" /\ Cardinality(InFlight) < MaxInFlight
      /\ UNCHANGED <<time, up, crashes, dbFails, dbBlock, row, seen, mem, userMem, userBlocked, admin, forgiven>>
  BY DEF Attempt, clock, failures, accounts, history
<1>2. SecurityTypeOK /\ RequestsTyped /\ Served
  BY DEF SecurityInv
<1>3. time \in Nat /\ blocked[i].until \in Nat /\ seen[k] = 0 /\ row[k] = 0
  BY <1>1, <1>2, StateTyped DEF Served
<1>4. PICK pc \in Arrivals :
        /\ op' = [op EXCEPT ![k] = [pc |-> pc, ip |-> i, type |-> t, user |-> u, n |-> 0]]
        /\ blocked' = blocked \/ (blocked[i].until <= time /\ blocked' = [blocked EXCEPT ![i] = None])
  <2> DEFINE arrived(pc) == op' = [op EXCEPT ![k] = [pc |-> pc, ip |-> i, type |-> t, user |-> u, n |-> 0]]
  <2>1. \/ Blocked(i) /\ arrived("refused") /\ UNCHANGED blocked
        \/ /\ ~Blocked(i)
           /\ blocked' = [blocked EXCEPT ![i] = None]
           /\ arrived(IF blocked[i] = None THEN "account" ELSE "expire account")
    BY DEF Attempt
  <2>2. ~Blocked(i) => blocked[i].until <= time
    BY <1>3 DEF Blocked
  <2>3. arrived("refused") \/ arrived("account") \/ arrived("expire account")
    BY <2>1
  <2>q. QED  BY <2>1, <2>2, <2>3 DEF Arrivals
<1>q. QED  BY <1>1, <1>4, AttemptArrives

\* A failure is counted: with the threshold its address is blocked for longer than the window
\* of what memory then forgets; below it memory keeps what is in the window.
LEMMA CountStep == ASSUME SecurityInv, NEW k \in Attempts, CountFailure(k) PROVE SecurityInv'
<1> DEFINE mine == Of(op[k].ip, op[k].type)
           kept == Recent(mine \cap mem, seen, FailureWindow) \cup {k}
           over == Bigger(op[k].n, Cardinality(kept)) >= Threshold[op[k].type]
           others == OfUser(op[k].user, op[k].type)
           pc == IF ~over THEN "done" ELSE "extend"
           n == IF over THEN time + BlockTime ELSE 0
<1>1. /\ op[k].pc = "lock" /\ seen' = [seen EXCEPT ![k] = time]
      /\ blocked' = IF over THEN [blocked EXCEPT ![op[k].ip] = Automatic(time + BlockTime)] ELSE blocked
      /\ mem' = IF over THEN {j \in mem : op[j].ip # op[k].ip} ELSE (mem \ mine) \cup kept
      /\ op' = [op EXCEPT ![k].pc = pc, ![k].n = n]
      /\ UNCHANGED <<time, up, crashes, dbFails, dbBlock, row, admin, forgiven>>
  BY DEF CountFailure, clock, history
<1>2. SecurityTypeOK /\ RequestsTyped /\ Served /\ Counted /\ FewInMemory /\ Budget
  BY DEF SecurityInv
<1>3. op[k].pc \notin Ended \cup {"idle"}
  BY <1>1 DEF Ended
<1>4. up /\ op[k].ip \in Ips /\ op[k].type \in Types /\ op[k].user \in Users /\ op[k].n \in Nat
  BY <1>3, UnderWay
<1>5. /\ time \in Nat /\ FailureWindow \in Nat /\ BlockTime \in Nat /\ time + BlockTime \in Nat /\ ExtTime \in Nat
      /\ FailureWindow < BlockTime /\ BlockTime <= ExtTime
  BY StateTyped, Limits
<1>6. kept \subseteq mine /\ mine \subseteq Attempts /\ k \in mine
  BY <1>3 DEF Recent, Of
<1>7. Cardinality(kept) \in Nat /\ (~over => Cardinality(kept) < Threshold[op[k].type])
  <2>1. Cardinality(kept) \in Nat
    BY <1>6, AttemptsFinite
  <2>2. Threshold[op[k].type] \in Nat
    BY <1>4, Limits
  <2> HIDE DEF kept
  <2>q. QED  BY <1>4, <2>1, <2>2 DEF Bigger
<1>8. userMem' \subseteq Attempts /\ userBlocked' \in [Users -> Nat]
  <2> DEFINE userKept == Recent(others \cap userMem, seen, UserWindow) \cup {k}
             userOver == Cardinality(userKept) >= UserThreshold[op[k].type]
  <2>1. /\ userMem' = (userMem \ others) \cup (IF userOver THEN {} ELSE userKept)
        /\ userBlocked' = IF userOver THEN [userBlocked EXCEPT ![op[k].user] = time + UserTime] ELSE userBlocked
    BY DEF CountFailure, CountAccount
  <2>2. userKept \subseteq Attempts /\ userMem \subseteq Attempts /\ userBlocked \in [Users -> Nat]
    BY <1>2 DEF SecurityTypeOK, Recent, OfUser
  <2>3. time + UserTime \in Nat
    BY <1>5, Limits
  <2> HIDE DEF userKept, userOver, others
  <2>q. QED  BY <2>1, <2>2, <2>3
<1>9. /\ Continues /\ op' \in [Attempts -> {Idle} \cup Attempted]
      /\ op'[k].pc = pc /\ op'[k].ip = op[k].ip /\ \A j \in Attempts : j # k => op'[j] = op[j]
  <2>1. pc \in Stages /\ n \in Nat
    <3>1. pc \in {"done", "extend"}
      OBVIOUS
    <3>2. n = time + BlockTime \/ n = 0
      OBVIOUS
    <3>q. QED  BY <1>5, <3>1, <3>2 DEF Stages
  <2> HIDE DEF pc, n
  <2>q. QED  BY <1>1, <1>3, <2>1, Moves
<1>10. pc \notin PassedStages
  BY DEF PassedStages
<1> HIDE DEF pc, n, over, kept, others
<1>11. /\ Automatic(time + BlockTime) \in Entries /\ Automatic(time + BlockTime).until = time + BlockTime
       /\ time + BlockTime <= time + ExtTime /\ time + BlockTime > time + FailureWindow
  <2>1. Automatic(time + BlockTime) \in Entries /\ Automatic(time + BlockTime).until = time + BlockTime
    BY <1>5, EntriesTyped
  <2>2. time + BlockTime <= time + ExtTime /\ time + BlockTime > time + FailureWindow
    BY <1>5
  <2>q. QED  BY <2>1, <2>2
<1>12. /\ blocked' \in [Ips -> Entries]
       /\ \A i \in Ips : blocked'[i] = IF over /\ i = op[k].ip THEN Automatic(time + BlockTime) ELSE blocked[i]
  BY <1>1, <1>4, <1>11, StateTyped
<1>13. /\ seen' \in [Attempts -> 0..time'] /\ seen'[k] = time
       /\ \A j \in Attempts : j # k => seen'[j] = seen[j]
  <2>1. seen \in [Attempts -> 0..time] /\ time \in 0..time /\ time' = time
    BY <1>1, <1>2, <1>5 DEF SecurityTypeOK
  <2>q. QED  BY <1>1, <2>1
<1>14. mem' \subseteq Attempts
  BY <1>1, <1>2, <1>6 DEF SecurityTypeOK
<1>15. SecurityTypeOK' /\ RequestsTyped'
  BY <1>1, <1>2, <1>8, <1>9, <1>12, <1>13, <1>14 DEF SecurityTypeOK, RequestsTyped
<1>16. Counted'
  <2>1. ASSUME NEW j \in Attempts, op'[j].pc # "idle", seen'[j] > 0, j \notin forgiven'
        PROVE  j \in mem' \/ seen'[j] + FailureWindow < time' \/ seen'[j] + FailureWindow < blocked'[op'[j].ip].until
    <3>1. /\ op[j].pc # "idle" /\ op[j].ip \in Ips /\ op'[j].ip = op[j].ip /\ time' = time
          /\ seen'[j] \in Nat /\ seen'[j] <= time
      <4>1. op[j].pc # "idle" /\ op'[j].ip = op[j].ip /\ time' = time
        BY <1>1, <1>9, <2>1 DEF Continues
      <4>2. seen'[j] = time \/ seen'[j] = seen[j]
        BY <1>13
      <4>q. QED  BY <1>5, <4>1, <4>2, StateTyped
    <3>2. CASE over /\ op[j].ip = op[k].ip
      <4>1. blocked'[op'[j].ip].until = time + BlockTime
        BY <1>11, <1>12, <3>1, <3>2
      <4>q. QED  BY <1>5, <3>1, <4>1
    <3>3. CASE ~over /\ j \in mine
      <4>1. CASE j = k
        BY <1>1, <3>3, <4>1 DEF kept
      <4>2. CASE j # k
        <5>1. seen'[j] = seen[j] /\ j \notin forgiven /\ op[j].ip = op[k].ip
          BY <1>1, <1>13, <2>1, <3>3, <4>2 DEF Of
        <5>2. blocked'[op[j].ip] = blocked[op[j].ip]
          BY <1>12, <3>1, <3>3
        <5>3. j \in mem \/ seen[j] + FailureWindow < time \/ seen[j] + FailureWindow < blocked[op[j].ip].until
          BY <1>2, <2>1, <3>1, <5>1 DEF Counted
        <5>4. j \in mem => j \in kept \/ seen[j] + FailureWindow < time
          <6>1. seen[j] \in Nat /\ seen[j] > 0
            BY <2>1, <3>1, <5>1
          <6>q. QED  BY <1>5, <3>3, <6>1 DEF kept, Recent
        <5>5. j \in kept => j \in mem'
          BY <1>1, <3>3
        <5>q. QED  BY <3>1, <5>1, <5>2, <5>3, <5>4, <5>5
      <4>q. QED  BY <4>1, <4>2
    <3>4. CASE j \notin mine /\ ~(over /\ op[j].ip = op[k].ip)
      <4>1. j # k
        BY <1>6, <3>4
      <4>2. seen'[j] = seen[j] /\ j \notin forgiven
        BY <1>1, <1>13, <2>1, <4>1
      <4>3. blocked'[op[j].ip] = blocked[op[j].ip]
        BY <1>12, <3>1, <3>4
      <4>4. j \in mem => j \in mem'
        BY <1>1, <3>4
      <4>5. j \in mem \/ seen[j] + FailureWindow < time \/ seen[j] + FailureWindow < blocked[op[j].ip].until
        BY <1>2, <2>1, <3>1, <4>2 DEF Counted
      <4>q. QED  BY <3>1, <4>2, <4>3, <4>4, <4>5
    <3>5. CASE over /\ op[j].ip # op[k].ip /\ j \in mine
      BY <3>5 DEF Of
    <3>q. QED  BY <3>2, <3>3, <3>4, <3>5
  <2>q. QED  BY <2>1 DEF Counted
<1>17. FewInMemory'
  <2>1. ASSUME NEW i \in Ips, NEW t \in Types
        PROVE  Cardinality(Recent(Of(i, t) \cap mem, seen, FailureWindow))' < Threshold[t]
    <3>1. Of(i, t)' = Of(i, t) /\ Of(i, t) \subseteq Attempts
      BY <1>9, SameAttempts DEF Of
    <3>2. Recent(Of(i, t) \cap mem, seen, FailureWindow)' \subseteq Of(i, t) \cap mem'
      BY <3>1 DEF Recent
    <3>3. CASE ~over /\ i = op[k].ip /\ t = op[k].type
      <4>1. Of(i, t) \cap mem' \subseteq kept /\ kept \subseteq Attempts
        BY <1>1, <1>6, <3>3
      <4>2. Recent(Of(i, t) \cap mem, seen, FailureWindow)' \subseteq kept
        BY <3>2, <4>1
      <4>3. /\ Cardinality(Recent(Of(i, t) \cap mem, seen, FailureWindow))' <= Cardinality(kept)
            /\ Cardinality(Recent(Of(i, t) \cap mem, seen, FailureWindow))' \in Nat
        BY <4>1, <4>2, AttemptsFinite
      <4>4. Threshold[t] \in Nat /\ Cardinality(kept) < Threshold[t]
        BY <1>7, <3>3, Limits
      <4>q. QED  BY <1>7, <4>3, <4>4
    <3>4. CASE over \/ i # op[k].ip \/ t # op[k].type
      <4>1. Of(i, t) \cap mem' \subseteq (Of(i, t) \cap mem) \ {k}
        <5>1. CASE over
          <6>1. \A j \in Of(i, t) \cap mem' : j \in mem /\ j # k
            BY <1>1, <5>1
          <6>q. QED  BY <6>1
        <5>2. CASE ~over /\ (i # op[k].ip \/ t # op[k].type)
          <6>1. Of(i, t) \cap mine = {}
            BY <5>2 DEF Of
          <6>q. QED  BY <1>1, <1>6, <5>2, <6>1
        <5>q. QED  BY <3>4, <5>1, <5>2
      <4>2. Recent(Of(i, t) \cap mem, seen, FailureWindow)' \subseteq Recent(Of(i, t) \cap mem, seen, FailureWindow)
        <5>1. ASSUME NEW j, j \in Recent(Of(i, t) \cap mem, seen, FailureWindow)'
              PROVE  j \in Recent(Of(i, t) \cap mem, seen, FailureWindow)
          <6>1. j \in Of(i, t) \cap mem /\ j # k /\ j \in Attempts
            BY <3>1, <3>2, <4>1, <5>1
          <6>2. seen'[j] = seen[j] /\ time' = time
            BY <1>1, <1>13, <6>1
          <6>q. QED  BY <5>1, <6>1, <6>2 DEF Recent
        <5>q. QED  BY <5>1
      <4>3. Recent(Of(i, t) \cap mem, seen, FailureWindow) \subseteq Attempts
        BY <3>1 DEF Recent
      <4>4. /\ Cardinality(Recent(Of(i, t) \cap mem, seen, FailureWindow))' \in Nat
            /\ Cardinality(Recent(Of(i, t) \cap mem, seen, FailureWindow)) \in Nat
            /\ Cardinality(Recent(Of(i, t) \cap mem, seen, FailureWindow))'
                  <= Cardinality(Recent(Of(i, t) \cap mem, seen, FailureWindow))
        BY <4>2, <4>3, AttemptsFinite
      <4>5. Cardinality(Recent(Of(i, t) \cap mem, seen, FailureWindow)) < Threshold[t]
        BY <1>2 DEF FewInMemory
      <4>q. QED  BY <4>4, <4>5, Limits
    <3>q. QED  BY <3>3, <3>4
  <2>q. QED  BY <2>1 DEF FewInMemory
<1>18. BlocksAreShort'
  <2>1. ASSUME NEW i \in Ips, blocked'[i].by = "auto" PROVE blocked'[i].until <= time + ExtTime
    <3>1. CASE over /\ i = op[k].ip
      BY <1>11, <1>12, <3>1
    <3>2. CASE ~(over /\ i = op[k].ip)
      <4>1. blocked'[i] = blocked[i]
        BY <1>12, <3>2
      <4>q. QED  BY <2>1, <4>1, StateTyped
    <3>q. QED  BY <3>1, <3>2
  <2>2. time' = time
    BY <1>1
  <2>q. QED  BY <2>1, <2>2 DEF BlocksAreShort
<1>19. Budget'
  <2>1. ASSUME NEW u \in Users, NEW t \in Types
        PROVE  (Recent(OfUser(u, t), row, UserTime) \cup Passed(u, t))'
                 \subseteq Recent(OfUser(u, t), row, UserTime) \cup Passed(u, t)
    <3>1. OfUser(u, t)' = OfUser(u, t) /\ OfUser(u, t) \subseteq Attempts
      BY <1>9, SameAttempts DEF OfUser
    <3>2. Recent(OfUser(u, t), row, UserTime)' = Recent(OfUser(u, t), row, UserTime)
      BY <1>1, <3>1 DEF Recent
    <3>3. \A j \in Attempts : op'[j].pc \in PassedStages => op'[j] = op[j]
      BY <1>9, <1>10
    <3>4. Passed(u, t)' \subseteq Passed(u, t)
      BY <3>1, <3>3 DEF Passed, PassedStages
    <3>q. QED  BY <3>2, <3>4
  <2>q. QED  BY <1>1, <2>1, BudgetShrinks
<1>20. Served'
  <2>1. \A j \in Attempts : op'[j].pc = "idle" => seen'[j] = 0 /\ row'[j] = 0
    <3>1. ASSUME NEW j \in Attempts, op'[j].pc = "idle" PROVE seen'[j] = 0 /\ row'[j] = 0
      <4>1. op[j].pc = "idle" /\ j # k
        BY <1>3, <1>9, <3>1 DEF Continues
      <4>q. QED  BY <1>1, <1>2, <1>13, <4>1 DEF Served
    <3>q. QED  BY <3>1
  <2>2. InFlight' \subseteq InFlight /\ InFlight \subseteq Attempts
    BY <1>9, SameAttempts DEF InFlight
  <2>3. Cardinality(InFlight)' <= MaxInFlight
    <3>1. Cardinality(InFlight') <= Cardinality(InFlight) /\ Cardinality(InFlight') \in Nat /\ Cardinality(InFlight) \in Nat
      BY <2>2, AttemptsFinite
    <3>2. Cardinality(InFlight) <= MaxInFlight /\ MaxInFlight \in Nat
      BY <1>2, Limits DEF Served
    <3>q. QED  BY <3>1, <3>2
  <2>q. QED  BY <1>1, <1>4, <2>1, <2>3 DEF Served
<1>q. QED  BY <1>15, <1>16, <1>17, <1>18, <1>19, <1>20 DEF SecurityInv

\* Initially no request has come, and the server is down.
LEMMA SecurityInitially == SecurityInit => SecurityInv
<1> SUFFICES ASSUME SecurityInit PROVE SecurityInv
  OBVIOUS
<1>1. /\ time = 1 /\ up = FALSE /\ crashes = 0 /\ dbFails \in BOOLEAN
      /\ blocked = [i \in Ips |-> None]
      /\ dbBlock \in [Ips -> {None, Automatic(Legacy), [until |-> Legacy, by |-> "admin"]}]
      /\ op = [k \in Attempts |-> Idle] /\ row = [k \in Attempts |-> 0]
      /\ seen = [k \in Attempts |-> 0] /\ mem = {}
      /\ userMem = {} /\ userBlocked = [u \in Users |-> 0]
      /\ admin = [a \in AdminOps |-> Idle] /\ forgiven = {}
  BY DEF SecurityInit
<1>2. Legacy \in Nat
  BY Limits DEF Legacy
<1>3. {None, Automatic(Legacy), [until |-> Legacy, by |-> "admin"]} \subseteq Entries
  BY <1>2, EntriesTyped
<1>4. blocked \in [Ips -> Entries] /\ dbBlock \in [Ips -> Entries]
  BY <1>1, <1>3
<1>5. SecurityTypeOK
  <2>1. time \in 1..(MaxClock + 1) /\ crashes \in 0..MaxCrashes
    BY <1>1, Limits
  <2>2. row \in [Attempts -> 0..time] /\ seen \in [Attempts -> 0..time] /\ userBlocked \in [Users -> Nat]
    BY <1>1
  <2>q. QED  BY <1>1, <1>4, <2>1, <2>2 DEF SecurityTypeOK
<1>6. RequestsTyped
  BY <1>1 DEF RequestsTyped
<1>7. \A k \in Attempts : op[k].pc = "idle" /\ seen[k] = 0 /\ row[k] = 0
  BY <1>1 DEF Idle
<1>8. InFlight = {}
  BY <1>7 DEF InFlight
<1>9. Served
  BY <1>7, <1>8, Limits, FS_EmptySet DEF Served
<1>10. Counted
  BY <1>7 DEF Counted
<1>11. FewInMemory
  <2>1. \A i \in Ips, t \in Types : Recent(Of(i, t) \cap mem, seen, FailureWindow) = {}
    BY <1>1 DEF Recent
  <2>q. QED  BY <2>1, Limits, FS_EmptySet DEF FewInMemory
<1>12. BlocksAreShort
  BY <1>1, EntriesTyped DEF BlocksAreShort
<1>13. Budget
  <2>1. \A u \in Users, t \in Types : Recent(OfUser(u, t), row, UserTime) \cup Passed(u, t) = {}
    BY <1>7 DEF Recent, OfUser, Passed
  <2>2. \A t \in Types : 0 < UserThreshold[t] + MaxInFlight
    BY Limits
  <2>q. QED  BY <2>1, <2>2, FS_EmptySet DEF Budget
<1>q. QED  BY <1>5, <1>6, <1>9, <1>10, <1>11, <1>12, <1>13 DEF SecurityInv

LEMMA SecurityStep == SecurityInv /\ [SecurityNext]_securityVars => SecurityInv'
<1> SUFFICES ASSUME SecurityInv, [SecurityNext]_securityVars PROVE SecurityInv'
  OBVIOUS
<1>1. ASSUME NEW k \in Attempts, Request(k) PROVE SecurityInv'
  <2>1. ASSUME NEW i \in Ips, NEW t \in Types, NEW u \in Users, Attempt(k, i, t, u) PROVE SecurityInv'
    BY <2>1, AttemptStep
  <2>2. CASE RemoveExpired(k, "expire account", "account")
    BY <2>2, RemoveStep
  <2>3. CASE RemoveExpired(k, "expire record", "record")
    BY <2>3, RemoveStep
  <2>q. QED
    BY <1>1, <2>1, <2>2, <2>3, CheckStep, RecordStep, InsertStep, CountRowsStep, CountStep, ExtendStep, PersistStep
       DEF Request
<1>2. CASE UNCHANGED securityVars
  <2>1. UNCHANGED <<time, up, crashes, dbFails, blocked, dbBlock, row, seen, mem, userMem, userBlocked, op, admin, forgiven>>
    BY <1>2 DEF securityVars, clock, blocks, failures, accounts, history
  <2>2. SecurityTypeOK' /\ RequestsTyped'
    BY <2>1 DEF SecurityInv, SecurityTypeOK, RequestsTyped
  <2>q. QED  BY <2>1, <2>2, Stays, RequestKeeps
<1>q. QED
  BY <1>1, <1>2, LoadStep, CrashStep, TimeStep, SweepStep, AdminSavesStep, BlockStep, UnblockStep DEF SecurityNext

\* The limits' invariant, whichever requests interleave, whatever the database refuses and
\* whenever the server restarts (security_manager.py:222-404, 426-530).
THEOREM SecurityInvariance == SecuritySpec => []SecurityInv
BY SecurityInitially, SecurityStep, PTL DEF SecuritySpec

\* Entries, rows and counts are what the code takes them for, and no block or count lies in
\* the future (security_manager.py:43-110).
THEOREM SecurityTypes == SecuritySpec => []SecurityTypeOK
<1>1. SecurityInv => SecurityTypeOK
  BY DEF SecurityInv
<1>q. QED  BY <1>1, SecurityInvariance, PTL

\* An address that is not blocked has fewer failures in its window than the threshold, and no
\* automatic block lasts longer than a day (security_manager.py:85-90, 234-247, 454-475).
THEOREM BlocksFollow == SecuritySpec => []BlocksFollowRules
<1>1. SecurityInv => BlocksFollowRules
  <2> SUFFICES ASSUME SecurityInv PROVE BlocksFollowRules
    OBVIOUS
  <2>1. SecurityTypeOK /\ Counted /\ FewInMemory /\ BlocksAreShort
    BY DEF SecurityInv
  <2>2. ASSUME NEW i \in Ips, NEW t \in Types, ~Blocked(i)
        PROVE  Cardinality(Recent(Of(i, t) \ forgiven, seen, FailureWindow)) < Threshold[t]
    <3>1. Recent(Of(i, t) \ forgiven, seen, FailureWindow) \subseteq Recent(Of(i, t) \cap mem, seen, FailureWindow)
      <4>1. ASSUME NEW k \in Attempts, k \in Of(i, t), k \notin forgiven, seen[k] > 0, seen[k] + FailureWindow >= time
            PROVE  k \in mem
        <5>1. op[k].pc # "idle" /\ op[k].ip = i
          BY <4>1 DEF Of
        <5>2. k \in mem \/ seen[k] + FailureWindow < time \/ seen[k] + FailureWindow < blocked[i].until
          BY <2>1, <4>1, <5>1 DEF Counted
        <5>3. seen[k] \in Nat /\ time \in Nat /\ FailureWindow \in Nat /\ blocked[i].until \in Nat
          BY StateTyped, Limits
        <5>4. ~(time < blocked[i].until)
          BY <2>2 DEF Blocked
        <5>q. QED  BY <4>1, <5>2, <5>3, <5>4
      <4>q. QED  BY <4>1 DEF Recent, Of
    <3>2. Recent(Of(i, t) \cap mem, seen, FailureWindow) \subseteq Attempts
      BY DEF Recent, Of
    <3>3. Cardinality(Recent(Of(i, t) \cap mem, seen, FailureWindow)) < Threshold[t]
      BY <2>1 DEF FewInMemory
    <3>4. /\ Cardinality(Recent(Of(i, t) \ forgiven, seen, FailureWindow)) \in Nat
          /\ Cardinality(Recent(Of(i, t) \cap mem, seen, FailureWindow)) \in Nat
          /\ Cardinality(Recent(Of(i, t) \ forgiven, seen, FailureWindow))
                <= Cardinality(Recent(Of(i, t) \cap mem, seen, FailureWindow))
      BY <3>1, <3>2, AttemptsFinite
    <3>q. QED  BY <3>3, <3>4, Limits
  <2>q. QED  BY <2>1, <2>2 DEF BlocksFollowRules, BlocksAreShort
<1>q. QED  BY <1>1, SecurityInvariance, PTL

\* While the database answers, an account's failures in its window stay below the threshold
\* and the requests under way at once, over all addresses and restarts
\* (security_manager.py:163-186, 345-388).
THEOREM AccountsBudgeted == SecuritySpec => []AccountBudget
<1>1. SecurityInv => AccountBudget
  <2> SUFFICES ASSUME SecurityInv, ~dbFails, NEW u \in Users, NEW t \in Types
               PROVE  Cardinality(Recent(OfUser(u, t), row, UserTime)) < UserThreshold[t] + MaxInFlight
    BY DEF AccountBudget
  <2> DEFINE both == Recent(OfUser(u, t), row, UserTime) \cup Passed(u, t)
  <2>1. Cardinality(both) < UserThreshold[t] + MaxInFlight
    BY DEF SecurityInv, Budget
  <2>2. both \subseteq Attempts /\ Recent(OfUser(u, t), row, UserTime) \subseteq both
    BY DEF Recent, OfUser, Passed
  <2>3. /\ Cardinality(Recent(OfUser(u, t), row, UserTime)) <= Cardinality(both)
        /\ Cardinality(Recent(OfUser(u, t), row, UserTime)) \in Nat /\ Cardinality(both) \in Nat
    BY <2>2, AttemptsFinite
  <2> HIDE DEF both
  <2>q. QED  BY <2>1, <2>3, Limits
<1>q. QED  BY <1>1, SecurityInvariance, PTL
=============================================================================
