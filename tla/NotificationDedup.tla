------------------------- MODULE NotificationDedup -------------------------
(***************************************************************************)
(* The de-duplication of MQTT notifications in                             *)
(* app/mqtt_notification_subscriber.py, in series with the queue to its    *)
(* dispatch workers and the rate limiter they meet there.                  *)
(*                                                                         *)
(* A message is a vehicle, a key (type and subtype of the topic) and a     *)
(* body. The network thread drops it as a duplicate when it has the body   *)
(* of the vehicle's last message, and as similar when its key came within  *)
(* the window; otherwise it is queued, possibly in place of the oldest.    *)
(* Workers offer it to the limiter and forget the slot of one it refuses.  *)
(* The V2 handlers and the API use the limiter without de-duplication. The *)
(* de-duplication's wall clock is taken to run like the monotonic one.     *)
(***************************************************************************)
EXTENDS RateLimiter

CONSTANTS
    Keys,           \* notification types with subtype
    Bodies,         \* message texts
    Window,         \* DUPLICATE_ and SIMILAR_NOTIFICATION_WINDOW_SECONDS
    MaxCache,       \* MAX_CACHE_ENTRIES
    QueueSize,      \* NOTIFY_DISPATCH_QUEUE_SIZE
    Workers,        \* NOTIFY_DISPATCH_WORKERS
    MaxMessages     \* bound on the messages

ASSUME DedupAssumption ==
    /\ Window \in Nat \ {0} /\ MaxCache \in Nat /\ QueueSize \in Nat \ {0}
    /\ Workers \in Nat \ {0} /\ MaxMessages \in Nat

VARIABLES
    messages,   \* the messages that came, each with its time and its fate so far
    last,       \* _last_notification_cache: the message that wrote each vehicle's entry, or 0
    lastType,   \* _last_notification_type_cache, in the same way
    queue,      \* the dispatch pool's queue
    cleared     \* history: the messages there were when the type cache was last cleared

vars == <<limiterVars, messages, last, lastType, queue, cleared>>

Fates == {"duplicate", "similar", "queued", "offered", "refused", "considered", "thrown", "displaced"}

TypeOK ==
    /\ LimiterTypeOK
    /\ messages \in Seq([vehicle : Vehicles, key : Keys, body : Bodies, at : 0..MaxTime, fate : Fates])
    /\ last \in [Vehicles -> 0..Len(messages)]
    /\ lastType \in [Vehicles \X Keys -> 0..Len(messages)]
    /\ queue \in Seq(1..Len(messages)) /\ Len(queue) <= QueueSize
    /\ \A cache \in {last, lastType} :
        Cardinality({x \in DOMAIN cache : cache[x] # 0}) <= MaxCache + 1
    /\ Cardinality({m \in 1..Len(messages) : messages[m].fate \in {"offered", "refused"}}) <= Workers
    /\ cleared \in 0..Len(messages)

Init ==
    /\ LimiterInit
    /\ messages = <<>> /\ queue = <<>> /\ cleared = 0
    /\ last = [v \in Vehicles |-> 0]
    /\ lastType = [x \in Vehicles \X Keys |-> 0]

-----------------------------------------------------------------------------
Age(m) == now - messages[m].at

\* Mutant: an entry is pruned while it can still suppress.
FreshTooStrict(cache) == [x \in DOMAIN cache |->
    IF cache[x] # 0 /\ Age(cache[x]) >= Window - 1 THEN 0 ELSE cache[x]]

\* _prune_caches: entries past their window go.
Fresh(cache) == [x \in DOMAIN cache |->
    IF cache[x] # 0 /\ Age(cache[x]) > Window THEN 0 ELSE cache[x]]

\* _prune_caches: too many that are all live go together.
Capped(cache) ==
    IF Cardinality({x \in DOMAIN cache : cache[x] # 0}) > MaxCache
    THEN [x \in DOMAIN cache |-> 0] ELSE cache

\* A cache entry is inside its window.
Within(m) == m # 0 /\ Age(m) < Window

\* submit to the pool with DROP_OLDEST.
Queued(m) == Append(IF Len(queue) >= QueueSize THEN Tail(queue) ELSE queue, m)

\* The fates after message m got fate f: a full queue loses its head to a queued one.
Fated(m, f, ms) == [i \in DOMAIN ms |->
    IF i = m THEN [ms[i] EXCEPT !.fate = f]
    ELSE IF f = "queued" /\ Len(queue) >= QueueSize /\ i = Head(queue)
    THEN [ms[i] EXCEPT !.fate = "displaced"] ELSE ms[i]]

\* The type cache entries a message writes.
Judged(v, k, byBody, byType) ==
    IF byBody \/ byType THEN {} ELSE {<<v, k>>}

\* _on_message for a push type, from the prune to the submit.
Arrive(v, k, b) ==
    /\ Len(messages) < MaxMessages
    /\ LET m      == Len(messages) + 1
           bodies == Capped(Fresh(last))
           types  == Capped(Fresh(lastType))
           byBody == Within(bodies[v]) /\ messages[bodies[v]].body = b
           byType == Within(types[<<v, k>>])
           fate   == IF byBody THEN "duplicate" ELSE IF byType THEN "similar" ELSE "queued"
       IN  /\ messages' = Fated(m, fate, Append(messages,
                    [vehicle |-> v, key |-> k, body |-> b, at |-> now, fate |-> fate]))
           /\ last' = IF byBody THEN bodies ELSE [bodies EXCEPT ![v] = m]
           /\ lastType' = [x \in DOMAIN types |->
                    IF x \in Judged(v, k, byBody, byType) THEN m ELSE types[x]]
           /\ queue' = IF fate = "queued" THEN Queued(m) ELSE queue
           /\ cleared' = IF types # Fresh(lastType) THEN Len(messages) ELSE cleared
    /\ UNCHANGED limiterVars

\* A worker takes the oldest message,
Offer ==
    /\ queue # <<>>
    /\ Cardinality({m \in DOMAIN messages : messages[m].fate \in {"offered", "refused"}}) < Workers
    /\ messages' = [messages EXCEPT ![Head(queue)].fate = "offered"]
    /\ queue' = Tail(queue)
    /\ UNCHANGED <<limiterVars, last, lastType, cleared>>

\* the dispatcher considers it when the limiter has a token,
Consider(m) ==
    /\ m \in DOMAIN messages /\ messages[m].fate = "offered"
    /\ Acquire(messages[m].vehicle)
    /\ messages' = [messages EXCEPT ![m].fate = "considered"]
    /\ UNCHANGED <<last, lastType, queue, cleared>>

\* and answers False when it has none.
Refuse(m) ==
    /\ m \in DOMAIN messages /\ messages[m].fate = "offered"
    /\ Suppressed(messages[m].vehicle)
    /\ messages' = [messages EXCEPT ![m].fate = "refused"]
    /\ UNCHANGED <<limiterVars, last, lastType, queue, cleared>>

\* _forget_dedup: the vehicle's entry goes, whoever wrote it.
Forget(m) ==
    /\ m \in DOMAIN messages /\ messages[m].fate = "refused"
    /\ messages' = [messages EXCEPT ![m].fate = "thrown"]
    /\ last' = [last EXCEPT ![messages[m].vehicle] = 0]
    /\ UNCHANGED <<limiterVars, lastType, queue, cleared>>

\* The V2 handlers and the API dispatch a notification.
Elsewhere(v) == Acquire(v) /\ UNCHANGED <<messages, last, lastType, queue, cleared>>

Next ==
    \/ \E v \in Vehicles, k \in Keys, b \in Bodies : Arrive(v, k, b)
    \/ Offer
    \/ \E m \in DOMAIN messages : Consider(m) \/ Refuse(m) \/ Forget(m)
    \/ \E v \in Vehicles : Elsewhere(v)
    \/ Tick /\ UNCHANGED <<messages, last, lastType, queue, cleared>>

Spec == Init /\ [][Next]_vars

-----------------------------------------------------------------------------
Let(m) == messages[m].fate \notin {"duplicate", "similar"}


\* Two messages of one vehicle and key that both pass lie a window apart, through every
\* prune and every slot that is forgotten, unless the cache was cleared between them
\* (mqtt_notification_subscriber.py:110-122, 258-269); and a message the limiter threw
\* away does not hold the vehicle's duplicate slot, where it would cost the next one (82-96).
OnePerWindow ==
    /\ \A m, n \in DOMAIN messages :
         m < n /\ cleared < m /\ Let(m) /\ Let(n)
           /\ messages[m].vehicle = messages[n].vehicle /\ messages[m].key = messages[n].key
             => messages[n].at - messages[m].at >= Window
    /\ \A v \in Vehicles : last[v] # 0 => messages[last[v]].fate # "thrown"
=============================================================================
