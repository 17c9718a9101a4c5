---------------------------- MODULE PushDispatch ----------------------------
(***************************************************************************)
(* The push fan-out: app/notifications/dispatcher.py and scheduler.py, with*)
(* the subscription rows of app/crud/push_subscription.py.                 *)
(*                                                                         *)
(* A notification resolves the vehicle's subscriptions into targets, plain *)
(* values that outlive the database session, and sends them: a single      *)
(* target on the caller's thread, several on a shared thread pool. A       *)
(* transient failure books a later attempt on a heap of timers; an answer  *)
(* that the token is gone deletes the row it came from. Meanwhile devices  *)
(* get new tokens and register them, and the server shuts down.            *)
(*                                                                         *)
(* The push service is external: it accepts or transiently fails a current *)
(* token and calls any older one gone. The rate limiter and the channels'  *)
(* formats are left out; each device is subscribed on one channel.         *)
(***************************************************************************)
EXTENDS Integers, FiniteSets

CONSTANTS
    Notes,          \* the notifications to dispatch
    Devices,        \* the owner's devices
    MaxAttempts,    \* MAX_SEND_ATTEMPTS
    MaxPending,     \* the scheduler's max_pending
    Workers,        \* FANOUT_WORKERS
    MaxTokens,      \* bound on the tokens a device gets
    MaxRows,        \* bound on the rows inserted
    StopsEver       \* whether the application shuts down

ASSUME DispatchAssumption ==
    /\ MaxAttempts \in Nat \ {0} /\ MaxPending \in Nat /\ Workers \in Nat \ {0}
    /\ MaxTokens \in Nat \ {0} /\ MaxRows \in Nat /\ StopsEver \in BOOLEAN

VARIABLES
    token,      \* the token the push service currently delivers to, per device
    row,        \* each device's PushSubscription: its id, 0 for none, and its endpoint
    rows,       \* the number of ids given out
    stage,      \* where each notification's dispatch is
    target,     \* the DispatchTargets of each notification, as copied rows
    todo,       \* the targets not handed to the pool, or not sent inline, yet
    dead,       \* the targets whose rows the dispatch will delete
    jobs,       \* the sends that are queued in the pool or under way
    retryHeap,       \* the booked retries
    accepted,   \* how often each target's send was accepted
    tried,      \* history: each target's sends have begun, or were answered "gone"
    closing     \* how far shutdown_dispatch_pool is

pushVars == <<token, row, rows, stage, target, todo, dead, jobs, retryHeap, accepted, tried, closing>>

NoRow == [id |-> 0, endpoint |-> 0]

Job(n, d, attempt, where, step) ==
    [note |-> n, device |-> d, attempt |-> attempt, where |-> where, step |-> step]

Rows == [id : 0..MaxRows, endpoint : 0..MaxTokens]

PushTypeOK ==
    /\ token \in [Devices -> 1..MaxTokens]
    /\ row \in [Devices -> Rows] /\ rows \in 0..MaxRows
    /\ stage \in [Notes -> {"new", "planned", "submit", "collect", "inline", "reap", "done"}]
    /\ target \in [Notes -> [Devices -> Rows]]
    /\ todo \in [Notes -> SUBSET Devices] /\ dead \in [Notes -> SUBSET Devices]
    /\ jobs \subseteq [note : Notes, device : Devices, attempt : 1..MaxAttempts,
                       where : {"pool", "inline"}, step : {"queued", "sending", "gone"}]
    /\ retryHeap \subseteq [note : Notes, device : Devices, attempt : 2..MaxAttempts]
    /\ Cardinality(retryHeap) <= MaxPending
    /\ accepted \in [Notes -> [Devices -> Nat]]
    /\ tried \in [Notes -> [Devices -> {"no", "yes", "gone"}]]
    /\ closing \in {"no", "scheduler", "flag", "pool", "closed"}

PushInit ==
    /\ token = [d \in Devices |-> 1]
    /\ row = [d \in Devices |-> NoRow] /\ rows = 0
    /\ stage = [n \in Notes |-> "new"]
    /\ target = [n \in Notes |-> [d \in Devices |-> NoRow]]
    /\ todo = [n \in Notes |-> {}] /\ dead = [n \in Notes |-> {}]
    /\ jobs = {} /\ retryHeap = {}
    /\ accepted = [n \in Notes |-> [d \in Devices |-> 0]]
    /\ tried = [n \in Notes |-> [d \in Devices |-> "no"]]
    /\ closing = "no"

-----------------------------------------------------------------------------
\* External: a device gets a new token; the push service calls the old one gone.
NewToken(d) ==
    /\ token[d] < MaxTokens
    /\ token' = [token EXCEPT ![d] = @ + 1]
    /\ UNCHANGED <<row, rows, stage, target, todo, dead, jobs, retryHeap, accepted, tried, closing>>

\* The app registers its token: upsert_subscription changes the endpoint of the device's
\* row in place, or inserts a row.
Upsert(d) ==
    /\ row[d].endpoint # token[d]
    /\ \/ /\ row[d] # NoRow
          /\ row' = [row EXCEPT ![d].endpoint = token[d]]
          /\ UNCHANGED rows
       \/ /\ row[d] = NoRow /\ rows < MaxRows
          /\ row' = [row EXCEPT ![d] = [id |-> rows + 1, endpoint |-> token[d]]]
          /\ rows' = rows + 1
    /\ UNCHANGED <<token, stage, target, todo, dead, jobs, retryHeap, accepted, tried, closing>>

\* dispatch_notification_to_vehicle up to the end of its session: the plan is a copy of
\* the rows.
Plan(n) ==
    /\ stage[n] = "new"
    /\ target' = [target EXCEPT ![n] = row]
    /\ stage' = [stage EXCEPT ![n] = IF \A d \in Devices : row[d] = NoRow THEN "done"
                                     ELSE "planned"]
    /\ UNCHANGED <<token, row, rows, todo, dead, jobs, retryHeap, accepted, tried, closing>>

Targets(n) == {d \in Devices : target[n][d] # NoRow}

\* _get_pool() answers None.
NoPool == closing \in {"flag", "pool", "closed"}

\* _execute: one target, or no pool, is sent by this thread.
Execute(n) ==
    /\ stage[n] = "planned"
    /\ todo' = [todo EXCEPT ![n] = Targets(n)]
    /\ stage' = [stage EXCEPT ![n] =
                    IF Cardinality(Targets(n)) = 1 \/ NoPool THEN "inline" ELSE "submit"]
    /\ UNCHANGED <<token, row, rows, target, dead, jobs, retryHeap, accepted, tried, closing>>

\* One pool.submit of the list; when the pool was shut down meanwhile it raises, and
\* every target is sent inline instead, the outcomes of the submitted ones unread.
Submit(n, d) ==
    /\ stage[n] = "submit" /\ d \in todo[n]
    /\ \/ /\ closing \notin {"pool", "closed"}
          /\ jobs' = jobs \cup {Job(n, d, 1, "pool", "queued")}
          /\ todo' = [todo EXCEPT ![n] = @ \ {d}]
          /\ stage' = [stage EXCEPT ![n] = IF todo[n] = {d} THEN "collect" ELSE "submit"]
          /\ UNCHANGED dead
       \/ /\ closing \in {"pool", "closed"}
          /\ todo' = [todo EXCEPT ![n] = Targets(n)]
          /\ dead' = [dead EXCEPT ![n] = {}]
          /\ stage' = [stage EXCEPT ![n] = "inline"]
          /\ UNCHANGED jobs
    /\ UNCHANGED <<token, row, rows, target, retryHeap, accepted, tried, closing>>

\* The caller's thread sends the next target itself, one at a time.
SendInline(n, d) ==
    /\ stage[n] = "inline" /\ d \in todo[n]
    /\ \A j \in jobs : ~(j.note = n /\ j.where = "inline")
    /\ jobs' = jobs \cup {Job(n, d, 1, "inline", "sending")}
    /\ todo' = [todo EXCEPT ![n] = @ \ {d}]
    /\ tried' = [tried EXCEPT ![n][d] = IF @ = "no" THEN "yes" ELSE @]
    /\ UNCHANGED <<token, row, rows, stage, target, dead, retryHeap, accepted, closing>>

\* A thread of the pool takes up a queued send.
SendPooled(j) ==
    /\ j \in jobs /\ j.step = "queued"
    /\ Cardinality({k \in jobs : k.where = "pool" /\ k.step # "queued"}) < Workers
    /\ jobs' = (jobs \ {j}) \cup {[j EXCEPT !.step = "sending"]}
    /\ tried' = [tried EXCEPT ![j.note][j.device] = IF @ = "no" THEN "yes" ELSE @]
    /\ UNCHANGED <<token, row, rows, stage, target, todo, dead, retryHeap, accepted, closing>>

\* What the push service knows of the endpoint a job was planned with.
IsCurrent(j) == target[j.note][j.device].endpoint = token[j.device]

\* _send_one: the push service accepts.
Accepted(j) ==
    /\ j \in jobs /\ j.step = "sending" /\ IsCurrent(j)
    /\ jobs' = jobs \ {j}
    /\ accepted' = [accepted EXCEPT ![j.note][j.device] = @ + 1]
    /\ UNCHANGED <<token, row, rows, stage, target, todo, dead, retryHeap, tried, closing>>

\* _schedule_retry, refused when the scheduler is closed or full.
Booked(j) ==
    IF j.attempt < MaxAttempts /\ closing = "no" /\ Cardinality(retryHeap) < MaxPending
    THEN retryHeap \cup {[note |-> j.note, device |-> j.device, attempt |-> j.attempt + 1]}
    ELSE retryHeap

\* _send_one: a transient error books another attempt, any other error is final.
Failed(j) ==
    /\ j \in jobs /\ j.step = "sending"
    /\ jobs' = jobs \ {j}
    /\ retryHeap' \in {retryHeap, Booked(j)}
    /\ UNCHANGED <<token, row, rows, stage, target, todo, dead, accepted, tried, closing>>

\* Mutant: run_later does not look at the outcome of its attempt.
GoneUnnoticed(j) ==
    /\ j \in jobs /\ j.step = "sending" /\ ~IsCurrent(j)
    /\ LET waited == j.attempt = 1 /\ (j.where = "pool" => stage[j.note] \in {"submit", "collect"})
       IN  /\ dead' = IF waited THEN [dead EXCEPT ![j.note] = @ \cup {j.device}] ELSE dead
           /\ jobs' = jobs \ {j}
    /\ tried' = [tried EXCEPT ![j.note][j.device] = "gone"]
    /\ UNCHANGED <<token, row, rows, stage, target, todo, retryHeap, accepted, closing>>

\* _send_one: InvalidPushTargetError. A first attempt reports it to the dispatch that
\* waits for its outcome, a retry deletes the row itself.
Gone(j) ==
    /\ j \in jobs /\ j.step = "sending" /\ ~IsCurrent(j)
    /\ LET waited == j.attempt = 1 /\ (j.where = "pool" => stage[j.note] \in {"submit", "collect"})
       IN  /\ dead' = IF waited THEN [dead EXCEPT ![j.note] = @ \cup {j.device}] ELSE dead
           /\ jobs' = (jobs \ {j}) \cup (IF j.attempt > 1 THEN {[j EXCEPT !.step = "gone"]} ELSE {})
    /\ tried' = [tried EXCEPT ![j.note][j.device] = "gone"]
    /\ UNCHANGED <<token, row, rows, stage, target, todo, retryHeap, accepted, closing>>

\* All outcomes of a notification are in.
Collect(n) ==
    /\ \/ stage[n] = "collect" /\ \A j \in jobs : ~(j.note = n /\ j.attempt = 1)
       \/ /\ stage[n] = "inline" /\ todo[n] = {}
          /\ \A j \in jobs : ~(j.note = n /\ j.where = "inline")
    /\ stage' = [stage EXCEPT ![n] = IF dead[n] = {} THEN "done" ELSE "reap"]
    /\ UNCHANGED <<token, row, rows, target, todo, dead, jobs, retryHeap, accepted, tried, closing>>

\* delete_subscription: by id, whatever endpoint the row has by now.
Deletes(n, d) ==
    row' = IF row[d].id = target[n][d].id THEN [row EXCEPT ![d] = NoRow] ELSE row

\* _reap_dead_subscriptions, one row and commit at a time.
Reap(n, d) ==
    /\ stage[n] = "reap" /\ d \in dead[n]
    /\ Deletes(n, d)
    /\ dead' = [dead EXCEPT ![n] = @ \ {d}]
    /\ stage' = [stage EXCEPT ![n] = IF dead[n] = {d} THEN "done" ELSE "reap"]
    /\ UNCHANGED <<token, rows, target, todo, jobs, retryHeap, accepted, tried, closing>>

\* run_later of a retry whose target is gone.
ReapRetried(j) ==
    /\ j \in jobs /\ j.step = "gone"
    /\ Deletes(j.note, j.device)
    /\ jobs' = jobs \ {j}
    /\ UNCHANGED <<token, rows, stage, target, todo, dead, retryHeap, accepted, tried, closing>>

\* Mutant: the entry stays on the retryHeap when its retry is handed over.
FireKeeps(e) ==
    /\ e \in retryHeap
    /\ jobs' = IF NoPool THEN jobs
               ELSE jobs \cup {Job(e.note, e.device, e.attempt, "pool", "queued")}
    /\ UNCHANGED <<token, row, rows, stage, target, todo, dead, retryHeap, accepted, tried, closing>>

\* The timer thread hands a due retry to the pool.
Fire(e) ==
    /\ e \in retryHeap
    /\ retryHeap' = retryHeap \ {e}
    /\ jobs' = IF NoPool THEN jobs
               ELSE jobs \cup {Job(e.note, e.device, e.attempt, "pool", "queued")}
    /\ UNCHANGED <<token, row, rows, stage, target, todo, dead, accepted, tried, closing>>

-----------------------------------------------------------------------------
\* shutdown_dispatch_pool: the scheduler first, whose retries are dropped,
StopScheduler ==
    /\ StopsEver /\ closing = "no"
    /\ closing' = "scheduler" /\ retryHeap' = {}
    /\ UNCHANGED <<token, row, rows, stage, target, todo, dead, jobs, accepted, tried>>

\* then no new use of the pool, then the pool takes no more,
StopPool ==
    /\ \/ closing = "scheduler" /\ closing' = "flag"
       \/ closing = "flag" /\ closing' = "pool"
    /\ UNCHANGED <<token, row, rows, stage, target, todo, dead, jobs, retryHeap, accepted, tried>>

\* and with its last thread finished the connections are closed.
CloseSessions ==
    /\ closing = "pool" /\ \A j \in jobs : j.where # "pool"
    /\ closing' = "closed"
    /\ UNCHANGED <<token, row, rows, stage, target, todo, dead, jobs, retryHeap, accepted, tried>>

Dispatch(n) == Plan(n) \/ Execute(n) \/ Collect(n)
                 \/ \E d \in Devices : Submit(n, d) \/ SendInline(n, d) \/ Reap(n, d)

Send(j) == SendPooled(j) \/ Accepted(j) \/ Failed(j) \/ Gone(j) \/ ReapRetried(j)

PushNext ==
    \/ \E d \in Devices : NewToken(d) \/ Upsert(d)
    \/ \E n \in Notes : Dispatch(n)
    \/ \E j \in jobs : Send(j)
    \/ \E e \in retryHeap : Fire(e)
    \/ StopScheduler \/ StopPool \/ CloseSessions

PushSpec == PushInit /\ [][PushNext]_pushVars

\* Threads run, requests have timeouts and timers fire. Devices may never register.
AllJobs == [note : Notes, device : Devices, attempt : 1..MaxAttempts,
            where : {"pool", "inline"}, step : {"queued", "sending", "gone"}]
SendFairness ==
    /\ \A j \in AllJobs : WF_pushVars(j \in jobs /\ Send(j))
    /\ WF_pushVars(\E e \in retryHeap : Fire(e))
    /\ WF_pushVars(StopPool \/ CloseSessions)
PushFairness == SendFairness /\ \A n \in Notes : WF_pushVars(Dispatch(n))

PushFairSpec == PushSpec /\ PushFairness

-----------------------------------------------------------------------------
\* While the server runs a device gets a notification at most once, as a first attempt
\* and the chain of its retries never overlap; and a dispatch that ended has tried every
\* target, also one that a shutdown overtook between two submits (dispatcher.py:376-436,
\* scheduler.py:82-106).
EveryTargetOnce ==
    /\ closing = "no" => \A n \in Notes, d \in Devices :
         Cardinality({j \in jobs : j.note = n /\ j.device = d})
           + Cardinality({e \in retryHeap : e.note = n /\ e.device = d}) + accepted[n][d] <= 1
    /\ \A n \in Notes : stage[n] \in {"reap", "done"} => \A d \in Targets(n) : tried[n][d] # "no"

\* An answer that the token is gone costs the row it was planned from, on a first
\* attempt and on a retry, while the server runs (dispatcher.py:363-366, 596-598).
GoneIsDeleted == \A n \in Notes, d \in Devices :
    tried[n][d] = "gone" ~> (row[d].id # target[n][d].id \/ closing # "no")
=============================================================================
