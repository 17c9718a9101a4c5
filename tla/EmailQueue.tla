----------------------------- MODULE EmailQueue -----------------------------
(***************************************************************************)
(* The outbound e-mail queue of app/notifications/email_queue.py.          *)
(*                                                                         *)
(* Request threads call enqueue(): a size check against the mark below     *)
(* which capacity is reserved for HIGH priority, start(), and put(), each  *)
(* under its own lock.  Worker threads loop over get(), an SMTP delivery   *)
(* and, after a transient failure, a delayed forced put().  shutdown()     *)
(* clears _started, sets _stopping and closes the queue in three steps.    *)
(*                                                                         *)
(* `order' lists the queued messages by their sequence number; the members *)
(* of `delayed' are in the second heap, those of `due' have a due_at that  *)
(* has passed without being promoted yet.  Time itself is not modelled:    *)
(* a delay ends, and a wait expires, at any moment.                        *)
(***************************************************************************)
EXTENDS Naturals, Sequences, FiniteSets, SequencesExt

CONSTANTS
    Messages,      \* mails, each enqueued at most once
    priority,      \* priority of each: 0 HIGH, 1 NORMAL, 2 LOW
    Producers,     \* threads that call enqueue()
    Threads,       \* worker threads that can come into being
    workers,       \* how many of them one start() creates
    maxsize, normal_priority_limit,
    max_attempts,  \* EMAIL_QUEUE_MAX_ATTEMPTS
    retries,       \* len(RETRY_DELAYS_SECONDS)
    maxErrors,     \* MAX_CONSECUTIVE_WORKER_ERRORS
    NoMessage

ASSUME EmailAssumption ==
    /\ priority \in [Messages -> 0..2]
    /\ workers \in Nat \ {0}
    /\ IsFiniteSet(Threads) /\ Cardinality(Threads) >= 2 * workers
    /\ maxsize \in Nat \ {0}
    /\ normal_priority_limit \in 1..maxsize
    /\ max_attempts \in Nat \ {0} /\ retries \in Nat
    /\ maxErrors \in Nat \ {0}
    /\ NoMessage \notin Messages

VARIABLES
    order, delayed, due, closed,    \* _PriorityDelayQueue
    waiting,                        \* worker threads inside get()'s wait
    started, stopping,              \* _started, _stopping
    worker,                         \* where in _run() each thread is
    message,                        \* the mail each thread is delivering
    errors,                         \* consecutive_errors of each thread
    attempts,                       \* attempts of each mail
    producer, offered,              \* where in enqueue() each producer is, and its mail
    shutting, joining,              \* where in shutdown() its caller is; whom it joins
    outcome,                        \* history: what became of each mail
    counts                          \* _counts

heap == <<order, delayed, due, closed>>
threads == <<worker, message, errors>>
vars == <<heap, waiting, started, stopping, threads, attempts, producer, offered, shutting,
          joining, outcome, counts>>

(***************************************************************************)
(* _PriorityDelayQueue                                                     *)
(***************************************************************************)
Queued == ToSet(order)
Size   == Len(order)
\* Mutant of Ready: due mails are never promoted.
ReadyUnpromoted == Queued \ delayed
\* What get() can return once _promote_locked() has run.
Ready  == Queued \ (delayed \ due)

Bump(key) == [counts EXCEPT ![key] = @ + 1]

\* The head of the ready heap: lowest priority value, then lowest sequence number.
Pos(m)   == CHOOSE i \in DOMAIN order : order[i] = m
Before(m, n) == priority[m] < priority[n] \/ (priority[m] = priority[n] /\ Pos(m) < Pos(n))
Served   == CHOOSE m \in Ready : \A n \in Ready \ {m} : Before(m, n)

Without(m) == RemoveAt(order, Pos(m))

\* Condition.notify()
NotifyOne == IF waiting = {} THEN UNCHANGED waiting
                             ELSE \E t \in waiting : waiting' = waiting \ {t}

\* put(): the guard is the caller's.
Push(m) == order' = Append(order, m) /\ NotifyOne

-----------------------------------------------------------------------------
Init ==
    /\ order = <<>> /\ delayed = {} /\ due = {} /\ closed = FALSE
    /\ waiting = {}
    /\ started = FALSE /\ stopping = FALSE
    /\ worker = [t \in Threads |-> "unborn"]
    /\ message = [t \in Threads |-> NoMessage]
    /\ errors = [t \in Threads |-> 0]
    /\ attempts = [m \in Messages |-> 0]
    /\ producer = [p \in Producers |-> "out"]
    /\ offered = [p \in Producers |-> NoMessage]
    /\ shutting = "no" /\ joining = {}
    /\ outcome = [m \in Messages |-> "new"]
    /\ counts = [k \in {"accepted", "delivered", "failed", "rejected"} |-> 0]

(***************************************************************************)
(* enqueue()                                                               *)
(***************************************************************************)

\* No host, sender or recipient is configured, or the address does not validate.
EnqueueInvalid(p, m) ==
    /\ producer[p] = "out" /\ outcome[m] = "new"
    /\ outcome' = [outcome EXCEPT ![m] = "rejected"]
    /\ counts' = Bump("rejected")
    /\ UNCHANGED <<heap, waiting, started, stopping, threads, attempts, producer, offered,
                   shutting, joining>>

\* The size is read, and released, before anything is put.
EnqueueChecks(p, m) ==
    /\ producer[p] = "out" /\ outcome[m] = "new"
    /\ IF priority[m] > 0 /\ Size >= normal_priority_limit
       THEN /\ outcome' = [outcome EXCEPT ![m] = "rejected"]
            /\ counts' = Bump("rejected")
            /\ UNCHANGED <<producer, offered>>
       ELSE /\ outcome' = [outcome EXCEPT ![m] = "offered"]
            /\ producer' = [producer EXCEPT ![p] = "start"]
            /\ offered' = [offered EXCEPT ![p] = m]
            /\ UNCHANGED counts
    /\ UNCHANGED <<heap, waiting, started, stopping, threads, attempts, shutting, joining>>

\* start(): creates the workers, and clears _stopping, unless _started is set.
EnqueueStarts(p) ==
    /\ producer[p] = "start"
    /\ producer' = [producer EXCEPT ![p] = "put"]
    /\ IF started
       THEN UNCHANGED <<started, stopping, worker>>
       ELSE /\ started' = TRUE
            /\ stopping' = FALSE
            /\ \E crew \in SUBSET {t \in Threads : worker[t] = "unborn"} :
                 /\ Cardinality(crew) = workers
                 /\ worker' = [t \in Threads |-> IF t \in crew THEN "get" ELSE worker[t]]
    /\ UNCHANGED <<heap, waiting, message, errors, attempts, offered, shutting, joining,
                   outcome, counts>>

\* put() refuses: closed, or at maxsize.
EnqueueRefused(p) ==
    /\ producer[p] = "put"
    /\ closed \/ Size >= maxsize
    /\ outcome' = [outcome EXCEPT ![offered[p]] = "rejected"]
    /\ counts' = Bump("rejected")
    /\ producer' = [producer EXCEPT ![p] = "out"]
    /\ offered' = [offered EXCEPT ![p] = NoMessage]
    /\ UNCHANGED <<heap, waiting, started, stopping, threads, attempts, shutting, joining>>

\* put() accepts; the accepted counter follows.
EnqueueAccepted(p) ==
    /\ producer[p] = "put"
    /\ ~closed /\ Size < maxsize
    /\ Push(offered[p])
    /\ outcome' = [outcome EXCEPT ![offered[p]] = "queued"]
    /\ counts' = Bump("accepted")
    /\ producer' = [producer EXCEPT ![p] = "out"]
    /\ offered' = [offered EXCEPT ![p] = NoMessage]
    /\ UNCHANGED <<delayed, due, closed, started, stopping, threads, attempts, shutting, joining>>

(***************************************************************************)
(* _run(): the worker loop                                                 *)
(***************************************************************************)
InGet(t) == worker[t] = "get" /\ t \notin waiting

\* Mutant of GetMessage: the head is read and not popped.
GetMessagePeeks(t) ==
    /\ InGet(t) /\ Ready # {}
    /\ delayed' = delayed \ due
    /\ due' = {}
    /\ message' = [message EXCEPT ![t] = Served]
    /\ worker' = [worker EXCEPT ![t] = "sending"]
    /\ UNCHANGED <<order, closed, waiting, started, stopping, errors, attempts, producer, offered,
                   shutting, joining, outcome, counts>>

\* get() promotes what is due and returns the head of the ready heap.
GetMessage(t) ==
    /\ InGet(t) /\ Ready # {}
    /\ order' = Without(Served)
    /\ delayed' = delayed \ due
    /\ due' = {}
    /\ message' = [message EXCEPT ![t] = Served]
    /\ worker' = [worker EXCEPT ![t] = "sending"]
    /\ UNCHANGED <<closed, waiting, started, stopping, errors, attempts, producer, offered,
                   shutting, joining, outcome, counts>>

\* get() returns None: closed and drained, or its timeout has passed.
GetNothing(t) ==
    /\ InGet(t) /\ Ready = {}
    /\ worker' = [worker EXCEPT ![t] = "idle"]
    /\ UNCHANGED <<heap, waiting, started, stopping, message, errors, attempts, producer,
                   offered, shutting, joining, outcome, counts>>

\* get() waits for the next due message or for its timeout.
GetWaits(t) ==
    /\ InGet(t) /\ Ready = {} /\ ~(closed /\ delayed = {})
    /\ waiting' = waiting \cup {t}
    /\ UNCHANGED <<heap, started, stopping, threads, attempts, producer, offered, shutting,
                   joining, outcome, counts>>

WaitExpires(t) ==
    /\ t \in waiting
    /\ waiting' = waiting \ {t}
    /\ UNCHANGED <<heap, started, stopping, threads, attempts, producer, offered, shutting,
                   joining, outcome, counts>>

\* The clock passes the due_at of a delayed message.
ComesDue(m) ==
    /\ m \in delayed \ due
    /\ due' = due \cup {m}
    /\ UNCHANGED <<order, delayed, closed, waiting, started, stopping, threads, attempts,
                   producer, offered, shutting, joining, outcome, counts>>

\* After None: leave if _stopping is set, else go round again.
CheckStopping(t) ==
    /\ worker[t] = "idle"
    /\ worker' = [worker EXCEPT ![t] = IF stopping THEN "exited" ELSE "get"]
    /\ UNCHANGED <<heap, waiting, started, stopping, message, errors, attempts, producer,
                   offered, shutting, joining, outcome, counts>>

\* Whether _handle_failure() gives a transient failure another attempt.
MayRetry(n) == n <= retries /\ n < max_attempts

\* _process(): delivered, on the pooled connection or on the one _deliver() reopened after
\* the server had closed it.
Delivers(t) ==
    /\ worker[t] = "sending"
    /\ attempts' = [attempts EXCEPT ![message[t]] = @ + 1]
    /\ outcome' = [outcome EXCEPT ![message[t]] = "delivered"]
    /\ counts' = Bump("delivered")
    /\ message' = [message EXCEPT ![t] = NoMessage]
    /\ worker' = [worker EXCEPT ![t] = "get"]
    /\ errors' = [errors EXCEPT ![t] = 0]
    /\ UNCHANGED <<heap, waiting, started, stopping, producer, offered, shutting, joining>>

\* _process(): the delivery raised; the connection is closed and _handle_failure() decides.
Fails(t, transient) ==
    /\ worker[t] = "sending"
    /\ LET m == message[t]
           n == attempts[m] + 1
           retry == transient /\ MayRetry(n) /\ ~closed
       IN  /\ attempts' = [attempts EXCEPT ![m] = n]
           /\ IF retry
              THEN /\ Push(m)                           \* force = True
                   /\ delayed' = delayed \cup {m}
                   /\ outcome' = [outcome EXCEPT ![m] = "queued"]
                   /\ UNCHANGED counts
              ELSE /\ outcome' = [outcome EXCEPT ![m] = "failed"]
                   /\ counts' = Bump("failed")
                   /\ UNCHANGED <<order, delayed, waiting>>
    /\ message' = [message EXCEPT ![t] = NoMessage]
    /\ worker' = [worker EXCEPT ![t] = "get"]
    /\ errors' = [errors EXCEPT ![t] = 0]
    /\ UNCHANGED <<due, closed, started, stopping, producer, offered, shutting, joining>>

\* An error outside the delivery path: the mail is lost, the worker pauses, and gives up
\* after maxErrors of them in a row.
Stumbles(t) ==
    /\ worker[t] = "sending"
    /\ attempts' = [attempts EXCEPT ![message[t]] = @ + 1]
    /\ outcome' = [outcome EXCEPT ![message[t]] = "lost"]
    /\ errors' = [errors EXCEPT ![t] = @ + 1]
    /\ worker' = [worker EXCEPT ![t] = IF errors[t] + 1 >= maxErrors THEN "exited" ELSE "get"]
    /\ message' = [message EXCEPT ![t] = NoMessage]
    /\ UNCHANGED <<heap, waiting, started, stopping, producer, offered, shutting, joining, counts>>

(***************************************************************************)
(* shutdown(), called once, by the application's lifespan                  *)
(***************************************************************************)

\* Under _lock: nothing to do unless started.
ShutdownTakesThreads ==
    /\ shutting = "no"
    /\ IF started
       THEN /\ shutting' = "stop"
            /\ started' = FALSE
            /\ joining' = {t \in Threads : worker[t] # "unborn"}
       ELSE /\ shutting' = "returned"
            /\ UNCHANGED <<started, joining>>
    /\ UNCHANGED <<heap, waiting, stopping, threads, attempts, producer, offered, outcome, counts>>

ShutdownSetsStopping ==
    /\ shutting = "stop"
    /\ stopping' = TRUE
    /\ shutting' = "close"
    /\ UNCHANGED <<heap, waiting, started, threads, attempts, producer, offered, joining, outcome,
                   counts>>

\* _queue.close() and wake_all().
ShutdownCloses ==
    /\ shutting = "close"
    /\ closed' = TRUE
    /\ waiting' = {}
    /\ shutting' = "join"
    /\ UNCHANGED <<order, delayed, due, started, stopping, threads, attempts, producer, offered,
                   joining, outcome, counts>>

\* Every captured thread has ended, or drain_timeout has passed.
ShutdownReturns ==
    /\ shutting = "join"
    /\ shutting' = IF \A t \in joining : worker[t] = "exited" THEN "joined" ELSE "timed_out"
    /\ UNCHANGED <<heap, waiting, started, stopping, threads, attempts, producer, offered, joining,
                   outcome, counts>>

-----------------------------------------------------------------------------
EnqueueStep(p) == EnqueueStarts(p) \/ EnqueueRefused(p) \/ EnqueueAccepted(p)

WorkerStep(t) ==
    \/ GetMessage(t) \/ GetNothing(t) \/ GetWaits(t) \/ CheckStopping(t)
    \/ Delivers(t) \/ Fails(t, TRUE) \/ Fails(t, FALSE) \/ Stumbles(t)

ShutdownStep == ShutdownSetsStopping \/ ShutdownCloses \/ ShutdownReturns

Next ==
    \/ \E p \in Producers, m \in Messages : EnqueueInvalid(p, m) \/ EnqueueChecks(p, m)
    \/ \E p \in Producers : EnqueueStep(p)
    \/ \E t \in Threads : WorkerStep(t) \/ WaitExpires(t)
    \/ \E m \in Messages : ComesDue(m)
    \/ ShutdownTakesThreads \/ ShutdownStep

Spec == Init /\ [][Next]_vars

\* Threads that can run do, timed waits end and delays pass; nobody has to enqueue or to
\* call shutdown().
Fairness ==
    /\ \A p \in Producers : WF_vars(EnqueueStep(p))
    /\ \A t \in Threads : WF_vars(WorkerStep(t)) /\ WF_vars(WaitExpires(t))
    /\ \A m \in Messages : WF_vars(ComesDue(m))
    /\ WF_vars(ShutdownStep)

FairSpec == Spec /\ Fairness

(***************************************************************************)
(* Properties                                                              *)
(***************************************************************************)
Alive == {t \in Threads : worker[t] \in {"get", "idle", "sending"}}
Born == {t \in Threads : worker[t] # "unborn"}
InFlight == {t \in Threads : worker[t] = "sending"}

TypeOK ==
    /\ order \in Seq(Messages) /\ delayed \subseteq Queued /\ due \subseteq delayed
    /\ closed \in BOOLEAN /\ started \in BOOLEAN /\ stopping \in BOOLEAN
    /\ waiting \subseteq Threads /\ joining \subseteq Threads
    /\ worker \in [Threads -> {"unborn", "get", "idle", "sending", "exited"}]
    /\ message \in [Threads -> Messages \cup {NoMessage}]
    /\ errors \in [Threads -> Nat]
    /\ attempts \in [Messages -> Nat]
    /\ producer \in [Producers -> {"out", "start", "put"}]
    /\ offered \in [Producers -> Messages \cup {NoMessage}]
    /\ shutting \in {"no", "stop", "close", "join", "joined", "timed_out", "returned"}
    /\ outcome \in [Messages -> {"new", "offered", "queued", "delivered", "failed", "rejected",
                                 "lost"}]
    /\ counts \in [{"accepted", "delivered", "failed", "rejected"} -> Nat]

\* Every accepted mail is queued, in the hands of one worker, delivered, counted as failed,
\* or lost to an unexpected error; no mail is queued twice or delivered by two workers.
\* Forced retries push the queue past maxsize by no more than the mails the workers had in
\* hand: a down mail server cannot make it grow without limit (email_queue.py:462-465).
MailAccounted ==
    /\ \A m \in Messages :
          Cardinality({i \in DOMAIN order : order[i] = m})
            + Cardinality({t \in Threads : message[t] = m})
              = IF outcome[m] = "queued" THEN 1 ELSE 0
    /\ counts["accepted"] = counts["delivered"] + counts["failed"] + Size
          + Cardinality(InFlight) + Cardinality({m \in Messages : outcome[m] = "lost"})
    /\ Cardinality({m \in Queued : attempts[m] = 0}) <= maxsize
    /\ Size + Cardinality(InFlight) <= maxsize + Cardinality(Born)

\* Every accepted mail is delivered or given up on, unless the server shuts down or every
\* worker has given up.
MailResolved == \A m \in Messages :
    outcome[m] = "queued" ~>
        \/ outcome[m] \in {"delivered", "failed", "lost"}
        \/ shutting # "no" \/ Alive = {}

=============================================================================
