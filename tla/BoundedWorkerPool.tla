------------------------- MODULE BoundedWorkerPool -------------------------
(***************************************************************************)
(* The bounded worker pool of app/utils/bounded_worker.py: a fixed number  *)
(* of threads consuming a bounded FIFO of jobs, fed by producer threads    *)
(* (MQTT callbacks, the TCP server) under one of three overflow policies.  *)
(*                                                                         *)
(* One action is one critical section of the condition `_cv' (or of        *)
(* `_start_lock').  shutdown() writes `_closed' without holding `_cv', but *)
(* that write commutes with everything a section does after it has read    *)
(* the flag, so a section may be taken as one step.  A thread inside       *)
(* Condition.wait() is a member of `waiting' until it is notified or its   *)
(* timeout expires; it must then re-enter the section.                     *)
(***************************************************************************)
EXTENDS Naturals, Sequences, FiniteSets

CONSTANTS
    Workers,      \* the pool's threads
    Producers,    \* threads that call submit()
    Jobs,         \* the callables they hand over, each submitted at most once
    maxsize,      \* capacity of the queue
    Policies,     \* overflow policies a pool may be created with
    NoJob, NoThread

ASSUME PoolAssumption ==
    /\ Workers # {}                         \* ValueError otherwise
    /\ maxsize \in Nat \ {0}                \* ValueError otherwise
    /\ Workers \cap Producers = {}
    /\ NoJob \notin Jobs
    /\ NoThread \notin Producers
    /\ Policies \subseteq {"block", "drop_oldest", "drop_newest"}

VARIABLES
    overflow,     \* the policy this pool was created with
    bounded,      \* block_timeout is a number (TRUE) or None (FALSE)
    queue,        \* _queue
    started,      \* _started
    closed,       \* _closed
    starting,     \* the producer holding _start_lock inside start(), or NoThread
    waiting,      \* threads inside _cv.wait(), not yet notified
    worker,       \* state of each worker thread
    running,      \* the job each busy worker executes
    producer,     \* where in submit() each producer thread is
    offered,      \* the job each producer is handing over
    shutting,     \* where in shutdown() its caller is
    counts,       \* _counts
    left,         \* history: jobs in the order they left the queue
    appended,     \* history: jobs in the order they entered the queue
    displaced,    \* history: jobs DROP_OLDEST discarded
    refused       \* history: jobs submit() returned False for

poolVars == <<overflow, bounded, started, closed, starting>>
history  == <<left, appended, displaced, refused>>
vars == <<poolVars, queue, waiting, worker, running, producer, offered,
          shutting, counts, history>>

Threads == Workers \cup Producers

(***************************************************************************)
(* Helpers                                                                 *)
(***************************************************************************)

\* _bump(key)
Bump(c, key) == [c EXCEPT ![key] = @ + 1]

\* Jobs some producer has already handed over.
Known == {offered[p] : p \in Producers} \cup {appended[i] : i \in DOMAIN appended}
            \cup refused

\* A worker thread that has not returned from _run().
Alive(w) == worker[w] \in {"idle", "busy"}

Room == Len(queue) < maxsize

\* submit() returns False: the job is not queued.
Refuse(p) ==
    /\ producer' = [producer EXCEPT ![p] = "out"]
    /\ offered'  = [offered EXCEPT ![p] = NoJob]
    /\ refused'  = refused \cup {offered[p]}

\* Condition.notify(): one waiter, if there is one, is taken off the wait set.
Notify(rest) == IF rest = {} THEN waiting' = {}
                             ELSE \E t \in rest : waiting' = rest \ {t}

\* Condition.notify_all()
NotifyAll == waiting' = {}

\* Mutant of Enqueue: append without notify().
EnqueueSilently(p, q, rest) ==
    /\ queue'    = Append(q, offered[p])
    /\ appended' = Append(appended, offered[p])
    /\ waiting'  = rest
    /\ producer' = [producer EXCEPT ![p] = "accepted"]

\* The end of submit()'s section: append, notify one waiter.
Enqueue(p, q, rest) ==
    /\ queue'    = Append(q, offered[p])
    /\ appended' = Append(appended, offered[p])
    /\ Notify(rest)
    /\ producer' = [producer EXCEPT ![p] = "accepted"]

-----------------------------------------------------------------------------
Init ==
    /\ overflow \in Policies
    /\ bounded \in BOOLEAN
    /\ queue = <<>>
    /\ started = FALSE
    /\ closed = FALSE
    /\ starting = NoThread
    /\ waiting = {}
    /\ worker = [w \in Workers |-> "unborn"]
    /\ running = [w \in Workers |-> NoJob]
    /\ producer = [p \in Producers |-> "out"]
    /\ offered = [p \in Producers |-> NoJob]
    /\ shutting = "no"
    /\ counts = [k \in {"accepted", "dropped", "completed", "failed", "blocked"} |-> 0]
    /\ left = <<>>
    /\ appended = <<>>
    /\ displaced = {}
    /\ refused = {}

(***************************************************************************)
(* start(), called by submit() on first use, and shutdown()                *)
(***************************************************************************)

\* submit(), before the section: already started, or start() returns at once.
StartSkipped(p) ==
    /\ producer[p] = "start"
    /\ started \/ (closed /\ starting = NoThread)
    /\ producer' = [producer EXCEPT ![p] = "enter"]
    /\ UNCHANGED <<poolVars, queue, waiting, worker, running, offered, shutting, counts, history>>

\* start() takes _start_lock and marks the pool started before any thread exists.
StartBegins(p) ==
    /\ producer[p] = "start"
    /\ ~started /\ ~closed /\ starting = NoThread
    /\ started' = TRUE
    /\ starting' = p
    /\ producer' = [producer EXCEPT ![p] = "spawn"]
    /\ UNCHANGED <<overflow, bounded, closed, queue, waiting, worker, running, offered,
                   shutting, counts, history>>

\* thread.start() for one of the workers.
Spawn(p, w) ==
    /\ producer[p] = "spawn"
    /\ worker[w] = "unborn"
    /\ worker' = [worker EXCEPT ![w] = "idle"]
    /\ UNCHANGED <<poolVars, queue, waiting, running, producer, offered, shutting, counts, history>>

\* start() releases _start_lock.
StartEnds(p) ==
    /\ producer[p] = "spawn"
    /\ \A w \in Workers : worker[w] # "unborn"
    /\ starting' = NoThread
    /\ producer' = [producer EXCEPT ![p] = "enter"]
    /\ UNCHANGED <<overflow, bounded, started, closed, queue, waiting, worker, running,
                   offered, shutting, counts, history>>

\* shutdown(), under _start_lock.
ShutdownCloses ==
    /\ shutting = "no"
    /\ starting = NoThread
    /\ closed' = TRUE
    /\ started' = FALSE
    /\ shutting' = IF started THEN "closing" ELSE "returned"
    /\ UNCHANGED <<overflow, bounded, starting, queue, waiting, worker, running, producer,
                   offered, counts, history>>

\* Mutant of ShutdownNotifies: sleeping workers are not woken.
ShutdownSilent ==
    /\ shutting = "closing"
    /\ shutting' = "joining"
    /\ UNCHANGED <<poolVars, queue, waiting, worker, running, producer, offered, counts, history>>

\* shutdown(): wake every waiter, now that _closed is visible.
ShutdownNotifies ==
    /\ shutting = "closing"
    /\ NotifyAll
    /\ shutting' = "joining"
    /\ UNCHANGED <<poolVars, queue, worker, running, producer, offered, counts, history>>

\* shutdown(): every thread joined, or drain_timeout has passed.
ShutdownReturns ==
    /\ shutting = "joining"
    /\ shutting' = IF \A w \in Workers : worker[w] = "exited" THEN "joined" ELSE "timed_out"
    /\ UNCHANGED <<poolVars, queue, waiting, worker, running, producer, offered, counts, history>>

(***************************************************************************)
(* submit()                                                                *)
(***************************************************************************)

\* The unlocked test of _closed.
SubmitBegins(p, j) ==
    /\ producer[p] = "out"
    /\ j \in Jobs \ Known
    /\ IF closed
       THEN /\ refused' = refused \cup {j}
            /\ UNCHANGED <<producer, offered>>
       ELSE /\ producer' = [producer EXCEPT ![p] = "start"]
            /\ offered' = [offered EXCEPT ![p] = j]
            /\ UNCHANGED refused
    /\ UNCHANGED <<poolVars, queue, waiting, worker, running, shutting, counts, left,
                   appended, displaced>>

\* The pool was closed before the section was entered: no counter moves.
SubmitClosed(p) ==
    /\ producer[p] = "enter"
    /\ closed
    /\ Refuse(p)
    /\ UNCHANGED <<poolVars, queue, waiting, worker, running, shutting, counts, left,
                   appended, displaced>>

\* Mutant of SubmitAppends: _closed is not read again inside the section.
SubmitAppendsUnchecked(p) ==
    /\ producer[p] = "enter"
    /\ Room
    /\ Enqueue(p, queue, waiting)
    /\ UNCHANGED <<poolVars, worker, running, offered, shutting, counts, left, displaced,
                   refused>>

\* There is room: append and notify one waiter.
SubmitAppends(p) ==
    /\ producer[p] = "enter"
    /\ ~closed /\ Room
    /\ Enqueue(p, queue, waiting)
    /\ UNCHANGED <<poolVars, worker, running, offered, shutting, counts, left, displaced,
                   refused>>

\* DROP_OLDEST: make room by discarding the head of the queue.
SubmitDisplaces(p) ==
    /\ producer[p] = "enter"
    /\ ~closed /\ ~Room /\ overflow = "drop_oldest"
    /\ Enqueue(p, Tail(queue), waiting)
    /\ left' = Append(left, Head(queue))
    /\ displaced' = displaced \cup {Head(queue)}
    /\ counts' = Bump(counts, "dropped")
    /\ UNCHANGED <<poolVars, worker, running, offered, shutting, refused>>

\* DROP_NEWEST: refuse admission.
SubmitDropsNewest(p) ==
    /\ producer[p] = "enter"
    /\ ~closed /\ ~Room /\ overflow = "drop_newest"
    /\ Refuse(p)
    /\ counts' = Bump(counts, "dropped")
    /\ UNCHANGED <<poolVars, queue, waiting, worker, running, shutting, left, appended, displaced>>

\* BLOCK: _wait_for_room_locked() is entered and waits.
SubmitBlocks(p) ==
    /\ producer[p] = "enter"
    /\ ~closed /\ ~Room /\ overflow = "block"
    /\ producer' = [producer EXCEPT ![p] = "blocked"]
    /\ waiting' = waiting \cup {p}
    /\ counts' = Bump(counts, "blocked")
    /\ UNCHANGED <<poolVars, queue, worker, running, offered, shutting, history>>

\* Mutant of BlockedAppends: an `if' where the code has a `while'.
BlockedAppendsUnchecked(p) ==
    /\ producer[p] = "blocked" /\ p \notin waiting
    /\ ~closed
    /\ Enqueue(p, queue, waiting)
    /\ UNCHANGED <<poolVars, worker, running, offered, shutting, counts, left, displaced,
                   refused>>

\* A woken producer finds room and an open pool.
BlockedAppends(p) ==
    /\ producer[p] = "blocked" /\ p \notin waiting
    /\ Room /\ ~closed
    /\ Enqueue(p, queue, waiting)
    /\ UNCHANGED <<poolVars, worker, running, offered, shutting, counts, left, displaced,
                   refused>>

\* A woken producer finds the pool closed, or still full past its deadline.
BlockedGivesUp(p) ==
    /\ producer[p] = "blocked" /\ p \notin waiting
    /\ closed \/ (~Room /\ bounded)
    /\ Refuse(p)
    /\ counts' = Bump(counts, "dropped")
    /\ UNCHANGED <<poolVars, queue, waiting, worker, running, shutting, left, appended, displaced>>

\* A woken producer finds the queue full again, its deadline (if any) ahead.
BlockedWaitsAgain(p) ==
    /\ producer[p] = "blocked" /\ p \notin waiting
    /\ ~Room /\ ~closed
    /\ waiting' = waiting \cup {p}
    /\ UNCHANGED <<poolVars, queue, worker, running, producer, offered, shutting, counts, history>>

\* After the section: _bump("accepted") and return True.
SubmitReturns(p) ==
    /\ producer[p] = "accepted"
    /\ counts' = Bump(counts, "accepted")
    /\ producer' = [producer EXCEPT ![p] = "out"]
    /\ offered' = [offered EXCEPT ![p] = NoJob]
    /\ UNCHANGED <<poolVars, queue, waiting, worker, running, shutting, history>>

(***************************************************************************)
(* _run(), the worker loop                                                 *)
(***************************************************************************)

Take(w) ==
    /\ worker[w] = "idle" /\ w \notin waiting
    /\ queue # <<>>
    /\ queue' = Tail(queue)
    /\ left' = Append(left, Head(queue))
    /\ running' = [running EXCEPT ![w] = Head(queue)]
    /\ worker' = [worker EXCEPT ![w] = "busy"]
    /\ NotifyAll
    /\ UNCHANGED <<poolVars, producer, offered, shutting, counts, appended, displaced, refused>>

WaitForJob(w) ==
    /\ worker[w] = "idle" /\ w \notin waiting
    /\ queue = <<>> /\ ~closed
    /\ waiting' = waiting \cup {w}
    /\ UNCHANGED <<poolVars, queue, worker, running, producer, offered, shutting, counts, history>>

Exit(w) ==
    /\ worker[w] = "idle" /\ w \notin waiting
    /\ queue = <<>> /\ closed
    /\ worker' = [worker EXCEPT ![w] = "exited"]
    /\ UNCHANGED <<poolVars, queue, waiting, running, producer, offered, shutting, counts, history>>

\* The job returned or raised; either way the worker goes on.
Finish(w, outcome) ==
    /\ worker[w] = "busy"
    /\ counts' = Bump(counts, outcome)
    /\ running' = [running EXCEPT ![w] = NoJob]
    /\ worker' = [worker EXCEPT ![w] = "idle"]
    /\ UNCHANGED <<poolVars, queue, waiting, producer, offered, shutting, history>>

\* A timed wait expires: one second in the worker loop and for block_timeout = None,
\* block_timeout otherwise.
WaitExpires(t) ==
    /\ t \in waiting
    /\ waiting' = waiting \ {t}
    /\ UNCHANGED <<poolVars, queue, worker, running, producer, offered, shutting, counts, history>>

-----------------------------------------------------------------------------
SubmitStep(p) ==
    \/ StartSkipped(p) \/ StartBegins(p) \/ StartEnds(p)
    \/ \E w \in Workers : Spawn(p, w)
    \/ SubmitClosed(p) \/ SubmitAppends(p) \/ SubmitDisplaces(p)
    \/ SubmitDropsNewest(p) \/ SubmitBlocks(p)
    \/ BlockedAppends(p) \/ BlockedGivesUp(p) \/ BlockedWaitsAgain(p)
    \/ SubmitReturns(p)

WorkerStep(w) ==
    \/ Take(w) \/ WaitForJob(w) \/ Exit(w)
    \/ Finish(w, "completed") \/ Finish(w, "failed")

Next ==
    \/ \E p \in Producers : SubmitStep(p)
    \/ \E p \in Producers, j \in Jobs : SubmitBegins(p, j)
    \/ \E w \in Workers : WorkerStep(w)
    \/ \E t \in Threads : WaitExpires(t)
    \/ ShutdownCloses \/ ShutdownNotifies \/ ShutdownReturns

Spec == Init /\ [][Next]_vars

\* Threads that can run do run, a job that was started returns, and shutdown(), once
\* called, goes on.  Nothing forces a timed wait to expire, a producer to submit, or
\* anyone to call shutdown(): liveness may not lean on the one-second polling.
Fairness ==
    /\ \A p \in Producers : WF_vars(SubmitStep(p))
    /\ \A w \in Workers : WF_vars(WorkerStep(w))
    /\ WF_vars(ShutdownNotifies) /\ WF_vars(ShutdownReturns)

FairSpec == Spec /\ Fairness

(***************************************************************************)
(* Properties                                                              *)
(***************************************************************************)

TypeOK ==
    /\ overflow \in {"block", "drop_oldest", "drop_newest"}
    /\ bounded \in BOOLEAN
    /\ queue \in Seq(Jobs)
    /\ started \in BOOLEAN /\ closed \in BOOLEAN
    /\ starting \in Producers \cup {NoThread}
    /\ waiting \subseteq Threads
    /\ worker \in [Workers -> {"unborn", "idle", "busy", "exited"}]
    /\ running \in [Workers -> Jobs \cup {NoJob}]
    /\ producer \in [Producers -> {"out", "start", "spawn", "enter", "blocked", "accepted"}]
    /\ offered \in [Producers -> Jobs \cup {NoJob}]
    /\ shutting \in {"no", "closing", "joining", "joined", "timed_out", "returned"}
    /\ counts \in [{"accepted", "dropped", "completed", "failed", "blocked"} -> Nat]
    /\ left \in Seq(Jobs)
    /\ appended \in Seq(Jobs)
    /\ displaced \subseteq Jobs
    /\ refused \subseteq Jobs

\* The queue never exceeds maxsize, whatever the policy and however many producers were
\* woken by one pop (bounded_worker.py:158, the while of _wait_for_room_locked).
QueueBounded == Len(queue) <= maxsize

\* Jobs leave the queue in the order they entered it, each exactly once, whether a
\* worker took them or DROP_OLDEST displaced them: nothing in between is lost or
\* duplicated (the deque discipline of submit() and _run()).
FifoOrder ==
    /\ appended = left \o queue
    /\ \A i, k \in DOMAIN appended : appended[i] = appended[k] => i = k

\* While a job is queued some worker thread is awake, or is about to be started: no
\* notify() ever goes to a parked producer while the workers sleep, although producers and
\* workers share one condition (bounded_worker.py:175, 210), and no worker returned
\* from _run() while submit() was still going to append (155 against 204).
SomeWorkerAwake ==
    queue # <<>> =>
        \E w \in Workers : \/ Alive(w) /\ w \notin waiting
                           \/ worker[w] = "unborn" /\ starting # NoThread

\* A producer stays parked only while the queue is full: every pop wakes it
\* (bounded_worker.py:208).
ParkedOnlyWhenFull == \A p \in Producers \cap waiting : ~Room

\* When shutdown() returns because every worker was joined, nothing is left behind in
\* the queue and nothing can be added any more (bounded_worker.py:106-136).
JoinedMeansDrained == shutting \in {"joined", "returned"} => queue = <<>>

\* What the pool promises: queue is the buffer, a job leaves it for a worker or for a
\* newer job, and a shutdown() that did not run into its timeout reports it settled.
Buffer == INSTANCE JobBuffer WITH
    Capacity <- maxsize, buffer <- queue, gone <- left, dropped <- displaced,
    open <- ~closed, settled <- shutting \in {"joined", "returned"}

\* Under every policy, with any producers parked on the condition the workers sleep on
\* and a shutdown() at any time, the pool is a bounded FIFO that takes each job once,
\* drops only the oldest and only for a newer one, accepts nothing once it is closed,
\* and is empty for good when shutdown() returns having joined its workers.
KeepsPromise == Buffer!BufferSpec

\* Every queued job is eventually taken by a worker or displaced.
QueuedLeaves == \A j \in Jobs :
    (\E i \in DOMAIN queue : queue[i] = j) ~> (\E i \in DOMAIN left : left[i] = j)

\* Once shutdown() was called on a started pool every worker thread returns.
WorkersExit == shutting = "closing" ~> \A w \in Workers : worker[w] = "exited"
=============================================================================
