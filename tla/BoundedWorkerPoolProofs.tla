---------------------- MODULE BoundedWorkerPoolProofs ----------------------
(***************************************************************************)
(* Proofs about BoundedWorkerPool for every number of workers, producers   *)
(* and jobs and every queue size: the queue stays bounded, no wake-up is   *)
(* lost, and a joined shutdown leaves no job behind.                       *)
(***************************************************************************)
EXTENDS BoundedWorkerPool, SequenceTheorems, TLAPS

\* What start() and shutdown() establish about the threads.
Lifecycle ==
    /\ starting # NoThread => producer[starting] = "spawn"
    /\ \A p \in Producers : producer[p] = "spawn" => starting = p
    /\ starting # NoThread => started /\ ~closed
    /\ started => starting # NoThread \/ \A w \in Workers : worker[w] # "unborn"
    /\ ~started /\ ~closed => \A w \in Workers : worker[w] = "unborn"
    /\ \A w \in Workers : worker[w] = "exited" => closed
    /\ closed <=> shutting # "no"
    /\ closed => ~started
    /\ shutting = "returned" => \A w \in Workers : worker[w] = "unborn"
    /\ shutting = "joined" => \A w \in Workers : worker[w] = "exited"

\* What a producer inside submit() may rely on.
InSubmit == \A p \in Producers :
    /\ producer[p] # "out" => offered[p] \in Jobs
    /\ producer[p] \in {"enter", "blocked"} => started \/ closed

\* Who sleeps on the condition, and when.
Sleepers ==
    /\ \A w \in Workers \cap waiting : worker[w] = "idle"
    /\ \A p \in Producers \cap waiting : producer[p] = "blocked"
    /\ ParkedOnlyWhenFull

\* Every job is offered by one producer, and is new to the queue until it is appended.
FifoInv ==
    /\ FifoOrder
    /\ \A p \in Producers : producer[p] \in {"start", "spawn", "enter", "blocked"}
          => \A i \in DOMAIN appended : appended[i] # offered[p]
    /\ \A p, r \in Producers : offered[p] = offered[r] /\ offered[p] # NoJob => p = r

\* The inductive invariant.
PoolInv == /\ TypeOK /\ QueueBounded /\ Lifecycle /\ InSubmit /\ Sleepers
           /\ SomeWorkerAwake /\ FifoInv

\* Appending to the second of two sequences appends to their concatenation.
LEMMA AppendConcat ==
    ASSUME NEW s \in Seq(Jobs), NEW t \in Seq(Jobs), NEW x \in Jobs
    PROVE  s \o Append(t, x) = Append(s \o t, x)
OBVIOUS

\* Moving the head of the second sequence to the end of the first changes nothing.
LEMMA ShiftHead ==
    ASSUME NEW s \in Seq(Jobs), NEW t \in Seq(Jobs), t # <<>>
    PROVE  Append(s, Head(t)) \o Tail(t) = s \o t
OBVIOUS

\* Appending a new element keeps a sequence free of duplicates.
LEMMA AppendKeepsInjective ==
    ASSUME NEW s \in Seq(Jobs), NEW x \in Jobs,
           \A i \in DOMAIN s : s[i] # x,
           \A i, k \in DOMAIN s : s[i] = s[k] => i = k
    PROVE  \A i, k \in DOMAIN Append(s, x) : Append(s, x)[i] = Append(s, x)[k] => i = k
<1>1. DOMAIN s = 1..Len(s) /\ Len(s) \in Nat
  OBVIOUS
<1>2. DOMAIN Append(s, x) = 1..(Len(s) + 1)
  OBVIOUS
<1>3. \A i \in 1..Len(s) : Append(s, x)[i] = s[i]
  OBVIOUS
<1>4. Append(s, x)[Len(s) + 1] = x
  OBVIOUS
<1> QED  BY <1>1, <1>2, <1>3, <1>4

\* What submit()'s append does to the order of the jobs, with or without a displacement.
LEMMA EnqueueFifo ==
    ASSUME NEW p \in Producers, NEW q \in Seq(Jobs), PoolInv,
           producer[p] \in {"enter", "blocked"},
           left' \in Seq(Jobs), appended = left' \o q,
           queue' = Append(q, offered[p]), appended' = Append(appended, offered[p]),
           producer' = [producer EXCEPT ![p] = "accepted"], offered' = offered
    PROVE  FifoInv'
<1> USE PoolAssumption DEF PoolInv
<1>1. offered[p] \in Jobs /\ offered[p] # NoJob
  BY DEF InSubmit
<1>2. appended' = left' \o queue'
  BY <1>1, AppendConcat
<1>3. \A i \in DOMAIN appended : appended[i] # offered[p]
  BY DEF FifoInv
<1>4. \A i, k \in DOMAIN appended' : appended'[i] = appended'[k] => i = k
  <2>1. appended \in Seq(Jobs) /\ \A i, k \in DOMAIN appended : appended[i] = appended[k] => i = k
    BY DEF TypeOK, FifoInv, FifoOrder
  <2> DEFINE a == Append(appended, offered[p])
  <2>2. \A i, k \in DOMAIN a : a[i] = a[k] => i = k
    <3> DEFINE b == appended
    <3>1. b \in Seq(Jobs) /\ (\A i \in DOMAIN b : b[i] # offered[p])
            /\ (\A i, k \in DOMAIN b : b[i] = b[k] => i = k)
      BY <1>3, <2>1
    <3> HIDE DEF b
    <3>2. \A i, k \in DOMAIN Append(b, offered[p]) :
             Append(b, offered[p])[i] = Append(b, offered[p])[k] => i = k
      BY <1>1, <3>1, AppendKeepsInjective
    <3> QED  BY <3>2 DEF b
  <2>3. appended' = a
    OBVIOUS
  <2> HIDE DEF a
  <2> QED  BY <2>2, <2>3
<1>5. ASSUME NEW r \in Producers, producer'[r] \in {"start", "spawn", "enter", "blocked"},
             NEW i \in DOMAIN appended'
      PROVE  appended'[i] # offered'[r]
  <2>1. r # p /\ producer[r] = producer'[r]
    BY <1>5 DEF TypeOK
  <2>2. offered[r] # offered[p]
    BY <1>1, <2>1 DEF FifoInv
  <2>3. appended \in Seq(Jobs) /\ \A k \in DOMAIN appended : appended[k] # offered[r]
    BY <1>5, <2>1 DEF TypeOK, FifoInv
  <2> QED  BY <1>1, <1>5, <2>2, <2>3
<1> QED  BY <1>2, <1>4, <1>5 DEF FifoInv, FifoOrder


\* submit() finds the pool started, or start() finds it closed.
LEMMA StartSkippedStep ==
    ASSUME NEW p \in Producers, PoolInv, StartSkipped(p)
    PROVE  PoolInv'
<1> USE PoolAssumption DEF PoolInv, StartSkipped, poolVars, history, Threads
<1>1. TypeOK'  BY DEF TypeOK
<1>2. QueueBounded'  BY DEF QueueBounded
<1>3. Lifecycle'  BY DEF Lifecycle
<1>4. InSubmit'  BY DEF InSubmit
<1>5. Sleepers'  BY DEF Sleepers, ParkedOnlyWhenFull, Room
<1>6. SomeWorkerAwake'  BY DEF SomeWorkerAwake, Alive
<1>7. FifoInv'  BY DEF FifoInv, FifoOrder
<1> QED  BY <1>1, <1>2, <1>3, <1>4, <1>5, <1>6, <1>7

\* start() marks the pool started.
LEMMA StartBeginsStep ==
    ASSUME NEW p \in Producers, PoolInv, StartBegins(p)
    PROVE  PoolInv'
<1> USE PoolAssumption DEF PoolInv, StartBegins, poolVars, history, Threads
<1>1. TypeOK'  BY DEF TypeOK
<1>2. QueueBounded'  BY DEF QueueBounded
<1>3. Lifecycle'  BY DEF TypeOK, Lifecycle
<1>4. InSubmit'  BY DEF InSubmit
<1>5. Sleepers'  BY DEF Sleepers, ParkedOnlyWhenFull, Room
<1>6. SomeWorkerAwake'  BY DEF SomeWorkerAwake, Alive
<1>7. FifoInv'  BY DEF FifoInv, FifoOrder
<1> QED  BY <1>1, <1>2, <1>3, <1>4, <1>5, <1>6, <1>7

\* start() creates one worker thread.
LEMMA SpawnStep ==
    ASSUME NEW p \in Producers, NEW w \in Workers, PoolInv, Spawn(p, w)
    PROVE  PoolInv'
<1> USE PoolAssumption DEF PoolInv, Spawn, poolVars, history, Threads
<1>1. TypeOK'  BY DEF TypeOK
<1>2. QueueBounded'  BY DEF QueueBounded
<1>3. Lifecycle'  BY DEF Lifecycle
<1>4. InSubmit'  BY DEF InSubmit
<1>5. Sleepers'  BY DEF Sleepers, ParkedOnlyWhenFull, Room
<1>6. SomeWorkerAwake'  BY DEF TypeOK, Lifecycle, InSubmit, Sleepers, ParkedOnlyWhenFull, SomeWorkerAwake, Alive, Room
<1>7. FifoInv'  BY DEF FifoInv, FifoOrder
<1> QED  BY <1>1, <1>2, <1>3, <1>4, <1>5, <1>6, <1>7

\* start() returns.
LEMMA StartEndsStep ==
    ASSUME NEW p \in Producers, PoolInv, StartEnds(p)
    PROVE  PoolInv'
<1> USE PoolAssumption DEF PoolInv, StartEnds, poolVars, history, Threads
<1>1. TypeOK'  BY DEF TypeOK
<1>2. QueueBounded'  BY DEF QueueBounded
<1>3. Lifecycle'  BY DEF TypeOK, Lifecycle
<1>4. InSubmit'  BY DEF TypeOK, InSubmit, Lifecycle
<1>5. Sleepers'  BY DEF Sleepers, ParkedOnlyWhenFull, Room
<1>6. SomeWorkerAwake'  BY DEF SomeWorkerAwake, Alive
<1>7. FifoInv'  BY DEF FifoInv, FifoOrder
<1> QED  BY <1>1, <1>2, <1>3, <1>4, <1>5, <1>6, <1>7

\* submit() is called.
LEMMA SubmitBeginsStep ==
    ASSUME NEW p \in Producers, NEW j \in Jobs, PoolInv, SubmitBegins(p, j)
    PROVE  PoolInv'
<1> USE PoolAssumption DEF PoolInv, SubmitBegins, poolVars, history, Threads
<1>1. TypeOK'
  <2>1. CASE closed   BY <2>1 DEF TypeOK
  <2>2. CASE ~closed  BY <2>2 DEF TypeOK
  <2> QED  BY <2>1, <2>2
<1>2. QueueBounded'  BY DEF QueueBounded
<1>3. Lifecycle'  BY DEF TypeOK, Lifecycle
<1>4. InSubmit'  BY DEF TypeOK, InSubmit
<1>5. Sleepers'  BY DEF TypeOK, Sleepers, ParkedOnlyWhenFull, Room
<1>6. SomeWorkerAwake'  BY DEF SomeWorkerAwake, Alive
<1>7. FifoInv'
  <2>1. CASE closed  BY <2>1 DEF FifoInv, FifoOrder
  <2>2. CASE ~closed
    <3>1. /\ \A r \in Producers : offered[r] # j
          /\ \A i \in DOMAIN appended : appended[i] # j
      BY DEF Known
    <3>2. offered' = [offered EXCEPT ![p] = j] /\ producer' = [producer EXCEPT ![p] = "start"]
      BY <2>2
    <3>3. FifoOrder'
      BY DEF FifoInv, FifoOrder
    <3>4. \A r \in Producers : producer'[r] \in {"start", "spawn", "enter", "blocked"}
            => \A i \in DOMAIN appended' : appended'[i] # offered'[r]
      BY <3>1, <3>2 DEF TypeOK, FifoInv
    <3>5. \A r, u \in Producers : offered'[r] = offered'[u] /\ offered'[r] # NoJob => r = u
      BY <3>1, <3>2 DEF TypeOK, FifoInv
    <3> QED  BY <3>3, <3>4, <3>5 DEF FifoInv
  <2> QED  BY <2>1, <2>2
<1> QED  BY <1>1, <1>2, <1>3, <1>4, <1>5, <1>6, <1>7

\* submit() finds the pool closed.
LEMMA SubmitClosedStep ==
    ASSUME NEW p \in Producers, PoolInv, SubmitClosed(p)
    PROVE  PoolInv'
<1> USE PoolAssumption DEF PoolInv, SubmitClosed, Refuse, poolVars, history, Threads
<1>1. TypeOK'  BY DEF TypeOK, InSubmit
<1>2. QueueBounded'  BY DEF QueueBounded
<1>3. Lifecycle'  BY DEF Lifecycle
<1>4. InSubmit'  BY DEF TypeOK, InSubmit
<1>5. Sleepers'  BY DEF Sleepers, ParkedOnlyWhenFull, Room
<1>6. SomeWorkerAwake'  BY DEF SomeWorkerAwake, Alive
<1>7. FifoInv'  BY DEF TypeOK, FifoInv, FifoOrder
<1> QED  BY <1>1, <1>2, <1>3, <1>4, <1>5, <1>6, <1>7

\* submit() appends: the waiter it wakes is a worker, because no producer
\* is parked while there is room.
LEMMA SubmitAppendsStep ==
    ASSUME NEW p \in Producers, PoolInv, SubmitAppends(p)
    PROVE  PoolInv'
<1> USE PoolAssumption DEF PoolInv, SubmitAppends, Enqueue, Notify, poolVars, history, Threads
<1>1. TypeOK'  BY DEF TypeOK, InSubmit
<1>2. QueueBounded'  BY DEF QueueBounded, Room, TypeOK
<1>3. Lifecycle'  BY DEF Lifecycle
<1>4. InSubmit'  BY DEF InSubmit
<1>5. Sleepers'  BY DEF Sleepers, ParkedOnlyWhenFull, Room
<1>6. SomeWorkerAwake'  BY DEF TypeOK, Lifecycle, InSubmit, Sleepers, ParkedOnlyWhenFull, SomeWorkerAwake, Alive, Room
<1>7. FifoInv'  BY EnqueueFifo DEF TypeOK, FifoInv, FifoOrder
<1> QED  BY <1>1, <1>2, <1>3, <1>4, <1>5, <1>6, <1>7

\* DROP_OLDEST: the queue was not empty, so a worker was awake already.
LEMMA SubmitDisplacesStep ==
    ASSUME NEW p \in Producers, PoolInv, SubmitDisplaces(p)
    PROVE  PoolInv'
<1> USE PoolAssumption DEF PoolInv, SubmitDisplaces, Enqueue, Notify, Bump, poolVars, history, Threads
<1>1. TypeOK'  BY DEF TypeOK, InSubmit, Room
<1>2. QueueBounded'  BY DEF QueueBounded
<1>3. Lifecycle'  BY DEF Lifecycle
<1>4. InSubmit'  BY DEF InSubmit
<1>5. Sleepers'  BY DEF Sleepers, ParkedOnlyWhenFull, Room
<1>6. SomeWorkerAwake'  BY DEF TypeOK, SomeWorkerAwake, Alive, Room
<1>7. FifoInv'
  <2>1. queue # <<>> /\ Tail(queue) \in Seq(Jobs) /\ Head(queue) \in Jobs
    BY DEF TypeOK, Room
  <2>2. left' \in Seq(Jobs) /\ appended = left' \o Tail(queue)
    <3>1. left' = Append(left, Head(queue)) /\ left \in Seq(Jobs) /\ queue \in Seq(Jobs)
      BY DEF TypeOK
    <3>2. appended = left \o queue
      BY DEF FifoInv, FifoOrder
    <3> QED  BY <2>1, <3>1, <3>2, ShiftHead
  <2> QED  BY <2>1, <2>2, EnqueueFifo
<1> QED  BY <1>1, <1>2, <1>3, <1>4, <1>5, <1>6, <1>7

\* DROP_NEWEST refuses the job.
LEMMA SubmitDropsNewestStep ==
    ASSUME NEW p \in Producers, PoolInv, SubmitDropsNewest(p)
    PROVE  PoolInv'
<1> USE PoolAssumption DEF PoolInv, SubmitDropsNewest, Refuse, Bump, poolVars, history, Threads
<1>1. TypeOK'  BY DEF TypeOK, InSubmit
<1>2. QueueBounded'  BY DEF QueueBounded
<1>3. Lifecycle'  BY DEF Lifecycle
<1>4. InSubmit'  BY DEF TypeOK, InSubmit
<1>5. Sleepers'  BY DEF Sleepers, ParkedOnlyWhenFull, Room
<1>6. SomeWorkerAwake'  BY DEF SomeWorkerAwake, Alive
<1>7. FifoInv'  BY DEF TypeOK, FifoInv, FifoOrder
<1> QED  BY <1>1, <1>2, <1>3, <1>4, <1>5, <1>6, <1>7

\* BLOCK parks the producer, the queue being full.
LEMMA SubmitBlocksStep ==
    ASSUME NEW p \in Producers, PoolInv, SubmitBlocks(p)
    PROVE  PoolInv'
<1> USE PoolAssumption DEF PoolInv, SubmitBlocks, Bump, poolVars, history, Threads
<1>1. TypeOK'  BY DEF TypeOK
<1>2. QueueBounded'  BY DEF QueueBounded
<1>3. Lifecycle'  BY DEF Lifecycle
<1>4. InSubmit'  BY DEF InSubmit
<1>5. Sleepers'  BY DEF TypeOK, Sleepers, ParkedOnlyWhenFull, Room
<1>6. SomeWorkerAwake'  BY DEF SomeWorkerAwake, Alive
<1>7. FifoInv'  BY DEF FifoInv, FifoOrder
<1> QED  BY <1>1, <1>2, <1>3, <1>4, <1>5, <1>6, <1>7

\* A parked producer appends after all.
LEMMA BlockedAppendsStep ==
    ASSUME NEW p \in Producers, PoolInv, BlockedAppends(p)
    PROVE  PoolInv'
<1> USE PoolAssumption DEF PoolInv, BlockedAppends, Enqueue, Notify, poolVars, history, Threads
<1>1. TypeOK'  BY DEF TypeOK, InSubmit
<1>2. QueueBounded'  BY DEF QueueBounded, Room, TypeOK
<1>3. Lifecycle'  BY DEF Lifecycle
<1>4. InSubmit'  BY DEF InSubmit
<1>5. Sleepers'  BY DEF Sleepers, ParkedOnlyWhenFull, Room
<1>6. SomeWorkerAwake'  BY DEF TypeOK, Lifecycle, InSubmit, Sleepers, ParkedOnlyWhenFull, SomeWorkerAwake, Alive, Room
<1>7. FifoInv'  BY EnqueueFifo DEF TypeOK, FifoInv, FifoOrder
<1> QED  BY <1>1, <1>2, <1>3, <1>4, <1>5, <1>6, <1>7

\* A parked producer gives up.
LEMMA BlockedGivesUpStep ==
    ASSUME NEW p \in Producers, PoolInv, BlockedGivesUp(p)
    PROVE  PoolInv'
<1> USE PoolAssumption DEF PoolInv, BlockedGivesUp, Refuse, Bump, poolVars, history, Threads
<1>1. TypeOK'  BY DEF TypeOK, InSubmit
<1>2. QueueBounded'  BY DEF QueueBounded
<1>3. Lifecycle'  BY DEF Lifecycle
<1>4. InSubmit'  BY DEF TypeOK, InSubmit
<1>5. Sleepers'  BY DEF Sleepers, ParkedOnlyWhenFull, Room
<1>6. SomeWorkerAwake'  BY DEF SomeWorkerAwake, Alive
<1>7. FifoInv'  BY DEF TypeOK, FifoInv, FifoOrder
<1> QED  BY <1>1, <1>2, <1>3, <1>4, <1>5, <1>6, <1>7

\* A parked producer waits again, the queue being full.
LEMMA BlockedWaitsAgainStep ==
    ASSUME NEW p \in Producers, PoolInv, BlockedWaitsAgain(p)
    PROVE  PoolInv'
<1> USE PoolAssumption DEF PoolInv, BlockedWaitsAgain, poolVars, history, Threads
<1>1. TypeOK'  BY DEF TypeOK
<1>2. QueueBounded'  BY DEF QueueBounded
<1>3. Lifecycle'  BY DEF Lifecycle
<1>4. InSubmit'  BY DEF InSubmit
<1>5. Sleepers'  BY DEF Sleepers, ParkedOnlyWhenFull, Room
<1>6. SomeWorkerAwake'  BY DEF SomeWorkerAwake, Alive
<1>7. FifoInv'  BY DEF FifoInv, FifoOrder
<1> QED  BY <1>1, <1>2, <1>3, <1>4, <1>5, <1>6, <1>7

\* submit() returns True.
LEMMA SubmitReturnsStep ==
    ASSUME NEW p \in Producers, PoolInv, SubmitReturns(p)
    PROVE  PoolInv'
<1> USE PoolAssumption DEF PoolInv, SubmitReturns, Bump, poolVars, history, Threads
<1>1. TypeOK'  BY DEF TypeOK
<1>2. QueueBounded'  BY DEF QueueBounded
<1>3. Lifecycle'  BY DEF Lifecycle
<1>4. InSubmit'  BY DEF TypeOK, InSubmit
<1>5. Sleepers'  BY DEF Sleepers, ParkedOnlyWhenFull, Room
<1>6. SomeWorkerAwake'  BY DEF SomeWorkerAwake, Alive
<1>7. FifoInv'  BY DEF FifoInv, FifoOrder
<1> QED  BY <1>1, <1>2, <1>3, <1>4, <1>5, <1>6, <1>7

\* A worker takes the head of the queue and wakes everybody.
LEMMA TakeStep ==
    ASSUME NEW w \in Workers, PoolInv, Take(w)
    PROVE  PoolInv'
<1> USE PoolAssumption DEF PoolInv, Take, NotifyAll, poolVars, history, Threads
<1>1. TypeOK'  BY DEF TypeOK
<1>2. QueueBounded'  BY DEF QueueBounded
<1>3. Lifecycle'  BY DEF Lifecycle
<1>4. InSubmit'  BY DEF InSubmit
<1>5. Sleepers'  BY DEF Sleepers, ParkedOnlyWhenFull, Room
<1>6. SomeWorkerAwake'  BY DEF SomeWorkerAwake, Alive
<1>7. FifoInv'  BY DEF FifoInv, FifoOrder
<1> QED  BY <1>1, <1>2, <1>3, <1>4, <1>5, <1>6, <1>7

\* A worker sleeps, the queue being empty.
LEMMA WaitForJobStep ==
    ASSUME NEW w \in Workers, PoolInv, WaitForJob(w)
    PROVE  PoolInv'
<1> USE PoolAssumption DEF PoolInv, WaitForJob, poolVars, history, Threads
<1>1. TypeOK'  BY DEF TypeOK
<1>2. QueueBounded'  BY DEF QueueBounded
<1>3. Lifecycle'  BY DEF Lifecycle
<1>4. InSubmit'  BY DEF InSubmit
<1>5. Sleepers'  BY DEF Sleepers, ParkedOnlyWhenFull, Room
<1>6. SomeWorkerAwake'  BY DEF SomeWorkerAwake, Alive
<1>7. FifoInv'  BY DEF FifoInv, FifoOrder
<1> QED  BY <1>1, <1>2, <1>3, <1>4, <1>5, <1>6, <1>7

\* A worker returns, the queue being empty.
LEMMA ExitStep ==
    ASSUME NEW w \in Workers, PoolInv, Exit(w)
    PROVE  PoolInv'
<1> USE PoolAssumption DEF PoolInv, Exit, poolVars, history, Threads
<1>1. TypeOK'  BY DEF TypeOK
<1>2. QueueBounded'  BY DEF QueueBounded
<1>3. Lifecycle'  BY DEF Lifecycle
<1>4. InSubmit'  BY DEF InSubmit
<1>5. Sleepers'  BY DEF Sleepers, ParkedOnlyWhenFull, Room
<1>6. SomeWorkerAwake'  BY DEF SomeWorkerAwake, Alive
<1>7. FifoInv'  BY DEF FifoInv, FifoOrder
<1> QED  BY <1>1, <1>2, <1>3, <1>4, <1>5, <1>6, <1>7

\* A job ends.
LEMMA FinishStep ==
    ASSUME NEW w \in Workers, NEW o \in {"completed", "failed"}, PoolInv, Finish(w, o)
    PROVE  PoolInv'
<1> USE PoolAssumption DEF PoolInv, Finish, Bump, poolVars, history, Threads
<1>1. TypeOK'  BY DEF TypeOK
<1>2. QueueBounded'  BY DEF QueueBounded
<1>3. Lifecycle'  BY DEF Lifecycle
<1>4. InSubmit'  BY DEF InSubmit
<1>5. Sleepers'  BY DEF Sleepers, ParkedOnlyWhenFull, Room
<1>6. SomeWorkerAwake'  BY DEF SomeWorkerAwake, Alive
<1>7. FifoInv'  BY DEF FifoInv, FifoOrder
<1> QED  BY <1>1, <1>2, <1>3, <1>4, <1>5, <1>6, <1>7

\* A timed wait expires.
LEMMA WaitExpiresStep ==
    ASSUME NEW t \in Threads, PoolInv, WaitExpires(t)
    PROVE  PoolInv'
<1> USE PoolAssumption DEF PoolInv, WaitExpires, poolVars, history, Threads
<1>1. TypeOK'  BY DEF TypeOK
<1>2. QueueBounded'  BY DEF QueueBounded
<1>3. Lifecycle'  BY DEF Lifecycle
<1>4. InSubmit'  BY DEF InSubmit
<1>5. Sleepers'  BY DEF Sleepers, ParkedOnlyWhenFull, Room
<1>6. SomeWorkerAwake'  BY DEF SomeWorkerAwake, Alive
<1>7. FifoInv'  BY DEF FifoInv, FifoOrder
<1> QED  BY <1>1, <1>2, <1>3, <1>4, <1>5, <1>6, <1>7

\* shutdown() closes the pool.
LEMMA ShutdownClosesStep ==
    ASSUME PoolInv, ShutdownCloses
    PROVE  PoolInv'
<1> USE PoolAssumption DEF PoolInv, ShutdownCloses, poolVars, history, Threads
<1>1. TypeOK'  BY DEF TypeOK
<1>2. QueueBounded'  BY DEF QueueBounded
<1>3. Lifecycle'  BY DEF Lifecycle
<1>4. InSubmit'  BY DEF InSubmit
<1>5. Sleepers'  BY DEF Sleepers, ParkedOnlyWhenFull, Room
<1>6. SomeWorkerAwake'  BY DEF SomeWorkerAwake, Alive
<1>7. FifoInv'  BY DEF FifoInv, FifoOrder
<1> QED  BY <1>1, <1>2, <1>3, <1>4, <1>5, <1>6, <1>7

\* shutdown() wakes everybody.
LEMMA ShutdownNotifiesStep ==
    ASSUME PoolInv, ShutdownNotifies
    PROVE  PoolInv'
<1> USE PoolAssumption DEF PoolInv, ShutdownNotifies, NotifyAll, poolVars, history, Threads
<1>1. TypeOK'  BY DEF TypeOK
<1>2. QueueBounded'  BY DEF QueueBounded
<1>3. Lifecycle'  BY DEF Lifecycle
<1>4. InSubmit'  BY DEF InSubmit
<1>5. Sleepers'  BY DEF Sleepers, ParkedOnlyWhenFull, Room
<1>6. SomeWorkerAwake'  BY DEF SomeWorkerAwake, Alive
<1>7. FifoInv'  BY DEF FifoInv, FifoOrder
<1> QED  BY <1>1, <1>2, <1>3, <1>4, <1>5, <1>6, <1>7

\* shutdown() returns.
LEMMA ShutdownReturnsStep ==
    ASSUME PoolInv, ShutdownReturns
    PROVE  PoolInv'
<1> USE PoolAssumption DEF PoolInv, ShutdownReturns, poolVars, history, Threads
<1>1. TypeOK'  BY DEF TypeOK
<1>2. QueueBounded'  BY DEF QueueBounded
<1>3. Lifecycle'  BY DEF Lifecycle
<1>4. InSubmit'  BY DEF InSubmit
<1>5. Sleepers'  BY DEF Sleepers, ParkedOnlyWhenFull, Room
<1>6. SomeWorkerAwake'  BY DEF SomeWorkerAwake, Alive
<1>7. FifoInv'  BY DEF FifoInv, FifoOrder
<1> QED  BY <1>1, <1>2, <1>3, <1>4, <1>5, <1>6, <1>7

LEMMA PoolInit == Init => PoolInv
<1> SUFFICES ASSUME Init PROVE PoolInv
  OBVIOUS
<1> USE PoolAssumption DEF Init
<1>1. TypeOK
  <2>1. overflow \in {"block", "drop_oldest", "drop_newest"}  OBVIOUS
  <2>2. counts \in [{"accepted", "dropped", "completed", "failed", "blocked"} -> Nat]  OBVIOUS
  <2>3. queue \in Seq(Jobs) /\ left \in Seq(Jobs) /\ appended \in Seq(Jobs)  OBVIOUS
  <2> QED  BY <2>1, <2>2, <2>3 DEF TypeOK, Threads
<1>2. QueueBounded  BY DEF QueueBounded
<1>3. Lifecycle /\ InSubmit  BY DEF Lifecycle, InSubmit
<1>4. Sleepers  BY DEF Sleepers, ParkedOnlyWhenFull
<1>5. SomeWorkerAwake  BY DEF SomeWorkerAwake
<1>6. FifoInv
  <2>1. queue \in Seq(Jobs) /\ left = <<>> /\ appended = queue
    BY <1>1 DEF TypeOK
  <2>2. left \o queue = queue
    BY <2>1, ConcatEmptySeq
  <2>3. DOMAIN appended = {}
    BY <2>1
  <2>4. FifoOrder  BY <2>1, <2>2, <2>3 DEF FifoOrder
  <2> QED  BY <2>3, <2>4 DEF FifoInv
<1> QED  BY <1>1, <1>2, <1>3, <1>4, <1>5, <1>6 DEF PoolInv

LEMMA PoolStutter == PoolInv /\ UNCHANGED vars => PoolInv'
BY DEF vars, poolVars, history, PoolInv, TypeOK, QueueBounded, Lifecycle, InSubmit, Sleepers,
   ParkedOnlyWhenFull, Room, SomeWorkerAwake, Alive, FifoInv, FifoOrder

\* PoolInv is an invariant of the pool: every step of submit(), start(), _run() and
\* shutdown() preserves it.
THEOREM PoolInvariant == Spec => []PoolInv
<1>1. PoolInv /\ [Next]_vars => PoolInv'
  <2> SUFFICES ASSUME PoolInv, [Next]_vars PROVE PoolInv'
    OBVIOUS
  <2>1. ASSUME NEW p \in Producers, SubmitStep(p) PROVE PoolInv'
    BY <2>1, StartSkippedStep, StartBeginsStep, SpawnStep, StartEndsStep, SubmitClosedStep,
       SubmitAppendsStep, SubmitDisplacesStep, SubmitDropsNewestStep, SubmitBlocksStep,
       BlockedAppendsStep, BlockedGivesUpStep, BlockedWaitsAgainStep, SubmitReturnsStep
       DEF SubmitStep
  <2>2. ASSUME NEW w \in Workers, WorkerStep(w) PROVE PoolInv'
    BY <2>2, TakeStep, WaitForJobStep, ExitStep, FinishStep DEF WorkerStep
  <2> QED
    BY <2>1, <2>2, SubmitBeginsStep, WaitExpiresStep, ShutdownClosesStep,
       ShutdownNotifiesStep, ShutdownReturnsStep, PoolStutter DEF Next
<1> QED  BY PoolInit, <1>1, PTL DEF Spec

\* Type correctness of the pool's state.
THEOREM TypeCorrect == Spec => []TypeOK
BY PoolInvariant, PTL DEF PoolInv

\* submit() never lets the queue grow past maxsize, under any of the three policies.
THEOREM Bounded == Spec => []QueueBounded
BY PoolInvariant, PTL DEF PoolInv

\* No lost wake-up: a queued job always has an awake (or still to be started) worker, for
\* any number of producers parked on the condition the workers also sleep on.
THEOREM NoLostWakeup == Spec => []SomeWorkerAwake
BY PoolInvariant, PTL DEF PoolInv

\* A parked producer implies a full queue: _run() wakes all of them at every pop.
THEOREM NoIdleParking == Spec => []ParkedOnlyWhenFull
BY PoolInvariant, PTL DEF PoolInv, Sleepers

\* Jobs leave in the order they came, none twice and none lost in between.
THEOREM Fifo == Spec => []FifoOrder
BY PoolInvariant, PTL DEF PoolInv, FifoInv

\* A shutdown() that joined all workers, or found none started, leaves an empty queue.
THEOREM Drained == Spec => []JoinedMeansDrained
<1>1. PoolInv => JoinedMeansDrained
  BY DEF PoolInv, TypeOK, Lifecycle, SomeWorkerAwake, Alive, JoinedMeansDrained
<1> QED  BY PoolInvariant, <1>1, PTL

-----------------------------------------------------------------------------
(* The pool implements JobBuffer. *)

\* A job that is being handed over was not refused before.
NotRefused == \A p \in Producers : offered[p] \notin refused

PromiseInv == PoolInv /\ JoinedMeansDrained /\ NotRefused

LEMMA PromiseInvHolds == Spec => []PromiseInv
<1>1. Init => NotRefused
  BY DEF Init, NotRefused
<1>2. PoolInv /\ NotRefused /\ [Next]_vars => NotRefused'
  <2> SUFFICES ASSUME PoolInv, NotRefused, [Next]_vars PROVE NotRefused'
    OBVIOUS
  <2> USE PoolAssumption DEF PoolInv, NotRefused, poolVars, history
  <2>1. offered \in [Producers -> Jobs \cup {NoJob}] /\ refused \subseteq Jobs
    BY DEF TypeOK
  <2>2. \A p, r \in Producers : offered[p] = offered[r] /\ offered[p] # NoJob => p = r
    BY DEF FifoInv
  <2>3. ASSUME NEW p \in Producers, producer[p] \in {"enter", "blocked"}, Refuse(p) PROVE NotRefused'
    <3>1. offered[p] \in Jobs
      BY <2>3 DEF InSubmit
    <3> QED  BY <2>1, <2>2, <2>3, <3>1 DEF Refuse
  <2>4. ASSUME NEW p \in Producers, NEW j \in Jobs, SubmitBegins(p, j) PROVE NotRefused'
    BY <2>1, <2>4 DEF SubmitBegins, Known
  <2>5. ASSUME NEW p \in Producers, SubmitStep(p) PROVE NotRefused'
    <3>1. CASE StartSkipped(p) \/ StartBegins(p) \/ StartEnds(p) \/ SubmitReturns(p)
      BY <2>1, <3>1 DEF StartSkipped, StartBegins, StartEnds, SubmitReturns
    <3>2. CASE \E w \in Workers : Spawn(p, w)
      BY <3>2 DEF Spawn
    <3>3. CASE SubmitClosed(p) \/ SubmitDropsNewest(p) \/ BlockedGivesUp(p)
      BY <2>3, <3>3 DEF SubmitClosed, SubmitDropsNewest, BlockedGivesUp
    <3>4. CASE SubmitAppends(p) \/ SubmitDisplaces(p) \/ SubmitBlocks(p)
      BY <3>4 DEF SubmitAppends, SubmitDisplaces, SubmitBlocks
    <3>5. CASE BlockedAppends(p) \/ BlockedWaitsAgain(p)
      BY <3>5 DEF BlockedAppends, BlockedWaitsAgain
    <3> QED  BY <2>5, <3>1, <3>2, <3>3, <3>4, <3>5 DEF SubmitStep
  <2>6. ASSUME NEW w \in Workers, WorkerStep(w) PROVE NotRefused'
    BY <2>6 DEF WorkerStep, Take, WaitForJob, Exit, Finish
  <2>7. ASSUME NEW t \in Threads, WaitExpires(t) PROVE NotRefused'
    BY <2>7 DEF WaitExpires
  <2>8. CASE ShutdownCloses \/ ShutdownNotifies \/ ShutdownReturns
    BY <2>8 DEF ShutdownCloses, ShutdownNotifies, ShutdownReturns
  <2>9. CASE UNCHANGED vars
    BY <2>9 DEF vars
  <2> QED  BY <2>4, <2>5, <2>6, <2>7, <2>8, <2>9 DEF Next
<1> QED  BY PoolInvariant, Drained, <1>1, <1>2, PTL DEF Spec, PromiseInv

\* A job no producer has appended yet is in neither part of what was appended.
LEMMA NewJob ==
    ASSUME PoolInv, NEW j, j \notin refused, \A i \in DOMAIN appended : appended[i] # j
    PROVE  Buffer!New(j)
<1>1. queue \in Seq(Jobs) /\ left \in Seq(Jobs) /\ appended = left \o queue
  BY DEF PoolInv, TypeOK, FifoInv, FifoOrder
<1>2. \A i \in DOMAIN left : i \in DOMAIN appended /\ appended[i] = left[i]
  BY <1>1
<1>3. \A i \in DOMAIN queue : Len(left) + i \in DOMAIN appended /\ appended[Len(left) + i] = queue[i]
  BY <1>1
<1> QED  BY <1>2, <1>3 DEF Buffer!New

\* What a producer inside submit() hands over is new.
LEMMA OfferedIsNew ==
    ASSUME PromiseInv, NEW p \in Producers, producer[p] \in {"start", "spawn", "enter", "blocked"}
    PROVE  offered[p] \in Jobs /\ Buffer!New(offered[p])
<1>1. offered[p] \in Jobs /\ offered[p] \notin refused
  BY DEF PromiseInv, PoolInv, InSubmit, NotRefused
<1>2. \A i \in DOMAIN appended : appended[i] # offered[p]
  BY DEF PromiseInv, PoolInv, FifoInv
<1> QED  BY <1>1, <1>2, NewJob DEF PromiseInv

\* Every step of the pool is a step of the buffer or leaves it alone.
LEMMA PromiseStep ==
    ASSUME PromiseInv, PromiseInv', [Next]_vars
    PROVE  [Buffer!BufferNext]_(Buffer!bufferVars)
<1> DEFINE Step == Buffer!BufferNext
           Same == UNCHANGED <<queue, left, displaced, refused, closed, shutting>>
<1>1. Same => UNCHANGED Buffer!bufferVars
  BY DEF Buffer!bufferVars
<1>2. ASSUME NEW p \in Producers, producer[p] \in {"enter", "blocked"}, ~closed, Room,
             Enqueue(p, queue, waiting), UNCHANGED <<poolVars, shutting, left, displaced, refused>>
      PROVE  Step
  <2>1. Buffer!Put(offered[p])
    BY <1>2, OfferedIsNew DEF Buffer!Put, Enqueue, Room, poolVars
  <2> QED  BY <1>2, <2>1, OfferedIsNew DEF Buffer!BufferNext
<1>3. ASSUME NEW p \in Producers, producer[p] \in {"enter", "blocked"}, Refuse(p),
             UNCHANGED <<poolVars, queue, shutting, left, displaced>>
      PROVE  Step
  <2>1. Buffer!TurnDown(offered[p])
    BY <1>3, OfferedIsNew DEF Buffer!TurnDown, Refuse, poolVars
  <2> QED  BY <1>3, <2>1, OfferedIsNew DEF Buffer!BufferNext
<1>4. ASSUME NEW p \in Producers, SubmitDisplaces(p) PROVE Step
  <2>1. Len(queue) = maxsize
    BY <1>4, PoolAssumption DEF SubmitDisplaces, Room, PromiseInv, PoolInv, QueueBounded, TypeOK
  <2>2. Buffer!Displace(offered[p])
    BY <1>4, <2>1, OfferedIsNew DEF SubmitDisplaces, Enqueue, Buffer!Displace, Buffer!Leaves, poolVars
  <2> QED  BY <1>4, <2>2, OfferedIsNew DEF SubmitDisplaces, Buffer!BufferNext
<1>5. ASSUME NEW p \in Producers, NEW j \in Jobs, SubmitBegins(p, j) PROVE Step \/ Same
  <2>1. CASE closed
    <3>1. \A i \in DOMAIN appended : appended[i] # j
      BY <1>5 DEF SubmitBegins, Known
    <3>2. j \notin refused
      BY <1>5 DEF SubmitBegins, Known
    <3>3. Buffer!TurnDown(j)
      BY <1>5, <2>1, <3>1, <3>2, NewJob DEF SubmitBegins, Buffer!TurnDown, PromiseInv, poolVars
    <3> QED  BY <3>3 DEF Buffer!BufferNext
  <2>2. CASE ~closed
    BY <1>5, <2>2 DEF SubmitBegins, poolVars
  <2> QED  BY <2>1, <2>2
<1>6. ASSUME NEW p \in Producers, SubmitStep(p) PROVE Step \/ Same
  <2>1. CASE StartSkipped(p) \/ StartBegins(p) \/ StartEnds(p) \/ SubmitReturns(p)
    BY <2>1 DEF StartSkipped, StartBegins, StartEnds, SubmitReturns, poolVars, history
  <2>2. CASE \E w \in Workers : Spawn(p, w)
    BY <2>2 DEF Spawn, poolVars, history
  <2>3. CASE SubmitClosed(p) \/ SubmitDropsNewest(p) \/ BlockedGivesUp(p)
    BY <1>3, <2>3 DEF SubmitClosed, SubmitDropsNewest, BlockedGivesUp
  <2>4. CASE SubmitAppends(p) \/ BlockedAppends(p)
    BY <1>2, <2>4 DEF SubmitAppends, BlockedAppends
  <2>5. CASE SubmitBlocks(p) \/ BlockedWaitsAgain(p)
    BY <2>5 DEF SubmitBlocks, BlockedWaitsAgain, poolVars, history
  <2> QED  BY <1>4, <1>6, <2>1, <2>2, <2>3, <2>4, <2>5 DEF SubmitStep
<1>7. ASSUME NEW w \in Workers, WorkerStep(w) PROVE Step \/ Same
  <2>1. CASE Take(w)
    <3>1. queue # <<>> /\ shutting \notin {"joined", "returned"}
      BY <2>1 DEF Take, PromiseInv, JoinedMeansDrained
    <3>2. Buffer!Get
      BY <2>1, <3>1 DEF Take, Buffer!Get, Buffer!Leaves, poolVars
    <3> QED  BY <3>2 DEF Buffer!BufferNext
  <2>2. CASE WaitForJob(w) \/ Exit(w) \/ Finish(w, "completed") \/ Finish(w, "failed")
    BY <2>2 DEF WaitForJob, Exit, Finish, poolVars, history
  <2> QED  BY <1>7, <2>1, <2>2 DEF WorkerStep
<1>8. CASE ShutdownCloses
  <2>1. ~closed /\ shutting \notin {"joined", "returned"}
    BY <1>8 DEF ShutdownCloses, PromiseInv, PoolInv, Lifecycle
  <2>2. shutting' \in {"joined", "returned"} => queue = <<>>
    BY <1>8 DEF ShutdownCloses, PromiseInv, JoinedMeansDrained
  <2>3. Buffer!CloseBuffer
    BY <1>8, <2>1, <2>2 DEF ShutdownCloses, Buffer!CloseBuffer, history
  <2> QED  BY <2>3 DEF Buffer!BufferNext
<1>9. CASE ShutdownNotifies
  <2>1. shutting \notin {"joined", "returned"} /\ shutting' \notin {"joined", "returned"}
    BY <1>9 DEF ShutdownNotifies
  <2> QED  BY <1>9, <2>1 DEF ShutdownNotifies, Buffer!bufferVars, poolVars, history
<1>10. CASE ShutdownReturns
  <2>1. closed /\ shutting \notin {"joined", "returned"}
    BY <1>10 DEF ShutdownReturns, PromiseInv, PoolInv, Lifecycle
  <2>2. CASE shutting' = "joined"
    <3>1. Buffer!Settle
      BY <1>10, <2>1, <2>2 DEF ShutdownReturns, Buffer!Settle, PromiseInv, JoinedMeansDrained, poolVars, history
    <3> QED  BY <3>1 DEF Buffer!BufferNext
  <2>3. CASE shutting' = "timed_out"
    BY <1>10, <2>1, <2>3 DEF ShutdownReturns, Buffer!bufferVars, poolVars, history
  <2> QED  BY <1>10, <2>2, <2>3 DEF ShutdownReturns
<1>11. ASSUME NEW t \in Threads, WaitExpires(t) PROVE Same
  BY <1>11 DEF WaitExpires, poolVars, history
<1>12. CASE UNCHANGED vars
  BY <1>12 DEF vars, poolVars, history, Buffer!bufferVars
<1> HIDE DEF Step, Same
<1> QED
  BY <1>1, <1>5, <1>6, <1>7, <1>8, <1>9, <1>10, <1>11, <1>12 DEF Next, Step

\* The pool implements JobBuffer for every number of threads and jobs, every capacity
\* and every overflow policy.
THEOREM PoolIsJobBuffer == Spec => KeepsPromise
<1>1. Init => Buffer!BufferInit
  BY DEF Init, Buffer!BufferInit
<1> QED  BY <1>1, PromiseInvHolds, PromiseStep, PTL DEF Spec, KeepsPromise, Buffer!BufferSpec

=============================================================================
