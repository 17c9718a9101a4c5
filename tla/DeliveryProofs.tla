--------------------------- MODULE DeliveryProofs ---------------------------
(***************************************************************************)
(* What the push fan-out and the e-mail queue do with a notification, for  *)
(* any number of notifications, devices, attempts and pool threads, of     *)
(* mails, workers and requests, and any size of the two heaps; and what a  *)
(* page shows of a vehicle, for any readings, values and ages.             *)
(*                                                                         *)
(* EveryTargetOnce: while the server runs, what there is of a target's     *)
(* send is one thing: a job, a booked retry, or an acceptance; a target    *)
(* still to be handed over has none of them.  And whatever a shutdown      *)
(* interrupts, a dispatch that hands out its targets has each of them on   *)
(* its list, in the pool's queue or tried.                                 *)
(*                                                                         *)
(* MailAccounted: a mail is on the heap, in one worker's hands or decided, *)
(* and what a step moves from one to the next it moves in the counters.    *)
(*                                                                         *)
(* ShownIsReported: the frames and the store hold what was reported, so    *)
(* that derive() of both is an argument about one state: what first() and  *)
(* the merging take for a field is the report, and what converts, converts *)
(* back.                                                                   *)
(***************************************************************************)
EXTENDS PushDispatch, EmailQueue, LiveView, FiniteSetTheorems, SequenceTheorems, WellFoundedInduction, NaturalsInduction,
        TLAPS

OfTarget(x, n, d) == x.note = n /\ x.device = d

\* At most one job, booked retry or acceptance for device d of notification n; and none.
Single(n, d) ==
    /\ \A j, k \in jobs : OfTarget(j, n, d) /\ OfTarget(k, n, d) => j = k
    /\ \A e, f \in retryHeap : OfTarget(e, n, d) /\ OfTarget(f, n, d) => e = f
    /\ \A j \in jobs, e \in retryHeap : ~(OfTarget(j, n, d) /\ OfTarget(e, n, d))
    /\ accepted[n][d] <= 1
    /\ accepted[n][d] = 1 => \A x \in jobs \cup retryHeap : ~OfTarget(x, n, d)
Unsent(n, d) == accepted[n][d] = 0 /\ \A x \in jobs \cup retryHeap : ~OfTarget(x, n, d)

Singles ==
    closing = "no" => \A n \in Notes, d \in Devices :
        /\ Single(n, d)
        /\ stage[n] \in {"new", "planned"} \/ d \in todo[n] => Unsent(n, d)

\* A target is on the list, in the pool's queue or tried.
Pending(n, d) ==
    \/ d \in todo[n] \/ tried[n][d] # "no"
    \/ stage[n] # "inline" /\ \E j \in jobs : OfTarget(j, n, d) /\ j.attempt = 1 /\ j.step = "queued"
Handed == \A n \in Notes :
    /\ stage[n] = "collect" => todo[n] = {}
    /\ stage[n] \in {"submit", "collect", "inline"} => \A d \in Targets(n) : Pending(n, d)
    /\ stage[n] \in {"reap", "done"} => \A d \in Targets(n) : tried[n][d] # "no"

PushInv == PushTypeOK /\ IsFiniteSet(retryHeap) /\ Singles /\ Handed

-----------------------------------------------------------------------------
JobRecords == [note : Notes, device : Devices, attempt : 1..MaxAttempts,
               where : {"pool", "inline"}, step : {"queued", "sending", "gone"}]
Bookings == [note : Notes, device : Devices, attempt : 2..MaxAttempts]

\* A first send, and a retry taken off the heap.
LEMMA JobMade ==
    ASSUME NEW n \in Notes, NEW d \in Devices, NEW a \in 1..MaxAttempts, NEW w \in {"pool", "inline"},
           NEW s \in {"queued", "sending", "gone"}
    PROVE  LET j == Job(n, d, a, w, s)
           IN  j \in JobRecords /\ OfTarget(j, n, d) /\ j.attempt = a /\ j.step = s /\ j.where = w
BY DEF Job, JobRecords, OfTarget

\* A send that goes on to its next step.
LEMMA JobMoves ==
    ASSUME NEW j \in JobRecords, NEW s \in {"queued", "sending", "gone"}
    PROVE  LET k == [j EXCEPT !.step = s]
           IN  k \in JobRecords /\ k.note = j.note /\ k.device = j.device /\ k.attempt = j.attempt /\ k.step = s
BY DEF JobRecords

\* _schedule_retry: the heap holds at most one entry more, the next attempt.
LEMMA Books ==
    ASSUME PushTypeOK, IsFiniteSet(retryHeap), NEW j \in jobs, NEW h \in {retryHeap, Booked(j)}
    PROVE  /\ h \subseteq Bookings /\ IsFiniteSet(h) /\ Cardinality(h) <= MaxPending
           /\ \A e \in retryHeap : e \in h
           /\ \A e \in h : e \notin retryHeap => closing = "no" /\ OfTarget(e, j.note, j.device)
           /\ \A e, f \in h : e \notin retryHeap /\ f \notin retryHeap => e = f
<1> DEFINE new == [note |-> j.note, device |-> j.device, attempt |-> j.attempt + 1]
<1>1. j \in JobRecords /\ retryHeap \subseteq Bookings /\ Cardinality(retryHeap) <= MaxPending
  BY DEF PushTypeOK, JobRecords, Bookings
<1>2. MaxPending \in Nat /\ Cardinality(retryHeap) \in Nat
  BY FS_CardinalityType, DispatchAssumption
<1>3. CASE h = retryHeap
  BY <1>1, <1>3
<1>4. CASE /\ h = retryHeap \cup {new}
           /\ j.attempt < MaxAttempts /\ closing = "no" /\ Cardinality(retryHeap) < MaxPending
  <2>1. new \in Bookings
    BY <1>1, <1>4, DispatchAssumption DEF JobRecords, Bookings
  <2>2. OfTarget(new, j.note, j.device)
    BY DEF OfTarget
  <2> HIDE DEF new
  <2>3. IsFiniteSet(h) /\ Cardinality(h) <= MaxPending
    <3>1. /\ IsFiniteSet(retryHeap \cup {new})
          /\ Cardinality(retryHeap \cup {new}) \in {Cardinality(retryHeap), Cardinality(retryHeap) + 1}
      BY FS_AddElement
    <3>q. QED  BY <1>2, <1>4, <3>1
  <2>q. QED  BY <1>1, <1>4, <2>1, <2>2, <2>3
<1>q. QED  BY <1>3, <1>4 DEF Booked

\* Every step keeps the types, and the heap finite.
LEMMA TypesKeep ==
    ASSUME PushTypeOK, IsFiniteSet(retryHeap), [PushNext]_pushVars
    PROVE  PushTypeOK' /\ IsFiniteSet(retryHeap')
<1>0. /\ jobs \subseteq JobRecords /\ retryHeap \subseteq Bookings
      /\ MaxPending \in Nat /\ MaxTokens \in Nat \ {0} /\ MaxRows \in Nat /\ 1 \in 1..MaxAttempts
  BY DispatchAssumption DEF PushTypeOK, JobRecords, Bookings
<1> USE DEF PushTypeOK
<1>1. ASSUME NEW d \in Devices, NewToken(d)  PROVE PushTypeOK' /\ IsFiniteSet(retryHeap')
  BY <1>0, <1>1 DEF NewToken
<1>2. ASSUME NEW d \in Devices, Upsert(d)  PROVE PushTypeOK' /\ IsFiniteSet(retryHeap')
  <2>1. token[d] \in 0..MaxTokens
    BY <1>0
  <2>2. row' \in [Devices -> Rows] /\ rows' \in 0..MaxRows
    <3>1. CASE row[d] # NoRow
      <4> DEFINE old == row[d]
      <4>0. old \in Rows
        OBVIOUS
      <4> HIDE DEF old
      <4>1. [old EXCEPT !.endpoint = token[d]] \in Rows
        BY <2>1, <4>0 DEF Rows
      <4> USE DEF old
      <4>q. QED  BY <1>2, <3>1, <4>1 DEF Upsert
    <3>2. CASE row[d] = NoRow
      <4>1. rows + 1 \in 0..MaxRows
        BY <1>0, <1>2, <3>2 DEF Upsert
      <4>2. [id |-> rows + 1, endpoint |-> token[d]] \in Rows
        BY <2>1, <4>1 DEF Rows
      <4>q. QED  BY <1>2, <3>2, <4>1, <4>2 DEF Upsert
    <3>q. QED  BY <3>1, <3>2
  <2>q. QED  BY <1>2, <2>2 DEF Upsert
<1>3. ASSUME NEW n \in Notes, Plan(n)  PROVE PushTypeOK' /\ IsFiniteSet(retryHeap')
  BY <1>3 DEF Plan
<1>4. ASSUME NEW n \in Notes, Execute(n)  PROVE PushTypeOK' /\ IsFiniteSet(retryHeap')
  BY <1>4 DEF Execute, Targets
<1>5. ASSUME NEW n \in Notes, Collect(n)  PROVE PushTypeOK' /\ IsFiniteSet(retryHeap')
  BY <1>5 DEF Collect
<1>6. ASSUME NEW n \in Notes, NEW d \in Devices, Submit(n, d)  PROVE PushTypeOK' /\ IsFiniteSet(retryHeap')
  <2>1. Job(n, d, 1, "pool", "queued") \in JobRecords
    BY <1>0, JobMade
  <2>2. jobs' \subseteq JobRecords
    BY <1>0, <1>6, <2>1 DEF Submit
  <2>3. todo' \in [Notes -> SUBSET Devices] /\ dead' \in [Notes -> SUBSET Devices]
    <3>1. Targets(n) \subseteq Devices /\ todo \in [Notes -> SUBSET Devices] /\ dead \in [Notes -> SUBSET Devices]
      BY DEF Targets
    <3> HIDE DEF PushTypeOK
    <3>q. QED  BY <1>6, <3>1 DEF Submit
  <2>4. stage' \in [Notes -> {"new", "planned", "submit", "collect", "inline", "reap", "done"}]
    BY <1>6 DEF Submit
  <2>q. QED  BY <1>6, <2>2, <2>3, <2>4 DEF Submit, JobRecords
<1>7. ASSUME NEW n \in Notes, NEW d \in Devices, SendInline(n, d)  PROVE PushTypeOK' /\ IsFiniteSet(retryHeap')
  <2>1. Job(n, d, 1, "inline", "sending") \in JobRecords
    BY <1>0, JobMade
  <2>2. jobs' \subseteq JobRecords
    BY <1>0, <1>7, <2>1 DEF SendInline
  <2>q. QED  BY <1>7, <2>2 DEF SendInline, JobRecords
<1>8. ASSUME NEW n \in Notes, NEW d \in Devices, Reap(n, d)  PROVE PushTypeOK' /\ IsFiniteSet(retryHeap')
  <2>1. NoRow \in Rows
    BY <1>0 DEF NoRow, Rows
  <2>q. QED  BY <1>8, <2>1 DEF Reap, Deletes
<1>9. ASSUME NEW j \in jobs, Send(j)  PROVE PushTypeOK' /\ IsFiniteSet(retryHeap')
  <2>0. j \in JobRecords /\ j.note \in Notes /\ j.device \in Devices
    BY <1>0, <1>9 DEF JobRecords
  <2>1. [j EXCEPT !.step = "sending"] \in JobRecords /\ [j EXCEPT !.step = "gone"] \in JobRecords
    BY <2>0, JobMoves
  <2>2. CASE SendPooled(j)
    <3>1. jobs' \subseteq JobRecords
      BY <1>0, <2>1, <2>2 DEF SendPooled
    <3>q. QED  BY <2>0, <2>2, <3>1 DEF SendPooled, JobRecords
  <2>3. CASE Accepted(j)
    BY <2>0, <2>3 DEF Accepted
  <2>4. CASE Failed(j)
    BY <2>4, Books DEF Failed, Bookings
  <2>5. CASE Gone(j)
    <3>1. jobs' \subseteq JobRecords
      BY <1>0, <2>1, <2>5 DEF Gone
    <3>q. QED  BY <2>0, <2>5, <3>1 DEF Gone, JobRecords
  <2>6. CASE ReapRetried(j)
    <3>1. NoRow \in Rows
      BY <1>0 DEF NoRow, Rows
    <3>q. QED  BY <2>0, <2>6, <3>1 DEF ReapRetried, Deletes
  <2>q. QED  BY <1>9, <2>2, <2>3, <2>4, <2>5, <2>6 DEF Send
<1>10. ASSUME NEW e \in retryHeap, Fire(e)  PROVE PushTypeOK' /\ IsFiniteSet(retryHeap')
  <2>1. e.note \in Notes /\ e.device \in Devices /\ e.attempt \in 1..MaxAttempts
    BY <1>0, <1>10 DEF Bookings
  <2>2. Job(e.note, e.device, e.attempt, "pool", "queued") \in JobRecords
    BY <2>1, JobMade
  <2>3. jobs' \subseteq JobRecords
    BY <1>0, <1>10, <2>2 DEF Fire
  <2>4. IsFiniteSet(retryHeap') /\ Cardinality(retryHeap') <= MaxPending
    <3>1. retryHeap' = retryHeap \ {e} /\ Cardinality(retryHeap) \in Nat
      BY <1>10, FS_CardinalityType DEF Fire
    <3>2. IsFiniteSet(retryHeap \ {e}) /\ Cardinality(retryHeap \ {e}) = Cardinality(retryHeap) - 1
      BY <1>10, FS_RemoveElement
    <3>q. QED  BY <1>0, <3>1, <3>2
  <2>q. QED  BY <1>10, <2>3, <2>4 DEF Fire, JobRecords
<1>11. CASE StopScheduler
  BY <1>0, <1>11, FS_EmptySet DEF StopScheduler
<1>12. CASE StopPool \/ CloseSessions
  BY <1>12 DEF StopPool, CloseSessions
<1>13. CASE UNCHANGED pushVars
  BY <1>13 DEF pushVars
<1>q. QED
  BY <1>1, <1>2, <1>3, <1>4, <1>5, <1>6, <1>7, <1>8, <1>9, <1>10, <1>11, <1>12, <1>13
  DEF PushNext, Dispatch

-----------------------------------------------------------------------------
\* A step that leaves sends alone and hands out no target.
LEMMA SinglesStay ==
    ASSUME Singles, UNCHANGED <<jobs, retryHeap, accepted>>, closing' = "no" => closing = "no",
           \A n \in Notes, d \in Devices :
               stage'[n] \in {"new", "planned"} \/ d \in todo'[n]
                 => stage[n] \in {"new", "planned"} \/ d \in todo[n]
    PROVE  Singles'
BY DEF Singles, Single, Unsent

\* A step that moves the sends of one target only.
LEMMA SinglesMove ==
    ASSUME Singles, closing' = closing, NEW n0 \in Notes, NEW d0 \in Devices,
           \A x : ~OfTarget(x, n0, d0) => (x \in jobs' <=> x \in jobs) /\ (x \in retryHeap' <=> x \in retryHeap),
           \A n \in Notes, d \in Devices : n # n0 \/ d # d0 => accepted'[n][d] = accepted[n][d],
           \A n \in Notes : n # n0 => stage'[n] = stage[n],
           \A n \in Notes, d \in Devices : d \in todo'[n] => d \in todo[n],
           closing = "no" => /\ Single(n0, d0)'
                             /\ stage'[n0] \notin {"new", "planned"} /\ d0 \notin todo'[n0]
    PROVE  Singles'
<1> SUFFICES ASSUME closing = "no", NEW n \in Notes, NEW d \in Devices
             PROVE  /\ Single(n, d)'
                    /\ stage'[n] \in {"new", "planned"} \/ d \in todo'[n] => Unsent(n, d)'
  BY DEF Singles
<1>1. Single(n, d) /\ (stage[n] \in {"new", "planned"} \/ d \in todo[n] => Unsent(n, d))
  BY DEF Singles
<1>2. CASE n = n0 /\ d = d0
  BY <1>2
<1>3. CASE n # n0 \/ d # d0
  <2>1. \A x : OfTarget(x, n, d) => ~OfTarget(x, n0, d0)
    BY <1>3 DEF OfTarget
  <2>2. Single(n, d)'
    BY <1>1, <1>3, <2>1 DEF Single
  <2>3. Unsent(n, d) => Unsent(n, d)'
    BY <1>3, <2>1 DEF Unsent
  <2>q. QED  BY <1>1, <2>2, <2>3
<1>q. QED  BY <1>2, <1>3

\* Every step keeps a target's sends single.
LEMMA SinglesKeep ==
    ASSUME PushTypeOK, IsFiniteSet(retryHeap), Singles, [PushNext]_pushVars
    PROVE  Singles'
<1>0. /\ jobs \subseteq JobRecords /\ retryHeap \subseteq Bookings /\ todo \in [Notes -> SUBSET Devices]
      /\ stage \in [Notes -> {"new", "planned", "submit", "collect", "inline", "reap", "done"}]
      /\ accepted \in [Notes -> [Devices -> Nat]] /\ 1 \in 1..MaxAttempts
  BY DispatchAssumption DEF PushTypeOK, JobRecords, Bookings
<1>1. ASSUME NEW d \in Devices, NewToken(d) \/ Upsert(d)  PROVE Singles'
  BY <1>1, SinglesStay DEF NewToken, Upsert
<1>2. ASSUME NEW n \in Notes, Plan(n) \/ Execute(n) \/ Collect(n)  PROVE Singles'
  BY <1>0, <1>2, SinglesStay DEF Plan, Execute, Collect
<1>3. ASSUME NEW n \in Notes, NEW d \in Devices, Reap(n, d)  PROVE Singles'
  BY <1>0, <1>3, SinglesStay DEF Reap
\* a first send of a target that had none
<1>4. ASSUME NEW n \in Notes, NEW d \in Devices, NEW w \in {"pool", "inline"}, NEW s \in {"queued", "sending"},
             d \in todo[n], todo' = [todo EXCEPT ![n] = @ \ {d}],
             UNCHANGED <<retryHeap, accepted, closing>>,
             jobs' = jobs \cup {Job(n, d, 1, w, s)},
             stage[n] \in {"submit", "inline"}, stage'[n] \in {"submit", "inline", "collect"},
             \A k \in Notes : k # n => stage'[k] = stage[k]
      PROVE  Singles'
  <2> DEFINE j == Job(n, d, 1, w, s)
  <2>1. OfTarget(j, n, d)
    BY <1>0, JobMade
  <2> HIDE DEF j
  <2>2. jobs' = jobs \cup {j}
    BY <1>4 DEF j
  <2>3. closing = "no" => Single(n, d)'
    <3>1. closing = "no" => Unsent(n, d)
      BY <1>4 DEF Singles
    <3>q. QED  BY <1>4, <2>1, <2>2, <3>1 DEF Single, Unsent
  <2>4. d \notin todo'[n] /\ \A k \in Notes, x \in Devices : x \in todo'[k] => x \in todo[k]
    BY <1>0, <1>4
  <2>q. QED  BY <1>4, <2>1, <2>2, <2>3, <2>4, SinglesMove
<1>5. ASSUME NEW n \in Notes, NEW d \in Devices, Submit(n, d)  PROVE Singles'
  <2>1. CASE closing \in {"pool", "closed"}
    BY <1>5, <2>1 DEF Submit, Singles
  <2>2. CASE closing \notin {"pool", "closed"}
    <3>1. /\ stage[n] = "submit" /\ stage'[n] \in {"submit", "collect"}
          /\ \A k \in Notes : k # n => stage'[k] = stage[k]
      BY <1>0, <1>5, <2>2 DEF Submit
    <3>q. QED  BY <1>4, <1>5, <2>2, <3>1 DEF Submit
  <2>q. QED  BY <2>1, <2>2
<1>6. ASSUME NEW n \in Notes, NEW d \in Devices, SendInline(n, d)  PROVE Singles'
  <2>1. stage'[n] = "inline" /\ \A k \in Notes : k # n => stage'[k] = stage[k]
    BY <1>6 DEF SendInline
  <2>q. QED  BY <1>4, <1>6, <2>1 DEF SendInline
\* a send that goes on, ends or books a retry
<1>7. ASSUME NEW j \in jobs, UNCHANGED <<stage, todo, closing>>,
             \A x : ~OfTarget(x, j.note, j.device) =>
                 (x \in jobs' <=> x \in jobs) /\ (x \in retryHeap' <=> x \in retryHeap),
             \A n \in Notes, d \in Devices : n # j.note \/ d # j.device => accepted'[n][d] = accepted[n][d],
             closing = "no" /\ Single(j.note, j.device) => Single(j.note, j.device)'
      PROVE  Singles'
  <2>1. j.note \in Notes /\ j.device \in Devices /\ OfTarget(j, j.note, j.device)
    BY <1>0 DEF JobRecords, OfTarget
  <2>2. closing = "no" => /\ Single(j.note, j.device)
                          /\ stage[j.note] \notin {"new", "planned"} /\ j.device \notin todo[j.note]
    BY <2>1 DEF Singles, Unsent
  <2>q. QED  BY <1>7, <2>1, <2>2, SinglesMove
<1>8. ASSUME NEW j \in jobs, Send(j)  PROVE Singles'
  <2>0. j \in JobRecords /\ j.note \in Notes /\ j.device \in Devices /\ OfTarget(j, j.note, j.device)
    BY <1>0 DEF JobRecords, OfTarget
  <2>1. ASSUME NEW s \in {"queued", "sending", "gone"},
               jobs' = (jobs \ {j}) \cup {[j EXCEPT !.step = s]} \/ jobs' = jobs \ {j},
               UNCHANGED <<stage, todo, closing, retryHeap, accepted>>
        PROVE  Singles'
    <3> DEFINE k == [j EXCEPT !.step = s]
    <3>1. OfTarget(k, j.note, j.device)
      BY <2>0, JobMoves DEF OfTarget
    <3>2. jobs' = (jobs \ {j}) \cup {k} \/ jobs' = jobs \ {j}
      BY <2>1
    <3> HIDE DEF k
    <3>3. Single(j.note, j.device) => Single(j.note, j.device)'
      BY <2>0, <2>1, <3>1, <3>2 DEF Single
    <3>4. \A x : ~OfTarget(x, j.note, j.device) => (x \in jobs' <=> x \in jobs)
      BY <2>0, <3>1, <3>2
    <3>q. QED  BY <2>1, <3>3, <3>4, <1>7
  <2>2. CASE SendPooled(j)
    BY <2>1, <2>2 DEF SendPooled
  <2>3. CASE Gone(j)
    <3>1. jobs' = (jobs \ {j}) \cup {[j EXCEPT !.step = "gone"]} \/ jobs' = jobs \ {j}
      BY <2>3 DEF Gone
    <3>q. QED  BY <2>1, <2>3, <3>1 DEF Gone
  <2>4. CASE ReapRetried(j)
    BY <2>1, <2>4 DEF ReapRetried
  <2>5. CASE Accepted(j)
    <3>1. /\ accepted'[j.note][j.device] = accepted[j.note][j.device] + 1
          /\ \A n \in Notes, d \in Devices : n # j.note \/ d # j.device => accepted'[n][d] = accepted[n][d]
      BY <1>0, <2>0, <2>5 DEF Accepted
    <3>2. jobs' = jobs \ {j} /\ UNCHANGED <<stage, todo, closing, retryHeap>>
      BY <2>5 DEF Accepted
    <3>3. accepted[j.note][j.device] \in Nat
      BY <1>0, <2>0
    <3>4. Single(j.note, j.device) => Single(j.note, j.device)'
      BY <2>0, <3>1, <3>2, <3>3 DEF Single
    <3>5. \A x : ~OfTarget(x, j.note, j.device) => (x \in jobs' <=> x \in jobs)
      BY <2>0, <3>2
    <3>q. QED  BY <1>7, <3>1, <3>2, <3>4, <3>5
  <2>6. CASE Failed(j)
    <3>1. jobs' = jobs \ {j} /\ UNCHANGED <<stage, todo, closing, accepted>> /\ retryHeap' \in {retryHeap, Booked(j)}
      BY <2>6 DEF Failed
    <3>2. /\ \A e \in retryHeap : e \in retryHeap'
          /\ \A e \in retryHeap' : e \notin retryHeap => OfTarget(e, j.note, j.device)
          /\ \A e, f \in retryHeap' : e \notin retryHeap /\ f \notin retryHeap => e = f
      BY <3>1, Books
    <3>3. Single(j.note, j.device) => Single(j.note, j.device)'
      BY <2>0, <3>1, <3>2 DEF Single
    <3>4. \A x : ~OfTarget(x, j.note, j.device) =>
              (x \in jobs' <=> x \in jobs) /\ (x \in retryHeap' <=> x \in retryHeap)
      BY <2>0, <3>1, <3>2
    <3>q. QED  BY <1>7, <3>1, <3>3, <3>4
  <2>q. QED  BY <1>8, <2>2, <2>3, <2>4, <2>5, <2>6 DEF Send
<1>9. ASSUME NEW e \in retryHeap, Fire(e)  PROVE Singles'
  <2> DEFINE j == Job(e.note, e.device, e.attempt, "pool", "queued")
  <2>1. /\ e.note \in Notes /\ e.device \in Devices /\ e.attempt \in 1..MaxAttempts
        /\ OfTarget(e, e.note, e.device)
    BY <1>0, DispatchAssumption DEF Bookings, OfTarget
  <2>2. OfTarget(j, e.note, e.device)
    BY <2>1, JobMade
  <2>3. (jobs' = jobs \/ jobs' = jobs \cup {j}) /\ retryHeap' = retryHeap \ {e}
        /\ UNCHANGED <<stage, todo, closing, accepted>>
    BY <1>9 DEF Fire
  <2> HIDE DEF j
  <2>4. closing = "no" => /\ Single(e.note, e.device)
                          /\ stage[e.note] \notin {"new", "planned"} /\ e.device \notin todo[e.note]
    BY <2>1 DEF Singles, Unsent
  <2>5. Single(e.note, e.device) => Single(e.note, e.device)'
    BY <2>1, <2>2, <2>3 DEF Single
  <2>6. \A x : ~OfTarget(x, e.note, e.device) =>
            (x \in jobs' <=> x \in jobs) /\ (x \in retryHeap' <=> x \in retryHeap)
    BY <2>1, <2>2, <2>3
  <2>q. QED  BY <2>1, <2>3, <2>4, <2>5, <2>6, SinglesMove
<1>10. CASE StopScheduler
  BY <1>10 DEF StopScheduler, Singles
<1>11. CASE StopPool \/ CloseSessions
  BY <1>11 DEF StopPool, CloseSessions, Singles
<1>12. CASE UNCHANGED pushVars
  BY <1>12, SinglesStay DEF pushVars
<1>q. QED
  BY <1>1, <1>2, <1>3, <1>5, <1>6, <1>8, <1>9, <1>10, <1>11, <1>12 DEF PushNext, Dispatch

-----------------------------------------------------------------------------
\* A step that hands out nothing, moves no dispatch on and takes nothing off the pool's queue.
LEMMA HandedStays ==
    ASSUME Handed, UNCHANGED <<stage, target, todo>>,
           \A n \in Notes, d \in Devices : tried[n][d] # "no" => tried'[n][d] # "no",
           \A j \in jobs : j.step = "queued" /\ j \notin jobs' => tried'[j.note][j.device] # "no"
    PROVE  Handed'
<1> SUFFICES ASSUME NEW n \in Notes
             PROVE  /\ stage[n] = "collect" => todo[n] = {}
                    /\ stage[n] \in {"submit", "collect", "inline"} => \A d \in Targets(n) : Pending(n, d)'
                    /\ stage[n] \in {"reap", "done"} => \A d \in Targets(n) : tried'[n][d] # "no"
  BY DEF Handed, Targets
<1>1. ASSUME NEW d \in Devices, Pending(n, d)  PROVE Pending(n, d)'
  BY <1>1 DEF Pending, OfTarget
<1>q. QED  BY <1>1 DEF Handed, Targets

\* A step of one dispatch.
LEMMA HandedMoves ==
    ASSUME PushTypeOK, Handed, NEW n0 \in Notes, UNCHANGED <<tried, target>>,
           \A n \in Notes : n # n0 => stage'[n] = stage[n] /\ todo'[n] = todo[n],
           \A j \in jobs : j \in jobs',
           stage'[n0] = "collect" => todo'[n0] = {},
           stage'[n0] \in {"submit", "collect", "inline"} => \A d \in Targets(n0) : Pending(n0, d)',
           stage'[n0] \in {"reap", "done"} => \A d \in Targets(n0) : tried[n0][d] # "no"
    PROVE  Handed'
<1>1. ASSUME NEW n \in Notes, n # n0, NEW d \in Devices, Pending(n, d)  PROVE Pending(n, d)'
  BY <1>1 DEF Pending
<1>q. QED  BY <1>1 DEF Handed, Targets

LEMMA HandedKeeps ==
    ASSUME PushTypeOK, Handed, [PushNext]_pushVars
    PROVE  Handed'
<1>0. /\ jobs \subseteq JobRecords /\ retryHeap \subseteq Bookings /\ todo \in [Notes -> SUBSET Devices]
      /\ stage \in [Notes -> {"new", "planned", "submit", "collect", "inline", "reap", "done"}]
      /\ target \in [Notes -> [Devices -> Rows]]
      /\ tried \in [Notes -> [Devices -> {"no", "yes", "gone"}]] /\ 1 \in 1..MaxAttempts
  BY DispatchAssumption DEF PushTypeOK, JobRecords, Bookings
<1>1. ASSUME NEW d \in Devices, NewToken(d) \/ Upsert(d)  PROVE Handed'
  BY <1>1, HandedStays DEF NewToken, Upsert
<1>2. ASSUME NEW n \in Notes, Plan(n)  PROVE Handed'
  <2>1. \A m \in Notes : m # n => stage'[m] = stage[m] /\ target'[m] = target[m]
    BY <1>0, <1>2 DEF Plan
  <2>2. target'[n] = row /\ stage'[n] \in {"done", "planned"}
        /\ (stage'[n] = "done" => \A d \in Devices : row[d] = NoRow)
    BY <1>0, <1>2 DEF Plan
  <2>3. UNCHANGED <<todo, jobs, tried>>
    BY <1>2 DEF Plan
  <2>4. \A m \in Notes, d \in Devices : m # n /\ Pending(m, d) => Pending(m, d)'
    BY <2>1, <2>3 DEF Pending
  <2>q. QED  BY <2>1, <2>2, <2>3, <2>4 DEF Handed, Targets
<1>3. ASSUME NEW n \in Notes, Execute(n)  PROVE Handed'
  <2>1. stage'[n] \in {"inline", "submit"} /\ todo'[n] = Targets(n)
        /\ \A m \in Notes : m # n => stage'[m] = stage[m] /\ todo'[m] = todo[m]
    BY <1>0, <1>3 DEF Execute
  <2>2. \A d \in Targets(n) : Pending(n, d)'
    BY <2>1 DEF Pending
  <2>q. QED  BY <1>3, <2>1, <2>2, HandedMoves DEF Execute
<1>4. ASSUME NEW n \in Notes, Collect(n)  PROVE Handed'
  <2>1. stage'[n] \in {"done", "reap"} /\ \A m \in Notes : m # n => stage'[m] = stage[m]
    BY <1>0, <1>4 DEF Collect
  <2>2. \A d \in Targets(n) : tried[n][d] # "no"
    BY <1>4 DEF Collect, Handed, Pending, OfTarget
  <2>q. QED  BY <1>4, <2>1, <2>2, HandedMoves DEF Collect
<1>5. ASSUME NEW n \in Notes, NEW d \in Devices, Submit(n, d)  PROVE Handed'
  <2>1. CASE closing \in {"pool", "closed"}
    <3>1. stage'[n] = "inline" /\ todo'[n] = Targets(n)
          /\ \A m \in Notes : m # n => stage'[m] = stage[m] /\ todo'[m] = todo[m]
      BY <1>0, <1>5, <2>1 DEF Submit
    <3>2. \A x \in Targets(n) : Pending(n, x)'
      BY <3>1 DEF Pending
    <3>q. QED  BY <1>5, <2>1, <3>1, <3>2, HandedMoves DEF Submit
  <2>2. CASE closing \notin {"pool", "closed"}
    <3> DEFINE j == Job(n, d, 1, "pool", "queued")
    <3>1. OfTarget(j, n, d) /\ j.attempt = 1 /\ j.step = "queued"
      BY <1>0, JobMade
    <3>2. stage[n] = "submit" /\ jobs' = jobs \cup {j} /\ UNCHANGED <<tried, target>>
      BY <1>5, <2>2 DEF Submit
    <3>3. /\ stage'[n] = IF todo[n] = {d} THEN "collect" ELSE "submit"
          /\ todo'[n] = todo[n] \ {d}
          /\ \A m \in Notes : m # n => stage'[m] = stage[m] /\ todo'[m] = todo[m]
      BY <1>0, <1>5, <2>2 DEF Submit
    <3> HIDE DEF j
    <3>4. ASSUME NEW x \in Targets(n)  PROVE Pending(n, x)'
      <4>1. Pending(n, x)
        BY <3>2 DEF Handed
      <4>q. QED  BY <3>1, <3>2, <3>3, <4>1 DEF Pending
    <3>q. QED  BY <3>2, <3>3, <3>4, HandedMoves
  <2>q. QED  BY <2>1, <2>2
<1>6. ASSUME NEW n \in Notes, NEW d \in Devices, SendInline(n, d)  PROVE Handed'
  <2>1. /\ stage[n] = "inline" /\ UNCHANGED <<stage, target>>
        /\ jobs' = jobs \cup {Job(n, d, 1, "inline", "sending")}
    BY <1>6 DEF SendInline
  <2>2. todo'[n] = todo[n] \ {d} /\ \A m \in Notes : m # n => todo'[m] = todo[m]
    BY <1>0, <1>6 DEF SendInline
  <2>3. tried'[n][d] # "no" /\ \A m \in Notes, x \in Devices : tried[m][x] # "no" => tried'[m][x] # "no"
    BY <1>0, <1>6 DEF SendInline
  <2>4. \A m \in Notes, x \in Devices : Pending(m, x) => Pending(m, x)'
    BY <2>1, <2>2, <2>3 DEF Pending
  <2>5. \A m \in Notes : todo'[m] \subseteq todo[m]
    BY <1>0, <2>2
  <2>q. QED  BY <2>1, <2>3, <2>4, <2>5 DEF Handed, Targets
<1>7. ASSUME NEW n \in Notes, NEW d \in Devices, Reap(n, d)  PROVE Handed'
  <2>1. stage[n] = "reap" /\ stage'[n] \in {"done", "reap"} /\ \A m \in Notes : m # n => stage'[m] = stage[m]
    BY <1>0, <1>7 DEF Reap
  <2>2. \A x \in Targets(n) : tried[n][x] # "no"
    BY <2>1 DEF Handed
  <2>q. QED  BY <1>7, <2>1, <2>2, HandedMoves DEF Reap
<1>8. ASSUME NEW j \in jobs, Send(j)  PROVE Handed'
  <2>0. j.note \in Notes /\ j.device \in Devices
    BY <1>0 DEF JobRecords
  <2>1. UNCHANGED <<stage, target, todo>>
    BY <1>8 DEF Send, SendPooled, Accepted, Failed, Gone, ReapRetried
  <2>2. CASE SendPooled(j)
    <3>1. tried'[j.note][j.device] # "no" /\ \A m \in Notes, x \in Devices : tried[m][x] # "no" => tried'[m][x] # "no"
      BY <1>0, <2>0, <2>2 DEF SendPooled
    <3>2. \A k \in jobs : k # j => k \in jobs'
      BY <2>2 DEF SendPooled
    <3>q. QED  BY <2>1, <3>1, <3>2, HandedStays
  <2>3. CASE Gone(j)
    <3>1. \A m \in Notes, x \in Devices : tried[m][x] # "no" => tried'[m][x] # "no"
      BY <1>0, <2>0, <2>3 DEF Gone
    <3>2. j.step = "sending" /\ \A k \in jobs : k # j => k \in jobs'
      BY <2>3 DEF Gone
    <3>q. QED  BY <2>1, <3>1, <3>2, HandedStays
  <2>4. CASE Accepted(j) \/ Failed(j) \/ ReapRetried(j)
    <3>1. j.step # "queued" /\ jobs' = jobs \ {j} /\ UNCHANGED tried
      BY <2>4 DEF Accepted, Failed, ReapRetried
    <3>q. QED  BY <2>1, <3>1, HandedStays
  <2>q. QED  BY <1>8, <2>2, <2>3, <2>4 DEF Send
<1>9. ASSUME NEW e \in retryHeap, Fire(e)  PROVE Handed'
  BY <1>9, HandedStays DEF Fire
<1>10. CASE StopScheduler \/ StopPool \/ CloseSessions
  BY <1>10, HandedStays DEF StopScheduler, StopPool, CloseSessions
<1>11. CASE UNCHANGED pushVars
  BY <1>11, HandedStays DEF pushVars
<1>q. QED
  BY <1>1, <1>2, <1>3, <1>4, <1>5, <1>6, <1>7, <1>8, <1>9, <1>10, <1>11 DEF PushNext, Dispatch

-----------------------------------------------------------------------------
LEMMA PushInvStarts == PushInit => PushInv
<1> SUFFICES ASSUME PushInit PROVE PushInv
  OBVIOUS
<1>1. 0 \in 0..MaxRows /\ 0 \in 0..MaxTokens /\ 1 \in 1..MaxTokens /\ MaxPending \in Nat
  BY DispatchAssumption
<1>2. NoRow \in Rows
  BY <1>1 DEF NoRow, Rows
<1>3. PushTypeOK /\ IsFiniteSet(retryHeap)
  BY <1>1, <1>2, FS_EmptySet DEF PushInit, PushTypeOK
<1>q. QED  BY <1>3 DEF PushInit, PushInv, Singles, Single, Unsent, Handed

\* The push fan-out's inductive invariant: a target's sends are one job, one booked retry or
\* one acceptance while the server runs, and no target of a dispatch is forgotten.
THEOREM PushInvariance == PushSpec => []PushInv
<1>1. PushInv /\ [PushNext]_pushVars => PushInv'
  BY TypesKeep, SinglesKeep, HandedKeeps DEF PushInv
<1>q. QED  BY <1>1, PushInvStarts, PTL DEF PushSpec

\* The records, the heap and its bound max_pending: however many sends fail, no more retries
\* are booked than the scheduler takes (scheduler.py:82-106).
THEOREM PushTypes == PushSpec => []PushTypeOK
<1>1. PushInv => PushTypeOK
  BY DEF PushInv
<1>q. QED  BY <1>1, PushInvariance, PTL

\* No device gets a notification twice while the server runs, and a dispatch that ended has
\* tried all its targets, whatever a shutdown overtook (dispatcher.py:376-436).
THEOREM TargetsOnce == PushSpec => []EveryTargetOnce
<1>1. ASSUME PushInv  PROVE EveryTargetOnce
  <2>1. ASSUME closing = "no", NEW n \in Notes, NEW d \in Devices
        PROVE  Cardinality({j \in jobs : j.note = n /\ j.device = d})
                 + Cardinality({e \in retryHeap : e.note = n /\ e.device = d}) + accepted[n][d] <= 1
    <3> DEFINE J == {j \in jobs : j.note = n /\ j.device = d}
               H == {e \in retryHeap : e.note = n /\ e.device = d}
    <3>1. Single(n, d) /\ accepted[n][d] \in Nat
      BY <1>1, <2>1 DEF PushInv, Singles, PushTypeOK
    <3>2. /\ J = {} \/ \E x : J = {x}
          /\ H = {} \/ \E x : H = {x}
          /\ J = {} \/ H = {}
          /\ accepted[n][d] = 0 \/ (accepted[n][d] = 1 /\ J = {} /\ H = {})
      <4>1. ASSUME NEW x \in J, NEW y \in J  PROVE x = y
        BY <3>1 DEF Single, OfTarget
      <4>2. ASSUME NEW x \in H, NEW y \in H  PROVE x = y
        BY <3>1 DEF Single, OfTarget
      <4>3. ASSUME NEW x \in J, NEW y \in H  PROVE FALSE
        BY <3>1 DEF Single, OfTarget
      <4>4. accepted[n][d] = 0 \/ accepted[n][d] = 1
        BY <3>1 DEF Single
      <4>5. accepted[n][d] = 1 => J = {} /\ H = {}
        BY <3>1 DEF Single, OfTarget
      <4> HIDE DEF J, H
      <4>6. J = {} \/ \E x : J = {x}
        BY <4>1
      <4>7. H = {} \/ \E x : H = {x}
        BY <4>2
      <4>q. QED  BY <4>3, <4>4, <4>5, <4>6, <4>7
    <3> HIDE DEF J, H
    <3>3. Cardinality({}) = 0 /\ \A x : Cardinality({x}) = 1
      BY FS_EmptySet, FS_Singleton
    <3>4. Cardinality(J) \in {0, 1} /\ Cardinality(H) \in {0, 1} /\ (Cardinality(J) = 0 \/ Cardinality(H) = 0)
          /\ (accepted[n][d] = 0 \/ (accepted[n][d] = 1 /\ Cardinality(J) = 0 /\ Cardinality(H) = 0))
      BY <3>2, <3>3
    <3>5. Cardinality(J) + Cardinality(H) + accepted[n][d] <= 1
      BY <3>4
    <3>q. QED  BY <3>5 DEF J, H
  <2>2. \A n \in Notes : stage[n] \in {"reap", "done"} => \A d \in Targets(n) : tried[n][d] # "no"
    BY <1>1 DEF PushInv, Handed
  <2>q. QED  BY <2>1, <2>2 DEF EveryTargetOnce
<1>q. QED  BY <1>1, PushInvariance, PTL

-----------------------------------------------------------------------------
\* The mails that left the queue without an answer: _process() raised something unexpected.
Lost == {m \in Messages : outcome[m] = "lost"}
\* A worker has m in its hands.
Held(m) == \E t \in Threads : message[t] = m
\* A mail is on the heap once, or in one worker's hands, or neither, as its outcome says.
OnePlace ==
    /\ \A i, j \in DOMAIN order : order[i] = order[j] => i = j
    /\ \A t \in Threads : worker[t] = "sending" <=> message[t] # NoMessage
    /\ \A t, u \in Threads : message[t] = message[u] /\ message[t] # NoMessage => t = u
    /\ \A m \in Messages : Held(m) => m \notin Queued
    /\ \A m \in Messages : outcome[m] = "queued" <=> m \in Queued \/ Held(m)
\* A mail that enqueue() is about to put is nowhere yet, and is put by one thread.
Offers ==
    /\ \A p \in Producers : offered[p] = NoMessage <=> producer[p] = "out"
    /\ \A p \in Producers : offered[p] # NoMessage => outcome[offered[p]] = "offered"
    /\ \A p, q \in Producers : offered[p] = offered[q] /\ offered[p] # NoMessage => p = q
\* The counters of accepted, delivered and failed mails agree with where the mails are.
Sums ==
    /\ IsFiniteSet(Lost)
    /\ counts["accepted"] = counts["delivered"] + counts["failed"] + Size
          + Cardinality(InFlight) + Cardinality(Lost)
\* maxsize bounds the mails nobody tried; retries add at most one per worker.
Room ==
    /\ Cardinality({m \in Queued : attempts[m] = 0}) <= maxsize
    /\ Size + Cardinality(InFlight) <= maxsize + Cardinality(Born)
\* The inductive invariant of the e-mail queue.
MailInv == TypeOK /\ OnePlace /\ Offers /\ Sums /\ Room

-----------------------------------------------------------------------------
\* A sequence without repetitions that loses the entry at i.
LEMMA Removal ==
    ASSUME NEW S, NEW s \in Seq(S), \A i, j \in DOMAIN s : s[i] = s[j] => i = j, NEW k \in DOMAIN s
    PROVE  LET r == RemoveAt(s, k)
           IN  /\ r \in Seq(S) /\ Len(r) = Len(s) - 1
               /\ \A i, j \in DOMAIN r : r[i] = r[j] => i = j
               /\ ToSet(r) = ToSet(s) \ {s[k]}
<1> DEFINE a == SubSeq(s, 1, k - 1)
           b == SubSeq(s, k + 1, Len(s))
           r == a \o b
<1>1. Len(s) \in Nat /\ DOMAIN s = 1..Len(s) /\ k \in 1..Len(s)
  BY LenProperties
<1>2. a \in Seq(S) /\ Len(a) = k - 1 /\ \A i \in 1..(k - 1) : a[i] = s[i]
  <2>1. 1 \in Int /\ k - 1 \in Int /\ \A i \in 1..(k - 1) : s[i] \in S
    BY <1>1
  <2>2. /\ a \in Seq(S) /\ Len(a) = (IF 1 <= k - 1 THEN k - 1 - 1 + 1 ELSE 0)
        /\ \A i \in 1..(k - 1 - 1 + 1) : a[i] = s[1 + i - 1]
    BY <2>1, SubSeqProperties
  <2>q. QED  BY <1>1, <2>2
<1>3. b \in Seq(S) /\ Len(b) = Len(s) - k /\ \A i \in 1..(Len(s) - k) : b[i] = s[k + i]
  <2>1. k + 1 \in Int /\ Len(s) \in Int /\ \A i \in (k + 1)..Len(s) : s[i] \in S
    BY <1>1
  <2>2. /\ b \in Seq(S) /\ Len(b) = (IF k + 1 <= Len(s) THEN Len(s) - (k + 1) + 1 ELSE 0)
        /\ \A i \in 1..(Len(s) - (k + 1) + 1) : b[i] = s[k + 1 + i - 1]
    BY <2>1, SubSeqProperties
  <2>q. QED  BY <1>1, <2>2
<1> HIDE DEF a, b
<1>4. /\ r \in Seq(S) /\ Len(r) = Len(s) - 1 /\ DOMAIN r = 1..(Len(s) - 1)
      /\ \A i \in 1..(Len(s) - 1) : r[i] = IF i < k THEN s[i] ELSE s[i + 1]
  <2>1. /\ r \in Seq(S) /\ Len(r) = Len(a) + Len(b)
        /\ \A i \in 1..(Len(a) + Len(b)) : r[i] = IF i <= Len(a) THEN a[i] ELSE b[i - Len(a)]
    <3>1. a \in Seq(S) /\ b \in Seq(S)
      BY <1>2, <1>3
    <3>q. QED  BY <3>1, ConcatProperties, Zenon
  <2> HIDE DEF r
  <2>2. Len(r) = Len(s) - 1 /\ DOMAIN r = 1..Len(r)
    BY <1>1, <1>2, <1>3, <2>1, LenProperties
  <2>3. ASSUME NEW i \in 1..(Len(s) - 1)  PROVE r[i] = IF i < k THEN s[i] ELSE s[i + 1]
    <3>1. r[i] = IF i <= k - 1 THEN a[i] ELSE b[i - (k - 1)]
      BY <1>1, <1>2, <1>3, <2>1
    <3>2. CASE i < k
      <4>1. i \in 1..(k - 1) /\ i <= k - 1
        BY <1>1, <3>2
      <4>2. a[i] = s[i]
        BY <1>2, <4>1
      <4>q. QED  BY <3>1, <3>2, <4>1, <4>2
    <3>3. CASE ~(i < k)
      <4> DEFINE n == i - (k - 1)
      <4>1. n \in 1..(Len(s) - k) /\ k + n = i + 1 /\ ~(i <= k - 1)
        BY <1>1, <3>3
      <4> HIDE DEF n
      <4>2. b[n] = s[i + 1]
        BY <1>3, <4>1
      <4>3. r[i] = b[n]
        BY <3>1, <4>1 DEF n
      <4>q. QED  BY <3>3, <4>2, <4>3
    <3>q. QED  BY <3>2, <3>3
  <2>q. QED  BY <2>1, <2>2, <2>3
<1> HIDE DEF r
<1>5. ASSUME NEW i \in DOMAIN r, NEW j \in DOMAIN r, r[i] = r[j]  PROVE i = j
  <2>1. i \in 1..(Len(s) - 1) /\ j \in 1..(Len(s) - 1)
    BY <1>4
  <2>2. PICK v \in DOMAIN s : v = (IF i < k THEN i ELSE i + 1) /\ r[i] = s[v]
    BY <1>1, <1>4, <2>1
  <2>3. PICK w \in DOMAIN s : w = (IF j < k THEN j ELSE j + 1) /\ r[j] = s[w]
    BY <1>1, <1>4, <2>1
  <2>4. v = w
    BY <1>5, <2>2, <2>3
  <2>q. QED  BY <1>1, <2>1, <2>2, <2>3, <2>4
<1>6. ToSet(r) = ToSet(s) \ {s[k]}
  <2>1. ASSUME NEW x \in ToSet(r)  PROVE x \in ToSet(s) \ {s[k]}
    <3>1. PICK i \in 1..(Len(s) - 1) : x = r[i]
      BY <1>4, <2>1 DEF ToSet
    <3>2. PICK j \in 1..Len(s) : x = s[j] /\ j # k
      BY <1>1, <1>4, <3>1
    <3>q. QED  BY <1>1, <3>2 DEF ToSet
  <2>2. ASSUME NEW x \in ToSet(s), x # s[k]  PROVE x \in ToSet(r)
    <3>1. PICK i \in 1..Len(s) : x = s[i] /\ i # k
      BY <1>1, <2>2 DEF ToSet
    <3>2. PICK j \in 1..(Len(s) - 1) : r[j] = x
      <4>1. CASE i < k
        BY <1>1, <1>4, <3>1, <4>1
      <4>2. CASE i > k
        <5>1. i - 1 \in 1..(Len(s) - 1) /\ r[i - 1] = s[i]
          BY <1>1, <1>4, <3>1, <4>2
        <5>q. QED  BY <3>1, <5>1
      <4>q. QED  BY <1>1, <3>1, <4>1, <4>2
    <3>q. QED  BY <1>4, <3>2 DEF ToSet
  <2>q. QED  BY <2>1, <2>2
<1>q. QED  BY <1>4, <1>5, <1>6 DEF RemoveAt, r, a, b

\* A sequence without repetitions that gets a new entry at its end.
LEMMA Addition ==
    ASSUME NEW S, NEW s \in Seq(S), NEW x \in S, \A i, j \in DOMAIN s : s[i] = s[j] => i = j, x \notin ToSet(s)
    PROVE  LET r == Append(s, x)
           IN  /\ r \in Seq(S) /\ Len(r) = Len(s) + 1
               /\ \A i, j \in DOMAIN r : r[i] = r[j] => i = j
               /\ ToSet(r) = ToSet(s) \cup {x}
<1> DEFINE r == Append(s, x)
<1>1. Len(s) \in Nat /\ DOMAIN s = 1..Len(s)
  BY LenProperties
<1>2. /\ r \in Seq(S) /\ Len(r) = Len(s) + 1
      /\ \A i \in 1..Len(s) : r[i] = s[i]
      /\ r[Len(s) + 1] = x
  BY AppendProperties
<1>3. DOMAIN r = 1..(Len(s) + 1)
  BY <1>2, LenProperties
<1> HIDE DEF r
<1>4. ToSet(r) = ToSet(s) \cup {x}
  <2>1. ASSUME NEW y \in ToSet(r)  PROVE y \in ToSet(s) \cup {x}
    <3>1. PICK i \in 1..(Len(s) + 1) : y = r[i]
      BY <1>3 DEF ToSet
    <3>2. CASE i = Len(s) + 1
      BY <1>2, <3>1, <3>2
    <3>3. CASE i \in 1..Len(s)
      BY <1>1, <1>2, <3>1, <3>3 DEF ToSet
    <3>q. QED  BY <1>1, <3>2, <3>3
  <2>2. ASSUME NEW y \in ToSet(s)  PROVE y \in ToSet(r)
    <3>1. PICK i \in 1..Len(s) : y = s[i]
      BY <1>1 DEF ToSet
    <3>2. i \in 1..(Len(s) + 1) /\ r[i] = y
      BY <1>1, <1>2, <3>1
    <3>q. QED  BY <1>3, <3>2 DEF ToSet
  <2>3. x \in ToSet(r)
    <3>1. Len(s) + 1 \in 1..(Len(s) + 1)
      BY <1>1
    <3>q. QED  BY <1>2, <1>3, <3>1 DEF ToSet
  <2>q. QED  BY <2>1, <2>2, <2>3
<1>5. ASSUME NEW i \in DOMAIN r, NEW j \in DOMAIN r, r[i] = r[j]  PROVE i = j
  <2>1. \A n \in 1..Len(s) : r[n] # x
    BY <1>1, <1>2 DEF ToSet
  <2>q. QED  BY <1>1, <1>2, <1>3, <1>5, <2>1
<1>q. QED  BY <1>2, <1>4, <1>5 DEF r

-----------------------------------------------------------------------------
\* A non-empty set of naturals has a least element.
LEMMA Least ==
    ASSUME NEW T \in SUBSET Nat, T # {}
    PROVE  \E x \in T : \A y \in T : x <= y
<1>1. PICK x \in T : \A y \in T : ~(<<y, x>> \in OpToRel(<, Nat))
  BY NatLessThanWellFounded, WFMin, Zenon
<1>2. \A y \in T : ~(y < x)
  BY <1>1 DEF OpToRel
<1>q. QED  BY <1>2

\* The facts about the heap that the steps use.
LEMMA QueueFacts ==
    ASSUME TypeOK, OnePlace
    PROVE  /\ Size \in Nat /\ DOMAIN order = 1..Size /\ Queued \subseteq Messages
           /\ \A m \in Queued : Pos(m) \in DOMAIN order /\ order[Pos(m)] = m
           /\ IsFiniteSet(Queued) /\ Cardinality(Queued) = Size
           /\ NoMessage \notin Messages
<1>1. order \in Seq(Messages) /\ Size \in Nat /\ DOMAIN order = 1..Size /\ order \in [1..Size -> Messages]
  BY LenProperties DEF TypeOK, Size
<1>2. Queued \subseteq Messages
  BY <1>1 DEF Queued, ToSet
<1>3. \A m \in Queued : Pos(m) \in DOMAIN order /\ order[Pos(m)] = m
  BY DEF Pos, Queued, ToSet
<1>4. IsFiniteSet(Queued) /\ Cardinality(Queued) = Size
  <2>1. order \in [1..Size -> Queued]
    BY <1>1 DEF Queued, ToSet
  <2>2. order \in Surjection(1..Size, Queued)
    BY <1>1, <2>1 DEF Surjection, Queued, ToSet
  <2>3. order \in Injection(1..Size, Queued)
    BY <1>1, <2>1 DEF Injection, IsInjective, OnePlace
  <2>4. IsFiniteSet(1..Size) /\ Cardinality(1..Size) = Size
    BY <1>1, FS_Interval
  <2>5. IsFiniteSet(Queued) /\ (Cardinality(Queued) = Cardinality(1..Size) <=> order \in Injection(1..Size, Queued))
    BY <2>2, <2>4, FS_Surjection
  <2>q. QED  BY <2>3, <2>4, <2>5
<1>q. QED  BY <1>1, <1>2, <1>3, <1>4, EmailAssumption

\* get() has a head to return when a mail is ready.
LEMMA ServedIsReady ==
    ASSUME TypeOK, OnePlace, Ready # {}
    PROVE  Served \in Ready
<1>1. Ready \subseteq Queued /\ Queued \subseteq Messages /\ priority \in [Messages -> 0..2]
  BY QueueFacts, EmailAssumption DEF Ready
<1>2. PICK v \in {priority[m] : m \in Ready} : \A w \in {priority[m] : m \in Ready} : v <= w
  <2>1. {priority[m] : m \in Ready} \in SUBSET Nat /\ {priority[m] : m \in Ready} # {}
    BY <1>1
  <2>q. QED  BY <2>1, Least
<1> DEFINE F == {m \in Ready : priority[m] = v}
<1>3. PICK k \in {Pos(m) : m \in F} : \A l \in {Pos(m) : m \in F} : k <= l
  <2>1. {Pos(m) : m \in F} \in SUBSET Nat /\ {Pos(m) : m \in F} # {}
    BY <1>1, QueueFacts
  <2>q. QED  BY <2>1, Least
<1>4. PICK m \in F : k = Pos(m)
  BY <1>3
<1>5. ASSUME NEW n \in Ready \ {m}  PROVE Before(m, n)
  <2>1. priority[m] = v /\ v \in Nat /\ priority[n] \in Nat /\ v <= priority[n]
    BY <1>1, <1>2, <1>4, <1>5
  <2>2. CASE priority[n] = v
    <3>1. k <= Pos(n) /\ Pos(n) # k
      BY <1>1, <1>3, <1>4, <1>5, <2>2, QueueFacts
    <3>2. Pos(n) \in Nat /\ k \in Nat
      BY <1>1, <1>4, <1>5, QueueFacts
    <3>q. QED  BY <1>4, <2>1, <2>2, <3>1, <3>2 DEF Before
  <2>3. CASE priority[n] # v
    BY <2>1, <2>3 DEF Before
  <2>q. QED  BY <2>2, <2>3
<1>6. \E x \in Ready : \A n \in Ready \ {x} : Before(x, n)
  BY <1>4, <1>5
<1>q. QED  BY <1>6 DEF Served

-----------------------------------------------------------------------------
\* The mail in a worker's hands.
LEMMA MailInHand ==
    ASSUME TypeOK, OnePlace, NEW t \in Threads, worker[t] = "sending"
    PROVE  /\ message[t] \in Messages /\ message[t] # NoMessage
           /\ message[t] \notin Queued /\ outcome[message[t]] = "queued"
           /\ \A u \in Threads : u # t => message[u] # message[t]
BY EmailAssumption DEF TypeOK, OnePlace, Held

\* The mail a producer offers is nowhere yet.
LEMMA MailOffered ==
    ASSUME TypeOK, OnePlace, Offers, NEW p \in Producers, producer[p] = "put"
    PROVE  /\ offered[p] \in Messages /\ outcome[offered[p]] = "offered"
           /\ offered[p] \notin Queued /\ ~Held(offered[p])
BY DEF TypeOK, OnePlace, Offers

\* get() takes a queued mail that no worker has.
LEMMA MailServed ==
    ASSUME TypeOK, OnePlace, NEW t \in Threads, GetMessage(t)
    PROVE  /\ Served \in Messages /\ Served \in Queued /\ ~Held(Served) /\ outcome[Served] = "queued"
           /\ Served # NoMessage /\ worker[t] = "get" /\ message[t] = NoMessage
           /\ order' \in Seq(Messages) /\ Size' = Size - 1
           /\ \A i, j \in DOMAIN order' : order'[i] = order'[j] => i = j
           /\ Queued' = Queued \ {Served}
<1>1. Served \in Ready /\ Served \in Queued
  BY ServedIsReady DEF GetMessage, Ready
<1>2. Served \in Messages /\ Served # NoMessage /\ Pos(Served) \in DOMAIN order /\ order[Pos(Served)] = Served
  BY <1>1, QueueFacts
<1>3. outcome[Served] = "queued" /\ ~Held(Served) /\ worker[t] = "get" /\ message[t] = NoMessage
  BY <1>1, <1>2 DEF OnePlace, GetMessage, InGet
<1>4. order' = RemoveAt(order, Pos(Served))
  BY DEF GetMessage, Without
<1>5. order \in Seq(Messages) /\ \A i, j \in DOMAIN order : order[i] = order[j] => i = j
  BY DEF TypeOK, OnePlace
<1>6. /\ order' \in Seq(Messages) /\ Len(order') = Len(order) - 1
      /\ \A i, j \in DOMAIN order' : order'[i] = order'[j] => i = j
      /\ ToSet(order') = ToSet(order) \ {Served}
  BY <1>2, <1>4, <1>5, Removal
<1>q. QED  BY <1>1, <1>2, <1>3, <1>6 DEF Queued, Size

\* put() of a mail that is not queued.
LEMMA MailPushed ==
    ASSUME TypeOK, OnePlace, NEW m \in Messages, m \notin Queued, order' = Append(order, m)
    PROVE  /\ order' \in Seq(Messages) /\ Size' = Size + 1
           /\ \A i, j \in DOMAIN order' : order'[i] = order'[j] => i = j
           /\ Queued' = Queued \cup {m}
<1>1. order \in Seq(Messages) /\ \A i, j \in DOMAIN order : order[i] = order[j] => i = j
  BY DEF TypeOK, OnePlace
<1>2. m \notin ToSet(order)
  BY DEF Queued
<1>q. QED  BY <1>1, <1>2, Addition DEF Queued, Size

\* notify() takes a thread out of the waiting ones.
LEMMA NotifyTypes == ASSUME TypeOK, NotifyOne PROVE waiting' \subseteq Threads
BY DEF TypeOK, NotifyOne

\* Every step keeps the types.
LEMMA MailTypesKeep ==
    ASSUME TypeOK, OnePlace, Offers, [Next]_vars
    PROVE  TypeOK'
<1> DEFINE Stages == {"unborn", "get", "idle", "sending", "exited"}
           Outcomes == {"new", "offered", "queued", "delivered", "failed", "rejected", "lost"}
           Counters == {"accepted", "delivered", "failed", "rejected"}
<1>0. /\ order \in Seq(Messages) /\ delayed \subseteq Queued /\ due \subseteq delayed
      /\ closed \in BOOLEAN /\ started \in BOOLEAN /\ stopping \in BOOLEAN
      /\ waiting \subseteq Threads /\ joining \subseteq Threads
      /\ worker \in [Threads -> Stages] /\ message \in [Threads -> Messages \cup {NoMessage}]
      /\ errors \in [Threads -> Nat] /\ attempts \in [Messages -> Nat]
      /\ producer \in [Producers -> {"out", "start", "put"}]
      /\ offered \in [Producers -> Messages \cup {NoMessage}]
      /\ shutting \in {"no", "stop", "close", "join", "joined", "timed_out", "returned"}
      /\ outcome \in [Messages -> Outcomes] /\ counts \in [Counters -> Nat]
  BY DEF TypeOK
<1>n. \A k \in Counters : Bump(k) \in [Counters -> Nat]
  BY <1>0 DEF Bump
<1>1. ASSUME NEW p \in Producers, NEW m \in Messages, EnqueueInvalid(p, m)  PROVE TypeOK'
  BY <1>0, <1>1, <1>n DEF EnqueueInvalid, TypeOK, heap, threads, Queued
<1>2. ASSUME NEW p \in Producers, NEW m \in Messages, EnqueueChecks(p, m)  PROVE TypeOK'
  <2>1. /\ outcome' \in [Messages -> Outcomes] /\ counts' \in [Counters -> Nat]
        /\ producer' \in [Producers -> {"out", "start", "put"}] /\ offered' \in [Producers -> Messages \cup {NoMessage}]
    <3>1. CASE priority[m] > 0 /\ Size >= normal_priority_limit
      BY <1>0, <1>2, <1>n, <3>1 DEF EnqueueChecks
    <3>2. CASE ~(priority[m] > 0 /\ Size >= normal_priority_limit)
      BY <1>0, <1>2, <3>2 DEF EnqueueChecks
    <3>q. QED  BY <3>1, <3>2
  <2>2. UNCHANGED <<order, delayed, due, closed, waiting, started, stopping, worker, message, errors, attempts,
                    shutting, joining>>
    BY <1>2 DEF EnqueueChecks, heap, threads
  <2>q. QED  BY <1>0, <2>1, <2>2 DEF TypeOK, Queued
<1>3. ASSUME NEW p \in Producers, EnqueueStarts(p)  PROVE TypeOK'
  <2>1. worker' \in [Threads -> Stages] /\ started' \in BOOLEAN /\ stopping' \in BOOLEAN
    BY <1>0, <1>3 DEF EnqueueStarts
  <2>2. /\ producer' \in [Producers -> {"out", "start", "put"}]
        /\ UNCHANGED <<order, delayed, due, closed, waiting, message, errors, attempts, offered, shutting, joining,
                       outcome, counts>>
    BY <1>0, <1>3 DEF EnqueueStarts, heap
  <2>q. QED  BY <1>0, <2>1, <2>2 DEF TypeOK, Queued
<1>4. ASSUME NEW p \in Producers, EnqueueRefused(p)  PROVE TypeOK'
  BY <1>0, <1>4, <1>n DEF EnqueueRefused, TypeOK, heap, threads, Queued
<1>5. ASSUME NEW p \in Producers, EnqueueAccepted(p)  PROVE TypeOK'
  <2>1. /\ offered[p] \in Messages /\ offered[p] \notin Queued /\ order' = Append(order, offered[p]) /\ NotifyOne
        /\ UNCHANGED <<delayed, due, closed, started, stopping, worker, message, errors, attempts, shutting, joining>>
    BY <1>5, MailOffered DEF EnqueueAccepted, Push, threads
  <2>2. order' \in Seq(Messages) /\ Queued' = Queued \cup {offered[p]} /\ waiting' \subseteq Threads
    BY <2>1, MailPushed, NotifyTypes
  <2>3. /\ outcome' \in [Messages -> Outcomes] /\ counts' \in [Counters -> Nat]
        /\ producer' \in [Producers -> {"out", "start", "put"}] /\ offered' \in [Producers -> Messages \cup {NoMessage}]
    BY <1>0, <1>5, <1>n DEF EnqueueAccepted
  <2>q. QED  BY <1>0, <2>1, <2>2, <2>3 DEF TypeOK
<1>6. ASSUME NEW t \in Threads, GetMessage(t)  PROVE TypeOK'
  <2>1. order' \in Seq(Messages) /\ Queued' = Queued \ {Served} /\ Served \in Messages /\ Served \in Ready
    BY <1>6, MailServed, ServedIsReady DEF GetMessage
  <2>2. delayed' \subseteq Queued' /\ due' = {}
    BY <1>0, <1>6, <2>1 DEF GetMessage, Ready
  <2>3. message' \in [Threads -> Messages \cup {NoMessage}] /\ worker' \in [Threads -> Stages]
    BY <1>0, <1>6, <2>1 DEF GetMessage
  <2>4. UNCHANGED <<closed, waiting, started, stopping, errors, attempts, producer, offered, shutting, joining,
                    outcome, counts>>
    BY <1>6 DEF GetMessage
  <2>q. QED  BY <1>0, <2>1, <2>2, <2>3, <2>4 DEF TypeOK
<1>7. ASSUME NEW t \in Threads, GetNothing(t) \/ GetWaits(t) \/ WaitExpires(t) \/ CheckStopping(t)  PROVE TypeOK'
  <2>1. worker' \in [Threads -> Stages] /\ waiting' \subseteq Threads
    BY <1>0, <1>7 DEF GetNothing, GetWaits, WaitExpires, CheckStopping, threads
  <2>2. UNCHANGED <<order, delayed, due, closed, started, stopping, message, errors, attempts, producer, offered,
                    shutting, joining, outcome, counts>>
    BY <1>7 DEF GetNothing, GetWaits, WaitExpires, CheckStopping, heap, threads
  <2>q. QED  BY <1>0, <2>1, <2>2 DEF TypeOK, Queued
<1>8. ASSUME NEW m \in Messages, ComesDue(m)  PROVE TypeOK'
  BY <1>0, <1>8 DEF ComesDue, TypeOK, threads, Queued
<1>9. ASSUME NEW t \in Threads, Delivers(t) \/ Stumbles(t)  PROVE TypeOK'
  <2>1. worker[t] = "sending" /\ message[t] \in Messages
    BY <1>9, MailInHand DEF Delivers, Stumbles
  <2>2. attempts' \in [Messages -> Nat] /\ message' \in [Threads -> Messages \cup {NoMessage}]
    <3>1. /\ attempts' = [attempts EXCEPT ![message[t]] = @ + 1]
          /\ message' = [message EXCEPT ![t] = NoMessage]
      BY <1>9 DEF Delivers, Stumbles
    <3>q. QED  BY <1>0, <2>1, <3>1
  <2>3. /\ outcome' \in [Messages -> Outcomes] /\ counts' \in [Counters -> Nat]
        /\ worker' \in [Threads -> Stages] /\ errors' \in [Threads -> Nat]
    <3>1. CASE Delivers(t)
      BY <1>0, <1>n, <2>1, <3>1 DEF Delivers
    <3>2. CASE Stumbles(t)
      <4>1. outcome' \in [Messages -> Outcomes] /\ UNCHANGED counts
        BY <1>0, <2>1, <3>2 DEF Stumbles
      <4>2. worker' \in [Threads -> Stages]
        <5>1. worker' = [worker EXCEPT ![t] = "exited"] \/ worker' = [worker EXCEPT ![t] = "get"]
          BY <3>2 DEF Stumbles
        <5>q. QED  BY <1>0, <5>1
      <4>3. errors' \in [Threads -> Nat]
        <5>1. errors' = [errors EXCEPT ![t] = @ + 1]
          BY <3>2 DEF Stumbles
        <5>q. QED  BY <1>0, <5>1
      <4>q. QED  BY <1>0, <4>1, <4>2, <4>3
    <3>q. QED  BY <1>9, <3>1, <3>2
  <2>4. UNCHANGED <<order, delayed, due, closed, waiting, started, stopping, producer, offered, shutting, joining>>
    BY <1>9 DEF Delivers, Stumbles, heap
  <2>q. QED  BY <1>0, <2>2, <2>3, <2>4 DEF TypeOK, Queued
<1>10. ASSUME NEW t \in Threads, NEW b \in BOOLEAN, Fails(t, b)  PROVE TypeOK'
  <2>1. worker[t] = "sending" /\ message[t] \in Messages /\ message[t] \notin Queued
    BY <1>10, MailInHand DEF Fails
  <2>2. attempts' \in [Messages -> Nat]
    BY <1>0, <1>10, <2>1 DEF Fails
  <2>3. /\ message' \in [Threads -> Messages \cup {NoMessage}] /\ worker' \in [Threads -> Stages]
        /\ errors' \in [Threads -> Nat]
        /\ UNCHANGED <<due, closed, started, stopping, producer, offered, shutting, joining>>
    BY <1>0, <1>10 DEF Fails
  <2>4. CASE /\ Push(message[t]) /\ delayed' = delayed \cup {message[t]}
             /\ outcome' = [outcome EXCEPT ![message[t]] = "queued"] /\ UNCHANGED counts
    <3>1. order' \in Seq(Messages) /\ Queued' = Queued \cup {message[t]} /\ waiting' \subseteq Threads
      BY <2>1, <2>4, MailPushed, NotifyTypes DEF Push
    <3>q. QED  BY <1>0, <2>1, <2>2, <2>3, <2>4, <3>1 DEF TypeOK
  <2>5. CASE /\ outcome' = [outcome EXCEPT ![message[t]] = "failed"] /\ counts' = Bump("failed")
             /\ UNCHANGED <<order, delayed, waiting>>
    BY <1>0, <1>n, <2>1, <2>2, <2>3, <2>5 DEF TypeOK, Queued
  <2>q. QED  BY <1>10, <2>4, <2>5 DEF Fails
<1>11. CASE ShutdownTakesThreads \/ ShutdownSetsStopping \/ ShutdownCloses \/ ShutdownReturns
  <2>1. /\ closed' \in BOOLEAN /\ started' \in BOOLEAN /\ stopping' \in BOOLEAN
        /\ waiting' \subseteq Threads /\ joining' \subseteq Threads
        /\ shutting' \in {"no", "stop", "close", "join", "joined", "timed_out", "returned"}
    BY <1>0, <1>11 DEF ShutdownTakesThreads, ShutdownSetsStopping, ShutdownCloses, ShutdownReturns, heap
  <2>2. UNCHANGED <<order, delayed, due, worker, message, errors, attempts, producer, offered, outcome, counts>>
    BY <1>11 DEF ShutdownTakesThreads, ShutdownSetsStopping, ShutdownCloses, ShutdownReturns, heap, threads
  <2>q. QED  BY <1>0, <2>1, <2>2 DEF TypeOK, Queued
<1>12. CASE UNCHANGED vars
  BY <1>0, <1>12 DEF TypeOK, vars, heap, threads, Queued
<1>q. QED
  BY <1>1, <1>2, <1>3, <1>4, <1>5, <1>6, <1>7, <1>8, <1>9, <1>10, <1>11, <1>12
  DEF Next, EnqueueStep, WorkerStep, ShutdownStep

-----------------------------------------------------------------------------
\* A worker is done with its mail, which goes back to the queue or ends.
LEMMA HandEmpties ==
    ASSUME TypeOK, OnePlace, NEW t \in Threads, worker[t] = "sending", NEW w \in {"get", "exited"},
           worker' = [worker EXCEPT ![t] = w], message' = [message EXCEPT ![t] = NoMessage],
           NEW v \in {"queued", "delivered", "failed", "lost"},
           outcome' = [outcome EXCEPT ![message[t]] = v],
           IF v = "queued" THEN order' = Append(order, message[t]) ELSE order' = order
    PROVE  OnePlace'
<1>1. /\ message[t] \in Messages /\ message[t] # NoMessage
      /\ message[t] \notin Queued /\ outcome[message[t]] = "queued"
      /\ \A u \in Threads : u # t => message[u] # message[t]
  BY MailInHand
<1>2. worker \in [Threads -> {"unborn", "get", "idle", "sending", "exited"}]
      /\ message \in [Threads -> Messages \cup {NoMessage}]
      /\ outcome \in [Messages -> {"new", "offered", "queued", "delivered", "failed", "rejected", "lost"}]
  BY DEF TypeOK
<1>3. /\ message'[t] = NoMessage /\ worker'[t] = w
      /\ \A u \in Threads : u # t => message'[u] = message[u] /\ worker'[u] = worker[u]
  BY <1>2
<1>4. outcome'[message[t]] = v /\ \A m \in Messages : m # message[t] => outcome'[m] = outcome[m]
  BY <1>1, <1>2
<1>5. /\ \A i, j \in DOMAIN order' : order'[i] = order'[j] => i = j
      /\ Queued' = IF v = "queued" THEN Queued \cup {message[t]} ELSE Queued
  <2>1. CASE v = "queued"
    BY <1>1, <2>1, MailPushed
  <2>2. CASE v # "queued"
    BY <2>2 DEF OnePlace, Queued
  <2>q. QED  BY <2>1, <2>2
<1>6. \A m \in Messages : Held(m)' <=> Held(m) /\ m # message[t]
  BY <1>1, <1>3, EmailAssumption DEF Held
<1>7. /\ \A u \in Threads : worker'[u] = "sending" <=> message'[u] # NoMessage
      /\ \A u, s \in Threads : message'[u] = message'[s] /\ message'[u] # NoMessage => u = s
  BY <1>3 DEF OnePlace
<1>8. /\ \A m \in Messages : Held(m)' => m \notin Queued'
      /\ \A m \in Messages : outcome'[m] = "queued" <=> m \in Queued' \/ Held(m)'
  BY <1>1, <1>4, <1>5, <1>6 DEF OnePlace
<1>q. QED  BY <1>5, <1>7, <1>8 DEF OnePlace

\* A step that moves no mail.
LEMMA PlacesStay ==
    ASSUME OnePlace, UNCHANGED <<order, message>>,
           \A t \in Threads : worker'[t] = "sending" <=> worker[t] = "sending",
           \A m \in Messages : outcome'[m] = "queued" <=> outcome[m] = "queued"
    PROVE  OnePlace'
BY DEF OnePlace, Held, Queued

\* No step puts a mail in a second place, and none takes it out of all of them.
LEMMA OnePlaceKeep ==
    ASSUME TypeOK, OnePlace, Offers, [Next]_vars
    PROVE  OnePlace'
<1>0. /\ order \in Seq(Messages)
      /\ worker \in [Threads -> {"unborn", "get", "idle", "sending", "exited"}]
      /\ message \in [Threads -> Messages \cup {NoMessage}]
      /\ outcome \in [Messages -> {"new", "offered", "queued", "delivered", "failed", "rejected", "lost"}]
      /\ offered \in [Producers -> Messages \cup {NoMessage}]
  BY DEF TypeOK
<1>1. ASSUME NEW p \in Producers, NEW m \in Messages, EnqueueInvalid(p, m) \/ EnqueueChecks(p, m)  PROVE OnePlace'
  <2>1. /\ outcome[m] = "new" /\ UNCHANGED <<order, worker, message>>
        /\ \E v \in {"rejected", "offered"} : outcome' = [outcome EXCEPT ![m] = v]
    BY <1>1 DEF EnqueueInvalid, EnqueueChecks, heap, threads
  <2>2. \A x \in Messages : outcome'[x] = "queued" <=> outcome[x] = "queued"
    BY <1>0, <2>1
  <2>q. QED  BY <2>1, <2>2, PlacesStay
<1>2. ASSUME NEW p \in Producers, EnqueueStarts(p)  PROVE OnePlace'
  <2>1. \A t \in Threads : worker'[t] = "sending" <=> worker[t] = "sending"
    BY <1>0, <1>2 DEF EnqueueStarts
  <2>2. UNCHANGED <<order, message, outcome>>
    BY <1>2 DEF EnqueueStarts, heap
  <2>q. QED  BY <2>1, <2>2, PlacesStay
<1>3. ASSUME NEW p \in Producers, EnqueueRefused(p)  PROVE OnePlace'
  <2>1. offered[p] \in Messages /\ outcome[offered[p]] = "offered"
    BY <1>3, MailOffered DEF EnqueueRefused
  <2>2. outcome' = [outcome EXCEPT ![offered[p]] = "rejected"] /\ UNCHANGED <<order, worker, message>>
    BY <1>3 DEF EnqueueRefused, heap, threads
  <2>3. \A x \in Messages : outcome'[x] = "queued" <=> outcome[x] = "queued"
    BY <1>0, <2>1, <2>2
  <2>q. QED  BY <2>2, <2>3, PlacesStay
<1>4. ASSUME NEW p \in Producers, EnqueueAccepted(p)  PROVE OnePlace'
  <2> DEFINE m == offered[p]
  <2>1. /\ m \in Messages /\ outcome[m] = "offered" /\ m \notin Queued /\ ~Held(m)
        /\ order' = Append(order, m) /\ outcome' = [outcome EXCEPT ![m] = "queued"] /\ UNCHANGED <<worker, message>>
    BY <1>4, MailOffered DEF EnqueueAccepted, Push, threads
  <2> HIDE DEF m
  <2>2. /\ \A i, j \in DOMAIN order' : order'[i] = order'[j] => i = j
        /\ Queued' = Queued \cup {m}
    BY <2>1, MailPushed
  <2>3. \A x \in Messages : (Held(x)' <=> Held(x)) /\ outcome'[x] = IF x = m THEN "queued" ELSE outcome[x]
    BY <1>0, <2>1 DEF Held
  <2>4. /\ \A t \in Threads : worker'[t] = "sending" <=> message'[t] # NoMessage
        /\ \A t, u \in Threads : message'[t] = message'[u] /\ message'[t] # NoMessage => t = u
    BY <2>1 DEF OnePlace
  <2>5. /\ \A x \in Messages : Held(x)' => x \notin Queued'
        /\ \A x \in Messages : outcome'[x] = "queued" <=> x \in Queued' \/ Held(x)'
    BY <2>1, <2>2, <2>3 DEF OnePlace
  <2>q. QED  BY <2>2, <2>4, <2>5 DEF OnePlace
<1>5. ASSUME NEW t \in Threads, GetMessage(t)  PROVE OnePlace'
  <2> DEFINE m == Served
  <2>1. /\ m \in Messages /\ m \in Queued /\ ~Held(m) /\ outcome[m] = "queued" /\ m # NoMessage
        /\ worker[t] = "get" /\ message[t] = NoMessage
        /\ \A i, j \in DOMAIN order' : order'[i] = order'[j] => i = j
        /\ Queued' = Queued \ {m}
    BY <1>5, MailServed
  <2>2. message' = [message EXCEPT ![t] = m] /\ worker' = [worker EXCEPT ![t] = "sending"] /\ UNCHANGED outcome
    BY <1>5 DEF GetMessage
  <2> HIDE DEF m
  <2>3. /\ message'[t] = m /\ worker'[t] = "sending"
        /\ \A u \in Threads : u # t => message'[u] = message[u] /\ worker'[u] = worker[u]
    BY <1>0, <2>2
  <2>4. \A x \in Messages : Held(x)' <=> Held(x) \/ x = m
    BY <2>1, <2>3, EmailAssumption DEF Held
  <2>5. /\ \A u \in Threads : worker'[u] = "sending" <=> message'[u] # NoMessage
        /\ \A u, s \in Threads : message'[u] = message'[s] /\ message'[u] # NoMessage => u = s
    BY <2>1, <2>3 DEF OnePlace, Held
  <2>6. /\ \A x \in Messages : Held(x)' => x \notin Queued'
        /\ \A x \in Messages : outcome'[x] = "queued" <=> x \in Queued' \/ Held(x)'
    BY <2>1, <2>2, <2>4 DEF OnePlace
  <2>q. QED  BY <2>1, <2>5, <2>6 DEF OnePlace
<1>6. ASSUME NEW t \in Threads, GetNothing(t) \/ GetWaits(t) \/ WaitExpires(t) \/ CheckStopping(t)  PROVE OnePlace'
  <2>1. UNCHANGED <<order, message, outcome>> /\ \A u \in Threads : worker'[u] = "sending" <=> worker[u] = "sending"
    BY <1>0, <1>6 DEF GetNothing, GetWaits, WaitExpires, CheckStopping, InGet, heap, threads
  <2>q. QED  BY <2>1, PlacesStay
<1>7. ASSUME NEW t \in Threads, Delivers(t) \/ Stumbles(t)  PROVE OnePlace'
  <2>1. /\ worker[t] = "sending" /\ order' = order /\ message' = [message EXCEPT ![t] = NoMessage]
        /\ \E w \in {"get", "exited"} : worker' = [worker EXCEPT ![t] = w]
        /\ \E v \in {"delivered", "lost"} : outcome' = [outcome EXCEPT ![message[t]] = v]
    BY <1>7 DEF Delivers, Stumbles, heap
  <2>q. QED  BY <2>1, HandEmpties
<1>8. ASSUME NEW t \in Threads, NEW b \in BOOLEAN, Fails(t, b)  PROVE OnePlace'
  <2>1. /\ worker[t] = "sending" /\ message' = [message EXCEPT ![t] = NoMessage]
        /\ worker' = [worker EXCEPT ![t] = "get"]
    BY <1>8 DEF Fails
  <2>2. \/ order' = Append(order, message[t]) /\ outcome' = [outcome EXCEPT ![message[t]] = "queued"]
        \/ order' = order /\ outcome' = [outcome EXCEPT ![message[t]] = "failed"]
    BY <1>8 DEF Fails, Push
  <2>q. QED  BY <2>1, <2>2, HandEmpties
<1>9. CASE \/ \E m \in Messages : ComesDue(m)
           \/ ShutdownTakesThreads \/ ShutdownSetsStopping \/ ShutdownCloses \/ ShutdownReturns \/ UNCHANGED vars
  <2>1. UNCHANGED <<order, worker, message, outcome>>
    BY <1>9 DEF ComesDue, ShutdownTakesThreads, ShutdownSetsStopping, ShutdownCloses, ShutdownReturns, vars, heap, threads
  <2>q. QED  BY <2>1, PlacesStay
<1>q. QED
  BY <1>1, <1>2, <1>3, <1>4, <1>5, <1>6, <1>7, <1>8, <1>9 DEF Next, EnqueueStep, WorkerStep, ShutdownStep

\* A step that leaves the producers alone and touches no mail on offer.
LEMMA OffersStay ==
    ASSUME Offers, UNCHANGED <<producer, offered>>, TypeOK,
           \A m \in Messages : outcome[m] = "offered" => outcome'[m] = "offered"
    PROVE  Offers'
BY DEF Offers, TypeOK

\* What producers offer stays on offer.
LEMMA OffersKeep ==
    ASSUME TypeOK, OnePlace, Offers, [Next]_vars
    PROVE  Offers'
<1>0. /\ producer \in [Producers -> {"out", "start", "put"}]
      /\ outcome \in [Messages -> {"new", "offered", "queued", "delivered", "failed", "rejected", "lost"}]
      /\ offered \in [Producers -> Messages \cup {NoMessage}] /\ NoMessage \notin Messages
  BY EmailAssumption DEF TypeOK
<1>1. ASSUME NEW p \in Producers, NEW m \in Messages, EnqueueInvalid(p, m)  PROVE Offers'
  BY <1>0, <1>1, OffersStay DEF EnqueueInvalid
<1>2. ASSUME NEW p \in Producers, NEW m \in Messages, EnqueueChecks(p, m)  PROVE Offers'
  <2>1. CASE outcome' = [outcome EXCEPT ![m] = "rejected"] /\ UNCHANGED <<producer, offered>>
    BY <1>0, <1>2, <2>1, OffersStay DEF EnqueueChecks
  <2>2. CASE /\ outcome' = [outcome EXCEPT ![m] = "offered"]
             /\ producer' = [producer EXCEPT ![p] = "start"] /\ offered' = [offered EXCEPT ![p] = m]
    <3>1. outcome[m] = "new" /\ \A q \in Producers : offered[q] # m
      BY <1>0, <1>2 DEF EnqueueChecks, Offers
    <3>2. \A q \in Producers : q # p => producer'[q] = producer[q] /\ offered'[q] = offered[q]
      BY <1>0, <2>2
    <3>3. producer'[p] = "start" /\ offered'[p] = m
      BY <1>0, <2>2
    <3>4. \A x \in Messages : outcome'[x] = IF x = m THEN "offered" ELSE outcome[x]
      BY <1>0, <2>2
    <3>q. QED  BY <1>0, <3>1, <3>2, <3>3, <3>4 DEF Offers
  <2>q. QED  BY <1>2, <2>1, <2>2 DEF EnqueueChecks
<1>3. ASSUME NEW p \in Producers, EnqueueStarts(p)  PROVE Offers'
  BY <1>0, <1>3 DEF EnqueueStarts, Offers
<1>4. ASSUME NEW p \in Producers, EnqueueRefused(p) \/ EnqueueAccepted(p)  PROVE Offers'
  <2>1. /\ offered[p] \in Messages /\ offered[p] # NoMessage
        /\ \A q \in Producers : q # p => offered[q] # offered[p]
    BY <1>0, <1>4, MailOffered DEF EnqueueRefused, EnqueueAccepted, Offers
  <2>2. /\ producer' = [producer EXCEPT ![p] = "out"] /\ offered' = [offered EXCEPT ![p] = NoMessage]
        /\ \E v \in {"rejected", "queued"} : outcome' = [outcome EXCEPT ![offered[p]] = v]
    BY <1>4 DEF EnqueueRefused, EnqueueAccepted
  <2>3. \A q \in Producers : q # p => producer'[q] = producer[q] /\ offered'[q] = offered[q]
    BY <1>0, <2>2
  <2>4. producer'[p] = "out" /\ offered'[p] = NoMessage
    BY <1>0, <2>2
  <2>5. \A x \in Messages : x # offered[p] => outcome'[x] = outcome[x]
    BY <1>0, <2>2
  <2>q. QED  BY <1>0, <2>1, <2>3, <2>4, <2>5 DEF Offers
<1>5. ASSUME NEW t \in Threads, Delivers(t) \/ Stumbles(t) \/ Fails(t, TRUE) \/ Fails(t, FALSE)  PROVE Offers'
  <2>1. worker[t] = "sending" /\ UNCHANGED <<producer, offered>>
    BY <1>5 DEF Delivers, Stumbles, Fails
  <2>2. outcome[message[t]] = "queued" /\ message[t] \in Messages
    BY <2>1, MailInHand
  <2>3. \E v \in {"delivered", "lost", "queued", "failed"} : outcome' = [outcome EXCEPT ![message[t]] = v]
    BY <1>5 DEF Delivers, Stumbles, Fails
  <2>q. QED  BY <1>0, <2>1, <2>2, <2>3, OffersStay
<1>6. ASSUME NEW t \in Threads, GetMessage(t) \/ GetNothing(t) \/ GetWaits(t) \/ WaitExpires(t) \/ CheckStopping(t)
      PROVE  Offers'
  BY <1>6, OffersStay DEF GetMessage, GetNothing, GetWaits, WaitExpires, CheckStopping
<1>7. CASE \/ \E m \in Messages : ComesDue(m)
           \/ ShutdownTakesThreads \/ ShutdownSetsStopping \/ ShutdownCloses \/ ShutdownReturns \/ UNCHANGED vars
  BY <1>7, OffersStay
  DEF ComesDue, ShutdownTakesThreads, ShutdownSetsStopping, ShutdownCloses, ShutdownReturns, vars
<1>q. QED
  BY <1>1, <1>2, <1>3, <1>4, <1>5, <1>6, <1>7 DEF Next, EnqueueStep, WorkerStep, ShutdownStep

-----------------------------------------------------------------------------
\* The sets that are counted.
LEMMA Counted ==
    ASSUME TypeOK
    PROVE  /\ IsFiniteSet(InFlight) /\ Cardinality(InFlight) \in Nat
           /\ IsFiniteSet(Born) /\ Cardinality(Born) \in Nat
           /\ Cardinality(InFlight) <= Cardinality(Born)
<1>1. InFlight \in SUBSET Threads /\ Born \in SUBSET Threads /\ IsFiniteSet(Threads)
  BY EmailAssumption DEF InFlight, Born
<1>2. IsFiniteSet(InFlight) /\ IsFiniteSet(Born)
  BY <1>1, FS_Subset
<1>3. InFlight \in SUBSET Born
  BY DEF InFlight, Born
<1>q. QED  BY <1>2, <1>3, FS_Subset, FS_CardinalityType

\* One worker more with a mail in its hands, or one less, and the others as they were.
LEMMA OneMore ==
    ASSUME TypeOK, NEW t \in Threads, worker[t] = "get", worker' = [worker EXCEPT ![t] = "sending"]
    PROVE  Cardinality(InFlight') = Cardinality(InFlight) + 1 /\ Born' = Born
<1>1. worker \in [Threads -> {"unborn", "get", "idle", "sending", "exited"}]
  BY DEF TypeOK
<1>2. InFlight' = InFlight \cup {t} /\ t \notin InFlight /\ Born' = Born
  BY <1>1 DEF InFlight, Born
<1>q. QED  BY <1>2, Counted, FS_AddElement

\* A worker that has sent its mail has one mail less in its hands.
LEMMA OneLess ==
    ASSUME TypeOK, NEW t \in Threads, worker[t] = "sending", NEW w \in {"get", "exited"},
           worker' = [worker EXCEPT ![t] = w]
    PROVE  Cardinality(InFlight') = Cardinality(InFlight) - 1 /\ Born' = Born
<1>1. worker \in [Threads -> {"unborn", "get", "idle", "sending", "exited"}]
  BY DEF TypeOK
<1>2. InFlight' = InFlight \ {t} /\ t \in InFlight /\ Born' = Born
  BY <1>1 DEF InFlight, Born
<1>q. QED  BY <1>2, Counted, FS_RemoveElement

\* Every step keeps the account of accepted mails.
LEMMA SumsKeep ==
    ASSUME TypeOK, OnePlace, Offers, Sums, [Next]_vars
    PROVE  Sums'
<1>0. /\ worker \in [Threads -> {"unborn", "get", "idle", "sending", "exited"}]
      /\ outcome \in [Messages -> {"new", "offered", "queued", "delivered", "failed", "rejected", "lost"}]
      /\ counts \in [{"accepted", "delivered", "failed", "rejected"} -> Nat]
      /\ counts["accepted"] \in Nat /\ counts["delivered"] \in Nat /\ counts["failed"] \in Nat
  BY DEF TypeOK
<1>s. Size \in Nat /\ Cardinality(InFlight) \in Nat /\ Cardinality(Lost) \in Nat
  BY QueueFacts, Counted, FS_CardinalityType DEF Sums
\* no mail is lost
<1>l. ASSUME NEW m \in Messages, outcome[m] # "lost", NEW v \in {"rejected", "offered", "queued", "delivered", "failed"},
             outcome' = [outcome EXCEPT ![m] = v]
      PROVE  Lost' = Lost
  BY <1>0, <1>l DEF Lost
\* nothing changes, or the rejected ones only
<1>e. ASSUME order' = order, Lost' = Lost, InFlight' = InFlight,
             counts' \in {counts, Bump("rejected")}
      PROVE  Sums'
  <2>1. /\ counts'["accepted"] = counts["accepted"] /\ counts'["delivered"] = counts["delivered"]
        /\ counts'["failed"] = counts["failed"]
    BY <1>0, <1>e DEF Bump
  <2>2. Size' = Size
    BY <1>e DEF Size
  <2>q. QED  BY <1>e, <2>1, <2>2 DEF Sums
<1>1. ASSUME NEW p \in Producers, NEW m \in Messages, EnqueueInvalid(p, m) \/ EnqueueChecks(p, m)  PROVE Sums'
  <2>1. /\ outcome[m] = "new" /\ order' = order /\ worker' = worker
        /\ \E v \in {"rejected", "offered"} : outcome' = [outcome EXCEPT ![m] = v]
        /\ counts' \in {counts, Bump("rejected")}
    BY <1>1 DEF EnqueueInvalid, EnqueueChecks, heap, threads
  <2>2. InFlight' = InFlight
    BY <2>1 DEF InFlight
  <2>q. QED  BY <1>e, <1>l, <2>1, <2>2
<1>2. ASSUME NEW p \in Producers, EnqueueStarts(p)  PROVE Sums'
  <2>1. InFlight' = InFlight
    BY <1>0, <1>2 DEF EnqueueStarts, InFlight
  <2>2. order' = order /\ Lost' = Lost /\ counts' = counts
    BY <1>2 DEF EnqueueStarts, heap, Lost
  <2>q. QED  BY <1>e, <2>1, <2>2
<1>3. ASSUME NEW p \in Producers, EnqueueRefused(p)  PROVE Sums'
  <2>1. /\ offered[p] \in Messages /\ outcome[offered[p]] = "offered" /\ order' = order /\ worker' = worker
        /\ outcome' = [outcome EXCEPT ![offered[p]] = "rejected"] /\ counts' = Bump("rejected")
    BY <1>3, MailOffered DEF EnqueueRefused, heap, threads
  <2>2. InFlight' = InFlight
    BY <2>1 DEF InFlight
  <2>q. QED  BY <1>e, <1>l, <2>1, <2>2
<1>4. ASSUME NEW p \in Producers, EnqueueAccepted(p)  PROVE Sums'
  <2>1. /\ offered[p] \in Messages /\ outcome[offered[p]] = "offered" /\ offered[p] \notin Queued
        /\ order' = Append(order, offered[p]) /\ worker' = worker
        /\ outcome' = [outcome EXCEPT ![offered[p]] = "queued"] /\ counts' = Bump("accepted")
    BY <1>4, MailOffered DEF EnqueueAccepted, Push, threads
  <2>2. InFlight' = InFlight /\ Lost' = Lost /\ Size' = Size + 1
    BY <1>l, <2>1, MailPushed DEF InFlight
  <2>3. /\ counts'["accepted"] = counts["accepted"] + 1 /\ counts'["delivered"] = counts["delivered"]
        /\ counts'["failed"] = counts["failed"]
    BY <1>0, <2>1 DEF Bump
  <2>q. QED  BY <1>0, <1>s, <2>2, <2>3 DEF Sums
<1>5. ASSUME NEW t \in Threads, GetMessage(t)  PROVE Sums'
  <2>1. Size' = Size - 1 /\ Cardinality(InFlight') = Cardinality(InFlight) + 1
    BY <1>5, MailServed, OneMore DEF GetMessage
  <2>2. Lost' = Lost /\ counts' = counts
    BY <1>5 DEF GetMessage, Lost
  <2>q. QED  BY <1>0, <1>s, <2>1, <2>2 DEF Sums
<1>6. ASSUME NEW t \in Threads, GetNothing(t) \/ GetWaits(t) \/ WaitExpires(t) \/ CheckStopping(t)  PROVE Sums'
  <2>1. InFlight' = InFlight
    BY <1>0, <1>6 DEF GetNothing, GetWaits, WaitExpires, CheckStopping, InGet, threads, InFlight
  <2>2. order' = order /\ Lost' = Lost /\ counts' = counts
    BY <1>6 DEF GetNothing, GetWaits, WaitExpires, CheckStopping, heap, Lost
  <2>q. QED  BY <1>e, <2>1, <2>2
<1>7. ASSUME NEW t \in Threads, Delivers(t)  PROVE Sums'
  <2>1. /\ worker[t] = "sending" /\ message[t] \in Messages /\ outcome[message[t]] = "queued" /\ order' = order
        /\ worker' = [worker EXCEPT ![t] = "get"] /\ outcome' = [outcome EXCEPT ![message[t]] = "delivered"]
        /\ counts' = Bump("delivered")
    BY <1>7, MailInHand DEF Delivers, heap
  <2>2. Cardinality(InFlight') = Cardinality(InFlight) - 1 /\ Lost' = Lost /\ Size' = Size
    BY <1>l, <2>1, OneLess DEF Size
  <2>3. /\ counts'["accepted"] = counts["accepted"] /\ counts'["delivered"] = counts["delivered"] + 1
        /\ counts'["failed"] = counts["failed"]
    BY <1>0, <2>1 DEF Bump
  <2>q. QED  BY <1>0, <1>s, <2>2, <2>3 DEF Sums
<1>8. ASSUME NEW t \in Threads, Stumbles(t)  PROVE Sums'
  <2>1. /\ worker[t] = "sending" /\ message[t] \in Messages /\ outcome[message[t]] = "queued" /\ order' = order
        /\ outcome' = [outcome EXCEPT ![message[t]] = "lost"] /\ counts' = counts
        /\ \E w \in {"get", "exited"} : worker' = [worker EXCEPT ![t] = w]
    BY <1>8, MailInHand DEF Stumbles, heap
  <2>2. Lost' = Lost \cup {message[t]} /\ message[t] \notin Lost
    BY <1>0, <2>1 DEF Lost
  <2>3. IsFiniteSet(Lost') /\ Cardinality(Lost') = Cardinality(Lost) + 1
    BY <2>2, FS_AddElement DEF Sums
  <2>4. Cardinality(InFlight') = Cardinality(InFlight) - 1 /\ Size' = Size
    BY <2>1, OneLess DEF Size
  <2>q. QED  BY <1>0, <1>s, <2>1, <2>3, <2>4 DEF Sums
<1>9. ASSUME NEW t \in Threads, NEW b \in BOOLEAN, Fails(t, b)  PROVE Sums'
  <2>1. /\ worker[t] = "sending" /\ message[t] \in Messages /\ message[t] \notin Queued
        /\ outcome[message[t]] = "queued" /\ worker' = [worker EXCEPT ![t] = "get"]
    BY <1>9, MailInHand DEF Fails
  <2>2. Cardinality(InFlight') = Cardinality(InFlight) - 1
    BY <2>1, OneLess
  <2>3. CASE /\ order' = Append(order, message[t]) /\ outcome' = [outcome EXCEPT ![message[t]] = "queued"]
             /\ counts' = counts
    <3>1. Size' = Size + 1 /\ Lost' = Lost
      BY <1>l, <2>1, <2>3, MailPushed
    <3>q. QED  BY <1>0, <1>s, <2>2, <2>3, <3>1 DEF Sums
  <2>4. CASE /\ order' = order /\ outcome' = [outcome EXCEPT ![message[t]] = "failed"]
             /\ counts' = Bump("failed")
    <3>1. Size' = Size /\ Lost' = Lost
      BY <1>l, <2>1, <2>4 DEF Size
    <3>2. /\ counts'["accepted"] = counts["accepted"] /\ counts'["delivered"] = counts["delivered"]
          /\ counts'["failed"] = counts["failed"] + 1
      BY <1>0, <2>4 DEF Bump
    <3>q. QED  BY <1>0, <1>s, <2>2, <3>1, <3>2 DEF Sums
  <2>q. QED  BY <1>9, <2>3, <2>4 DEF Fails, Push
<1>10. CASE \/ \E m \in Messages : ComesDue(m)
            \/ ShutdownTakesThreads \/ ShutdownSetsStopping \/ ShutdownCloses \/ ShutdownReturns \/ UNCHANGED vars
  <2>1. order' = order /\ worker' = worker /\ outcome' = outcome /\ counts' = counts
    BY <1>10 DEF ComesDue, ShutdownTakesThreads, ShutdownSetsStopping, ShutdownCloses, ShutdownReturns, vars, heap, threads
  <2>2. Lost' = Lost /\ InFlight' = InFlight
    BY <2>1 DEF Lost, InFlight
  <2>q. QED  BY <1>e, <2>1, <2>2
<1>q. QED
  BY <1>1, <1>2, <1>3, <1>4, <1>5, <1>6, <1>7, <1>8, <1>9, <1>10 DEF Next, EnqueueStep, WorkerStep, ShutdownStep

\* The mails no worker has tried.
Untried == {m \in Queued : attempts[m] = 0}

\* Every step keeps the queue's limits.
LEMMA RoomKeep ==
    ASSUME TypeOK, OnePlace, Offers, Room, [Next]_vars
    PROVE  Room'
<1>0. /\ worker \in [Threads -> {"unborn", "get", "idle", "sending", "exited"}] /\ maxsize \in Nat
      /\ attempts \in [Messages -> Nat] /\ Queued \subseteq Messages
  BY QueueFacts, EmailAssumption DEF TypeOK
<1>s. /\ Size \in Nat /\ Cardinality(InFlight) \in Nat /\ Cardinality(Born) \in Nat
      /\ Cardinality(InFlight) <= Cardinality(Born) /\ IsFiniteSet(Queued) /\ Cardinality(Queued) = Size
  BY QueueFacts, Counted
<1>u. Room <=> Cardinality(Untried) <= maxsize /\ Size + Cardinality(InFlight) <= maxsize + Cardinality(Born)
  BY DEF Room, Untried
<1>r. Room' <=> /\ Cardinality(Untried') <= maxsize
                /\ Size' + Cardinality(InFlight') <= maxsize + Cardinality(Born')
  BY DEF Room, Untried
\* fewer mails that were never tried
<1>f. ASSUME Untried' \subseteq Untried  PROVE Cardinality(Untried') <= maxsize
  <2>1. IsFiniteSet(Untried) /\ Cardinality(Untried) \in Nat
    BY <1>s, FS_Subset, FS_CardinalityType DEF Untried
  <2>2. Untried' \in SUBSET Untried
    BY <1>f
  <2>3. Cardinality(Untried') <= Cardinality(Untried) /\ Cardinality(Untried') \in Nat
    BY <2>1, <2>2, FS_Subset, FS_CardinalityType
  <2>q. QED  BY <1>0, <1>u, <2>1, <2>3
<1>e. ASSUME order' = order, attempts' = attempts, worker' = worker  PROVE Room'
  BY <1>e DEF Room, Queued, Size, InFlight, Born
<1>1. ASSUME NEW p \in Producers, EnqueueStarts(p)  PROVE Room'
  <2>1. InFlight' = InFlight /\ Born \subseteq Born'
    BY <1>0, <1>1 DEF EnqueueStarts, InFlight, Born
  <2>2. Cardinality(Born) <= Cardinality(Born') /\ Cardinality(Born') \in Nat
    <3>1. IsFiniteSet(Born')
      BY EmailAssumption, FS_Subset DEF Born
    <3>q. QED  BY <2>1, <3>1, FS_Subset, FS_CardinalityType
  <2>3. Untried' = Untried /\ Size' = Size
    BY <1>1 DEF EnqueueStarts, heap, Untried, Queued, Size
  <2>q. QED  BY <1>0, <1>s, <1>u, <1>r, <2>1, <2>2, <2>3
<1>2. ASSUME NEW p \in Producers, EnqueueAccepted(p)  PROVE Room'
  <2>1. /\ offered[p] \in Messages /\ offered[p] \notin Queued /\ order' = Append(order, offered[p])
        /\ Size < maxsize /\ worker' = worker
    BY <1>2, MailOffered DEF EnqueueAccepted, Push, threads
  <2>2. Size' = Size + 1 /\ Queued' = Queued \cup {offered[p]}
    BY <2>1, MailPushed
  <2>3. IsFiniteSet(Queued') /\ Cardinality(Queued') = Size + 1
    BY <1>s, <2>1, <2>2, FS_AddElement
  <2>4. Untried' \in SUBSET Queued'
    BY DEF Untried
  <2>5. Cardinality(Untried') <= Size + 1 /\ Cardinality(Untried') \in Nat
    BY <2>3, <2>4, FS_Subset, FS_CardinalityType
  <2>6. InFlight' = InFlight /\ Born' = Born
    BY <2>1 DEF InFlight, Born
  <2>q. QED  BY <1>0, <1>s, <1>r, <2>1, <2>2, <2>5, <2>6
<1>3. ASSUME NEW t \in Threads, GetMessage(t)  PROVE Room'
  <2>1. /\ Size' = Size - 1 /\ Queued' \subseteq Queued
        /\ Cardinality(InFlight') = Cardinality(InFlight) + 1 /\ Born' = Born
    BY <1>3, MailServed, OneMore DEF GetMessage
  <2>2. Untried' \subseteq Untried
    BY <1>3, <2>1 DEF GetMessage, Untried
  <2>q. QED  BY <1>0, <1>s, <1>u, <1>r, <1>f, <2>1, <2>2
<1>4. ASSUME NEW t \in Threads, GetNothing(t) \/ GetWaits(t) \/ WaitExpires(t) \/ CheckStopping(t)  PROVE Room'
  <2>1. InFlight' = InFlight /\ Born' = Born
    BY <1>0, <1>4 DEF GetNothing, GetWaits, WaitExpires, CheckStopping, InGet, threads, InFlight, Born
  <2>2. order' = order /\ attempts' = attempts
    BY <1>4 DEF GetNothing, GetWaits, WaitExpires, CheckStopping, heap
  <2>q. QED  BY <2>1, <2>2 DEF Room, Queued, Size
<1>5. ASSUME NEW t \in Threads, worker[t] = "sending", attempts' = [attempts EXCEPT ![message[t]] = @ + 1],
             \E w \in {"get", "exited"} : worker' = [worker EXCEPT ![t] = w],
             order' = order \/ order' = Append(order, message[t])
      PROVE  Room'
  <2>1. message[t] \in Messages /\ message[t] \notin Queued
    BY <1>5, MailInHand
  <2>2. Cardinality(InFlight') = Cardinality(InFlight) - 1 /\ Born' = Born
    BY <1>5, OneLess
  <2>3. Size' \in {Size, Size + 1} /\ Queued' \subseteq Queued \cup {message[t]}
    <3>1. CASE order' = order
      BY <3>1 DEF Size, Queued
    <3>2. CASE order' = Append(order, message[t])
      BY <2>1, <3>2, MailPushed
    <3>q. QED  BY <1>5, <3>1, <3>2
  <2>4. attempts'[message[t]] # 0 /\ \A m \in Messages : m # message[t] => attempts'[m] = attempts[m]
    BY <1>0, <1>5, <2>1
  <2>5. Untried' \subseteq Untried
    BY <1>0, <2>1, <2>3, <2>4 DEF Untried
  <2>q. QED  BY <1>0, <1>s, <1>u, <1>r, <1>f, <2>2, <2>3, <2>5
<1>6. ASSUME NEW t \in Threads, Delivers(t) \/ Stumbles(t) \/ Fails(t, TRUE) \/ Fails(t, FALSE)  PROVE Room'
  <2>1. CASE Delivers(t) \/ Stumbles(t)
    BY <1>5, <2>1 DEF Delivers, Stumbles, heap
  <2>2. CASE Fails(t, TRUE) \/ Fails(t, FALSE)
    BY <1>5, <2>2 DEF Fails, Push
  <2>q. QED  BY <1>6, <2>1, <2>2
<1>7. CASE \/ \E p \in Producers, m \in Messages : EnqueueInvalid(p, m) \/ EnqueueChecks(p, m)
           \/ \E p \in Producers : EnqueueRefused(p)
           \/ \E m \in Messages : ComesDue(m)
           \/ ShutdownTakesThreads \/ ShutdownSetsStopping \/ ShutdownCloses \/ ShutdownReturns \/ UNCHANGED vars
  <2>1. order' = order /\ attempts' = attempts /\ worker' = worker
    BY <1>7
    DEF EnqueueInvalid, EnqueueChecks, EnqueueRefused, ComesDue, ShutdownTakesThreads, ShutdownSetsStopping,
        ShutdownCloses, ShutdownReturns, vars, heap, threads
  <2>q. QED  BY <1>e, <2>1
<1>q. QED
  BY <1>1, <1>2, <1>3, <1>4, <1>6, <1>7 DEF Next, EnqueueStep, WorkerStep, ShutdownStep

-----------------------------------------------------------------------------
\* The queue starts empty, with no worker and no mail accepted.
LEMMA MailInit == Init => MailInv
<1> SUFFICES ASSUME Init PROVE MailInv
  OBVIOUS
<1> USE DEF Init
<1>1. order = <<>> /\ order \in Seq(Messages) /\ Size = 0 /\ Queued = {} /\ DOMAIN order = {}
  BY EmptySeq, LenProperties DEF Size, Queued, ToSet
<1>2. InFlight = {} /\ Born = {} /\ Lost = {}
  BY DEF InFlight, Born, Lost
<1>3. TypeOK
  BY <1>1 DEF TypeOK
<1>4. OnePlace
  BY <1>1, EmailAssumption DEF OnePlace, Held
<1>5. Offers
  BY DEF Offers
<1>6. Sums
  BY <1>1, <1>2, FS_EmptySet DEF Sums
<1>7. Room
  <2>1. {m \in Queued : attempts[m] = 0} = {}
    BY <1>1
  <2>2. Cardinality({}) = 0 /\ maxsize \in Nat
    BY FS_EmptySet, EmailAssumption
  <2>q. QED  BY <1>1, <1>2, <2>1, <2>2 DEF Room
<1>q. QED  BY <1>3, <1>4, <1>5, <1>6, <1>7 DEF MailInv

\* Every reachable state of the e-mail queue satisfies its inductive invariant.
THEOREM MailInvariance == Spec => []MailInv
<1>1. MailInv /\ [Next]_vars => MailInv'
  BY MailTypesKeep, OnePlaceKeep, OffersKeep, SumsKeep, RoomKeep DEF MailInv
<1>q. QED  BY <1>1, MailInit, PTL DEF Spec

\* Every accepted mail is in one place, the counters add up, and retries do not swell the
\* queue by more than the workers had in hand.
THEOREM MailsAccounted == Spec => []MailAccounted
<1>1. ASSUME MailInv  PROVE MailAccounted
  <2>0. TypeOK /\ OnePlace /\ Sums /\ Room
    BY <1>1 DEF MailInv
  <2>1. ASSUME NEW m \in Messages
        PROVE  Cardinality({i \in DOMAIN order : order[i] = m}) + Cardinality({t \in Threads : message[t] = m})
                 = IF outcome[m] = "queued" THEN 1 ELSE 0
    <3> DEFINE At == {i \in DOMAIN order : order[i] = m}
               By == {t \in Threads : message[t] = m}
    <3>1. m # NoMessage /\ Cardinality({}) = 0 /\ \A x : Cardinality({x}) = 1
      BY EmailAssumption, FS_EmptySet, FS_Singleton
    <3>2. Cardinality(At) = IF m \in Queued THEN 1 ELSE 0
      <4>1. CASE m \in Queued
        <5>1. PICK i \in DOMAIN order : order[i] = m
          BY <4>1 DEF Queued, ToSet
        <5>2. At = {i}
          BY <2>0, <5>1 DEF OnePlace
        <5>q. QED  BY <3>1, <4>1, <5>2
      <4>2. CASE m \notin Queued
        <5>1. At = {}
          BY <4>2 DEF Queued, ToSet
        <5>q. QED  BY <3>1, <4>2, <5>1
      <4>q. QED  BY <4>1, <4>2
    <3>3. Cardinality(By) = IF Held(m) THEN 1 ELSE 0
      <4>1. CASE Held(m)
        <5>1. PICK t \in Threads : message[t] = m
          BY <4>1 DEF Held
        <5>2. By = {t}
          BY <2>0, <3>1, <5>1 DEF OnePlace
        <5>q. QED  BY <3>1, <4>1, <5>2
      <4>2. CASE ~Held(m)
        <5>1. By = {}
          BY <4>2 DEF Held
        <5>q. QED  BY <3>1, <4>2, <5>1
      <4>q. QED  BY <4>1, <4>2
    <3>4. (outcome[m] = "queued" <=> m \in Queued \/ Held(m)) /\ ~(m \in Queued /\ Held(m))
      BY <2>0 DEF OnePlace
    <3> HIDE DEF At, By
    <3>5. Cardinality(At) + Cardinality(By) = IF outcome[m] = "queued" THEN 1 ELSE 0
      BY <3>2, <3>3, <3>4
    <3>q. QED  BY <3>5 DEF At, By
  <2>q. QED  BY <2>0, <2>1 DEF MailAccounted, Sums, Room, Lost
<1>q. QED  BY <1>1, MailInvariance, PTL

----------------------------------------------------------------------------
(* The view of a vehicle. *)

\* What holds of the frames and the store: each holds what was reported, or nothing, or
\* what the charge log wrote; the units agree, and distances and temperatures convert.
ViewInv ==
  /\ frame \in [Readings -> Int] /\ metrics \in [Readings -> Int] /\ reports \subseteq Readings
  /\ age \in Nat /\ units \in {K, M} /\ logging \in BOOLEAN /\ imperial \in BOOLEAN
  /\ v2Online \in BOOLEAN /\ v3Online \in BOOLEAN
  /\ \A r \in Readings \ {"units"} : frame[r] \in Sent(r) \union {Missing}
  /\ frame["units"] \in {Missing, units} /\ metrics["units"] \in {Missing, K}
  /\ \A r \in Readings : metrics[r] \in {Missing, Null} \/ IsNum(metrics[r])
  /\ \A r \in Temperatures : IsNum(metrics[r]) => metrics[r] % 5 = 0
  /\ \A r \in Distances : IsNum(metrics[r]) => metrics[r] >= 0 /\ metrics[r] % 8 = 0
  /\ \A r \in {"lineV", "lineA"} : metrics[r] \in Published(r) \union {Missing}

\* CHOOSE finds the least element.
LEMMA LeastIs ==
  ASSUME NEW I \in SUBSET Int, NEW n \in I, \A j \in I : n <= j
  PROVE  (CHOOSE i \in I : \A j \in I : i <= j) = n
<1> DEFINE least == CHOOSE i \in I : \A j \in I : i <= j
<1>1. least \in I /\ \A j \in I : least <= j  OBVIOUS
<1> HIDE DEF least
<1>2. least = n  BY <1>1
<1> QED  BY <1>2 DEF least

\* first() of two and of three values.
LEMMA First2 ==
  ASSUME NEW a, NEW b
  PROVE  first(<< a, b >>) = IF IsNum(a) THEN a ELSE num(b)
<1> DEFINE s == << a, b >>
           I == { i \in DOMAIN s : IsNum(s[i]) }
<1>1. s[1] = a /\ s[2] = b /\ DOMAIN s = 1..2  OBVIOUS
<1>2. first(s) = IF I = {} THEN Missing ELSE s[CHOOSE i \in I : \A j \in I : i <= j]  BY DEF first
<1>3. (1 \in I <=> IsNum(a)) /\ (2 \in I <=> IsNum(b))  BY <1>1
<1>4. I \subseteq {1, 2}  BY <1>1
<1> HIDE DEF s, I
<1>5. CASE 1 \in I
  <2>1. (CHOOSE i \in I : \A j \in I : i <= j) = 1  BY LeastIs, <1>4, <1>5
  <2>2. first(s) = a  BY <2>1, <1>1, <1>2, <1>5
  <2> QED  BY <2>2, <1>3, <1>5 DEF s, num
<1>6. CASE 1 \notin I /\ 2 \in I
  <2>1. (CHOOSE i \in I : \A j \in I : i <= j) = 2  BY LeastIs, <1>4, <1>6
  <2>2. first(s) = b  BY <2>1, <1>1, <1>2, <1>6
  <2> QED  BY <2>2, <1>3, <1>6 DEF s, num
<1>7. CASE 1 \notin I /\ 2 \notin I
  <2>1. I = {}  BY <1>4, <1>7
  <2>2. first(s) = Missing  BY <2>1, <1>1, <1>2, <1>7
  <2> QED  BY <2>2, <1>3, <1>7 DEF s, num
<1> QED  BY <1>5, <1>6, <1>7

LEMMA First3 ==
  ASSUME NEW a, NEW b, NEW c
  PROVE  first(<< a, b, c >>) = IF IsNum(a) THEN a ELSE IF IsNum(b) THEN b ELSE num(c)
<1> DEFINE s == << a, b, c >>
           I == { i \in DOMAIN s : IsNum(s[i]) }
<1>1. s[1] = a /\ s[2] = b /\ s[3] = c /\ DOMAIN s = 1..3  OBVIOUS
<1>2. first(s) = IF I = {} THEN Missing ELSE s[CHOOSE i \in I : \A j \in I : i <= j]  BY DEF first
<1>3. (1 \in I <=> IsNum(a)) /\ (2 \in I <=> IsNum(b)) /\ (3 \in I <=> IsNum(c))  BY <1>1
<1>4. I \subseteq {1, 2, 3}  BY <1>1
<1> HIDE DEF s, I
<1>5. CASE 1 \in I
  <2>1. (CHOOSE i \in I : \A j \in I : i <= j) = 1  BY LeastIs, <1>4, <1>5
  <2>2. first(s) = a  BY <2>1, <1>1, <1>2, <1>5
  <2> QED  BY <2>2, <1>3, <1>5 DEF s, num
<1>6. CASE 1 \notin I /\ 2 \in I
  <2>1. (CHOOSE i \in I : \A j \in I : i <= j) = 2  BY LeastIs, <1>4, <1>6
  <2>2. first(s) = b  BY <2>1, <1>1, <1>2, <1>6
  <2> QED  BY <2>2, <1>3, <1>6 DEF s, num
<1>7. CASE 1 \notin I /\ 2 \notin I /\ 3 \in I
  <2>1. (CHOOSE i \in I : \A j \in I : i <= j) = 3  BY LeastIs, <1>4, <1>7
  <2>2. first(s) = c  BY <2>1, <1>1, <1>2, <1>7
  <2> QED  BY <2>2, <1>3, <1>7 DEF s, num
<1>8. CASE 1 \notin I /\ 2 \notin I /\ 3 \notin I
  <2>1. I = {}  BY <1>4, <1>8
  <2>2. first(s) = Missing  BY <2>1, <1>1, <1>2, <1>8
  <2> QED  BY <2>2, <1>3, <1>8 DEF s, num
<1> QED  BY <1>5, <1>6, <1>7, <1>8

\* Distances and temperatures say in km and Celsius what they were.
LEMMA Miles == ASSUME NEW km \in Int, km % 8 = 0  PROVE ((((km * 5) \div 8) * 8) \div 5) = km
OBVIOUS
LEMMA Fahrenheit == ASSUME NEW v \in Int, v % 5 = 0  PROVE (((((v * 9) \div 5 + 32) - 32) * 5) \div 9) = v
OBVIOUS

(* The fields of the payload and of the view that the property is about.  *)

payload == build_vehicle_live_payload
NumberOf(r) == Number(payload, r)
Charges == view.isCharging

\* What build_vehicle_live_payload() takes its fields from.
LEMMA PayloadMade ==
  /\ payload.isV2Online = v2Online /\ payload.isV3Online = v3Online /\ payload.units = MergedUnits
  /\ payload.v2 = frame /\ payload.v3 = metrics /\ payload.age = age
  /\ \A r \in Merged : payload.merged[r] = MergedValue(r)
BY DEF payload, build_vehicle_live_payload

\* derive()'s condition for showing the tile of r.
ShowTile(r) ==
  /\ IsNum(NumberOf(r))
  /\ r \in {"energy", "v12", "soh", "odometer", "trip", "packV", "lineV"} => NumberOf(r) > 0
  /\ r \in {"motorTemp", "cabinTemp"} => NumberOf(r) # 0
  /\ r = "packA" => IsNum(NumberOf("packV")) /\ NumberOf("packV") > 0
  /\ r \in {"lineV", "lineA"} => Charges

\* What the tile of r shows.
LEMMA TileText ==
  ASSUME NEW r \in Tiles
  PROVE  view.tiles[r] = IF ~ShowTile(r) THEN NoText
                         ELSE IF r \in Distances THEN distance(NumberOf(r))
                         ELSE IF r \in Temperatures THEN temperature(NumberOf(r)) ELSE Text(NumberOf(r), "")
BY DEF view, derive, ShowTile, Charges, NumberOf, payload, Tiles

\* The fields that are not tiles.
LEMMA ViewFields ==
  /\ view.online = (v2Online \/ v3Online)
  /\ view.soc = num(MergedValue("soc"))
  /\ view.seen = relative(age)
  /\ view.sweep = (Charges /\ view.online)
  /\ ~view.online => view.colour = "grey"
  /\ Charges => view.stateLine = Missing
BY PayloadMade DEF view, derive, Charges, payload, Merged, Status

\* The two coordinates derive() finds.
Lat == first(<< MergedValue("lat"), metrics["lat"] >>)
Lon == first(<< MergedValue("lon"), metrics["lon"] >>)

\* The position is shown only with both.
LEMMA ViewPosition == view.position # << >> => IsNum(Lat) /\ IsNum(Lon) /\ view.position = << Lat, Lon >>
BY PayloadMade DEF view, derive, payload, Merged, Status, Lat, Lon

\* What derive() finds of a charge's limit and its two times.
Limit == first(<< metrics["limit"], frame["limit"] >>)
ToLimit == first(<< metrics["toLimit"], frame["toLimit"] >>)
ToFull == first(<< metrics["toFull"], frame["toFull"], frame["duration"] >>)

\* The estimate is the one to the limit, else the one to full.
LEMMA ViewEta ==
  view.eta = IF Limit > 0 /\ Limit < 100 /\ minutes(ToLimit) # << >> THEN << Limit >> \o minutes(ToLimit)
             ELSE IF minutes(ToFull) # << >> THEN << 100 >> \o minutes(ToFull) ELSE << >>
BY PayloadMade DEF view, derive, payload, Limit, ToLimit, ToFull

----------------------------------------------------------------------------
\* Nothing is reported yet.
LEMMA ViewInvInit == ViewInit => ViewInv
<1> SUFFICES ASSUME ViewInit PROVE ViewInv  OBVIOUS
<1>1. Missing \in Int /\ ~IsNum(Missing)  BY DEF Missing, IsNum, Hidden
<1>2. "units" \in Readings /\ Temperatures \subseteq Readings /\ Distances \subseteq Readings
      /\ {"lineV", "lineA"} \subseteq Readings
  BY DEF Readings, Part, Temperatures, Distances
<1>3. frame = [r \in Readings |-> Missing] /\ metrics = [r \in Readings |-> Missing]  BY DEF ViewInit
<1>4. age \in Nat /\ units \in {K, M} /\ logging \in BOOLEAN /\ imperial \in BOOLEAN
      /\ v2Online \in BOOLEAN /\ v3Online \in BOOLEAN /\ reports \subseteq Readings
  BY ViewAssumption DEF ViewInit
<1> QED  BY <1>1, <1>2, <1>3, <1>4 DEF ViewInv

\* A frame keeps ViewInv, with what it writes to the store.
LEMMA FrameArrives ==
  ASSUME ViewInv, NEW part \in DOMAIN Part, ReceiveFrame(part)
  PROVE  ViewInv'
<1>1. Missing \in Int /\ ~IsNum(Missing)  BY DEF Missing, IsNum, Hidden
<1>2. "units" \in Readings /\ Temperatures \subseteq Readings /\ Distances \subseteq Readings
      /\ {"lineV", "lineA"} \subseteq Readings
  BY DEF Readings, Part, Temperatures, Distances
<1>3. PICK g \in [(reports \intersect Part[part]) \ {"units"} -> UNION { Sent(r) : r \in reports }] :
        LET f == [r \in Readings |-> IF r \in DOMAIN g THEN g[r] ELSE IF r = "units" THEN units ELSE Missing]
            written == { r \in Readings : logging /\ IsNum(Logged(part, f, r)) }
        IN  /\ \A r \in DOMAIN g : g[r] \in Sent(r)
            /\ frame' = [r \in Readings |-> IF r \in Part[part] THEN f[r] ELSE frame[r]]
            /\ metrics' = [r \in Readings |-> IF r \in written THEN Logged(part, f, r) ELSE metrics[r]]
  BY DEF ReceiveFrame
<1> DEFINE f == [r \in Readings |-> IF r \in DOMAIN g THEN g[r] ELSE IF r = "units" THEN units ELSE Missing]
           W(r) == logging /\ IsNum(Logged(part, f, r))
<1>4. age' = 0 /\ UNCHANGED << reports, v2Online, v3Online, units, logging, imperial >>  BY DEF ReceiveFrame
<1>5. \A r \in Readings \ {"units"} : f[r] \in Sent(r) \union {Missing}  BY <1>3
<1>6. f["units"] = units  BY <1>2, <1>3
<1>7. \A r \in Readings : frame'[r] = IF r \in Part[part] THEN f[r] ELSE frame[r]  BY <1>3
<1>8. \A r \in Readings : metrics'[r] = IF W(r) THEN Logged(part, f, r) ELSE metrics[r]  BY <1>3
<1>9. \A r \in Readings : f[r] \in Int
  BY <1>1, <1>5, <1>6, ViewAssumption DEF ViewInv, K, M
<1>10. DOMAIN frame' = Readings /\ DOMAIN metrics' = Readings
       /\ frame' = [r \in Readings |-> frame'[r]] /\ metrics' = [r \in Readings |-> metrics'[r]]  BY <1>3
<1> HIDE DEF f, W
<1>11. ASSUME NEW r \in Readings, W(r)
       PROVE  /\ Logged(part, f, r) \in Int /\ IsNum(Logged(part, f, r))
              /\ r \notin {"units", "lineV", "lineA"}
              /\ r \in Temperatures => Logged(part, f, r) = f[r]
              /\ r \in Distances => r = "odometer" /\ IsNum(f[r]) /\ Logged(part, f, r) = f[r] \div 10
  <2>1. IsNum(Logged(part, f, r))  BY <1>11 DEF W
  <2>2. {"soc", "powerOut", "energyUsed", "odometer"} \subseteq Readings  BY DEF Readings, Part
  <2> QED  BY <2>1, <2>2, <1>1, <1>9 DEF Logged, Temperatures, Distances
<1>12. \A r \in Temperatures : IsNum(f[r]) => f[r] % 5 = 0
  BY <1>1, <1>2, <1>5, ViewAssumption DEF Temperatures
<1>13. IsNum(f["odometer"]) => f["odometer"] >= 0 /\ f["odometer"] % 400 = 0
  <2>1. "odometer" \in Distances /\ "odometer" \in Readings \ {"units"}  BY DEF Distances, Readings, Part
  <2> QED  BY <2>1, <1>1, <1>5, ViewAssumption
<1>14. frame' \in [Readings -> Int]
  BY <1>7, <1>9, <1>10 DEF ViewInv
<1>15. metrics' \in [Readings -> Int]
  BY <1>8, <1>10, <1>11 DEF ViewInv
<1>16. \A r \in Readings \ {"units"} : frame'[r] \in Sent(r) \union {Missing}
  BY <1>5, <1>7 DEF ViewInv
<1>17. frame'["units"] \in {Missing, units} /\ metrics'["units"] \in {Missing, K}
  BY <1>2, <1>6, <1>7, <1>8, <1>11 DEF ViewInv
<1>18. \A r \in Readings : metrics'[r] \in {Missing, Null} \/ IsNum(metrics'[r])
  BY <1>8, <1>11 DEF ViewInv
<1>19. \A r \in Temperatures : IsNum(metrics'[r]) => metrics'[r] % 5 = 0
  BY <1>2, <1>8, <1>11, <1>12 DEF ViewInv
<1>20. \A r \in Distances : IsNum(metrics'[r]) => metrics'[r] >= 0 /\ metrics'[r] % 8 = 0
  <2> SUFFICES ASSUME NEW r \in Distances, IsNum(metrics'[r])
               PROVE  metrics'[r] >= 0 /\ metrics'[r] % 8 = 0
    OBVIOUS
  <2>1. CASE W(r)
    <3>1. r = "odometer" /\ IsNum(f[r]) /\ metrics'[r] = f[r] \div 10  BY <2>1, <1>2, <1>8, <1>11
    <3>2. f[r] \in Int /\ f[r] >= 0 /\ f[r] % 400 = 0  BY <3>1, <1>2, <1>9, <1>13
    <3> QED  BY <3>1, <3>2
  <2>2. CASE ~W(r)
    BY <2>2, <1>2, <1>8 DEF ViewInv
  <2> QED  BY <2>1, <2>2
<1>21. \A r \in {"lineV", "lineA"} : metrics'[r] \in Published(r) \union {Missing}
  BY <1>2, <1>8, <1>11 DEF ViewInv
<1>22. age' \in Nat /\ units' \in {K, M} /\ logging' \in BOOLEAN /\ imperial' \in BOOLEAN
       /\ v2Online' \in BOOLEAN /\ v3Online' \in BOOLEAN /\ reports' \subseteq Readings /\ units' = units
  BY <1>4 DEF ViewInv
<1> QED  BY <1>14, <1>15, <1>16, <1>17, <1>18, <1>19, <1>20, <1>21, <1>22 DEF ViewInv

\* So does a metric,
LEMMA MetricArrives ==
  ASSUME ViewInv, NEW r0 \in reports, Publish(r0)
  PROVE  ViewInv'
<1>1. PICK v \in Published(r0) : 
        /\ metrics' = [metrics EXCEPT ![r0] = v]
        /\ (v3Online' = TRUE /\ age' = 0) \/ UNCHANGED << v3Online, age >>
        /\ UNCHANGED << reports, frame, v2Online, units, logging, imperial >>
  BY DEF Publish
<1>2. r0 \in Readings  BY DEF ViewInv
<1>3. v \in Int /\ (v = Null \/ IsNum(v))  BY <1>2, ViewAssumption
<1>4. \A r \in Readings : metrics'[r] = IF r = r0 THEN v ELSE metrics[r]  BY <1>1 DEF ViewInv
<1>5. "units" \in Readings /\ Temperatures \subseteq Readings /\ Distances \subseteq Readings
      /\ {"lineV", "lineA"} \subseteq Readings
  BY DEF Readings, Part, Temperatures, Distances
<1>6. frame' = frame /\ age' \in Nat /\ units' = units /\ logging' = logging /\ imperial' = imperial
      /\ v2Online' = v2Online /\ v3Online' \in BOOLEAN /\ reports' = reports
  <2>1. v3Online' = TRUE \/ v3Online' = v3Online  BY <1>1
  <2>2. age' = 0 \/ age' = age  BY <1>1
  <2>3. v3Online \in BOOLEAN /\ age \in Nat  BY DEF ViewInv
  <2>4. v3Online' \in BOOLEAN  BY <2>1, <2>3, Zenon
  <2>5. age' \in Nat  BY <2>2, <2>3
  <2> QED  BY <2>4, <2>5, <1>1
<1>7. metrics' \in [Readings -> Int]  BY <1>1, <1>3 DEF ViewInv
<1>8. \A r \in Readings : metrics'[r] \in {Missing, Null} \/ IsNum(metrics'[r])  BY <1>3, <1>4 DEF ViewInv
<1>9. \A r \in Temperatures : IsNum(metrics'[r]) => metrics'[r] % 5 = 0
  BY <1>4, <1>5, ViewAssumption DEF ViewInv
<1>10. \A r \in Distances : IsNum(metrics'[r]) => metrics'[r] >= 0 /\ metrics'[r] % 8 = 0
  BY <1>4, <1>5, ViewAssumption DEF ViewInv
<1>11. metrics'["units"] \in {Missing, K}  BY <1>4, <1>5, ViewAssumption DEF ViewInv
<1>12. \A r \in {"lineV", "lineA"} : metrics'[r] \in Published(r) \union {Missing}  BY <1>4, <1>5 DEF ViewInv
<1> QED  BY <1>6, <1>7, <1>8, <1>9, <1>10, <1>11, <1>12 DEF ViewInv

\* and the housekeeping.
LEMMA MetricsEvicted ==
  ASSUME ViewInv, evict_stale_metrics
  PROVE  ViewInv'
<1>1. Missing \in Int /\ ~IsNum(Missing)  BY DEF Missing, IsNum, Hidden
<1>2. "units" \in Readings /\ Temperatures \subseteq Readings /\ Distances \subseteq Readings
      /\ {"lineV", "lineA"} \subseteq Readings
  BY DEF Readings, Part, Temperatures, Distances
<1>3. metrics' = [r \in Readings |-> IF r \in stale THEN Missing ELSE metrics[r]]  BY DEF evict_stale_metrics
<1>4. \A r \in Readings : metrics'[r] = IF r \in stale THEN Missing ELSE metrics[r]  BY <1>3
<1>5. metrics' \in [Readings -> Int]  BY <1>1, <1>3 DEF ViewInv
<1>6. UNCHANGED << reports, frame, v2Online, v3Online, units, logging, imperial, age >>  BY DEF evict_stale_metrics
<1> QED  BY <1>1, <1>2, <1>4, <1>5, <1>6 DEF ViewInv

\* Every step keeps ViewInv.
LEMMA ViewInvNext == ViewInv /\ [ViewNext]_viewVars => ViewInv'
<1> SUFFICES ASSUME ViewInv, [ViewNext]_viewVars PROVE ViewInv'  OBVIOUS
<1>1. CASE \E part \in DOMAIN Part : ReceiveFrame(part)  BY <1>1, FrameArrives
<1>2. CASE \E r \in reports : Publish(r)  BY <1>2, MetricArrives
<1>3. CASE \E r \in reports : GrowStale(r)  BY <1>3 DEF GrowStale, ViewInv
<1>4. CASE evict_stale_metrics  BY <1>4, MetricsEvicted
<1>5. CASE OnlineChanges
  <2>1. UNCHANGED << reports, frame, metrics, units, logging, imperial >>  BY <1>5 DEF OnlineChanges
  <2>2. v2Online' = v2Online \/ v2Online' = ~v2Online  BY <1>5 DEF OnlineChanges
  <2>3. v3Online' = v3Online \/ v3Online' = FALSE  BY <1>5 DEF OnlineChanges
  <2>4. age' = age \/ age' \in Ages  BY <1>5 DEF OnlineChanges
  <2>5. v2Online' \in BOOLEAN  BY <2>2, Zenon DEF ViewInv
  <2>6. v3Online' \in BOOLEAN  BY <2>3, Zenon DEF ViewInv
  <2>7. age' \in Nat  BY <2>4, ViewAssumption DEF ViewInv
  <2> QED  BY <2>1, <2>5, <2>6, <2>7 DEF ViewInv
<1>6. CASE UNCHANGED viewVars  BY <1>6 DEF viewVars, ViewInv
<1> QED  BY <1>1, <1>2, <1>3, <1>4, <1>5, <1>6 DEF ViewNext

\* ViewInv holds in every state of every vehicle: the type invariant of the view's state,
\* and the facts of the stored frames and metrics that derive() depends on.
THEOREM ViewInvariance == ViewSpec => []ViewInv
<1> QED  BY ViewInvInit, ViewInvNext, PTL DEF ViewSpec

----------------------------------------------------------------------------
\* What is known of a reading, by the protocols that know it.

\* The sentinels are different and no numbers.
LEMMA Sentinels == ~IsNum(Missing) /\ ~IsNum(Null) /\ ~IsNum(Hidden) /\ Missing # Null
                 /\ Missing \in Int /\ Null \in Int /\ Hidden \in Int
BY DEF IsNum, Missing, Null, Hidden

\* What the two places may hold of a reading.
LEMMA ReadingTyped ==
  ASSUME ViewInv, NEW r \in Readings
  PROVE  /\ metrics[r] \in Int /\ frame[r] \in Int
         /\ metrics[r] = Missing \/ metrics[r] = Null \/ IsNum(metrics[r])
BY DEF ViewInv

\* A reading of neither the merged fields nor the distances.
LEMMA PlainReported ==
  ASSUME ViewInv, NEW r \in Readings \ (Merged \union Distances)
  PROVE  first(<< metrics[r], frame[r] >>) = num(Reported(r))
<1>1. metrics[r] \in Int /\ frame[r] \in Int  BY ReadingTyped
<1> QED  BY <1>1, First2, Sentinels DEF Reported, FromV2, num

\* A merged field is what was reported, in every way derive() reads it.
LEMMA MergedReported ==
  ASSUME ViewInv, NEW r \in Merged \ (Distances \union {"soh"})
  PROVE  /\ num(MergedValue(r)) = num(Reported(r))
         /\ IsNum(MergedValue(r)) <=> Known(r)
         /\ IsNum(MergedValue(r)) => MergedValue(r) = Reported(r)
         /\ first(<< metrics[r], MergedValue(r) >>) = num(Reported(r))
         /\ first(<< MergedValue(r), metrics[r] >>) = num(Reported(r))
<1>1. r \in Readings  BY DEF Merged, Status, Readings, Part
<1>2. metrics[r] = Missing \/ metrics[r] = Null \/ IsNum(metrics[r])  BY <1>1, ReadingTyped
<1> QED  BY <1>2, First2, Sentinels DEF MergedValue, Reported, Known, FromV2, num

\* The power of a charger is a number.
LEMMA Charger ==
  ASSUME ViewInv, IsNum(MergedValue("lineV")), IsNum(MergedValue("lineA"))
  PROVE  IsNum((MergedValue("lineV") * MergedValue("lineA")) \div 1000)
<1>1. {"lineV", "lineA"} \subseteq Readings \ {"units"}  BY DEF Readings, Part
<1>2. \A r \in {"lineV", "lineA"} : IsNum(MergedValue(r)) => MergedValue(r) \in Published(r) \union Sent(r)
  BY <1>1, Sentinels DEF MergedValue, ViewInv
<1> QED  BY <1>2, ViewAssumption

\* The number of the power tile, of a reading or of the charger.
LEMMA NumberPower ==
  ASSUME ViewInv
  PROVE  IsNum(NumberOf("power")) <=> Known("power") \/ (Known("lineV") /\ Known("lineA"))
<1> DEFINE product == IF IsNum(MergedValue("lineV")) /\ IsNum(MergedValue("lineA"))
                      THEN (MergedValue("lineV") * MergedValue("lineA")) \div 1000 ELSE Missing
<1>1. {"lineV", "lineA"} \subseteq Merged \ (Distances \union {"soh"}) /\ "power" \in Readings \ (Merged \union Distances)
  BY DEF Merged, Status, Distances, Readings, Part
<1>2. payload.merged["lineV"] = MergedValue("lineV") /\ payload.merged["lineA"] = MergedValue("lineA")  BY <1>1, PayloadMade
<1>3. NumberOf("power") = first(<< metrics["power"], frame["power"], product >>)
  BY <1>2, PayloadMade DEF NumberOf, Number
<1>4. IsNum(product) <=> Known("lineV") /\ Known("lineA")
  BY <1>1, MergedReported, Charger, Sentinels
<1> HIDE DEF product
<1>5. num(Reported("power")) = IF IsNum(metrics["power"]) THEN metrics["power"] ELSE num(frame["power"])
  BY <1>1, PlainReported, First2
<1>6. Known("power") <=> IsNum(metrics["power"]) \/ IsNum(frame["power"])
  BY <1>5, Sentinels DEF num, Known
<1> QED  BY <1>3, <1>4, <1>6, First3, Sentinels DEF num

\* The number of a tile that shows no distance.
LEMMA NumberPlain ==
  ASSUME ViewInv, NEW r \in Tiles \ (Distances \union {"power"})
  PROVE  NumberOf(r) = num(Reported(r))
<1>1. r \in Readings  BY DEF Tiles, Readings, Part
<1>2. CASE r = "v12"
  <2>1. r \in Merged \ (Distances \union {"soh"})  BY <1>2 DEF Merged, Distances
  <2>2. NumberOf(r) = num(MergedValue(r))  BY <1>2, <2>1, PayloadMade DEF NumberOf, Number
  <2> QED  BY <2>1, <2>2, MergedReported
<1>3. CASE r = "soh"
  <2>1. r \in Merged  BY <1>3 DEF Merged, Status
  <2>2. NumberOf(r) = first(<< MergedValue(r), metrics[r], frame[r] >>)  BY <1>3, <2>1, PayloadMade DEF NumberOf, Number
  <2>3. metrics[r] = Missing \/ metrics[r] = Null \/ IsNum(metrics[r])  BY <1>1, ReadingTyped
  <2> QED  BY <2>2, <2>3, <1>3, First3, Sentinels DEF MergedValue, Reported, FromV2, Distances, num
<1>4. CASE r \in {"packV", "packA", "lineV", "lineA"}
  <2>1. r \in Merged \ (Distances \union {"soh"})  BY <1>4 DEF Merged, Status, Distances
  <2>2. NumberOf(r) = first(<< metrics[r], MergedValue(r) >>)  BY <1>4, <2>1, PayloadMade DEF NumberOf, Number
  <2> QED  BY <2>1, <2>2, MergedReported
<1>5. CASE r \notin {"v12", "soh", "packV", "packA", "lineV", "lineA"}
  <2>1. r \in Readings \ (Merged \union Distances)
    BY <1>1, <1>5 DEF Merged, Status, Distances, Tiles
  <2>2. NumberOf(r) = first(<< metrics[r], frame[r] >>)  BY <1>5, PayloadMade DEF NumberOf, Number, Distances
  <2> QED  BY <2>1, <2>2, PlainReported
<1> QED  BY <1>2, <1>3, <1>4, <1>5

\* The number of a distance, in km whatever the vehicle counts in.
LEMMA NumberDistance ==
  ASSUME ViewInv, NEW r \in Distances, UnitsClear
  PROVE  /\ NumberOf(r) = num(Reported(r))
         /\ IsNum(NumberOf(r)) => NumberOf(r) \in Int /\ NumberOf(r) >= 0 /\ NumberOf(r) % 8 = 0
<1>1. r \in Readings \ {"units"} /\ r \in Tiles /\ "range" \in Merged
  BY DEF Distances, Readings, Part, Tiles, Merged, Status
<1>2. metrics[r] = Missing \/ metrics[r] = Null \/ IsNum(metrics[r])  BY <1>1, ReadingTyped
<1>3. IsNum(metrics[r]) => metrics[r] \in Int /\ metrics[r] >= 0 /\ metrics[r] % 8 = 0
  BY <1>1, ReadingTyped DEF ViewInv
<1>4. IsNum(frame[r]) => /\ frame[r] \in Int /\ frame[r] >= 0
                         /\ frame[r] % (IF r = "range" THEN 40 ELSE 400) = 0
  <2>1. frame[r] \in Sent(r) \union {Missing}  BY <1>1 DEF ViewInv
  <2> QED  BY <2>1, <1>1, Sentinels, ViewAssumption
<1>5. payload.units = MergedUnits /\ MergedUnits \in {Missing, K, M}
      /\ (units = K => MergedUnits \in {Missing, K}) /\ (units = M => MergedUnits = M)
  BY PayloadMade DEF UnitsClear, ViewInv, MergedUnits, K, M
<1>6. IsNum(MergedUnits) /\ MergedUnits # K <=> units = M
  BY <1>5, Sentinels DEF ViewInv, IsNum, Hidden, K, M
<1> DEFINE d == IF r = "range" THEN frame[r] ELSE frame[r] \div 10
           km == IF units = M THEN (d * 8) \div 5 ELSE d
<1>7. IsNum(frame[r]) => d \in Int /\ d >= 0 /\ d % 40 = 0 /\ IsNum(d)
  BY <1>4 DEF IsNum, Hidden
<1>8. IsNum(frame[r]) => FromV2(r) = km  BY DEF FromV2
<1>9. ~IsNum(frame[r]) => FromV2(r) = frame[r]  BY DEF FromV2
<1> HIDE DEF d
<1>10. IsNum(frame[r]) => km \in Int /\ km >= 0 /\ km % 8 = 0 /\ IsNum(km) /\ toKm(d, payload.units) = km
  BY <1>5, <1>6, <1>7 DEF toKm, num, IsNum, Hidden
<1> HIDE DEF km
<1>11. CASE r = "range"
  <2>1. NumberOf(r) = toKm(MergedValue(r), payload.units)  BY <1>1, <1>11, PayloadMade DEF NumberOf, Number
  <2>2. CASE metrics[r] = Missing
    <3>1. MergedValue(r) = frame[r] /\ Reported(r) = FromV2(r)
      BY <2>2, Sentinels DEF MergedValue, Reported
    <3>2. CASE IsNum(frame[r])
      <4>1. d = frame[r]  BY <1>11 DEF d
      <4> QED  BY <2>1, <3>1, <3>2, <4>1, <1>8, <1>10 DEF num
    <3>3. CASE ~IsNum(frame[r])
      BY <2>1, <3>1, <3>3, <1>9, Sentinels DEF num, toKm
    <3> QED  BY <3>2, <3>3
  <2>3. CASE metrics[r] # Missing
    <3>1. MergedValue(r) = metrics[r] /\ Reported(r) = metrics[r]
      BY <2>3, <1>1, <1>2, <1>11 DEF MergedValue, Reported
    <3>2. metrics["units"] # Missing \/ \E s \in Status : metrics[s] # Missing
      BY <2>3, <1>11 DEF Status
    <3>3. MergedUnits = K  BY <3>2 DEF MergedUnits, ViewInv
    <3>4. toKm(metrics[r], payload.units) = num(metrics[r])  BY <3>3, <1>5 DEF toKm
    <3> QED  BY <2>1, <3>1, <3>4, <1>3, Sentinels DEF num
  <2> QED  BY <2>2, <2>3
<1>12. CASE r \in {"odometer", "trip"}
  <2>1. NumberOf(r) = IF IsNum(metrics[r]) THEN metrics[r]
               ELSE IF IsNum(frame[r]) THEN toKm(frame[r] \div 10, payload.units) ELSE Missing
    BY <1>12, PayloadMade DEF NumberOf, Number
  <2>2. Reported(r) = IF IsNum(metrics[r]) THEN metrics[r] ELSE FromV2(r)
    BY <1>12 DEF Reported, Merged, Status
  <2>3. d = frame[r] \div 10  BY <1>12 DEF d
  <2>4. CASE IsNum(metrics[r])  BY <2>1, <2>2, <2>4, <1>3 DEF num
  <2>5. CASE ~IsNum(metrics[r]) /\ IsNum(frame[r])  BY <2>1, <2>2, <2>3, <2>5, <1>8, <1>10 DEF num
  <2>6. CASE ~IsNum(metrics[r]) /\ ~IsNum(frame[r])  BY <2>1, <2>2, <2>6, <1>9, Sentinels DEF num
  <2> QED  BY <2>4, <2>5, <2>6
<1> QED  BY <1>11, <1>12 DEF Distances

\* Hours and minutes are those of the total.
LEMMA MinutesMade ==
  ASSUME NEW t \in Int, minutes(t) # << >>
  PROVE  /\ minutes(t) = << t \div 60, t % 60 >> /\ t = (t \div 60) * 60 + (t % 60) /\ IsNum(t)
<1>1. IsNum(t) /\ minutes(t) = << t \div 60, t % 60 >>  BY DEF minutes
<1>2. t = (t \div 60) * 60 + (t % 60)  OBVIOUS
<1> QED  BY <1>1, <1>2

\* The elements of a sequence put in front of two.
LEMMA Triple == ASSUME NEW x \in Int, NEW y \in Int, NEW z \in Int  
  PROVE  LET e == << x >> \o << y, z >> IN e[1] = x /\ e[2] = y /\ e[3] = z
OBVIOUS

\* The estimate that is shown was reported.
LEMMA EtaIsReported ==
  ASSUME ViewInv, view.eta # << >>
  PROVE  << view.eta[2] * 60 + view.eta[3] >> \in
           IF view.eta[1] < 100 THEN {<< Reported("toLimit") >>}
           ELSE {<< Reported("toFull") >>, << frame["duration"] >>}
<1>1. {"limit", "toLimit", "toFull"} \subseteq Readings \ (Merged \union Distances) /\ "duration" \in Readings
  BY DEF Merged, Status, Distances, Readings, Part
<1>2. ToLimit = num(Reported("toLimit"))  BY <1>1, PlainReported DEF ToLimit
<1>3. metrics["toLimit"] \in Int /\ frame["toLimit"] \in Int /\ metrics["toFull"] \in Int
      /\ frame["toFull"] \in Int /\ frame["duration"] \in Int /\ metrics["limit"] \in Int /\ frame["limit"] \in Int
  BY <1>1, ReadingTyped
<1>4. ToLimit \in Int /\ ToFull \in Int /\ Limit \in Int
  BY <1>3, First2, First3, Sentinels DEF ToLimit, ToFull, Limit, num
<1>5. CASE Limit > 0 /\ Limit < 100 /\ minutes(ToLimit) # << >>
  <2>1. view.eta[1] = Limit /\ view.eta[2] = ToLimit \div 60 /\ view.eta[3] = ToLimit % 60 /\ IsNum(ToLimit)
    BY <1>4, <1>5, ViewEta, MinutesMade, Triple
  <2>2. view.eta[2] * 60 + view.eta[3] = ToLimit  BY <2>1, <1>4, <1>5, MinutesMade
  <2>3. ToLimit = Reported("toLimit")  BY <2>1, <1>2, Sentinels DEF num
  <2>4. view.eta[1] < 100  BY <2>1, <1>5
  <2> QED  BY <2>2, <2>3, <2>4
<1>6. CASE ~(Limit > 0 /\ Limit < 100 /\ minutes(ToLimit) # << >>)
  <2>1. minutes(ToFull) # << >>  BY <1>6, ViewEta
  <2>2. view.eta[1] = 100 /\ view.eta[2] = ToFull \div 60 /\ view.eta[3] = ToFull % 60 /\ IsNum(ToFull)
    BY <2>1, <1>4, <1>6, ViewEta, MinutesMade, Triple
  <2>3. view.eta[2] * 60 + view.eta[3] = ToFull  BY <2>1, <2>2, <1>4, MinutesMade
  <2>4. num(Reported("toFull")) = IF IsNum(metrics["toFull"]) THEN metrics["toFull"] ELSE num(frame["toFull"])
    BY <1>1, PlainReported, First2
  <2>5. ToFull = Reported("toFull") \/ ToFull = frame["duration"]
    BY <2>2, <2>4, First3, Sentinels DEF ToFull, num
  <2>6. ~(view.eta[1] < 100)  BY <2>2
  <2> QED  BY <2>3, <2>5, <2>6
<1> QED  BY <1>5, <1>6

\* So was the position.
LEMMA PositionIsReported ==
  ASSUME ViewInv, view.position # << >>
  PROVE  view.position = << Reported("lat"), Reported("lon") >>
<1>1. {"lat", "lon"} \subseteq Merged \ (Distances \union {"soh"})  BY DEF Merged, Distances
<1>2. Lat = num(Reported("lat")) /\ Lon = num(Reported("lon"))  BY <1>1, MergedReported DEF Lat, Lon
<1> QED  BY <1>2, ViewPosition, Sentinels DEF num

\* The age a is the one shown, up to half a unit.
AgeShown(a) ==
  LET s == relative(a)
      unit == Seconds(s.unit)
  IN  a - s.n * unit \in -(unit \div 2)..(unit \div 2)

\* A number of units that is right to half a unit.
LEMMA Rounded ==
  ASSUME NEW a \in Int, NEW unit \in Int, unit > 0, NEW n \in Int,
         2 * (a - n * unit) <= unit, 2 * (a - n * unit) >= -unit
  PROVE  a - n * unit \in -(unit \div 2)..(unit \div 2)
<1> DEFINE d == a - n * unit
           half == unit \div 2
<1>1. d \in Int /\ 2 * d <= unit /\ 2 * d >= -unit  OBVIOUS
<1> HIDE DEF d
<1>2. half \in Int /\ d <= half /\ d >= -half  BY <1>1
<1> HIDE DEF half
<1>3. d \in (-half)..half  BY <1>1, <1>2
<1> QED  BY <1>3 DEF d, half

\* relative() rounds to the nearest unit.
LEMMA AgeIsShown ==
  ASSUME NEW a \in Nat
  PROVE  AgeShown(a)
<1>1. CASE a < 45
  <2>1. relative(a) = [n |-> 0, unit |-> "now"]  BY <1>1 DEF relative, Text
  <2>2. Seconds("now") = 90  BY DEF Seconds
  <2> QED  BY <1>1, <2>1, <2>2 DEF AgeShown
<1>2. CASE a >= 45 /\ a < 3600
  <2> DEFINE n == (a + 29) \div 60
             u == Seconds("minute")
  <2>1. relative(a) = [n |-> n, unit |-> "minute"]  BY <1>2 DEF relative, Text
  <2>2. u = 60  BY DEF Seconds
  <2>3. n \in Int /\ 2 * (a - n * 60) <= 60 /\ 2 * (a - n * 60) >= -60  OBVIOUS
  <2> HIDE DEF n, u
  <2>4. u \in Int /\ u > 0 /\ 2 * (a - n * u) <= u /\ 2 * (a - n * u) >= -u  BY <2>2, <2>3
  <2>5. a - n * u \in -(u \div 2)..(u \div 2)  BY <2>3, <2>4, Rounded
  <2> QED  BY <2>1, <2>5 DEF AgeShown, u
<1>3. CASE a >= 3600 /\ a < 86400
  <2> DEFINE n == (a + 1799) \div 3600
             u == Seconds("hour")
  <2>1. relative(a) = [n |-> n, unit |-> "hour"]  BY <1>3 DEF relative, Text
  <2>2. u = 3600  BY DEF Seconds
  <2>3. n \in Int /\ 2 * (a - n * 3600) <= 3600 /\ 2 * (a - n * 3600) >= -3600  OBVIOUS
  <2> HIDE DEF n, u
  <2>4. u \in Int /\ u > 0 /\ 2 * (a - n * u) <= u /\ 2 * (a - n * u) >= -u  BY <2>2, <2>3
  <2>5. a - n * u \in -(u \div 2)..(u \div 2)  BY <2>3, <2>4, Rounded
  <2> QED  BY <2>1, <2>5 DEF AgeShown, u
<1>4. CASE a >= 86400
  <2> DEFINE n == (a + 43199) \div 86400
             u == Seconds("day")
  <2>1. relative(a) = [n |-> n, unit |-> "day"]  BY <1>4 DEF relative, Text
  <2>2. u = 86400  BY DEF Seconds
  <2>3. n \in Int /\ 2 * (a - n * 86400) <= 86400 /\ 2 * (a - n * 86400) >= -86400  OBVIOUS
  <2> HIDE DEF n, u
  <2>4. u \in Int /\ u > 0 /\ 2 * (a - n * u) <= u /\ 2 * (a - n * u) >= -u  BY <2>2, <2>3
  <2>5. a - n * u \in -(u \div 2)..(u \div 2)  BY <2>3, <2>4, Rounded
  <2> QED  BY <2>1, <2>5 DEF AgeShown, u
<1> QED  BY <1>1, <1>2, <1>3, <1>4

\* A text is hidden only as NoText, and says the number it was made of.
LEMMA Texts ==
  /\ \A n : IsNum(n) => Text(n, "") # NoText /\ Says(Text(n, "")) = n
  /\ \A n \in Int : n % 8 = 0 => distance(n) # NoText /\ Says(distance(n)) = n
  /\ \A n \in Int : n % 5 = 0 => temperature(n) # NoText /\ Says(temperature(n)) = n
<1>1. ASSUME NEW n, IsNum(n) PROVE Text(n, "") # NoText /\ Says(Text(n, "")) = n
  <2>1. n # Hidden  BY <1>1, Sentinels
  <2> QED  BY <2>1 DEF Text, NoText, Says
<1>2. ASSUME NEW n \in Int, n % 8 = 0 PROVE distance(n) # NoText /\ Says(distance(n)) = n
  <2>1. Says(Text(n, "km")) = n /\ Text(n, "km") # NoText  BY DEF Says, Text, NoText
  <2>2. Says(Text((n * 5) \div 8, "mi")) = (((n * 5) \div 8) * 8) \div 5  BY DEF Says, Text
  <2>3. Text((n * 5) \div 8, "mi") # NoText  BY DEF Text, NoText
  <2> QED  BY <2>1, <2>2, <2>3, <1>2, Miles DEF distance
<1>3. ASSUME NEW n \in Int, n % 5 = 0 PROVE temperature(n) # NoText /\ Says(temperature(n)) = n
  <2>1. Says(Text(n, "C")) = n /\ Text(n, "C") # NoText  BY DEF Says, Text, NoText
  <2>2. Says(Text((n * 9) \div 5 + 32, "F")) = (((n * 9) \div 5 + 32 - 32) * 5) \div 9  BY DEF Says, Text
  <2>3. Text((n * 9) \div 5 + 32, "F") # NoText  BY DEF Text, NoText
  <2> QED  BY <2>1, <2>2, <2>3, <1>3, Fahrenheit DEF temperature
<1> QED  BY <1>1, <1>2, <1>3

\* A tile that is shown says the report.
LEMMA TileIsReported ==
  ASSUME ViewInv, NEW r \in Tiles \ {"power"}, r \in Distances => UnitsClear
  PROVE  /\ view.tiles[r] # NoText <=> ShowTile(r)
         /\ view.tiles[r] # NoText => Known(r) /\ Says(view.tiles[r]) = Reported(r)
<1>1. NumberOf(r) = num(Reported(r))  BY NumberPlain, NumberDistance
<1>2. IsNum(NumberOf(r)) => Known(r) /\ NumberOf(r) = Reported(r)  BY <1>1, Sentinels DEF num, Known
<1>3. ShowTile(r) => IsNum(NumberOf(r))  BY DEF ShowTile
<1>4. CASE r \in Distances
  <2>1. IsNum(NumberOf(r)) => NumberOf(r) \in Int /\ NumberOf(r) % 8 = 0  BY <1>4, NumberDistance
  <2>2. view.tiles[r] = IF ~ShowTile(r) THEN NoText ELSE distance(NumberOf(r))  BY <1>4, TileText
  <2> QED  BY <2>1, <2>2, <1>2, <1>3, Texts
<1>5. CASE r \in Temperatures
  <2>1. r \notin Distances /\ r \notin Merged /\ r \in Readings \ {"units"}
    BY <1>5 DEF Temperatures, Distances, Merged, Status, Readings, Part
  <2>2. IsNum(NumberOf(r)) => NumberOf(r) \in Int /\ NumberOf(r) % 5 = 0
    <3>1. IsNum(NumberOf(r)) => NumberOf(r) = IF IsNum(metrics[r]) THEN metrics[r] ELSE frame[r]
      BY <2>1, <1>1, Sentinels DEF Reported, FromV2, num
    <3>2. IsNum(metrics[r]) => metrics[r] \in Int /\ metrics[r] % 5 = 0  BY <1>5, <2>1, ReadingTyped DEF ViewInv
    <3>3. IsNum(frame[r]) => frame[r] \in Int /\ frame[r] % 5 = 0
      <4>1. frame[r] \in Sent(r) \union {Missing}  BY <2>1 DEF ViewInv
      <4> QED  BY <4>1, <1>5, <2>1, Sentinels, ViewAssumption
    <3> QED  BY <3>1, <3>2, <3>3
  <2>3. view.tiles[r] = IF ~ShowTile(r) THEN NoText ELSE temperature(NumberOf(r))  BY <1>5, <2>1, TileText
  <2> QED  BY <2>2, <2>3, <1>2, <1>3, Texts
<1>6. CASE r \notin Distances \union Temperatures
  <2>1. view.tiles[r] = IF ~ShowTile(r) THEN NoText ELSE Text(NumberOf(r), "")  BY <1>6, TileText
  <2> QED  BY <2>1, <1>2, <1>3, Texts
<1> QED  BY <1>4, <1>5, <1>6

\* What hides a tile.
LEMMA HiddenTile ==
  ASSUME ViewInv, NEW r \in Tiles \ {"power"}, r \in Distances => UnitsClear, view.tiles[r] = NoText
  PROVE  \/ ~Known(r)
         \/ /\ Known(r) /\ Reported(r) <= 0
            /\ r \in {"energy", "v12", "soh", "odometer", "trip", "packV", "lineV", "motorTemp", "cabinTemp"}
         \/ r \in {"lineV", "lineA"} /\ ~view.isCharging
         \/ r = "packA" /\ view.tiles["packV"] = NoText
<1>1. NumberOf(r) = num(Reported(r)) /\ ~ShowTile(r)  BY TileIsReported, NumberPlain, NumberDistance
<1>2. Known(r) => IsNum(NumberOf(r)) /\ NumberOf(r) = Reported(r) /\ NumberOf(r) \in Int
  <2>1. r \in Distances /\ IsNum(NumberOf(r)) => NumberOf(r) \in Int  BY NumberDistance
  <2>2. r \notin Distances => Reported(r) \in Int
    <3>1. r \in Readings  BY DEF Tiles, Readings, Part
    <3> QED  BY <3>1, ReadingTyped DEF Reported, FromV2
  <2> QED  BY <2>1, <2>2, <1>1 DEF Known, num
<1>3. r = "packA" => (view.tiles["packV"] = NoText <=> ~(IsNum(NumberOf("packV")) /\ NumberOf("packV") > 0))
  <2>1. "packV" \in Tiles \ {"power"} /\ "packV" \notin Distances  BY DEF Tiles, Distances
  <2>2. view.tiles["packV"] # NoText <=> ShowTile("packV")  BY <2>1, TileIsReported
  <2> QED  BY <2>2 DEF ShowTile
<1> QED  BY <1>1, <1>2, <1>3 DEF ShowTile, Charges

\* ViewInv is enough.
LEMMA ViewIsReported == ViewInv => ShownIsReported
<1> SUFFICES ASSUME ViewInv PROVE ShownIsReported  OBVIOUS
<1>1. ASSUME NEW r \in Tiles \ {"power"}, r \in Distances => UnitsClear
      PROVE  IF view.tiles[r] # NoText THEN Known(r) /\ Says(view.tiles[r]) = Reported(r)
             ELSE \/ ~Known(r)
                  \/ /\ Known(r) /\ Reported(r) <= 0
                     /\ r \in {"energy", "v12", "soh", "odometer", "trip", "packV", "lineV", "motorTemp", "cabinTemp"}
                  \/ r \in {"lineV", "lineA"} /\ ~view.isCharging
                  \/ r = "packA" /\ view.tiles["packV"] = NoText
  <2>1. view.tiles[r] # NoText => Known(r) /\ Says(view.tiles[r]) = Reported(r)  BY <1>1, TileIsReported
  <2>2. CASE view.tiles[r] = NoText  BY <2>2, <1>1, HiddenTile
  <2> QED  BY <2>1, <2>2
<1>2. view.tiles["power"] # NoText <=> Known("power") \/ (Known("lineV") /\ Known("lineA"))
  <2>1. "power" \in Tiles /\ "power" \notin Distances \union Temperatures  BY DEF Tiles, Distances, Temperatures
  <2>2. view.tiles["power"] = IF ~ShowTile("power") THEN NoText ELSE Text(NumberOf("power"), "")  BY <2>1, TileText
  <2>3. ShowTile("power") <=> IsNum(NumberOf("power"))  BY DEF ShowTile
  <2>4. IsNum(NumberOf("power")) => Text(NumberOf("power"), "") # NoText  BY Texts
  <2> QED  BY <2>2, <2>3, <2>4, NumberPower
<1>3. view.soc = num(Reported("soc"))
  <2>1. "soc" \in Merged \ (Distances \union {"soh"})  BY DEF Merged, Status, Distances
  <2> QED  BY <2>1, MergedReported, ViewFields
<1>4. ~view.online => view.colour = "grey" /\ ~view.sweep  BY ViewFields
<1>5. view.sweep => view.stateLine = Missing  BY ViewFields
<1>6. LET unit == Seconds(view.seen.unit) IN age - view.seen.n * unit \in -(unit \div 2)..(unit \div 2)
  <2>1. age \in Nat  BY DEF ViewInv
  <2> QED  BY <2>1, AgeIsShown, ViewFields DEF AgeShown
<1> QED  BY <1>1, <1>2, <1>3, <1>4, <1>5, <1>6, EtaIsReported, PositionIsReported DEF ShownIsReported

\* For every set of readings, values and ages: a tile shows the last report of its reading,
\* V3 before V2, in the page's unit, or is hidden for one of the reasons derive() has; and
\* so are the charge, the estimate, the position and the age (vehicle_live_view.js:84-230).
THEOREM ShowsWhatIsReported == ViewSpec => []ShownIsReported
<1> QED  BY ViewInvariance, ViewIsReported, PTL
=============================================================================
