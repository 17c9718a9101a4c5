----------------------- MODULE MqttCredentialsProofs -----------------------
(***************************************************************************)
(* NoLostCorrection and KeyEntriesCurrent, for any number of vehicles,     *)
(* keys, requests, key operations, failures and restarts.                  *)
(*                                                                         *)
(* A correction is owed by the queue, by the worker's batch or by a        *)
(* request still to mark it.  What a request that resynchronises an        *)
(* account will mark is decided late, so it is counted only for vehicles   *)
(* that speak MQTT: the others can drop out of the account before it       *)
(* looks.  A job in hand is right, or owed once more.                      *)
(***************************************************************************)
EXTENDS MqttCredentials, TLAPS

Loop == sync["loop"]

\* The job is in the queue or in the worker's batch.
Queued(j) == j \in pending \/ j \in Loop.jobs \/ j \in Loop.failed

\* Somebody owes vehicle v, or the ACL, again.
VehicleOwed(v) ==
    \/ Queued(v)
    \/ \E r \in Requests : v \in request[r].dirty
    \/ row[v].protocol = "v3" /\ \E r \in Requests : request[r].op = "resync"
AclOwed ==
    \/ Queued(Acl)
    \/ \E r \in Requests : Acl \in request[r].dirty \/ request[r].op = "resync"
    \/ \E a \in ApiThreads : api[a].at \in {"add", "remove", "read"}

Logins == Passwords \cup {Absent}
Rows == [protocol : {"none", "v2", "v3"}, pw : Logins]
AclContents == [names : SUBSET (Vehicles \cup Keys), facts : {0, 1}]
Batches == [at : {"idle", "pick", "write", "requeue"}, jobs : SUBSET Jobs, failed : SUBSET Jobs,
            job : Jobs, seen : Logins \cup AclContents]
Edits == [at : {"out", "read", "mark"}, op : {"none", "update", "delete", "resync"},
          v : Jobs, old : {"none", "v2", "v3"}, dirty : SUBSET Jobs]
Operations == [at : {"out", "add", "remove", "read", "write"}, key : Keys \cup {NoKey},
               seen : AclContents \cup {Absent}]

\* The types, and what the progress of the worker and of a request says of the rest.
Typed ==
    /\ TypeOK /\ facts \in {0, 1}
    /\ sync \in [Syncers -> Batches] /\ request \in [Requests -> Edits]
    /\ api \in [ApiThreads -> Operations]
Shaped ==
    /\ \A s \in Syncers :
          /\ sync[s].at = "idle" => sync[s].jobs = {} /\ sync[s].failed = {}
          /\ sync[s].at = "requeue" => sync[s].jobs = {}
          /\ sync[s].at = "write" /\ sync[s].job # Acl => sync[s].seen \in Logins
          /\ sync[s].at = "write" /\ sync[s].job = Acl => sync[s].seen \in AclContents
    /\ shutdown = "no" => sync["flush"].at = "idle"
    /\ \A r \in Requests :
          /\ request[r].at # "mark" => request[r].dirty = {} /\ request[r].op # "resync"
          /\ request[r].op = "resync" => request[r].dirty = {}
          /\ request[r].at = "read" => request[r].v \in Vehicles
    /\ \A a \in ApiThreads :
          /\ api[a].at = "write" => api[a].seen \in AclContents
          /\ api[a].at # "out" => api[a].key \in Keys

\* A vehicle's login, or what the worker is about to write for it, is right or owed.
Right(v) == IF Loop.at = "write" /\ Loop.job = v
            THEN Loop.seen = Want(v) \/ VehicleOwed(v)
            ELSE entry[v] = Want(v) \/ VehicleOwed(v)
LoginsRight == shutdown = "no" /\ ~unsynced => \A v \in Vehicles \ misread : Right(v)

\* At most one rendering of the ACL is in hand, and the one that is written last is right
\* or owed again.
WorkerRenders == Loop.at = "write" /\ Loop.job = Acl
AclRight ==
    shutdown = "no" /\ ~unsynced /\ misread = {} /\ ~adrift =>
        /\ \A a, b \in ApiThreads : api[a].at = "write" /\ api[b].at = "write" => a = b
        /\ \A a \in ApiThreads : api[a].at = "write" =>
              ~WorkerRenders /\ (api[a].seen = WantAcl \/ AclOwed)
        /\ WorkerRenders => Loop.seen = WantAcl \/ AclOwed
        /\ acl = WantAcl \/ AclOwed \/ WorkerRenders \/ \E a \in ApiThreads : api[a].at = "write"

\* A job's event has been raised when its attempts have reached MAX_ATTEMPTS, or will have
\* as soon as it is requeued.
EventsOnce ==
    shutdown = "no" => \A j \in Jobs :
        /\ events[j] \in {0, 1}
        /\ events[j] = 1 => \/ attempts[j] >= MAX_ATTEMPTS
                            \/ /\ Loop.at = "requeue" /\ j \in Loop.failed
                               /\ attempts[j] + 1 = MAX_ATTEMPTS

CredentialsInv == Typed /\ Shaped /\ LoginsRight /\ AclRight /\ EventsOnce

\* An API key's login is right unless the one operation that has still to write it is under
\* way.
Writing(a, k) == api[a].key = k /\ api[a].at \in {"add", "remove"}
KeysRight ==
    account # "deleted" => \A k \in Keys \ botched :
        /\ (\A a \in ApiThreads : ~Writing(a, k)) => (k \in keyEntry <=> k \in keys)
        /\ \A a \in ApiThreads : Writing(a, k) =>
              /\ k \in keys <=> api[a].at = "add"
              /\ \A b \in ApiThreads : Writing(b, k) => b = a

-----------------------------------------------------------------------------
(***************************************************************************)
(* What the steps make of the requests', the worker's and the key          *)
(* operations' records                                                     *)
(***************************************************************************)
LEMMA Names ==
    /\ Acl \in Jobs /\ Acl \notin Vehicles /\ Vehicles \subseteq Jobs
    /\ \A j \in Jobs : j # Acl => j \in Vehicles
    /\ "loop" \in Syncers /\ "flush" \in Syncers /\ \A s \in Syncers : s = "loop" \/ s = "flush"
BY MqttAssumption DEF Jobs, Syncers

LEMMA Empties ==
    /\ Idle \in Batches /\ Idle.at = "idle" /\ Idle.jobs = {} /\ Idle.failed = {}
    /\ NoRequest \in Edits /\ NoRequest.at = "out" /\ NoRequest.dirty = {} /\ NoRequest.op = "none"
    /\ NoCall \in Operations /\ NoCall.at = "out" /\ NoCall.key = NoKey
BY Names DEF Idle, NoRequest, NoCall, Batches, Edits, Operations, Logins

\* What the database asks for is a login, and an ACL.
LEMMA Wanted ==
    ASSUME Typed
    PROVE  (\A v \in Vehicles : Want(v) \in Logins) /\ WantAcl \in AclContents
<1>1. row \in [Vehicles -> Rows] /\ facts \in {0, 1} /\ keys \subseteq Keys
  BY DEF Typed, TypeOK, Rows, Logins
<1>2. \A v \in Vehicles : Want(v) \in Logins
  BY <1>1 DEF Want, Rows, Logins
<1> DEFINE cars == {v \in Vehicles : row[v].protocol = "v3"}
           names == IF account # "active" THEN {} ELSE cars \cup (IF cars = {} THEN {} ELSE keys)
<1>3. names \in SUBSET (Vehicles \cup Keys)
  BY <1>1
<1>4. WantAcl = [names |-> names, facts |-> facts]
  BY DEF WantAcl
<1> HIDE DEF names
<1>q. QED  BY <1>1, <1>2, <1>3, <1>4 DEF AclContents

\* A request commits a change and is about to mark D.
LEMMA Marks ==
    ASSUME Typed, NEW r \in Requests, NEW D \in SUBSET Jobs,
           request' = [request EXCEPT ![r].at = "mark", ![r].dirty = D]
    PROVE  /\ request' \in [Requests -> Edits]
           /\ request'[r].at = "mark" /\ request'[r].dirty = D
           /\ request'[r].op = request[r].op /\ request'[r].v = request[r].v
           /\ \A q \in Requests \ {r} : request'[q] = request[q]
<1> DEFINE new == [request[r] EXCEPT !.at = "mark", !.dirty = D]
<1>1. request \in [Requests -> Edits] /\ request[r] \in Edits
  BY DEF Typed
<1>2. new \in Edits /\ new.at = "mark" /\ new.dirty = D /\ new.op = request[r].op /\ new.v = request[r].v
  BY <1>1 DEF Edits
<1>3. request' = [request EXCEPT ![r] = new]
  BY <1>1
<1> HIDE DEF new
<1>q. QED  BY <1>1, <1>2, <1>3

\* The worker's or the flush's record becomes `new'.
LEMMA Moves ==
    ASSUME Typed, NEW s \in Syncers, NEW new \in Batches, sync' = [sync EXCEPT ![s] = new]
    PROVE  /\ sync' \in [Syncers -> Batches] /\ sync'[s] = new
           /\ \A t \in Syncers \ {s} : sync'[t] = sync[t]
BY DEF Typed

LEMMA Operates ==
    ASSUME Typed, NEW a \in ApiThreads, NEW new \in Operations, api' = [api EXCEPT ![a] = new]
    PROVE  /\ api' \in [ApiThreads -> Operations] /\ api'[a] = new
           /\ \A b \in ApiThreads \ {a} : api'[b] = api[b]
BY DEF Typed

\* The records of the sync worker after each of its steps.
LEMMA ReadEffect ==
    ASSUME Typed, Shaped, NEW s \in Syncers, NEW j \in Jobs, ReadJob(s, j)
    PROVE  /\ sync' \in [Syncers -> Batches] /\ \A t \in Syncers \ {s} : sync'[t] = sync[t]
           /\ sync[s].at = "pick" /\ j \in sync[s].jobs
           /\ sync'[s].at = "write" /\ sync'[s].job = j /\ sync'[s].jobs = sync[s].jobs \ {j}
           /\ sync'[s].failed = sync[s].failed
           /\ j = Acl => sync'[s].seen = WantAcl /\ WantAcl \in AclContents
           /\ j # Acl => sync'[s].seen = Want(j) /\ Want(j) \in Logins
<1> DEFINE seen == IF j = Acl THEN WantAcl ELSE Want(j)
           new == [sync[s] EXCEPT !.at = "write", !.job = j, !.jobs = @ \ {j}, !.seen = seen]
<1>1. sync \in [Syncers -> Batches] /\ sync[s] \in Batches
  BY DEF Typed
<1>2. seen \in Logins \cup AclContents /\ (j # Acl => seen \in Logins) /\ (j = Acl => seen \in AclContents)
  BY Wanted, Names
<1>3. sync' = [sync EXCEPT ![s] = new] /\ sync[s].at = "pick" /\ j \in sync[s].jobs
  BY <1>1 DEF ReadJob
<1> HIDE DEF seen
<1>4. /\ new \in Batches /\ new.at = "write" /\ new.job = j /\ new.jobs = sync[s].jobs \ {j}
      /\ new.failed = sync[s].failed /\ new.seen = seen
  BY <1>1, <1>2 DEF Batches
<1> HIDE DEF new
<1>q. QED  BY <1>2, <1>3, <1>4, Moves DEF seen

LEMMA WriteEffect ==
    ASSUME Typed, Shaped, NEW s \in Syncers, WriteJob(s) \/ WriteJobFails(s)
    PROVE  /\ sync' \in [Syncers -> Batches] /\ \A t \in Syncers \ {s} : sync'[t] = sync[t]
           /\ sync[s].at = "write" /\ sync'[s].at = "pick" /\ sync'[s].jobs = sync[s].jobs
           /\ WriteJob(s) => sync'[s].failed = sync[s].failed
           /\ WriteJobFails(s) => sync'[s].failed = sync[s].failed \cup {sync[s].job}
           /\ sync[s].job \in Jobs
<1> DEFINE ok == [sync[s] EXCEPT !.at = "pick", !.seen = Absent]
           bad == [sync[s] EXCEPT !.at = "pick", !.seen = Absent, !.failed = @ \cup {sync[s].job}]
<1>1. sync \in [Syncers -> Batches] /\ sync[s] \in Batches
  BY DEF Typed
<1>2. sync[s].at = "write"
  BY DEF WriteJob, WriteJobFails
<1>3. (WriteJob(s) => sync' = [sync EXCEPT ![s] = ok]) /\ (WriteJobFails(s) => sync' = [sync EXCEPT ![s] = bad])
  BY <1>1 DEF WriteJob, WriteJobFails
<1>4. /\ ok \in Batches /\ ok.at = "pick" /\ ok.jobs = sync[s].jobs /\ ok.failed = sync[s].failed
      /\ bad \in Batches /\ bad.at = "pick" /\ bad.jobs = sync[s].jobs
      /\ bad.failed = sync[s].failed \cup {sync[s].job} /\ sync[s].job \in Jobs
  BY <1>1 DEF Batches, Logins
<1> HIDE DEF ok, bad
<1>5. CASE WriteJobFails(s)
  <2>1. ~WriteJob(s) \/ ok.failed = bad.failed
    <3>1. WriteJob(s) => sync'[s] = ok /\ sync'[s] = bad
      BY <1>1, <1>3, <1>5
    <3>q. QED  BY <3>1
  <2>q. QED  BY <1>2, <1>3, <1>4, <1>5, <2>1, Moves
<1>6. CASE WriteJob(s) /\ ~WriteJobFails(s)
  BY <1>2, <1>3, <1>4, <1>6, Moves
<1>q. QED  BY <1>5, <1>6

LEMMA ReportEffect ==
    ASSUME Typed, Shaped, NEW s \in Syncers, ReportFailures(s)
    PROVE  /\ sync' \in [Syncers -> Batches] /\ \A t \in Syncers \ {s} : sync'[t] = sync[t]
           /\ sync[s].at = "pick" /\ sync'[s].at = "requeue" /\ sync[s].jobs = {} /\ sync'[s].jobs = {}
           /\ sync'[s].failed = sync[s].failed
<1> DEFINE new == [sync[s] EXCEPT !.at = "requeue"]
<1>1. sync \in [Syncers -> Batches] /\ sync[s] \in Batches
  BY DEF Typed
<1>2. sync' = [sync EXCEPT ![s] = new] /\ sync[s].at = "pick" /\ sync[s].jobs = {}
  BY <1>1 DEF ReportFailures
<1>3. new \in Batches /\ new.at = "requeue" /\ new.jobs = sync[s].jobs /\ new.failed = sync[s].failed
  BY <1>1 DEF Batches
<1> HIDE DEF new
<1>q. QED  BY <1>2, <1>3, Moves

LEMMA ClaimEffect ==
    ASSUME Typed, Shaped, Claim
    PROVE  /\ sync' \in [Syncers -> Batches] /\ sync'["flush"] = sync["flush"]
           /\ sync["loop"].at = "idle" /\ sync'["loop"].at = "pick"
           /\ sync'["loop"].jobs = pending \ backoff /\ sync'["loop"].failed = {}
<1> DEFINE old == sync["loop"]
           new == [old EXCEPT !.at = "pick", !.jobs = pending \ backoff]
<1>1. sync \in [Syncers -> Batches] /\ old \in Batches /\ pending \ backoff \in SUBSET Jobs
  BY Names DEF Typed, TypeOK
<1>2. sync' = [sync EXCEPT !["loop"] = new] /\ old.at = "idle"
  BY <1>1 DEF Claim
<1>3. old.failed = {}
  BY <1>2, Names DEF Shaped
<1> HIDE DEF old
<1>4. new \in Batches /\ new.at = "pick" /\ new.jobs = pending \ backoff /\ new.failed = {}
  BY <1>1, <1>3 DEF Batches
<1> HIDE DEF new
<1>q. QED  BY <1>2, <1>4, Moves, Names DEF old

LEMMA FlushEffect ==
    ASSUME Typed, Shaped, Flush
    PROVE  /\ sync' \in [Syncers -> Batches] /\ sync'["loop"] = sync["loop"] /\ shutdown' # "no"
           /\ \/ sync'["flush"] = sync["flush"]
              \/ sync'["flush"].at = "pick"
<1> DEFINE old == sync["flush"]
           new == [old EXCEPT !.at = "pick", !.jobs = pending]
<1>1. sync \in [Syncers -> Batches] /\ old \in Batches /\ pending \in SUBSET Jobs
  BY Names DEF Typed, TypeOK
<1>2. (sync' = sync \/ sync' = [sync EXCEPT !["flush"] = new]) /\ shutdown' # "no"
  BY <1>1 DEF Flush
<1> HIDE DEF old
<1>3. new \in Batches /\ new.at = "pick"
  BY <1>1 DEF Batches
<1> HIDE DEF new
<1>q. QED  BY <1>1, <1>2, <1>3, Moves, Names DEF old

\* A key operation, in the order of its steps.
LEMMA KeyEffect ==
    ASSUME Typed, Shaped, NEW a \in ApiThreads, ApiStep(a)
    PROVE  /\ api' \in [ApiThreads -> Operations] /\ \A b \in ApiThreads \ {a} : api'[b] = api[b]
           /\ api'[a].at = "write" => api'[a].seen \in AclContents
           /\ api'[a].at # "out" => api'[a].key \in Keys
           /\ \A k \in Keys : CreateKey(a, k) => api'[a].at = "add" /\ api'[a].key = k
           /\ \A k \in Keys : DeleteKey(a, k) => api'[a].at = "remove" /\ api'[a].key = k
           /\ KeyEntryWritten(a) \/ KeyEntryFails(a) =>
                 api[a].at \in {"add", "remove"} /\ api[a].key \in Keys /\ api'[a].at = "read"
           /\ KeyAclRead(a) => api[a].at = "read" /\ api'[a].at = "write" /\ api'[a].seen = WantAcl
           /\ KeyAclWritten(a) => api[a].at = "write" /\ api'[a].at = "out"
<1>0. api \in [ApiThreads -> Operations] /\ api[a] \in Operations
  BY DEF Typed
<1>4. ASSUME KeyEntryWritten(a) \/ KeyEntryFails(a)
      PROVE  /\ api[a].at \in {"add", "remove"} /\ api[a].key \in Keys
             /\ api' \in [ApiThreads -> Operations] /\ \A b \in ApiThreads \ {a} : api'[b] = api[b]
             /\ api'[a].at = "read" /\ api'[a].key \in Keys
  <2> DEFINE new == [api[a] EXCEPT !.at = "read"]
  <2>1. api[a].at \in {"add", "remove"} /\ api' = [api EXCEPT ![a] = new]
    BY <1>0, <1>4 DEF KeyEntryWritten, KeyEntryFails
  <2>2. api[a].key \in Keys
    BY <2>1 DEF Shaped
  <2>3. new \in Operations /\ new.at = "read" /\ new.key = api[a].key
    BY <1>0 DEF Operations
  <2> HIDE DEF new
  <2>q. QED  BY <2>1, <2>2, <2>3, Operates
<1>5. ASSUME KeyAclRead(a)
      PROVE  /\ api[a].at = "read"
             /\ api' \in [ApiThreads -> Operations] /\ \A b \in ApiThreads \ {a} : api'[b] = api[b]
             /\ api'[a].at = "write" /\ api'[a].seen = WantAcl /\ WantAcl \in AclContents
             /\ api'[a].key \in Keys
  <2> DEFINE new == [api[a] EXCEPT !.at = "write", !.seen = WantAcl]
  <2>1. api[a].at = "read" /\ api' = [api EXCEPT ![a] = new]
    BY <1>0, <1>5 DEF KeyAclRead
  <2>2. WantAcl \in AclContents /\ api[a].key \in Keys
    BY <2>1, Wanted DEF Shaped
  <2>3. new \in Operations /\ new.at = "write" /\ new.key = api[a].key /\ new.seen = WantAcl
    BY <1>0, <2>2 DEF Operations
  <2> HIDE DEF new
  <2>q. QED  BY <2>1, <2>2, <2>3, Operates
<1>6. ASSUME KeyAclWritten(a) PROVE api[a].at = "write" /\ api' = [api EXCEPT ![a] = NoCall]
  BY <1>6 DEF KeyAclWritten
<1>7. ASSUME NEW k \in Keys, CreateKey(a, k) \/ DeleteKey(a, k)
      PROVE  /\ api[a].at = "out" /\ api' \in [ApiThreads -> Operations]
             /\ \A b \in ApiThreads \ {a} : api'[b] = api[b]
             /\ api'[a].at \in {"add", "remove"} /\ api'[a].key = k
             /\ CreateKey(a, k) => api'[a].at = "add"
             /\ DeleteKey(a, k) => api'[a].at = "remove"
  <2> DEFINE new == [at |-> "add", key |-> k, seen |-> Absent]
             gone == [at |-> "remove", key |-> k, seen |-> Absent]
  <2>1. /\ new \in Operations /\ new.at = "add" /\ new.key = k
        /\ gone \in Operations /\ gone.at = "remove" /\ gone.key = k
    BY DEF Operations
  <2>2. ASSUME CreateKey(a, k) PROVE api[a].at = "out" /\ api' = [api EXCEPT ![a] = new]
    BY <2>2 DEF CreateKey
  <2>3. ASSUME DeleteKey(a, k) PROVE api[a].at = "out" /\ api' = [api EXCEPT ![a] = gone]
    BY <2>3 DEF DeleteKey
  <2>4. ~(CreateKey(a, k) /\ DeleteKey(a, k))
    BY DEF CreateKey, DeleteKey
  <2> HIDE DEF new, gone
  <2>5. CASE CreateKey(a, k)  BY <2>1, <2>2, <2>4, <2>5, Operates
  <2>6. CASE DeleteKey(a, k)  BY <2>1, <2>3, <2>4, <2>6, Operates
  <2>q. QED  BY <1>7, <2>5, <2>6
<1>8. \A k, l \in Keys : (CreateKey(a, k) \/ DeleteKey(a, k)) /\ (CreateKey(a, l) \/ DeleteKey(a, l)) => k = l
  BY <1>7
<1>9. CASE \E k \in Keys : CreateKey(a, k) \/ DeleteKey(a, k)
  <2>1. api[a].at = "out"
    BY <1>7, <1>9
  <2>q. QED  BY <1>4, <1>5, <1>6, <1>7, <1>9, <2>1
<1>10. CASE /\ ~\E k \in Keys : CreateKey(a, k) \/ DeleteKey(a, k)
            /\ KeyEntryWritten(a) \/ KeyEntryFails(a)
  BY <1>4, <1>5, <1>6, <1>10
<1>11. CASE /\ ~\E k \in Keys : CreateKey(a, k) \/ DeleteKey(a, k)
            /\ KeyAclRead(a)
  BY <1>4, <1>5, <1>6, <1>11
<1>12. CASE /\ ~\E k \in Keys : CreateKey(a, k) \/ DeleteKey(a, k)
            /\ KeyAclWritten(a)
  BY <1>0, <1>4, <1>5, <1>6, <1>12, Empties, Operates
<1>q. QED  BY <1>9, <1>10, <1>11, <1>12 DEF ApiStep

\* A request, in the order of its steps.
LEMMA RequestEffect ==
    ASSUME Typed, Shaped, NEW r \in Requests, RequestStep(r)
    PROVE  /\ request' \in [Requests -> Edits] /\ \A q \in Requests \ {r} : request'[q] = request[q]
           /\ request'[r].at # "mark" => request'[r].dirty = {} /\ request'[r].op # "resync"
           /\ request'[r].op = "resync" => request'[r].dirty = {}
           /\ request'[r].at = "read" => request'[r].v \in Vehicles
           /\ request[r].at # "mark" => request[r].dirty = {} /\ request[r].op # "resync"
           /\ request[r].at = "mark" => MarkDirty(r) /\ request'[r] = NoRequest
<1>0. request \in [Requests -> Edits] /\ request[r] \in Edits /\ row \in [Vehicles -> Rows]
  BY DEF Typed, TypeOK, Rows, Logins
<1>1. /\ request[r].at # "mark" => request[r].dirty = {} /\ request[r].op # "resync"
      /\ request[r].at = "read" => request[r].v \in Vehicles
  BY DEF Shaped
<1> DEFINE Goal == /\ request' \in [Requests -> Edits] /\ \A q \in Requests \ {r} : request'[q] = request[q]
                   /\ request'[r].at # "mark" => request'[r].dirty = {} /\ request'[r].op # "resync"
                   /\ request'[r].op = "resync" => request'[r].dirty = {}
                   /\ request'[r].at = "read" => request'[r].v \in Vehicles
                   /\ request[r].at = "mark" => MarkDirty(r) /\ request'[r] = NoRequest
<1>2. ASSUME NEW D \in SUBSET Jobs, request[r].at # "mark",
             request' = [request EXCEPT ![r].at = "mark", ![r].dirty = D]
      PROVE  Goal
  BY <1>1, <1>2, Marks
<1>3. ASSUME NEW v \in Vehicles, NEW protocol \in {"v2", "v3"}, NEW pw \in Passwords,
             CreateVehicle(r, v, protocol, pw)
      PROVE  Goal
  <2>1. (IF protocol = "v3" THEN {v, Acl} ELSE {}) \in SUBSET Jobs
    BY Names
  <2>q. QED  BY <1>2, <1>3, <2>1 DEF CreateVehicle
<1>4. ASSUME NEW v \in Vehicles, NEW op \in {"update", "delete"}, ReadVehicle(r, v, op)
      PROVE  Goal
  <2> DEFINE old == row[v].protocol
             new == [at |-> "read", op |-> op, v |-> v, old |-> old, dirty |-> {}]
  <2>1. request[r].at = "out" /\ request' = [request EXCEPT ![r] = new]
    BY <1>4 DEF ReadVehicle
  <2>2. old \in {"none", "v2", "v3"}
    BY <1>0 DEF Rows
  <2> HIDE DEF old
  <2>3. /\ new \in Edits /\ new.at = "read" /\ new.dirty = {} /\ new.op \in {"update", "delete"} /\ new.v = v
    BY <2>2, Names DEF Edits
  <2> HIDE DEF new
  <2>q. QED  BY <1>0, <2>1, <2>3
<1>5. ASSUME NEW protocol \in {"v2", "v3"}, NEW pw \in Passwords, NEW newpw \in BOOLEAN,
             UpdateVehicle(r, protocol, pw, newpw)
      PROVE  Goal
  <2> DEFINE v == request[r].v
             switched == request[r].old # NewProtocol(r, protocol)
             D == IF switched THEN {v, Acl} ELSE IF newpw THEN {v} ELSE {}
  <2>1. request[r].at = "read" /\ request' = [request EXCEPT ![r].at = "mark", ![r].dirty = D]
    BY <1>5 DEF UpdateVehicle
  <2>2. D \in SUBSET Jobs
    BY <1>1, <2>1, Names
  <2>q. QED  BY <1>2, <2>1, <2>2
<1>6. ASSUME UpdateRaises(r) PROVE Goal
  <2>1. request[r].at = "read" /\ request' = [request EXCEPT ![r] = NoRequest]
    BY <1>6 DEF UpdateRaises
  <2>q. QED  BY <1>0, <2>1, Empties
<1>7. ASSUME DeleteVehicle(r) PROVE Goal
  <2>1. (IF request[r].old = "v3" THEN {request[r].v, Acl} ELSE {}) \in SUBSET Jobs
    BY <1>1, <1>7, Names DEF DeleteVehicle
  <2>q. QED  BY <1>2, <1>7, <2>1 DEF DeleteVehicle
<1>8. ASSUME ChangeFacts(r) PROVE Goal
  <2>1. {Acl} \in SUBSET Jobs
    BY Names
  <2>2. request[r].at = "out" /\ request' = [request EXCEPT ![r].at = "mark", ![r].dirty = {Acl}]
    BY <1>8 DEF ChangeFacts
  <2>q. QED  BY <1>2, <2>1, <2>2
<1>9. ASSUME DeleteUser(r) PROVE Goal
  <2>1. {v \in Vehicles : row[v] # NoRow} \cup {Acl} \in SUBSET Jobs
    BY Names
  <2>q. QED  BY <1>2, <1>9, <2>1 DEF DeleteUser
<1>10. ASSUME NEW state \in {"active", "inactive"}, SetActive(r, state) PROVE Goal
  <2> DEFINE new == [request[r] EXCEPT !.at = "mark", !.op = "resync"]
  <2>1. request[r].at = "out" /\ request' = [request EXCEPT ![r] = new]
    BY <1>0, <1>10 DEF SetActive
  <2>2. new \in Edits /\ new.at = "mark" /\ new.dirty = {}
    BY <1>0, <1>1, <2>1 DEF Edits
  <2> HIDE DEF new
  <2>q. QED  BY <1>0, <2>1, <2>2
<1>11. ASSUME MarkDirty(r) PROVE Goal
  <2>1. request[r].at = "mark" /\ request' = [request EXCEPT ![r] = NoRequest]
    BY <1>11 DEF MarkDirty
  <2>q. QED  BY <1>0, <1>11, <2>1, Empties
<1> HIDE DEF Goal
<1>12. Goal
  BY <1>3, <1>4, <1>5, <1>6, <1>7, <1>8, <1>9, <1>10, <1>11 DEF RequestStep
<1>q. QED  BY <1>1, <1>12 DEF Goal

\* Outside the records, a step keeps the types.
Stored == /\ row \in [Vehicles -> Rows] /\ keys \subseteq Keys /\ account \in {"active", "inactive", "deleted"}
          /\ facts \in {0, 1} /\ entry \in [Vehicles -> Logins] /\ keyEntry \subseteq Keys /\ acl \in AclContents
          /\ pending \subseteq Jobs /\ backoff \subseteq Jobs /\ attempts \in [Jobs -> 0..(MAX_ATTEMPTS + 1)]
          /\ botched \subseteq Keys /\ misread \subseteq Vehicles /\ adrift \in BOOLEAN
LEMMA TypedIs ==
    Typed <=> Stored /\ sync \in [Syncers -> Batches] /\ request \in [Requests -> Edits]
                     /\ api \in [ApiThreads -> Operations]
<1>1. sync \in [Syncers -> Batches] => \A s \in Syncers : sync[s].jobs \cup sync[s].failed \subseteq Jobs
  BY DEF Batches
<1>q. QED  BY <1>1 DEF Typed, TypeOK, Stored, Rows, Logins, AclContents

\* The types, and the shapes of the records.
LEMMA TypedInit == Init => Typed /\ Shaped
<1> SUFFICES ASSUME Init PROVE Typed /\ Shaped
  OBVIOUS
<1>1. [names |-> {}, facts |-> 0] \in AclContents
  BY DEF AclContents
<1>2. NoRow \in Rows
  BY DEF NoRow, Rows, Logins
<1>3. sync \in [Syncers -> Batches] /\ \A s \in Syncers : sync[s] = Idle
  BY Empties DEF Init
<1>4. request \in [Requests -> Edits] /\ \A r \in Requests : request[r] = NoRequest
  BY Empties DEF Init
<1>5. api \in [ApiThreads -> Operations] /\ \A a \in ApiThreads : api[a] = NoCall
  BY Empties DEF Init
<1>6. Stored
  <2>1. row \in [Vehicles -> Rows] /\ entry \in [Vehicles -> Logins] /\ acl \in AclContents
    BY <1>1, <1>2 DEF Init, Logins
  <2>2. attempts \in [Jobs -> 0..(MAX_ATTEMPTS + 1)]
    BY MqttAssumption DEF Init
  <2>q. QED  BY <2>1, <2>2 DEF Init, Stored
<1>7. Typed
  BY <1>3, <1>4, <1>5, <1>6, TypedIs
<1>8. Shaped
  BY <1>3, <1>4, <1>5, Empties, Names DEF Shaped
<1>q. QED  BY <1>7, <1>8

LEMMA StoredStep ==
    ASSUME Typed, Shaped, [Next]_vars
    PROVE  Stored'
<1>0. Stored
  BY TypedIs
<1>1. ASSUME NEW r \in Requests, RequestStep(r) PROVE Stored'
  <2>1. ASSUME NEW v \in Vehicles, NEW protocol \in {"v2", "v3"}, NEW pw \in Passwords,
               CreateVehicle(r, v, protocol, pw)
        PROVE  Stored'
    <3>1. [protocol |-> protocol, pw |-> pw] \in Rows
      BY DEF Rows, Logins
    <3>q. QED  BY <1>0, <2>1, <3>1 DEF CreateVehicle, Stored, files, queue, history
  <2>2. ASSUME NEW v \in Vehicles, NEW op \in {"update", "delete"}, ReadVehicle(r, v, op) PROVE Stored'
    BY <1>0, <2>2 DEF ReadVehicle, Stored, db, files, queue, history
  <2>3. ASSUME NEW protocol \in {"v2", "v3"}, NEW pw \in Passwords, NEW newpw \in BOOLEAN,
               UpdateVehicle(r, protocol, pw, newpw)
        PROVE  Stored'
    <3> DEFINE v == request[r].v
               old == row[v]
               new == [old EXCEPT !.protocol = NewProtocol(r, protocol), !.pw = IF newpw THEN pw ELSE @]
    <3>1. v \in Vehicles
      BY <2>3 DEF UpdateVehicle, Shaped
    <3>2. old \in Rows
      BY <1>0, <3>1 DEF Stored
    <3>3. NewProtocol(r, protocol) \in {"none", "v2", "v3"}
      BY <3>2 DEF NewProtocol, Rows
    <3>4. row' = [row EXCEPT ![v] = new]
      BY <1>0, <2>3 DEF UpdateVehicle, Stored
    <3> HIDE DEF old
    <3>5. new \in Rows
      BY <3>2, <3>3 DEF Rows, Logins
    <3> HIDE DEF v, new
    <3>6. row' \in [Vehicles -> Rows]
      BY <1>0, <3>1, <3>4, <3>5 DEF Stored
    <3>q. QED  BY <1>0, <2>3, <3>6 DEF UpdateVehicle, Stored, files, queue, history
  <2>4. ASSUME UpdateRaises(r) PROVE Stored'
    BY <1>0, <2>4 DEF UpdateRaises, Stored, db, files, queue, history
  <2>5. ASSUME DeleteVehicle(r) PROVE Stored'
    <3>1. NoRow \in Rows
      BY DEF NoRow, Rows, Logins
    <3>2. request[r].v \in Vehicles
      BY <2>5 DEF DeleteVehicle, Shaped
    <3>3. row' \in [Vehicles -> Rows] /\ misread' \subseteq Vehicles
      BY <1>0, <2>5, <3>1, <3>2 DEF DeleteVehicle, Stored
    <3>q. QED  BY <1>0, <2>5, <3>3 DEF DeleteVehicle, Stored, files, queue
  <2>6. ASSUME ChangeFacts(r) PROVE Stored'
    BY <1>0, <2>6 DEF ChangeFacts, Stored, files, queue, history
  <2>7. ASSUME DeleteUser(r) PROVE Stored'
    <3>1. NoRow \in Rows
      BY DEF NoRow, Rows, Logins
    <3>q. QED  BY <1>0, <2>7, <3>1 DEF DeleteUser, Stored, files, queue, history
  <2>8. ASSUME NEW state \in {"active", "inactive"}, SetActive(r, state) PROVE Stored'
    BY <1>0, <2>8 DEF SetActive, Stored, files, queue, history
  <2>9. ASSUME MarkDirty(r) PROVE Stored'
    <3>1. Dirty(r) \subseteq Jobs
      <4>1. request[r].dirty \subseteq Jobs
        BY DEF Typed, Edits
      <4>q. QED  BY <4>1, Names DEF Dirty, Owned
    <3>q. QED  BY <1>0, <2>9, <3>1 DEF MarkDirty, Stored, db, files, history
  <2>q. QED  BY <1>1, <2>1, <2>2, <2>3, <2>4, <2>5, <2>6, <2>7, <2>8, <2>9 DEF RequestStep
<1>2. ASSUME NEW a \in ApiThreads, ApiStep(a) PROVE Stored'
  <2>1. ASSUME NEW k \in Keys, CreateKey(a, k) \/ DeleteKey(a, k) PROVE Stored'
    <3>1. CASE CreateKey(a, k)
      BY <1>0, <3>1 DEF CreateKey, Stored, files, queue, history
    <3>2. CASE DeleteKey(a, k)
      BY <1>0, <3>2 DEF DeleteKey, Stored, files, queue
    <3>q. QED  BY <2>1, <3>1, <3>2
  <2>2. ASSUME KeyEntryWritten(a) PROVE Stored'
    BY <1>0, <1>2, <2>2, KeyEffect DEF KeyEntryWritten, Stored, db, queue, history
  <2>3. ASSUME KeyEntryFails(a) PROVE Stored'
    BY <1>0, <1>2, <2>3, KeyEffect DEF KeyEntryFails, Stored, db, files, queue
  <2>4. ASSUME KeyAclRead(a) PROVE Stored'
    BY <1>0, <2>4 DEF KeyAclRead, Stored, db, files, queue
  <2>5. ASSUME KeyAclWritten(a) PROVE Stored'
    <3>1. api[a].seen \in AclContents
      BY <2>5 DEF KeyAclWritten, Shaped
    <3>q. QED  BY <1>0, <2>5, <3>1 DEF KeyAclWritten, Stored, db, queue
  <2>q. QED  BY <1>2, <2>1, <2>2, <2>3, <2>4, <2>5 DEF ApiStep
<1>3. ASSUME NEW s \in Syncers, SyncStep(s) PROVE Stored'
  <2>1. ASSUME NEW j \in Jobs, ReadJob(s, j) PROVE Stored'
    BY <1>0, <2>1 DEF ReadJob, Stored, db, files, queue
  <2>2. ASSUME WriteJob(s) PROVE Stored'
    <3>1. /\ sync[s].at = "write"
          /\ sync[s].job = Acl => sync[s].seen \in AclContents
          /\ sync[s].job # Acl => sync[s].seen \in Logins /\ sync[s].job \in Vehicles
      BY <2>2, Names, WriteEffect DEF WriteJob, Shaped
    <3>2. acl' \in AclContents /\ entry' \in [Vehicles -> Logins]
      BY <1>0, <2>2, <3>1 DEF WriteJob, Stored
    <3>q. QED  BY <1>0, <2>2, <3>2 DEF WriteJob, Stored, db, queue, history
  <2>3. ASSUME WriteJobFails(s) PROVE Stored'
    BY <1>0, <2>3 DEF WriteJobFails, Stored, db, files, queue, history
  <2>4. ASSUME ReportFailures(s) PROVE Stored'
    BY <1>0, <2>4 DEF ReportFailures, Stored, db, files, queue
  <2>5. ASSUME Requeue(s) PROVE Stored'
    <3>1. sync[s].failed \subseteq Jobs
      BY DEF Typed, Batches
    <3>2. attempts' \in [Jobs -> 0..(MAX_ATTEMPTS + 1)]
      BY <1>0, <2>5, MqttAssumption DEF Requeue, Stored
    <3>q. QED  BY <1>0, <2>5, <3>1, <3>2 DEF Requeue, Stored, db, files, history
  <2>q. QED  BY <1>3, <2>1, <2>2, <2>3, <2>4, <2>5 DEF SyncStep
<1>4. ASSUME Claim PROVE Stored'
  BY <1>0, <1>4 DEF Claim, Stored, db, files, history
<1>5. ASSUME Flush PROVE Stored'
  BY <1>0, <1>5 DEF Flush, Stored, db, files, history
<1>6. ASSUME NEW j \in Jobs, BackoffElapses(j) PROVE Stored'
  BY <1>0, <1>6 DEF BackoffElapses, Stored, db, files, history
<1>7. ASSUME NEW okPasswd \in BOOLEAN, NEW okAcl \in BOOLEAN, Restart(okPasswd, okAcl) PROVE Stored'
  <2>1. Interrupted \subseteq Keys
    BY DEF Interrupted, Shaped
  <2>2. entry' \in [Vehicles -> Logins] /\ acl' \in AclContents
    BY <1>0, <1>7, Wanted DEF Restart, Stored
  <2>3. keyEntry' \subseteq Keys /\ botched' \subseteq Keys
    BY <1>0, <1>7, <2>1 DEF Restart, Stored
  <2>4. attempts' \in [Jobs -> 0..(MAX_ATTEMPTS + 1)]
    BY <1>7, MqttAssumption DEF Restart
  <2>q. QED  BY <1>0, <1>7, <2>2, <2>3, <2>4 DEF Restart, Stored, db
<1>8. CASE UNCHANGED vars
  BY <1>0, <1>8 DEF Stored, vars, db, files, queue, history
<1>q. QED  BY <1>1, <1>2, <1>3, <1>4, <1>5, <1>6, <1>7, <1>8 DEF Next

LEMMA TypedStep ==
    ASSUME Typed, Shaped, [Next]_vars
    PROVE  Typed' /\ Shaped'
<1> DEFINE Worker == /\ sync' \in [Syncers -> Batches]
                     /\ \A s \in Syncers :
                          /\ sync'[s].at = "idle" => sync'[s].jobs = {} /\ sync'[s].failed = {}
                          /\ sync'[s].at = "requeue" => sync'[s].jobs = {}
                          /\ sync'[s].at = "write" /\ sync'[s].job # Acl => sync'[s].seen \in Logins
                          /\ sync'[s].at = "write" /\ sync'[s].job = Acl => sync'[s].seen \in AclContents
                     /\ shutdown' = "no" => sync'["flush"].at = "idle"
           Crud == /\ request' \in [Requests -> Edits]
                   /\ \A r \in Requests :
                        /\ request'[r].at # "mark" => request'[r].dirty = {} /\ request'[r].op # "resync"
                        /\ request'[r].op = "resync" => request'[r].dirty = {}
                        /\ request'[r].at = "read" => request'[r].v \in Vehicles
           Api == /\ api' \in [ApiThreads -> Operations]
                  /\ \A a \in ApiThreads :
                        /\ api'[a].at = "write" => api'[a].seen \in AclContents
                        /\ api'[a].at # "out" => api'[a].key \in Keys
           Goal == Worker /\ Crud /\ Api
<1>0. /\ sync \in [Syncers -> Batches] /\ request \in [Requests -> Edits] /\ api \in [ApiThreads -> Operations]
  BY DEF Typed
<1>1. UNCHANGED <<sync, shutdown>> => Worker
  BY <1>0 DEF Shaped
<1>2. UNCHANGED request => Crud
  BY <1>0 DEF Shaped
<1>3. UNCHANGED api => Api
  BY <1>0 DEF Shaped
<1>4. ASSUME NEW r \in Requests, RequestStep(r) PROVE Goal
  <2>1. UNCHANGED <<sync, shutdown, api>>
    BY <1>4 DEF RequestStep, CreateVehicle, ReadVehicle, UpdateVehicle, UpdateRaises, DeleteVehicle,
       ChangeFacts, DeleteUser, SetActive, MarkDirty
  <2>2. Crud
    BY <1>4, RequestEffect DEF Shaped
  <2>q. QED  BY <1>1, <1>3, <2>1, <2>2
<1>5. ASSUME NEW a \in ApiThreads, ApiStep(a) PROVE Goal
  <2>1. UNCHANGED <<sync, shutdown, request>>
    BY <1>5 DEF ApiStep, CreateKey, DeleteKey, KeyEntryWritten, KeyEntryFails, KeyAclRead, KeyAclWritten
  <2>2. Api
    BY <1>5, KeyEffect DEF Shaped
  <2>q. QED  BY <1>1, <1>2, <2>1, <2>2
<1>6. ASSUME NEW s \in Syncers, SyncStep(s) PROVE Goal
  <2>1. UNCHANGED <<api, shutdown, request>>
    BY <1>6 DEF SyncStep, ReadJob, WriteJob, WriteJobFails, ReportFailures, Requeue
  <2>2. sync[s].at # "idle"
    BY <1>6 DEF SyncStep, ReadJob, WriteJob, WriteJobFails, ReportFailures, Requeue
  <2>3. shutdown = "no" => s = "loop"
    BY <2>2, Names DEF Shaped
  <2>4. ASSUME NEW j \in Jobs, ReadJob(s, j) PROVE Worker
    BY <2>1, <2>3, <2>4, ReadEffect, Names DEF Shaped
  <2>5. ASSUME WriteJob(s) \/ WriteJobFails(s) PROVE Worker
    BY <2>1, <2>3, <2>5, WriteEffect, Names DEF Shaped
  <2>6. ASSUME ReportFailures(s) PROVE Worker
    BY <2>1, <2>3, <2>6, ReportEffect, Names DEF Shaped
  <2>7. ASSUME Requeue(s) PROVE Worker
    <3>1. sync' = [sync EXCEPT ![s] = Idle]
      BY <2>7 DEF Requeue
    <3>q. QED  BY <2>1, <2>3, <3>1, Moves, Empties, Names DEF Shaped
  <2>8. Worker
    BY <1>6, <2>4, <2>5, <2>6, <2>7 DEF SyncStep
  <2>q. QED  BY <1>2, <1>3, <2>1, <2>8
<1>7. ASSUME Claim PROVE Goal
  <2>1. UNCHANGED <<api, request>> /\ (shutdown' = "no" => shutdown = "no")
    BY <1>7 DEF Claim
  <2>2. Worker
    BY <1>7, <2>1, ClaimEffect, Names DEF Shaped
  <2>q. QED  BY <1>2, <1>3, <2>1, <2>2
<1>8. ASSUME Flush PROVE Goal
  <2>1. UNCHANGED <<api, request>>
    BY <1>8 DEF Flush
  <2>2. Worker
    BY <1>8, FlushEffect, Names DEF Shaped
  <2>q. QED  BY <1>2, <1>3, <2>1, <2>2
<1>9. ASSUME NEW j \in Jobs, BackoffElapses(j) PROVE Goal
  <2>1. UNCHANGED <<sync, shutdown, api, request>>
    BY <1>9 DEF BackoffElapses
  <2>q. QED  BY <1>1, <1>2, <1>3, <2>1
<1>10. ASSUME NEW okPasswd \in BOOLEAN, NEW okAcl \in BOOLEAN, Restart(okPasswd, okAcl)
       PROVE  Goal
  <2>1. /\ sync' \in [Syncers -> Batches] /\ \A s \in Syncers : sync'[s] = Idle
        /\ request' \in [Requests -> Edits] /\ \A r \in Requests : request'[r] = NoRequest
        /\ api' \in [ApiThreads -> Operations] /\ \A a \in ApiThreads : api'[a] = NoCall
    BY <1>10, Empties DEF Restart
  <2>q. QED  BY <2>1, Empties, Names
<1>11. ASSUME UNCHANGED vars PROVE Goal
  <2>1. UNCHANGED <<sync, shutdown, api, request>>
    BY <1>11 DEF vars
  <2>q. QED  BY <1>1, <1>2, <1>3, <2>1
<1>12. Goal
  <2> HIDE DEF Goal
  <2>q. QED  BY <1>4, <1>5, <1>6, <1>7, <1>8, <1>9, <1>10, <1>11 DEF Next
<1>13. Shaped'
  BY <1>12 DEF Shaped
<1>14. Typed'
  <2>1. Stored'
    BY StoredStep
  <2>2. \A s \in Syncers : (sync[s].jobs \cup sync[s].failed)' \subseteq Jobs
    BY <1>12 DEF Batches
  <2>q. QED  BY <1>12, <2>1, <2>2 DEF Typed, TypeOK, Stored, Rows, Logins, AclContents
<1>q. QED  BY <1>13, <1>14

-----------------------------------------------------------------------------
(***************************************************************************)
(* What a step owes                                                        *)
(***************************************************************************)

\* A request changes nothing a file should say without owing the correction.
LEMMA RequestOwes ==
    ASSUME Typed, Shaped, NEW r \in Requests, RequestStep(r)
    PROVE  /\ \A v \in Vehicles :
                 \/ v \in misread' \/ v \in request'[r].dirty
                 \/ row'[v].protocol = "v3" /\ request'[r].op = "resync"
                 \/ Want(v)' = Want(v) /\ (row[v].protocol = "v3" => row'[v].protocol = "v3")
           /\ \/ misread' # {} \/ Acl \in request'[r].dirty \/ request'[r].op = "resync"
              \/ WantAcl' = WantAcl
           /\ account' # "deleted" => UNCHANGED keys /\ account # "deleted"
<1>0. row \in [Vehicles -> Rows] /\ request \in [Requests -> Edits] /\ NoRow.protocol = "none"
  BY TypedIs DEF Stored, NoRow
<1> DEFINE Vehicle(v) == \/ v \in misread' \/ v \in request'[r].dirty
                         \/ row'[v].protocol = "v3" /\ request'[r].op = "resync"
                         \/ Want(v)' = Want(v) /\ (row[v].protocol = "v3" => row'[v].protocol = "v3")
           Ctl == \/ misread' # {} \/ Acl \in request'[r].dirty \/ request'[r].op = "resync"
                  \/ WantAcl' = WantAcl
           Live == account' # "deleted" => UNCHANGED keys /\ account # "deleted"
           Goal == (\A v \in Vehicles : Vehicle(v)) /\ Ctl /\ Live
<1>1. ASSUME NEW D \in SUBSET Jobs, request' = [request EXCEPT ![r].at = "mark", ![r].dirty = D]
      PROVE  request'[r].dirty = D
  BY <1>1, Marks
<1>2. UNCHANGED db => Goal
  BY DEF db, Want, WantAcl
<1>3. ASSUME UNCHANGED <<account, facts, keys>>,
             \A v \in Vehicles : (row'[v].protocol = "v3") <=> (row[v].protocol = "v3")
      PROVE  WantAcl' = WantAcl
  <2>1. {v \in Vehicles : row'[v].protocol = "v3"} = {v \in Vehicles : row[v].protocol = "v3"}
    BY <1>3
  <2>q. QED  BY <1>3, <2>1 DEF WantAcl
<1>4. ASSUME NEW w \in Vehicles, NEW protocol \in {"v2", "v3"}, NEW pw \in Passwords,
             CreateVehicle(r, w, protocol, pw)
      PROVE  Goal
  <2> DEFINE D == IF protocol = "v3" THEN {w, Acl} ELSE {}
  <2>1. /\ row[w] = NoRow /\ row' = [row EXCEPT ![w] = [protocol |-> protocol, pw |-> pw]]
        /\ request' = [request EXCEPT ![r].at = "mark", ![r].dirty = D]
        /\ UNCHANGED <<keys, account, facts>> /\ account # "deleted"
    BY <1>4 DEF CreateVehicle
  <2>2. D \in SUBSET Jobs
    BY Names
  <2>3. request'[r].dirty = D
    BY <1>1, <2>1, <2>2
  <2>4. row'[w].protocol = protocol /\ \A v \in Vehicles \ {w} : row'[v] = row[v]
    BY <1>0, <2>1
  <2>5. CASE protocol = "v3"
    <3>1. w \in request'[r].dirty /\ Acl \in request'[r].dirty
      BY <2>3, <2>5
    <3> HIDE DEF D
    <3>2. \A v \in Vehicles : Vehicle(v)
      BY <2>1, <2>4, <3>1 DEF Want
    <3>q. QED  BY <2>1, <3>1, <3>2
  <2>6. CASE protocol = "v2"
    <3>1. \A v \in Vehicles : Vehicle(v)
      BY <1>0, <2>1, <2>4, <2>6 DEF Want
    <3>2. WantAcl' = WantAcl
      BY <1>0, <1>3, <2>1, <2>4, <2>6
    <3>q. QED  BY <2>1, <3>1, <3>2
  <2>q. QED  BY <2>5, <2>6
<1>5. ASSUME NEW v \in Vehicles, NEW op \in {"update", "delete"}, ReadVehicle(r, v, op) PROVE Goal
  BY <1>2, <1>5 DEF ReadVehicle
<1>6. ASSUME NEW protocol \in {"v2", "v3"}, NEW pw \in Passwords, NEW newpw \in BOOLEAN,
             UpdateVehicle(r, protocol, pw, newpw)
      PROVE  Goal
  <2> DEFINE w == request[r].v
             switched == request[r].old # NewProtocol(r, protocol)
             D == IF switched THEN {w, Acl} ELSE IF newpw THEN {w} ELSE {}
             old == row[w]
             new == [old EXCEPT !.protocol = NewProtocol(r, protocol), !.pw = IF newpw THEN pw ELSE @]
  <2>1. /\ request' = [request EXCEPT ![r].at = "mark", ![r].dirty = D]
        /\ row' = [row EXCEPT ![w] = new] /\ w \in Vehicles
        /\ UNCHANGED <<keys, account, facts>> /\ row[w] # NoRow
    BY <1>0, <1>6 DEF UpdateVehicle, Shaped
  <2>2. D \in SUBSET Jobs
    BY <2>1, Names
  <2>3. request'[r].dirty = D
    BY <1>1, <2>1, <2>2
  <2>4. old \in Rows
    BY <1>0, <2>1
  <2>5. ~switched => NewProtocol(r, protocol) = old.protocol
    BY DEF NewProtocol
  <2> HIDE DEF old
  <2>6. new.protocol = NewProtocol(r, protocol) /\ (~newpw => new.pw = old.pw)
    BY <2>4 DEF Rows
  <2> HIDE DEF new
  <2>7. row'[w] = new /\ \A v \in Vehicles \ {w} : row'[v] = row[v]
    BY <1>0, <2>1
  <2>8. CASE switched
    <3>1. w \in request'[r].dirty /\ Acl \in request'[r].dirty
      BY <2>3, <2>8
    <3> HIDE DEF w, D, switched
    <3>2. \A v \in Vehicles : Vehicle(v)
      BY <2>1, <2>7, <3>1 DEF Want
    <3>q. QED  BY <2>1, <3>1, <3>2
  <2>9. CASE ~switched
    <3>1. row'[w].protocol = row[w].protocol /\ (~newpw => row'[w].pw = row[w].pw)
      BY <2>5, <2>6, <2>7, <2>9 DEF old
    <3>2. newpw => w \in request'[r].dirty
      BY <2>3, <2>9
    <3> HIDE DEF w, D, switched
    <3>3. \A v \in Vehicles : Vehicle(v)
      BY <2>1, <2>7, <3>1, <3>2 DEF Want
    <3>4. WantAcl' = WantAcl
      BY <1>3, <2>1, <2>7, <3>1
    <3>q. QED  BY <2>1, <3>3, <3>4
  <2>q. QED  BY <2>8, <2>9
<1>7. ASSUME UpdateRaises(r) PROVE Goal
  BY <1>2, <1>7 DEF UpdateRaises
<1>8. ASSUME DeleteVehicle(r) PROVE Goal
  <2> DEFINE w == request[r].v
             D == IF request[r].old = "v3" THEN {w, Acl} ELSE {}
  <2>1. /\ request' = [request EXCEPT ![r].at = "mark", ![r].dirty = D]
        /\ row' = [row EXCEPT ![w] = NoRow] /\ w \in Vehicles
        /\ UNCHANGED <<keys, account, facts>>
        /\ request[r].old # row[w].protocol => w \in misread'
    BY <1>8 DEF DeleteVehicle, Shaped
  <2>2. D \in SUBSET Jobs
    BY <2>1, Names
  <2>3. request'[r].dirty = D
    BY <1>1, <2>1, <2>2
  <2>4. row'[w] = NoRow /\ \A v \in Vehicles \ {w} : row'[v] = row[v]
    BY <1>0, <2>1
  <2>5. w \in misread' \/ {w, Acl} \subseteq request'[r].dirty \/ row[w].protocol # "v3"
    BY <2>1, <2>3
  <2> HIDE DEF w, D
  <2>6. \A v \in Vehicles : Vehicle(v)
    BY <1>0, <2>1, <2>4, <2>5 DEF Want
  <2>7. row[w].protocol # "v3" => WantAcl' = WantAcl
    BY <1>0, <1>3, <2>1, <2>4
  <2>q. QED  BY <1>8, <2>1, <2>5, <2>6, <2>7 DEF DeleteVehicle
<1>9. ASSUME ChangeFacts(r) PROVE Goal
  <2>1. {Acl} \in SUBSET Jobs
    BY Names
  <2>2. request'[r].dirty = {Acl} /\ UNCHANGED <<row, keys, account>> /\ account # "deleted"
    BY <1>1, <1>9, <2>1 DEF ChangeFacts
  <2>q. QED  BY <2>2 DEF Want
<1>10. ASSUME DeleteUser(r) PROVE Goal
  <2> DEFINE D == {v \in Vehicles : row[v] # NoRow} \cup {Acl}
  <2>1. D \in SUBSET Jobs
    BY Names
  <2>2. request'[r].dirty = D /\ account' = "deleted"
    BY <1>1, <1>10, <2>1 DEF DeleteUser
  <2>3. row' = [v \in Vehicles |-> NoRow]
    BY <1>10 DEF DeleteUser
  <2>4. \A v \in Vehicles : Vehicle(v)
    BY <1>0, <2>2, <2>3 DEF Want
  <2>q. QED  BY <2>2, <2>4
<1>11. ASSUME NEW state \in {"active", "inactive"}, SetActive(r, state) PROVE Goal
  <2>1. /\ request' = [request EXCEPT ![r].at = "mark", ![r].op = "resync"]
        /\ UNCHANGED <<row, keys, facts>> /\ account # "deleted"
    BY <1>11 DEF SetActive
  <2>2. request'[r].op = "resync"
    BY <1>0, <2>1 DEF Edits
  <2>q. QED  BY <2>1, <2>2 DEF Want
<1>12. ASSUME MarkDirty(r) PROVE Goal
  BY <1>2, <1>12 DEF MarkDirty
<1>13. Goal
  <2> HIDE DEF Goal
  <2>q. QED  BY <1>4, <1>5, <1>6, <1>7, <1>8, <1>9, <1>10, <1>11, <1>12 DEF RequestStep
<1>q. QED  BY <1>13

\* A request forgets nothing that is owed.
LEMMA RequestKeeps ==
    ASSUME Typed, Shaped, NEW r \in Requests, RequestStep(r)
    PROVE  /\ UNCHANGED <<entry, keyEntry, acl, sync, api, attempts, shutdown, events, unsynced, botched, adrift>>
           /\ misread \subseteq misread'
           /\ \A j \in Jobs : Queued(j) => Queued(j)'
           /\ \A j \in Jobs : (\E q \in Requests : j \in request[q].dirty)
                 => Queued(j)' \/ \E q \in Requests : j \in request'[q].dirty
           /\ (\E q \in Requests : request[q].op = "resync")
                 => \/ Queued(Acl)' /\ \A v \in Vehicles : row[v].protocol = "v3" => Queued(v)'
                    \/ \E q \in Requests : request'[q].op = "resync"
<1>1. /\ UNCHANGED <<entry, keyEntry, acl, sync, api, attempts, shutdown, events, unsynced, botched, adrift>>
      /\ misread \subseteq misread' /\ pending \subseteq pending'
  BY DEF RequestStep, CreateVehicle, ReadVehicle, UpdateVehicle, UpdateRaises, DeleteVehicle,
     ChangeFacts, DeleteUser, SetActive, MarkDirty, files, queue, history
<1>2. \A j \in Jobs : Queued(j) => Queued(j)'
  BY <1>1 DEF Queued, Loop
<1>3. CASE request[r].at # "mark"
  BY <1>1, <1>2, <1>3, RequestEffect
<1>4. CASE request[r].at = "mark"
  <2>1. MarkDirty(r) /\ \A q \in Requests \ {r} : request'[q] = request[q]
    BY <1>4, RequestEffect
  <2>2. request[r].dirty \subseteq pending'
    BY <2>1 DEF MarkDirty, Dirty, Shaped
  <2>3. request[r].op = "resync" => Owned \cup {Acl} \subseteq pending'
    BY <2>1 DEF MarkDirty, Dirty
  <2>4. \A v \in Vehicles : row[v].protocol = "v3" => v \in Owned
    BY DEF Owned, NoRow
  <2>q. QED  BY <1>1, <1>2, <2>1, <2>2, <2>3, <2>4 DEF Queued
<1>q. QED  BY <1>3, <1>4

\* While the loop works alone, a job leaves its books only to be in hand.
LEMMA WorkerKeeps ==
    ASSUME Typed, Shaped, shutdown' = "no",
           (\E s \in Syncers : SyncStep(s)) \/ Claim \/ Flush \/ \E j \in Jobs : BackoffElapses(j)
    PROVE  /\ shutdown = "no" /\ UNCHANGED <<db, keyEntry, request, api, unsynced, botched, misread>>
           /\ \A j \in Jobs : Queued(j) => Queued(j)' \/ ReadJob("loop", j)
<1>1. ASSUME NEW s \in Syncers, SyncStep(s)
      PROVE  /\ shutdown = "no" /\ UNCHANGED <<db, keyEntry, request, api, unsynced, botched, misread>>
             /\ \A j \in Jobs : Queued(j) => Queued(j)' \/ ReadJob("loop", j)
  <2>1. UNCHANGED <<shutdown, db, keyEntry, request, api, unsynced, botched, misread>>
    BY <1>1 DEF SyncStep, ReadJob, WriteJob, WriteJobFails, ReportFailures, Requeue, files, history
  <2>2. s = "loop"
    <3>1. sync[s].at # "idle"
      BY <1>1 DEF SyncStep, ReadJob, WriteJob, WriteJobFails, ReportFailures, Requeue
    <3>q. QED  BY <2>1, <3>1, Names DEF Shaped
  <2>3. ASSUME NEW i \in Jobs, ReadJob(s, i)
        PROVE  \A j \in Jobs : Queued(j) => Queued(j)' \/ ReadJob("loop", j)
    <3>1. UNCHANGED pending
      BY <2>3 DEF ReadJob, queue
    <3>q. QED  BY <2>2, <2>3, <3>1, ReadEffect DEF Queued, Loop
  <2>4. ASSUME WriteJob(s) \/ WriteJobFails(s) PROVE \A j \in Jobs : Queued(j) => Queued(j)'
    <3>1. UNCHANGED pending
      BY <2>4 DEF WriteJob, WriteJobFails, queue
    <3>q. QED  BY <2>2, <2>4, <3>1, WriteEffect DEF Queued, Loop
  <2>5. ASSUME ReportFailures(s) PROVE \A j \in Jobs : Queued(j) => Queued(j)'
    <3>1. UNCHANGED pending
      BY <2>5 DEF ReportFailures, queue
    <3>q. QED  BY <2>2, <2>5, <3>1, ReportEffect DEF Queued, Loop
  <2>6. ASSUME Requeue(s) PROVE \A j \in Jobs : Queued(j) => Queued(j)'
    <3>1. pending' = pending \cup sync[s].failed /\ sync[s].jobs = {}
      BY <2>6 DEF Requeue, Shaped
    <3>q. QED  BY <2>2, <3>1 DEF Queued, Loop
  <2>q. QED  BY <1>1, <2>1, <2>2, <2>3, <2>4, <2>5, <2>6 DEF SyncStep
<1>2. ASSUME Claim
      PROVE  /\ shutdown = "no" /\ UNCHANGED <<db, keyEntry, request, api, unsynced, botched, misread>>
             /\ \A j \in Jobs : Queued(j) => Queued(j)'
  <2>1. /\ shutdown = "no" /\ UNCHANGED <<db, keyEntry, request, api, unsynced, botched, misread>>
        /\ pending' = pending \cap backoff
    BY <1>2 DEF Claim, files, history
  <2>2. sync["loop"].jobs = {} /\ sync["loop"].failed = {}
    BY <1>2, Names, ClaimEffect DEF Shaped
  <2>q. QED  BY <1>2, <2>1, <2>2, ClaimEffect DEF Queued, Loop
<1>3. ~Flush
  BY FlushEffect
<1>4. ASSUME NEW j \in Jobs, BackoffElapses(j)
      PROVE  /\ shutdown = "no" /\ UNCHANGED <<db, keyEntry, request, api, unsynced, botched, misread>>
             /\ \A i \in Jobs : Queued(i) => Queued(i)'
  BY <1>4 DEF BackoffElapses, files, history, Queued, Loop
<1>q. QED  BY <1>1, <1>2, <1>3, <1>4

-----------------------------------------------------------------------------
(***************************************************************************)
(* The invariant is kept                                                   *)
(***************************************************************************)
LEMMA LoginsStep ==
    ASSUME Typed, Shaped, LoginsRight, [Next]_vars
    PROVE  LoginsRight'
<1>0. (shutdown = "no" /\ ~unsynced) => \A v \in Vehicles \ misread : Right(v)
  BY DEF LoginsRight
<1> DEFINE Goal == (shutdown' = "no" /\ ~unsynced') => \A v \in Vehicles \ misread' : Right(v)'
<1>1. ASSUME NEW r \in Requests, RequestStep(r) PROVE Goal
  <2>1. ASSUME NEW v \in Vehicles, v \notin misread', shutdown' = "no", ~unsynced' PROVE Right(v)'
    <3>1. Right(v) /\ UNCHANGED <<entry, sync>>
      BY <1>0, <1>1, <2>1, RequestKeeps
    <3>2. v \in request'[r].dirty => Right(v)'
      BY DEF Right, VehicleOwed
    <3>3. row'[v].protocol = "v3" /\ request'[r].op = "resync" => Right(v)'
      BY DEF Right, VehicleOwed
    <3>4. CASE Want(v)' = Want(v) /\ (row[v].protocol = "v3" => row'[v].protocol = "v3")
      <4>1. VehicleOwed(v) => VehicleOwed(v)'
        BY <1>1, <3>4, RequestKeeps, Names DEF VehicleOwed
      <4>q. QED  BY <3>1, <3>4, <4>1 DEF Right, Loop
    <3>q. QED  BY <1>1, <2>1, <3>2, <3>3, <3>4, RequestOwes
  <2>q. QED  BY <2>1
<1>2. ASSUME NEW a \in ApiThreads, ApiStep(a) PROVE Goal
  <2>1. UNCHANGED <<row, account, entry, pending, sync, request, shutdown, unsynced, misread>>
    BY <1>2 DEF ApiStep, CreateKey, DeleteKey, KeyEntryWritten, KeyEntryFails, KeyAclRead, KeyAclWritten,
       db, files, queue, history
  <2>q. QED  BY <1>0, <2>1 DEF Right, Want, Loop, VehicleOwed, Queued
<1>3. ASSUME (\E s \in Syncers : SyncStep(s)) \/ Claim \/ Flush \/ \E j \in Jobs : BackoffElapses(j)
      PROVE  Goal
  <2>1. ASSUME NEW v \in Vehicles, v \notin misread', shutdown' = "no", ~unsynced' PROVE Right(v)'
    <3>1. Right(v) /\ UNCHANGED <<row, account, request>> /\ shutdown = "no" /\ v \in Jobs
      BY <1>0, <1>3, <2>1, WorkerKeeps, Names DEF db
    <3>2. Want(v)' = Want(v)
      BY <3>1 DEF Want
    <3>3. ReadJob("loop", v) => Right(v)'
      <4>1. ReadJob("loop", v) => Loop'.at = "write" /\ Loop'.job = v /\ Loop'.seen = Want(v)
        BY <3>1, ReadEffect, Names DEF Loop
      <4>q. QED  BY <3>2, <4>1 DEF Right
    <3>4. CASE ~ReadJob("loop", v)
      <4>1. VehicleOwed(v) => VehicleOwed(v)'
        <5>1. Queued(v) => Queued(v)'
          BY <1>3, <2>1, <3>1, <3>4, WorkerKeeps
        <5>q. QED  BY <3>1, <5>1 DEF VehicleOwed
      <4>2. ASSUME NEW s \in Syncers, SyncStep(s) PROVE Right(v)'
        <5>1. s = "loop"
          <6>1. sync[s].at # "idle"
            BY <4>2 DEF SyncStep, ReadJob, WriteJob, WriteJobFails, ReportFailures, Requeue
          <6>q. QED  BY <3>1, <6>1, Names DEF Shaped
        <5>2. ASSUME NEW j \in Jobs, ReadJob(s, j) PROVE Right(v)'
          <6>1. j # v /\ UNCHANGED entry
            BY <3>4, <5>1, <5>2 DEF ReadJob, files
          <6>2. Loop.at = "pick" /\ Loop'.job = j
            BY <5>1, <5>2, ReadEffect DEF Loop
          <6>q. QED  BY <3>1, <3>2, <4>1, <6>1, <6>2 DEF Right
        <5>3. ASSUME WriteJob(s) PROVE Right(v)'
          <6>1. /\ Loop.at = "write" /\ Loop'.at = "pick"
                /\ Loop.job = v => entry'[v] = Loop.seen
                /\ Loop.job # v => entry'[v] = entry[v]
            <7>1. entry \in [Vehicles -> Logins]
              BY TypedIs DEF Stored
            <7>2. sync["loop"].at = "write" /\ sync'["loop"].at = "pick"
              BY <5>1, <5>3, WriteEffect
            <7>3. IF sync["loop"].job = Acl THEN UNCHANGED entry
                  ELSE entry' = [entry EXCEPT ![sync["loop"].job] = sync["loop"].seen]
              BY <5>1, <5>3 DEF WriteJob
            <7>q. QED  BY <7>1, <7>2, <7>3, Names DEF Loop
          <6>q. QED  BY <3>1, <3>2, <4>1, <6>1 DEF Right
        <5>4. ASSUME WriteJobFails(s) PROVE Right(v)'
          <6>1. UNCHANGED entry
            BY <5>4 DEF WriteJobFails, files
          <6>2. Loop.at = "write" /\ Loop'.at = "pick" /\ Loop.job \in Loop'.failed
            BY <5>1, <5>4, WriteEffect DEF Loop
          <6>3. CASE Loop.job = v
            BY <6>2, <6>3 DEF Right, VehicleOwed, Queued
          <6>q. QED  BY <3>1, <3>2, <4>1, <6>1, <6>2, <6>3 DEF Right
        <5>5. ASSUME ReportFailures(s) \/ Requeue(s) PROVE Right(v)'
          <6>1. UNCHANGED entry
            BY <5>5 DEF ReportFailures, Requeue, files
          <6>2. Loop.at # "write" /\ Loop'.at # "write"
            <7>1. ASSUME Requeue(s) PROVE Loop.at = "requeue" /\ Loop'.at = "idle"
              BY <5>1, <7>1, Empties DEF Typed, Requeue, Loop
            <7>q. QED  BY <5>1, <5>5, <7>1, ReportEffect DEF Loop
          <6>q. QED  BY <3>1, <3>2, <4>1, <6>1, <6>2 DEF Right
        <5>q. QED  BY <4>2, <5>2, <5>3, <5>4, <5>5 DEF SyncStep
      <4>3. ASSUME Claim PROVE Right(v)'
        <5>1. UNCHANGED entry /\ Loop.at = "idle" /\ Loop'.at = "pick"
          BY <4>3, ClaimEffect DEF Claim, files, Loop
        <5>q. QED  BY <3>1, <3>2, <4>1, <5>1 DEF Right
      <4>4. ~Flush
        BY <2>1, FlushEffect
      <4>5. ASSUME NEW j \in Jobs, BackoffElapses(j) PROVE Right(v)'
        <5>1. UNCHANGED <<entry, sync>>
          BY <4>5 DEF BackoffElapses, files
        <5>q. QED  BY <3>1, <3>2, <4>1, <5>1 DEF Right, Loop
      <4>q. QED  BY <1>3, <4>2, <4>3, <4>4, <4>5
    <3>q. QED  BY <3>3, <3>4
  <2>q. QED  BY <2>1
<1>4. ASSUME NEW okPasswd \in BOOLEAN, NEW okAcl \in BOOLEAN, Restart(okPasswd, okAcl) PROVE Goal
  <2>1. ~unsynced' => entry' = [v \in Vehicles |-> Want(v)]
    BY <1>4 DEF Restart
  <2>2. \A v \in Vehicles : Want(v)' = Want(v)
    BY <1>4 DEF Restart, db, Want
  <2>3. Loop' = Idle
    BY <1>4, Names DEF Restart, Loop
  <2>q. QED  BY <2>1, <2>2, <2>3, Empties DEF Right
<1>5. ASSUME UNCHANGED vars PROVE Goal
  <2>1. UNCHANGED <<row, account, entry, pending, sync, request, shutdown, unsynced, misread>>
    BY <1>5 DEF vars, db, files, queue, history
  <2>q. QED  BY <1>0, <2>1 DEF Right, Want, Loop, VehicleOwed, Queued
<1>6. Goal
  <2> HIDE DEF Goal
  <2>q. QED  BY <1>1, <1>2, <1>3, <1>4, <1>5 DEF Next
<1>q. QED  BY <1>6 DEF LoginsRight

LEMMA AclStep ==
    ASSUME Typed, Shaped, AclRight, [Next]_vars
    PROVE  AclRight'
<1> DEFINE Now == shutdown = "no" /\ ~unsynced /\ misread = {} /\ ~adrift
           Alone == \A a, b \in ApiThreads : api[a].at = "write" /\ api[b].at = "write" => a = b
           Theirs == \A a \in ApiThreads : api[a].at = "write" =>
                        ~WorkerRenders /\ (api[a].seen = WantAcl \/ AclOwed)
           Ours == WorkerRenders => Loop.seen = WantAcl \/ AclOwed
           File == acl = WantAcl \/ AclOwed \/ WorkerRenders \/ \E a \in ApiThreads : api[a].at = "write"
           Goal == Now' => Alone' /\ Theirs' /\ Ours' /\ File'
<1>0. Now => Alone /\ Theirs /\ Ours /\ File
  BY DEF AclRight
<1>1. ASSUME NEW r \in Requests, RequestStep(r) PROVE Goal
  <2> SUFFICES ASSUME Now' PROVE Alone' /\ Theirs' /\ Ours' /\ File'
    OBVIOUS
  <2>1. UNCHANGED <<acl, sync, api>> /\ Now
    BY <1>1, RequestKeeps
  <2>2. AclOwed => AclOwed'
    BY <1>1, <2>1, RequestKeeps, Names DEF AclOwed
  <2>3. WantAcl' = WantAcl \/ AclOwed'
    BY <1>1, RequestOwes DEF AclOwed
  <2>4. (WorkerRenders <=> WorkerRenders') /\ Loop' = Loop
    BY <2>1 DEF WorkerRenders, Loop
  <2>q. QED  BY <1>0, <2>1, <2>2, <2>3, <2>4
<1>2. ASSUME NEW a \in ApiThreads, ApiStep(a) PROVE Goal
  <2> SUFFICES ASSUME Now' PROVE Alone' /\ Theirs' /\ Ours' /\ File'
    OBVIOUS
  <2>1. UNCHANGED <<row, account, facts, pending, sync, request, shutdown, unsynced, misread>>
    BY <1>2 DEF ApiStep, CreateKey, DeleteKey, KeyEntryWritten, KeyEntryFails, KeyAclRead, KeyAclWritten,
       db, files, queue, history
  <2>9. adrift => adrift'
    <3>1. UNCHANGED adrift \/ (adrift' <=> (adrift \/ Rendering)) \/ adrift' = TRUE
      BY <1>2 DEF ApiStep, CreateKey, DeleteKey, KeyEntryWritten, KeyEntryFails, KeyAclRead, KeyAclWritten,
         history
    <3>q. QED  BY <3>1
  <2>2. (WorkerRenders <=> WorkerRenders') /\ Loop' = Loop /\ Now
    BY <2>1, <2>9 DEF WorkerRenders, Loop
  <2>3. \A b \in ApiThreads \ {a} : api'[b] = api[b]
    BY <1>2, KeyEffect
  <2>4. ASSUME api'[a].at \in {"add", "remove", "read"} PROVE Alone' /\ Theirs' /\ Ours' /\ File'
    <3>1. AclOwed'
      BY <2>4 DEF AclOwed
    <3>q. QED  BY <1>0, <2>2, <2>3, <2>4, <3>1
  <2>5. ASSUME NEW k \in Keys, CreateKey(a, k) \/ DeleteKey(a, k) PROVE Alone' /\ Theirs' /\ Ours' /\ File'
    <3>1. api'[a].at \in {"add", "remove", "read"}
      BY <1>2, <2>5, KeyEffect
    <3>q. QED  BY <2>4, <3>1
  <2>6. ASSUME KeyEntryWritten(a) \/ KeyEntryFails(a) PROVE Alone' /\ Theirs' /\ Ours' /\ File'
    <3>1. api'[a].at \in {"add", "remove", "read"}
      BY <1>2, <2>6, KeyEffect
    <3>q. QED  BY <2>4, <3>1
  <2>7. ASSUME KeyAclRead(a) PROVE Alone' /\ Theirs' /\ Ours' /\ File'
    <3>1. UNCHANGED <<keys, acl>> /\ ~Rendering
      BY <2>7 DEF KeyAclRead, db, files
    <3>2. WantAcl' = WantAcl
      BY <2>1, <3>1 DEF WantAcl
    <3>3. api'[a].at = "write" /\ api'[a].seen = WantAcl
      BY <1>2, <2>7, KeyEffect
    <3>4. (\A b \in ApiThreads : api[b].at # "write") /\ ~WorkerRenders
      BY <3>1, Names DEF Rendering, WorkerRenders, Loop
    <3>q. QED  BY <2>2, <2>3, <3>2, <3>3, <3>4
  <2>8. ASSUME KeyAclWritten(a) PROVE Alone' /\ Theirs' /\ Ours' /\ File'
    <3>1. UNCHANGED keys /\ acl' = api[a].seen
      BY <2>8 DEF KeyAclWritten, db
    <3>2. WantAcl' = WantAcl
      BY <2>1, <3>1 DEF WantAcl
    <3>3. api[a].at = "write" /\ api'[a].at = "out"
      BY <1>2, <2>8, KeyEffect
    <3>4. AclOwed => AclOwed'
      BY <2>1, <2>3, <3>3 DEF AclOwed, Queued, Loop
    <3>5. ~WorkerRenders /\ (acl' = WantAcl \/ AclOwed) /\ \A b \in ApiThreads : api'[b].at # "write"
      BY <1>0, <2>2, <2>3, <3>1, <3>3
    <3>q. QED  BY <2>2, <3>2, <3>4, <3>5
  <2>q. QED  BY <1>2, <2>5, <2>6, <2>7, <2>8 DEF ApiStep
<1>3. ASSUME (\E s \in Syncers : SyncStep(s)) \/ Claim \/ Flush \/ \E j \in Jobs : BackoffElapses(j)
      PROVE  Goal
  <2> SUFFICES ASSUME Now' PROVE Alone' /\ Theirs' /\ Ours' /\ File'
    OBVIOUS
  <2>1. UNCHANGED <<row, keys, account, facts, request, api, unsynced, misread>> /\ shutdown = "no"
    BY <1>3, WorkerKeeps DEF db
  <2>2. WantAcl' = WantAcl
    BY <2>1 DEF WantAcl
  <2>3. ~ReadJob("loop", Acl) => (AclOwed => AclOwed')
    <3>1. ~ReadJob("loop", Acl) => (Queued(Acl) => Queued(Acl)')
      BY <1>3, WorkerKeeps, Names
    <3>q. QED  BY <2>1, <3>1 DEF AclOwed
  <2>4. ASSUME UNCHANGED <<acl, adrift>>, ~ReadJob("loop", Acl),
               WorkerRenders' => WorkerRenders /\ Loop'.seen = Loop.seen,
               WorkerRenders => WorkerRenders' \/ Queued(Acl)'
        PROVE  Alone' /\ Theirs' /\ Ours' /\ File'
    <3>1. Now /\ (Queued(Acl)' => AclOwed')
      BY <2>1, <2>4 DEF AclOwed
    <3>q. QED  BY <1>0, <2>1, <2>2, <2>3, <2>4, <3>1
  <2>5. ASSUME NEW s \in Syncers, SyncStep(s) PROVE Alone' /\ Theirs' /\ Ours' /\ File'
    <3>1. s = "loop"
      <4>1. sync[s].at # "idle"
        BY <2>5 DEF SyncStep, ReadJob, WriteJob, WriteJobFails, ReportFailures, Requeue
      <4>q. QED  BY <2>1, <4>1, Names DEF Shaped
    <3>2. ASSUME NEW j \in Jobs, ReadJob(s, j) PROVE Alone' /\ Theirs' /\ Ours' /\ File'
      <4>1. CASE j = Acl
        <5>1. Loop'.at = "write" /\ Loop'.job = Acl /\ Loop'.seen = WantAcl
          BY <3>1, <3>2, <4>1, ReadEffect, Names DEF Loop
        <5>2. ~Rendering
          BY <3>2, <4>1 DEF ReadJob
        <5>3. \A a \in ApiThreads : api[a].at # "write"
          BY <5>2 DEF Rendering
        <5>q. QED  BY <2>1, <2>2, <5>1, <5>3 DEF WorkerRenders
      <4>2. CASE j # Acl
        <5>1. UNCHANGED <<acl, adrift>>
          BY <3>2, <4>2, TypedIs DEF ReadJob, files, Stored
        <5>2. Loop.at = "pick" /\ Loop'.job = j
          BY <3>1, <3>2, ReadEffect DEF Loop
        <5>3. ~ReadJob("loop", Acl)
          BY <3>1, <3>2, <4>2, <5>2, ReadEffect, Names DEF Loop
        <5>q. QED  BY <2>4, <4>2, <5>1, <5>2, <5>3 DEF WorkerRenders
      <4>q. QED  BY <4>1, <4>2
    <3>3. ASSUME WriteJob(s) PROVE Alone' /\ Theirs' /\ Ours' /\ File'
      <4>1. Loop.at = "write" /\ Loop'.at = "pick" /\ UNCHANGED adrift
        BY <3>1, <3>3, WriteEffect DEF WriteJob, history, Loop
      <4>2. ~ReadJob("loop", Acl)
        BY <4>1 DEF ReadJob, Loop
      <4>3. CASE Loop.job = Acl
        <5>1. acl' = Loop.seen
          BY <3>1, <3>3, <4>3 DEF WriteJob, Loop
        <5>2. Now /\ WorkerRenders /\ ~WorkerRenders'
          BY <2>1, <4>1, <4>3 DEF WorkerRenders
        <5>3. (acl' = WantAcl \/ AclOwed) /\ \A a \in ApiThreads : api[a].at # "write"
          BY <1>0, <5>1, <5>2
        <5>q. QED  BY <2>1, <2>2, <2>3, <4>2, <5>2, <5>3
      <4>4. CASE Loop.job # Acl
        <5>1. UNCHANGED acl
          BY <3>1, <3>3, <4>4 DEF WriteJob, Loop
        <5>q. QED  BY <2>4, <4>1, <4>2, <4>4, <5>1 DEF WorkerRenders
      <4>q. QED  BY <4>3, <4>4
    <3>4. ASSUME WriteJobFails(s) PROVE Alone' /\ Theirs' /\ Ours' /\ File'
      <4>1. UNCHANGED <<acl, adrift>>
        BY <3>4 DEF WriteJobFails, files, history
      <4>2. Loop.at = "write" /\ Loop'.at = "pick" /\ Loop.job \in Loop'.failed
        BY <3>1, <3>4, WriteEffect DEF Loop
      <4>3. ~ReadJob("loop", Acl)
        BY <4>2 DEF ReadJob, Loop
      <4>q. QED  BY <2>4, <4>1, <4>2, <4>3 DEF WorkerRenders, Queued
    <3>5. ASSUME ReportFailures(s) \/ Requeue(s) PROVE Alone' /\ Theirs' /\ Ours' /\ File'
      <4>1. UNCHANGED <<acl, adrift>>
        BY <3>5 DEF ReportFailures, Requeue, files, history
      <4>2. Loop.at # "write" /\ Loop'.at \notin {"pick", "write"}
        <5>1. ASSUME Requeue(s) PROVE Loop.at = "requeue" /\ Loop'.at = "idle"
          BY <3>1, <5>1, Empties DEF Typed, Requeue, Loop
        <5>q. QED  BY <3>1, <3>5, <5>1, ReportEffect DEF Loop
      <4>3. ~ReadJob("loop", Acl)
        BY <4>2, ReadEffect, Names DEF Loop
      <4>q. QED  BY <2>4, <4>1, <4>2, <4>3 DEF WorkerRenders
    <3>q. QED  BY <2>5, <3>2, <3>3, <3>4, <3>5 DEF SyncStep
  <2>6. ASSUME Claim PROVE Alone' /\ Theirs' /\ Ours' /\ File'
    <3>1. UNCHANGED <<acl, adrift>> /\ Loop.at = "idle" /\ Loop'.at = "pick"
      BY <2>6, ClaimEffect DEF Claim, files, history, Loop
    <3>2. ~ReadJob("loop", Acl)
      BY <3>1 DEF ReadJob, Loop
    <3>q. QED  BY <2>4, <3>1, <3>2 DEF WorkerRenders
  <2>7. ~Flush
    BY FlushEffect
  <2>8. ASSUME NEW j \in Jobs, BackoffElapses(j) PROVE Alone' /\ Theirs' /\ Ours' /\ File'
    <3>1. UNCHANGED <<acl, adrift, sync>>
      BY <2>8 DEF BackoffElapses, files, history
    <3>2. ~ReadJob("loop", Acl)
      <4>1. ReadJob("loop", Acl) => sync["loop"].at = "pick" /\ sync'["loop"].at = "write"
        BY ReadEffect, Names
      <4>q. QED  BY <3>1, <4>1
    <3>q. QED  BY <2>4, <3>1, <3>2 DEF WorkerRenders, Loop
  <2>q. QED  BY <1>3, <2>5, <2>6, <2>7, <2>8
<1>4. ASSUME NEW okPasswd \in BOOLEAN, NEW okAcl \in BOOLEAN, Restart(okPasswd, okAcl) PROVE Goal
  <2>1. ~unsynced' => acl' = WantAcl
    BY <1>4 DEF Restart
  <2>2. WantAcl' = WantAcl
    BY <1>4 DEF Restart, db, WantAcl
  <2>3. Loop' = Idle /\ \A a \in ApiThreads : api'[a] = NoCall
    BY <1>4, Names DEF Restart, Loop
  <2>q. QED  BY <2>1, <2>2, <2>3, Empties DEF WorkerRenders
<1>5. ASSUME UNCHANGED vars PROVE Goal
  <2>1. UNCHANGED <<row, keys, account, facts, acl, pending, sync, request, api, shutdown, unsynced,
                    misread, adrift>>
    BY <1>5 DEF vars, db, files, queue, history
  <2>q. QED  BY <1>0, <2>1 DEF WorkerRenders, WantAcl, Loop, AclOwed, Queued
<1>6. Goal
  <2> HIDE DEF Goal
  <2>q. QED  BY <1>1, <1>2, <1>3, <1>4, <1>5 DEF Next
<1>q. QED  BY <1>6 DEF AclRight

LEMMA EventsStep ==
    ASSUME Typed, Shaped, EventsOnce, [Next]_vars
    PROVE  EventsOnce'
<1> DEFINE Once(j) == /\ events[j] \in {0, 1}
                      /\ events[j] = 1 => \/ attempts[j] >= MAX_ATTEMPTS
                                          \/ /\ Loop.at = "requeue" /\ j \in Loop.failed
                                             /\ attempts[j] + 1 = MAX_ATTEMPTS
           Goal == shutdown' = "no" => \A j \in Jobs : Once(j)'
<1>0. shutdown = "no" => \A j \in Jobs : Once(j)
  BY DEF EventsOnce
<1>1. ASSUME UNCHANGED <<events, attempts, shutdown>>,
             shutdown' = "no" => Loop' = Loop \/ Loop.at # "requeue"
      PROVE  Goal
  BY <1>0, <1>1
<1>2. ASSUME NEW r \in Requests, RequestStep(r) PROVE Goal
  BY <1>1, <1>2, RequestKeeps DEF Loop
<1>3. ASSUME NEW a \in ApiThreads, ApiStep(a) PROVE Goal
  <2>1. UNCHANGED <<events, attempts, shutdown, sync>>
    BY <1>3 DEF ApiStep, CreateKey, DeleteKey, KeyEntryWritten, KeyEntryFails, KeyAclRead, KeyAclWritten,
       queue, history
  <2>q. QED  BY <1>1, <2>1 DEF Loop
<1>4. ASSUME NEW s \in Syncers, SyncStep(s) PROVE Goal
  <2> SUFFICES ASSUME shutdown' = "no" PROVE \A j \in Jobs : Once(j)'
    OBVIOUS
  <2>0. shutdown = "no" /\ attempts \in [Jobs -> 0..(MAX_ATTEMPTS + 1)]
    BY <1>4, WorkerKeeps, TypedIs DEF Stored
  <2>1. s = "loop"
    <3>1. sync[s].at # "idle"
      BY <1>4 DEF SyncStep, ReadJob, WriteJob, WriteJobFails, ReportFailures, Requeue
    <3>q. QED  BY <2>0, <3>1, Names DEF Shaped
  <2>2. ASSUME NEW j \in Jobs, ReadJob(s, j) PROVE Goal
    <3>1. UNCHANGED <<events, attempts, shutdown>> /\ Loop.at = "pick"
      BY <2>1, <2>2 DEF ReadJob, queue, Loop
    <3>q. QED  BY <1>1, <3>1
  <2>3. ASSUME WriteJob(s) \/ WriteJobFails(s) PROVE Goal
    <3>1. UNCHANGED <<events, attempts, shutdown>> /\ Loop.at = "write"
      BY <2>1, <2>3 DEF WriteJob, WriteJobFails, queue, history, Loop
    <3>q. QED  BY <1>1, <3>1
  <2>4. ASSUME ReportFailures(s) PROVE Goal
    <3>1. /\ Loop.at = "pick" /\ Loop'.at = "requeue" /\ Loop'.failed = Loop.failed /\ UNCHANGED attempts
          /\ events' = [j \in Jobs |-> IF j \in Crossing(Loop.failed) /\ events[j] < 2
                                       THEN events[j] + 1 ELSE events[j]]
      BY <2>1, <2>4, ReportEffect DEF ReportFailures, queue, Loop
    <3>2. \A j \in Jobs : j \in Crossing(Loop.failed) => j \in Loop.failed /\ attempts[j] + 1 = MAX_ATTEMPTS
      BY DEF Crossing
    <3>3. ASSUME NEW j \in Jobs PROVE Once(j)'
      <4>1. Once(j) /\ attempts[j] \in Nat
        BY <1>0, <2>0
      <4>2. CASE j \in Crossing(Loop.failed)
        <5>1. events[j] = 0
          BY <3>1, <3>2, <4>1, <4>2, MqttAssumption
        <5>q. QED  BY <3>1, <3>2, <4>2, <5>1
      <4>3. CASE j \notin Crossing(Loop.failed)
        BY <3>1, <4>1, <4>3
      <4>q. QED  BY <4>2, <4>3
    <3>q. QED  BY <3>3
  <2>5. ASSUME Requeue(s) PROVE Goal
    <3>1. /\ attempts' = [j \in Jobs |-> IF j \in Loop.failed /\ attempts[j] <= MAX_ATTEMPTS
                                         THEN attempts[j] + 1 ELSE attempts[j]]
          /\ UNCHANGED events
      BY <2>1, <2>5 DEF Requeue, history, Loop
    <3>2. ASSUME NEW j \in Jobs PROVE Once(j)'
      <4>1. Once(j) /\ attempts[j] \in Nat /\ UNCHANGED events[j]
        BY <1>0, <2>0, <3>1
      <4>2. attempts'[j] = IF j \in Loop.failed /\ attempts[j] <= MAX_ATTEMPTS
                           THEN attempts[j] + 1 ELSE attempts[j]
        BY <3>1
      <4>q. QED  BY <4>1, <4>2, MqttAssumption
    <3>q. QED  BY <3>2
  <2>q. QED  BY <1>4, <2>2, <2>3, <2>4, <2>5 DEF SyncStep
<1>5. ASSUME Claim PROVE Goal
  <2>1. UNCHANGED <<events, attempts>> /\ Loop.at = "idle" /\ (shutdown' = "no" => shutdown = "no")
    BY <1>5 DEF Claim, history, Loop
  <2>q. QED  BY <1>0, <2>1
<1>6. ASSUME Flush PROVE Goal
  BY <1>6, FlushEffect
<1>7. ASSUME NEW j \in Jobs, BackoffElapses(j) PROVE Goal
  <2>1. UNCHANGED <<events, attempts, shutdown, sync>>
    BY <1>7 DEF BackoffElapses, history
  <2>q. QED  BY <1>1, <2>1 DEF Loop
<1>8. ASSUME NEW okPasswd \in BOOLEAN, NEW okAcl \in BOOLEAN, Restart(okPasswd, okAcl) PROVE Goal
  <2>1. \A j \in Jobs : events'[j] = 0
    BY <1>8 DEF Restart
  <2>q. QED  BY <2>1
<1>9. ASSUME UNCHANGED vars PROVE Goal
  <2>1. UNCHANGED <<events, attempts, shutdown, sync>>
    BY <1>9 DEF vars, queue, history
  <2>q. QED  BY <1>1, <2>1 DEF Loop
<1>10. Goal
  <2> HIDE DEF Goal
  <2>q. QED  BY <1>2, <1>3, <1>4, <1>5, <1>6, <1>7, <1>8, <1>9 DEF Next
<1>q. QED  BY <1>10 DEF EventsOnce

LEMMA KeysStep ==
    ASSUME Typed, Shaped, KeysRight, [Next]_vars
    PROVE  KeysRight'
<1> DEFINE Good(k) == /\ (\A a \in ApiThreads : ~Writing(a, k)) => (k \in keyEntry <=> k \in keys)
                      /\ \A a \in ApiThreads : Writing(a, k) =>
                            /\ k \in keys <=> api[a].at = "add"
                            /\ \A b \in ApiThreads : Writing(b, k) => b = a
           Goal == account' # "deleted" => \A k \in Keys \ botched' : Good(k)'
<1>0. account # "deleted" => \A k \in Keys \ botched : Good(k)
  BY DEF KeysRight
<1>1. ASSUME account' # "deleted" => UNCHANGED keys /\ account # "deleted",
             UNCHANGED <<keyEntry, api, botched>>
      PROVE  Goal
  BY <1>0, <1>1 DEF Writing
<1>2. ASSUME NEW r \in Requests, RequestStep(r) PROVE Goal
  BY <1>1, <1>2, RequestKeeps, RequestOwes
<1>3. ASSUME NEW a \in ApiThreads, ApiStep(a) PROVE Goal
  <2>1. UNCHANGED account /\ \A b \in ApiThreads \ {a} : api'[b] = api[b]
    BY <1>3, KeyEffect DEF ApiStep, CreateKey, DeleteKey, KeyEntryWritten, KeyEntryFails, KeyAclRead,
       KeyAclWritten, db
  <2>2. \A b \in ApiThreads \ {a}, k \in Keys : Writing(b, k)' <=> Writing(b, k)
    BY <2>1 DEF Writing
  <2>3. ASSUME NEW k \in Keys, CreateKey(a, k) PROVE Goal
    <3>1. /\ api[a].at = "out" /\ k \notin keys \cup keyEntry /\ keys' = keys \cup {k}
          /\ (\A b \in ApiThreads : api[b].key # k) /\ UNCHANGED <<keyEntry, botched>>
      BY <2>3 DEF CreateKey, files, history
    <3>2. api'[a].at = "add" /\ api'[a].key = k
      BY <1>3, <2>3, KeyEffect
    <3>3. Good(k)'
      BY <2>2, <3>1, <3>2 DEF Writing
    <3>4. ASSUME NEW l \in Keys, l # k, Good(l) PROVE Good(l)'
      <4>1. ~Writing(a, l) /\ ~Writing(a, l)' /\ (l \in keys' <=> l \in keys)
        BY <3>1, <3>2, <3>4 DEF Writing
      <4>q. QED  BY <2>1, <2>2, <3>1, <3>4, <4>1
    <3> HIDE DEF Good
    <3>q. QED  BY <1>0, <2>1, <3>1, <3>3, <3>4
  <2>4. ASSUME NEW k \in Keys, DeleteKey(a, k) PROVE Goal
    <3>1. /\ api[a].at = "out" /\ k \in keys /\ keys' = keys \ {k} /\ UNCHANGED keyEntry
          /\ botched \subseteq botched'
          /\ k \in botched' \/ \A b \in ApiThreads : ~(api[b].at = "add" /\ api[b].key = k)
      BY <2>4 DEF DeleteKey, files
    <3>2. api'[a].at = "remove" /\ api'[a].key = k
      BY <1>3, <2>4, KeyEffect
    <3>3. Good(k) => Good(k)' \/ k \in botched'
      <4>1. Good(k) /\ k \notin botched' => \A b \in ApiThreads : ~Writing(b, k)
        BY <3>1 DEF Writing
      <4>q. QED  BY <2>2, <3>1, <3>2, <4>1 DEF Writing
    <3>4. ASSUME NEW l \in Keys, l # k, Good(l) PROVE Good(l)'
      <4>1. ~Writing(a, l) /\ ~Writing(a, l)' /\ (l \in keys' <=> l \in keys)
        BY <3>1, <3>2, <3>4 DEF Writing
      <4>q. QED  BY <2>1, <2>2, <3>1, <3>4, <4>1
    <3> HIDE DEF Good
    <3>q. QED  BY <1>0, <2>1, <3>1, <3>3, <3>4
  <2>5. ASSUME KeyEntryWritten(a) PROVE Goal
    <3>0. PICK k \in Keys : k = api[a].key
      BY <1>3, <2>5, KeyEffect
    <3>1. /\ api[a].at \in {"add", "remove"} /\ api'[a].at = "read"
          /\ keyEntry' = IF api[a].at = "add" THEN keyEntry \cup {k} ELSE keyEntry \ {k}
          /\ UNCHANGED <<keys, botched>>
      BY <1>3, <2>5, <3>0, KeyEffect DEF KeyEntryWritten, db, history
    <3>2. Writing(a, k) /\ \A l \in Keys : ~Writing(a, l)'
      BY <3>0, <3>1 DEF Writing
    <3>3. \A l \in Keys \ {k} : ~Writing(a, l) /\ (l \in keyEntry' <=> l \in keyEntry)
      BY <3>0, <3>1 DEF Writing
    <3>4. Good(k) => Good(k)'
      BY <2>2, <3>1, <3>2
    <3>5. ASSUME NEW l \in Keys, l # k, Good(l) PROVE Good(l)'
      BY <2>1, <2>2, <3>1, <3>2, <3>3, <3>5
    <3> HIDE DEF Good
    <3>q. QED  BY <1>0, <2>1, <3>1, <3>4, <3>5
  <2>6. ASSUME KeyEntryFails(a) PROVE Goal
    <3> DEFINE k == api[a].key
    <3>1. /\ api[a].at \in {"add", "remove"} /\ k \in Keys /\ api'[a].at = "read"
          /\ UNCHANGED <<keyEntry, keys>> /\ botched' = botched \cup {k}
      BY <1>3, <2>6, KeyEffect DEF KeyEntryFails, db, files
    <3>2. \A l \in Keys \ {k} : ~Writing(a, l) /\ ~Writing(a, l)'
      BY <3>1 DEF Writing
    <3> HIDE DEF k
    <3>3. ASSUME NEW l \in Keys, l # k, Good(l) PROVE Good(l)'
      BY <2>1, <2>2, <3>1, <3>2, <3>3
    <3> HIDE DEF Good
    <3>q. QED  BY <1>0, <2>1, <3>1, <3>3
  <2>7. ASSUME KeyAclRead(a) \/ KeyAclWritten(a) PROVE Goal
    <3>1. /\ api[a].at \in {"read", "write"} /\ api'[a].at \in {"write", "out"}
          /\ UNCHANGED <<keyEntry, keys, botched>>
      BY <1>3, <2>7, KeyEffect DEF KeyAclRead, KeyAclWritten, db, files
    <3>2. \A l \in Keys : ~Writing(a, l) /\ ~Writing(a, l)'
      BY <3>1 DEF Writing
    <3>3. ASSUME NEW l \in Keys, Good(l) PROVE Good(l)'
      BY <2>1, <2>2, <3>1, <3>2, <3>3
    <3> HIDE DEF Good
    <3>q. QED  BY <1>0, <2>1, <3>1, <3>3
  <2> HIDE DEF Goal
  <2>q. QED  BY <1>3, <2>3, <2>4, <2>5, <2>6, <2>7 DEF ApiStep
<1>4. ASSUME NEW s \in Syncers, SyncStep(s) PROVE Goal
  <2>1. UNCHANGED <<account, keys, keyEntry, api, botched>>
    BY <1>4 DEF SyncStep, ReadJob, WriteJob, WriteJobFails, ReportFailures, Requeue, db, files, history
  <2>q. QED  BY <1>1, <2>1
<1>5. ASSUME Claim \/ Flush \/ \E j \in Jobs : BackoffElapses(j) PROVE Goal
  <2>1. UNCHANGED <<account, keys, keyEntry, api, botched>>
    BY <1>5 DEF Claim, Flush, BackoffElapses, db, files, history
  <2>q. QED  BY <1>1, <2>1
<1>6. ASSUME NEW okPasswd \in BOOLEAN, NEW okAcl \in BOOLEAN, Restart(okPasswd, okAcl) PROVE Goal
  <2>1. (\A a \in ApiThreads : api'[a].at = "out") /\ UNCHANGED <<account, keys>>
    BY <1>6, Empties DEF Restart, db
  <2>2. ASSUME NEW k \in Keys PROVE (\E a \in ApiThreads : Writing(a, k)) => k \in Interrupted
    BY DEF Writing, Interrupted
  <2>3. ASSUME NEW k \in Keys, k \notin botched', k \notin botched => Good(k)
        PROVE  k \in keyEntry' <=> k \in keys
    <3>1. CASE okPasswd
      BY <1>6, <2>2, <2>3, <3>1 DEF Restart
    <3>2. CASE ~okPasswd
      BY <1>6, <2>2, <2>3, <3>2 DEF Restart
    <3>q. QED  BY <3>1, <3>2
  <2>4. \A a \in ApiThreads, k \in Keys : ~Writing(a, k)'
    BY <2>1 DEF Writing
  <2>q. QED  BY <1>0, <2>1, <2>3, <2>4
<1>7. ASSUME UNCHANGED vars PROVE Goal
  <2>1. UNCHANGED <<account, keys, keyEntry, api, botched>>
    BY <1>7 DEF vars, db, files, history
  <2>q. QED  BY <1>1, <2>1
<1>8. Goal
  <2> HIDE DEF Goal
  <2>q. QED  BY <1>2, <1>3, <1>4, <1>5, <1>6, <1>7 DEF Next
<1>q. QED  BY <1>8 DEF KeysRight

-----------------------------------------------------------------------------
(***************************************************************************)
(* The theorems                                                            *)
(***************************************************************************)

\* Whatever the broker's files have wrong is owed by the queue, by the worker or by a
\* request that has still to mark it; a job that keeps failing is reported once, and an API
\* key's login is wrong only while its operation has still to write it.
THEOREM MqttInvariance == Spec => [](CredentialsInv /\ KeysRight)
<1>1. Init => CredentialsInv /\ KeysRight
  <2> SUFFICES ASSUME Init PROVE CredentialsInv /\ KeysRight
    OBVIOUS
  <2>1. Typed /\ Shaped
    BY TypedInit
  <2>2. Loop = Idle
    BY Names DEF Init, Loop
  <2>3. LoginsRight
    BY <2>2, Empties DEF Init, LoginsRight, Right, Want, NoRow
  <2>4. {v \in Vehicles : row[v].protocol = "v3"} = {}
    BY DEF Init, NoRow
  <2>5. acl = WantAcl
    BY <2>4 DEF Init, WantAcl
  <2>6. \A a \in ApiThreads : api[a] = NoCall
    BY DEF Init
  <2>7. AclRight
    BY <2>2, <2>5, <2>6, Empties DEF AclRight, WorkerRenders
  <2>8. EventsOnce
    BY DEF Init, EventsOnce
  <2>9. KeysRight
    BY <2>6, Empties DEF Init, KeysRight, Writing
  <2>q. QED  BY <2>1, <2>3, <2>7, <2>8, <2>9 DEF CredentialsInv
<1>2. CredentialsInv /\ KeysRight /\ [Next]_vars => (CredentialsInv /\ KeysRight)'
  BY TypedStep, LoginsStep, AclStep, EventsStep, KeysStep DEF CredentialsInv
<1>q. QED  BY <1>1, <1>2, PTL DEF Spec

\* Types.
THEOREM MqttTypes == Spec => []TypeOK
<1>1. CredentialsInv => TypeOK
  BY DEF CredentialsInv, Typed
<1>q. QED  BY <1>1, MqttInvariance, PTL

\* NoLostCorrection: a login or an ACL the database no longer asks for is always somebody's
\* to correct, and "Exactly once" holds of the security event, with any number of vehicles,
\* requests, write failures and restarts.
THEOREM CorrectionsAreOwed == Spec => []NoLostCorrection
<1>1. CredentialsInv => NoLostCorrection
  <2> SUFFICES ASSUME CredentialsInv, shutdown = "no"
               PROVE  /\ ~unsynced => \A v \in Vehicles \ misread : entry[v] # Want(v) => Owed(v)
                      /\ ~unsynced /\ misread = {} /\ ~adrift /\ acl # WantAcl
                            => Owed(Acl) \/ \E a \in ApiThreads : api[a].at # "out"
                      /\ \A j \in Jobs : events[j] <= 1
    BY DEF NoLostCorrection
  <2>1. \A j \in Jobs : Queued(j) => Owed(j)
    BY Names DEF Queued, Owed, Loop
  <2>2. \A j \in Jobs, r \in Requests : j \in request[r].dirty => Owed(j)
    BY DEF CredentialsInv, Shaped, Owed, Dirty
  <2>3. \A v \in Vehicles, r \in Requests :
          row[v].protocol = "v3" /\ request[r].op = "resync" => Owed(v) /\ Owed(Acl)
    BY DEF Owed, Dirty, Owned, NoRow
  <2>4. \A r \in Requests : request[r].op = "resync" => Owed(Acl)
    BY DEF Owed, Dirty
  <2>5. \A v \in Vehicles : VehicleOwed(v) => Owed(v)
    BY <2>1, <2>2, <2>3, Names DEF VehicleOwed
  <2>6. AclOwed => Owed(Acl) \/ \E a \in ApiThreads : api[a].at # "out"
    BY <2>1, <2>2, <2>4, Names DEF AclOwed
  <2>7. \A j \in Jobs : Loop.at = "write" /\ Loop.job = j => Owed(j)
    BY Names DEF Owed, Loop
  <2>8. ASSUME ~unsynced, NEW v \in Vehicles \ misread, entry[v] # Want(v) PROVE Owed(v)
    <3>1. Right(v) /\ v \in Jobs
      BY <2>8, Names DEF CredentialsInv, LoginsRight
    <3>q. QED  BY <2>5, <2>7, <2>8, <3>1 DEF Right
  <2>9. ASSUME ~unsynced, misread = {}, ~adrift, acl # WantAcl
        PROVE  Owed(Acl) \/ \E a \in ApiThreads : api[a].at # "out"
    BY <2>6, <2>7, <2>9, Names DEF CredentialsInv, AclRight, WorkerRenders
  <2>10. \A j \in Jobs : events[j] <= 1
    BY DEF CredentialsInv, EventsOnce
  <2>q. QED  BY <2>8, <2>9, <2>10
<1>q. QED  BY <1>1, MqttInvariance, PTL

\* KeyEntriesCurrent: once no key operation is under way, the password file lists exactly
\* the live API keys, but for those whose write failed or was overtaken by their deletion.
THEOREM KeyEntriesStayCurrent == Spec => []KeyEntriesCurrent
<1>1. KeysRight => KeyEntriesCurrent
  BY DEF KeysRight, KeyEntriesCurrent, Writing
<1>q. QED  BY <1>1, MqttInvariance, PTL
=============================================================================
