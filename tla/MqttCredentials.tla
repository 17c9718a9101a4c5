-------------------------- MODULE MqttCredentials --------------------------
(***************************************************************************)
(* How database changes reach the broker's password and ACL files:         *)
(*                                                                         *)
(*  - app/crud/vehicle.py and app/crud/user.py commit a change and then    *)
(*    mark the vehicle, or the ACL, dirty;                                 *)
(*  - app/services/mqtt_sync_worker.py claims the dirty jobs, derives the  *)
(*    wanted state from the database and writes it, requeueing failures;   *)
(*  - app/crud/apikey.py writes API key entries and the ACL itself, in the *)
(*    request's thread;                                                    *)
(*  - app/services/mqtt_auth_manager.py holds the file lock for a write,   *)
(*    but not while it reads the database.                                 *)
(*                                                                         *)
(* One account owns everything.  A vehicle's row is its protocol and its   *)
(* password; `facts' stands for whatever else the ACL is derived from      *)
(* (username, admin rights, support grants).                               *)
(***************************************************************************)
EXTENDS Naturals, FiniteSets, TLC

CONSTANTS
    Vehicles, Keys,
    Requests,      \* threads that change vehicles or the account
    ApiThreads,    \* threads that create and delete API keys
    Passwords,
    MAX_ATTEMPTS,
    MayFail,       \* file writes may fail
    MaxCommits,    \* bound on the number of database changes
    MaxRestarts,   \* bound on the number of restarts
    Acl, Absent, NoKey

ASSUME MqttAssumption ==
    /\ Acl \notin Vehicles
    /\ Absent \notin Passwords
    /\ NoKey \notin Keys
    /\ MAX_ATTEMPTS \in Nat \ {0}
    /\ MayFail \in BOOLEAN
    /\ MaxCommits \in Nat /\ MaxRestarts \in Nat

VARIABLES
    row, keys, account, facts,     \* the database
    commits,                       \* how many changes have been committed
    entry, keyEntry, acl,          \* the password file and the ACL file
    pending, attempts, backoff,    \* _pending, _attempts, jobs whose _retry_at is ahead
    sync,                          \* the sync loop's and flush()'s progress
    request,                       \* where each CRUD request is
    api,                           \* where each API key operation is
    shutdown, restarts,
    events,                        \* history: security events raised for each job
    botched, unsynced,             \* history: key writes that failed, or whose key was deleted
                                   \* before they were made; a failed startup sync
    misread,                       \* history: vehicles deleted under a protocol they no longer had
    adrift                        \* history: ACL renderings overlapped, or a key operation's failed

db      == <<row, keys, account, facts, commits>>
files   == <<entry, keyEntry, acl>>
queue   == <<pending, attempts, backoff>>
history == <<events, botched, unsynced, misread, adrift>>
vars == <<db, files, queue, sync, request, api, shutdown, restarts, history>>

Jobs == Vehicles \cup {Acl}
Syncers == {"loop", "flush"}
NoRow == [protocol |-> "none", pw |-> Absent]
Idle == [at |-> "idle", jobs |-> {}, failed |-> {}, job |-> Acl, seen |-> Absent]
NoRequest == [at |-> "out", op |-> "none", v |-> Acl, old |-> "none", dirty |-> {}]
NoCall == [at |-> "out", key |-> NoKey, seen |-> Absent]

(***************************************************************************)
(* What the files should say, as _sync_vehicle() and regenerate_acl_file() *)
(* derive it from the database                                             *)
(***************************************************************************)
Want(v) == IF row[v].protocol = "v3" /\ account = "active" THEN row[v].pw ELSE Absent

WantAcl ==
    LET cars == {v \in Vehicles : row[v].protocol = "v3"}
    IN  [names |-> IF account # "active" THEN {} ELSE cars \cup (IF cars = {} THEN {} ELSE keys),
         facts |-> facts]

-----------------------------------------------------------------------------
Init ==
    /\ row = [v \in Vehicles |-> NoRow] /\ keys = {} /\ account = "active" /\ facts = 0
    /\ commits = 0
    /\ entry = [v \in Vehicles |-> Absent] /\ keyEntry = {}
    /\ acl = [names |-> {}, facts |-> 0]
    /\ pending = {} /\ attempts = [j \in Jobs |-> 0] /\ backoff = {}
    /\ sync = [s \in Syncers |-> Idle]
    /\ request = [r \in Requests |-> NoRequest]
    /\ api = [a \in ApiThreads |-> NoCall]
    /\ shutdown = "no" /\ restarts = 0
    /\ events = [j \in Jobs |-> 0]
    /\ botched = {} /\ unsynced = FALSE /\ misread = {} /\ adrift = FALSE

(***************************************************************************)
(* Vehicle and account changes: read, commit, mark dirty                   *)
(***************************************************************************)
Commits == commits < MaxCommits /\ commits' = commits + 1

\* create_vehicle(): commit, then mark if the vehicle speaks MQTT.
CreateVehicle(r, v, protocol, pw) ==
    /\ request[r].at = "out" /\ account # "deleted"
    /\ row[v] = NoRow /\ Commits
    /\ row' = [row EXCEPT ![v] = [protocol |-> protocol, pw |-> pw]]
    /\ request' = [request EXCEPT ![r].at = "mark",
                     ![r].dirty = IF protocol = "v3" THEN {v, Acl} ELSE {}]
    /\ UNCHANGED <<keys, account, facts, files, queue, sync, api, shutdown, restarts, history>>

\* update_vehicle() and delete_vehicle() read the row first.
ReadVehicle(r, v, op) ==
    /\ request[r].at = "out" /\ commits < MaxCommits
    /\ row[v] # NoRow
    /\ request' = [request EXCEPT ![r] = [at |-> "read", op |-> op, v |-> v,
                                          old |-> row[v].protocol, dirty |-> {}]]
    /\ UNCHANGED <<db, files, queue, sync, api, shutdown, restarts, history>>

\* The protocol the row has after the update: the ORM only writes a column that differs
\* from what this session read.
NewProtocol(r, protocol) ==
    IF protocol = request[r].old THEN row[request[r].v].protocol ELSE protocol

\* Mutant of UpdateVehicle: a protocol switch is not noticed.
UpdateVehicleQuietly(r, protocol, pw, newpw) ==
    /\ request[r].at = "read" /\ request[r].op = "update"
    /\ row[request[r].v] # NoRow /\ Commits
    /\ LET v == request[r].v
       IN  /\ row' = [row EXCEPT ![v].protocol = NewProtocol(r, protocol),
                                 ![v].pw = IF newpw THEN pw ELSE @]
           /\ request' = [request EXCEPT ![r].at = "mark",
                            ![r].dirty = IF newpw THEN {v} ELSE {}]
    /\ UNCHANGED <<keys, account, facts, files, queue, sync, api, shutdown, restarts, history>>

\* update_vehicle(): marks the vehicle if its password or protocol changed, the ACL if
\* its protocol did.
UpdateVehicle(r, protocol, pw, newpw) ==
    /\ request[r].at = "read" /\ request[r].op = "update"
    /\ row[request[r].v] # NoRow /\ Commits
    /\ LET v == request[r].v
           switched == request[r].old # NewProtocol(r, protocol)
       IN  /\ row' = [row EXCEPT ![v].protocol = NewProtocol(r, protocol),
                                 ![v].pw = IF newpw THEN pw ELSE @]
           /\ request' = [request EXCEPT ![r].at = "mark",
                            ![r].dirty = IF switched THEN {v, Acl} ELSE IF newpw THEN {v} ELSE {}]
    /\ UNCHANGED <<keys, account, facts, files, queue, sync, api, shutdown, restarts, history>>

\* update_vehicle() of a row that has gone meanwhile raises.
UpdateRaises(r) ==
    /\ request[r].at = "read" /\ request[r].op = "update"
    /\ row[request[r].v] = NoRow
    /\ request' = [request EXCEPT ![r] = NoRequest]
    /\ UNCHANGED <<db, files, queue, sync, api, shutdown, restarts, history>>

\* delete_vehicle(): marks according to the protocol read before the commit.
DeleteVehicle(r) ==
    /\ request[r].at = "read" /\ request[r].op = "delete" /\ Commits
    /\ LET v == request[r].v
       IN  /\ row' = [row EXCEPT ![v] = NoRow]
           /\ request' = [request EXCEPT ![r].at = "mark",
                            ![r].dirty = IF request[r].old = "v3" THEN {v, Acl} ELSE {}]
           /\ misread' = IF request[r].old = row[v].protocol THEN misread ELSE misread \cup {v}
    /\ UNCHANGED <<keys, account, facts, files, queue, sync, api, shutdown, restarts,
                   events, botched, unsynced, adrift>>

\* update_user(): activation or deactivation; _queue_broker_resync_for_user() queries the
\* owned vehicles after the commit.
SetActive(r, state) ==
    /\ request[r].at = "out" /\ account \notin {state, "deleted"} /\ Commits
    /\ account' = state
    /\ request' = [request EXCEPT ![r].at = "mark", ![r].op = "resync"]
    /\ UNCHANGED <<row, keys, facts, files, queue, sync, api, shutdown, restarts, history>>

\* update_user() with a new username or admin flag, support mode granted or ended.
ChangeFacts(r) ==
    /\ request[r].at = "out" /\ account # "deleted" /\ Commits
    /\ facts' = 1 - facts
    /\ request' = [request EXCEPT ![r].at = "mark", ![r].dirty = {Acl}]
    /\ UNCHANGED <<row, keys, account, files, queue, sync, api, shutdown, restarts, history>>

\* delete_user(): the cascade takes vehicles and keys; only the vehicles are marked.
DeleteUser(r) ==
    /\ request[r].at = "out" /\ account # "deleted" /\ Commits
    /\ account' = "deleted" /\ keys' = {}
    /\ row' = [v \in Vehicles |-> NoRow]
    /\ request' = [request EXCEPT ![r].at = "mark",
                     ![r].dirty = {v \in Vehicles : row[v] # NoRow} \cup {Acl}]
    /\ UNCHANGED <<facts, files, queue, sync, api, shutdown, restarts, history>>

Owned == {v \in Vehicles : row[v] # NoRow}

\* What request r is going to mark.
Dirty(r) == IF request[r].op = "resync" THEN Owned \cup {Acl} ELSE request[r].dirty

\* mark_vehicle_dirty(), mark_acl_dirty(), after the commit.
MarkDirty(r) ==
    /\ request[r].at = "mark"
    /\ pending' = pending \cup Dirty(r)
    /\ request' = [request EXCEPT ![r] = NoRequest]
    /\ UNCHANGED <<db, files, attempts, backoff, sync, api, shutdown, restarts, history>>

(***************************************************************************)
(* The sync worker                                                         *)
(***************************************************************************)

\* The loop's tick: _claim() takes the jobs whose backoff has elapsed.  A shutdown that
\* finds the loop asleep leaves it one more cycle.
Claim ==
    /\ sync["loop"].at = "idle" /\ pending \ backoff # {}
    /\ shutdown # "over"
    /\ shutdown' = IF shutdown = "no" THEN "no" ELSE "over"
    /\ sync' = [sync EXCEPT !["loop"].at = "pick", !["loop"].jobs = pending \ backoff]
    /\ pending' = pending \cap backoff
    /\ UNCHANGED <<db, files, attempts, backoff, request, api, restarts, history>>

BackoffElapses(j) ==
    /\ j \in backoff
    /\ backoff' = backoff \ {j}
    /\ UNCHANGED <<db, files, pending, attempts, sync, request, api, shutdown, restarts, history>>

\* flush() at shutdown: forgets every backoff and claims all that is pending.
Flush ==
    /\ shutdown = "no"
    /\ shutdown' = IF sync["loop"].at = "idle" THEN "last cycle" ELSE "over"
    /\ backoff' = {}
    /\ pending' = {}
    /\ sync' = IF pending = {} THEN sync
               ELSE [sync EXCEPT !["flush"].at = "pick", !["flush"].jobs = pending]
    /\ UNCHANGED <<db, files, attempts, request, api, restarts, history>>

\* Somebody has rendered the ACL and not yet written it.
Rendering == \/ \E a \in ApiThreads : api[a].at = "write"
             \/ \E s \in Syncers : sync[s].at = "write" /\ sync[s].job = Acl

\* _apply(): the next job in sorted order, the ACL first; the database is read outside the
\* file lock (and a password is hashed).
ReadJob(s, j) ==
    /\ sync[s].at = "pick" /\ j \in sync[s].jobs
    /\ Acl \in sync[s].jobs => j = Acl
    /\ sync' = [sync EXCEPT ![s].at = "write", ![s].job = j, ![s].jobs = @ \ {j},
                            ![s].seen = IF j = Acl THEN WantAcl ELSE Want(j)]
    /\ adrift' = (adrift \/ (j = Acl /\ Rendering))
    /\ UNCHANGED <<db, files, queue, request, api, shutdown, restarts, events, botched, unsynced,
                   misread>>

\* The write, under the file lock.
WriteJob(s) ==
    /\ sync[s].at = "write"
    /\ IF sync[s].job = Acl
       THEN acl' = sync[s].seen /\ UNCHANGED entry
       ELSE entry' = [entry EXCEPT ![sync[s].job] = sync[s].seen] /\ UNCHANGED acl
    /\ sync' = [sync EXCEPT ![s].at = "pick", ![s].seen = Absent]
    /\ UNCHANGED <<db, keyEntry, queue, request, api, shutdown, restarts, history>>

\* The write returned False or something raised.
WriteJobFails(s) ==
    /\ MayFail
    /\ sync[s].at = "write"
    /\ sync' = [sync EXCEPT ![s].at = "pick", ![s].seen = Absent, ![s].failed = @ \cup {sync[s].job}]
    /\ UNCHANGED <<db, files, queue, request, api, shutdown, restarts, history>>

\* _report_failures(): the failed jobs whose attempts reach MAX_ATTEMPTS with this failure.
Crossing(failed) == {j \in failed : attempts[j] + 1 = MAX_ATTEMPTS}

\* The end of _apply(): _report_failures() raises one event for the crossing jobs.
ReportFailures(s) ==
    /\ sync[s].at = "pick" /\ sync[s].jobs = {}
    /\ events' = [j \in Jobs |-> IF j \in Crossing(sync[s].failed) /\ events[j] < 2
                                THEN events[j] + 1 ELSE events[j]]
    /\ sync' = [sync EXCEPT ![s].at = "requeue"]
    /\ UNCHANGED <<db, files, queue, request, api, shutdown, restarts, botched, unsynced, misread, adrift>>

\* Mutant of Requeue: a job is given up after MAX_ATTEMPTS.
RequeueGivesUp(s) ==
    /\ sync[s].at = "requeue"
    /\ attempts' = [j \in Jobs |-> IF j \in sync[s].failed /\ attempts[j] <= MAX_ATTEMPTS
                                   THEN attempts[j] + 1 ELSE attempts[j]]
    /\ pending' = pending \cup {j \in sync[s].failed : attempts[j] + 1 < MAX_ATTEMPTS}
    /\ backoff' = backoff \cup sync[s].failed
    /\ sync' = [sync EXCEPT ![s] = Idle]
    /\ UNCHANGED <<db, files, request, api, shutdown, restarts, history>>

\* _requeue(): failed jobs go back with a backoff.  Attempts are counted up to one past
\* MAX_ATTEMPTS: nothing distinguishes higher values.
Requeue(s) ==
    /\ sync[s].at = "requeue"
    /\ attempts' = [j \in Jobs |-> IF j \in sync[s].failed /\ attempts[j] <= MAX_ATTEMPTS
                                   THEN attempts[j] + 1 ELSE attempts[j]]
    /\ pending' = pending \cup sync[s].failed
    /\ backoff' = backoff \cup sync[s].failed
    /\ sync' = [sync EXCEPT ![s] = Idle]
    /\ UNCHANGED <<db, files, request, api, shutdown, restarts, history>>

(***************************************************************************)
(* API keys: the request's own thread writes the files, ignoring failures  *)
(***************************************************************************)

\* create_api_key(): a new key, then its broker login.
CreateKey(a, k) ==
    /\ api[a].at = "out" /\ account # "deleted"
    /\ k \notin keys \cup keyEntry /\ Commits
    /\ \A b \in ApiThreads : api[b].key # k                 \* the prefix is a fresh one
    /\ keys' = keys \cup {k}
    /\ api' = [api EXCEPT ![a] = [at |-> "add", key |-> k, seen |-> Absent]]
    /\ UNCHANGED <<row, account, facts, files, queue, sync, request, shutdown, restarts, history>>

\* A key is deleted by its owner, revoked by a password change, or expires; its creation
\* may not have written its login yet.
DeleteKey(a, k) ==
    /\ api[a].at = "out" /\ k \in keys /\ Commits
    /\ keys' = keys \ {k}
    /\ api' = [api EXCEPT ![a] = [at |-> "remove", key |-> k, seen |-> Absent]]
    /\ botched' = IF \E b \in ApiThreads : api[b].at = "add" /\ api[b].key = k
                  THEN botched \cup {k} ELSE botched
    /\ UNCHANGED <<row, account, facts, files, queue, sync, request, shutdown, restarts, events,
                   unsynced, misread, adrift>>

\* Mutant of KeyEntryWritten: the login is not taken out of the password file.
KeyEntryOnlyAdded(a) ==
    /\ api[a].at \in {"add", "remove"}
    /\ keyEntry' = IF api[a].at = "add" THEN keyEntry \cup {api[a].key} ELSE keyEntry
    /\ api' = [api EXCEPT ![a].at = "read"]
    /\ UNCHANGED <<db, entry, acl, queue, sync, request, shutdown, restarts, history>>

\* add_api_key_user() or remove_api_key_user(), under the file lock.
KeyEntryWritten(a) ==
    /\ api[a].at \in {"add", "remove"}
    /\ keyEntry' = IF api[a].at = "add" THEN keyEntry \cup {api[a].key} ELSE keyEntry \ {api[a].key}
    /\ api' = [api EXCEPT ![a].at = "read"]
    /\ UNCHANGED <<db, entry, acl, queue, sync, request, shutdown, restarts, history>>

KeyEntryFails(a) ==
    /\ MayFail
    /\ api[a].at \in {"add", "remove"}
    /\ botched' = botched \cup {api[a].key}
    /\ api' = [api EXCEPT ![a].at = "read"]
    /\ UNCHANGED <<db, files, queue, sync, request, shutdown, restarts, events, unsynced, misread, adrift>>

\* regenerate_acl_file(): renders from the database, without the lock...
KeyAclRead(a) ==
    /\ api[a].at = "read"
    /\ api' = [api EXCEPT ![a].at = "write", ![a].seen = WantAcl]
    /\ adrift' = (adrift \/ Rendering)
    /\ UNCHANGED <<db, files, queue, sync, request, shutdown, restarts, events, botched, unsynced,
                   misread>>

\* ...and writes under the lock; a failure is not noticed.
KeyAclWritten(a) ==
    /\ api[a].at = "write"
    /\ \/ acl' = api[a].seen /\ UNCHANGED adrift
       \/ MayFail /\ UNCHANGED acl /\ adrift' = TRUE
    /\ api' = [api EXCEPT ![a] = NoCall]
    /\ UNCHANGED <<db, entry, keyEntry, queue, sync, request, shutdown, restarts, events, botched,
                   unsynced, misread>>

(***************************************************************************)
(* A crash or a shutdown, and sync_all_from_db() at the next start         *)
(***************************************************************************)
Interrupted == {api[a].key : a \in {b \in ApiThreads : api[b].at \in {"add", "remove"}}}

\* An active key without an entry is left without; an entry without an active key goes.
Restart(okPasswd, okAcl) ==
    /\ restarts < MaxRestarts /\ restarts' = restarts + 1
    /\ MayFail \/ (okPasswd /\ okAcl)
    /\ entry' = IF okPasswd THEN [v \in Vehicles |-> Want(v)] ELSE entry
    /\ keyEntry' = IF okPasswd THEN keyEntry \cap keys ELSE keyEntry
    /\ acl' = IF okAcl THEN WantAcl ELSE acl
    /\ unsynced' = ~(okPasswd /\ okAcl) /\ misread' = {} /\ adrift' = FALSE
    /\ botched' = IF okPasswd THEN (botched \cup Interrupted) \cap keys ELSE botched \cup Interrupted
    /\ pending' = {} /\ attempts' = [j \in Jobs |-> 0] /\ backoff' = {}
    /\ sync' = [s \in Syncers |-> Idle]
    /\ request' = [r \in Requests |-> NoRequest]
    /\ api' = [a \in ApiThreads |-> NoCall]
    /\ shutdown' = "no"
    /\ events' = [j \in Jobs |-> 0]
    /\ UNCHANGED db

-----------------------------------------------------------------------------
RequestStep(r) ==
    \/ \E v \in Vehicles, protocol \in {"v2", "v3"}, pw \in Passwords :
          CreateVehicle(r, v, protocol, pw)
    \/ \E v \in Vehicles, op \in {"update", "delete"} : ReadVehicle(r, v, op)
    \/ \E protocol \in {"v2", "v3"}, pw \in Passwords, newpw \in BOOLEAN :
          UpdateVehicle(r, protocol, pw, newpw)
    \/ UpdateRaises(r) \/ DeleteVehicle(r) \/ ChangeFacts(r) \/ DeleteUser(r)
    \/ \E state \in {"active", "inactive"} : SetActive(r, state)
    \/ MarkDirty(r)

ApiStep(a) ==
    \/ \E k \in Keys : CreateKey(a, k) \/ DeleteKey(a, k)
    \/ KeyEntryWritten(a) \/ KeyEntryFails(a) \/ KeyAclRead(a) \/ KeyAclWritten(a)

SyncStep(s) ==
    \/ \E j \in Jobs : ReadJob(s, j)
    \/ WriteJob(s) \/ WriteJobFails(s) \/ ReportFailures(s) \/ Requeue(s)

Next ==
    \/ \E r \in Requests : RequestStep(r)
    \/ \E a \in ApiThreads : ApiStep(a)
    \/ \E s \in Syncers : SyncStep(s)
    \/ Claim \/ Flush \/ \E j \in Jobs : BackoffElapses(j)
    \/ \E okPasswd, okAcl \in BOOLEAN : Restart(okPasswd, okAcl)

Spec == Init /\ [][Next]_vars

\* A request that committed marks; the worker ticks, a backoff elapses, and a write that is
\* retried for ever succeeds at some time (the disk is not broken for good).
Fairness ==
    /\ \A r \in Requests : WF_vars(MarkDirty(r))
    /\ WF_vars(Claim)
    /\ \A j \in Jobs : WF_vars(BackoffElapses(j))
    /\ \A s \in Syncers : WF_vars(SyncStep(s))
    /\ \A j \in Jobs : SF_vars(sync["loop"].job = j /\ WriteJob("loop"))

FairSpec == Spec /\ Fairness

(***************************************************************************)
(* Properties                                                              *)
(***************************************************************************)
\* A job someone still has to do: pending, claimed, failed, or about to be marked.
Owed(j) ==
    \/ j \in pending
    \/ \E s \in Syncers : \/ j \in sync[s].jobs \cup sync[s].failed
                          \/ sync[s].at = "write" /\ sync[s].job = j
    \/ \E r \in Requests : j \in Dirty(r)

TypeOK ==
    /\ row \in [Vehicles -> [protocol : {"none", "v2", "v3"}, pw : Passwords \cup {Absent}]]
    /\ keys \subseteq Keys /\ account \in {"active", "inactive", "deleted"}
    /\ entry \in [Vehicles -> Passwords \cup {Absent}] /\ keyEntry \subseteq Keys
    /\ acl \in [names : SUBSET (Vehicles \cup Keys), facts : {0, 1}]
    /\ pending \subseteq Jobs /\ backoff \subseteq Jobs
    /\ attempts \in [Jobs -> 0..(MAX_ATTEMPTS + 1)]
    /\ \A s \in Syncers : sync[s].jobs \cup sync[s].failed \subseteq Jobs
    /\ botched \subseteq Keys /\ misread \subseteq Vehicles /\ adrift \in BOOLEAN

\* Whatever the broker's files have wrong, somebody still owes the correction, through
\* write failures, re-marking while a job is in hand, and crashes: a vehicle's login that
\* differs from what the database asks for, in particular one to be revoked
\* (mqtt_sync_worker.py:89-102), and the ACL file.  One that keeps failing raises a single
\* security event (158-165, "Exactly once").  Not claimed while flush() runs beside the
\* loop, after a failed startup sync, nor for a vehicle that delete_vehicle() took for one
\* of another protocol; for the ACL not once create_api_key()'s write has failed (it does
\* not look), or it and the worker have rendered the file side by side: both do so outside
\* the file lock, and the older rendering may be written last.
NoLostCorrection ==
    shutdown = "no" =>
        /\ ~unsynced => \A v \in Vehicles \ misread : entry[v] # Want(v) => Owed(v)
        /\ ~unsynced /\ misread = {} /\ ~adrift /\ acl # WantAcl
             => Owed(Acl) \/ \E a \in ApiThreads : api[a].at # "out"
        /\ \A j \in Jobs : events[j] <= 1

\* The password file lists exactly the live API keys whenever no key operation is under
\* way, apart from keys whose write failed or was cut short, keys deleted while their
\* creation had yet to write, and until the account is deleted (crud/apikey.py:140-144,
\* 228-231).
KeyEntriesCurrent ==
    (\A a \in ApiThreads : api[a].at = "out") /\ account # "deleted"
        => \A k \in Keys \ botched : k \in keyEntry <=> k \in keys

\* Once the database stops changing (it changes MaxCommits times at most), every vehicle's
\* login becomes right for good, through any number of failed writes.
Converges == \A v \in Vehicles :
    <>[](entry[v] = Want(v) \/ shutdown # "no" \/ unsynced \/ v \in misread)

\* What crud/apikey.py:257 says a revocation does: it drops the broker account of the key.
RevokedKeyDropped ==
    (\A a \in ApiThreads : api[a].at = "out") /\ account # "deleted" => keyEntry \subseteq keys

\* What crud/user.py:206-208 says must be done for a deleted account's broker logins.
DeletedAccountRevoked ==
    account = "deleted" /\ ~Owed(Acl) /\ (\A a \in ApiThreads : api[a].at = "out")
        => keyEntry = {}
=============================================================================
