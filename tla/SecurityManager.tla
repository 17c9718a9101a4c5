--------------------------- MODULE SecurityManager ---------------------------
(***************************************************************************)
(* The limits on failed logins of app/security_manager.py: blocked         *)
(* addresses (in memory, mirrored in the table blocked_ips), the failures  *)
(* of an address and of an account (in the table security_failures and in  *)
(* memory), the administrator's blocks and restarts of the server.         *)
(*                                                                         *)
(* Requests run on a pool of threads: an action is one section under       *)
(* _lock, or one database transaction outside it.  Every attempt that is   *)
(* let through fails.  Times are in units of the model's own choice.       *)
(***************************************************************************)
EXTENDS Naturals, FiniteSets

CONSTANTS
    Attempts, AdminOps,            \* requests, each made once
    Ips, Users, Types,             \* addresses, accounts, kinds of authentication
    Threshold, UserThreshold,      \* thresholds, _username_failure_thresholds, by type
    ExtThreshold, NoThreshold,     \* extended_lockout_threshold: a number or NoThreshold, by type
    FailureWindow, BlockTime, ExtTime,    \* time_windows, block_duration_minutes, extended_...
    UserWindow, UserTime,          \* _username_time_windows, _username_block_duration_minutes
    Day,                           \* 24 hours
    AdminTime,                     \* duration_minutes of the administrator's blocks
    MaxInFlight, MaxClock, MaxCrashes   \* bounds

ASSUME SecurityAssumption ==
    /\ IsFiniteSet(Attempts)
    /\ Threshold \in [Types -> Nat \ {0}] /\ UserThreshold \in [Types -> Nat \ {0}]
    /\ ExtThreshold \in [Types -> Nat \cup {NoThreshold}] /\ NoThreshold \notin Nat
    /\ {FailureWindow, UserWindow, Day, MaxInFlight, MaxClock, MaxCrashes} \subseteq Nat
    /\ {BlockTime, ExtTime, UserTime, AdminTime} \subseteq Nat \ {0}
    /\ FailureWindow < BlockTime /\ BlockTime <= ExtTime

VARIABLES
    time, up, crashes,
    dbFails,            \* whether database calls may fail, chosen at the start
    blocked,            \* blocked_ips: until when (0: not in it), and by whom (history)
    dbBlock,            \* the rows of blocked_ips
    op,                 \* the requests
    row,                \* when an attempt's row was made in security_failures, 0 if it has none
    seen, mem, userMem, \* when an attempt was counted; those kept in failed_attempts and
                        \* in _username_failures
    userBlocked,        \* _blocked_usernames
    admin,              \* the administrator's requests
    forgiven            \* history: attempts counted before the administrator or a restart intervened

clock    == <<time, up, crashes, dbFails>>
blocks   == <<blocked, dbBlock>>
failures == <<row, seen, mem>>
accounts == <<userMem, userBlocked>>
history  == <<forgiven>>
securityVars     == <<clock, blocks, failures, accounts, op, admin, history>>

None == [until |-> 0, by |-> "none"]
Automatic(t) == [until |-> t, by |-> "auto"]
Idle == [pc |-> "idle"]
Ended == {"refused", "done", "lost"}

\* A ban of ten years made by an earlier version, and one made by an administrator.
Legacy == MaxClock + ExtTime + 1

SecurityInit ==
    /\ time = 1 /\ up = FALSE /\ crashes = 0 /\ dbFails \in BOOLEAN
    /\ blocked = [i \in Ips |-> None]
    /\ dbBlock \in [Ips -> {None, Automatic(Legacy), [until |-> Legacy, by |-> "admin"]}]
    /\ op = [k \in Attempts |-> Idle] /\ row = [k \in Attempts |-> 0]
    /\ seen = [k \in Attempts |-> 0] /\ mem = {}
    /\ userMem = {} /\ userBlocked = [u \in Users |-> 0]
    /\ admin = [a \in AdminOps |-> Idle]
    /\ forgiven = {}

Blocked(i) == time < blocked[i].until

InFlight == {k \in Attempts : op[k].pc \notin Ended \cup {"idle"}}

\* Attempts of S whose time in `at' is at most `w' ago.
Recent(S, at, w) == {k \in S : at[k] > 0 /\ at[k] + w >= time}
Of(i, t)     == {k \in Attempts : op[k].pc # "idle" /\ op[k].ip = i /\ op[k].type = t}
OfUser(u, t) == {k \in Attempts : op[k].pc # "idle" /\ op[k].user = u /\ op[k].type = t}

Goto(k, pc) == op' = [op EXCEPT ![k].pc = pc]

(***************************************************************************)
(* Starts and stops of the server                                          *)
(***************************************************************************)
\* load_from_db(): unexpired rows are taken over, automatic ones at most ExtTime long;
\* expired ones are deleted.
LoadFromDb ==
    /\ ~up /\ up' = TRUE
    /\ \/ /\ blocked' = [i \in Ips |->
                 CASE dbBlock[i].until <= time -> None
                   [] dbBlock[i].by = "auto" /\ dbBlock[i].until > time + ExtTime -> Automatic(time + ExtTime)
                   [] OTHER -> dbBlock[i]]
          /\ dbBlock' = blocked'
       \/ dbFails /\ UNCHANGED blocks
    /\ UNCHANGED <<time, crashes, dbFails, failures, accounts, op, admin, history>>

\* The process ends; what it kept in memory and its requests are lost.
Crash ==
    /\ up /\ up' = FALSE /\ crashes < MaxCrashes /\ crashes' = crashes + 1
    /\ blocked' = [i \in Ips |-> None] /\ mem' = {} /\ forgiven' = {k \in Attempts : seen[k] > 0}
    /\ userMem' = {} /\ userBlocked' = [u \in Users |-> 0]
    /\ op' = [k \in Attempts |-> IF k \in InFlight THEN [op[k] EXCEPT !.pc = "lost", !.n = 0] ELSE op[k]]
    /\ admin' = [a \in AdminOps |-> IF admin[a].pc = "idle" THEN Idle ELSE [pc |-> "done"]]
    /\ UNCHANGED <<time, dbFails, dbBlock, row, seen>>

TimePasses == time < MaxClock /\ time' = time + 1
        /\ UNCHANGED <<up, crashes, dbFails, blocks, failures, accounts, op, admin, history>>

(***************************************************************************)
(* Reads of the limits                                                     *)
(***************************************************************************)
\* is_blocked(): an expired entry leaves memory under the lock and the table after it.
IsBlocked(k, i, ifBlocked, ifExpired, ifFree) ==
    \/ Blocked(i) /\ Goto(k, ifBlocked) /\ UNCHANGED blocked
    \/ /\ ~Blocked(i)
       /\ blocked' = [blocked EXCEPT ![i] = None]
       /\ Goto(k, IF blocked[i] = None THEN ifFree ELSE ifExpired)

\* A request arrives and SecurityMiddleware asks is_blocked().
Attempt(k, i, t, u) ==
    /\ up /\ op[k].pc = "idle" /\ Cardinality(InFlight) < MaxInFlight
    /\ LET arrived(pc) == op' = [op EXCEPT ![k] = [pc |-> pc, ip |-> i, type |-> t, user |-> u, n |-> 0]]
       IN \/ Blocked(i) /\ arrived("refused") /\ UNCHANGED blocked
          \/ /\ ~Blocked(i)
             /\ blocked' = [blocked EXCEPT ![i] = None]
             /\ arrived(IF blocked[i] = None THEN "account" ELSE "expire account")
    /\ UNCHANGED <<clock, dbBlock, failures, accounts, admin, history>>

\* _db_remove_block() after an expiry.
RemoveExpired(k, pc, next) ==
    /\ op[k].pc = pc
    /\ \/ dbBlock' = [dbBlock EXCEPT ![op[k].ip] = None]
       \/ dbFails /\ UNCHANGED dbBlock
    /\ Goto(k, next)
    /\ UNCHANGED <<clock, blocked, failures, accounts, admin, history>>

\* _db_count_username_failures() >= threshold
OverUserLimit(u, t) == Cardinality(Recent(OfUser(u, t), row, UserTime)) >= UserThreshold[t]

\* Mutant of IsUsernameBlocked: only the failures of the attempt's own address count.
IsUsernameBlockedByIp(k) ==
    /\ op[k].pc = "account"
    /\ Goto(k, IF \E t \in Types : Cardinality(Recent(OfUser(op[k].user, t) \cap Of(op[k].ip, t), row, UserTime))
                                      >= UserThreshold[t]
               THEN "refused" ELSE "checked")
    /\ UNCHANGED <<clock, blocks, failures, accounts, admin, history>>

\* is_username_blocked(): one query per type, each of which may get no answer; memory is
\* asked only when none got one.
IsUsernameBlocked(k) ==
    /\ op[k].pc = "account"
    /\ \E answered \in IF dbFails THEN SUBSET Types ELSE {Types} :
        \/ /\ \E t \in answered : OverUserLimit(op[k].user, t)
           /\ Goto(k, "refused") /\ UNCHANGED userBlocked
        \/ /\ answered # {} /\ \A t \in answered : ~OverUserLimit(op[k].user, t)
           /\ Goto(k, "checked") /\ UNCHANGED userBlocked
        \/ /\ answered = {}
           /\ IF time < userBlocked[op[k].user]
              THEN Goto(k, "refused") /\ UNCHANGED userBlocked
              ELSE Goto(k, "checked") /\ userBlocked' = [userBlocked EXCEPT ![op[k].user] = 0]
    /\ UNCHANGED <<clock, blocks, failures, userMem, admin, history>>

(***************************************************************************)
(* record_failure()                                                        *)
(***************************************************************************)
\* The attempt has failed: is the address blocked by now?
RecordFailure(k) ==
    /\ op[k].pc = "checked"
    /\ IsBlocked(k, op[k].ip, "refused", "expire record", "record")
    /\ UNCHANGED <<clock, dbBlock, failures, accounts, admin, history>>

\* _db_record_failure(): the row is committed...
InsertRow(k) ==
    /\ op[k].pc = "record"
    /\ \/ row' = [row EXCEPT ![k] = time] /\ Goto(k, "count")
       \/ dbFails /\ Goto(k, "lock") /\ UNCHANGED row
    /\ UNCHANGED <<clock, blocks, seen, mem, accounts, admin, history>>

\* ...and the rows of the window are counted; now and then rows older than a day go.
CountRows(k) ==
    /\ op[k].pc = "count"
    /\ \E n \in {Cardinality(Recent(Of(op[k].ip, op[k].type), row, FailureWindow))} \cup (IF dbFails THEN {0} ELSE {}) :
           op' = [op EXCEPT ![k].pc = "lock", ![k].n = n]
    /\ row' \in {row, [j \in Attempts |-> IF row[j] + Day < time THEN 0 ELSE row[j]]}
    /\ UNCHANGED <<clock, blocks, seen, mem, accounts, admin, history>>

Bigger(m, n) == IF m < n THEN n ELSE m

\* The account's failures in memory, and its block there.
CountAccount(k) ==
    LET others == OfUser(op[k].user, op[k].type)
        kept   == Recent(others \cap userMem, seen, UserWindow) \cup {k}
        over   == Cardinality(kept) >= UserThreshold[op[k].type]
    IN  /\ userMem' = (userMem \ others) \cup (IF over THEN {} ELSE kept)
        /\ userBlocked' = IF over THEN [userBlocked EXCEPT ![op[k].user] = time + UserTime] ELSE userBlocked

\* Mutant of CountFailure: only the database's count decides.
CountFailureByDb(k) ==
    /\ op[k].pc = "lock" /\ seen' = [seen EXCEPT ![k] = time]
    /\ LET i    == op[k].ip
           over == op[k].n >= Threshold[op[k].type]
       IN  /\ blocked' = IF over THEN [blocked EXCEPT ![i] = Automatic(time + BlockTime)] ELSE blocked
           /\ mem' = IF over THEN {j \in mem : op[j].ip # i} ELSE mem \cup {k}
           /\ op' = [op EXCEPT ![k].pc = IF ~over THEN "done" ELSE "extend",
                               ![k].n = IF over THEN time + BlockTime ELSE 0]
    /\ CountAccount(k)
    /\ UNCHANGED <<clock, dbBlock, row, admin, history>>

\* The section under _lock: the higher of both counts decides.
CountFailure(k) ==
    /\ op[k].pc = "lock" /\ seen' = [seen EXCEPT ![k] = time]
    /\ LET i    == op[k].ip
           mine == Of(i, op[k].type)
           kept == Recent(mine \cap mem, seen, FailureWindow) \cup {k}
           over == Bigger(op[k].n, Cardinality(kept)) >= Threshold[op[k].type]
       IN  /\ blocked' = IF over THEN [blocked EXCEPT ![i] = Automatic(time + BlockTime)] ELSE blocked
           /\ mem' = IF over THEN {j \in mem : op[j].ip # i} ELSE (mem \ mine) \cup kept
           /\ op' = [op EXCEPT ![k].pc = IF ~over THEN "done" ELSE "extend",
                               ![k].n = IF over THEN time + BlockTime ELSE 0]   \* unblock_time
    /\ CountAccount(k)
    /\ UNCHANGED <<clock, dbBlock, row, admin, history>>

\* A repeated offender is blocked for longer: counted in the database, then set under _lock.
Extend(k) ==
    /\ op[k].pc = "extend"
    /\ LET i == op[k].ip
           t == op[k].type
           over == ExtThreshold[t] # NoThreshold /\ Cardinality(Recent(Of(i, t), row, Day)) >= ExtThreshold[t]
       IN  \/ /\ over
              /\ blocked' = [blocked EXCEPT ![i] = Automatic(time + ExtTime)]
              /\ op' = [op EXCEPT ![k].pc = "persist", ![k].n = time + ExtTime]
           \/ ~over /\ Goto(k, "persist") /\ UNCHANGED blocked
           \/ dbFails /\ over /\ Goto(k, "persist") /\ UNCHANGED blocked
    /\ UNCHANGED <<clock, dbBlock, failures, accounts, admin, history>>

\* _db_persist_block()
PersistBlock(k) ==
    /\ op[k].pc = "persist" /\ op' = [op EXCEPT ![k].pc = "done", ![k].n = 0]
    /\ \/ dbBlock' = [dbBlock EXCEPT ![op[k].ip] = Automatic(op[k].n)]
       \/ dbFails /\ UNCHANGED dbBlock
    /\ UNCHANGED <<clock, blocked, failures, accounts, admin, history>>

(***************************************************************************)
(* The administrator, and the hourly sweep                                 *)
(***************************************************************************)
Forgive(i) == forgiven' = forgiven \cup {k \in Attempts : seen[k] > 0 /\ op[k].ip = i}

\* block_ip_manually(): memory, then the table.
BlockManually(a, i) ==
    /\ up /\ admin[a].pc = "idle"
    /\ admin' = [admin EXCEPT ![a] = [pc |-> "persist", ip |-> i, until |-> time + AdminTime]]
    /\ blocked' = [blocked EXCEPT ![i] = [until |-> time + AdminTime, by |-> "admin"]]
    /\ mem' = {k \in mem : op[k].ip # i}
    /\ Forgive(i)
    /\ UNCHANGED <<clock, dbBlock, row, seen, accounts, op>>

\* unblock_ip(): memory, then the table.
UnblockIp(a, i) ==
    /\ up /\ admin[a].pc = "idle"
    /\ admin' = [admin EXCEPT ![a] = [pc |-> "remove", ip |-> i]]
    /\ blocked' = [blocked EXCEPT ![i] = None]
    /\ Forgive(i)
    /\ UNCHANGED <<clock, dbBlock, failures, accounts, op>>

AdminSaves(a) ==
    /\ admin[a].pc \in {"persist", "remove"}
    /\ admin' = [admin EXCEPT ![a] = [pc |-> "done"]]
    /\ \/ dbBlock' = [dbBlock EXCEPT ![admin[a].ip] =
                         IF admin[a].pc = "remove" THEN None ELSE [until |-> admin[a].until, by |-> "admin"]]
       \/ dbFails /\ UNCHANGED dbBlock
    /\ UNCHANGED <<clock, blocked, failures, accounts, op, history>>

\* sweep_stale_username_entries(): an account's list goes when all of it is out of its window.
Sweep ==
    /\ up
    /\ mem' = Recent(mem, seen, FailureWindow)
    /\ userMem' = {k \in userMem : Recent(userMem \cap OfUser(op[k].user, op[k].type), seen, UserWindow) # {}}
    /\ userBlocked' = [u \in Users |-> IF time >= userBlocked[u] THEN 0 ELSE userBlocked[u]]
    /\ UNCHANGED <<clock, blocks, row, seen, op, admin, history>>

-----------------------------------------------------------------------------
Request(k) ==
    \/ \E i \in Ips, t \in Types, u \in Users : Attempt(k, i, t, u)
    \/ RemoveExpired(k, "expire account", "account")
    \/ IsUsernameBlocked(k) \/ RecordFailure(k)
    \/ RemoveExpired(k, "expire record", "record")
    \/ InsertRow(k) \/ CountRows(k) \/ CountFailure(k) \/ Extend(k) \/ PersistBlock(k)

SecurityNext ==
    \/ LoadFromDb \/ Crash \/ TimePasses \/ Sweep
    \/ \E k \in Attempts : Request(k)
    \/ \E a \in AdminOps : AdminSaves(a) \/ \E i \in Ips : BlockManually(a, i) \/ UnblockIp(a, i)

SecuritySpec == SecurityInit /\ [][SecurityNext]_securityVars

(***************************************************************************)
(* Properties                                                              *)
(***************************************************************************)
Entries == [until : Nat, by : {"none", "auto", "admin"}]

SecurityTypeOK ==
    /\ time \in 1..(MaxClock + 1) /\ up \in BOOLEAN /\ crashes \in 0..MaxCrashes
    /\ dbFails \in BOOLEAN
    /\ blocked \in [Ips -> Entries] /\ dbBlock \in [Ips -> Entries]
    /\ row \in [Attempts -> 0..time] /\ seen \in [Attempts -> 0..time]
    /\ mem \subseteq Attempts /\ userMem \subseteq Attempts
    /\ userBlocked \in [Users -> Nat] /\ forgiven \subseteq Attempts

\* An address that is not blocked has fewer failures of one type in its window than the
\* threshold: whichever database calls fail and however requests interleave, the failure
\* that reaches it blocks (security_manager.py:454-475).  And no automatic block lasts
\* longer than a day from now, not even one a restart takes over (:85-90, 234-247).
BlocksFollowRules ==
    /\ up => \A i \in Ips, t \in Types :
         Blocked(i) \/ Cardinality(Recent(Of(i, t) \ forgiven, seen, FailureWindow)) < Threshold[t]
    /\ \A i \in Ips : blocked[i].by = "auto" => blocked[i].until <= time + ExtTime

\* Guesses at one account are limited over all addresses and restarts: at most the
\* threshold, less one, and the requests under way at once (is_username_blocked()).  Not
\* claimed while the database, which does the counting, fails.
AccountBudget ==
    ~dbFails => \A u \in Users, t \in Types :
        Cardinality(Recent(OfUser(u, t), row, UserTime)) < UserThreshold[t] + MaxInFlight
=============================================================================
