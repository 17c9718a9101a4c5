---------------------------- MODULE ChargeManager ----------------------------
(***************************************************************************)
(* The charge log of one vehicle with charge logging enabled:              *)
(* app/services/charge_logger/charge_manager.py, with the row operations   *)
(* of its crud.py, the deletion of a log in its api.py and the             *)
(* housekeeping pass that ends stale sessions.                             *)
(*                                                                         *)
(* What runs under ChargeManager._lock, which is held across the database  *)
(* writes, is one action.  Messages say what the car last published; live  *)
(* ones carry a time, `now' up to the accepted clock skew, retained ones   *)
(* the time the broker delivered them.  The metrics other than             *)
(* v.c.charging matter only as signs of life and for the energy counter.   *)
(***************************************************************************)
EXTENDS Integers, FiniteSets

CONSTANTS
    Rows,          \* charge logs, numbered in the order they are made
    Idle,          \* TIMEOUT_CHARGE_IDLE
    Margin,        \* ORPHAN_CLOCK_MARGIN_SECONDS
    Skew,          \* MAX_VEHICLE_CLOCK_SKEW_SECONDS
    MinDuration,   \* MIN_SESSION_DURATION_SECONDS
    MinGap,        \* MIN_SESSION_GAP_SECONDS
    SaveEvery,     \* the 300 s between two points
    MaxTime, MaxCrashes, MaxDeletes    \* bounds

ASSUME ChargeAssumption ==
    /\ Rows \subseteq Nat \ {0} /\ IsFiniteSet(Rows)
    /\ {Idle, Margin, Skew, MinDuration, MinGap, SaveEvery, MaxTime, MaxCrashes, MaxDeletes} \subseteq Nat
    /\ Skew <= Margin

VARIABLES
    dbFails,       \* whether writes to the database may fail, chosen at the start
    skew,          \* how far the vehicle's clock may be off, chosen at the start
    now, crashes,
    charging,      \* what the car last published
    rows,          \* the table charge_logs; n is 2 for two points or more, last the latest
    session,       \* active_sessions[vehicle_id], or NoSession
    seen,          \* _seen_charging
    lastEnd,       \* _last_session_end: <<>> before the first
    pass,          \* the housekeeping pass: its step, its `now', the rows left to look at
    deletion,      \* a deletion of a row by the user: <<>>, or the row past the check
    deletes,       \* number of them so far
    lastLive, ended, proved, userDeleted   \* history, of each row: the last time it was heard
                   \* live; a "no" came after its start; it was ended by a retained "no" on
                   \* the word of its energy; the user deleted it

env     == <<dbFails, skew>>
memory  == <<session, seen, lastEnd>>
user    == <<deletion, deletes>>
history == <<lastLive, ended, proved, userDeleted>>
vars    == <<env, now, crashes, charging, rows, memory, pass, user, history>>

NoSession == [row |-> 0]
NoRow  == [st |-> "none", start |-> 0, n |-> 0, last |-> 0, end |-> 0]
NoPass == [pc |-> "idle", at |-> 0, todo |-> {}]

Init ==
    /\ dbFails \in BOOLEAN /\ skew \in {0, Skew}
    /\ now = 1 /\ crashes = 0 /\ charging = FALSE
    /\ rows = [r \in Rows |-> NoRow]
    /\ session = NoSession /\ seen = "never" /\ lastEnd = <<>>
    /\ pass = NoPass /\ deletion = <<>> /\ deletes = 0
    /\ lastLive = [r \in Rows |-> 0] /\ ended = {} /\ proved = {} /\ userDeleted = {}

Open(r)   == rows[r].st = "open"
Exists(r) == rows[r].st \in {"open", "closed"}
Unheld    == {r \in Rows : Open(r) /\ r # session.row}

\* Where a row's record ends: its last point, or its start.
Activity(r) == IF rows[r].n = 0 THEN rows[r].start ELSE rows[r].last

\* The row with one more point; the same time again is not stored twice.
WithPoint(row, t) ==
    IF row.n > 0 /\ t = row.last THEN row
    ELSE [row EXCEPT !.n = IF @ = 0 THEN 1 ELSE 2, !.last = IF row.n > 0 /\ @ > t THEN @ ELSE t]

\* _close_open_row(): the row ends with its record, or is no charge at all.
ClosedRow(r) ==
    IF rows[r].n < 2 \/ rows[r].last - rows[r].start < MinDuration
    THEN [rows[r] EXCEPT !.st = "gone"] ELSE [rows[r] EXCEPT !.st = "closed", !.end = rows[r].last]

CloseRows(S) == rows' = [r \in Rows |-> IF r \in S /\ Open(r) THEN ClosedRow(r) ELSE rows[r]]

\* The rows a sequence of writes gets through: all, or those before one that fails.
Written(S) == IF dbFails THEN SUBSET S ELSE {S}

(***************************************************************************)
(* Ends of a session                                                       *)
(***************************************************************************)
\* _end_charge_session(): the session is gone whether or not the row can be written.
EndSession(t) ==
    LET r == session.row
        short == t - session.start < MinDuration
        ends == IF short THEN [rows[r] EXCEPT !.st = "gone"]
                ELSE [WithPoint(rows[r], t) EXCEPT !.st = "closed", !.end = t]
        outcomes == {ends} \cup (IF dbFails THEN {rows[r]} ELSE {})
                           \cup (IF dbFails /\ ~short THEN {WithPoint(rows[r], t)} ELSE {})
    IN  /\ session' = NoSession /\ lastEnd' = <<now>>
        /\ \E row \in IF Exists(r) THEN outcomes ELSE {rows[r]} : rows' = [rows EXCEPT ![r] = row]

\* Mutant of EndTime: a retained "no" ends the charge when it arrives.
EndTimeArrival(t, retained) == t

TooShort == session.heard - session.start < MinDuration

\* _end_time()
EndTime(t, retained) ==
    IF ~retained \/ (TooShort /\ session.kwh) THEN t ELSE session.heard

(***************************************************************************)
(* process_metric()                                                        *)
(***************************************************************************)
\* _update_active_session() of session s, with the rows as `table' has them; e says whether
\* the energy counter is known by now.
Update(s, table, t, retained, e) ==
    IF retained THEN session' = [s EXCEPT !.kwh = e] /\ rows' = table
    ELSE LET alive == [s EXCEPT !.heard = t, !.kwh = e, !.live = TRUE] IN
         \/ t - s.saved < SaveEvery /\ session' = alive /\ rows' = table
         \/ /\ t - s.saved >= SaveEvery /\ table[s.row].st = "gone"
            /\ session' = NoSession /\ rows' = table
         \/ /\ t - s.saved >= SaveEvery /\ table[s.row].st # "gone"
            /\ \/ /\ session' = [alive EXCEPT !.saved = t]
                  /\ rows' = [table EXCEPT ![s.row] = WithPoint(@, t)]
               \/ dbFails /\ session' = alive /\ rows' = table

\* What is known to be live: the row of session s, heard at t.
Heard(r, t, retained) ==
    lastLive' = IF retained \/ lastLive[r] > t THEN lastLive ELSE [lastLive EXCEPT ![r] = t]

\* Of the rows in S, the one that started last, and the one that started first.
Latest(S) == {r \in S : \A q \in S : rows[q].start <= rows[r].start}
First(S)  == {r \in S : \A q \in S : rows[r].start <= rows[q].start}

\* _adopt_open_session(): the session that takes over row r.
Adopted(r, t, retained) ==
    [row |-> r, start |-> rows[r].start, heard |-> IF retained THEN Activity(r) ELSE t,
     saved |-> Activity(r), kwh |-> FALSE, live |-> ~retained]

NewSession(r, t) == [row |-> r, start |-> t, heard |-> t, saved |-> t, kwh |-> FALSE, live |-> TRUE]

Fresh(r) == rows[r].st = "none" /\ \A q \in Rows : q < r => rows[q].st # "none"

MayAdopt == seen # "no"

\* _start_charge_session() for a "yes" without a session, and the update after it: the open
\* row that started last is resumed if it is recent enough; otherwise a row is created, after
\* those of a vehicle heard not charging were closed.
Start(t, retained, e) ==
    LET Recent(r) == t - Activity(r) <= Idle IN
    \/ \E r \in Latest(Unheld) :
           /\ MayAdopt /\ Recent(r)
           /\ Update(Adopted(r, t, retained), rows, t, retained, e) /\ Heard(r, t, retained)
    \/ /\ ~MayAdopt \/ Unheld = {} \/ \E r \in Latest(Unheld) : ~Recent(r)
       /\ \E r \in Rows, done \in Written(IF MayAdopt THEN {} ELSE Unheld) :
              LET table == [q \in Rows |-> IF q \in done THEN ClosedRow(q) ELSE rows[q]]
                  log   == [st |-> "open", start |-> t, n |-> 0, last |-> 0, end |-> 0]
              IN  /\ Fresh(r)
                  /\ \/ /\ Update(NewSession(r, t), [table EXCEPT ![r] = WithPoint(log, t)], t, retained, e)
                        /\ lastLive' = [lastLive EXCEPT ![r] = t]
                     \/ /\ dbFails /\ rows' = [table EXCEPT ![r] = log] /\ session' = NewSession(r, t)
                        /\ lastLive' = [lastLive EXCEPT ![r] = t]
                     \/ dbFails /\ rows' = table /\ UNCHANGED <<session, lastLive>>

Recently == lastEnd # <<>> /\ now - lastEnd[1] < MinGap

\* v.c.charging = yes
ChargingYes(t, retained) ==
    /\ charging /\ seen' = "yes"
    /\ \/ session = NoSession /\ Recently /\ UNCHANGED <<rows, session, lastLive>>
       \/ session = NoSession /\ ~Recently /\ \E e \in BOOLEAN : Start(t, retained, e)
       \/ /\ session # NoSession
          /\ \E e \in {session.kwh, TRUE} : Update(session, rows, t, retained, e)
          /\ Heard(session.row, t, retained)
    /\ UNCHANGED <<now, crashes, charging, lastEnd, pass, user, ended, proved, userDeleted>>

\* v.c.charging = no: ends the session, or the rows a restart left open.
ChargingNo(t, retained) ==
    /\ ~charging /\ seen' = "no"
    /\ ended' = {r \in Rows : rows[r].st # "none"}
    /\ \/ /\ session # NoSession
          /\ EndSession(EndTime(t, retained)) /\ Heard(session.row, t, retained)
          /\ proved' = IF retained /\ TooShort /\ session.kwh THEN proved \cup {session.row} ELSE proved
       \/ /\ session = NoSession /\ seen # "no"
          /\ \E done \in Written(Unheld) : CloseRows(done)
          /\ UNCHANGED <<session, lastEnd, lastLive, proved>>
       \/ session = NoSession /\ seen = "no" /\ UNCHANGED <<rows, session, lastEnd, lastLive, proved>>
    /\ UNCHANGED <<now, crashes, charging, pass, user, userDeleted>>

\* Another relevant metric.
OtherMetric(t, retained) ==
    /\ session # NoSession
    /\ \E e \in {session.kwh, TRUE} : Update(session, rows, t, retained, e)
    /\ Heard(session.row, t, retained)
    /\ UNCHANGED <<now, crashes, charging, seen, lastEnd, pass, user, ended, proved, userDeleted>>

(***************************************************************************)
(* check_for_stale_sessions() and close_orphaned_sessions()                *)
(***************************************************************************)
QuietAt(t) == session # NoSession /\ t - session.heard > Idle

\* Mutant of BeginPass: without a stale session there is nothing to do.
BeginPassStale ==
    /\ pass.pc = "idle" /\ QuietAt(now) /\ pass' = [NoPass EXCEPT !.pc = "stale", !.at = now]
    /\ UNCHANGED <<now, crashes, charging, rows, memory, user, history>>

BeginPass ==
    /\ pass.pc = "idle" /\ pass' = [NoPass EXCEPT !.pc = IF QuietAt(now) THEN "stale" ELSE "list", !.at = now]
    /\ UNCHANGED <<now, crashes, charging, rows, memory, user, history>>

\* The held session, if it is still quiet: one never heard live is closed as an orphan.
EndStale ==
    /\ pass.pc = "stale" /\ pass' = [pass EXCEPT !.pc = "list"]
    /\ \/ ~QuietAt(pass.at) /\ UNCHANGED <<rows, session, lastEnd>>
       \/ QuietAt(pass.at) /\ session.live /\ EndSession(session.heard)
       \/ /\ QuietAt(pass.at) /\ ~session.live
          /\ session' = NoSession /\ lastEnd' = <<now>>
          /\ \E done \in Written({session.row}) : CloseRows(done)
    /\ UNCHANGED <<now, crashes, charging, seen, user, history>>

\* The open rows, read without the lock.
ListOpen ==
    /\ pass.pc = "list" /\ pass' = [pass EXCEPT !.pc = "rows", !.todo = {r \in Rows : Open(r)}]
    /\ UNCHANGED <<now, crashes, charging, rows, memory, user, history>>

\* Mutant of CloseOrphan: the row may be held by now.
CloseOrphanHeld(r) ==
    /\ pass.pc = "rows" /\ r \in First(pass.todo)
    /\ pass' = [pass EXCEPT !.todo = @ \ {r}]
    /\ IF pass.at - Activity(r) > Idle + Margin THEN CloseRows({r}) ELSE UNCHANGED rows
    /\ UNCHANGED <<now, crashes, charging, memory, user, history>>

\* One row of the list, under the lock, in the order they started.
CloseOrphan(r) ==
    /\ pass.pc = "rows" /\ r \in First(pass.todo)
    /\ pass' = [pass EXCEPT !.todo = @ \ {r}]
    /\ IF r # session.row /\ pass.at - Activity(r) > Idle + Margin
       THEN \E done \in Written({r}) : CloseRows(done) ELSE UNCHANGED rows
    /\ UNCHANGED <<now, crashes, charging, memory, user, history>>

EndPass ==
    /\ pass.pc = "rows" /\ pass.todo = {} /\ pass' = NoPass
    /\ UNCHANGED <<now, crashes, charging, rows, memory, user, history>>

(***************************************************************************)
(* The user, the car and the server                                        *)
(***************************************************************************)
\* delete_charge_log(): refused for a recorded session; the deletion is not under the lock.
CheckDelete(r) ==
    /\ deletion = <<>> /\ deletes < MaxDeletes
    /\ Exists(r) /\ ~(Open(r) /\ session.row = r)
    /\ deletion' = <<r>> /\ deletes' = deletes + 1
    /\ UNCHANGED <<now, crashes, charging, rows, memory, pass, history>>

Delete ==
    /\ deletion # <<>> /\ deletion' = <<>>
    /\ LET r == deletion[1] IN
           /\ rows' = IF Exists(r) THEN [rows EXCEPT ![r].st = "gone"] ELSE rows
           /\ userDeleted' = userDeleted \cup {r}
    /\ UNCHANGED <<now, crashes, charging, memory, pass, deletes, lastLive, ended, proved>>

Plug ==
    /\ charging' = ~charging
    /\ UNCHANGED <<now, crashes, rows, memory, pass, user, history>>

Crash ==
    /\ crashes < MaxCrashes /\ crashes' = crashes + 1
    /\ session' = NoSession /\ seen' = "never" /\ lastEnd' = <<>>
    /\ pass' = NoPass /\ deletion' = <<>>
    /\ UNCHANGED <<now, charging, rows, deletes, history>>

Tick == now < MaxTime /\ now' = now + 1
        /\ UNCHANGED <<crashes, charging, rows, memory, pass, user, history>>

-----------------------------------------------------------------------------
Metric ==
    /\ UNCHANGED env
    /\ \E retained \in BOOLEAN :
        \E t \in IF retained THEN {now} ELSE (now - skew)..(now + skew) :
            ChargingYes(t, retained) \/ ChargingNo(t, retained) \/ OtherMetric(t, retained)

Housekeeping == (BeginPass \/ EndStale \/ ListOpen \/ EndPass \/ \E r \in Rows : CloseOrphan(r)) /\ UNCHANGED env

Others == (Plug \/ Crash \/ Tick \/ Delete \/ \E r \in Rows : CheckDelete(r)) /\ UNCHANGED env

Next == Metric \/ Housekeeping \/ Others

Spec == Init /\ [][Next]_vars

\* periodic_housekeeping() runs its pass again and again.
Fairness == WF_vars(Housekeeping)

FairSpec == Spec /\ Fairness

(***************************************************************************)
(* Properties                                                              *)
(***************************************************************************)
Times == (1 - skew)..(MaxTime + skew)

TypeOK ==
    /\ now \in 1..MaxTime /\ charging \in BOOLEAN /\ seen \in {"never", "yes", "no"}
    /\ rows \in [Rows -> [st : {"none", "open", "closed", "gone"}, start : Times \cup {0}, n : 0..2,
                          last : Times \cup {0}, end : Times \cup {0}]]
    /\ \/ session = NoSession
       \/ session \in [row : Rows, start : Times, heard : Times, saved : Times, kwh : BOOLEAN, live : BOOLEAN]
    /\ pass.pc \in {"idle", "stale", "list", "rows"} /\ pass.todo \subseteq Rows

\* The row a session records into is open, unless the user deleted it just before it was
\* resumed: the housekeeping pass never takes it away (charge_manager.py:76-85).  And it is
\* no charge the car said was over: what comes next goes to another row.  The latter is not
\* claimed after a failed write, which leaves the ended row open, nor when the times of the
\* messages go back: then a start the code ignored lets a later one resume the ended row.
SessionHoldsItsRow ==
    session # NoSession =>
        /\ Open(session.row) \/ session.row \in userDeleted
        /\ ~dbFails /\ skew = 0 => session.row \notin ended

\* No charge lasts past the last time the car was heard in it: not through an outage, a
\* restart or the retained values that arrive after it; except a charge that only its
\* energy proves (charge_manager.py:193-197, 275-291).
EndsWhereHeard ==
    \A r \in Rows : rows[r].st = "closed" => rows[r].end <= lastLive[r] \/ r \in proved

\* A row that nobody records is closed once its last point is old enough, unless every
\* attempt to write it fails.
OrphansClose ==
    \A r \in Rows :
        (~dbFails /\ r \in Unheld /\ now - Activity(r) > Idle + Margin) ~> r \notin Unheld
==============================================================================
