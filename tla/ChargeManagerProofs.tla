------------------------ MODULE ChargeManagerProofs ------------------------
(***************************************************************************)
(* SessionHoldsItsRow and EndsWhereHeard for any number of charge logs and *)
(* every choice of the time limits.                                        *)
(*                                                                         *)
(* The first needs that whenever the clock is right at most one open row   *)
(* is recent enough to be resumed, the one that started last, and that a   *)
(* row left open when the car was heard not charging is none of those.     *)
(* The second needs that no time in a row or a session is later than the   *)
(* row's last sign of life.                                                *)
(***************************************************************************)
EXTENDS ChargeManager, TLAPS

RowRecords == [st : {"none", "open", "closed", "gone"}, start : Int, n : 0..2, last : Int, end : Int]
Sessions == [row : Rows, start : Int, heard : Int, saved : Int, kwh : BOOLEAN, live : BOOLEAN]

ChargeTypes ==
    /\ now \in Int /\ skew \in Nat /\ dbFails \in BOOLEAN
    /\ rows \in [Rows -> RowRecords]
    /\ session = NoSession \/ session \in Sessions
    /\ pass \in [pc : {"idle", "stale", "list", "rows"}, at : Int, todo : SUBSET Rows]
    /\ deletion = <<>> \/ \E r \in Rows : deletion = <<r>>
    /\ lastLive \in [Rows -> Int] /\ ended \subseteq Rows /\ proved \subseteq Rows
    /\ userDeleted \subseteq Rows

\* The session's row is open, or the user deleted it; and the car never said of a row that is
\* not yet made that it is over.
Held ==
    /\ session # NoSession => Open(session.row) \/ session.row \in userDeleted
    /\ \A r \in Rows : rows[r].st = "none" => r \notin ended

\* Nothing in row r, or in the session that records it, is later than its last sign of life;
\* live and energy are values of lastLive and proved.
NotPast(live, energy, r, t) == t <= live[r] \/ r \in energy
RowSound(live, energy, r, row) ==
    row.st # "none" =>
        /\ NotPast(live, energy, r, row.start)
        /\ row.n > 0 => NotPast(live, energy, r, row.last)
        /\ row.st = "closed" => NotPast(live, energy, r, row.end)
Records ==
    /\ \A r \in Rows : RowSound(lastLive, proved, r, rows[r])
    /\ session # NoSession => NotPast(lastLive, proved, session.row, session.heard)

\* A row that can no longer be resumed, and an open row with sensible times.
RecordEnd(row) == IF row.n = 0 THEN row.start ELSE row.last
OldRow(row)  == now - RecordEnd(row) > Idle
InTime(row)  == row.start <= now /\ row.start <= RecordEnd(row)

\* Row r is recorded: it is not one that ended, and the other open rows are old and started
\* before it.
Recorded(table, r) ==
    /\ r \notin ended
    /\ \A q \in Rows : table[q].st = "open" =>
           /\ InTime(table[q])
           /\ q # r => OldRow(table[q]) /\ (table[r].st = "open" => table[q].start < table[r].start)

\* No row is recorded: the open rows are old if they ended or the car is known not to charge,
\* and of two of them the one that started first is old.
Nobody ==
    /\ \A q \in Rows : Open(q) =>
           InTime(rows[q]) /\ (q \in ended \/ seen = "no" => OldRow(rows[q]))
    /\ \A q, r \in Rows : Open(q) /\ Open(r) /\ q # r /\ rows[q].start <= rows[r].start => OldRow(rows[q])

OnTime == IF session = NoSession THEN Nobody ELSE Recorded(rows, session.row)

\* The inductive invariant; the last part is about a clock that is right and writes that succeed.
ChargeInv == ChargeTypes /\ Held /\ Records /\ (~dbFails /\ skew = 0 => OnTime)

-----------------------------------------------------------------------------
\* A row that gets a point keeps everything but its record's end.
LEMMA PointKeeps ==
    ASSUME NEW row \in RowRecords, NEW t \in Int
    PROVE  LET w == WithPoint(row, t)
           IN  /\ w \in RowRecords /\ w.st = row.st /\ w.start = row.start /\ w.end = row.end
               /\ w.n > 0 /\ w.last >= t
               /\ w.last = t \/ (row.n > 0 /\ w.last = row.last)
<1> DEFINE n == IF row.n = 0 THEN 1 ELSE 2
           last == IF row.n > 0 /\ row.last > t THEN row.last ELSE t
           w == [row EXCEPT !.n = n, !.last = last]
<1>1. n \in 0..2 /\ n > 0 /\ last \in Int /\ last >= t
      /\ (last = t \/ (row.n > 0 /\ last = row.last))
  BY DEF RowRecords
<1> HIDE DEF n, last
<1>2. /\ w \in RowRecords /\ w.st = row.st /\ w.start = row.start /\ w.end = row.end
      /\ w.n = n /\ w.last = last
  BY <1>1 DEF RowRecords
<1>3. WithPoint(row, t) = IF row.n > 0 /\ t = row.last THEN row ELSE w
  BY DEF WithPoint, n, last
<1> HIDE DEF w
<1>4. row.n \in 0..2 /\ row.last \in Int
  BY DEF RowRecords
<1>q. QED  BY <1>1, <1>2, <1>3, <1>4

\* A row that is closed is gone, or ends with its record.
LEMMA ClosedKeeps ==
    ASSUME ChargeTypes, NEW r \in Rows
    PROVE  LET c == ClosedRow(r)
           IN  /\ c \in RowRecords /\ c.st \in {"gone", "closed"} /\ c.start = rows[r].start
               /\ c.n = rows[r].n /\ c.last = rows[r].last
               /\ c.st = "closed" => rows[r].n > 0 /\ c.end = rows[r].last
<1> DEFINE row == rows[r]
           a == [row EXCEPT !.st = "gone"]
           b == [row EXCEPT !.st = "closed", !.end = row.last]
<1>1. row \in RowRecords
  BY DEF ChargeTypes
<1> HIDE DEF row
<1>2. /\ a \in RowRecords /\ a.st = "gone" /\ a.start = row.start /\ a.n = row.n
      /\ a.last = row.last
  BY <1>1 DEF RowRecords
<1>3. /\ b \in RowRecords /\ b.st = "closed" /\ b.start = row.start /\ b.n = row.n
      /\ b.last = row.last /\ b.end = row.last
  BY <1>1 DEF RowRecords
<1>4. ClosedRow(r) = IF row.n < 2 \/ row.last - row.start < MinDuration THEN a ELSE b
  BY DEF ClosedRow, row
<1>5. row.n \in 0..2
  BY <1>1 DEF RowRecords
<1> HIDE DEF a, b
<1>q. QED  BY <1>2, <1>3, <1>4, <1>5 DEF row

LEMMA NoSessionRow == NoSession \notin Sessions /\ NoSession.row \notin Rows
BY ChargeAssumption DEF NoSession, Sessions

\* The rows after some open ones were closed.
Closes(table, done) ==
    /\ table \in [Rows -> RowRecords]
    /\ \A q \in Rows : table[q] = IF q \in done /\ Open(q) THEN ClosedRow(q) ELSE rows[q]

LEMMA CloseRowsCloses ==
    ASSUME ChargeTypes, NEW done, CloseRows(done)
    PROVE  Closes(rows', done)
BY ClosedKeeps DEF CloseRows, Closes, ChargeTypes

\* What _update_active_session() can do: give up a session whose row is gone, go on without
\* writing, or add a point.
Goes(s, t, retained) ==
    /\ session' \in Sessions /\ session'.row = s.row /\ session'.start = s.start
    /\ session'.heard = IF retained THEN s.heard ELSE t

LEMMA UpdateOutcomes ==
    ASSUME NEW s \in Sessions, NEW table \in [Rows -> RowRecords], NEW t \in Int,
           NEW retained \in BOOLEAN, NEW e \in BOOLEAN, Update(s, table, t, retained, e)
    PROVE  \/ session' = NoSession /\ table[s.row].st = "gone" /\ rows' = table
           \/ Goes(s, t, retained) /\ rows' = table
           \/ /\ Goes(s, t, retained) /\ ~retained
              /\ rows' = [table EXCEPT ![s.row] = WithPoint(table[s.row], t)]
<1>1. CASE retained
  BY <1>1 DEF Update, Goes, Sessions
<1>2. CASE ~retained
  BY <1>2 DEF Update, Goes, Sessions
<1>q. QED  BY <1>1, <1>2

\* A message's time: the broker's for a retained one, the vehicle's own otherwise.
MessageTime(t, retained) ==
    /\ t \in Int /\ retained \in BOOLEAN
    /\ retained => t = now
    /\ skew = 0 => t = now

\* What can be said of a live message's row.
LEMMA HeardLive ==
    ASSUME ChargeTypes, NEW r \in Rows, NEW t \in Int, NEW retained \in BOOLEAN, Heard(r, t, retained)
    PROVE  /\ lastLive' \in [Rows -> Int] /\ \A q \in Rows : lastLive'[q] >= lastLive[q]
           /\ ~retained => lastLive'[r] >= t
BY DEF Heard, ChargeTypes

\* A row that was sound stays so when it is heard again.
LEMMA SoundLater ==
    ASSUME NEW r \in Rows, NEW row \in RowRecords, NEW live \in [Rows -> Int], NEW later \in [Rows -> Int],
           NEW energy, NEW more, energy \subseteq more, live[r] <= later[r],
           RowSound(live, energy, r, row)
    PROVE  RowSound(later, more, r, row)
BY DEF RowSound, NotPast, RowRecords

\* A sound row stays so with a point at a time it was heard.
LEMMA SoundPoint ==
    ASSUME NEW r \in Rows, NEW row \in RowRecords, NEW live \in [Rows -> Int], NEW energy, NEW t \in Int,
           RowSound(live, energy, r, row), NotPast(live, energy, r, t)
    PROVE  RowSound(live, energy, r, WithPoint(row, t))
<1> DEFINE w == WithPoint(row, t)
<1>1. /\ w \in RowRecords /\ w.st = row.st /\ w.start = row.start /\ w.end = row.end
      /\ w.last = t \/ (row.n > 0 /\ w.last = row.last)
  BY PointKeeps
<1> HIDE DEF w
<1>2. RowSound(live, energy, r, w)
  BY <1>1 DEF RowSound, NotPast
<1>q. QED  BY <1>2 DEF w

\* A sound row stays so when it is closed.
LEMMA SoundClosed ==
    ASSUME ChargeTypes, NEW r \in Rows, Open(r), NEW live \in [Rows -> Int], NEW energy,
           RowSound(live, energy, r, rows[r])
    PROVE  RowSound(live, energy, r, ClosedRow(r))
<1> DEFINE c == ClosedRow(r)
<1>1. /\ c \in RowRecords /\ c.st \in {"gone", "closed"} /\ c.start = rows[r].start
      /\ c.n = rows[r].n /\ c.last = rows[r].last
      /\ c.st = "closed" => rows[r].n > 0 /\ c.end = rows[r].last
  BY ClosedKeeps
<1> HIDE DEF c
<1>2. RowSound(live, energy, r, c)
  BY <1>1 DEF RowSound, NotPast, Open
<1>q. QED  BY <1>2 DEF c

\* _update_active_session() of session s, whose row is recorded in `table'.
LEMMA UpdateKeeps ==
    ASSUME ChargeTypes, NEW s \in Sessions, NEW table \in [Rows -> RowRecords], NEW t, NEW retained,
           MessageTime(t, retained), NEW e \in BOOLEAN, Update(s, table, t, retained, e),
           UNCHANGED <<now, dbFails, skew, ended, proved, userDeleted>>,
           lastLive' \in [Rows -> Int],
           table[s.row].st = "open" \/ s.row \in userDeleted,
           \A r \in Rows : table[r].st = "none" => r \notin ended,
           \A r \in Rows : RowSound(lastLive', proved, r, table[r]),
           NotPast(lastLive', proved, s.row, IF retained THEN s.heard ELSE t),
           ~dbFails /\ skew = 0 => Recorded(table, s.row)
    PROVE  /\ rows' \in [Rows -> RowRecords] /\ (session' = NoSession \/ session' \in Sessions)
           /\ Held' /\ Records' /\ (~dbFails' /\ skew' = 0 => OnTime')
<1> DEFINE r == s.row
           w == WithPoint(table[r], t)
<1>0. r \in Rows /\ table[r] \in RowRecords /\ t \in Int /\ retained \in BOOLEAN
  BY DEF Sessions, MessageTime
<1>1. \/ session' = NoSession /\ table[r].st = "gone" /\ rows' = table
      \/ Goes(s, t, retained) /\ rows' = table
      \/ Goes(s, t, retained) /\ ~retained /\ rows' = [table EXCEPT ![r] = w]
  BY <1>0, UpdateOutcomes
<1>2. /\ w \in RowRecords /\ w.st = table[r].st /\ w.start = table[r].start
      /\ w.n > 0 /\ w.last >= t
  BY <1>0, PointKeeps
<1>3. ~retained => RowSound(lastLive', proved, r, w)
  BY <1>0, SoundPoint
<1> HIDE DEF w, r
<1>4. rows' \in [Rows -> RowRecords] /\ (session' = NoSession \/ session' \in Sessions)
  BY <1>0, <1>1, <1>2 DEF Goes
<1>5. Held'
  BY <1>0, <1>1, <1>2 DEF Held, Open, Goes, r
<1>6. Records'
  BY <1>0, <1>1, <1>2, <1>3, <1>4 DEF Records, Goes, r
<1>7. ASSUME ~dbFails, skew = 0  PROVE OnTime'
  <2>1. Recorded(table, r) /\ t = now /\ now \in Int /\ Idle \in Nat
    BY <1>7, ChargeAssumption DEF MessageTime, r, ChargeTypes
  <2>2. CASE session' = NoSession /\ table[r].st = "gone" /\ rows' = table
    <3>1. Nobody'
      BY <2>1, <2>2 DEF Nobody, Recorded, Open, InTime, OldRow, RecordEnd
    <3>q. QED  BY <3>1, <2>2 DEF OnTime
  <2>3. ASSUME Goes(s, t, retained), Recorded(rows', r)  PROVE OnTime'
    <3>1. session' # NoSession /\ session'.row = r
      BY <2>3, NoSessionRow DEF Goes, r
    <3>q. QED  BY <3>1, <2>3 DEF OnTime, Recorded, InTime, OldRow, RecordEnd
  <2>4. CASE Goes(s, t, retained) /\ rows' = table
    BY <2>1, <2>3, <2>4
  <2>5. CASE Goes(s, t, retained) /\ ~retained /\ rows' = [table EXCEPT ![r] = w]
    <3>1. InTime(table[r]) => InTime(w)
      BY <2>1, <1>2, <1>0 DEF InTime, RecordEnd, RowRecords
    <3>2. Recorded(rows', r)
      BY <2>1, <2>5, <3>1, <1>0, <1>2 DEF Recorded
    <3>q. QED  BY <3>2, <2>3, <2>5
  <2>q. QED  BY <1>1, <2>2, <2>4, <2>5
<1>q. QED  BY <1>4, <1>5, <1>6, <1>7

\* With fewer rows open, what was old, in order and recorded still is.
LEMMA FewerOpen ==
    ASSUME ChargeTypes, OnTime, UNCHANGED <<now, session, seen, ended>>,
           \A q \in Rows : rows'[q] = rows[q] \/ rows'[q].st # "open"
    PROVE  OnTime'
<1>1. CASE session = NoSession
  <2>1. Nobody
    BY <1>1 DEF OnTime
  <2>2. Nobody'
    BY <2>1 DEF Nobody, Open, InTime, OldRow, RecordEnd
  <2>q. QED  BY <1>1, <2>2 DEF OnTime
<1>2. CASE session # NoSession
  <2>1. session.row \in Rows
    BY <1>2 DEF ChargeTypes, Sessions
  <2>q. QED  BY <1>2, <2>1 DEF OnTime, Recorded, InTime, OldRow, RecordEnd
<1>q. QED  BY <1>1, <1>2

\* Once the recorded row is no longer open, all that are left open are old.
LEMMA SessionOver ==
    ASSUME OnTime, session # NoSession, session' = NoSession, now' = now,
           rows'[session.row].st # "open",
           \A q \in Rows : rows'[q] = rows[q] \/ rows'[q].st # "open"
    PROVE  OnTime'
BY DEF OnTime, Nobody, Recorded, Open, InTime, OldRow, RecordEnd

\* _end_charge_session() at a time the row was heard.
LEMMA EndSessionKeeps ==
    ASSUME ChargeInv, session # NoSession, NEW t \in Int, EndSession(t),
           UNCHANGED <<now, dbFails, skew, userDeleted>>,
           lastLive' \in [Rows -> Int], \A q \in Rows : lastLive'[q] >= lastLive[q],
           proved \subseteq proved',
           NotPast(lastLive', proved', session.row, t),
           \A r \in Rows : rows[r].st = "none" => r \notin ended'
    PROVE  /\ rows' \in [Rows -> RowRecords] /\ session' = NoSession
           /\ Held' /\ Records' /\ (~dbFails' /\ skew' = 0 => OnTime')
<1> DEFINE r == session.row
           row == rows[r]
           w == WithPoint(row, t)
           gone == [row EXCEPT !.st = "gone"]
           closed == [w EXCEPT !.st = "closed", !.end = t]
<1>0. ChargeTypes /\ Held /\ Records /\ session \in Sessions /\ r \in Rows /\ row \in RowRecords
  BY DEF ChargeInv, ChargeTypes, Sessions
<1>1. w \in RowRecords /\ w.st = row.st /\ w.start = row.start
  BY <1>0, PointKeeps
<1>2. PICK new \in {row, w, gone, closed} :
          /\ rows' = [rows EXCEPT ![r] = new]
          /\ ~dbFails /\ Exists(r) => new \in {gone, closed}
          /\ ~Exists(r) => new = row
  BY DEF EndSession, Exists
<1>3. RowSound(lastLive', proved', r, row) /\ RowSound(lastLive', proved', r, w)
  BY <1>0, SoundLater, SoundPoint DEF Records, ChargeTypes
<1>s. session' = NoSession
  BY DEF EndSession
<1> HIDE DEF w, row
<1>4. gone \in RowRecords /\ closed \in RowRecords /\ gone.st = "gone" /\ closed.st = "closed"
  BY <1>0, <1>1 DEF RowRecords
<1>5. row.st # "none" => RowSound(lastLive', proved', r, gone)
  <2>1. gone.start = row.start /\ gone.n = row.n /\ gone.last = row.last
    BY <1>0 DEF RowRecords
  <2>q. QED  BY <2>1, <1>3, <1>4 DEF RowSound
<1>6. w.st # "none" => RowSound(lastLive', proved', r, closed)
  <2>1. closed.start = w.start /\ closed.n = w.n /\ closed.last = w.last /\ closed.end = t
    BY <1>1 DEF RowRecords
  <2>q. QED  BY <2>1, <1>3, <1>4 DEF RowSound
<1> HIDE DEF gone, closed, r
<1>7. new \in RowRecords /\ (row.st # "none" => RowSound(lastLive', proved', r, new))
  BY <1>0, <1>1, <1>2, <1>3, <1>4, <1>5, <1>6
<1>8. /\ rows' \in [Rows -> RowRecords] /\ rows'[r] = new
      /\ \A q \in Rows : q # r => rows'[q] = rows[q]
  BY <1>0, <1>2, <1>7 DEF ChargeTypes
<1>9. Held'
  <2>1. new.st = "none" => row.st = "none"
    BY <1>1, <1>2, <1>4
  <2>q. QED  BY <2>1, <1>0, <1>8, <1>s DEF Held, row
<1>10. Records'
  <2>1. ASSUME NEW q \in Rows, q # r  PROVE RowSound(lastLive', proved', q, rows'[q])
    BY <2>1, <1>0, <1>8, SoundLater DEF Records, ChargeTypes
  <2>2. RowSound(lastLive', proved', r, rows'[r])
    BY <1>0, <1>2, <1>3, <1>7, <1>8 DEF Exists, row
  <2>q. QED  BY <2>1, <2>2, <1>s, <1>0 DEF Records
<1>11. ASSUME ~dbFails, skew = 0  PROVE OnTime'
  <2>1. OnTime
    BY <1>11 DEF ChargeInv
  <2>2. rows'[r].st # "open"
    BY <1>11, <1>2, <1>4, <1>8 DEF Exists, row
  <2>q. QED  BY <2>1, <2>2, <1>8, <1>s, SessionOver DEF r
<1>q. QED  BY <1>8, <1>9, <1>10, <1>11, <1>s

\* A message for the session there is.
LEMMA UpdateHeld ==
    ASSUME ChargeInv, session # NoSession, NEW t, NEW retained, MessageTime(t, retained),
           NEW e \in {session.kwh, TRUE}, Update(session, rows, t, retained, e),
           Heard(session.row, t, retained),
           UNCHANGED <<now, dbFails, skew, pass, deletion, ended, proved, userDeleted>>
    PROVE  ChargeInv'
<1>1. ChargeTypes /\ Held /\ Records /\ session \in Sessions /\ session.row \in Rows
      /\ t \in Int /\ retained \in BOOLEAN /\ e \in BOOLEAN
  BY DEF ChargeInv, ChargeTypes, Sessions, MessageTime
<1>2. /\ lastLive' \in [Rows -> Int] /\ \A q \in Rows : lastLive'[q] >= lastLive[q]
      /\ ~retained => lastLive'[session.row] >= t
  BY <1>1, HeardLive
<1>3. \A r \in Rows : RowSound(lastLive', proved, r, rows[r])
  BY <1>1, <1>2, SoundLater DEF Records, ChargeTypes
<1>4. NotPast(lastLive', proved, session.row, IF retained THEN session.heard ELSE t)
  BY <1>1, <1>2 DEF NotPast, Records, Sessions, ChargeTypes
<1>5. rows[session.row].st = "open" \/ session.row \in userDeleted
  BY <1>1 DEF Held, Open
<1>6. ~dbFails /\ skew = 0 => Recorded(rows, session.row)
  BY DEF ChargeInv, OnTime
<1>7. rows \in [Rows -> RowRecords] /\ \A r \in Rows : rows[r].st = "none" => r \notin ended
  BY <1>1 DEF Held, ChargeTypes
<1>8. /\ rows' \in [Rows -> RowRecords] /\ (session' = NoSession \/ session' \in Sessions)
      /\ Held' /\ Records' /\ (~dbFails' /\ skew' = 0 => OnTime')
  BY <1>1, <1>2, <1>3, <1>4, <1>5, <1>6, <1>7, UpdateKeeps
<1>9. ChargeTypes'
  BY <1>1, <1>2, <1>8 DEF ChargeTypes
<1>q. QED  BY <1>8, <1>9 DEF ChargeInv

\* A "yes" without a session: the open row that started last is resumed.
LEMMA Resumes ==
    ASSUME ChargeInv, session = NoSession, NEW t, NEW retained, MessageTime(t, retained),
           NEW e \in BOOLEAN, NEW r \in Latest(Unheld), t - Activity(r) <= Idle,
           Update(Adopted(r, t, retained), rows, t, retained, e), Heard(r, t, retained),
           UNCHANGED <<now, dbFails, skew, pass, deletion, ended, proved, userDeleted>>
    PROVE  ChargeInv'
<1> DEFINE s == Adopted(r, t, retained)
<1>1. ChargeTypes /\ Held /\ Records /\ t \in Int /\ retained \in BOOLEAN
  BY DEF ChargeInv, MessageTime
<1>2. r \in Rows /\ Open(r) /\ \A q \in Rows : Open(q) => rows[q].start <= rows[r].start
  BY <1>1, NoSessionRow DEF Latest, Unheld
<1>3. rows[r] \in RowRecords /\ Activity(r) \in Int /\ Activity(r) = RecordEnd(rows[r])
  BY <1>1, <1>2 DEF ChargeTypes, RowRecords, Activity, RecordEnd
<1>4. /\ s \in Sessions /\ s.row = r
      /\ s.heard = IF retained THEN Activity(r) ELSE t
  BY <1>1, <1>2, <1>3 DEF Adopted, Sessions, RowRecords
<1> HIDE DEF s
<1>5. /\ lastLive' \in [Rows -> Int] /\ \A q \in Rows : lastLive'[q] >= lastLive[q]
      /\ ~retained => lastLive'[r] >= t
  BY <1>1, <1>2, HeardLive
<1>6. \A q \in Rows : RowSound(lastLive', proved, q, rows[q])
  BY <1>1, <1>5, SoundLater DEF Records, ChargeTypes
<1>7. NotPast(lastLive', proved, s.row, IF retained THEN s.heard ELSE t)
  BY <1>1, <1>2, <1>3, <1>4, <1>5, <1>6 DEF NotPast, RowSound, RecordEnd, Open, RowRecords
<1>8. ASSUME ~dbFails, skew = 0  PROVE Recorded(rows, r)
  <2>1. Nobody /\ t = now /\ now \in Int /\ Idle \in Nat
    BY <1>8, ChargeAssumption DEF ChargeInv, OnTime, MessageTime, ChargeTypes
  <2>2. ~OldRow(rows[r]) /\ r \notin ended
    BY <2>1, <1>2, <1>3 DEF Nobody, OldRow
  <2>3. ASSUME NEW q \in Rows, Open(q), q # r
        PROVE  OldRow(rows[q]) /\ rows[q].start < rows[r].start
    <3>1. rows[q].start \in Int /\ rows[r].start \in Int
      BY <1>1, <1>2 DEF ChargeTypes, RowRecords
    <3>2. rows[q].start <= rows[r].start /\ ~(rows[r].start <= rows[q].start)
      BY <1>2, <2>1, <2>2, <2>3 DEF Nobody
    <3>q. QED  BY <1>2, <2>1, <2>3, <3>1, <3>2 DEF Nobody
  <2>q. QED  BY <2>1, <2>2, <2>3 DEF Recorded, Nobody, Open
<1>9. rows \in [Rows -> RowRecords] /\ \A q \in Rows : rows[q].st = "none" => q \notin ended
  BY <1>1 DEF Held, ChargeTypes
<1>10. rows[s.row].st = "open" /\ (~dbFails /\ skew = 0 => Recorded(rows, s.row))
  BY <1>2, <1>4, <1>8 DEF Open
<1>11. Update(s, rows, t, retained, e)
  BY DEF s
<1>12. /\ rows' \in [Rows -> RowRecords] /\ (session' = NoSession \/ session' \in Sessions)
       /\ Held' /\ Records' /\ (~dbFails' /\ skew' = 0 => OnTime')
  BY <1>1, <1>4, <1>5, <1>6, <1>7, <1>9, <1>10, <1>11, UpdateKeeps
<1>13. ChargeTypes'
  BY <1>1, <1>5, <1>12 DEF ChargeTypes
<1>q. QED  BY <1>12, <1>13 DEF ChargeInv

\* A "yes" without a session and without a row to resume: after those of a vehicle heard not
\* charging were closed, no open row is recent.
LEMMA Cleared ==
    ASSUME ChargeInv, session = NoSession, NEW t, NEW retained, MessageTime(t, retained),
           ~MayAdopt \/ Unheld = {} \/ \E r \in Latest(Unheld) : ~(t - Activity(r) <= Idle),
           NEW done \in Written(IF MayAdopt THEN {} ELSE Unheld),
           NEW table, table = [q \in Rows |-> IF q \in done THEN ClosedRow(q) ELSE rows[q]]
    PROVE  /\ table \in [Rows -> RowRecords]
           /\ \A q \in Rows : table[q].st = "none" => rows[q].st = "none"
           /\ \A q \in Rows : RowSound(lastLive, proved, q, table[q])
           /\ ~dbFails /\ skew = 0 =>
                \A q \in Rows : table[q].st = "open" =>
                    InTime(table[q]) /\ OldRow(table[q]) /\ table[q].start < now
<1>1. ChargeTypes /\ Records
  BY DEF ChargeInv
<1>2. Unheld = {q \in Rows : Open(q)}
  BY NoSessionRow DEF Unheld
<1>3. done \subseteq Unheld /\ (~dbFails /\ ~MayAdopt => done = Unheld)
  BY DEF Written
<1>4. \A q \in done : ClosedRow(q) \in RowRecords /\ ClosedRow(q).st \in {"gone", "closed"}
  BY <1>1, <1>2, <1>3, ClosedKeeps
<1>5. table \in [Rows -> RowRecords] /\ \A q \in Rows : table[q].st = "none" => rows[q].st = "none"
  BY <1>1, <1>4 DEF ChargeTypes
<1>6. \A q \in Rows : RowSound(lastLive, proved, q, table[q])
  BY <1>1, <1>2, <1>3, SoundClosed DEF Records, ChargeTypes
<1>7. ASSUME ~dbFails, skew = 0, NEW q \in Rows, table[q].st = "open"
      PROVE  InTime(table[q]) /\ OldRow(table[q]) /\ table[q].start < now
  <2>1. Nobody /\ t = now /\ now \in Int /\ Idle \in Nat
    BY <1>7, ChargeAssumption DEF ChargeInv, OnTime, MessageTime, ChargeTypes
  <2>2. q \notin done /\ table[q] = rows[q] /\ Open(q) /\ q \in Unheld
    BY <1>2, <1>4, <1>7 DEF Open
  <2>3. MayAdopt
    BY <1>3, <1>7, <2>2
  <2>4. PICK r \in Latest(Unheld) : ~(t - Activity(r) <= Idle)
    BY <2>2, <2>3
  <2>5. r \in Rows /\ Open(r) /\ rows[q].start <= rows[r].start /\ rows[r] \in RowRecords /\ rows[q] \in RowRecords
    BY <1>1, <1>2, <2>2 DEF Latest, ChargeTypes
  <2>6. OldRow(rows[r])
    BY <2>1, <2>4, <2>5 DEF OldRow, RecordEnd, Activity, RowRecords
  <2>7. OldRow(rows[q])
    BY <2>1, <2>2, <2>5, <2>6 DEF Nobody
  <2>8. InTime(rows[q])
    BY <2>1, <2>2 DEF Nobody
  <2>9. rows[q].start < now
    BY <2>1, <2>5, <2>7, <2>8 DEF OldRow, InTime, RecordEnd, RowRecords
  <2>q. QED  BY <2>2, <2>7, <2>8, <2>9
<1>q. QED  BY <1>5, <1>6, <1>7

\* The row that is created then.
Log(t) == [st |-> "open", start |-> t, n |-> 0, last |-> 0, end |-> 0]

LEMMA Creates ==
    ASSUME ChargeInv, session = NoSession, NEW t, NEW retained, MessageTime(t, retained),
           NEW e \in BOOLEAN,
           ~MayAdopt \/ Unheld = {} \/ \E r \in Latest(Unheld) : ~(t - Activity(r) <= Idle),
           NEW done \in Written(IF MayAdopt THEN {} ELSE Unheld),
           NEW table, table = [q \in Rows |-> IF q \in done THEN ClosedRow(q) ELSE rows[q]],
           NEW r \in Rows, Fresh(r),
           \/ /\ Update(NewSession(r, t), [table EXCEPT ![r] = WithPoint(Log(t), t)], t, retained, e)
              /\ lastLive' = [lastLive EXCEPT ![r] = t]
           \/ /\ dbFails /\ rows' = [table EXCEPT ![r] = Log(t)] /\ session' = NewSession(r, t)
              /\ lastLive' = [lastLive EXCEPT ![r] = t]
           \/ dbFails /\ rows' = table /\ UNCHANGED <<session, lastLive>>,
           UNCHANGED <<now, dbFails, skew, pass, deletion, ended, proved, userDeleted>>
    PROVE  ChargeInv'
<1> DEFINE s == NewSession(r, t)
           live == [lastLive EXCEPT ![r] = t]
           w == WithPoint(Log(t), t)
<1>1. ChargeTypes /\ Held /\ Records /\ t \in Int /\ retained \in BOOLEAN
  BY DEF ChargeInv, MessageTime
<1>2. /\ table \in [Rows -> RowRecords]
      /\ \A q \in Rows : table[q].st = "none" => rows[q].st = "none"
      /\ \A q \in Rows : RowSound(lastLive, proved, q, table[q])
      /\ ~dbFails /\ skew = 0 =>
                \A q \in Rows : table[q].st = "open" =>
                    InTime(table[q]) /\ OldRow(table[q]) /\ table[q].start < now
  BY Cleared
<1>3. rows[r].st = "none" /\ r \notin ended /\ \A q \in Rows : table[q].st = "none" => q \notin ended
  BY <1>1, <1>2 DEF Fresh, Held
<1>4. s \in Sessions /\ s.row = r /\ s.heard = t
  BY <1>1 DEF NewSession, Sessions
<1>5. Log(t) \in RowRecords /\ Log(t).st = "open" /\ Log(t).start = t /\ Log(t).n = 0
  BY <1>1 DEF Log, RowRecords
<1>6. w \in RowRecords /\ w.st = "open" /\ w.start = t /\ w.n > 0 /\ w.last >= t
  BY <1>1, <1>5, PointKeeps
<1>7. live \in [Rows -> Int] /\ live[r] = t /\ \A q \in Rows : q # r => live[q] = lastLive[q]
  BY <1>1 DEF ChargeTypes
<1>8. RowSound(live, proved, r, Log(t)) /\ RowSound(live, proved, r, w)
  <2>1. RowSound(live, proved, r, Log(t)) /\ NotPast(live, proved, r, t)
    BY <1>1, <1>5, <1>7 DEF RowSound, NotPast
  <2>q. QED  BY <2>1, <1>1, <1>5, <1>7, SoundPoint
<1> HIDE DEF s, live, w
<1>9. \A q \in Rows : q # r => RowSound(live, proved, q, table[q])
  BY <1>2, <1>7 DEF RowSound, NotPast
<1>10. CASE Update(s, [table EXCEPT ![r] = w], t, retained, e) /\ lastLive' = live
  <2> DEFINE made == [table EXCEPT ![r] = w]
  <2>1. made \in [Rows -> RowRecords] /\ made[r] = w /\ \A q \in Rows : q # r => made[q] = table[q]
    BY <1>2, <1>6
  <2> HIDE DEF made
  <2>2. made[s.row].st = "open" /\ \A q \in Rows : made[q].st = "none" => q \notin ended
    BY <1>3, <1>4, <1>6, <2>1
  <2>3. \A q \in Rows : RowSound(live, proved, q, made[q])
    BY <1>8, <1>9, <2>1
  <2>4. NotPast(live, proved, s.row, IF retained THEN s.heard ELSE t)
    BY <1>1, <1>4, <1>7 DEF NotPast
  <2>5. ASSUME ~dbFails, skew = 0  PROVE Recorded(made, s.row)
    <3>1. t = now /\ now \in Int
      BY <1>1, <2>5 DEF MessageTime, ChargeTypes
    <3>2. InTime(w)
      BY <3>1, <1>6 DEF InTime, RecordEnd, RowRecords
    <3>q. QED  BY <3>1, <3>2, <2>1, <2>5, <1>2, <1>3, <1>4, <1>6 DEF Recorded
  <2>6. Update(s, made, t, retained, e)
    BY <1>10 DEF made
  <2>7. /\ rows' \in [Rows -> RowRecords] /\ (session' = NoSession \/ session' \in Sessions)
        /\ Held' /\ Records' /\ (~dbFails' /\ skew' = 0 => OnTime')
    BY <1>1, <1>4, <1>7, <1>10, <2>1, <2>2, <2>3, <2>4, <2>5, <2>6, UpdateKeeps
  <2>8. ChargeTypes'
    BY <1>1, <1>7, <1>10, <2>7 DEF ChargeTypes
  <2>q. QED  BY <2>7, <2>8 DEF ChargeInv
<1>11. CASE dbFails /\ rows' = [table EXCEPT ![r] = Log(t)] /\ session' = s /\ lastLive' = live
  <2>1. rows' \in [Rows -> RowRecords] /\ rows'[r] = Log(t) /\ \A q \in Rows : q # r => rows'[q] = table[q]
    BY <1>2, <1>5, <1>11
  <2>2. ChargeTypes'
    BY <1>1, <1>4, <1>7, <1>11, <2>1 DEF ChargeTypes
  <2>3. Held'
    BY <1>3, <1>4, <1>5, <1>11, <2>1 DEF Held, Open
  <2>4. Records'
    BY <1>1, <1>4, <1>7, <1>8, <1>9, <1>11, <2>1 DEF Records, NotPast
  <2>q. QED  BY <1>11, <2>2, <2>3, <2>4 DEF ChargeInv
<1>12. CASE dbFails /\ rows' = table /\ UNCHANGED <<session, lastLive>>
  BY <1>1, <1>2, <1>3, <1>12 DEF ChargeInv, ChargeTypes, Held, Records
<1>q. QED  BY <1>10, <1>11, <1>12 DEF s, live, w

\* v.c.charging = yes
LEMMA YesKeeps ==
    ASSUME ChargeInv, NEW t, NEW retained, MessageTime(t, retained), ChargingYes(t, retained), UNCHANGED env
    PROVE  ChargeInv'
<1>1. UNCHANGED <<now, dbFails, skew, pass, deletion, ended, proved, userDeleted>> /\ seen' = "yes"
  BY DEF ChargingYes, env, user
<1>2. CASE session = NoSession /\ UNCHANGED <<rows, session, lastLive>>
  <2>1. ChargeTypes' /\ Held' /\ Records'
    BY <1>1, <1>2 DEF ChargeInv, ChargeTypes, Held, Records, Open
  <2>2. ASSUME Nobody  PROVE Nobody'
    BY <1>1, <1>2, <2>2 DEF Nobody, Open, InTime, OldRow, RecordEnd
  <2>q. QED  BY <1>1, <1>2, <2>1, <2>2 DEF ChargeInv, OnTime
<1>3. ASSUME session = NoSession, NEW e \in BOOLEAN, Start(t, retained, e)  PROVE ChargeInv'
  <2>1. ASSUME NEW r \in Latest(Unheld), t - Activity(r) <= Idle,
               Update(Adopted(r, t, retained), rows, t, retained, e), Heard(r, t, retained)
        PROVE  ChargeInv'
    BY <1>1, <1>3, <2>1, Resumes
  <2>2. ASSUME ~MayAdopt \/ Unheld = {} \/ \E r \in Latest(Unheld) : ~(t - Activity(r) <= Idle),
               NEW done \in Written(IF MayAdopt THEN {} ELSE Unheld), NEW r \in Rows, Fresh(r),
               NEW table, table = [q \in Rows |-> IF q \in done THEN ClosedRow(q) ELSE rows[q]],
               \/ /\ Update(NewSession(r, t), [table EXCEPT ![r] = WithPoint(Log(t), t)], t, retained, e)
                  /\ lastLive' = [lastLive EXCEPT ![r] = t]
               \/ /\ dbFails /\ rows' = [table EXCEPT ![r] = Log(t)] /\ session' = NewSession(r, t)
                  /\ lastLive' = [lastLive EXCEPT ![r] = t]
               \/ dbFails /\ rows' = table /\ UNCHANGED <<session, lastLive>>
        PROVE  ChargeInv'
    BY <1>1, <1>3, <2>2, Creates
  <2>q. QED  BY <1>3, <2>1, <2>2 DEF Start, Log
<1>4. CASE session # NoSession
  <2>1. PICK e \in {session.kwh, TRUE} : Update(session, rows, t, retained, e)
    BY <1>4 DEF ChargingYes
  <2>q. QED  BY <1>1, <1>4, <2>1, UpdateHeld DEF ChargingYes
<1>q. QED  BY <1>2, <1>3, <1>4 DEF ChargingYes

\* Another relevant metric.
LEMMA OtherKeeps ==
    ASSUME ChargeInv, NEW t, NEW retained, MessageTime(t, retained), OtherMetric(t, retained), UNCHANGED env
    PROVE  ChargeInv'
<1>1. UNCHANGED <<now, dbFails, skew, pass, deletion, ended, proved, userDeleted>>
  BY DEF OtherMetric, env, user
<1>2. PICK e \in {session.kwh, TRUE} : Update(session, rows, t, retained, e)
  BY DEF OtherMetric
<1>q. QED  BY <1>1, <1>2, UpdateHeld DEF OtherMetric

\* Rows that are closed, of those that were open.
LEMMA ClosingKeeps ==
    ASSUME ChargeInv, NEW done, CloseRows(done), UNCHANGED <<lastLive, proved>>
    PROVE  /\ rows' \in [Rows -> RowRecords]
           /\ \A q \in Rows : rows'[q] = rows[q] \/ rows'[q].st \in {"gone", "closed"}
           /\ \A q \in Rows : q \notin done => rows'[q] = rows[q]
           /\ \A q \in Rows : q \in done => rows'[q].st # "open"
           /\ \A q \in Rows : RowSound(lastLive', proved', q, rows'[q])
<1>1. ChargeTypes /\ Records /\ Closes(rows', done)
  BY CloseRowsCloses DEF ChargeInv
<1>2. ASSUME NEW q \in Rows
      PROVE  /\ rows'[q] = rows[q] \/ rows'[q].st \in {"gone", "closed"}
             /\ q \notin done => rows'[q] = rows[q]
             /\ q \in done => rows'[q].st # "open"
             /\ RowSound(lastLive', proved', q, rows'[q])
  <2>1. RowSound(lastLive, proved, q, rows[q]) /\ (Open(q) => RowSound(lastLive, proved, q, ClosedRow(q)))
    BY <1>1, SoundClosed DEF Records, ChargeTypes
  <2>2. ClosedRow(q).st \in {"gone", "closed"}
    BY <1>1, ClosedKeeps
  <2>3. rows'[q] = IF q \in done /\ Open(q) THEN ClosedRow(q) ELSE rows[q]
    BY <1>1 DEF Closes
  <2>q. QED  BY <2>1, <2>2, <2>3 DEF Open
<1>q. QED  BY <1>1, <1>2 DEF Closes

\* v.c.charging = no
LEMMA NoKeeps ==
    ASSUME ChargeInv, NEW t, NEW retained, MessageTime(t, retained), ChargingNo(t, retained), UNCHANGED env
    PROVE  ChargeInv'
<1>1. /\ UNCHANGED <<now, dbFails, skew, pass, deletion, userDeleted>> /\ seen' = "no"
      /\ ended' = {r \in Rows : rows[r].st # "none"}
  BY DEF ChargingNo, env, user
<1>2. ChargeTypes /\ Held /\ Records /\ t \in Int /\ retained \in BOOLEAN
  BY DEF ChargeInv, MessageTime
<1>3. CASE session # NoSession
  <2>1. /\ EndSession(EndTime(t, retained)) /\ Heard(session.row, t, retained)
        /\ proved' = IF retained /\ TooShort /\ session.kwh THEN proved \cup {session.row} ELSE proved
    BY <1>3 DEF ChargingNo
  <2>2. session \in Sessions /\ session.row \in Rows /\ session.heard \in Int /\ EndTime(t, retained) \in Int
    BY <1>2, <1>3 DEF ChargeTypes, Sessions, EndTime
  <2>3. /\ lastLive' \in [Rows -> Int] /\ \A q \in Rows : lastLive'[q] >= lastLive[q]
        /\ ~retained => lastLive'[session.row] >= t
    BY <1>2, <2>1, <2>2, HeardLive
  <2>4. NotPast(lastLive', proved', session.row, EndTime(t, retained))
    BY <1>2, <1>3, <2>1, <2>2, <2>3 DEF EndTime, NotPast, Records, ChargeTypes
  <2>5. /\ rows' \in [Rows -> RowRecords] /\ session' = NoSession
        /\ Held' /\ Records' /\ (~dbFails' /\ skew' = 0 => OnTime')
    BY <1>1, <1>2, <1>3, <2>1, <2>2, <2>3, <2>4, EndSessionKeeps
  <2>6. ChargeTypes'
    BY <1>1, <1>2, <2>1, <2>2, <2>3, <2>5 DEF ChargeTypes
  <2>q. QED  BY <2>5, <2>6 DEF ChargeInv
<1>4. ASSUME session = NoSession, NEW done \in Written(Unheld), CloseRows(done),
             UNCHANGED <<session, lastLive, proved>>
      PROVE  ChargeInv'
  <2>1. /\ rows' \in [Rows -> RowRecords]
        /\ \A q \in Rows : rows'[q] = rows[q] \/ rows'[q].st \in {"gone", "closed"}
        /\ \A q \in Rows : q \in done => rows'[q].st # "open"
        /\ \A q \in Rows : RowSound(lastLive', proved', q, rows'[q])
        /\ \A q \in Rows : q \notin done => rows'[q] = rows[q]
    BY <1>4, ClosingKeeps
  <2>2. ChargeTypes' /\ Held' /\ Records'
    BY <1>1, <1>2, <1>4, <2>1 DEF ChargeTypes, Held, Records
  <2>3. ~dbFails => \A q \in Rows : rows'[q].st # "open"
    BY <1>4, <2>1, NoSessionRow DEF Written, Unheld, Open
  <2>4. ~dbFails => OnTime'
    BY <1>4, <2>3 DEF OnTime, Nobody, Open
  <2>q. QED  BY <1>1, <2>2, <2>4 DEF ChargeInv
<1>5. CASE session = NoSession /\ seen = "no" /\ UNCHANGED <<rows, session, lastEnd, lastLive, proved>>
  <2>1. ChargeTypes' /\ Held' /\ Records'
    BY <1>1, <1>2, <1>5 DEF ChargeTypes, Held, Records, Open
  <2>2. ASSUME Nobody  PROVE Nobody'
    BY <1>1, <1>5, <2>2 DEF Nobody, Open, InTime, OldRow, RecordEnd
  <2>q. QED  BY <1>1, <1>5, <2>1, <2>2 DEF ChargeInv, OnTime
<1>q. QED  BY <1>3, <1>4, <1>5 DEF ChargingNo

-----------------------------------------------------------------------------
\* The housekeeping pass ends the held session if it is still quiet.
LEMMA EndStaleKeeps ==
    ASSUME ChargeInv, EndStale, UNCHANGED env
    PROVE  ChargeInv'
<1>1. /\ UNCHANGED <<now, dbFails, skew, seen, deletion, lastLive, ended, proved, userDeleted>>
      /\ pass' = [pass EXCEPT !.pc = "list"]
  BY DEF EndStale, env, user, history
<1>2. ChargeTypes /\ Held /\ Records
  BY DEF ChargeInv
<1>3. pass' \in [pc : {"idle", "stale", "list", "rows"}, at : Int, todo : SUBSET Rows]
  BY <1>1, <1>2 DEF ChargeTypes
<1>4. CASE UNCHANGED <<rows, session, lastEnd>>
  <2>1. ChargeTypes' /\ Held' /\ Records'
    BY <1>1, <1>2, <1>3, <1>4 DEF ChargeTypes, Held, Records, Open
  <2>2. OnTime => OnTime'
    BY <1>1, <1>2, <1>4, FewerOpen
  <2>q. QED  BY <1>1, <2>1, <2>2 DEF ChargeInv
<1>5. CASE session # NoSession /\ EndSession(session.heard)
  <2>1. session \in Sessions /\ session.row \in Rows /\ session.heard \in Int
    BY <1>2, <1>5 DEF ChargeTypes, Sessions
  <2>2. /\ lastLive' \in [Rows -> Int] /\ \A q \in Rows : lastLive'[q] >= lastLive[q]
        /\ NotPast(lastLive', proved', session.row, session.heard)
        /\ \A r \in Rows : rows[r].st = "none" => r \notin ended'
    BY <1>1, <1>2, <1>5 DEF ChargeTypes, Records, Held
  <2>3. /\ rows' \in [Rows -> RowRecords] /\ session' = NoSession
        /\ Held' /\ Records' /\ (~dbFails' /\ skew' = 0 => OnTime')
    BY <1>1, <1>5, <2>1, <2>2, EndSessionKeeps
  <2>4. ChargeTypes'
    BY <1>1, <1>2, <1>3, <2>3 DEF ChargeTypes
  <2>q. QED  BY <2>3, <2>4 DEF ChargeInv
<1>6. ASSUME session # NoSession, session' = NoSession, NEW done \in Written({session.row}), CloseRows(done)
      PROVE  ChargeInv'
  <2>1. /\ rows' \in [Rows -> RowRecords]
        /\ \A q \in Rows : rows'[q] = rows[q] \/ rows'[q].st \in {"gone", "closed"}
        /\ \A q \in Rows : q \in done => rows'[q].st # "open"
        /\ \A q \in Rows : RowSound(lastLive', proved', q, rows'[q])
    BY <1>1, <1>6, ClosingKeeps
  <2>2. ChargeTypes' /\ Held' /\ Records'
    BY <1>1, <1>2, <1>3, <1>6, <2>1 DEF ChargeTypes, Held, Records
  <2>3. ASSUME ~dbFails, OnTime  PROVE OnTime'
    <3>1. session.row \in Rows /\ session.row \in done
      BY <1>2, <1>6, <2>3 DEF ChargeTypes, Sessions, Written
    <3>q. QED  BY <1>1, <1>6, <2>1, <2>3, <3>1, SessionOver
  <2>q. QED  BY <1>1, <2>2, <2>3 DEF ChargeInv
<1>q. QED  BY <1>4, <1>5, <1>6 DEF EndStale, QuietAt

\* It closes a row that nobody records.
LEMMA CloseOrphanKeeps ==
    ASSUME ChargeInv, NEW r \in Rows, CloseOrphan(r), UNCHANGED env
    PROVE  ChargeInv'
<1>1. /\ UNCHANGED <<now, dbFails, skew, seen, session, deletion, lastLive, ended, proved, userDeleted>>
      /\ pass' = [pass EXCEPT !.todo = @ \ {r}]
  BY DEF CloseOrphan, env, user, history, memory
<1>2. ChargeTypes /\ Held /\ Records
  BY DEF ChargeInv
<1>3. pass' \in [pc : {"idle", "stale", "list", "rows"}, at : Int, todo : SUBSET Rows]
  BY <1>1, <1>2 DEF ChargeTypes
<1>4. /\ rows' \in [Rows -> RowRecords]
      /\ \A q \in Rows : rows'[q] = rows[q] \/ rows'[q].st \in {"gone", "closed"}
      /\ \A q \in Rows : q = session.row => rows'[q] = rows[q]
      /\ \A q \in Rows : RowSound(lastLive', proved', q, rows'[q])
  <2>1. CASE r # session.row /\ \E done \in Written({r}) : CloseRows(done)
    <3>1. PICK done \in Written({r}) : CloseRows(done)
      BY <2>1
    <3>2. session.row \notin done
      BY <2>1, <3>1 DEF Written
    <3>q. QED  BY <3>1, <3>2, <1>1, ClosingKeeps
  <2>2. CASE UNCHANGED rows
    BY <1>1, <1>2, <2>2 DEF ChargeTypes, Records
  <2>q. QED  BY <2>1, <2>2 DEF CloseOrphan
<1>5. ChargeTypes' /\ Records'
  BY <1>1, <1>2, <1>3, <1>4 DEF ChargeTypes, Records
<1>6. Held'
  <2>1. session # NoSession => session.row \in Rows
    BY <1>2 DEF ChargeTypes, Sessions
  <2>q. QED  BY <1>1, <1>2, <1>4, <2>1 DEF Held, Open
<1>7. OnTime => OnTime'
  BY <1>1, <1>2, <1>4, FewerOpen
<1>q. QED  BY <1>1, <1>5, <1>6, <1>7 DEF ChargeInv

\* A deletion by the user takes a row away, even that of a session.
LEMMA DeleteKeeps ==
    ASSUME ChargeInv, Delete, UNCHANGED env
    PROVE  ChargeInv'
<1>1. UNCHANGED <<now, dbFails, skew, seen, session, pass, lastLive, ended, proved>> /\ deletion' = <<>>
  BY DEF Delete, env, memory
<1>2. ChargeTypes /\ Held /\ Records
  BY DEF ChargeInv
<1>3. PICK r \in Rows : deletion = <<r>>
  BY <1>2 DEF ChargeTypes, Delete
<1>4. /\ userDeleted' = userDeleted \cup {r}
      /\ rows' = IF Exists(r) THEN [rows EXCEPT ![r].st = "gone"] ELSE rows
  BY <1>3 DEF Delete
<1>5. /\ rows' \in [Rows -> RowRecords]
      /\ \A q \in Rows : q # r => rows'[q] = rows[q]
      /\ rows'[r] = rows[r] \/
           /\ Exists(r) /\ rows'[r].st = "gone" /\ rows'[r].start = rows[r].start
           /\ rows'[r].n = rows[r].n /\ rows'[r].last = rows[r].last
  <2> DEFINE gone == [rows[r] EXCEPT !.st = "gone"]
  <2>1. rows[r] \in RowRecords
    BY <1>2 DEF ChargeTypes
  <2>2. /\ gone \in RowRecords /\ gone.st = "gone" /\ gone.start = rows[r].start
        /\ gone.n = rows[r].n /\ gone.last = rows[r].last
    BY <2>1 DEF RowRecords
  <2>3. rows' = IF Exists(r) THEN [rows EXCEPT ![r] = gone] ELSE rows
    BY <1>4
  <2> HIDE DEF gone
  <2>q. QED  BY <2>2, <2>3, <1>2 DEF ChargeTypes
<1>6. ChargeTypes'
  BY <1>1, <1>2, <1>4, <1>5 DEF ChargeTypes
<1>7. Held'
  <2>1. session # NoSession => session.row \in Rows
    BY <1>2 DEF ChargeTypes, Sessions
  <2>q. QED  BY <1>1, <1>2, <1>4, <1>5, <2>1 DEF Held, Open
<1>8. Records'
  <2>1. RowSound(lastLive, proved, r, rows'[r])
    BY <1>2, <1>5 DEF Records, RowSound, Exists
  <2>q. QED  BY <1>1, <1>2, <1>5, <2>1 DEF Records
<1>9. OnTime => OnTime'
  BY <1>1, <1>2, <1>5, FewerOpen
<1>q. QED  BY <1>1, <1>6, <1>7, <1>8, <1>9 DEF ChargeInv

\* A crash loses the session and what was known of the car, not the rows.
LEMMA CrashKeeps ==
    ASSUME ChargeInv, Crash, UNCHANGED env
    PROVE  ChargeInv'
<1>1. /\ UNCHANGED <<now, dbFails, skew, rows, lastLive, ended, proved, userDeleted>>
      /\ session' = NoSession /\ seen' = "never" /\ pass' = NoPass /\ deletion' = <<>>
  BY DEF Crash, env, history
<1>2. ChargeTypes /\ Held /\ Records
  BY DEF ChargeInv
<1>3. ChargeTypes' /\ Held' /\ Records'
  BY <1>1, <1>2 DEF ChargeTypes, Held, Records, NoPass
<1>4. ASSUME OnTime  PROVE Nobody'
  <2>1. CASE session = NoSession
    <3>1. Nobody
      BY <1>4, <2>1 DEF OnTime
    <3>q. QED  BY <1>1, <3>1 DEF Nobody, Open, InTime, OldRow, RecordEnd
  <2>2. CASE session # NoSession
    <3> DEFINE s == session.row
    <3>1. Recorded(rows, s) /\ s \in Rows
      BY <1>2, <1>4, <2>2 DEF OnTime, ChargeTypes, Sessions
    <3> HIDE DEF s
    <3>2. \A q \in Rows : rows[q].start \in Int
      BY <1>2 DEF ChargeTypes, RowRecords
    <3>3. \A q \in Rows : Open(q) => InTime(rows[q]) /\ (q \in ended => OldRow(rows[q]))
      BY <3>1 DEF Recorded, Open
    <3>4. \A q, r \in Rows : Open(q) /\ Open(r) /\ q # r /\ rows[q].start <= rows[r].start => OldRow(rows[q])
      BY <3>1, <3>2 DEF Recorded, Open
    <3>q. QED  BY <1>1, <3>3, <3>4 DEF Nobody, Open, InTime, OldRow, RecordEnd
  <2>q. QED  BY <2>1, <2>2
<1>q. QED  BY <1>1, <1>3, <1>4 DEF ChargeInv, OnTime

\* As time passes rows get older.
LEMMA TickKeeps ==
    ASSUME ChargeInv, Tick, UNCHANGED env
    PROVE  ChargeInv'
<1>1. /\ UNCHANGED <<dbFails, skew, rows, session, seen, pass, deletion, lastLive, ended, proved, userDeleted>>
      /\ now' = now + 1
  BY DEF Tick, env, memory, user, history
<1>2. ChargeTypes /\ Held /\ Records
  BY DEF ChargeInv
<1>3. ChargeTypes' /\ Held' /\ Records'
  BY <1>1, <1>2 DEF ChargeTypes, Held, Records, Open
<1>4. \A q \in Rows : (InTime(rows[q]) => InTime(rows[q])') /\ (OldRow(rows[q]) => OldRow(rows[q])')
  <2>1. Idle \in Nat /\ now \in Int /\ \A q \in Rows : rows[q] \in RowRecords
    BY <1>2, ChargeAssumption DEF ChargeTypes
  <2>q. QED  BY <1>1, <2>1 DEF InTime, OldRow, RecordEnd, RowRecords
<1>5. CASE session = NoSession
  <2>1. Nobody => Nobody'
    BY <1>1, <1>4 DEF Nobody, Open
  <2>q. QED  BY <1>1, <1>3, <1>5, <2>1 DEF ChargeInv, OnTime
<1>6. CASE session # NoSession
  <2>1. Recorded(rows, session.row) => Recorded(rows, session.row)'
    BY <1>1, <1>4 DEF Recorded
  <2>q. QED  BY <1>1, <1>3, <1>6, <2>1 DEF ChargeInv, OnTime
<1>q. QED  BY <1>5, <1>6

\* The steps that leave the rows and the session alone.
LEMMA RestKeeps ==
    ASSUME ChargeInv, UNCHANGED <<env, now, rows, session, seen, history>>, ChargeTypes'
    PROVE  ChargeInv'
<1>1. UNCHANGED <<now, dbFails, skew, rows, session, seen, lastLive, ended, proved, userDeleted>>
  BY DEF env, history
<1>2. ChargeTypes /\ Held /\ Records
  BY DEF ChargeInv
<1>3. Held' /\ Records'
  BY <1>1, <1>2 DEF Held, Records, Open
<1>4. OnTime => OnTime'
  BY <1>1, <1>2, FewerOpen
<1>q. QED  BY <1>1, <1>3, <1>4 DEF ChargeInv

LEMMA OthersKeep ==
    ASSUME ChargeInv, UNCHANGED env,
           BeginPass \/ ListOpen \/ EndPass \/ Plug \/ \E r \in Rows : CheckDelete(r)
    PROVE  ChargeInv'
<1>1. ChargeTypes
  BY DEF ChargeInv
<1>2. CASE BeginPass
  BY <1>1, <1>2, RestKeeps DEF BeginPass, ChargeTypes, NoPass, env, memory, user, history
<1>3. CASE ListOpen
  BY <1>1, <1>3, RestKeeps DEF ListOpen, ChargeTypes, env, memory, user, history
<1>4. CASE EndPass
  BY <1>1, <1>4, RestKeeps DEF EndPass, ChargeTypes, NoPass, env, memory, user, history
<1>5. CASE Plug
  BY <1>1, <1>5, RestKeeps DEF Plug, ChargeTypes, env, memory, user, history
<1>6. ASSUME NEW r \in Rows, CheckDelete(r)  PROVE ChargeInv'
  BY <1>1, <1>6, RestKeeps DEF CheckDelete, ChargeTypes, env, memory, user, history
<1>q. QED  BY <1>2, <1>3, <1>4, <1>5, <1>6

-----------------------------------------------------------------------------
LEMMA ChargeInvStarts == Init => ChargeInv
<1> SUFFICES ASSUME Init PROVE ChargeInv
  OBVIOUS
<1>1. skew \in Nat
  BY ChargeAssumption DEF Init
<1>2. NoRow \in RowRecords /\ NoRow.st = "none"
  BY DEF NoRow, RowRecords
<1>3. ChargeTypes
  BY <1>1, <1>2 DEF Init, ChargeTypes, NoPass
<1>4. \A r \in Rows : rows[r].st = "none"
  BY <1>2 DEF Init
<1>q. QED  BY <1>3, <1>4 DEF Init, ChargeInv, Held, Records, RowSound, OnTime, Nobody, Open

\* The charge log's inductive invariant: a session records into a row of its own, nothing is
\* dated past the last sign of life, and what is left open is too old to be resumed.
THEOREM ChargeInvariance == Spec => []ChargeInv
<1>1. ASSUME ChargeInv, [Next]_vars  PROVE ChargeInv'
  <2>1. CASE Metric
    <3>1. UNCHANGED env
      BY <2>1 DEF Metric
    <3>2. PICK retained \in BOOLEAN : \E t \in IF retained THEN {now} ELSE (now - skew)..(now + skew) :
              ChargingYes(t, retained) \/ ChargingNo(t, retained) \/ OtherMetric(t, retained)
      BY <2>1 DEF Metric
    <3>3. PICK t \in IF retained THEN {now} ELSE (now - skew)..(now + skew) :
              ChargingYes(t, retained) \/ ChargingNo(t, retained) \/ OtherMetric(t, retained)
      BY <3>2
    <3>4. MessageTime(t, retained)
      BY <1>1, <3>3 DEF MessageTime, ChargeInv, ChargeTypes
    <3>q. QED  BY <1>1, <3>1, <3>3, <3>4, YesKeeps, NoKeeps, OtherKeeps
  <2>2. CASE Housekeeping
    BY <1>1, <2>2, EndStaleKeeps, CloseOrphanKeeps, OthersKeep DEF Housekeeping
  <2>3. CASE Others
    BY <1>1, <2>3, DeleteKeeps, CrashKeeps, TickKeeps, OthersKeep DEF Others
  <2>4. CASE UNCHANGED vars
    BY <1>1, <2>4, RestKeeps DEF vars, env, memory, user, history, ChargeInv, ChargeTypes
  <2>q. QED  BY <1>1, <2>1, <2>2, <2>3, <2>4 DEF Next
<1>q. QED  BY <1>1, ChargeInvStarts, PTL DEF Spec

\* A session's row is open unless the user deleted it, and with a clock that is right and
\* writes that succeed it is no charge the car said was over: neither the housekeeping pass,
\* a restart nor a retained message makes it one (charge_manager.py:76-85, 213-247).
THEOREM SessionsHoldRows == Spec => []SessionHoldsItsRow
<1>1. ChargeInv => SessionHoldsItsRow
  BY DEF ChargeInv, Held, OnTime, Recorded, SessionHoldsItsRow
<1>q. QED  BY <1>1, ChargeInvariance, PTL

\* No closed log ends after the last time the car was heard charging into it, unless its
\* energy alone proves it (charge_manager.py:193-197, 275-291); whatever fails, restarts or
\* runs late, and however wrong the vehicle's clock is.
THEOREM LogsEndWhereHeard == Spec => []EndsWhereHeard
<1>1. ChargeInv => EndsWhereHeard
  BY DEF ChargeInv, Records, RowSound, NotPast, EndsWhereHeard
<1>q. QED  BY <1>1, ChargeInvariance, PTL
=============================================================================
