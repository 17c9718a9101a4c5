------------------------------ MODULE V2Proofs ------------------------------
(***************************************************************************)
(* What the TCP server of protocol V2 promises.                            *)
(*                                                                         *)
(* Its connections, V2Connections, for any number of connections, commands *)
(* and command numbers: which connection is registered, which commands are *)
(* pending, and that the tasks in the event loop's queue leave every peer  *)
(* with the right status and every app with the newest data.               *)
(*                                                                         *)
(* Its limits: the time limits of TcpReadLoop for every choice of the      *)
(* timeouts, and the counters of TcpLimits for every number of connections *)
(* and addresses.                                                          *)
(***************************************************************************)
EXTENDS V2Connections, TcpReadLoop, TcpLimits, FiniteSetTheorems, TLAPS

\* The two halves of TypeOK: the connections, and the commands sent to cars.
ConnectionTypes ==
    /\ stage \in [Conns -> Stages]
    /\ closed \in [Conns -> BOOLEAN] /\ closing \in [Cars -> BOOLEAN]
    /\ car \in Cars \cup {NoConn} /\ newest \in Cars \cup {NoConn} /\ apps \subseteq Apps
    /\ stored \in 0..MaxData

CallTypes ==
    /\ futures \in [Cars -> [Codes -> Commands \cup {NoCmd}]]
    /\ cmd \in [Commands -> Calls]

LEMMA TypeHalves == TypeOK <=> ConnectionTypes /\ CallTypes
BY DEF TypeOK, ConnectionTypes, CallTypes

\* Registrations follow the handlers: only the newest car can be registered, it is until
\* its handler ends, and every registered app's handler runs.
Registrations ==
    /\ NewestIsRegistered /\ RegisteredIsServed
    /\ newest = NoConn => car = NoConn
    /\ newest # NoConn => stage[newest] \in {"serving", "removed"}

\* What is known of the calls: their types, and which of them are pending.
CallsInv == CallTypes /\ PendingIsWaiting

\* The tasks in the event loop's queue.
TaskRecords ==
    [t : {"status"}, on : {0, 1}] \cup [t : {"z"}, to : SUBSET Apps, z : {0, 1}] \cup [t : {"count"}]
    \cup [t : {"data"}, to : SUBSET Apps, v : 0..MaxData, by : Cars] \cup [t : {"close"}, c : Cars]

\* The latest status notice in queue q says `on'.
NoStatus(q) == \A i \in 1..Len(q) : q[i].t # "status"
StatusCurrent(q, on) == \A i \in 1..Len(q) :
    q[i].t = "status" /\ (\A j \in (i + 1)..Len(q) : q[j].t # "status") => q[i].on = on

\* The latest Z in q for app a says `on'.
Tells(x, a) == x.t = "z" /\ a \in x.to
Untold(q, a) == \A i \in 1..Len(q) : ~Tells(q[i], a)
TellingCurrent(q, a, on) == \A i \in 1..Len(q) :
    Tells(q[i], a) /\ (\A j \in (i + 1)..Len(q) : ~Tells(q[j], a)) => q[i].z = on

\* The latest data in q for app a is v.
Carries(x, a) == x.t = "data" /\ a \in x.to
NoData(q, a) == \A i \in 1..Len(q) : ~Carries(q[i], a)
DataCurrent(q, a, v) == \A i \in 1..Len(q) :
    Carries(q[i], a) /\ (\A j \in (i + 1)..Len(q) : ~Carries(q[j], a)) => q[i].v = v

CountDue(q) == \E i \in 1..Len(q) : q[i].t = "count"

\* No task is for an app that has not been registered yet, or carries data from the future.
Addressed(q, at0, n) == \A i \in 1..Len(q) :
    /\ q[i].t \in {"z", "data"} => \A a \in q[i].to : at0[a] \notin {"new", "greet"}
    /\ q[i].t = "data" => q[i].v <= n
QueueInv ==
    /\ ready \in Seq(TaskRecords)
    /\ Addressed(ready, stage, stored)
    /\ \A c \in Conns : \/ first[c] = "MP-S"
                        \/ first[c] = "none" /\ (stage[c] = "new" \/ closed[c])
    /\ first \in [Conns -> {"none", "MP-S"}]

\* Whoever is registered has been told the status, or the queue still holds the notice
\* that will tell it: the latest one in the queue is right.
AppsTold ==
    /\ StatusCurrent(ready, Online)
    /\ \A a \in apps : ~closed[a] /\ NoStatus(ready) =>
          /\ TellingCurrent(ready, a, Online)
          /\ Untold(ready, a) => lastZ[a] = {Online}
CarTold == car # NoConn /\ ~closed[car] => lastZ[car] = {Cardinality(apps)} \/ CountDue(ready)

\* A registered app shows the newest data, has it in the queue, or has loaded it.
AppsUpToDate ==
    /\ loaded \in [Apps -> 0..MaxData] /\ shown \in [Apps -> 0..MaxData]
    /\ \A a \in Apps : shown[a] <= stored /\ loaded[a] <= stored
    /\ \A a \in apps :
          /\ DataCurrent(ready, a, stored)
          /\ stage[a] = "replay" /\ clean[a] => loaded[a] = stored
          /\ stage[a] = "serving" /\ clean[a] /\ ~closed[a] /\ NoData(ready, a) => shown[a] = stored

LEMMA ConnectionTypesInit == Init => ConnectionTypes
BY V2Assumption DEF Init, ConnectionTypes, Stages, Conns

LEMMA ConnectionTypesStep == ConnectionTypes /\ [Next]_vars => ConnectionTypes'
<1> SUFFICES ASSUME ConnectionTypes, [Next]_vars PROVE ConnectionTypes'
  OBVIOUS
<1>1. ASSUME NEW c \in Conns, Authenticate(c) PROVE ConnectionTypes'
  BY <1>1, V2Assumption DEF Authenticate, data, peers, calls, ConnectionTypes, Stages, Conns
<1>2. ASSUME NEW c \in Conns, AuthenticationFails(c) PROVE ConnectionTypes'
  BY <1>2, V2Assumption DEF AuthenticationFails, WaitsForClose, data, peers, calls, ConnectionTypes, Stages, Conns
<1>3. ASSUME NEW c \in Conns, ServerCloses(c) PROVE ConnectionTypes'
  BY <1>3, V2Assumption DEF ServerCloses, Closed, WaitsForClose, data, peers, calls, ConnectionTypes, Stages, Conns
<1>4. ASSUME NEW c \in Conns, PeerResets(c) PROVE ConnectionTypes'
  BY <1>4, V2Assumption DEF PeerResets, data, peers, calls, ConnectionTypes, Stages, Conns
<1>5. ASSUME NEW c \in Cars, RegisterCar(c) PROVE ConnectionTypes'
  BY <1>5, V2Assumption DEF RegisterCar, data, peers, calls, ConnectionTypes, Stages, Conns
<1>6. ASSUME NEW c \in Cars, RemoveCar(c) PROVE ConnectionTypes'
  BY <1>6, V2Assumption DEF RemoveCar, Leave, WaitsForClose, data, peers, calls, ConnectionTypes, Stages, Conns
<1>7. ASSUME NEW c \in Cars, CloseEnds(c) PROVE ConnectionTypes'
  BY <1>7, V2Assumption DEF CloseEnds, data, peers, calls, ConnectionTypes, Stages, Conns
<1>8. ASSUME NEW c \in Cars, CarData(c) PROVE ConnectionTypes'
  BY <1>8, V2Assumption DEF CarData, data, peers, calls, ConnectionTypes, Stages, Conns
<1>9. ASSUME NEW c \in Cars, NEW n \in Codes, CarAnswers(c, n) PROVE ConnectionTypes'
  BY <1>9, V2Assumption DEF CarAnswers, data, peers, calls, ConnectionTypes, Stages, Conns
<1>10. ASSUME NEW a \in Apps, RegisterApp(a) PROVE ConnectionTypes'
  BY <1>10, V2Assumption DEF RegisterApp, data, peers, calls, ConnectionTypes, Stages, Conns
<1>11. ASSUME NEW a \in Apps, LoadStored(a) PROVE ConnectionTypes'
  BY <1>11, V2Assumption DEF LoadStored, data, peers, calls, ConnectionTypes, Stages, Conns
<1>12. ASSUME NEW a \in Apps, SendStored(a) PROVE ConnectionTypes'
  BY <1>12, V2Assumption DEF SendStored, data, peers, calls, ConnectionTypes, Stages, Conns
<1>13. ASSUME NEW a \in Apps, RemoveApp(a) PROVE ConnectionTypes'
  BY <1>13, V2Assumption DEF RemoveApp, Leave, WaitsForClose, data, peers, calls, ConnectionTypes, Stages, Conns
<1>14. ASSUME NotifyAppsCarStatus PROVE ConnectionTypes'
  BY <1>14, V2Assumption DEF NotifyAppsCarStatus, data, peers, calls, ConnectionTypes, Stages, Conns
<1>15. ASSUME SendStatus PROVE ConnectionTypes'
  BY <1>15, V2Assumption DEF SendStatus, data, peers, calls, ConnectionTypes, Stages, Conns
<1>16. ASSUME NotifyCarAppCount PROVE ConnectionTypes'
  BY <1>16, V2Assumption DEF NotifyCarAppCount, data, peers, calls, ConnectionTypes, Stages, Conns
<1>17. ASSUME SendData PROVE ConnectionTypes'
  BY <1>17, V2Assumption DEF SendData, data, peers, calls, ConnectionTypes, Stages, Conns
<1>18. ASSUME CloseReplaced PROVE ConnectionTypes'
  BY <1>18, V2Assumption DEF CloseReplaced, Closed, WaitsForClose, data, peers, calls, ConnectionTypes, Stages, Conns
<1>19. ASSUME NEW k \in Commands, NEW n \in Codes, ForwardToCar(k, n) PROVE ConnectionTypes'
  BY <1>19, V2Assumption DEF ForwardToCar, data, peers, calls, ConnectionTypes, Stages, Conns
<1>20. ASSUME NEW k \in Commands, CommandReturns(k) PROVE ConnectionTypes'
  BY <1>20, V2Assumption DEF CommandReturns, data, peers, calls, ConnectionTypes, Stages, Conns
<1>21. ASSUME NEW k \in Commands, CommandTimesOut(k) PROVE ConnectionTypes'
  BY <1>21, V2Assumption DEF CommandTimesOut, data, peers, calls, ConnectionTypes, Stages, Conns
<1>22. ASSUME UNCHANGED vars PROVE ConnectionTypes'
  BY <1>22, V2Assumption DEF vars, data, peers, calls, ConnectionTypes, Stages, Conns
<1> QED
  BY <1>1, <1>2, <1>3, <1>4, <1>5, <1>6, <1>7, <1>8, <1>9, <1>10, <1>11, <1>12, <1>13, <1>14, <1>15, <1>16, <1>17, <1>18, <1>19, <1>20, <1>21, <1>22 DEF Next, Tasks, Handler

LEMMA RegistrationsInit == Init => Registrations
BY DEF Init, Registrations, NewestIsRegistered, RegisteredIsServed

LEMMA RegistrationsStep == ConnectionTypes /\ Registrations /\ [Next]_vars => Registrations'
<1> SUFFICES ASSUME ConnectionTypes /\ Registrations, [Next]_vars PROVE Registrations'
  OBVIOUS
<1>1. ASSUME NEW c \in Conns, Authenticate(c) PROVE Registrations'
  BY <1>1, V2Assumption DEF Authenticate, data, peers, calls, ConnectionTypes, Conns, Stages, Registrations, NewestIsRegistered, RegisteredIsServed
<1>2. ASSUME NEW c \in Conns, AuthenticationFails(c) PROVE Registrations'
  BY <1>2, V2Assumption DEF AuthenticationFails, data, peers, calls, ConnectionTypes, Conns, Stages, Registrations, NewestIsRegistered, RegisteredIsServed
<1>3. ASSUME NEW c \in Conns, ServerCloses(c) PROVE Registrations'
  BY <1>3, V2Assumption DEF ServerCloses, data, peers, calls, ConnectionTypes, Conns, Stages, Registrations, NewestIsRegistered, RegisteredIsServed
<1>4. ASSUME NEW c \in Conns, PeerResets(c) PROVE Registrations'
  BY <1>4, V2Assumption DEF PeerResets, data, peers, calls, ConnectionTypes, Conns, Stages, Registrations, NewestIsRegistered, RegisteredIsServed
<1>5. ASSUME NEW c \in Cars, RegisterCar(c) PROVE Registrations'
  BY <1>5, V2Assumption DEF RegisterCar, data, peers, calls, ConnectionTypes, Conns, Stages, Registrations, NewestIsRegistered, RegisteredIsServed
<1>6. ASSUME NEW c \in Cars, RemoveCar(c) PROVE Registrations'
  BY <1>6, V2Assumption DEF RemoveCar, Leave, data, peers, calls, ConnectionTypes, Conns, Stages, Registrations, NewestIsRegistered, RegisteredIsServed
<1>7. ASSUME NEW c \in Cars, CloseEnds(c) PROVE Registrations'
  BY <1>7, V2Assumption DEF CloseEnds, data, peers, calls, ConnectionTypes, Conns, Stages, Registrations, NewestIsRegistered, RegisteredIsServed
<1>8. ASSUME NEW c \in Cars, CarData(c) PROVE Registrations'
  BY <1>8, V2Assumption DEF CarData, data, peers, calls, ConnectionTypes, Conns, Stages, Registrations, NewestIsRegistered, RegisteredIsServed
<1>9. ASSUME NEW c \in Cars, NEW n \in Codes, CarAnswers(c, n) PROVE Registrations'
  BY <1>9, V2Assumption DEF CarAnswers, data, peers, calls, ConnectionTypes, Conns, Stages, Registrations, NewestIsRegistered, RegisteredIsServed
<1>10. ASSUME NEW a \in Apps, RegisterApp(a) PROVE Registrations'
  BY <1>10, V2Assumption DEF RegisterApp, data, peers, calls, ConnectionTypes, Conns, Stages, Registrations, NewestIsRegistered, RegisteredIsServed
<1>11. ASSUME NEW a \in Apps, LoadStored(a) PROVE Registrations'
  BY <1>11, V2Assumption DEF LoadStored, data, peers, calls, ConnectionTypes, Conns, Stages, Registrations, NewestIsRegistered, RegisteredIsServed
<1>12. ASSUME NEW a \in Apps, SendStored(a) PROVE Registrations'
  BY <1>12, V2Assumption DEF SendStored, data, peers, calls, ConnectionTypes, Conns, Stages, Registrations, NewestIsRegistered, RegisteredIsServed
<1>13. ASSUME NEW a \in Apps, RemoveApp(a) PROVE Registrations'
  BY <1>13, V2Assumption DEF RemoveApp, Leave, data, peers, calls, ConnectionTypes, Conns, Stages, Registrations, NewestIsRegistered, RegisteredIsServed
<1>14. ASSUME NotifyAppsCarStatus PROVE Registrations'
  BY <1>14, V2Assumption DEF NotifyAppsCarStatus, data, peers, calls, ConnectionTypes, Conns, Stages, Registrations, NewestIsRegistered, RegisteredIsServed
<1>15. ASSUME SendStatus PROVE Registrations'
  BY <1>15, V2Assumption DEF SendStatus, data, peers, calls, ConnectionTypes, Conns, Stages, Registrations, NewestIsRegistered, RegisteredIsServed
<1>16. ASSUME NotifyCarAppCount PROVE Registrations'
  BY <1>16, V2Assumption DEF NotifyCarAppCount, data, peers, calls, ConnectionTypes, Conns, Stages, Registrations, NewestIsRegistered, RegisteredIsServed
<1>17. ASSUME SendData PROVE Registrations'
  BY <1>17, V2Assumption DEF SendData, data, peers, calls, ConnectionTypes, Conns, Stages, Registrations, NewestIsRegistered, RegisteredIsServed
<1>18. ASSUME CloseReplaced PROVE Registrations'
  BY <1>18, V2Assumption DEF CloseReplaced, data, peers, calls, ConnectionTypes, Conns, Stages, Registrations, NewestIsRegistered, RegisteredIsServed
<1>19. ASSUME NEW k \in Commands, NEW n \in Codes, ForwardToCar(k, n) PROVE Registrations'
  BY <1>19, V2Assumption DEF ForwardToCar, data, peers, calls, ConnectionTypes, Conns, Stages, Registrations, NewestIsRegistered, RegisteredIsServed
<1>20. ASSUME NEW k \in Commands, CommandReturns(k) PROVE Registrations'
  BY <1>20, V2Assumption DEF CommandReturns, data, peers, calls, ConnectionTypes, Conns, Stages, Registrations, NewestIsRegistered, RegisteredIsServed
<1>21. ASSUME NEW k \in Commands, CommandTimesOut(k) PROVE Registrations'
  BY <1>21, V2Assumption DEF CommandTimesOut, data, peers, calls, ConnectionTypes, Conns, Stages, Registrations, NewestIsRegistered, RegisteredIsServed
<1>22. ASSUME UNCHANGED vars PROVE Registrations'
  BY <1>22, V2Assumption DEF vars, data, peers, calls, ConnectionTypes, Conns, Stages, Registrations, NewestIsRegistered, RegisteredIsServed
<1> QED
  BY <1>1, <1>2, <1>3, <1>4, <1>5, <1>6, <1>7, <1>8, <1>9, <1>10, <1>11, <1>12, <1>13, <1>14, <1>15, <1>16, <1>17, <1>18, <1>19, <1>20, <1>21, <1>22 DEF Next, Tasks, Handler

\* A field of one call changes.
LEMMA CallUpdated ==
    ASSUME CallTypes, NEW k \in Commands, NEW call \in Calls
    PROVE  [cmd EXCEPT ![k] = call] \in [Commands -> Calls]
BY DEF CallTypes

LEMMA CallsInit == Init => CallsInv
<1> SUFFICES ASSUME Init PROVE CallsInv
  OBVIOUS
<1>1. NoCall \in Calls
  BY DEF NoCall, Calls
<1>2. CallTypes
  BY <1>1 DEF Init, CallTypes
<1>3. PendingIsWaiting
  BY V2Assumption DEF Init, PendingIsWaiting, NoCall
<1> QED  BY <1>2, <1>3 DEF CallsInv

\* close() cancels exactly the calls it takes out of command_futures.
LEMMA CancelledKeeps ==
    ASSUME CallsInv, NEW c, Cancelled(c)
    PROVE  CallsInv'
<1>1. \A k \in Commands : [cmd[k] EXCEPT !.fut = "cancelled"] \in Calls
  BY DEF CallsInv, CallTypes, Calls
<1>2. cmd' \in [Commands -> Calls]
  BY <1>1 DEF Cancelled, CallsInv, CallTypes
<1>3. futures' \in [Cars -> [Codes -> Commands \cup {NoCmd}]]
  BY DEF Cancelled, CallsInv, CallTypes
<1>4. ASSUME NEW d \in Cars, NEW n \in Codes, NEW k \in Commands
      PROVE  futures'[d][n] = k <=>
                cmd'[k].st = "waiting" /\ cmd'[k].on = d /\ cmd'[k].code = n
                /\ cmd'[k].fut = "pending"
  <2>1. futures[d][n] = k <=>
            cmd[k].st = "waiting" /\ cmd[k].on = d /\ cmd[k].code = n /\ cmd[k].fut = "pending"
    BY DEF CallsInv, PendingIsWaiting
  <2>2. CASE d = c
    <3>1. futures'[d][n] # k
      BY <2>2, V2Assumption DEF Cancelled
    <3>2. CASE futures[d][n] = k
      BY <3>1, <3>2, <2>2, <2>1 DEF Cancelled, CallsInv, CallTypes, Calls
    <3>3. CASE futures[d][n] # k
      BY <3>1, <3>3, <2>1 DEF Cancelled, CallsInv, CallTypes, Calls
    <3> QED  BY <3>2, <3>3
  <2>3. CASE d # c
    <3>1. futures'[d][n] = futures[d][n]
      BY <2>3 DEF Cancelled
    <3>2. CASE futures[d][n] = k
      <4>1. \A m \in Codes : c \in Cars => futures[c][m] # k
        BY <2>1, <2>3, <3>2 DEF CallsInv, PendingIsWaiting
      <4> QED  BY <4>1, <3>1, <2>1 DEF Cancelled
    <3>3. CASE futures[d][n] # k
      BY <3>1, <3>3, <2>1 DEF Cancelled, CallsInv, CallTypes, Calls
    <3> QED  BY <3>2, <3>3
  <2> QED  BY <2>2, <2>3
<1> QED  BY <1>2, <1>3, <1>4 DEF CallsInv, CallTypes, PendingIsWaiting

LEMMA CallsUnchanged == CallsInv /\ UNCHANGED calls => CallsInv'
BY DEF calls, CallsInv, CallTypes, PendingIsWaiting

LEMMA ClosedKeeps ==
    ASSUME CallsInv, NEW c, Closed(c)
    PROVE  CallsInv'
<1>1. CASE closed[c]  BY <1>1, CancelledKeeps DEF Closed
<1>2. CASE ~closed[c]  BY <1>2, CallsUnchanged DEF Closed
<1> QED  BY <1>1, <1>2

\* The car's answer resolves the call whose future it takes out.
LEMMA AnswerKeeps ==
    ASSUME CallsInv, NEW c \in Cars, NEW n \in Codes, CarAnswers(c, n)
    PROVE  CallsInv'
<1> DEFINE k == futures[c][n]
<1>0. /\ CallTypes
      /\ \A d \in Cars, m \in Codes, j \in Commands : futures[d][m] = j <=>
            cmd[j].st = "waiting" /\ cmd[j].on = d /\ cmd[j].code = m /\ cmd[j].fut = "pending"
  BY DEF CallsInv, PendingIsWaiting
<1>b. cmd \in [Commands -> Calls] /\ futures \in [Cars -> [Codes -> Commands \cup {NoCmd}]]
  BY <1>0 DEF CallTypes
<1>1. k \in Commands
  BY <1>b DEF CarAnswers
<1>2. cmd[k].on = c /\ cmd[k].code = n /\ cmd[k].fut = "pending"
  BY <1>0, <1>1
<1> DEFINE call == [cmd[k] EXCEPT !.fut = "answered"]
<1>4. cmd' = [cmd EXCEPT ![k] = call]
  BY <1>1, <1>2 DEF CarAnswers
<1>5. futures' = [futures EXCEPT ![c][n] = NoCmd] /\ futures[c][n] = k
  BY DEF CarAnswers
<1> HIDE DEF k
<1>3. call \in Calls /\ call.fut = "answered"
  BY <1>b, <1>1 DEF Calls
<1> HIDE DEF call
<1>6. CallTypes'
  BY <1>b, <1>1, <1>3, <1>4, <1>5 DEF CallTypes
<1>7. cmd'[k].fut = "answered" /\ \A j \in Commands \ {k} : cmd'[j] = cmd[j]
  BY <1>b, <1>1, <1>3, <1>4
<1>8. /\ futures'[c][n] = NoCmd
      /\ \A d \in Cars, m \in Codes : d # c \/ m # n => futures'[d][m] = futures[d][m]
  BY <1>b, <1>5
<1>9. ASSUME NEW d \in Cars, NEW m \in Codes, NEW j \in Commands
      PROVE  futures'[d][m] = j <=>
          cmd'[j].st = "waiting" /\ cmd'[j].on = d /\ cmd'[j].code = m /\ cmd'[j].fut = "pending"
  <2>1. CASE d = c /\ m = n
    <3>1. futures'[d][m] # j
      BY <2>1, <1>8, V2Assumption
    <3>2. CASE j = k  BY <3>1, <3>2, <1>7
    <3>3. CASE j # k  BY <3>1, <3>3, <2>1, <1>7, <1>0, <1>5
    <3> QED  BY <3>2, <3>3
  <2>2. CASE d # c \/ m # n
    <3>1. futures'[d][m] = futures[d][m]
      BY <2>2, <1>8
    <3>2. CASE j = k  BY <3>1, <3>2, <2>2, <1>7, <1>0, <1>1, <1>2
    <3>3. CASE j # k  BY <3>1, <3>3, <1>7, <1>0
    <3> QED  BY <3>2, <3>3
  <2> QED  BY <2>1, <2>2
<1> QED  BY <1>6, <1>9 DEF CallsInv, PendingIsWaiting

\* A call that returns leaves nothing of its own behind in command_futures.
LEMMA ForgottenKeeps ==
    ASSUME CallsInv, NEW k \in Commands, Forgotten(k), NEW call \in Calls, call.st # "waiting",
           cmd' = [cmd EXCEPT ![k] = call]
    PROVE  CallsInv'
<1>0. /\ CallTypes
      /\ \A d \in Cars, m \in Codes, j \in Commands : futures[d][m] = j <=>
            cmd[j].st = "waiting" /\ cmd[j].on = d /\ cmd[j].code = m /\ cmd[j].fut = "pending"
  BY DEF CallsInv, PendingIsWaiting
<1>1. CallTypes'
  BY <1>0, CallUpdated DEF CallTypes, Forgotten
<1>2. cmd'[k].st # "waiting" /\ \A j \in Commands \ {k} : cmd'[j] = cmd[j]
  BY <1>0 DEF CallTypes
<1>3. \A d \in Cars, m \in Codes :
        futures'[d][m] = IF futures[d][m] = k THEN NoCmd ELSE futures[d][m]
  BY DEF Forgotten
<1>4. PendingIsWaiting'
  BY <1>0, <1>2, <1>3, V2Assumption DEF PendingIsWaiting
<1> QED  BY <1>1, <1>4 DEF CallsInv

\* forward_to_car() takes a number only if it is free, and for a call that has none.
LEMMA ForwardKeeps ==
    ASSUME CallsInv, car \in Cars \cup {NoConn}, NEW k \in Commands, NEW n \in Codes, ForwardToCar(k, n)
    PROVE  CallsInv'
<1>0. /\ CallTypes
      /\ \A c \in Cars, m \in Codes, j \in Commands : futures[c][m] = j <=>
            cmd[j].st = "waiting" /\ cmd[j].on = c /\ cmd[j].code = m /\ cmd[j].fut = "pending"
  BY DEF CallsInv, PendingIsWaiting
<1>a. cmd[k].st = "idle"
  BY DEF ForwardToCar
<1>b. cmd \in [Commands -> Calls] /\ futures \in [Cars -> [Codes -> Commands \cup {NoCmd}]]
  BY <1>0 DEF CallTypes
<1>1. \A c \in Cars, m \in Codes : futures[c][m] # k
  BY <1>0, <1>a
<1>2. ASSUME NEW s \in {"no car", "BUSY"}, cmd' = [cmd EXCEPT ![k].st = s], futures' = futures
      PROVE  CallsInv'
  <2> DEFINE call == [cmd[k] EXCEPT !.st = s]
  <2>1. call \in Calls /\ call.st = s
    BY <1>b DEF Calls
  <2>2. cmd' = [cmd EXCEPT ![k] = call]
    BY <1>2
  <2>3. Forgotten(k)
    BY <1>1, <1>b, <1>2 DEF Forgotten
  <2>4. call.st # "waiting"
    BY <2>1
  <2> QED  BY <2>1, <2>2, <2>3, <2>4, ForgottenKeeps
<1>3. ASSUME car # NoConn, futures[car][n] = NoCmd, futures' = [futures EXCEPT ![car][n] = k],
             cmd' = [cmd EXCEPT ![k] = [st |-> "waiting", on |-> car, code |-> n, fut |-> "pending"]]
      PROVE  CallsInv'
  <2>1. car \in Cars
    BY <1>3
  <2>2. [st |-> "waiting", on |-> car, code |-> n, fut |-> "pending"] \in Calls
    BY <2>1 DEF Calls
  <2>3. CallTypes'
    BY <1>0, <1>3, <2>1, <2>2, CallUpdated DEF CallTypes
  <2>4. /\ cmd'[k].st = "waiting" /\ cmd'[k].on = car /\ cmd'[k].code = n /\ cmd'[k].fut = "pending"
        /\ \A j \in Commands \ {k} : cmd'[j] = cmd[j]
    BY <1>0, <1>3 DEF CallTypes
  <2>5. /\ futures'[car][n] = k
        /\ \A c \in Cars, m \in Codes : c # car \/ m # n => futures'[c][m] = futures[c][m]
    BY <1>0, <1>3, <2>1 DEF CallTypes
  <2>6. PendingIsWaiting'
    BY <1>0, <1>1, <1>3, <2>1, <2>4, <2>5, V2Assumption DEF PendingIsWaiting
  <2> QED  BY <2>3, <2>6 DEF CallsInv
<1> QED  BY <1>2, <1>3 DEF ForwardToCar

LEMMA ReturnKeeps ==
    ASSUME CallsInv, NEW k \in Commands, CommandReturns(k) \/ CommandTimesOut(k)
    PROVE  CallsInv'
<1>1. cmd \in [Commands -> Calls]
  BY DEF CallsInv, CallTypes
<1>2. CASE CommandReturns(k)
  <2> DEFINE call == [cmd[k] EXCEPT !.st = IF cmd[k].fut = "answered" THEN "answered" ELSE "CANCELLED"]
  <2>1. call \in Calls /\ call.st # "waiting"
    BY <1>1 DEF Calls
  <2>2. cmd' = [cmd EXCEPT ![k] = call] /\ Forgotten(k)
    BY <1>2 DEF CommandReturns
  <2> QED  BY <2>1, <2>2, ForgottenKeeps
<1>3. CASE CommandTimesOut(k)
  <2> DEFINE call == [cmd[k] EXCEPT !.st = "TIMEOUT",
                                    !.fut = IF @ = "pending" THEN "cancelled" ELSE @]
  <2>1. call \in Calls /\ call.st # "waiting"
    BY <1>1 DEF Calls
  <2>2. cmd' = [cmd EXCEPT ![k] = call] /\ Forgotten(k)
    BY <1>1, <1>3 DEF CommandTimesOut
  <2> QED  BY <2>1, <2>2, ForgottenKeeps
<1> QED  BY <1>2, <1>3

LEMMA CallsStep == ConnectionTypes /\ CallsInv /\ [Next]_vars => CallsInv'
<1> SUFFICES ASSUME ConnectionTypes, CallsInv, [Next]_vars PROVE CallsInv'
  OBVIOUS
<1>1. ASSUME NEW c \in Conns, Handler(c) \/ PeerResets(c) PROVE CallsInv'
  BY <1>1, CallsUnchanged DEF Handler, PeerResets, Authenticate, AuthenticationFails, RegisterCar,
     RemoveCar, RegisterApp, LoadStored, SendStored, RemoveApp
<1>2. ASSUME NEW c \in Conns, ServerCloses(c) PROVE CallsInv'
  BY <1>2, ClosedKeeps DEF ServerCloses
<1>3. ASSUME NEW c \in Cars, CarData(c) PROVE CallsInv'
  BY <1>3, CallsUnchanged DEF CarData
<1>4. ASSUME NEW c \in Cars, CloseEnds(c) PROVE CallsInv'
  BY <1>4, CancelledKeeps DEF CloseEnds
<1>5. ASSUME Tasks PROVE CallsInv'
  <2>1. CASE CloseReplaced  BY <2>1, ClosedKeeps DEF CloseReplaced
  <2> QED
    BY <1>5, <2>1, CallsUnchanged DEF Tasks, NotifyAppsCarStatus, SendStatus, NotifyCarAppCount, SendData
<1>6. CASE UNCHANGED vars  BY <1>6, CallsUnchanged DEF vars
<1>7. car \in Cars \cup {NoConn}  BY DEF ConnectionTypes
<1> QED
  BY <1>1, <1>2, <1>3, <1>4, <1>5, <1>6, <1>7, ForwardKeeps, AnswerKeeps, ReturnKeeps DEF Next

-----------------------------------------------------------------------------
(***************************************************************************)
(* The queue of the event loop                                             *)
(***************************************************************************)

\* What a task appended to the queue changes of it.
LEMMA Appended ==
    ASSUME NEW q \in Seq(TaskRecords), NEW x \in TaskRecords
    PROVE  /\ Append(q, x) \in Seq(TaskRecords) /\ Len(Append(q, x)) = Len(q) + 1 /\ Len(q) \in Nat
           /\ Append(q, x)[Len(q) + 1] = x
           /\ \A i \in 1..Len(q) : Append(q, x)[i] = q[i]
OBVIOUS

LEMMA Started ==
    ASSUME NEW q \in Seq(TaskRecords), q # <<>>
    PROVE  /\ Tail(q) \in Seq(TaskRecords) /\ Len(Tail(q)) = Len(q) - 1 /\ Len(q) \in Nat \ {0}
           /\ Head(q) = q[1] /\ Head(q) \in TaskRecords
           /\ \A i \in 1..(Len(q) - 1) : Tail(q)[i] = q[i + 1]
OBVIOUS

LEMMA AppendStatus ==
    ASSUME NEW q \in Seq(TaskRecords), NEW x \in TaskRecords, NEW on
    PROVE  /\ x.t # "status" /\ StatusCurrent(q, on) => StatusCurrent(Append(q, x), on)
           /\ x.t = "status" /\ x.on = on => StatusCurrent(Append(q, x), on)
           /\ NoStatus(Append(q, x)) => NoStatus(q) /\ x.t # "status"
<1> DEFINE r == Append(q, x)
<1>1. Len(r) = Len(q) + 1 /\ Len(q) \in Nat /\ r[Len(q) + 1] = x /\ \A i \in 1..Len(q) : r[i] = q[i]
  BY Appended
<1> HIDE DEF r
<1>2. NoStatus(r) => NoStatus(q) /\ x.t # "status"
  BY <1>1 DEF NoStatus
<1>3. ASSUME x.t # "status", StatusCurrent(q, on) PROVE StatusCurrent(r, on)
  <2> SUFFICES ASSUME NEW i \in 1..Len(r), r[i].t = "status",
                      \A j \in (i + 1)..Len(r) : r[j].t # "status"
               PROVE  r[i].on = on
    BY DEF StatusCurrent
  <2>1. i \in 1..Len(q)
    BY <1>1, <1>3
  <2>2. \A j \in (i + 1)..Len(q) : q[j].t # "status"
    BY <1>1, <2>1
  <2>q. QED  BY <1>1, <1>3, <2>1, <2>2 DEF StatusCurrent
<1>4. ASSUME x.t = "status", x.on = on PROVE StatusCurrent(r, on)
  BY <1>1, <1>4 DEF StatusCurrent
<1>q. QED  BY <1>2, <1>3, <1>4 DEF r

LEMMA StartStatus ==
    ASSUME NEW q \in Seq(TaskRecords), q # <<>>, NEW on, StatusCurrent(q, on)
    PROVE  /\ StatusCurrent(Tail(q), on)
           /\ Head(q).t # "status" /\ NoStatus(Tail(q)) => NoStatus(q)
           /\ Head(q).t = "status" /\ NoStatus(Tail(q)) => Head(q).on = on
<1> DEFINE r == Tail(q)
<1>1. /\ Len(r) = Len(q) - 1 /\ Len(q) \in Nat \ {0} /\ Head(q) = q[1]
      /\ \A i \in 1..(Len(q) - 1) : r[i] = q[i + 1]
  BY Started
<1> HIDE DEF r
<1>2. \A j \in 2..Len(q) : j - 1 \in 1..Len(r) /\ q[j] = r[j - 1]
  BY <1>1
<1>3. StatusCurrent(r, on)
  <2> SUFFICES ASSUME NEW i \in 1..Len(r), r[i].t = "status",
                      \A j \in (i + 1)..Len(r) : r[j].t # "status"
               PROVE  r[i].on = on
    BY DEF StatusCurrent
  <2>1. i + 1 \in 1..Len(q) /\ r[i] = q[i + 1]
    BY <1>1
  <2>2. \A j \in (i + 2)..Len(q) : q[j].t # "status"
    BY <1>1, <1>2
  <2>q. QED  BY <2>1, <2>2, <1>1 DEF StatusCurrent
<1>4. Head(q).t # "status" /\ NoStatus(r) => NoStatus(q)
  BY <1>1, <1>2 DEF NoStatus
<1>5. Head(q).t = "status" /\ NoStatus(r) => Head(q).on = on
  BY <1>1, <1>2 DEF NoStatus, StatusCurrent
<1>q. QED  BY <1>3, <1>4, <1>5 DEF r

\* The same for the latest Z for an app.
LEMMA AppendTelling ==
    ASSUME NEW q \in Seq(TaskRecords), NEW x \in TaskRecords, NEW a, NEW v
    PROVE  /\ ~Tells(x, a) /\ TellingCurrent(q, a, v) => TellingCurrent(Append(q, x), a, v)
           /\ Tells(x, a) /\ x.z = v => TellingCurrent(Append(q, x), a, v)
           /\ Untold(Append(q, x), a) => Untold(q, a) /\ ~Tells(x, a)
<1> DEFINE r == Append(q, x)
<1>1. Len(r) = Len(q) + 1 /\ Len(q) \in Nat /\ r[Len(q) + 1] = x /\ \A i \in 1..Len(q) : r[i] = q[i]
  BY Appended
<1> HIDE DEF r
<1>2. Untold(r, a) => Untold(q, a) /\ ~Tells(x, a)
  BY <1>1 DEF Untold
<1>3. ASSUME ~Tells(x, a), TellingCurrent(q, a, v) PROVE TellingCurrent(r, a, v)
  <2> SUFFICES ASSUME NEW i \in 1..Len(r), Tells(r[i], a),
                      \A j \in (i + 1)..Len(r) : ~Tells(r[j], a)
               PROVE  r[i].z = v
    BY DEF TellingCurrent
  <2>1. i \in 1..Len(q)
    BY <1>1, <1>3
  <2>2. \A j \in (i + 1)..Len(q) : ~Tells(q[j], a)
    BY <1>1, <2>1
  <2>q. QED  BY <1>1, <1>3, <2>1, <2>2 DEF TellingCurrent
<1>4. ASSUME Tells(x, a), x.z = v PROVE TellingCurrent(r, a, v)
  BY <1>1, <1>4 DEF TellingCurrent
<1>q. QED  BY <1>2, <1>3, <1>4 DEF r

LEMMA StartTelling ==
    ASSUME NEW q \in Seq(TaskRecords), q # <<>>, NEW a, NEW v, TellingCurrent(q, a, v)
    PROVE  /\ TellingCurrent(Tail(q), a, v)
           /\ ~Tells(Head(q), a) /\ Untold(Tail(q), a) => Untold(q, a)
           /\ Tells(Head(q), a) /\ Untold(Tail(q), a) => Head(q).z = v
<1> DEFINE r == Tail(q)
<1>1. /\ Len(r) = Len(q) - 1 /\ Len(q) \in Nat \ {0} /\ Head(q) = q[1]
      /\ \A i \in 1..(Len(q) - 1) : r[i] = q[i + 1]
  BY Started
<1> HIDE DEF r
<1>2. \A j \in 2..Len(q) : j - 1 \in 1..Len(r) /\ q[j] = r[j - 1]
  BY <1>1
<1>3. TellingCurrent(r, a, v)
  <2> SUFFICES ASSUME NEW i \in 1..Len(r), Tells(r[i], a),
                      \A j \in (i + 1)..Len(r) : ~Tells(r[j], a)
               PROVE  r[i].z = v
    BY DEF TellingCurrent
  <2>1. i + 1 \in 1..Len(q) /\ r[i] = q[i + 1]
    BY <1>1
  <2>2. \A j \in (i + 2)..Len(q) : ~Tells(q[j], a)
    BY <1>1, <1>2
  <2>q. QED  BY <2>1, <2>2, <1>1 DEF TellingCurrent
<1>4. ~Tells(Head(q), a) /\ Untold(r, a) => Untold(q, a)
  BY <1>1, <1>2 DEF Untold
<1>5. Tells(Head(q), a) /\ Untold(r, a) => Head(q).z = v
  BY <1>1, <1>2 DEF Untold, TellingCurrent
<1>q. QED  BY <1>3, <1>4, <1>5 DEF r

\* The same for the latest data for an app.
LEMMA AppendData ==
    ASSUME NEW q \in Seq(TaskRecords), NEW x \in TaskRecords, NEW a, NEW v
    PROVE  /\ ~Carries(x, a) /\ DataCurrent(q, a, v) => DataCurrent(Append(q, x), a, v)
           /\ Carries(x, a) /\ x.v = v => DataCurrent(Append(q, x), a, v)
           /\ NoData(Append(q, x), a) => NoData(q, a) /\ ~Carries(x, a)
<1> DEFINE r == Append(q, x)
<1>1. Len(r) = Len(q) + 1 /\ Len(q) \in Nat /\ r[Len(q) + 1] = x /\ \A i \in 1..Len(q) : r[i] = q[i]
  BY Appended
<1> HIDE DEF r
<1>2. NoData(r, a) => NoData(q, a) /\ ~Carries(x, a)
  BY <1>1 DEF NoData
<1>3. ASSUME ~Carries(x, a), DataCurrent(q, a, v) PROVE DataCurrent(r, a, v)
  <2> SUFFICES ASSUME NEW i \in 1..Len(r), Carries(r[i], a),
                      \A j \in (i + 1)..Len(r) : ~Carries(r[j], a)
               PROVE  r[i].v = v
    BY DEF DataCurrent
  <2>1. i \in 1..Len(q)
    BY <1>1, <1>3
  <2>2. \A j \in (i + 1)..Len(q) : ~Carries(q[j], a)
    BY <1>1, <2>1
  <2>q. QED  BY <1>1, <1>3, <2>1, <2>2 DEF DataCurrent
<1>4. ASSUME Carries(x, a), x.v = v PROVE DataCurrent(r, a, v)
  BY <1>1, <1>4 DEF DataCurrent
<1>q. QED  BY <1>2, <1>3, <1>4 DEF r

LEMMA StartData ==
    ASSUME NEW q \in Seq(TaskRecords), q # <<>>, NEW a, NEW v, DataCurrent(q, a, v)
    PROVE  /\ DataCurrent(Tail(q), a, v)
           /\ ~Carries(Head(q), a) /\ NoData(Tail(q), a) => NoData(q, a)
           /\ Carries(Head(q), a) /\ NoData(Tail(q), a) => Head(q).v = v
<1> DEFINE r == Tail(q)
<1>1. /\ Len(r) = Len(q) - 1 /\ Len(q) \in Nat \ {0} /\ Head(q) = q[1]
      /\ \A i \in 1..(Len(q) - 1) : r[i] = q[i + 1]
  BY Started
<1> HIDE DEF r
<1>2. \A j \in 2..Len(q) : j - 1 \in 1..Len(r) /\ q[j] = r[j - 1]
  BY <1>1
<1>3. DataCurrent(r, a, v)
  <2> SUFFICES ASSUME NEW i \in 1..Len(r), Carries(r[i], a),
                      \A j \in (i + 1)..Len(r) : ~Carries(r[j], a)
               PROVE  r[i].v = v
    BY DEF DataCurrent
  <2>1. i + 1 \in 1..Len(q) /\ r[i] = q[i + 1]
    BY <1>1
  <2>2. \A j \in (i + 2)..Len(q) : ~Carries(q[j], a)
    BY <1>1, <1>2
  <2>q. QED  BY <2>1, <2>2, <1>1 DEF DataCurrent
<1>4. ~Carries(Head(q), a) /\ NoData(r, a) => NoData(q, a)
  BY <1>1, <1>2 DEF NoData
<1>5. Carries(Head(q), a) /\ NoData(r, a) => Head(q).v = v
  BY <1>1, <1>2 DEF NoData, DataCurrent
<1>q. QED  BY <1>3, <1>4, <1>5 DEF r

LEMMA CountStays ==
    ASSUME NEW q \in Seq(TaskRecords)
    PROVE  /\ \A x \in TaskRecords : CountDue(q) \/ x.t = "count" => CountDue(Append(q, x))
           /\ q # <<>> /\ CountDue(q) /\ Head(q).t # "count" => CountDue(Tail(q))
<1>1. ASSUME NEW x \in TaskRecords, CountDue(q) \/ x.t = "count" PROVE CountDue(Append(q, x))
  <2> DEFINE r == Append(q, x)
  <2>1. Len(r) = Len(q) + 1 /\ Len(q) \in Nat /\ r[Len(q) + 1] = x /\ \A i \in 1..Len(q) : r[i] = q[i]
    BY Appended
  <2> HIDE DEF r
  <2>2. CountDue(r)
    BY <1>1, <2>1 DEF CountDue
  <2>q. QED  BY <2>2 DEF r
<1>2. ASSUME q # <<>>, CountDue(q), Head(q).t # "count" PROVE CountDue(Tail(q))
  <2> DEFINE r == Tail(q)
  <2>1. /\ Len(r) = Len(q) - 1 /\ Len(q) \in Nat \ {0} /\ Head(q) = q[1]
        /\ \A i \in 1..(Len(q) - 1) : r[i] = q[i + 1]
    BY <1>2, Started
  <2> HIDE DEF r
  <2>2. PICK i \in 1..Len(q) : q[i].t = "count"
    BY <1>2 DEF CountDue
  <2>3. i # 1
    BY <1>2, <2>1, <2>2
  <2>4. i - 1 \in 1..Len(r) /\ r[i - 1] = q[i]
    BY <2>1, <2>3
  <2>5. CountDue(r)
    BY <2>2, <2>4 DEF CountDue
  <2>q. QED  BY <2>5 DEF r
<1>q. QED  BY <1>1, <1>2

LEMMA AddressedStays ==
    ASSUME NEW q \in Seq(TaskRecords), NEW at0, NEW n \in Nat, Addressed(q, at0, n)
    PROVE  /\ \A x \in TaskRecords :
                 ((x.t \in {"z", "data"} => \A a \in x.to : at0[a] \notin {"new", "greet"})
                     /\ (x.t = "data" => x.v <= n))
                    => Addressed(Append(q, x), at0, n)
           /\ q # <<>> => Addressed(Tail(q), at0, n)
           /\ \A a : at0[a] \in {"new", "greet"} => Untold(q, a) /\ NoData(q, a)
<1>1. ASSUME NEW x \in TaskRecords,
             x.t \in {"z", "data"} => \A a \in x.to : at0[a] \notin {"new", "greet"},
             x.t = "data" => x.v <= n
      PROVE  Addressed(Append(q, x), at0, n)
  <2> DEFINE r == Append(q, x)
  <2>1. Len(r) = Len(q) + 1 /\ Len(q) \in Nat /\ r[Len(q) + 1] = x /\ \A i \in 1..Len(q) : r[i] = q[i]
    BY Appended
  <2> HIDE DEF r
  <2>2. Addressed(r, at0, n)
    BY <1>1, <2>1 DEF Addressed
  <2>q. QED  BY <2>2 DEF r
<1>2. ASSUME q # <<>> PROVE Addressed(Tail(q), at0, n)
  <2> DEFINE r == Tail(q)
  <2>1. /\ Len(r) = Len(q) - 1 /\ Len(q) \in Nat \ {0} /\ Head(q) = q[1]
        /\ \A i \in 1..(Len(q) - 1) : r[i] = q[i + 1]
    BY <1>2, Started
  <2> HIDE DEF r
  <2>2. Addressed(r, at0, n)
    BY <2>1 DEF Addressed
  <2>q. QED  BY <2>2 DEF r
<1>3. ASSUME NEW a, at0[a] \in {"new", "greet"} PROVE Untold(q, a) /\ NoData(q, a)
  BY <1>3 DEF Addressed, Untold, NoData, Tells, Carries
<1>q. QED  BY <1>1, <1>2, <1>3

LEMMA AddressedLater ==
    ASSUME NEW q \in Seq(TaskRecords), NEW at0, NEW n \in Nat, Addressed(q, at0, n),
           NEW at1, NEW m \in Nat, n <= m,
           \A a \in Apps : at0[a] \notin {"new", "greet"} => at1[a] \notin {"new", "greet"}
    PROVE  Addressed(q, at1, m)
<1>1. ASSUME NEW i \in 1..Len(q)
      PROVE  /\ q[i].t \in {"z", "data"} => q[i].to \subseteq Apps
             /\ q[i].t = "data" => q[i].v \in Nat
  BY V2Assumption DEF TaskRecords
<1>2. ASSUME NEW i \in 1..Len(q), q[i].t \in {"z", "data"}, NEW a \in q[i].to
      PROVE  at1[a] \notin {"new", "greet"}
  BY <1>1, <1>2 DEF Addressed
<1>3. ASSUME NEW i \in 1..Len(q), q[i].t = "data"
      PROVE  q[i].v <= m
  BY <1>1, <1>3 DEF Addressed
<1>q. QED  BY <1>2, <1>3 DEF Addressed

\* A queue without anything for an app.
LEMMA NothingStale ==
    ASSUME NEW q, NEW a, NEW v
    PROVE  (Untold(q, a) => TellingCurrent(q, a, v)) /\ (NoData(q, a) => DataCurrent(q, a, v))
BY DEF Untold, TellingCurrent, NoData, DataCurrent

\* No stage comes back, no writer opens again, and data is only added.
Advances(c) == /\ stage[c] # "new" => stage'[c] # "new"
               /\ stage[c] \notin {"new", "greet"} => stage'[c] \notin {"new", "greet"}
               /\ closed[c] => closed'[c]

LEMMA Onward ==
    ASSUME ConnectionTypes, [Next]_vars
    PROVE  (\A c \in Conns : Advances(c)) /\ stored \in Nat /\ stored' \in Nat /\ stored <= stored'
<1> DEFINE Goal == (\A c \in Conns : Advances(c)) /\ stored \in Nat /\ stored' \in Nat /\ stored <= stored'
<1> USE DEF Advances
<1>0. stage \in [Conns -> Stages] /\ closed \in [Conns -> BOOLEAN] /\ stored \in Nat
  BY V2Assumption DEF ConnectionTypes
<1>1. ASSUME NEW c \in Conns, Handler(c) \/ ServerCloses(c) \/ PeerResets(c) PROVE Goal
  BY <1>0, <1>1 DEF Handler, ServerCloses, Closed, PeerResets, Authenticate, AuthenticationFails,
     RegisterCar, RemoveCar, RegisterApp, LoadStored, SendStored, RemoveApp, Leave, data
<1>2. ASSUME Tasks PROVE Goal
  BY <1>0, <1>2 DEF Tasks, NotifyAppsCarStatus, SendStatus, NotifyCarAppCount, SendData,
     CloseReplaced, Closed, data
<1>3. ASSUME NEW c \in Cars, CloseEnds(c) \/ CarData(c) \/ \E n \in Codes : CarAnswers(c, n) PROVE Goal
  <2>1. CASE CloseEnds(c)  BY <1>0, <2>1 DEF CloseEnds, data
  <2>2. CASE CarData(c)  BY <1>0, <2>2 DEF CarData
  <2>3. ASSUME NEW n \in Codes, CarAnswers(c, n) PROVE UNCHANGED <<stage, closed, stored>>
    BY <2>3 DEF CarAnswers, data
  <2>q. QED  BY <1>0, <1>3, <2>1, <2>2, <2>3
<1>4. ASSUME NEW k \in Commands,
             (\E n \in Codes : ForwardToCar(k, n)) \/ CommandReturns(k) \/ CommandTimesOut(k) PROVE Goal
  <2>1. UNCHANGED <<stage, closed, stored>>
    BY <1>4 DEF ForwardToCar, CommandReturns, CommandTimesOut, data
  <2>q. QED  BY <1>0, <2>1
<1>5. ASSUME UNCHANGED vars PROVE Goal
  BY <1>0, <1>5 DEF vars, data
<1>q. QED  BY <1>1, <1>2, <1>3, <1>4, <1>5 DEF Next

\* The tasks an action may make.
LEMMA TasksMade ==
    ASSUME ConnectionTypes
    PROVE  /\ CountTask \in TaskRecords
           /\ \A on \in {0, 1} : [t |-> "status", on |-> on] \in TaskRecords
           /\ \A on \in {0, 1} : [t |-> "z", to |-> apps, z |-> on] \in TaskRecords
           /\ car # NoConn => [t |-> "close", c |-> car] \in TaskRecords
           /\ \A c \in Cars, v \in 0..MaxData :
                 [t |-> "data", to |-> apps, v |-> v, by |-> c] \in TaskRecords
<1>1. car \in Cars \cup {NoConn} /\ apps \subseteq Apps
  BY DEF ConnectionTypes
<1>q. QED  BY <1>1 DEF TaskRecords, CountTask

LEMMA Concatenated ==
    ASSUME NEW q \in Seq(TaskRecords), NEW x \in TaskRecords, NEW y \in TaskRecords
    PROVE  q \o <<x, y>> = Append(Append(q, x), y)
OBVIOUS

\* The queue after a car has registered.
LEMMA CarQueue ==
    ASSUME ConnectionTypes, QueueInv, NEW c \in Cars, RegisterCar(c)
    PROVE  \E q \in Seq(TaskRecords) :
              /\ q = ready \/ (car # NoConn /\ q = Append(ready, [t |-> "close", c |-> car]))
              /\ ready' = Append(Append(q, [t |-> "status", on |-> 1]), CountTask)
<1> DEFINE q == IF car = NoConn THEN ready ELSE Append(ready, [t |-> "close", c |-> car])
           s == [t |-> "status", on |-> 1]
<1>1. s \in TaskRecords /\ CountTask \in TaskRecords
  BY TasksMade
<1>2. q \in Seq(TaskRecords)
  BY TasksMade, Appended DEF QueueInv
<1>3. ready' = q \o <<s, CountTask>>
  BY DEF RegisterCar
<1>4. q \o <<s, CountTask>> = Append(Append(q, s), CountTask)
  <2> HIDE DEF q, s
  <2>q. QED  BY <1>1, <1>2, Concatenated
<1>q. QED  BY <1>2, <1>3, <1>4


\* The queue holds tasks only, for apps that are or were registered; and nobody is told
\* anything before MP-S.
LEMMA QueueStep ==
    ASSUME ConnectionTypes, Registrations, QueueInv, [Next]_vars
    PROVE  QueueInv'
<1>0. /\ ready \in Seq(TaskRecords) /\ Addressed(ready, stage, stored)
      /\ first \in [Conns -> {"none", "MP-S"}]
      /\ stage \in [Conns -> Stages] /\ closed \in [Conns -> BOOLEAN]
      /\ car \in Cars \cup {NoConn} /\ apps \subseteq Apps /\ Apps \subseteq Conns /\ Cars \subseteq Conns
      /\ stored \in 0..MaxData /\ MaxData \in Nat
  BY V2Assumption DEF QueueInv, ConnectionTypes, Conns
<1>1. Addressed(ready, stage', stored')
  <2>1. \A a \in Apps : stage[a] \notin {"new", "greet"} => stage'[a] \notin {"new", "greet"}
    BY <1>0, Onward DEF Advances
  <2>q. QED  BY <1>0, <2>1, Onward, AddressedLater
<1>2. \A a \in apps : stage[a] \notin {"new", "greet"} /\ stage'[a] \notin {"new", "greet"}
  <2>1. \A a \in apps : stage[a] \notin {"new", "greet"}
    BY DEF Registrations, RegisteredIsServed
  <2>2. \A a \in apps : a \in Conns
    BY <1>0
  <2>q. QED  BY <2>1, <2>2, Onward DEF Advances
<1>3. ASSUME NEW x \in TaskRecords, x.t \in {"count", "status", "close"}, NEW q \in Seq(TaskRecords),
             Addressed(q, stage', stored')
      PROVE  Addressed(Append(q, x), stage', stored')
  BY <1>3, Onward, AddressedStays
<1>4. Addressed(ready', stage', stored') /\ ready' \in Seq(TaskRecords)
  <2>1. ASSUME NEW c \in Conns, Handler(c) \/ ServerCloses(c) \/ PeerResets(c)
        PROVE  Addressed(ready', stage', stored') /\ ready' \in Seq(TaskRecords)
    <3>1. CASE c \in Cars /\ RegisterCar(c)
      <4>1. PICK q \in Seq(TaskRecords) :
              /\ q = ready \/ (car # NoConn /\ q = Append(ready, [t |-> "close", c |-> car]))
              /\ ready' = Append(Append(q, [t |-> "status", on |-> 1]), CountTask)
        BY <3>1, CarQueue
      <4>2. Addressed(q, stage', stored')
        BY <1>0, <1>1, <1>3, <4>1, TasksMade
      <4> DEFINE s == [t |-> "status", on |-> 1]
      <4>3. s \in TaskRecords /\ s.t = "status" /\ CountTask \in TaskRecords /\ CountTask.t = "count"
        BY TasksMade DEF CountTask
      <4> HIDE DEF s
      <4>4. Append(q, s) \in Seq(TaskRecords) /\ Addressed(Append(q, s), stage', stored')
        BY <1>3, <4>2, <4>3, Appended
      <4>5. /\ Append(Append(q, s), CountTask) \in Seq(TaskRecords)
            /\ Addressed(Append(Append(q, s), CountTask), stage', stored')
        BY <1>3, <4>3, <4>4, Appended
      <4>q. QED  BY <4>1, <4>5 DEF s
    <3>2. CASE (c \in Cars /\ RemoveCar(c)) \/ (c \in Apps /\ (RegisterApp(c) \/ RemoveApp(c)))
      <4>1. PICK x \in TaskRecords : x.t \in {"count", "status"} /\ ready' \in {ready, Append(ready, x)}
        <5>1. CASE c \in Cars /\ RemoveCar(c)
          BY <5>1, TasksMade DEF RemoveCar
        <5>2. CASE c \in Apps /\ (RegisterApp(c) \/ RemoveApp(c))
          BY <5>2, TasksMade DEF RegisterApp, RemoveApp, CountTask
        <5>q. QED  BY <3>2, <5>1, <5>2
      <4>2. Append(ready, x) \in Seq(TaskRecords) /\ Addressed(Append(ready, x), stage', stored')
        BY <1>0, <1>1, <1>3, <4>1, Appended
      <4>3. CASE ready' = ready  BY <1>0, <1>1, <4>3
      <4>4. CASE ready' = Append(ready, x)  BY <4>2, <4>4
      <4>q. QED  BY <4>1, <4>3, <4>4
    <3>3. CASE ready' = ready
      BY <1>0, <1>1, <3>3
    <3>q. QED
      BY <2>1, <3>1, <3>2, <3>3 DEF Handler, ServerCloses, PeerResets, Authenticate, AuthenticationFails,
         LoadStored, SendStored
  <2>2. ASSUME NotifyAppsCarStatus
        PROVE  Addressed(ready', stage', stored') /\ ready' \in Seq(TaskRecords)
    <3> DEFINE x == [t |-> "z", to |-> apps, z |-> Head(ready).on]
               q == Tail(ready)
    <3>1. ready # <<>> /\ Head(ready).t = "status" /\ ready' = Append(q, x)
      BY <2>2 DEF NotifyAppsCarStatus, Start
    <3>2. Head(ready) \in TaskRecords /\ q \in Seq(TaskRecords)
      BY <1>0, <3>1, Started
    <3>3. Head(ready).on \in {0, 1}
      BY <3>1, <3>2 DEF TaskRecords
    <3>4. x \in TaskRecords /\ x.t = "z" /\ x.to = apps
      BY <3>3, TasksMade
    <3>5. Addressed(q, stage', stored')
      BY <1>0, <1>1, <3>1, Onward, AddressedStays
    <3> HIDE DEF x, q
    <3>6. Addressed(Append(q, x), stage', stored')
      BY <1>2, <3>2, <3>4, <3>5, Onward, AddressedStays
    <3>q. QED  BY <3>1, <3>2, <3>4, <3>6, Appended
  <2>3. ASSUME SendStatus \/ NotifyCarAppCount \/ SendData \/ CloseReplaced
        PROVE  Addressed(ready', stage', stored') /\ ready' \in Seq(TaskRecords)
    <3>1. ready # <<>> /\ ready' = Tail(ready)
      BY <2>3 DEF SendStatus, NotifyCarAppCount, SendData, CloseReplaced, Start
    <3>q. QED  BY <1>0, <1>1, <3>1, Onward, AddressedStays, Started
  <2>4. ASSUME NEW c \in Cars, CarData(c)
        PROVE  Addressed(ready', stage', stored') /\ ready' \in Seq(TaskRecords)
    <3> DEFINE x == [t |-> "data", to |-> apps, v |-> stored + 1, by |-> c]
    <3>1. stored' = stored + 1 /\ stored' \in 0..MaxData /\ ready' \in {ready, Append(ready, x)}
      BY <1>0, <2>4 DEF CarData
    <3>2. x \in TaskRecords /\ x.t = "data" /\ x.to = apps /\ x.v = stored'
      BY <3>1, TasksMade
    <3> HIDE DEF x
    <3>3. Addressed(Append(ready, x), stage', stored')
      BY <1>0, <1>1, <1>2, <3>1, <3>2, Onward, AddressedStays
    <3>q. QED  BY <1>0, <1>1, <3>1, <3>2, <3>3, Appended
  <2>5. ASSUME NEW c \in Cars, CloseEnds(c) \/ \E n \in Codes : CarAnswers(c, n)
        PROVE  ready' = ready
    BY <2>5 DEF CloseEnds, CarAnswers
  <2>6. ASSUME NEW k \in Commands,
               (\E n \in Codes : ForwardToCar(k, n)) \/ CommandReturns(k) \/ CommandTimesOut(k)
        PROVE  ready' = ready
    BY <2>6 DEF ForwardToCar, CommandReturns, CommandTimesOut
  <2>7. CASE UNCHANGED vars
    BY <1>0, <1>1, <2>7 DEF vars
  <2>q. QED  BY <1>0, <1>1, <2>1, <2>2, <2>3, <2>4, <2>5, <2>6, <2>7 DEF Next, Tasks
<1>5. \A c \in Conns : first[c] = "MP-S" \/ (first[c] = "none" /\ (stage[c] = "new" \/ closed[c]))
  BY DEF QueueInv
<1>6. ASSUME NEW to, NEW z, Written(to, z), \A c \in Conns : c \in to => stage[c] # "new"
      PROVE  first' = first
  <2>1. \A c \in Conns : first'[c] = first[c]
    BY <1>5, <1>6 DEF Written
  <2>2. first' = [c \in Conns |-> first'[c]] /\ first = [c \in Conns |-> first[c]]
    BY <1>0, <1>6 DEF Written
  <2>q. QED  BY <2>1, <2>2
<1>7. /\ \A c \in Conns : first'[c] = "MP-S" \/ (first'[c] = "none" /\ (stage'[c] = "new" \/ closed'[c]))
      /\ first' \in [Conns -> {"none", "MP-S"}]
  <2> DEFINE Goal == /\ \A c \in Conns : first'[c] = "MP-S" \/ (first'[c] = "none" /\ (stage'[c] = "new" \/ closed'[c]))
                     /\ first' \in [Conns -> {"none", "MP-S"}]
  <2>1. ASSUME NEW c \in Conns, Authenticate(c) PROVE Goal
    BY <1>0, <1>5, <2>1 DEF Authenticate
  <2>2. ASSUME NEW c \in Conns, AuthenticationFails(c) PROVE Goal
    BY <1>0, <1>5, <2>2 DEF AuthenticationFails, peers
  <2>3. ASSUME first' = first, \A c \in Conns : stage[c] = "new" => stage'[c] = "new" PROVE Goal
    BY <1>0, <1>5, <2>3, Onward DEF Advances
  <2>4. ASSUME NEW c \in Conns, ServerCloses(c) \/ PeerResets(c) PROVE Goal
    BY <2>3, <2>4 DEF ServerCloses, PeerResets, peers
  <2>5. ASSUME NEW c \in Conns, (c \in Cars /\ (RegisterCar(c) \/ RemoveCar(c))) \/ (c \in Apps /\ (LoadStored(c) \/ SendStored(c) \/ RemoveApp(c)))
        PROVE  Goal
    <3>1. first' = first /\ stage[c] # "new" /\ \A d \in Conns \ {c} : stage'[d] = stage[d]
      BY <1>0, <2>5 DEF RegisterCar, RemoveCar, LoadStored, SendStored, RemoveApp, Leave, peers
    <3>q. QED  BY <1>0, <1>5, <3>1, Onward DEF Advances
  <2>6. ASSUME NEW a \in Apps, RegisterApp(a) PROVE Goal
    <3>1. first' = first
      BY <1>6, <2>6 DEF RegisterApp
    <3>2. stage[a] # "new" /\ \A d \in Conns \ {a} : stage'[d] = stage[d]
      BY <1>0, <2>6 DEF RegisterApp
    <3>q. QED  BY <1>0, <1>5, <3>1, <3>2, Onward DEF Advances
  <2>7. ASSUME SendStatus PROVE Goal
    <3>1. Start("z") /\ Written(Head(ready).to, Head(ready).z) /\ stage' = stage
      BY <2>7 DEF SendStatus
    <3>2. ready # <<>> /\ Head(ready) = ready[1] /\ ready[1].t = "z" /\ 1 \in 1..Len(ready)
      BY <1>0, <3>1, Started DEF Start
    <3>3. \A c \in Conns : c \in Head(ready).to => stage[c] # "new"
      BY <1>0, <3>2 DEF Addressed
    <3>q. QED  BY <1>6, <2>3, <3>1, <3>3
  <2>8. ASSUME NotifyCarAppCount PROVE Goal
    <3>1. Written({car} \ {NoConn}, Cardinality(apps)) /\ stage' = stage
      BY <2>8 DEF NotifyCarAppCount
    <3>2. \A c \in Conns : c \in {car} \ {NoConn} => stage[c] # "new"
      BY DEF Registrations, RegisteredIsServed
    <3>q. QED  BY <1>6, <2>3, <3>1, <3>2
  <2>9. ASSUME NotifyAppsCarStatus \/ SendData \/ CloseReplaced PROVE Goal
    BY <2>3, <2>9 DEF NotifyAppsCarStatus, SendData, CloseReplaced, peers
  <2>10. ASSUME NEW c \in Cars, CloseEnds(c) \/ CarData(c) PROVE Goal
    BY <2>3, <2>10 DEF CloseEnds, CarData, peers
  <2>11. ASSUME NEW c \in Cars, NEW n \in Codes, CarAnswers(c, n) PROVE Goal
    BY <2>3, <2>11 DEF CarAnswers, peers
  <2>12. ASSUME NEW k \in Commands,
                (\E n \in Codes : ForwardToCar(k, n)) \/ CommandReturns(k) \/ CommandTimesOut(k)
         PROVE  Goal
    <3>1. first' = first /\ stage' = stage
      BY <2>12 DEF ForwardToCar, CommandReturns, CommandTimesOut, peers
    <3>q. QED  BY <2>3, <3>1
  <2>13. ASSUME UNCHANGED vars PROVE Goal
    BY <2>3, <2>13 DEF vars, peers
  <2> HIDE DEF Goal
  <2>q. QED
    BY <2>1, <2>2, <2>4, <2>5, <2>6, <2>7, <2>8, <2>9, <2>10, <2>11, <2>12, <2>13 DEF Next, Tasks, Handler, Goal
<1>q. QED  BY <1>4, <1>7 DEF QueueInv


\* What the steps that write no Z do with the queue and the registrations.
LEMMA OtherSteps ==
    ASSUME ConnectionTypes, QueueInv, [Next]_vars
    PROVE  \/ \E c \in Cars : RegisterCar(c)
           \/ \E c \in Cars : RemoveCar(c) /\ car = c
           \/ \E a \in Apps : RegisterApp(a)
           \/ NotifyAppsCarStatus
           \/ SendStatus
           \/ NotifyCarAppCount
           \/ /\ UNCHANGED <<car, lastZ>>
              /\ \/ UNCHANGED <<ready, apps>>
                 \/ \E x \in TaskRecords : /\ ready' = Append(ready, x)
                                           /\ (x = CountTask /\ apps' \subseteq apps)
                                                \/ (x.t = "data" /\ apps' = apps)
                 \/ /\ ready # <<>> /\ Head(ready).t \in {"data", "close"} /\ ready' = Tail(ready)
                    /\ UNCHANGED apps
<1> DEFINE Goal == /\ UNCHANGED <<car, lastZ>>
                   /\ \/ UNCHANGED <<ready, apps>>
                      \/ \E x \in TaskRecords : /\ ready' = Append(ready, x)
                                                /\ (x = CountTask /\ apps' \subseteq apps)
                                                     \/ (x.t = "data" /\ apps' = apps)
                      \/ /\ ready # <<>> /\ Head(ready).t \in {"data", "close"} /\ ready' = Tail(ready)
                         /\ UNCHANGED apps
<1>1. ASSUME NEW c \in Conns, \/ Authenticate(c) \/ AuthenticationFails(c) \/ LoadStored(c) \/ SendStored(c)
                              \/ ServerCloses(c) \/ PeerResets(c)
      PROVE  Goal
  <2>1. UNCHANGED <<car, lastZ, ready, apps>>
    BY <1>1 DEF Authenticate, AuthenticationFails, LoadStored, SendStored, ServerCloses, PeerResets, peers
  <2>q. QED  BY <2>1
<1>2. ASSUME NEW c \in Cars, RemoveCar(c), car # c PROVE Goal
  BY <1>2 DEF RemoveCar, peers
<1>3. ASSUME NEW a \in Apps, RemoveApp(a) PROVE Goal
  <2>1. UNCHANGED <<car, lastZ>> /\ apps' = apps \ {a}
    BY <1>3 DEF RemoveApp, peers
  <2>2. CASE apps = {}  BY <1>3, <2>1, <2>2 DEF RemoveApp
  <2>3. CASE apps # {}
    <3>1. ready' = Append(ready, CountTask) /\ CountTask \in TaskRecords /\ apps' \subseteq apps
      BY <1>3, <2>1, <2>3, TasksMade DEF RemoveApp
    <3>q. QED  BY <2>1, <3>1
  <2>q. QED  BY <2>2, <2>3
<1>4. ASSUME SendData \/ CloseReplaced PROVE Goal
  <2>1. /\ UNCHANGED <<car, lastZ, apps>>
        /\ ready # <<>> /\ Head(ready).t \in {"data", "close"} /\ ready' = Tail(ready)
    BY <1>4 DEF SendData, CloseReplaced, Start, peers
  <2>q. QED  BY <2>1
<1>5. ASSUME NEW c \in Cars, CarData(c) PROVE Goal
  <2> DEFINE x == [t |-> "data", to |-> apps, v |-> stored + 1, by |-> c]
  <2>1. UNCHANGED <<car, lastZ, apps>> /\ ready' \in {ready, Append(ready, x)} /\ stored < MaxData
    BY <1>5 DEF CarData, peers
  <2>2. stored + 1 \in 0..MaxData
    BY <2>1, V2Assumption DEF ConnectionTypes
  <2>3. x \in TaskRecords /\ x.t = "data"
    BY <2>2, TasksMade
  <2> HIDE DEF x
  <2>q. QED  BY <2>1, <2>3
<1>6. ASSUME NEW c \in Cars, CloseEnds(c) \/ \E n \in Codes : CarAnswers(c, n) PROVE Goal
  <2>1. UNCHANGED <<car, lastZ, ready, apps>>
    BY <1>6 DEF CloseEnds, CarAnswers, peers
  <2>q. QED  BY <2>1
<1>7. ASSUME NEW k \in Commands,
             (\E n \in Codes : ForwardToCar(k, n)) \/ CommandReturns(k) \/ CommandTimesOut(k)
      PROVE  Goal
  <2>1. UNCHANGED <<car, lastZ, ready, apps>>
    BY <1>7 DEF ForwardToCar, CommandReturns, CommandTimesOut, peers
  <2>q. QED  BY <2>1
<1>8. ASSUME UNCHANGED vars PROVE Goal
  BY <1>8 DEF vars, peers
<1> HIDE DEF Goal
<1>9. \/ \E c \in Cars : RegisterCar(c)
      \/ \E c \in Cars : RemoveCar(c) /\ car = c
      \/ \E a \in Apps : RegisterApp(a)
      \/ NotifyAppsCarStatus \/ SendStatus \/ NotifyCarAppCount \/ Goal
  BY <1>1, <1>2, <1>3, <1>4, <1>5, <1>6, <1>7, <1>8 DEF Next, Tasks, Handler
<1>q. QED  BY <1>9 DEF Goal

\* Whatever order cars and apps come and go in, the latest notice in the queue is right.
LEMMA AppsToldStep ==
    ASSUME ConnectionTypes, Registrations, QueueInv, AppsTold, [Next]_vars
    PROVE  AppsTold'
<1>0. /\ ready \in Seq(TaskRecords) /\ Addressed(ready, stage, stored)
      /\ apps \subseteq Apps /\ stored \in Nat /\ stage \in [Conns -> Stages]
      /\ \A a \in Apps : a \in Conns /\ a \notin Cars
  BY V2Assumption DEF QueueInv, ConnectionTypes, Conns
<1>1. \A a \in Apps : closed[a] => closed'[a]
  BY <1>0, Onward DEF Advances
<1>2. /\ StatusCurrent(ready, Online)
      /\ \A a \in apps : ~closed[a] /\ NoStatus(ready) =>
            TellingCurrent(ready, a, Online) /\ (Untold(ready, a) => lastZ[a] = {Online})
  BY DEF AppsTold
<1>3. ASSUME NEW q \in Seq(TaskRecords), NEW on \in {0, 1}, Online' = on,
             ready' = Append(q, [t |-> "status", on |-> on])
                \/ ready' = Append(Append(q, [t |-> "status", on |-> on]), CountTask)
      PROVE  AppsTold'
  <2> DEFINE s == [t |-> "status", on |-> on]
  <2>1. s \in TaskRecords /\ s.t = "status" /\ s.on = on /\ CountTask \in TaskRecords /\ CountTask.t = "count"
    BY TasksMade DEF CountTask
  <2>2. ready' = Append(q, s) \/ ready' = Append(Append(q, s), CountTask)
    BY <1>3
  <2> HIDE DEF s
  <2>3. StatusCurrent(Append(q, s), on) /\ ~NoStatus(Append(q, s)) /\ Append(q, s) \in Seq(TaskRecords)
    BY <2>1, AppendStatus, Appended
  <2>4. StatusCurrent(Append(Append(q, s), CountTask), on) /\ ~NoStatus(Append(Append(q, s), CountTask))
    BY <2>1, <2>3, AppendStatus
  <2>5. StatusCurrent(ready', on) /\ ~NoStatus(ready')
    BY <2>2, <2>3, <2>4
  <2>q. QED  BY <1>3, <2>5 DEF AppsTold
<1>4. ASSUME NEW c \in Cars, RegisterCar(c) PROVE AppsTold'
  <2>1. PICK q \in Seq(TaskRecords) : ready' = Append(Append(q, [t |-> "status", on |-> 1]), CountTask)
    BY <1>4, CarQueue
  <2>2. Online' = 1
    BY <1>4, V2Assumption DEF RegisterCar, Online
  <2>q. QED  BY <1>3, <2>1, <2>2
<1>5. ASSUME NEW c \in Cars, RemoveCar(c), car = c PROVE AppsTold'
  <2>1. ready' = Append(ready, [t |-> "status", on |-> 0]) /\ Online' = 0
    BY <1>5 DEF RemoveCar, Online
  <2>q. QED  BY <1>0, <1>3, <2>1
<1>6. ASSUME NEW x \in TaskRecords, x.t \in {"count", "data"}
      PROVE  /\ StatusCurrent(Append(ready, x), Online)
             /\ \A a \in apps : ~closed[a] /\ NoStatus(Append(ready, x)) =>
                   /\ TellingCurrent(Append(ready, x), a, Online)
                   /\ Untold(Append(ready, x), a) => lastZ[a] = {Online}
             /\ NoStatus(Append(ready, x)) => NoStatus(ready)
             /\ \A a : Untold(ready, a) => TellingCurrent(Append(ready, x), a, Online)
  <2>1. \A a : ~Tells(x, a)
    BY <1>6 DEF Tells
  <2>q. QED  BY <1>0, <1>2, <1>6, <2>1, AppendStatus, AppendTelling, NothingStale
<1>7. ASSUME NEW a \in Apps, RegisterApp(a) PROVE AppsTold'
  <2>1. /\ ready' = Append(ready, CountTask) /\ apps' = apps \cup {a} /\ stage[a] = "greet"
        /\ Online' = Online /\ closed' = closed
        /\ lastZ' = [c \in Conns |-> IF c = a /\ ~closed[c] THEN {Online} ELSE lastZ[c]]
    BY <1>7 DEF RegisterApp, Written, Online
  <2>2. CountTask \in TaskRecords /\ CountTask.t = "count"
    BY TasksMade DEF CountTask
  <2>3. TellingCurrent(ready', a, Online)
    BY <1>0, <1>6, <2>1, <2>2, AddressedStays
  <2>4. ASSUME NEW b \in apps', ~closed[b], NoStatus(ready')
        PROVE  TellingCurrent(ready', b, Online) /\ (Untold(ready', b) => lastZ'[b] = {Online})
    <3>1. CASE b = a  BY <1>0, <2>1, <2>3, <2>4, <3>1
    <3>2. CASE b # a
      <4>1. b \in apps /\ lastZ'[b] = lastZ[b]
        BY <1>0, <2>1, <2>4, <3>2
      <4>q. QED  BY <1>6, <2>1, <2>2, <2>4, <4>1
    <3>q. QED  BY <3>1, <3>2
  <2>5. StatusCurrent(ready', Online)
    BY <1>6, <2>1, <2>2
  <2>q. QED  BY <2>1, <2>4, <2>5 DEF AppsTold
<1>8. ASSUME NotifyAppsCarStatus PROVE AppsTold'
  <2> DEFINE q == Tail(ready)
             on == Head(ready).on
             x == [t |-> "z", to |-> apps, z |-> on]
  <2>1. /\ ready # <<>> /\ Head(ready).t = "status" /\ ready' = Append(q, x)
        /\ Online' = Online /\ UNCHANGED <<apps, closed>>
    BY <1>8 DEF NotifyAppsCarStatus, Start, Online
  <2>2. q \in Seq(TaskRecords) /\ Head(ready) \in TaskRecords
    BY <1>0, <2>1, Started
  <2>3. on \in {0, 1}
    BY <2>1, <2>2 DEF TaskRecords
  <2>4. x \in TaskRecords /\ x.t = "z" /\ x.to = apps /\ x.z = on
    BY <2>3, TasksMade
  <2>5. StatusCurrent(q, Online) /\ (NoStatus(q) => on = Online)
    BY <1>0, <1>2, <2>1, StartStatus
  <2> HIDE DEF q, x, on
  <2>6. StatusCurrent(Append(q, x), Online) /\ (NoStatus(Append(q, x)) => NoStatus(q))
    BY <2>2, <2>4, <2>5, AppendStatus
  <2>7. ASSUME NEW a \in apps, NoStatus(Append(q, x))
        PROVE  TellingCurrent(Append(q, x), a, Online) /\ ~Untold(Append(q, x), a)
    <3>1. Tells(x, a) /\ x.z = Online
      BY <2>4, <2>5, <2>6, <2>7 DEF Tells
    <3>q. QED  BY <2>2, <2>4, <3>1, AppendTelling
  <2>q. QED  BY <2>1, <2>6, <2>7 DEF AppsTold
<1>9. ASSUME ready # <<>>, ready' = Tail(ready), Head(ready).t # "status", Online' = Online, apps' = apps,
             \A a \in apps : ~closed[a] => lastZ'[a] = IF Tells(Head(ready), a) THEN {Head(ready).z} ELSE lastZ[a]
      PROVE  AppsTold'
  <2>1. StatusCurrent(ready', Online) /\ (NoStatus(ready') => NoStatus(ready))
    BY <1>0, <1>2, <1>9, StartStatus
  <2>2. ASSUME NEW a \in apps, ~closed'[a], NoStatus(ready')
        PROVE  TellingCurrent(ready', a, Online) /\ (Untold(ready', a) => lastZ'[a] = {Online})
    <3>1. ~closed[a]
      BY <1>0, <1>1, <2>2
    <3>2. TellingCurrent(ready, a, Online) /\ (Untold(ready, a) => lastZ[a] = {Online})
      BY <1>2, <2>1, <2>2, <3>1
    <3>3. /\ TellingCurrent(ready', a, Online)
          /\ ~Tells(Head(ready), a) /\ Untold(ready', a) => Untold(ready, a)
          /\ Tells(Head(ready), a) /\ Untold(ready', a) => Head(ready).z = Online
      BY <1>0, <1>9, <3>2, StartTelling
    <3>q. QED  BY <1>9, <3>1, <3>2, <3>3
  <2>q. QED  BY <1>9, <2>1, <2>2 DEF AppsTold
<1>10. ASSUME SendStatus PROVE AppsTold'
  <2>1. /\ ready # <<>> /\ Head(ready).t = "z" /\ ready' = Tail(ready) /\ Online' = Online /\ apps' = apps
        /\ lastZ' = [c \in Conns |-> IF c \in Head(ready).to /\ ~closed[c] THEN {Head(ready).z} ELSE lastZ[c]]
    BY <1>10 DEF SendStatus, Start, Written, Online
  <2>q. QED  BY <1>0, <1>9, <2>1 DEF Tells
<1>11. ASSUME NotifyCarAppCount PROVE AppsTold'
  <2>1. /\ ready # <<>> /\ Head(ready).t = "count" /\ ready' = Tail(ready) /\ Online' = Online /\ apps' = apps
        /\ lastZ' = [c \in Conns |-> IF c \in {car} \ {NoConn} /\ ~closed[c] THEN {Cardinality(apps)} ELSE lastZ[c]]
    BY <1>11 DEF NotifyCarAppCount, Start, Written, Online
  <2>2. \A a \in apps : a \in Conns /\ a \notin {car} \ {NoConn}
    BY <1>0 DEF ConnectionTypes
  <2>q. QED  BY <1>9, <2>1, <2>2 DEF Tells
<1>12. ASSUME UNCHANGED <<car, lastZ>>, ready' = ready, apps' = apps PROVE AppsTold'
  <2>1. Online' = Online
    BY <1>12 DEF Online
  <2>q. QED  BY <1>0, <1>1, <1>2, <1>12, <2>1 DEF AppsTold
<1>13. ASSUME UNCHANGED <<car, lastZ>>, NEW x \in TaskRecords, ready' = Append(ready, x),
              x.t \in {"count", "data"}, apps' \subseteq apps
       PROVE  AppsTold'
  <2>1. Online' = Online
    BY <1>13 DEF Online
  <2>2. ASSUME NEW a \in apps', ~closed'[a], NoStatus(ready')
        PROVE  TellingCurrent(ready', a, Online) /\ (Untold(ready', a) => lastZ'[a] = {Online})
    BY <1>0, <1>1, <1>6, <1>13, <2>2
  <2>3. StatusCurrent(ready', Online)
    BY <1>6, <1>13
  <2>q. QED  BY <2>1, <2>2, <2>3 DEF AppsTold
<1>14. ASSUME UNCHANGED <<car, lastZ>>, ready # <<>>, Head(ready).t \in {"data", "close"},
              ready' = Tail(ready), apps' = apps
       PROVE  AppsTold'
  <2>1. Online' = Online
    BY <1>14 DEF Online
  <2>q. QED  BY <1>9, <1>14, <2>1 DEF Tells
<1>15. CountTask.t = "count"
  BY DEF CountTask
<1>q. QED
  BY <1>4, <1>5, <1>7, <1>8, <1>10, <1>11, <1>12, <1>13, <1>14, <1>15, OtherSteps


\* The car's count of apps is right, or a task that sends it is due.
LEMMA CarToldStep ==
    ASSUME ConnectionTypes, Registrations, QueueInv, CarTold, [Next]_vars
    PROVE  CarTold'
<1>0. /\ ready \in Seq(TaskRecords) /\ car \in Cars \cup {NoConn} /\ NoConn \notin Cars
      /\ apps \subseteq Apps /\ \A c \in Cars : c \in Conns /\ c \notin Apps
  BY V2Assumption DEF QueueInv, ConnectionTypes, Conns
<1>1. \A c \in Cars : closed[c] => closed'[c]
  BY <1>0, Onward DEF Advances
<1>2. car # NoConn /\ ~closed[car] => lastZ[car] = {Cardinality(apps)} \/ CountDue(ready)
  BY DEF CarTold
<1>3. CountTask \in TaskRecords /\ CountTask.t = "count"
  BY TasksMade DEF CountTask
<1>4. \A x \in TaskRecords : CountDue(ready) \/ x.t = "count" => CountDue(Append(ready, x))
  BY <1>0, CountStays
<1>5. ASSUME NEW c \in Cars, RegisterCar(c) PROVE CountDue(ready')
  <2>1. PICK q \in Seq(TaskRecords) : ready' = Append(Append(q, [t |-> "status", on |-> 1]), CountTask)
    BY <1>5, CarQueue
  <2> DEFINE r == Append(q, [t |-> "status", on |-> 1])
  <2>2. r \in Seq(TaskRecords)
    BY TasksMade, Appended
  <2> HIDE DEF r
  <2>3. CountDue(Append(r, CountTask))
    BY <1>3, <2>2, CountStays
  <2>q. QED  BY <2>1, <2>3 DEF r
<1>6. ASSUME NEW c \in Cars, RemoveCar(c), car = c PROVE car' = NoConn
  BY <1>6 DEF RemoveCar
<1>7. ASSUME NEW a \in Apps, RegisterApp(a) PROVE CountDue(ready')
  BY <1>3, <1>4, <1>7 DEF RegisterApp
<1>8. ASSUME NotifyAppsCarStatus PROVE CarTold'
  <2> DEFINE x == [t |-> "z", to |-> apps, z |-> Head(ready).on]
             q == Tail(ready)
  <2>1. /\ ready # <<>> /\ Head(ready).t = "status" /\ ready' = Append(q, x)
        /\ UNCHANGED <<car, lastZ, apps, closed>>
    BY <1>8 DEF NotifyAppsCarStatus, Start, peers
  <2>2. Head(ready) \in TaskRecords /\ q \in Seq(TaskRecords)
    BY <1>0, <2>1, Started
  <2>3. x \in TaskRecords
    BY <2>1, <2>2, TasksMade DEF TaskRecords
  <2>4. CountDue(ready) => CountDue(q)
    BY <1>0, <2>1, CountStays
  <2> HIDE DEF x, q
  <2>5. CountDue(ready) => CountDue(ready')
    BY <2>1, <2>2, <2>3, <2>4, CountStays
  <2>q. QED  BY <1>2, <2>1, <2>5 DEF CarTold
<1>9. ASSUME SendStatus PROVE CarTold'
  <2>1. /\ ready # <<>> /\ Head(ready).t = "z" /\ ready' = Tail(ready) /\ UNCHANGED <<car, apps, closed>>
        /\ lastZ' = [c \in Conns |-> IF c \in Head(ready).to /\ ~closed[c] THEN {Head(ready).z} ELSE lastZ[c]]
    BY <1>9 DEF SendStatus, Start, Written
  <2>2. Head(ready) \in TaskRecords
    BY <1>0, <2>1, Started
  <2>3. Head(ready).to \subseteq Apps
    BY <2>1, <2>2 DEF TaskRecords
  <2>4. car # NoConn => lastZ'[car] = lastZ[car]
    BY <1>0, <2>1, <2>3
  <2>5. CountDue(ready) => CountDue(ready')
    BY <1>0, <2>1, CountStays
  <2>q. QED  BY <1>2, <2>1, <2>4, <2>5 DEF CarTold
<1>10. ASSUME NotifyCarAppCount PROVE CarTold'
  <2>1. /\ UNCHANGED <<car, apps, closed>>
        /\ lastZ' = [c \in Conns |-> IF c \in {car} \ {NoConn} /\ ~closed[c] THEN {Cardinality(apps)} ELSE lastZ[c]]
    BY <1>10 DEF NotifyCarAppCount, Written
  <2>q. QED  BY <1>0, <2>1 DEF CarTold
<1>11. ASSUME UNCHANGED <<car, lastZ>>, ready' = ready, apps' = apps PROVE CarTold'
  BY <1>0, <1>1, <1>2, <1>11 DEF CarTold
<1>12. ASSUME UNCHANGED <<car, lastZ>>, NEW x \in TaskRecords, ready' = Append(ready, x),
              x = CountTask \/ apps' = apps
       PROVE  CarTold'
  BY <1>0, <1>1, <1>2, <1>3, <1>4, <1>12 DEF CarTold
<1>13. ASSUME UNCHANGED <<car, lastZ>>, ready # <<>>, Head(ready).t \in {"data", "close"},
              ready' = Tail(ready), apps' = apps
       PROVE  CarTold'
  <2>1. CountDue(ready) => CountDue(ready')
    BY <1>0, <1>13, CountStays
  <2>q. QED  BY <1>0, <1>1, <1>2, <1>13, <2>1 DEF CarTold
<1>q. QED
  BY <1>5, <1>6, <1>7, <1>8, <1>9, <1>10, <1>11, <1>12, <1>13, OtherSteps DEF CarTold

\* What an action that neither carries nor shows data does to the queue.
LEMMA NoNewData ==
    ASSUME NEW q \in Seq(TaskRecords), NEW a, NEW v
    PROVE  /\ \A x \in TaskRecords : x.t # "data" =>
                 /\ DataCurrent(q, a, v) => DataCurrent(Append(q, x), a, v)
                 /\ NoData(Append(q, x), a) => NoData(q, a)
           /\ q # <<>> /\ Head(q).t # "data" /\ DataCurrent(q, a, v) =>
                 /\ DataCurrent(Tail(q), a, v)
                 /\ NoData(Tail(q), a) => NoData(q, a)
<1>1. \A x : x.t # "data" => ~Carries(x, a)
  BY DEF Carries
<1>q. QED  BY <1>1, AppendData, StartData

\* What a registered app shows, has coming or has loaded is the newest data.
LEMMA UpToDateStep ==
    ASSUME ConnectionTypes, Registrations, QueueInv, AppsUpToDate, [Next]_vars
    PROVE  AppsUpToDate'
<1>0. /\ ready \in Seq(TaskRecords) /\ Addressed(ready, stage, stored)
      /\ apps \subseteq Apps /\ stored \in 0..MaxData /\ MaxData \in Nat /\ stage \in [Conns -> Stages]
      /\ \A a \in Apps : a \in Conns /\ a \notin Cars
      /\ loaded \in [Apps -> 0..MaxData] /\ shown \in [Apps -> 0..MaxData]
  BY V2Assumption DEF QueueInv, ConnectionTypes, Conns, AppsUpToDate
<1>1. \A a \in Apps : closed[a] => closed'[a]
  BY <1>0, Onward DEF Advances
<1>2. /\ \A a \in Apps : shown[a] <= stored /\ loaded[a] <= stored
      /\ \A a \in apps :
            /\ DataCurrent(ready, a, stored)
            /\ stage[a] = "replay" /\ clean[a] => loaded[a] = stored
            /\ stage[a] = "serving" /\ clean[a] /\ ~closed[a] /\ NoData(ready, a) => shown[a] = stored
  BY DEF AppsUpToDate
<1>3. \A a \in apps : stage[a] \in {"initial", "replay", "serving"}
  BY DEF Registrations, RegisteredIsServed
<1>4. ASSUME \A a \in apps : stage'[a] = stage[a] \/ stage'[a] \notin {"replay", "serving"},
             UNCHANGED <<apps, stored, loaded, shown, clean>>,
             \A a : DataCurrent(ready, a, stored) =>
                        DataCurrent(ready', a, stored) /\ (NoData(ready', a) => NoData(ready, a))
      PROVE  AppsUpToDate'
  <2>1. ASSUME NEW a \in apps
        PROVE  /\ DataCurrent(ready', a, stored)
               /\ stage'[a] = "replay" /\ clean[a] => loaded[a] = stored
               /\ stage'[a] = "serving" /\ clean[a] /\ ~closed'[a] /\ NoData(ready', a) => shown[a] = stored
    BY <1>0, <1>1, <1>2, <1>4
  <2>q. QED  BY <1>0, <1>2, <1>4, <2>1 DEF AppsUpToDate
<1>5. ASSUME NEW c \in Conns,
             \/ Authenticate(c) \/ AuthenticationFails(c) \/ ServerCloses(c) \/ PeerResets(c)
             \/ c \in Cars /\ RemoveCar(c)
      PROVE  AppsUpToDate'
  <2>1. UNCHANGED <<apps, stored, loaded, shown, clean>> /\ \A a \in apps : stage'[a] = stage[a]
    BY <1>0, <1>3, <1>5 DEF Authenticate, AuthenticationFails, ServerCloses, PeerResets, RemoveCar, Leave, data
  <2>2. ready' = ready \/ ready' = Append(ready, [t |-> "status", on |-> 0])
    BY <1>5 DEF Authenticate, AuthenticationFails, ServerCloses, PeerResets, RemoveCar
  <2>3. [t |-> "status", on |-> 0] \in TaskRecords
    BY TasksMade
  <2> DEFINE s == [t |-> "status", on |-> 0]
  <2>4. s \in TaskRecords /\ s.t # "data" /\ (ready' = ready \/ ready' = Append(ready, s))
    BY <2>2, <2>3
  <2> HIDE DEF s
  <2>5. ASSUME NEW a, DataCurrent(ready, a, stored)
        PROVE  DataCurrent(ready', a, stored) /\ (NoData(ready', a) => NoData(ready, a))
    <3>1. /\ DataCurrent(Append(ready, s), a, stored)
          /\ NoData(Append(ready, s), a) => NoData(ready, a)
      BY <1>0, <2>4, <2>5, NoNewData
    <3>q. QED  BY <2>4, <2>5, <3>1
  <2>q. QED  BY <1>4, <2>1, <2>5
<1>6. ASSUME NEW c \in Cars, RegisterCar(c) PROVE AppsUpToDate'
  <2>1. UNCHANGED <<apps, stored, loaded, shown, clean>> /\ \A a \in apps : stage'[a] = stage[a]
    BY <1>0, <1>3, <1>6 DEF RegisterCar, data
  <2>2. PICK q \in Seq(TaskRecords) :
          /\ q = ready \/ (car # NoConn /\ q = Append(ready, [t |-> "close", c |-> car]))
          /\ ready' = Append(Append(q, [t |-> "status", on |-> 1]), CountTask)
    BY <1>6, CarQueue
  <2> DEFINE s == [t |-> "status", on |-> 1]
             z == [t |-> "close", c |-> car]
  <2>3. /\ s \in TaskRecords /\ s.t # "data" /\ CountTask \in TaskRecords /\ CountTask.t # "data"
        /\ car # NoConn => z \in TaskRecords /\ z.t # "data"
    BY TasksMade DEF CountTask
  <2>4. (q = ready \/ (car # NoConn /\ q = Append(ready, z))) /\ ready' = Append(Append(q, s), CountTask)
    BY <2>2
  <2> HIDE DEF s, z
  <2>5. ASSUME NEW a, DataCurrent(ready, a, stored)
        PROVE  DataCurrent(ready', a, stored) /\ (NoData(ready', a) => NoData(ready, a))
    <3>1. DataCurrent(q, a, stored) /\ (NoData(q, a) => NoData(ready, a))
      <4>1. CASE q = ready  BY <2>5, <4>1
      <4>2. CASE car # NoConn /\ q = Append(ready, z)
        <5>1. /\ DataCurrent(Append(ready, z), a, stored)
              /\ NoData(Append(ready, z), a) => NoData(ready, a)
          BY <1>0, <2>3, <2>5, <4>2, NoNewData
        <5>q. QED  BY <4>2, <5>1
      <4>q. QED  BY <2>4, <4>1, <4>2
    <3>2. /\ Append(q, s) \in Seq(TaskRecords) /\ DataCurrent(Append(q, s), a, stored)
          /\ NoData(Append(q, s), a) => NoData(q, a)
      BY <2>3, <3>1, NoNewData, Appended
    <3>3. /\ DataCurrent(Append(Append(q, s), CountTask), a, stored)
          /\ NoData(Append(Append(q, s), CountTask), a) => NoData(Append(q, s), a)
      BY <2>3, <3>2, NoNewData
    <3>q. QED  BY <2>4, <3>1, <3>2, <3>3
  <2>q. QED  BY <1>4, <2>1, <2>5
<1>7. ASSUME NEW a \in Apps, RegisterApp(a) PROVE AppsUpToDate'
  <2>1. /\ ready' = Append(ready, CountTask) /\ apps' = apps \cup {a} /\ stage[a] = "greet"
        /\ stage' = [stage EXCEPT ![a] = "initial"] /\ UNCHANGED <<closed, stored, loaded, shown, clean>>
    BY <1>7 DEF RegisterApp, data
  <2>2. CountTask \in TaskRecords /\ CountTask.t # "data"
    BY TasksMade DEF CountTask
  <2>3. DataCurrent(ready, a, stored)
    BY <1>0, <2>1, AddressedStays, NothingStale
  <2>4. ASSUME NEW b \in apps'
        PROVE  /\ DataCurrent(ready', b, stored)
               /\ stage'[b] = "replay" /\ clean[b] => loaded[b] = stored
               /\ stage'[b] = "serving" /\ clean[b] /\ ~closed[b] /\ NoData(ready', b) => shown[b] = stored
    <3>1. DataCurrent(ready, b, stored)
      BY <1>2, <2>1, <2>3
    <3>2. DataCurrent(ready', b, stored) /\ (NoData(ready', b) => NoData(ready, b))
      BY <1>0, <2>1, <2>2, <3>1, NoNewData
    <3>q. QED  BY <1>0, <1>2, <2>1, <3>2
  <2>q. QED  BY <1>0, <1>2, <2>1, <2>4 DEF AppsUpToDate
<1>8. ASSUME NEW a \in Apps, LoadStored(a) PROVE AppsUpToDate'
  <2>1. /\ stage' = [stage EXCEPT ![a] = "replay"] /\ loaded' = [loaded EXCEPT ![a] = stored]
        /\ UNCHANGED <<closed, apps, ready, stored, shown, clean>>
    BY <1>8 DEF LoadStored
  <2>q. QED  BY <1>0, <1>2, <2>1 DEF AppsUpToDate
<1>9. ASSUME NEW a \in Apps, SendStored(a) PROVE AppsUpToDate'
  <2>1. /\ stage[a] = "replay" /\ stage' = [stage EXCEPT ![a] = "serving"]
        /\ shown' = IF closed[a] \/ loaded[a] = 0 THEN shown ELSE [shown EXCEPT ![a] = loaded[a]]
        /\ UNCHANGED <<closed, apps, ready, stored, loaded, clean>>
    BY <1>9 DEF SendStored
  <2>2. /\ shown' \in [Apps -> 0..MaxData]
        /\ \A b \in Apps \ {a} : shown'[b] = shown[b]
        /\ shown'[a] = IF closed[a] \/ loaded[a] = 0 THEN shown[a] ELSE loaded[a]
    BY <1>0, <2>1
  <2>3. a \in apps /\ clean[a] /\ ~closed[a] => shown'[a] = stored
    <3>1. SUFFICES ASSUME a \in apps, clean[a], ~closed[a] PROVE shown'[a] = stored
      OBVIOUS
    <3>2. loaded[a] = stored
      BY <1>2, <2>1, <3>1
    <3>3. shown[a] <= stored /\ shown[a] \in Nat
      BY <1>0, <1>2
    <3>q. QED  BY <1>0, <2>2, <3>1, <3>2, <3>3
  <2>4. shown'[a] <= stored
    BY <1>0, <1>2, <2>2, <2>1
  <2>q. QED  BY <1>0, <1>2, <2>1, <2>2, <2>3, <2>4 DEF AppsUpToDate
<1>10. ASSUME NEW a \in Apps, RemoveApp(a) PROVE AppsUpToDate'
  <2>1. apps' = apps \ {a} /\ stage' = [stage EXCEPT ![a] = "removed"] /\ UNCHANGED <<stored, loaded, shown, clean>>
    BY <1>10 DEF RemoveApp, Leave, data
  <2>2. ready' = ready \/ ready' = Append(ready, CountTask)
    BY <1>10 DEF RemoveApp
  <2>3. CountTask \in TaskRecords /\ CountTask.t # "data"
    BY TasksMade DEF CountTask
  <2>4. ASSUME NEW b \in apps'
        PROVE  /\ DataCurrent(ready', b, stored)
               /\ stage'[b] = "replay" /\ clean[b] => loaded[b] = stored
               /\ stage'[b] = "serving" /\ clean[b] /\ ~closed'[b] /\ NoData(ready', b) => shown[b] = stored
    <3>1. b \in apps /\ stage'[b] = stage[b] /\ (closed[b] => closed'[b])
      BY <1>0, <1>1, <2>1
    <3>2. DataCurrent(ready', b, stored) /\ (NoData(ready', b) => NoData(ready, b))
      BY <1>0, <1>2, <2>2, <2>3, <3>1, NoNewData
    <3>q. QED  BY <1>2, <3>1, <3>2
  <2>q. QED  BY <1>0, <1>2, <2>1, <2>4 DEF AppsUpToDate
<1>11. ASSUME NotifyAppsCarStatus PROVE AppsUpToDate'
  <2> DEFINE x == [t |-> "z", to |-> apps, z |-> Head(ready).on]
             q == Tail(ready)
  <2>1. /\ ready # <<>> /\ Head(ready).t = "status" /\ ready' = Append(q, x)
        /\ UNCHANGED <<stage, apps, stored, loaded, shown, clean>>
    BY <1>11 DEF NotifyAppsCarStatus, Start, data
  <2>2. Head(ready) \in TaskRecords /\ q \in Seq(TaskRecords)
    BY <1>0, <2>1, Started
  <2>3. x \in TaskRecords /\ x.t # "data"
    BY <2>1, <2>2, TasksMade DEF TaskRecords
  <2>4. ASSUME NEW a, DataCurrent(ready, a, stored)
        PROVE  DataCurrent(q, a, stored) /\ (NoData(q, a) => NoData(ready, a))
    BY <1>0, <2>1, <2>4, NoNewData
  <2> HIDE DEF x, q
  <2>5. ASSUME NEW a, DataCurrent(ready, a, stored)
        PROVE  DataCurrent(ready', a, stored) /\ (NoData(ready', a) => NoData(ready, a))
    BY <2>1, <2>2, <2>3, <2>4, <2>5, NoNewData
  <2>q. QED  BY <1>4, <2>1, <2>5
<1>12. ASSUME SendStatus \/ NotifyCarAppCount \/ CloseReplaced PROVE AppsUpToDate'
  <2>1. /\ ready # <<>> /\ Head(ready).t # "data" /\ ready' = Tail(ready)
        /\ UNCHANGED <<stage, apps, stored, loaded, shown, clean>>
    BY <1>12 DEF SendStatus, NotifyCarAppCount, CloseReplaced, Start, data
  <2>2. ASSUME NEW a, DataCurrent(ready, a, stored)
        PROVE  DataCurrent(ready', a, stored) /\ (NoData(ready', a) => NoData(ready, a))
    BY <1>0, <2>1, <2>2, NoNewData
  <2>q. QED  BY <1>4, <2>1, <2>2
<1>13. ASSUME SendData PROVE AppsUpToDate'
  <2> DEFINE h == Head(ready)
  <2>1. /\ ready # <<>> /\ h.t = "data" /\ ready' = Tail(ready)
        /\ shown' = [a \in Apps |-> IF a \in h.to /\ ~closed[a] THEN h.v ELSE shown[a]]
        /\ UNCHANGED <<stage, closed, apps, stored, loaded, clean>>
    BY <1>13 DEF SendData, Start
  <2>2. h \in TaskRecords /\ h = ready[1] /\ 1 \in 1..Len(ready)
    BY <1>0, <2>1, Started
  <2>3. h.v \in 0..MaxData
    BY <2>1, <2>2 DEF TaskRecords
  <2>4. h.v <= stored
    BY <1>0, <2>1, <2>2 DEF Addressed
  <2>5. shown' \in [Apps -> 0..MaxData] /\ \A a \in Apps : shown'[a] <= stored
    <3> HIDE DEF h
    <3>q. QED  BY <1>0, <1>2, <2>1, <2>3, <2>4
  <2>6. ASSUME NEW a \in apps
        PROVE  /\ DataCurrent(ready', a, stored)
               /\ stage[a] = "serving" /\ clean[a] /\ ~closed[a] /\ NoData(ready', a) => shown'[a] = stored
    <3>1. DataCurrent(ready, a, stored)
      BY <1>2
    <3>2. /\ DataCurrent(ready', a, stored)
          /\ ~Carries(h, a) /\ NoData(ready', a) => NoData(ready, a)
          /\ Carries(h, a) /\ NoData(ready', a) => h.v = stored
      BY <1>0, <2>1, <3>1, StartData
    <3>3. ~closed[a] => shown'[a] = IF Carries(h, a) THEN h.v ELSE shown[a]
      BY <1>0, <2>1 DEF Carries
    <3>q. QED  BY <1>2, <3>2, <3>3
  <2>q. QED  BY <1>0, <1>2, <2>1, <2>5, <2>6 DEF AppsUpToDate
<1>14. ASSUME NEW c \in Cars, CarData(c) PROVE AppsUpToDate'
  <2> DEFINE x == [t |-> "data", to |-> apps, v |-> stored + 1, by |-> c]
  <2>1. /\ stored' = stored + 1 /\ stored < MaxData /\ clean' = [a \in Apps |-> stage[a] # "replay"]
        /\ apps # {} => ready' = Append(ready, x)
        /\ UNCHANGED <<stage, closed, apps, loaded, shown>>
    BY <1>14 DEF CarData
  <2>2. stored + 1 \in 0..MaxData
    BY <1>0, <2>1
  <2>3. x \in TaskRecords /\ x.t = "data" /\ x.to = apps /\ x.v = stored'
    BY <2>1, <2>2, TasksMade
  <2> HIDE DEF x
  <2>4. ASSUME NEW a \in apps
        PROVE  DataCurrent(ready', a, stored') /\ ~NoData(ready', a) /\ ~(stage[a] = "replay" /\ clean'[a])
    <3>1. Carries(x, a)
      BY <2>3 DEF Carries
    <3>2. ready' = Append(ready, x)
      BY <2>1
    <3>q. QED  BY <1>0, <2>1, <2>3, <3>1, <3>2, AppendData
  <2>5. \A a \in Apps : shown[a] <= stored' /\ loaded[a] <= stored'
    BY <1>0, <1>2, <2>1
  <2>q. QED  BY <1>0, <2>1, <2>4, <2>5 DEF AppsUpToDate
<1>15. ASSUME NEW c \in Cars, CloseEnds(c) \/ \E n \in Codes : CarAnswers(c, n) PROVE AppsUpToDate'
  <2>1. UNCHANGED <<stage, apps, ready, stored, loaded, shown, clean>>
    BY <1>15 DEF CloseEnds, CarAnswers, data
  <2>q. QED  BY <1>4, <2>1
<1>16. ASSUME NEW k \in Commands,
              (\E n \in Codes : ForwardToCar(k, n)) \/ CommandReturns(k) \/ CommandTimesOut(k)
       PROVE  AppsUpToDate'
  <2>1. UNCHANGED <<stage, apps, ready, stored, loaded, shown, clean>>
    BY <1>16 DEF ForwardToCar, CommandReturns, CommandTimesOut, data
  <2>q. QED  BY <1>4, <2>1
<1>17. ASSUME UNCHANGED vars PROVE AppsUpToDate'
  <2>1. UNCHANGED <<stage, apps, ready, stored, loaded, shown, clean>>
    BY <1>17 DEF vars, data
  <2>q. QED  BY <1>4, <2>1
<1>q. QED
  BY <1>5, <1>6, <1>7, <1>8, <1>9, <1>10, <1>11, <1>12, <1>13, <1>14, <1>15, <1>16, <1>17
  DEF Next, Tasks, Handler

LEMMA QueueInit == Init => QueueInv /\ AppsTold /\ CarTold /\ AppsUpToDate
<1> SUFFICES ASSUME Init PROVE QueueInv /\ AppsTold /\ CarTold /\ AppsUpToDate
  OBVIOUS
<1>1. /\ ready = <<>> /\ <<>> \in Seq(TaskRecords) /\ Len(<<>>) = 0 /\ \A i \in 1..0 : FALSE
      /\ first = [c \in Conns |-> "none"] /\ stage = [c \in Conns |-> "new"] /\ apps = {} /\ car = NoConn
      /\ loaded = [a \in Apps |-> 0] /\ shown = [a \in Apps |-> 0] /\ stored = 0 /\ MaxData \in Nat
  BY V2Assumption DEF Init
<1>2. QueueInv
  BY <1>1 DEF QueueInv, Addressed
<1>3. AppsTold /\ CarTold
  BY <1>1 DEF AppsTold, CarTold, StatusCurrent
<1>4. AppsUpToDate
  BY <1>1 DEF AppsUpToDate
<1>q. QED  BY <1>2, <1>3, <1>4

-----------------------------------------------------------------------------
\* The types of the connections hold in every reachable state.
THEOREM ConnectionTypesInvariant == Spec => []ConnectionTypes
BY ConnectionTypesInit, ConnectionTypesStep, PTL DEF Spec

\* So does the invariant of the registrations, whoever connects, drops or is replaced.
THEOREM RegistrationsInvariant == Spec => []Registrations
BY RegistrationsInit, RegistrationsStep, ConnectionTypesInvariant, PTL DEF Spec

\* So does the invariant of the calls.
THEOREM CallsInvariant == Spec => []CallsInv
BY CallsInit, CallsStep, ConnectionTypesInvariant, PTL DEF Spec

\* The state keeps its types, whatever connections and commands there are.
THEOREM TypeCorrect == Spec => []TypeOK
<1>1. ConnectionTypes /\ CallsInv => TypeOK
  BY TypeHalves DEF CallsInv
<1> QED  BY ConnectionTypesInvariant, CallsInvariant, <1>1, PTL

\* An older connection's end never deregisters the newest car.
THEOREM NewestStaysRegistered == Spec => []NewestIsRegistered
BY RegistrationsInvariant, PTL DEF Registrations

\* No registration outlives its connection's handler.
THEOREM NoLeakedRegistration == Spec => []RegisteredIsServed
BY RegistrationsInvariant, PTL DEF Registrations

\* A command number is taken exactly while a call waits for its answer.
THEOREM PendingCommands == Spec => []PendingIsWaiting
BY CallsInvariant, PTL DEF CallsInv

\* The invariant of the event loop's queue and of what it will tell the peers, whatever
\* order connections, data and tasks come in.
THEOREM NoticesInvariant == Spec => [](QueueInv /\ AppsTold /\ CarTold /\ AppsUpToDate)
BY QueueInit, QueueStep, AppsToldStep, CarToldStep, UpToDateStep, ConnectionTypesInvariant,
   RegistrationsInvariant, PTL DEF Spec

\* Every peer hears MP-S first, and when the loop has nothing left to start every app knows
\* whether the car is there and the car how many apps are.
THEOREM StatusIsKnown == Spec => []PeersKnowStatus
<1>1. QueueInv /\ AppsTold /\ CarTold => PeersKnowStatus
  <2> SUFFICES ASSUME QueueInv, AppsTold, CarTold PROVE PeersKnowStatus
    OBVIOUS
  <2>1. \A c \in Conns : first[c] \in {"none", "MP-S"}
    BY DEF QueueInv
  <2>2. ASSUME ready = <<>>
        PROVE  NoStatus(ready) /\ (\A a \in apps : Untold(ready, a)) /\ ~CountDue(ready)
    <3>1. Len(ready) = 0
      BY <2>2
    <3>q. QED  BY <3>1 DEF NoStatus, Untold, CountDue
  <2>q. QED  BY <2>1, <2>2 DEF PeersKnowStatus, AppsTold, CarTold
<1>q. QED  BY <1>1, NoticesInvariant, PTL

\* An app shows the newest data when the loop has nothing left to start.
THEOREM NewestIsShown == Spec => []AppsShowNewest
<1>1. AppsUpToDate => AppsShowNewest
  <2> SUFFICES ASSUME AppsUpToDate, ready = <<>> PROVE \A a \in apps : NoData(ready, a)
    BY DEF AppsUpToDate, AppsShowNewest
  <2>1. Len(ready) = 0
    OBVIOUS
  <2>q. QED  BY <2>1 DEF NoData
<1>q. QED  BY <1>1, NoticesInvariant, PTL

(***************************************************************************)
(* The read loop                                                           *)
(***************************************************************************)
\* Every read of an unauthenticated connection began before the deadline.
Handshake == phase = "unauth" =>
    /\ at = "read"
    /\ age <= InitialAuth + wait
    /\ wait <= InitialAuth + Grace

\* While the handler reads, the read's own timer measures the silence.
Reading == phase \in Clients /\ at = "read" =>
    quiet <= wait /\ wait <= Timeout(phase) + Grace

\* While the handler is stuck in a send, no send completes, so last_seen measures the
\* silence, and it was not past the limit in the last pass of the idle check.
Stuck == phase \in Clients /\ at = "send" =>
    /\ peer = "stalled"
    /\ seen = quiet
    /\ writer = "open" => seen <= Timeout(phase) + check

\* The inductive invariant.
LoopInv == LoopTypeOK /\ Handshake /\ Reading /\ Stuck

\* Every timeout is a number of ticks.
LEMMA TimeoutType == \A p : Timeout(p) \in Nat
BY TimesAssumption DEF Timeout

\* A connection starts within its limits.
LEMMA LoopInitEstablishes == LoopInit => LoopInv
BY TimesAssumption DEF LoopInit, LoopInv, LoopTypeOK, Handshake, Reading, Stuck, Clients, Timeout

\* Every step of the loop, the idle check, the peer and the clock keeps it so.
LEMMA LoopNextPreserves == LoopInv /\ [LoopNext]_loopVars => LoopInv'
<1> SUFFICES ASSUME LoopInv, [LoopNext]_loopVars PROVE LoopInv'
  OBVIOUS
<1> USE TimesAssumption, TimeoutType DEF LoopInv, LoopTypeOK, Handshake, Reading, Stuck, Clients
<1>u. Timeout("unauth") = InitialAuth
  BY DEF Timeout
<1>1. CASE ReadBlank
  BY <1>1, <1>u DEF ReadBlank, Receives, NextRead, Drops
<1>2. CASE ReadRefused
  BY <1>2, <1>u DEF ReadRefused, Receives, NextRead, Drops
<1>3. CASE ReadProvisioning
  BY <1>3, <1>u DEF ReadProvisioning, Receives, NextRead, Drops
<1>4. CASE ReadMessage
  BY <1>4 DEF ReadMessage, Receives, Replies
<1>5. CASE \E p \in Clients : ReadHandshake(p)
  BY <1>5 DEF ReadHandshake, Receives, Replies
<1>6. CASE ReadTimesOut
  BY <1>6 DEF ReadTimesOut, Drops
<1>7. CASE EndOfInput
  BY <1>7 DEF EndOfInput, Drops
<1>8. CASE PeerEnds
  BY <1>8 DEF PeerEnds, Drops
<1>9. CASE IdleCheck
  BY <1>9 DEF IdleCheck
<1>10. CASE IdleCheckOthers
  BY <1>10 DEF IdleCheckOthers
<1>11. CASE OtherSends
  BY <1>11 DEF OtherSends
<1>12. CASE PeerStalls
  BY <1>12 DEF PeerStalls
<1>13. CASE PeerTakesData
  BY <1>13 DEF PeerTakesData
<1>14. CASE Tick
  BY <1>14, <1>u DEF Tick
<1>15. CASE UNCHANGED loopVars
  BY <1>15 DEF loopVars
<1>q. QED
  BY <1>1, <1>2, <1>3, <1>4, <1>5, <1>6, <1>7, <1>8, <1>9, <1>10, <1>11, <1>12, <1>13,
     <1>14, <1>15 DEF LoopNext

\* The strengthened invariant holds in every state of client_connection_handler.
THEOREM ReadLoopInvariant == LoopSpec => []LoopInv
BY LoopInitEstablishes, LoopNextPreserves, PTL DEF LoopSpec

\* Variables keep their types; in particular no more blank lines are taken than allowed.
THEOREM LoopTypeCorrect == LoopSpec => []LoopTypeOK
<1>1. LoopInv => LoopTypeOK
  BY DEF LoopInv
<1>q. QED
  BY <1>1, ReadLoopInvariant, PTL

\* For every TIMEOUT_TCP_INITIAL_AUTH an unauthenticated connection is given up within
\* its deadline and one read.
THEOREM WindowIsKept == LoopSpec => []AuthenticationWindow
<1>1. LoopInv => AuthenticationWindow
  BY TimesAssumption DEF LoopInv, LoopTypeOK, Handshake, AuthenticationWindow
<1>q. QED
  BY <1>1, ReadLoopInvariant, PTL

\* For every choice of the timeouts the read timeout and the idle check together close
\* an authenticated connection whose peer gives no sign of life.
THEOREM IdleConnectionsClose == LoopSpec => []IdleIsClosed
<1>1. LoopInv => IdleIsClosed
  BY TimesAssumption, TimeoutType
     DEF LoopInv, LoopTypeOK, Reading, Stuck, IdleIsClosed, IdleLimit, Clients
<1>q. QED
  BY <1>1, ReadLoopInvariant, PTL

(***************************************************************************)
(* The slots                                                               *)
(***************************************************************************)
Holding == {"arriving", "serving", "leaving"}
Counting == {"serving", "leaving"}
Waiting == {"arriving", "leaving"}

\* The inductive invariant: the accounts and the queue need each other, as a handler
\* that leaves the queue must be one that owns a slot.
LimitsInv == SlotsTypeOK /\ SlotsAccounted /\ CountsAccounted /\ QueueIsExact

\* The handlers with a slot, and those counted for an address, are finite sets.
LEMMA FiniteAccounts ==
    /\ IsFiniteSet(Holders) /\ Cardinality(Holders) \in Nat
    /\ \A i \in Ips : IsFiniteSet(Counted(i)) /\ Cardinality(Counted(i)) \in Nat
<1>1. IsFiniteSet(Holders)
  BY FS_Subset, LimitsAssumption DEF Holders
<1>2. \A i \in Ips : IsFiniteSet(Counted(i))
  BY FS_Subset, LimitsAssumption DEF Counted
<1>q. QED
  BY <1>1, <1>2, FS_CardinalityType

\* One handler's step changes the number of slots in use by at most its own.
LEMMA SlotsOfStep ==
    ASSUME SlotsTypeOK, NEW c \in Sockets, NEW s \in SlotStages, handler' = [handler EXCEPT ![c] = s]
    PROVE  Cardinality(Holders') = Cardinality(Holders)
              + (IF s \in Holding THEN 1 ELSE 0) - (IF handler[c] \in Holding THEN 1 ELSE 0)
<1>1. CASE s \in Holding
  <2>1. Holders' = Holders \cup {c}
    BY <1>1 DEF SlotsTypeOK, Holders, Holding
  <2>2. c \in Holders <=> handler[c] \in Holding
    BY DEF Holders, Holding
  <2>3. IsFiniteSet(Holders) /\ Cardinality(Holders) \in Nat
    BY FiniteAccounts
  <2>4. Cardinality(Holders \cup {c}) =
          IF c \in Holders THEN Cardinality(Holders) ELSE Cardinality(Holders) + 1
    BY <2>3, FS_AddElement
  <2>q. QED
    BY <1>1, <2>1, <2>2, <2>3, <2>4
<1>2. CASE s \notin Holding
  <2>1. Holders' = Holders \ {c}
    BY <1>2 DEF SlotsTypeOK, Holders, Holding
  <2>2. c \in Holders <=> handler[c] \in Holding
    BY DEF Holders, Holding
  <2>3. IsFiniteSet(Holders) /\ Cardinality(Holders) \in Nat
    BY FiniteAccounts
  <2>4. Cardinality(Holders \ {c}) =
          IF c \in Holders THEN Cardinality(Holders) - 1 ELSE Cardinality(Holders)
    BY <2>3, FS_RemoveElement
  <2>q. QED
    BY <1>2, <2>1, <2>2, <2>3, <2>4
<1>q. QED
  BY <1>1, <1>2

\* It changes the number of connections served for its own address by at most one.
LEMMA CountOfStep ==
    ASSUME SlotsTypeOK, NEW c \in Sockets, NEW s \in SlotStages, handler' = [handler EXCEPT ![c] = s]
    PROVE  Cardinality(Counted(Ip[c])') = Cardinality(Counted(Ip[c]))
              + (IF s \in Counting THEN 1 ELSE 0) - (IF handler[c] \in Counting THEN 1 ELSE 0)
<1> DEFINE i == Ip[c]
<1>0. i \in Ips
  BY LimitsAssumption
<1>1. CASE s \in Counting
  <2>1. Counted(i)' = Counted(i) \cup {c}
    BY <1>1 DEF SlotsTypeOK, Counted, Counting
  <2>2. c \in Counted(i) <=> handler[c] \in Counting
    BY DEF Counted, Counting
  <2>3. IsFiniteSet(Counted(i)) /\ Cardinality(Counted(i)) \in Nat
    BY <1>0, FiniteAccounts
  <2>4. Cardinality(Counted(i) \cup {c}) =
          IF c \in Counted(i) THEN Cardinality(Counted(i)) ELSE Cardinality(Counted(i)) + 1
    BY <2>3, FS_AddElement
  <2>q. QED
    BY <1>1, <2>1, <2>2, <2>3, <2>4
<1>2. CASE s \notin Counting
  <2>1. Counted(i)' = Counted(i) \ {c}
    BY <1>2 DEF SlotsTypeOK, Counted, Counting
  <2>2. c \in Counted(i) <=> handler[c] \in Counting
    BY DEF Counted, Counting
  <2>3. IsFiniteSet(Counted(i)) /\ Cardinality(Counted(i)) \in Nat
    BY <1>0, FiniteAccounts
  <2>4. Cardinality(Counted(i) \ {c}) =
          IF c \in Counted(i) THEN Cardinality(Counted(i)) - 1 ELSE Cardinality(Counted(i))
    BY <2>3, FS_RemoveElement
  <2>q. QED
    BY <1>2, <2>1, <2>2, <2>3, <2>4
<1>q. QED
  BY <1>1, <1>2

\* Other addresses do not notice.
LEMMA CountOfOthers ==
    ASSUME SlotsTypeOK, NEW c \in Sockets, NEW s \in SlotStages, handler' = [handler EXCEPT ![c] = s],
           NEW i \in Ips, i # Ip[c]
    PROVE  Counted(i)' = Counted(i)
BY DEF SlotsTypeOK, Counted

\* What a step must do to the accounts, in one place: c goes to stage s, the semaphore
\* and c's count change as c's ownership does.
LEMMA AccountsOfStep ==
    ASSUME LimitsInv, NEW c \in Sockets, NEW s \in SlotStages,
           handler' = [handler EXCEPT ![c] = s],
           sem' = sem - (IF s \in Holding THEN 1 ELSE 0)
                      + (IF handler[c] \in Holding THEN 1 ELSE 0),
           NEW n \in Int, n = count[Ip[c]] + (IF s \in Counting THEN 1 ELSE 0)
                                - (IF handler[c] \in Counting THEN 1 ELSE 0),
           count' = [count EXCEPT ![Ip[c]] = n], n <= MaxPerIp
    PROVE  /\ sem' \in Int /\ sem' <= MaxTotal
           /\ count' \in [Ips -> 0..MaxPerIp]
           /\ SlotsAccounted' /\ CountsAccounted'
<1> USE LimitsAssumption DEF LimitsInv
<1>0. Ip[c] \in Ips /\ sem \in Int /\ count \in [Ips -> Nat]
  <2>1. Ip[c] \in Ips
    OBVIOUS
  <2>2. sem \in Int
    BY DEF SlotsTypeOK
  <2>3. count \in [Ips -> Nat]
    <3>1. count \in [Ips -> 0..MaxPerIp]
      BY DEF SlotsTypeOK
    <3>q. QED
      BY <3>1
  <2>q. QED
    BY <2>1, <2>2, <2>3
<1>1. SlotsAccounted'
  <2>1. Cardinality(Holders') = Cardinality(Holders)
          + (IF s \in Holding THEN 1 ELSE 0) - (IF handler[c] \in Holding THEN 1 ELSE 0)
    BY SlotsOfStep
  <2> DEFINE x == IF s \in Holding THEN 1 ELSE 0
             y == IF handler[c] \in Holding THEN 1 ELSE 0
  <2>2. x \in Int /\ y \in Int
    OBVIOUS
  <2>3. sem' + Cardinality(Holders') = sem + Cardinality(Holders)
    <3> HIDE DEF x, y
    <3>1. sem' = sem - x + y /\ Cardinality(Holders') = Cardinality(Holders) + x - y
      BY <2>1 DEF x, y
    <3>q. QED
      BY <3>1, <2>2, <1>0, FiniteAccounts
  <2>q. QED
    BY <2>3 DEF SlotsAccounted
<1>2. CountsAccounted'
  <2> SUFFICES ASSUME NEW i \in Ips PROVE count'[i] = Cardinality(Counted(i)')
    BY DEF CountsAccounted
  <2>1. CASE i = Ip[c]
    <3>1. count'[i] = n
      BY <2>1, <1>0
    <3>2. count[i] = Cardinality(Counted(i))
      BY DEF CountsAccounted
    <3>3. Cardinality(Counted(Ip[c])') = Cardinality(Counted(Ip[c]))
            + (IF s \in Counting THEN 1 ELSE 0) - (IF handler[c] \in Counting THEN 1 ELSE 0)
      BY CountOfStep
    <3>q. QED
      BY <2>1, <3>1, <3>2, <3>3
  <2>2. CASE i # Ip[c]
    BY <2>2, <1>0, CountOfOthers DEF CountsAccounted
  <2>q. QED
    BY <2>1, <2>2
<1>3. n >= 0
  <2>1. Cardinality(Counted(Ip[c])') = Cardinality(Counted(Ip[c]))
          + (IF s \in Counting THEN 1 ELSE 0) - (IF handler[c] \in Counting THEN 1 ELSE 0)
    BY CountOfStep
  <2>2. count[Ip[c]] = Cardinality(Counted(Ip[c]))
    BY <1>0 DEF CountsAccounted
  <2>3. \A T \in SUBSET Sockets : Cardinality(T) \in Nat
    BY FS_Subset, FS_CardinalityType
  <2>4. Counted(Ip[c])' \in SUBSET Sockets
    BY DEF Counted
  <2>q. QED
    BY <2>1, <2>2, <2>3, <2>4
<1>4. count' \in [Ips -> 0..MaxPerIp]
  BY <1>0, <1>3 DEF SlotsTypeOK
<1>5. sem' \in Int /\ sem' <= MaxTotal
  <2>1. \A T \in SUBSET Sockets : Cardinality(T) \in Nat
    BY FS_Subset, FS_CardinalityType
  <2>2. Holders' \in SUBSET Sockets
    BY DEF Holders
  <2>3. sem' \in Int
    BY <1>0
  <2>q. QED
    BY <1>1, <2>1, <2>2, <2>3 DEF SlotsAccounted
<1>q. QED
  BY <1>1, <1>2, <1>4, <1>5

\* A handler that begins to wait is appended to the queue, where it was not.
LEMMA QueueAppend ==
    ASSUME SlotsTypeOK, QueueIsExact, NEW c \in Sockets, NEW s \in Waiting,
           handler[c] \in {"new", "serving"}, handler' = [handler EXCEPT ![c] = s],
           queue' = Append(queue, c), lock' = lock
    PROVE  queue' \in Seq(Sockets) /\ QueueIsExact'
<1>1. queue' \in Seq(Sockets) /\ Len(queue') = Len(queue) + 1
  BY DEF SlotsTypeOK
<1>2. \A k \in DOMAIN queue : queue'[k] = queue[k] /\ queue[k] # c
  BY DEF SlotsTypeOK, QueueIsExact
<1>3. queue'[Len(queue) + 1] = c /\ DOMAIN queue' = DOMAIN queue \cup {Len(queue) + 1}
  BY DEF SlotsTypeOK
<1>4. \A d \in Sockets : handler'[d] \in Waiting <=> handler[d] \in Waiting \/ d = c
  BY DEF SlotsTypeOK, Waiting
<1>5. \A d \in Sockets : handler'[d] \in Waiting <=> \E k \in DOMAIN queue' : queue'[k] = d
  BY <1>2, <1>3, <1>4 DEF QueueIsExact, Waiting
<1>6. \A j, k \in DOMAIN queue' : queue'[j] = queue'[k] => j = k
  BY <1>2, <1>3 DEF QueueIsExact
<1>7. \A d \in Sockets : handler'[d] = "refusing" <=> lock' = d
  BY DEF SlotsTypeOK, QueueIsExact, Waiting
<1>q. QED
  BY <1>1, <1>5, <1>6, <1>7 DEF QueueIsExact, Waiting

\* The handler that gets the lock leaves the head of the queue.
LEMMA QueueTail ==
    ASSUME SlotsTypeOK, QueueIsExact, NEW c \in Sockets, NEW s \in SlotStages \ Waiting,
           IsWoken(c), handler[c] \in Waiting, handler' = [handler EXCEPT ![c] = s],
           queue' = Tail(queue), lock' = IF s = "refusing" THEN c ELSE lock
    PROVE  queue' \in Seq(Sockets) /\ QueueIsExact'
<1> USE DEF IsWoken
<1>1. queue' \in Seq(Sockets) /\ Len(queue') = Len(queue) - 1 /\ Len(queue) > 0
  BY DEF SlotsTypeOK
<1>2. \A k \in DOMAIN queue' : k + 1 \in DOMAIN queue /\ queue'[k] = queue[k + 1]
  BY DEF SlotsTypeOK
<1>3. 1 \in DOMAIN queue /\ queue[1] = c
  BY DEF SlotsTypeOK
<1>4. \A k \in DOMAIN queue : k # 1 => k - 1 \in DOMAIN queue' /\ queue'[k - 1] = queue[k]
  BY DEF SlotsTypeOK
<1>5. \A d \in Sockets : handler'[d] \in Waiting <=> handler[d] \in Waiting /\ d # c
  BY DEF SlotsTypeOK
<1>6. \A k \in DOMAIN queue' : queue'[k] # c /\ k \in Nat
  BY <1>1, <1>2, <1>3 DEF QueueIsExact, SlotsTypeOK
<1>7. \A d \in Sockets : handler'[d] \in Waiting <=> \E k \in DOMAIN queue' : queue'[k] = d
  <2> SUFFICES ASSUME NEW d \in Sockets
               PROVE  handler'[d] \in Waiting <=> \E k \in DOMAIN queue' : queue'[k] = d
    OBVIOUS
  <2>1. ASSUME NEW k \in DOMAIN queue', queue'[k] = d PROVE handler'[d] \in Waiting
    BY <2>1, <1>2, <1>5, <1>6 DEF QueueIsExact, Waiting
  <2>2. ASSUME handler'[d] \in Waiting PROVE \E k \in DOMAIN queue' : queue'[k] = d
    <3>1. PICK k \in DOMAIN queue : queue[k] = d
      BY <2>2, <1>5 DEF QueueIsExact, Waiting
    <3>2. k # 1
      BY <3>1, <1>3, <2>2, <1>5
    <3>q. QED
      BY <3>1, <3>2, <1>4
  <2>q. QED
    BY <2>1, <2>2
<1>8. \A j, k \in DOMAIN queue' : queue'[j] = queue'[k] => j = k
  BY <1>2, <1>6 DEF QueueIsExact
<1>9. \A d \in Sockets : handler'[d] = "refusing" <=> lock' = d
  BY LimitsAssumption DEF SlotsTypeOK, QueueIsExact, Waiting
<1>q. QED
  BY <1>1, <1>7, <1>8, <1>9 DEF QueueIsExact, Waiting

\* A step by a handler that neither waits before nor after leaves the queue right.
LEMMA QueueUnchanged ==
    ASSUME SlotsTypeOK, QueueIsExact, NEW c \in Sockets, NEW s \in SlotStages \ Waiting,
           handler[c] \notin Waiting, handler' = [handler EXCEPT ![c] = s], queue' = queue,
           lock' = IF s = "refusing" THEN c
                   ELSE IF handler[c] = "refusing" THEN NoSocket ELSE lock,
           s = "refusing" => lock = NoSocket
    PROVE  QueueIsExact'
<1>1. \A d \in Sockets : handler'[d] \in Waiting <=> handler[d] \in Waiting
  BY DEF SlotsTypeOK
<1>2. \A d \in Sockets : handler'[d] = "refusing" <=> lock' = d
  BY LimitsAssumption DEF SlotsTypeOK, QueueIsExact, Waiting
<1>q. QED
  BY <1>1, <1>2 DEF QueueIsExact, Waiting

\* The server starts with every slot free and an empty table.
LEMMA SlotsInitEstablishes == SlotsInit => LimitsInv
<1> SUFFICES ASSUME SlotsInit PROVE LimitsInv
  OBVIOUS
<1> USE LimitsAssumption DEF SlotsInit
<1>1. SlotsTypeOK
  BY DEF SlotsTypeOK, SlotStages
<1>2. Holders = {} /\ \A i \in Ips : Counted(i) = {}
  BY DEF Holders, Counted
<1>3. SlotsAccounted /\ CountsAccounted
  <2>1. Cardinality({}) = 0
    BY FS_EmptySet
  <2>2. Cardinality(Holders) = 0 /\ \A i \in Ips : Cardinality(Counted(i)) = 0
    BY <1>2, <2>1
  <2>3. MaxTotal \in Nat
    OBVIOUS
  <2>q. QED
    BY <2>2, <2>3 DEF SlotsAccounted, CountsAccounted
<1>4. QueueIsExact
  BY DEF QueueIsExact
<1>q. QED
  BY <1>1, <1>3, <1>4 DEF LimitsInv

\* The test under the lock keeps the accounts for a handler that takes its slot in the
\* same step, and for one that took it before it waited.
LEMMA CheckIpKeeps ==
    ASSUME LimitsInv, NEW c \in Sockets, NEW free \in Nat, CheckIp(c, free),
           \/ handler[c] = "new" /\ free = sem - 1
           \/ handler[c] = "arriving" /\ free = sem
    PROVE  \E s \in {"refusing", "serving"} :
              /\ handler' = [handler EXCEPT ![c] = s]
              /\ lock' = IF s = "refusing" THEN c ELSE lock
              /\ sem' \in 0..MaxTotal /\ count' \in [Ips -> 0..MaxPerIp]
              /\ SlotsAccounted' /\ CountsAccounted'
<1> USE LimitsAssumption DEF LimitsInv
<1>0. /\ Ip[c] \in Ips /\ count[Ip[c]] \in 0..MaxPerIp /\ sem \in Int
      /\ count \in [Ips -> 0..MaxPerIp]
  BY DEF SlotsTypeOK
<1>1. CASE count[Ip[c]] >= MaxPerIp
  <2>1. /\ handler' = [handler EXCEPT ![c] = "refusing"] /\ sem' = free + 1 /\ lock' = c
        /\ count' = count
    BY <1>0, <1>1 DEF CheckIp
  <2>2. count' = [count EXCEPT ![Ip[c]] = count[Ip[c]]]
    BY <1>0, <2>1
  <2>3. sem' = sem - (IF "refusing" \in Holding THEN 1 ELSE 0)
                   + (IF handler[c] \in Holding THEN 1 ELSE 0)
    BY <1>0, <2>1 DEF Holding
  <2>4. count[Ip[c]] = count[Ip[c]] + (IF "refusing" \in Counting THEN 1 ELSE 0)
                          - (IF handler[c] \in Counting THEN 1 ELSE 0)
    BY <1>0 DEF Counting
  <2>5. "refusing" \in SlotStages /\ count[Ip[c]] \in Int /\ count[Ip[c]] <= MaxPerIp
    BY <1>0 DEF SlotStages
  <2>6. /\ sem' <= MaxTotal /\ count' \in [Ips -> 0..MaxPerIp]
        /\ SlotsAccounted' /\ CountsAccounted'
    BY <2>1, <2>2, <2>3, <2>4, <2>5, AccountsOfStep
  <2>q. QED
    BY <2>1, <2>6
<1>2. CASE count[Ip[c]] < MaxPerIp
  <2> DEFINE n == count[Ip[c]] + 1
  <2>1. /\ handler' = [handler EXCEPT ![c] = "serving"] /\ sem' = free /\ lock' = lock
        /\ count' = [count EXCEPT ![Ip[c]] = n]
    BY <1>0, <1>2 DEF CheckIp
  <2>3. sem' = sem - (IF "serving" \in Holding THEN 1 ELSE 0)
                   + (IF handler[c] \in Holding THEN 1 ELSE 0)
    BY <1>0, <2>1 DEF Holding
  <2>4. n = count[Ip[c]] + (IF "serving" \in Counting THEN 1 ELSE 0)
                          - (IF handler[c] \in Counting THEN 1 ELSE 0)
    BY <1>0 DEF Counting
  <2>5. "serving" \in SlotStages /\ n \in Int /\ n <= MaxPerIp
    BY <1>0, <1>2 DEF SlotStages
  <2>6. /\ sem' <= MaxTotal /\ count' \in [Ips -> 0..MaxPerIp]
        /\ SlotsAccounted' /\ CountsAccounted'
    <3> HIDE DEF n
    <3>q. QED
      BY <2>1, <2>3, <2>4, <2>5, AccountsOfStep
  <2>q. QED
    BY <2>1, <2>6
<1>q. QED
  BY <1>0, <1>1, <1>2

\* A released slot was owned, and the address's count was not zero.
LEMMA ReleaseKeeps ==
    ASSUME LimitsInv, NEW c \in Sockets, handler[c] \in Counting, Release(c)
    PROVE  /\ sem' \in 0..MaxTotal /\ count' \in [Ips -> 0..MaxPerIp]
           /\ SlotsAccounted' /\ CountsAccounted'
<1> USE LimitsAssumption DEF LimitsInv
<1>0. /\ Ip[c] \in Ips /\ count[Ip[c]] \in 0..MaxPerIp /\ sem \in 0..MaxTotal
      /\ count \in [Ips -> 0..MaxPerIp]
  BY DEF SlotsTypeOK
<1>1. count[Ip[c]] > 0
  <2>1. c \in Counted(Ip[c])
    BY DEF Counted, Counting
  <2>2. Cardinality(Counted(Ip[c])) # 0
    BY <1>0, <2>1, FiniteAccounts, FS_EmptySet
  <2>q. QED
    BY <1>0, <2>2 DEF CountsAccounted
<1> DEFINE n == count[Ip[c]] - 1
<1>2. /\ handler' = [handler EXCEPT ![c] = "over"] /\ sem' = sem + 1
      /\ count' = [count EXCEPT ![Ip[c]] = n]
  BY <1>0, <1>1 DEF Release
<1>3. sem' = sem - (IF "over" \in Holding THEN 1 ELSE 0)
                 + (IF handler[c] \in Holding THEN 1 ELSE 0)
  BY <1>0, <1>2 DEF Holding, Counting
<1>4. n = count[Ip[c]] + (IF "over" \in Counting THEN 1 ELSE 0)
                        - (IF handler[c] \in Counting THEN 1 ELSE 0)
  BY <1>0 DEF Counting
<1>5. "over" \in SlotStages /\ n \in Int /\ n <= MaxPerIp
  BY <1>0 DEF SlotStages
<1>6. /\ sem' <= MaxTotal /\ count' \in [Ips -> 0..MaxPerIp]
      /\ SlotsAccounted' /\ CountsAccounted'
  <2> HIDE DEF n
  <2>q. QED
    BY <1>2, <1>3, <1>4, <1>5, AccountsOfStep
<1>q. QED
  BY <1>0, <1>2, <1>6

\* A step that moves a handler between stages with the same claims changes no account.
LEMMA MoveKeeps ==
    ASSUME LimitsInv, NEW c \in Sockets, NEW s \in SlotStages,
           handler' = [handler EXCEPT ![c] = s], sem' = sem, count' = count,
           s \in Holding <=> handler[c] \in Holding,
           s \in Counting <=> handler[c] \in Counting
    PROVE  SlotsAccounted' /\ CountsAccounted'
<1>1. Holders' = Holders
  BY DEF LimitsInv, SlotsTypeOK, Holders, Holding
<1>2. \A i \in Ips : Counted(i)' = Counted(i)
  BY DEF LimitsInv, SlotsTypeOK, Counted, Counting
<1>q. QED
  BY <1>1, <1>2 DEF LimitsInv, SlotsAccounted, CountsAccounted

\* Every step of a handler keeps accounts and queue right.
LEMMA SlotsNextPreserves == LimitsInv /\ [SlotsNext]_slotVars => LimitsInv'
<1> SUFFICES ASSUME LimitsInv, [SlotsNext]_slotVars PROVE LimitsInv'
  OBVIOUS
<1>0. /\ SlotsTypeOK /\ SlotsAccounted /\ CountsAccounted /\ QueueIsExact
      /\ sem \in Nat /\ lock \in Sockets \cup {NoSocket}
  BY LimitsAssumption DEF LimitsInv, SlotsTypeOK
<1>1. ASSUME NEW c \in Sockets, Refuse(c) PROVE LimitsInv'
  <2> DEFINE s == "over"
  <2>1. handler' = [handler EXCEPT ![c] = s] /\ UNCHANGED <<sem, count, lock, queue>>
        /\ handler[c] = "new"
    BY <1>1 DEF Refuse
  <2>2. s \in SlotStages \ Waiting /\ s \notin Holding /\ s \notin Counting
    BY DEF SlotStages, Waiting, Holding, Counting
  <2>3. SlotsAccounted' /\ CountsAccounted'
    BY <2>1, <2>2, MoveKeeps DEF Holding, Counting
  <2>4. QueueIsExact'
    BY <1>0, <2>1, <2>2, QueueUnchanged DEF Waiting
  <2>5. SlotsTypeOK'
    BY <1>0, <2>1, <2>2 DEF SlotsTypeOK
  <2>q. QED
    BY <2>3, <2>4, <2>5 DEF LimitsInv
<1>2. ASSUME NEW c \in Sockets, Accept(c) PROVE LimitsInv'
  <2>0. handler[c] = "new" /\ sem - 1 \in Nat
    BY <1>0, <1>2 DEF Accept
  <2>1. CASE LockIsFree /\ CheckIp(c, sem - 1) /\ queue' = queue
    <3>1. PICK s \in {"refusing", "serving"} :
             /\ handler' = [handler EXCEPT ![c] = s]
             /\ lock' = IF s = "refusing" THEN c ELSE lock
             /\ sem' \in 0..MaxTotal /\ count' \in [Ips -> 0..MaxPerIp]
             /\ SlotsAccounted' /\ CountsAccounted'
      BY <2>0, <2>1, CheckIpKeeps
    <3>2. s \in SlotStages \ Waiting
      BY DEF SlotStages, Waiting
    <3>3. QueueIsExact'
      BY <1>0, <2>0, <2>1, <3>1, <3>2, QueueUnchanged DEF Waiting, LockIsFree
    <3>4. SlotsTypeOK'
      BY <1>0, <2>1, <3>1, <3>2 DEF SlotsTypeOK
    <3>q. QED
      BY <3>1, <3>3, <3>4 DEF LimitsInv
  <2>2. CASE /\ handler' = [handler EXCEPT ![c] = "arriving"]
             /\ sem' = sem - 1 /\ queue' = Append(queue, c)
             /\ UNCHANGED <<count, lock>>
    <3>1. queue' \in Seq(Sockets) /\ QueueIsExact'
      BY <1>0, <2>0, <2>2, QueueAppend DEF Waiting
    <3>2. Ip[c] \in Ips /\ count[Ip[c]] \in 0..MaxPerIp /\ count \in [Ips -> 0..MaxPerIp]
      BY <1>0, LimitsAssumption DEF SlotsTypeOK
    <3>3. count' = [count EXCEPT ![Ip[c]] = count[Ip[c]]]
      BY <2>2, <3>2
    <3>4. sem' = sem - (IF "arriving" \in Holding THEN 1 ELSE 0)
                     + (IF handler[c] \in Holding THEN 1 ELSE 0)
      BY <1>0, <2>0, <2>2 DEF Holding
    <3>5. count[Ip[c]] = count[Ip[c]] + (IF "arriving" \in Counting THEN 1 ELSE 0)
                            - (IF handler[c] \in Counting THEN 1 ELSE 0)
      BY <2>0, <3>2 DEF Counting
    <3>6. "arriving" \in SlotStages /\ count[Ip[c]] \in Int /\ count[Ip[c]] <= MaxPerIp
      BY <3>2, LimitsAssumption DEF SlotStages
    <3>7. SlotsAccounted' /\ CountsAccounted' /\ sem' <= MaxTotal
      BY <2>2, <3>3, <3>4, <3>5, <3>6, AccountsOfStep
    <3>8. SlotsTypeOK'
      BY <1>0, <2>0, <2>2, <3>1, <3>6, <3>7, LimitsAssumption DEF SlotsTypeOK
    <3>q. QED
      BY <3>1, <3>7, <3>8 DEF LimitsInv
  <2>q. QED
    BY <1>2, <2>1, <2>2 DEF Accept
<1>3. ASSUME NEW c \in Sockets, Admit(c) PROVE LimitsInv'
  <2>0. handler[c] = "arriving" /\ IsWoken(c) /\ queue' = Tail(queue) /\ CheckIp(c, sem)
    BY <1>3 DEF Admit
  <2>1. PICK s \in {"refusing", "serving"} :
           /\ handler' = [handler EXCEPT ![c] = s]
           /\ lock' = IF s = "refusing" THEN c ELSE lock
           /\ sem' \in 0..MaxTotal /\ count' \in [Ips -> 0..MaxPerIp]
           /\ SlotsAccounted' /\ CountsAccounted'
    BY <1>0, <2>0, CheckIpKeeps
  <2>2. s \in SlotStages \ Waiting
    BY DEF SlotStages, Waiting
  <2>3. queue' \in Seq(Sockets) /\ QueueIsExact'
    BY <1>0, <2>0, <2>1, <2>2, QueueTail DEF Waiting
  <2>4. SlotsTypeOK'
    BY <1>0, <2>1, <2>2, <2>3 DEF SlotsTypeOK
  <2>q. QED
    BY <2>1, <2>3, <2>4 DEF LimitsInv
<1>4. ASSUME NEW c \in Sockets, RefusedCloses(c) PROVE LimitsInv'
  <2>1. /\ handler[c] = "refusing" /\ handler' = [handler EXCEPT ![c] = "over"]
        /\ lock' = NoSocket /\ UNCHANGED <<sem, count, queue>>
    BY <1>4 DEF RefusedCloses
  <2>2. "over" \in SlotStages \ Waiting
    BY DEF SlotStages, Waiting
  <2>3. SlotsAccounted' /\ CountsAccounted'
    BY <2>1, <2>2, MoveKeeps DEF Holding, Counting
  <2>4. QueueIsExact'
    BY <1>0, <2>1, <2>2, QueueUnchanged DEF Waiting
  <2>5. SlotsTypeOK'
    BY <1>0, <2>1, <2>2 DEF SlotsTypeOK
  <2>q. QED
    BY <2>3, <2>4, <2>5 DEF LimitsInv
<1>5. ASSUME NEW c \in Sockets, LeaveLoop(c) PROVE LimitsInv'
  <2>0. handler[c] = "serving"
    BY <1>5 DEF LeaveLoop
  <2>1. CASE LockIsFree /\ Release(c) /\ queue' = queue
    <3>1. handler' = [handler EXCEPT ![c] = "over"] /\ lock' = lock
      BY <2>1 DEF Release
    <3>2. /\ sem' \in 0..MaxTotal /\ count' \in [Ips -> 0..MaxPerIp]
          /\ SlotsAccounted' /\ CountsAccounted'
      BY <2>0, <2>1, ReleaseKeeps DEF Counting
    <3>3. "over" \in SlotStages \ Waiting
      BY DEF SlotStages, Waiting
    <3>4. QueueIsExact'
      BY <1>0, <2>0, <2>1, <3>1, <3>3, QueueUnchanged DEF Waiting
    <3>5. SlotsTypeOK'
      BY <1>0, <2>1, <3>1, <3>2, <3>3 DEF SlotsTypeOK
    <3>q. QED
      BY <3>2, <3>4, <3>5 DEF LimitsInv
  <2>2. CASE /\ handler' = [handler EXCEPT ![c] = "leaving"] /\ queue' = Append(queue, c)
             /\ UNCHANGED <<sem, count, lock>>
    <3>1. "leaving" \in SlotStages
      BY DEF SlotStages
    <3>2. SlotsAccounted' /\ CountsAccounted'
      BY <2>0, <2>2, <3>1, MoveKeeps DEF Holding, Counting
    <3>3. queue' \in Seq(Sockets) /\ QueueIsExact'
      BY <1>0, <2>0, <2>2, QueueAppend DEF Waiting
    <3>4. SlotsTypeOK'
      BY <1>0, <2>2, <3>1, <3>3 DEF SlotsTypeOK
    <3>q. QED
      BY <3>2, <3>3, <3>4 DEF LimitsInv
  <2>q. QED
    BY <1>5, <2>1, <2>2 DEF LeaveLoop
<1>6. ASSUME NEW c \in Sockets, Left(c) PROVE LimitsInv'
  <2>0. handler[c] = "leaving" /\ IsWoken(c) /\ queue' = Tail(queue) /\ Release(c)
    BY <1>6 DEF Left
  <2>1. handler' = [handler EXCEPT ![c] = "over"] /\ lock' = lock
    BY <2>0 DEF Release
  <2>2. /\ sem' \in 0..MaxTotal /\ count' \in [Ips -> 0..MaxPerIp]
        /\ SlotsAccounted' /\ CountsAccounted'
    BY <2>0, ReleaseKeeps DEF Counting
  <2>3. "over" \in SlotStages \ Waiting
    BY DEF SlotStages, Waiting
  <2>4. queue' \in Seq(Sockets) /\ QueueIsExact'
    BY <1>0, <2>0, <2>1, <2>3, QueueTail DEF Waiting
  <2>5. SlotsTypeOK'
    BY <1>0, <2>1, <2>2, <2>3, <2>4 DEF SlotsTypeOK
  <2>q. QED
    BY <2>2, <2>4, <2>5 DEF LimitsInv
<1>7. CASE UNCHANGED slotVars
  <2>1. SlotsTypeOK' /\ QueueIsExact'
    BY <1>0, <1>7 DEF slotVars, SlotsTypeOK, QueueIsExact
  <2>2. SlotsAccounted' /\ CountsAccounted'
    BY <1>0, <1>7 DEF slotVars, SlotsAccounted, CountsAccounted, Holders, Counted
  <2>q. QED
    BY <2>1, <2>2 DEF LimitsInv
<1>q. QED
  BY <1>1, <1>2, <1>3, <1>4, <1>5, <1>6, <1>7 DEF SlotsNext

\* The accounts and the queue are right in every state of the handlers.
THEOREM LimitsInvariant == SlotsSpec => []LimitsInv
BY SlotsInitEstablishes, SlotsNextPreserves, PTL DEF SlotsSpec

\* Neither limit is ever exceeded, and neither counter leaves its range.
THEOREM WithinLimits == SlotsSpec => []SlotsTypeOK
<1>1. LimitsInv => SlotsTypeOK
  BY DEF LimitsInv
<1>q. QED
  BY <1>1, LimitsInvariant, PTL

\* No semaphore slot is lost or given back twice, for any number of connections.
THEOREM NoSlotLeaks == SlotsSpec => []SlotsAccounted
<1>1. LimitsInv => SlotsAccounted
  BY DEF LimitsInv
<1>q. QED
  BY <1>1, LimitsInvariant, PTL

\* The table counts exactly the connections that are being served.
THEOREM CountsAreRight == SlotsSpec => []CountsAccounted
<1>1. LimitsInv => CountsAccounted
  BY DEF LimitsInv
<1>q. QED
  BY <1>1, LimitsInvariant, PTL

\* Handlers wait for the lock in one place of its queue, and it is held only while a
\* refused socket closes.
THEOREM NoAbandonedLock == SlotsSpec => []QueueIsExact
<1>1. LimitsInv => QueueIsExact
  BY DEF LimitsInv
<1>q. QED
  BY <1>1, LimitsInvariant, PTL
=============================================================================
