---------------------------- MODULE V2Connections ----------------------------
(***************************************************************************)
(* The V2 (TCP) connections of one vehicle: app/connection_manager.py, the *)
(* handshake of app/protocols/v2/auth.py, the read loop's end in           *)
(* app/tcp_server.py and the car and app handlers of                       *)
(* app/protocols/v2/handlers.py.                                           *)
(*                                                                         *)
(* Everything runs on one event loop: an action is what happens between    *)
(* two awaits.  `ready' is the loop's queue of tasks made by create_task() *)
(* and gather(), which start in the order they were made; a connection's   *)
(* handler runs whenever its peer or its timers wake it.  Connections are  *)
(* for the same vehicle and never reused; a car is a module's connection.  *)
(***************************************************************************)
EXTENDS Naturals, Sequences, FiniteSets

CONSTANTS
    Cars, Apps,        \* connections
    Commands, Codes,   \* calls of forward_to_car() and the command numbers they use
    MaxData,           \* bound on the data messages a car sends
    NoConn, NoCmd

ASSUME V2Assumption ==
    /\ Cars \cap Apps = {} /\ NoConn \notin Cars \cup Apps /\ NoCmd \notin Commands
    /\ IsFiniteSet(Apps)
    /\ MaxData \in Nat

Conns == Cars \cup Apps

VARIABLES
    stage,         \* where each connection's handler is
    closed,        \* writer.is_closing()
    closing,       \* cars whose close() waits in wait_closed(); an app has nothing to cancel after it
    car, apps,     \* car_connections[vid], app_connections[vid]
    ready,         \* tasks the event loop has still to start
    first, lastZ,  \* what the peer got: its first line, its latest Z ({} before the first)
    stored, loaded, shown, clean,   \* vehicle data: in the database, read for a replay, on
                                    \* the app's screen; no data came during the replay
    futures, cmd,  \* command_futures of each car, and the calls waiting on them
    newest         \* history: the latest car registered

peers == <<first, lastZ>>
data  == <<stored, loaded, shown, clean>>
calls == <<futures, cmd>>
vars  == <<stage, closed, closing, car, apps, ready, peers, data, calls, newest>>

NoCall == [st |-> "idle", on |-> NoConn, code |-> "none", fut |-> "none"]

Init ==
    /\ stage = [c \in Conns |-> "new"]
    /\ closed = [c \in Conns |-> FALSE] /\ closing = [c \in Cars |-> FALSE]
    /\ car = NoConn /\ apps = {} /\ ready = <<>>
    /\ first = [c \in Conns |-> "none"] /\ lastZ = [c \in Conns |-> {}]
    /\ stored = 0 /\ loaded = [a \in Apps |-> 0] /\ shown = [a \in Apps |-> 0]
    /\ clean = [a \in Apps |-> TRUE]
    /\ futures = [c \in Cars |-> [n \in Codes |-> NoCmd]]
    /\ cmd = [k \in Commands |-> NoCall]
    /\ newest = NoConn

Online == IF car = NoConn THEN 0 ELSE 1

\* send_encrypted_message() to each of `to': nothing is written to a closing writer.
Written(to, z) ==
    /\ first' = [c \in Conns |-> IF c \in to /\ ~closed[c] /\ first[c] = "none" THEN "MP-0" ELSE first[c]]
    /\ lastZ' = [c \in Conns |-> IF c \in to /\ ~closed[c] THEN {z} ELSE lastZ[c]]

(***************************************************************************)
(* The handshake: handle_authentication()                                  *)
(***************************************************************************)

\* The digest matches: MP-S goes out and send_raw_message() waits for the drain.
Authenticate(c) ==
    /\ stage[c] = "new"
    /\ stage' = [stage EXCEPT ![c] = "greet"]
    /\ first' = [first EXCEPT ![c] = IF @ = "none" /\ ~closed[c] THEN "MP-S" ELSE @]
    /\ UNCHANGED <<closed, closing, car, apps, ready, lastZ, data, calls, newest>>

WaitsForClose(c) == closing' = [x \in Cars |-> closing[x] \/ x = c]

\* Unknown vehicle, inactive owner, wrong digest or a blocked address: close() and return
\* to the read loop, which ends.
AuthenticationFails(c) ==
    /\ stage[c] = "new"
    /\ stage' = [stage EXCEPT ![c] = "refused"]
    /\ closed' = [closed EXCEPT ![c] = TRUE]
    /\ WaitsForClose(c)
    /\ UNCHANGED <<car, apps, ready, peers, data, calls, newest>>

CountTask == [t |-> "count"]

\* Mutant of RegisterCar: the apps are not told.
RegisterCarQuietly(c) ==
    /\ stage[c] = "greet"
    /\ stage' = [stage EXCEPT ![c] = "serving"]
    /\ car' = c /\ newest' = c
    /\ ready' = (IF car = NoConn THEN ready ELSE Append(ready, [t |-> "close", c |-> car]))
                \o <<CountTask>>
    /\ UNCHANGED <<closed, closing, apps, peers, data, calls>>

\* add_connection() for a car: the one it replaces is closed by a task; then "f" is sent.
RegisterCar(c) ==
    /\ stage[c] = "greet"
    /\ stage' = [stage EXCEPT ![c] = "serving"]
    /\ car' = c /\ newest' = c
    /\ ready' = (IF car = NoConn THEN ready ELSE Append(ready, [t |-> "close", c |-> car]))
                \o <<[t |-> "status", on |-> 1], CountTask>>
    /\ UNCHANGED <<closed, closing, apps, peers, data, calls>>

\* add_connection() for an app, and the Z of _send_initial_data_to_app() in the same step.
RegisterApp(a) ==
    /\ stage[a] = "greet"
    /\ stage' = [stage EXCEPT ![a] = "initial"]
    /\ apps' = apps \cup {a}
    /\ ready' = Append(ready, CountTask)
    /\ Written({a}, Online)
    /\ UNCHANGED <<closed, closing, car, data, calls, newest>>

\* _send_stored_messages_to_app() reads the vehicle once...
LoadStored(a) ==
    /\ stage[a] = "initial"
    /\ stage' = [stage EXCEPT ![a] = "replay"]
    /\ loaded' = [loaded EXCEPT ![a] = stored]
    /\ UNCHANGED <<closed, closing, car, apps, ready, peers, stored, shown, clean, calls, newest>>

\* ...and sends what it read, with an await after each message.
SendStored(a) ==
    /\ stage[a] = "replay"
    /\ stage' = [stage EXCEPT ![a] = "serving"]
    /\ shown' = IF closed[a] \/ loaded[a] = 0 THEN shown ELSE [shown EXCEPT ![a] = loaded[a]]
    /\ UNCHANGED <<closed, closing, car, apps, ready, peers, stored, loaded, clean, calls, newest>>

(***************************************************************************)
(* The tasks of the event loop                                             *)
(***************************************************************************)
Start(t) == ready # <<>> /\ Head(ready).t = t

\* notify_apps_car_status(): gathers one send per app registered now.
NotifyAppsCarStatus ==
    /\ Start("status")
    /\ ready' = Append(Tail(ready), [t |-> "z", to |-> apps, z |-> Head(ready).on])
    /\ UNCHANGED <<stage, closed, closing, car, apps, peers, data, calls, newest>>

SendStatus ==
    /\ Start("z")
    /\ ready' = Tail(ready)
    /\ Written(Head(ready).to, Head(ready).z)
    /\ UNCHANGED <<stage, closed, closing, car, apps, data, calls, newest>>

\* notify_car_app_count(): the registered car is told how many apps there are.
NotifyCarAppCount ==
    /\ Start("count")
    /\ ready' = Tail(ready)
    /\ Written({car} \ {NoConn}, Cardinality(apps))
    /\ UNCHANGED <<stage, closed, closing, car, apps, data, calls, newest>>

\* forward_to_apps(): the sends the car's handler gathered.
SendData ==
    /\ Start("data")
    /\ ready' = Tail(ready)
    /\ shown' = [a \in Apps |-> IF a \in Head(ready).to /\ ~closed[a] THEN Head(ready).v ELSE shown[a]]
    /\ UNCHANGED <<stage, closed, closing, car, apps, peers, stored, loaded, clean, calls, newest>>

\* The commands pending on c are cancelled and forgotten, as close() ends.
Cancelled(c) ==
    /\ cmd' = [k \in Commands |->
                 IF c \in Cars /\ \E n \in Codes : futures[c][n] = k /\ cmd[k].fut = "pending"
                 THEN [cmd[k] EXCEPT !.fut = "cancelled"] ELSE cmd[k]]
    /\ futures' = [x \in Cars |-> IF x = c THEN [n \in Codes |-> NoCmd] ELSE futures[x]]

\* close(): closes the writer and waits, or, if it is closing already, goes on at once.
Closed(c) ==
    /\ closed' = [closed EXCEPT ![c] = TRUE]
    /\ IF closed[c] THEN Cancelled(c) /\ UNCHANGED closing
       ELSE WaitsForClose(c) /\ UNCHANGED calls

CloseReplaced ==
    /\ Start("close")
    /\ ready' = Tail(ready)
    /\ Closed(Head(ready).c)
    /\ UNCHANGED <<stage, car, apps, peers, data, newest>>

\* wait_closed() has returned or its 5 s are over.
CloseEnds(c) ==
    /\ closing[c]
    /\ closing' = [closing EXCEPT ![c] = FALSE]
    /\ Cancelled(c)
    /\ UNCHANGED <<stage, closed, car, apps, ready, peers, data, newest>>

(***************************************************************************)
(* Ends of a connection                                                    *)
(***************************************************************************)

\* _periodic_idle_check(), close_all_connections(), an undecryptable message.
ServerCloses(c) ==
    /\ c \in apps \cup ({car} \ {NoConn}) /\ ~closed[c]
    /\ Closed(c)
    /\ UNCHANGED <<stage, car, apps, ready, peers, data, newest>>

\* The peer resets the connection: the transport closes, close() is not called.
PeerResets(c) ==
    /\ stage[c] \notin {"new", "removed"} /\ ~closed[c]
    /\ closed' = [closed EXCEPT ![c] = TRUE]
    /\ UNCHANGED <<stage, closing, car, apps, ready, peers, data, calls, newest>>

\* A car's handler that has gathered sends waits for them.
Forwarding(c) == \E i \in 1..Len(ready) : ready[i].t = "data" /\ ready[i].by = c

\* The read loop of a handler is over: close() unless the writer is closing already.
Leave(c) ==
    /\ stage[c] \in {"serving", "refused"} /\ ~Forwarding(c)
    /\ stage' = [stage EXCEPT ![c] = "removed"]
    /\ closed' = [closed EXCEPT ![c] = TRUE]
    /\ IF closed[c] THEN UNCHANGED closing ELSE WaitsForClose(c)

\* Mutant of RemoveCar: whichever car is registered is taken out.
RemoveCarAny(c) ==
    /\ Leave(c)
    /\ car' = NoConn
    /\ ready' = Append(ready, [t |-> "status", on |-> 0])
    /\ UNCHANGED <<apps, peers, data, calls, newest>>

\* Mutant of RemoveCar: the handler of a replaced car never gets to its end.
RemoveCarRegistered(c) ==
    /\ Leave(c)
    /\ car = c
    /\ car' = NoConn /\ ready' = Append(ready, [t |-> "status", on |-> 0])
    /\ UNCHANGED <<apps, peers, data, calls, newest>>

\* remove_connection() for a car: only the registered connection is taken out.
RemoveCar(c) ==
    /\ Leave(c)
    /\ IF car = c
       THEN car' = NoConn /\ ready' = Append(ready, [t |-> "status", on |-> 0])
       ELSE UNCHANGED <<car, ready>>
    /\ UNCHANGED <<apps, peers, data, calls, newest>>

\* remove_connection() for an app; one that was never registered only makes the car be told
\* again, if other apps are there.
RemoveApp(a) ==
    /\ Leave(a)
    /\ apps' = apps \ {a}
    /\ ready' = IF apps = {} THEN ready ELSE Append(ready, CountTask)
    /\ UNCHANGED <<car, peers, data, calls, newest>>

(***************************************************************************)
(* The car's messages and the commands sent to it                          *)
(***************************************************************************)
\* Mutant of CarData: what a replaced connection still delivers is not forwarded.
CarDataRegistered(c) ==
    /\ stage[c] = "serving" /\ ~Forwarding(c) /\ ~closed[c] /\ stored < MaxData
    /\ stored' = stored + 1
    /\ clean' = [a \in Apps |-> stage[a] # "replay"]
    /\ ready' = IF apps = {} \/ car # c THEN ready
                ELSE Append(ready, [t |-> "data", to |-> apps, v |-> stored + 1, by |-> c])
    /\ UNCHANGED <<stage, closed, closing, car, apps, peers, loaded, shown, calls, newest>>

\* _handle_car_data_message(): stores, and gathers a send to every app.
CarData(c) ==
    /\ stage[c] = "serving" /\ ~Forwarding(c) /\ ~closed[c] /\ stored < MaxData
    /\ stored' = stored + 1
    /\ clean' = [a \in Apps |-> stage[a] # "replay"]
    /\ ready' = IF apps = {} THEN ready
                ELSE Append(ready, [t |-> "data", to |-> apps, v |-> stored + 1, by |-> c])
    /\ UNCHANGED <<stage, closed, closing, car, apps, peers, loaded, shown, calls, newest>>

\* forward_to_car(): no car, a command of that number pending, or sent and waiting.
ForwardToCar(k, n) ==
    /\ cmd[k].st = "idle"
    /\ \/ /\ car = NoConn
          /\ cmd' = [cmd EXCEPT ![k].st = "no car"] /\ UNCHANGED futures
       \/ /\ car # NoConn /\ futures[car][n] # NoCmd
          /\ cmd' = [cmd EXCEPT ![k].st = "BUSY"] /\ UNCHANGED futures
       \/ /\ car # NoConn /\ futures[car][n] = NoCmd
          /\ futures' = [futures EXCEPT ![car][n] = k]
          /\ cmd' = [cmd EXCEPT ![k] = [st |-> "waiting", on |-> car, code |-> n, fut |-> "pending"]]
    /\ UNCHANGED <<stage, closed, closing, car, apps, ready, peers, data, newest>>

\* _handle_car_command_response(): takes the future of that number out and resolves it.
CarAnswers(c, n) ==
    /\ stage[c] = "serving" /\ ~Forwarding(c) /\ ~closed[c]
    /\ futures[c][n] # NoCmd
    /\ cmd' = [cmd EXCEPT ![futures[c][n]].fut = IF @ = "pending" THEN "answered" ELSE @]
    /\ futures' = [futures EXCEPT ![c][n] = NoCmd]
    /\ UNCHANGED <<stage, closed, closing, car, apps, ready, peers, data, newest>>

\* The cleanup of forward_to_car(): its own future only.
Forgotten(k) ==
    futures' = [c \in Cars |-> [n \in Codes |-> IF futures[c][n] = k THEN NoCmd ELSE futures[c][n]]]

CommandReturns(k) ==
    /\ cmd[k].st = "waiting" /\ cmd[k].fut \in {"answered", "cancelled"}
    /\ cmd' = [cmd EXCEPT ![k].st = IF cmd[k].fut = "answered" THEN "answered" ELSE "CANCELLED"]
    /\ Forgotten(k)
    /\ UNCHANGED <<stage, closed, closing, car, apps, ready, peers, data, newest>>

\* Mutant of CommandTimesOut: the future stays registered.
CommandTimesOutUncleaned(k) ==
    /\ cmd[k].st = "waiting"
    /\ cmd' = [cmd EXCEPT ![k].st = "TIMEOUT", ![k].fut = "cancelled"]
    /\ UNCHANGED <<stage, closed, closing, car, apps, ready, peers, data, futures, newest>>

\* Mutant of CommandTimesOut: no timeout.
CommandTimesOutNever(k) == CommandReturns(k)

\* 20 s are over; wait_for() cancels the future.  An answer of the same moment is lost.
CommandTimesOut(k) ==
    /\ cmd[k].st = "waiting"
    /\ cmd' = [cmd EXCEPT ![k].st = "TIMEOUT", ![k].fut = IF @ = "pending" THEN "cancelled" ELSE @]
    /\ Forgotten(k)
    /\ UNCHANGED <<stage, closed, closing, car, apps, ready, peers, data, newest>>

-----------------------------------------------------------------------------
Tasks == NotifyAppsCarStatus \/ SendStatus \/ NotifyCarAppCount \/ SendData \/ CloseReplaced

Handler(c) ==
    \/ Authenticate(c) \/ AuthenticationFails(c)
    \/ c \in Cars /\ (RegisterCar(c) \/ RemoveCar(c))
    \/ c \in Apps /\ (RegisterApp(c) \/ LoadStored(c) \/ SendStored(c) \/ RemoveApp(c))

Next ==
    \/ Tasks
    \/ \E c \in Conns : Handler(c) \/ ServerCloses(c) \/ PeerResets(c)
    \/ \E c \in Cars : CloseEnds(c) \/ CarData(c) \/ \E n \in Codes : CarAnswers(c, n)
    \/ \E k \in Commands : \/ \E n \in Codes : ForwardToCar(k, n)
                           \/ CommandReturns(k) \/ CommandTimesOut(k)

Spec == Init /\ [][Next]_vars

\* The loop runs its tasks, close() ends, a handler goes on (the read loop of a closed
\* connection ends), the 20 s of a command pass.
Fairness ==
    /\ WF_vars(Tasks)
    /\ \A c \in Cars : WF_vars(CloseEnds(c))
    /\ \A c \in Conns : WF_vars((stage[c] # "serving" \/ closed[c]) /\ stage[c] # "new" /\ Handler(c))
    /\ \A k \in Commands : WF_vars(CommandReturns(k) \/ CommandTimesOut(k))

FairSpec == Spec /\ Fairness

(***************************************************************************)
(* Properties                                                              *)
(***************************************************************************)
Calls == [st : {"idle", "no car", "BUSY", "waiting", "answered", "CANCELLED", "TIMEOUT"},
          on : Cars \cup {NoConn}, code : Codes \cup {"none"},
          fut : {"none", "pending", "answered", "cancelled"}]

Stages == {"new", "greet", "initial", "replay", "serving", "refused", "removed"}

TypeOK ==
    /\ stage \in [Conns -> Stages]
    /\ closed \in [Conns -> BOOLEAN] /\ closing \in [Cars -> BOOLEAN]
    /\ car \in Cars \cup {NoConn} /\ newest \in Cars \cup {NoConn} /\ apps \subseteq Apps
    /\ futures \in [Cars -> [Codes -> Commands \cup {NoCmd}]]
    /\ cmd \in [Commands -> Calls]
    /\ stored \in 0..MaxData

\* The registered car is the newest one until its own handler ends; the end of an older
\* connection never deregisters it (connection_manager.py:211, 223).
NewestIsRegistered ==
    newest # NoConn => car = (IF stage[newest] = "removed" THEN NoConn ELSE newest)

\* Only connections whose handler still runs are registered, so none is left behind.
RegisteredIsServed ==
    /\ car # NoConn => stage[car] = "serving"
    /\ \A a \in apps : stage[a] \in {"initial", "replay", "serving"}

\* The peer's first line is MP-S, whatever notices are on their way: it cannot decipher
\* anything before (auth.py:165-167).  And when the event loop has nothing left to start,
\* the last Z of every app says whether the car is connected and that of the car how many
\* apps there are, whatever order cars and apps came and went in.
PeersKnowStatus ==
    /\ \A c \in Conns : first[c] \in {"none", "MP-S"}
    /\ ready = <<>> => \A a \in apps : ~closed[a] => lastZ[a] = {Online}
    /\ ready = <<>> /\ car # NoConn => (~closed[car] => lastZ[car] = {Cardinality(apps)})

\* When the event loop has nothing left to start, an app shows the newest data, unless data came while stored messages were being
\* replayed to it.
AppsShowNewest ==
    ready = <<>> => \A a \in apps :
        stage[a] = "serving" /\ ~closed[a] /\ clean[a] => shown[a] = stored

\* A command number is taken exactly as long as a call waits for its answer: nothing stays
\* BUSY behind a call that has returned, and no waiting call has lost its future
\* (connection_manager.py:371-399).
PendingIsWaiting ==
    \A c \in Cars, n \in Codes, k \in Commands :
        futures[c][n] = k <=>
            cmd[k].st = "waiting" /\ cmd[k].on = c /\ cmd[k].code = n /\ cmd[k].fut = "pending"

\* A connection that has been closed ends up deregistered.
ClosedIsRemoved == \A c \in Conns : closed[c] ~> stage[c] = "removed"

\* Every forwarded command returns to its caller.
CommandsReturn == \A k \in Commands : cmd[k].st = "waiting" ~> cmd[k].st # "waiting"
=============================================================================
