------------------------- MODULE MCMqttCredentials -------------------------
(***************************************************************************)
(* The run of MqttCredentials is the union of five scenes, each with the   *)
(* environment its properties are about.  Only what the environment starts *)
(* (requests, failures of the disk, restarts) depends on the scene; every  *)
(* step the code takes by itself is free in all of them.  No request       *)
(* begins once flush() has run: the server has stopped serving by then.    *)
(*                                                                         *)
(*   worker    one request thread, failing writes, a shutdown at any time  *)
(*             after one change at most                                    *)
(*   restart   the same with one change and a restart at any moment        *)
(*   keys      API keys beside vehicle and account changes; the writes of  *)
(*             the key operations may fail                                 *)
(*   key restart  two threads on an API key, failing writes and a restart, *)
(*             no vehicle                                                  *)
(*   requests  two request threads on a vehicle, writes succeed            *)
(***************************************************************************)
EXTENDS MqttCredentials

CONSTANTS r1, r2, a2, pa, pb

VARIABLE scene

Used == {row[v].pw : v \in Vehicles} \cup {entry[v] : v \in Vehicles}
            \cup {sync[s].seen : s \in {t \in Syncers : sync[t].job # Acl}}

\* Passwords are interchangeable: as long as none is in use, the next one is pa.
Canonical == pb \in Used' => pa \in Used \/ pb \in Used

Quiet(T, busy) == \A t \in T : busy[t].at = "out"

WritesSucceed == \A s \in Syncers : sync[s].failed = {}

InScene ==
    /\ scene = "worker" => /\ commits <= 2 /\ restarts = 0
                           /\ request[r2].at = "out" /\ Quiet(ApiThreads, api)
                           /\ shutdown # "no" => commits <= 1
    /\ scene = "restart" => /\ commits <= 1
                            /\ request[r2].at = "out" /\ Quiet(ApiThreads, api)
    /\ scene = "keys" => /\ restarts = 0 /\ request[r2].at = "out" /\ api[a2].at = "out"
                         /\ pb \notin Used /\ WritesSucceed
    /\ scene = "key restart" => /\ commits <= 2 /\ request[r2].at = "out"
                                /\ row = [v \in Vehicles |-> NoRow]
    /\ scene = "requests" => /\ restarts = 0 /\ Quiet(ApiThreads, api)
                             /\ WritesSucceed

\* Nobody leaves "out" once the server is shutting down.
Stopped == shutdown # "no" => /\ \A r \in Requests : request[r].at = "out" => request'[r].at = "out"
                              /\ \A a \in ApiThreads : api[a].at = "out" => api'[a].at = "out"

MCInit == Init /\ scene \in {"worker", "restart", "keys", "key restart", "requests"}
MCNext == Next /\ Canonical /\ Stopped /\ UNCHANGED scene /\ InScene'
MCSpec == MCInit /\ [][MCNext]_<<vars, scene>> /\ Fairness
=============================================================================
