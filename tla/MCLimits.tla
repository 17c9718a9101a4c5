------------------------------ MODULE MCLimits ------------------------------
(***************************************************************************)
(* The two limiters of the server, in five scenes.                         *)
(*                                                                         *)
(*   address  three TOTP attempts from one address, an administrator, a    *)
(*            restart, every database call failing or not                  *)
(*   legacy   two of them without the administrator, over rows that an     *)
(*            earlier version made                                         *)
(*   account  four guesses at the login of one account from two addresses, *)
(*            with a restart                                               *)
(*   bucket   notifications of three vehicles over a long time, with room  *)
(*            for two in the limiter's table                               *)
(*   dedup    MQTT messages of one vehicle and notifications from          *)
(*            elsewhere, which share its bucket                            *)
(***************************************************************************)
EXTENDS SecurityManager, NotificationDedup, TLC

CONSTANTS ip1, v1, v2, v3, n1, b1

VARIABLE scene

\* A TOTP failure blocks the address at the second, and for longer at the third within a
\* day; a login failure blocks the account first.
AddressLimit == [t \in Types |-> IF t = "totp" THEN 2 ELSE 3]
AccountLimit == [t \in Types |-> IF t = "totp" THEN 3 ELSE 2]
LongerAt     == [t \in Types |-> IF t = "totp" THEN 3 ELSE NoThreshold]

Arrived == {k \in Attempts : op[k].pc # "idle"}

\* Admissions since the table was last cleared.
Admitted == Len(log[v1]) + Len(log[v2]) + Len(log[v3])

InScene ==
    CASE scene \in {"address", "legacy"} ->
           /\ Cardinality(Arrived) <= IF scene = "address" THEN 3 ELSE 2
           /\ \A k \in Arrived : op[k].type = "totp" /\ op[k].ip = ip1
           /\ \A a \in AdminOps : admin[a].pc \in {"persist", "remove"} => admin[a].ip = ip1 /\ scene = "address"
      [] scene = "account" ->
           /\ \A k \in Arrived : op[k].type = "login"
           /\ \A a \in AdminOps : admin[a].pc = "idle"
      [] scene = "bucket" -> messages = <<>> /\ Admitted <= 5
      [] scene = "dedup" ->
           /\ now <= 3
           /\ \A v \in Vehicles \ {v1} :
                log[v] = <<>> /\ \A m \in DOMAIN messages : messages[m].vehicle # v
           /\ messages # <<>> => messages[1].key = n1 /\ messages[1].body = b1

MCInit ==
    /\ scene \in {"address", "legacy", "account", "bucket", "dedup"}
    /\ dbFails = (scene \in {"address", "legacy"})
    /\ SecurityInit /\ Init
    /\ \A i \in Ips : dbBlock[i] # None => scene = "legacy" /\ i = ip1
MCNext ==
    /\ UNCHANGED scene
    /\ \/ scene \in {"address", "legacy", "account"} /\ SecurityNext /\ UNCHANGED vars
       \/ scene \in {"bucket", "dedup"} /\ Next /\ UNCHANGED securityVars
    /\ InScene'
MCSpec == MCInit /\ [][MCNext]_<<securityVars, vars, scene>>

\* Attempts are interchangeable, and so are keys and bodies: the first message has n1
\* and b1.
Symmetry == Permutations(Attempts)
=============================================================================
