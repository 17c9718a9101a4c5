--------------------------- MODULE MCChargeManager ---------------------------
(***************************************************************************)
(* A run of ChargeManager is the union of the scenes in Scenes.  They      *)
(* bound what the environment does: the messages that arrive (`messages'   *)
(* counts them), crashes, deletions, failing writes and the vehicle's      *)
(* clock.  The housekeeping pass is free in all of them.                   *)
(***************************************************************************)
EXTENDS ChargeManager

CONSTANT Scenes

VARIABLES scene, messages

Bounds == [
    failing |-> [fails |-> TRUE,  skew |-> 0,    msgs |-> 4, crashes |-> 1, deletes |-> 0, time |-> 4],
    ended   |-> [fails |-> FALSE, skew |-> 0,    msgs |-> 5, crashes |-> 2, deletes |-> 0, time |-> 4],
    deleted |-> [fails |-> FALSE, skew |-> 0,    msgs |-> 4, crashes |-> 1, deletes |-> 1, time |-> 5],
    clock   |-> [fails |-> FALSE, skew |-> Skew, msgs |-> 3, crashes |-> 1, deletes |-> 0, time |-> 5]]

InScene ==
    LET b == Bounds[scene]
    IN  /\ dbFails = b.fails /\ skew = b.skew
        /\ messages <= b.msgs /\ crashes <= b.crashes /\ deletes <= b.deletes /\ now <= b.time

MCInit == Init /\ scene \in Scenes /\ messages = 0 /\ InScene
MCNext ==
    /\ \/ Metric /\ messages' = messages + 1
       \/ (Housekeeping \/ Others) /\ UNCHANGED messages
    /\ UNCHANGED scene /\ InScene'
MCSpec == MCInit /\ [][MCNext]_<<vars, scene, messages>> /\ Fairness
==============================================================================
