----------------------------- MODULE MCV2Server -----------------------------
(***************************************************************************)
(* What a connection of the V2 TCP server holds and how it gives it back,  *)
(* in three scenes: "slots", the limits on connections, with four from one *)
(* address and two from another; "timers", one connection's read loop and  *)
(* the idle check; "teardown", two connections of one car, which replace   *)
(* each other while a command is on its way.                               *)
(***************************************************************************)
EXTENDS V2Connections, TcpLimits, TcpReadLoop

CONSTANTS s1, s2, s3, s4, r1, r2, a, b

MCSockets == {s1, s2, s3, s4, r1, r2}
MCIp == [c \in MCSockets |-> IF c \in {r1, r2} THEN b ELSE a]

VARIABLE scene

MCInit ==
    /\ Init /\ SlotsInit /\ LoopInit /\ scene \in {"slots", "timers", "teardown"}
    /\ scene # "timers" => check = 0
MCNext ==
    \/ scene = "slots" /\ SlotsNext /\ UNCHANGED <<vars, loopVars, scene>>
    \/ scene = "timers" /\ LoopNext /\ UNCHANGED <<vars, slotVars, scene>>
    \/ scene = "teardown" /\ Next /\ UNCHANGED <<slotVars, loopVars, scene>>

\* No action that fairness is about is enabled before its scene's first step.
MCSpec ==
    /\ MCInit
    /\ [][MCNext]_<<vars, slotVars, loopVars, scene>>
    /\ Fairness /\ SlotsFairness
=============================================================================
