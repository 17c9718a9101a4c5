-------------------------- MODULE MCV2Connections --------------------------
(***************************************************************************)
(* V2Connections for TLC: a union of small instances. A behaviour is       *)
(* followed as long as the connections of a kind, commands and data        *)
(* messages that take part in it fit one of the scenes; these numbers only *)
(* grow, so TLC explores the union of the scenes. Connections of a kind    *)
(* and commands are interchangeable.                                       *)
(***************************************************************************)
EXTENDS V2Connections, TLC

Scenes == {
    [cars |-> 2, apps |-> 1, commands |-> 0, data |-> 2],
    [cars |-> 1, apps |-> 2, commands |-> 0, data |-> 0],
    [cars |-> 2, apps |-> 0, commands |-> 3, data |-> 0]}

InScene == \E s \in Scenes :
    /\ Cardinality({c \in Cars : stage[c] # "new"}) <= s.cars
    /\ Cardinality({c \in Apps : stage[c] # "new"}) <= s.apps
    /\ Cardinality({k \in Commands : cmd[k].st # "idle"}) <= s.commands
    /\ stored <= s.data

Symmetry == Permutations(Cars) \cup Permutations(Apps) \cup Permutations(Commands)
=============================================================================
