----------------------------- MODULE MCDelivery -----------------------------
(***************************************************************************)
(* What reaches a user besides the live connection, in scenes: the e-mail  *)
(* queue with one HIGH and one NORMAL mail ("email"), the fan-out to push  *)
(* devices with its retries ("push"), and the view of a vehicle (each of   *)
(* Views).  A view is one group of readings that derive() relates to each  *)
(* other, and varies what these depend on: the units, the two online       *)
(* states, the age.                                                        *)
(***************************************************************************)
EXTENDS EmailQueue, PushDispatch, LiveView, TLC

CONSTANTS Scenes, m1, m2

HighAndNormal == m1 :> 0 @@ m2 :> 1

VARIABLE scene

Views ==
  [soc |-> {"soc"}, charge |-> {"state", "charging"}, mode |-> {"mode"},
   power |-> {"power", "powerOut", "lineV", "lineA"}, charger |-> {"lineV", "lineA", "charging"},
   energy |-> {"energy", "energyUsed"}, eta |-> {"limit", "toLimit", "toFull", "duration"},
   range |-> {"range", "soc"}, odometer |-> {"odometer", "soh"}, trip |-> {"trip", "soh"},
   battery |-> {"batteryTemp"}, motor |-> {"motorTemp"}, ambient |-> {"ambientTemp"}, cabin |-> {"cabinTemp"},
   pack |-> {"packV", "packA"}, position |-> {"lat", "lon"}, v12 |-> {"v12"}, soh |-> {"soh"},
   access |-> {"locked", "on"}, seen |-> {"v12"}]

Distance == {"range", "odometer", "trip"}

MCPublished(r) ==
  CASE r = "soc" -> {Null, 30, 101}
    [] r = "state" -> {Null, 0, Charging, Done}
    [] r = "limit" -> {0, 80, 100}
    [] r \in {"toLimit", "toFull"} -> {-1, 59, 61}
    [] r \in Distance -> {Null, 0, 16}
    [] r \in {"batteryTemp", "ambientTemp", "motorTemp", "cabinTemp"} -> {0, -5, 20}
    [] r = "lineV" -> {0, 1000}
    [] r = "lineA" -> {0, 16}
    [] r \in {"charging", "locked", "on"} -> {Null, 0, 1}
    [] r \in {"powerOut", "energyUsed", "duration"} -> {}
    [] r = "units" -> {K}
    [] OTHER -> {Null, 0, 16}
MCSent(r) ==
  CASE r = "soc" -> {0, 70}
    [] r = "state" -> {Null, Topoff, Stopped}
    [] r = "limit" -> {0, 90}
    [] r \in {"toLimit", "toFull", "duration"} -> {-1, 90}
    [] r = "range" -> {0, 40}
    [] r \in {"odometer", "trip"} -> {0, 400}
    [] r = "energyUsed" -> {Null, 70}
    [] r = "lineV" -> {0, 2000}
    [] r \in {"lineA", "powerOut"} -> {Null, 25}
    [] r \in {"charging", "locked", "on"} -> {0, 1}
    [] OTHER -> {Null, 0, 25}
MCAges == {0, 44, 45, 89, 90, 91, 149, 150, 3569, 3570, 3599, 3600, 5400, 5401, 86399, 86400, 129600, 129601}


ViewScenes == DOMAIN Views
AllScenes == {"email", "push"} \union ViewScenes

ViewSceneInit ==
  /\ scene \in ViewScenes /\ reports = Views[scene] /\ age = 0
  /\ imperial \in { i \in BOOLEAN : i => scene \in Distance \union {"battery", "motor", "ambient", "cabin"} }
  /\ units \in { u \in {K, M} : u = M => scene \in Distance }
  /\ logging \in { l \in BOOLEAN : l => scene \notin {"seen", "eta", "pack"} }
  /\ v2Online \in { o \in BOOLEAN : o => scene \in {"soc", "charge", "seen"} } /\ v3Online = FALSE
  /\ ViewInit

\* Metrics grow stale in the scenes of at most two readings.
ViewSceneNext ==
  /\ ViewNext
  /\ (v2Online' # v2Online => scene \in {"soc", "charge"})
  /\ (v3Online' # v3Online => scene \in {"soc", "charge", "seen"})
  /\ (age' # age /\ age' # 0 => scene = "seen")
  /\ (stale' # stale => scene \in {"v12", "battery", "soh", "energy", "seen"} \union Distance)

----------------------------------------------------------------------------
\* Outside the views there is one view without readings, which does not change.
MCInit ==
  /\ Init /\ PushInit
  /\ \/ ViewSceneInit
     \/ /\ scene \in {"email", "push"}
        /\ reports = {} /\ age = 0 /\ imperial = FALSE /\ units = K /\ logging = FALSE
        /\ v2Online = FALSE /\ v3Online = FALSE /\ ViewInit
  /\ scene \in Scenes
MCNext ==
  /\ UNCHANGED scene
  /\ \/ scene = "email" /\ Next /\ UNCHANGED <<pushVars, viewVars>>
     \/ scene = "push" /\ PushNext /\ UNCHANGED <<vars, viewVars>>
     \/ scene \in ViewScenes /\ ViewSceneNext /\ UNCHANGED <<vars, pushVars>>

\* A note waits to be dispatched from the start, which is only fair in its own scene; no
\* other action that fairness is about is enabled before its scene's first step.
PushSceneFairness ==
  SendFairness /\ \A n \in Notes : WF_pushVars(scene = "push" /\ Dispatch(n))

MCSpec ==
  /\ MCInit /\ [][MCNext]_<<vars, pushVars, viewVars, scene>>
  /\ Fairness /\ PushSceneFairness /\ ViewFairness
=============================================================================
