------------------------------ MODULE LiveView ------------------------------
(***************************************************************************)
(* What a page shows of a vehicle, from what the vehicle reported.         *)
(*                                                                         *)
(* Two protocols report to two places: a V2 module sends frames, of which  *)
(* the latest of each kind is stored with the vehicle, and a V3 module     *)
(* publishes single metrics into a store in memory, from which the         *)
(* housekeeping removes what was not refreshed for three hours.  With      *)
(* charge logging on, a V2 frame also writes some of its values to the     *)
(* store.  The payload builder merges both, and derive() in                *)
(* src/app/static/js/vehicle_live_view.js makes of the payload what the    *)
(* dashboard and the vehicle page show.                                    *)
(*                                                                         *)
(* A reading has one name here, for the metric of V3 and the field of V2.  *)
(* Values are integers in whole units; a mile is 8/5 km, and the distances *)
(* in use are such that conversions come out even.                         *)
(***************************************************************************)
EXTENDS Integers, Sequences

CONSTANTS
  Published(_),      \* what a V3 module publishes for a reading, Null included
  Sent(_),           \* what a V2 frame holds for a reading
  Ages               \* how old the last message may be, in seconds

Missing == -1000     \* no such key
Null == -999         \* a key without a number: None, "" or "N/A"
Hidden == -998       \* not shown
IsNum(v) == v > Hidden

K == 1               \* units: kilometres, miles
M == 2

\* Charge states, after STATE_ALIASES; 0 is any word that is none of these.
Charging == 1
Topoff == 2
Done == 3
Stopped == 4

\* The kinds of V2 frames and what they hold.  The last two of S have no metric.
Part == [S |-> {"soc", "range", "lineV", "lineA", "state", "mode", "packV", "packA", "soh", "power",
                "energy", "limit", "toLimit", "toFull", "units", "duration", "powerOut", "energyUsed"},
         D |-> {"v12", "batteryTemp", "ambientTemp", "motorTemp", "cabinTemp", "charging",
                "odometer", "trip", "locked", "on"},
         L |-> {"lat", "lon"}]
Readings == Part.S \union Part.D \union Part.L
Distances == {"range", "odometer", "trip"}
Temperatures == {"batteryTemp", "ambientTemp", "motorTemp", "cabinTemp"}

\* What is reported is a number or no number.  V3 publishes in km; distances are not
\* negative, and they and temperatures convert without a remainder (a frame has the
\* odometer and the trip in tenths).  The power of a charger is a number like others.
ASSUME ViewAssumption ==
  /\ Ages \subseteq Nat
  /\ \A r \in Readings : \A v \in Published(r) \union Sent(r) : v \in Int /\ (v = Null \/ IsNum(v))
  /\ \A r \in Temperatures : \A v \in Published(r) \union Sent(r) : IsNum(v) => v % 5 = 0
  /\ \A r \in Distances :
       /\ \A v \in Published(r) : IsNum(v) => v >= 0 /\ v % 8 = 0
       /\ \A v \in Sent(r) : IsNum(v) => v >= 0 /\ v % (IF r = "range" THEN 40 ELSE 400) = 0
  /\ \A v \in Published("lineV") \union Sent("lineV"), a \in Published("lineA") \union Sent("lineA") :
       IsNum(v) /\ IsNum(a) => IsNum((v * a) \div 1000)
  /\ Published("units") \subseteq {K}

VARIABLES
  reports,           \* the readings this vehicle has at all
  frame,             \* latest_status_msg, latest_diag_msg, latest_location_msg
  metrics,           \* metrics_manager.vehicle_metrics
  stale,             \* the metrics not refreshed for _METRIC_TTL_SECONDS
  v2Online, v3Online,
  units,             \* the unit the vehicle counts in, sent in its S frames
  logging,           \* enable_charge_logging, and the vehicle is not V3 only
  imperial,          \* the profile's preference
  age,               \* of the last message
  last               \* history: the protocol of the last report

viewVars == << reports, frame, metrics, stale, v2Online, v3Online, units, logging, imperial, age, last >>

----------------------------------------------------------------------------
(* The server: reports, the store, the payload. *)

ViewInit ==
  /\ reports \subseteq Readings
  /\ frame = [r \in Readings |-> Missing]
  /\ metrics = [r \in Readings |-> Missing]
  /\ stale = {} /\ v2Online \in BOOLEAN /\ v3Online \in BOOLEAN
  /\ units \in {K, M} /\ logging \in BOOLEAN /\ imperial \in BOOLEAN /\ age \in Ages
  /\ last = "none"

\* What _process_v2_charge_logging() writes to the store for frame f.  Tenths are
\* divided out, but an odometer in miles stays in miles; the charging flag is written
\* also if the frame has none.
Logged(part, f, r) ==
  CASE part = "S" /\ r = "soc" -> f["soc"]
    [] part = "S" /\ r = "power" -> f["powerOut"]
    [] part = "S" /\ r = "energy" -> IF IsNum(f["energyUsed"]) THEN f["energyUsed"] \div 10 ELSE Missing
    [] part = "D" /\ r = "charging" -> IF f[r] = 1 THEN 1 ELSE 0
    [] part = "D" /\ r = "batteryTemp" -> f[r]
    [] part = "D" /\ r = "odometer" -> IF IsNum(f[r]) THEN f[r] \div 10 ELSE Missing
    [] part = "L" /\ r \in {"lat", "lon"} -> f[r]
    [] OTHER -> Missing

\* A V2 frame arrives and replaces the stored one of its kind.
ReceiveFrame(part) ==
  \E g \in [(reports \intersect Part[part]) \ {"units"} -> UNION { Sent(r) : r \in reports }] :
    LET f == [r \in Readings |-> IF r \in DOMAIN g THEN g[r] ELSE IF r = "units" THEN units ELSE Missing]
        written == { r \in Readings : logging /\ IsNum(Logged(part, f, r)) }
    IN  /\ DOMAIN g # {} /\ \A r \in DOMAIN g : g[r] \in Sent(r)
        /\ frame' = [r \in Readings |-> IF r \in Part[part] THEN f[r] ELSE frame[r]]
        /\ metrics' = [r \in Readings |-> IF r \in written THEN Logged(part, f, r) ELSE metrics[r]]
        /\ stale' = stale \ written
        /\ age' = 0 /\ last' = "v2"
        /\ UNCHANGED << reports, v2Online, v3Online, units, logging, imperial >>

\* A V3 module publishes a metric, or the broker repeats a retained one, which says
\* nothing of the module being online; so does a metric within half a minute of the
\* last one that was noted.
Publish(r) ==
  \E v \in Published(r) :
    /\ metrics' = [metrics EXCEPT ![r] = v]
    /\ stale' = stale \ {r}
    /\ (v3Online' = TRUE /\ age' = 0) \/ UNCHANGED << v3Online, age >>
    /\ last' = "v3"
    /\ UNCHANGED << reports, frame, v2Online, units, logging, imperial >>

GrowStale(r) ==
  /\ metrics[r] # Missing /\ r \notin stale
  /\ stale' = stale \union {r}
  /\ UNCHANGED << reports, frame, metrics, v2Online, v3Online, units, logging, imperial, age, last >>

\* Mutant: the timestamps of stale metrics are dropped, their values stay.
evict_stale_metricsStamps ==
  /\ stale # {} /\ stale' = {}
  /\ UNCHANGED << reports, frame, metrics, v2Online, v3Online, units, logging, imperial, age, last >>

evict_stale_metrics ==
  /\ stale # {}
  /\ metrics' = [r \in Readings |-> IF r \in stale THEN Missing ELSE metrics[r]]
  /\ stale' = {}
  /\ UNCHANGED << reports, frame, v2Online, v3Online, units, logging, imperial, age, last >>

\* A V2 connection comes or goes, a V3 module is silent for fifteen minutes, time passes.
OnlineChanges ==
  /\ \/ v2Online' = ~v2Online /\ UNCHANGED << v3Online, age >>
     \/ v3Online' = FALSE /\ v3Online /\ UNCHANGED << v2Online, age >>
     \/ age' \in { a \in Ages : a > age } /\ UNCHANGED << v2Online, v3Online >>
  /\ UNCHANGED << reports, frame, metrics, stale, units, logging, imperial, last >>

\* parse_stored_msgs_for_vehicle_info(): a metric replaces the field, number or not.
\* The unit is the frame's only as long as the store has nothing of a status.
Status == {"soc", "range", "lineV", "lineA", "state", "mode", "packV", "packA", "soh"}
Merged == Status \union {"lat", "lon", "v12"}
MergedValue(r) == IF metrics[r] # Missing THEN metrics[r] ELSE frame[r]
MergedUnits ==
  IF metrics["units"] # Missing THEN metrics["units"]
  ELSE IF \E r \in Status \union {"energy"} : metrics[r] # Missing THEN K
  ELSE frame["units"]

build_vehicle_live_payload ==
  [isV2Online |-> v2Online, isV3Online |-> v3Online, units |-> MergedUnits,
   merged |-> [r \in Merged |-> MergedValue(r)], v2 |-> frame, v3 |-> metrics, age |-> age]

----------------------------------------------------------------------------
(* The page. *)

num(v) == IF IsNum(v) THEN v ELSE Missing

\* Mutant: the last value that is a number.
firstLast(values) ==
  LET numbers == { i \in DOMAIN values : IsNum(values[i]) }
  IN  IF numbers = {} THEN Missing ELSE values[CHOOSE i \in numbers : \A j \in numbers : j <= i]

first(values) ==
  LET numbers == { i \in DOMAIN values : IsNum(values[i]) }
  IN  IF numbers = {} THEN Missing ELSE values[CHOOSE i \in numbers : \A j \in numbers : i <= j]
flag(values) == first(values)            \* 1 is yes, 0 is no

\* A text with its unit; NoText is a field that is not shown.
Text(n, unit) == [n |-> n, unit |-> unit]
NoText == Text(Hidden, "")

toKm(v, u) == IF IsNum(v) /\ IsNum(u) /\ u # K THEN (v * 8) \div 5 ELSE num(v)
distance(km) == IF imperial THEN Text((km * 5) \div 8, "mi") ELSE Text(km, "km")
temperature(v) == IF imperial THEN Text((v * 9) \div 5 + 32, "F") ELSE Text(v, "C")
minutes(total) == IF IsNum(total) /\ total >= 0 THEN << total \div 60, total % 60 >> ELSE << >>

\* Half a unit is rounded down, as Math.round() does to negative numbers.
relative(a) ==
  LET In(unit) == (a + unit \div 2 - 1) \div unit
  IN  IF a < 45 THEN Text(0, "now")
      ELSE IF a < 3600 THEN Text(In(60), "minute")
      ELSE IF a < 86400 THEN Text(In(3600), "hour")
      ELSE Text(In(86400), "day")

Tiles == {"power", "energy", "range", "batteryTemp", "ambientTemp", "motorTemp", "cabinTemp", "v12",
          "soh", "odometer", "trip", "packV", "packA", "lineV", "lineA"}

\* The number of a tile, before it is decided whether to show it.
Number(p, r) ==
  CASE r = "power" ->
         first(<< p.v3[r], p.v2[r], IF IsNum(p.merged.lineV) /\ IsNum(p.merged.lineA)
                                    THEN (p.merged.lineV * p.merged.lineA) \div 1000 ELSE Missing >>)
    [] r = "range" -> toKm(p.merged[r], p.units)
    [] r = "v12" -> num(p.merged[r])
    [] r = "soh" -> first(<< p.merged[r], p.v3[r], p.v2[r] >>)
    [] r \in {"odometer", "trip"} ->
         IF IsNum(p.v3[r]) THEN p.v3[r]
         ELSE IF IsNum(p.v2[r]) THEN toKm(p.v2[r] \div 10, p.units) ELSE Missing
    [] r \in {"packV", "packA", "lineV", "lineA"} -> first(<< p.v3[r], p.merged[r] >>)
    [] OTHER -> first(<< p.v3[r], p.v2[r] >>)

derive(p) ==
  LET online == p.isV2Online \/ p.isV3Online
      soc == num(p.merged.soc)
      state == num(p.merged.state)
      charging == LET c == flag(<< p.v3["charging"], p.v2["charging"] >>)
                  IN  IF IsNum(c) THEN c = 1 ELSE state \in {Charging, Topoff}
      limit == first(<< p.v3["limit"], p.v2["limit"] >>)
      toLimit == minutes(first(<< p.v3["toLimit"], p.v2["toLimit"] >>))
      toFull == minutes(first(<< p.v3["toFull"], p.v2["toFull"], p.v2["duration"] >>))
      n == [r \in Tiles |-> Number(p, r)]
      \* A V2 frame has 0 in a field it has no reading for; the charger is only read
      \* while it charges.
      show == [r \in Tiles |->
                 /\ IsNum(n[r])
                 /\ r \in {"energy", "v12", "soh", "odometer", "trip", "packV", "lineV"} => n[r] > 0
                 /\ r \in {"motorTemp", "cabinTemp"} => n[r] # 0
                 /\ r = "packA" => IsNum(n["packV"]) /\ n["packV"] > 0
                 /\ r \in {"lineV", "lineA"} => charging]
      lat == first(<< p.merged.lat, p.v3["lat"] >>)
      lon == first(<< p.merged.lon, p.v3["lon"] >>)
  IN  [online |-> online,
       soc |-> soc,
       colour |-> IF ~IsNum(soc) \/ ~online THEN "grey"
                  ELSE IF soc >= 70 THEN "green" ELSE IF soc >= 30 THEN "yellow" ELSE "red",
       bar |-> IF ~IsNum(soc) \/ soc < 0 THEN 0 ELSE IF soc > 100 THEN 100 ELSE soc,
       sweep |-> charging /\ online,
       isCharging |-> charging,
       eta |-> IF limit > 0 /\ limit < 100 /\ toLimit # << >> THEN << limit >> \o toLimit
               ELSE IF toFull # << >> THEN << 100 >> \o toFull ELSE << >>,
       stateTile |-> state,
       stateLine |-> IF ~charging /\ state # Done THEN state ELSE Missing,
       mode |-> first(<< p.v3["mode"], p.merged.mode >>),
       tiles |-> [r \in Tiles |-> IF ~show[r] THEN NoText
                                  ELSE IF r \in Distances THEN distance(n[r])
                                  ELSE IF r \in Temperatures
                                  THEN temperature(n[r]) ELSE Text(n[r], "")],
       position |-> IF IsNum(lat) /\ IsNum(lon) /\ ~(lat = 0 /\ lon = 0) THEN << lat, lon >> ELSE << >>,
       seen |-> relative(p.age),
       locked |-> flag(<< p.v3["locked"], p.v2["locked"] >>),
       isOn |-> flag(<< p.v3["on"], p.v2["on"] >>) = 1]

view == derive(build_vehicle_live_payload)

----------------------------------------------------------------------------
ViewNext ==
  \/ \E part \in DOMAIN Part : ReceiveFrame(part)
  \/ \E r \in reports : Publish(r) \/ GrowStale(r)
  \/ evict_stale_metrics \/ OnlineChanges

\* The readings NewestIsShown is about, of each way derive() takes.
Followed == {"v12", "batteryTemp", "soh"}

\* Time passes and housekeeping runs every hour; nobody has to report anything.
ViewFairness == (\A r \in Followed : WF_viewVars(GrowStale(r))) /\ WF_viewVars(evict_stale_metrics)

ViewSpec == ViewInit /\ [][ViewNext]_viewVars /\ ViewFairness

----------------------------------------------------------------------------
(* Properties. *)

\* The last report of a reading, V3 before V2: a metric the store has hides the field
\* of a merged reading even if it is no number, only for the state of health derive()
\* asks the frame again.  Distances in km.
FromV2(r) == IF r \notin Distances \/ ~IsNum(frame[r]) THEN frame[r]
             ELSE LET d == IF r = "range" THEN frame[r] ELSE frame[r] \div 10
                  IN  IF units = M THEN (d * 8) \div 5 ELSE d
Reported(r) == IF IsNum(metrics[r]) \/ (r \in Merged \ {"soh"} /\ metrics[r] = Null) THEN metrics[r] ELSE FromV2(r)
Known(r) == IsNum(Reported(r))

Seconds(unit) == CASE unit = "now" -> 90 [] unit = "minute" -> 60 [] unit = "hour" -> 3600 [] unit = "day" -> 86400

\* What a text says, in km and degrees Celsius.
Says(t) == CASE t.unit = "mi" -> (t.n * 8) \div 5 [] t.unit = "F" -> ((t.n - 32) * 5) \div 9 [] OTHER -> t.n

\* The payload has the vehicle's unit: see DistancesAreReported for when it has not.
UnitsClear == units = K \/ (~logging /\ MergedUnits = M)

(* Whatever mix of frames and metrics a vehicle has sent, and in whichever  *)
(* unit the page reads, a tile shows the last report of its reading, V3     *)
(* before V2, and it is hidden only if there is none, if it is the zero of  *)
(* a reading that has no zero, or if the charger or the pack is not read.   *)
(* Offline nothing looks current, a charge line never contradicts the bar,  *)
(* and the age shown is the age up to half a unit.                          *)
ShownIsReported ==
  LET v == view
      Zero(r) == Known(r) /\ Reported(r) <= 0
  IN  /\ \A r \in Tiles \ {"power"} : (r \in Distances => UnitsClear) =>
           IF v.tiles[r] # NoText THEN Known(r) /\ Says(v.tiles[r]) = Reported(r)
           ELSE \/ ~Known(r)
                \/ Zero(r) /\ r \in {"energy", "v12", "soh", "odometer", "trip", "packV", "lineV", "motorTemp", "cabinTemp"}
                \/ r \in {"lineV", "lineA"} /\ ~v.isCharging
                \/ r = "packA" /\ v.tiles["packV"] = NoText
      /\ v.tiles["power"] # NoText <=>
           Known("power") \/ (Known("lineV") /\ Known("lineA"))
      /\ v.soc = num(Reported("soc"))
      /\ v.eta # << >> => << v.eta[2] * 60 + v.eta[3] >> \in
           IF v.eta[1] < 100 THEN {<< Reported("toLimit") >>} ELSE {<< Reported("toFull") >>, << frame["duration"] >>}
      /\ v.position # << >> => v.position = << Reported("lat"), Reported("lon") >>
      /\ ~v.online => v.colour = "grey" /\ ~v.sweep
      /\ v.sweep => v.stateLine = Missing
      /\ LET unit == Seconds(v.seen.unit) IN age - v.seen.n * unit \in -(unit \div 2)..(unit \div 2)

(* A distance that is shown is one the vehicle reported, also if it counts  *)
(* in miles: "V3 publishes the odometer in km; the V2 frame in the          *)
(* vehicle's units" (vehicle_live_view.js:181).                             *)
DistancesAreReported ==
  \A r \in Distances : view.tiles[r] # NoText => Says(view.tiles[r]) = Reported(r)

(* A vehicle that went over from V3 to V2 is not shown its last V3 readings *)
(* for ever: once the frames bring a reading, it is shown in the end,       *)
(* unless the metric is published again.                                    *)
NewestIsShown ==
  \A r \in Followed :
    last = "v2" /\ IsNum(frame[r]) /\ frame[r] > 0
      ~> last = "v3" \/ ~IsNum(frame[r]) \/ frame[r] <= 0 \/ Says(view.tiles[r]) = frame[r]
============================================================================
