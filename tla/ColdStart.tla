------------------------------- MODULE ColdStart -------------------------------
(***************************************************************************)
(* The first start of TLVFlow, without a state.json: the rows of           *)
(* vehicles.csv and stations.csv are read one by one, rows that are no     *)
(* good are skipped, and then every vehicle is docked at the station it    *)
(* names.  Nothing else runs meanwhile.                                    *)
(*                                                                         *)
(* A field of a row is its value, or one of three marks: Blank; Junk, a    *)
(* text that the parser of the field raises ValueError for; Missing, when  *)
(* the row is shorter than the header.  csv.DictReader gives None for a    *)
(* missing field, and None.strip() raises AttributeError, which the loops  *)
(* do not catch: the startup is aborted.  A column the header lacks reads  *)
(* as Blank.                                                               *)
(*                                                                         *)
(* load_from_csv fills a dictionary once its file has been read; here each *)
(* row goes straight into the dictionary, which nobody sees meanwhile.     *)
(*                                                                         *)
(* An operator X_Suffix is a plausible bug in the code of X and part of no *)
(* specification.                                                          *)
(***************************************************************************)
EXTENDS Lists, FiniteSets

CONSTANTS
  VehicleIds,    \* vehicle ids in the files
  Dates,         \* last_treated_date values
  VehicleFiles,  \* BOUND: the vehicles.csv a start may find, sequences of rows
  StationFiles,  \* BOUND: the stations.csv a start may find
  Blank, Junk, Missing,
  None           \* Python's None

Marks == {Blank, Junk, Missing}

TypeMap == [bicycle |-> "bike", electric_bicycle |-> "ebike", scooter |-> "scooter"]
Types == {"bike", "ebike", "scooter"}
Statuses == {"available", "in_use", "awaiting_report_review", "degraded"}

\* `extra` is the column only this type of vehicle reads: has_child_seat (1 for
\* a true one) of a bike, battery_health of the others.  A blank frame number
\* is made up from the id.
VehicleRows == [id : VehicleIds \cup {Blank, Missing},
                frame : {"good", Blank, Missing},
                type : Types \cup DOMAIN TypeMap \cup Marks,
                status : Statuses \cup Marks,
                rides : Int \cup Marks, extra : Int \cup Marks,
                date : Dates \cup Marks, station : Int \cup Marks]

\* `place` stands for the name, the latitude and the longitude.
StationRows == [id : Int \cup Marks, place : {"good"} \cup Marks, capacity : Int \cup Marks]

ASSUME MarkAssumption ==
  /\ \A m \in Marks \cup {None} :
       m \notin Int \cup VehicleIds \cup Dates \cup Types \cup DOMAIN TypeMap
                    \cup Statuses \cup {"good"}
  /\ None \notin Marks

ASSUME FileAssumption == /\ VehicleFiles \subseteq Seq(VehicleRows)
                         /\ StationFiles \subseteq Seq(StationRows)

VARIABLES
  files,     \* the two files
  phase,     \* "vehicles", "stations", "link", "serving" or "failed"
  cursor,    \* the row, or the vehicle to link, that comes next
  vehicle,   \* VehicleRepository: id -> vehicle, a partial function
  order,     \* the insertion order of its dictionary
  capacity,  \* StationRepository: id -> capacity, a partial function
  docked,    \* Station._vehicles of each of them
  pool       \* DegradedVehiclesRepository: ids in insertion order

repositories == <<vehicle, order, capacity, docked, pool>>
cvars == <<files, phase, cursor, repositories>>

-----------------------------------------------------------------------------
(* One row of vehicles.csv.                                                 *)

VehicleType(raw) == IF raw \in DOMAIN TypeMap THEN TypeMap[raw] ELSE raw

ParseStatus(value) == IF value = Blank THEN "available" ELSE value

ParseInt(value, default) == IF value = Blank THEN default ELSE value

\* Every text but a true one is False.
ParseBool(value) == IF value = 1 THEN 1 ELSE 0

\* A date that does not parse is no error.
ParseDate(value) == IF value \in {Blank, Junk} THEN None ELSE value

Clamp(n) == IF n < 0 THEN 0 ELSE IF n > 100 THEN 100 ELSE n

\* The constructors of EBike and Scooter.
BatteryAccepted(battery) == battery \in 0..100

\* What is read before the row is looked at.
HeadRead(row) == Missing \notin {row.id, row.frame, row.type, row.status, row.rides}

HeadGood_NoIdCheck(row) == /\ row.rides # Junk
                           /\ VehicleType(row.type) \in Types
                           /\ ParseStatus(row.status) \in Statuses

HeadGood(row) == /\ row.rides # Junk
                 /\ row.id # Blank
                 /\ VehicleType(row.type) \in Types
                 /\ ParseStatus(row.status) \in Statuses

Extra(row) == IF VehicleType(row.type) = "bike" THEN ParseBool(row.extra)
                                                ELSE Clamp(ParseInt(row.extra, 100))

ExtraGood(row) ==
  VehicleType(row.type) = "bike" \/ (row.extra # Junk /\ BatteryAccepted(Extra(row)))

RowAborts(row) ==
  \/ ~HeadRead(row)
  \/ HeadGood(row) /\ row.extra = Missing
  \/ HeadGood(row) /\ ExtraGood(row) /\ Missing \in {row.date, row.station}

RowLoads(row) ==
  ~RowAborts(row) /\ HeadGood(row) /\ ExtraGood(row) /\ row.station # Junk

VehicleOf(row) ==
  [type |-> VehicleType(row.type), status |-> ParseStatus(row.status),
   rides |-> ParseInt(row.rides, 0), extra |-> Extra(row),
   date |-> ParseDate(row.date),
   station |-> IF row.station = Blank THEN None ELSE row.station]

\* One row of stations.csv; the constructor of Station checks the ranges.
StationAborts(row) == Missing \in {row.id, row.place, row.capacity}

StationLoads_AnyCapacity(row) ==
  /\ ~StationAborts(row) /\ row.place = "good"
  /\ row.id \in Nat /\ row.capacity \in Int

StationLoads(row) ==
  /\ ~StationAborts(row) /\ row.place = "good"
  /\ row.id \in Nat /\ row.capacity \in Nat /\ row.capacity > 0

-----------------------------------------------------------------------------
ColdInit ==
  /\ files \in [vehicles : VehicleFiles, stations : StationFiles]
  /\ phase = "vehicles"
  /\ cursor = 1
  /\ vehicle = EmptyDict
  /\ order = <<>>
  /\ capacity = EmptyDict
  /\ docked = EmptyDict
  /\ pool = <<>>

Skip == phase' = phase /\ cursor' = cursor + 1 /\ UNCHANGED repositories

Abort == phase' = "failed" /\ UNCHANGED <<cursor, repositories>>

\* A later row with the same id replaces the vehicle and keeps its place.
AddVehicle_Appends(id, v) ==
  /\ vehicle' = Put(vehicle, id, v)
  /\ order' = Append(order, id)

AddVehicle(id, v) ==
  /\ vehicle' = Put(vehicle, id, v)
  /\ order' = IF id \in DOMAIN vehicle THEN order ELSE Append(order, id)

ReadVehicle ==
  /\ phase = "vehicles" /\ cursor \in DOMAIN files.vehicles
  /\ LET row == files.vehicles[cursor]
     IN  \/ RowAborts(row) /\ Abort
         \/ ~RowAborts(row) /\ ~RowLoads(row) /\ Skip
         \/ /\ RowLoads(row)
            /\ AddVehicle(row.id, VehicleOf(row))
            /\ cursor' = cursor + 1
            /\ UNCHANGED <<phase, capacity, docked, pool>>
  /\ UNCHANGED files

ReadStation ==
  /\ phase = "stations" /\ cursor \in DOMAIN files.stations
  /\ LET row == files.stations[cursor]
     IN  \/ StationAborts(row) /\ Abort
         \/ ~StationAborts(row) /\ ~StationLoads(row) /\ Skip
         \/ /\ StationLoads(row)
            /\ capacity' = Put(capacity, row.id, row.capacity)
            /\ docked' = Put(docked, row.id, <<>>)
            /\ cursor' = cursor + 1
            /\ UNCHANGED <<phase, vehicle, order, pool>>
  /\ UNCHANGED files

-----------------------------------------------------------------------------
(* Linking.                                                                 *)

Full(s) == Len(docked[s]) = capacity[s]

\* Station.dock, which raises if the station is full.
DockAt(s, v) ==
  /\ docked' = [docked EXCEPT ![s] = Append(@, v)]
  /\ vehicle' = [vehicle EXCEPT ![v].station = s]

Linkable_NotFullCheck(s) == s \in DOMAIN capacity

Linkable_OneEarly(s) == s \in DOMAIN capacity /\ Len(docked[s]) + 1 < capacity[s]

Linkable(s) == s \in DOMAIN capacity /\ ~Full(s)

PoolVehicle_KeepsStation(v) ==
  pool' = Append(pool, v) /\ UNCHANGED vehicle

PoolVehicle(v) ==
  /\ pool' = Append(pool, v)
  /\ vehicle' = [vehicle EXCEPT ![v].station = None]

\* A vehicle whose station is unknown or full keeps naming it.
LinkVehicle ==
  /\ phase = "link" /\ cursor \in DOMAIN order
  /\ LET v == order[cursor]
         s == vehicle[v].station
     IN  \/ /\ vehicle[v].status = "degraded"
            /\ PoolVehicle(v)
            /\ UNCHANGED <<phase, docked>>
         \/ /\ vehicle[v].status # "degraded" /\ ~Linkable(s)
            /\ UNCHANGED <<phase, vehicle, docked, pool>>
         \/ /\ vehicle[v].status # "degraded" /\ Linkable(s)
            /\ IF Full(s) THEN phase' = "failed" /\ UNCHANGED <<vehicle, docked>>
                          ELSE DockAt(s, v) /\ UNCHANGED phase
            /\ UNCHANGED pool
  /\ cursor' = cursor + 1
  /\ UNCHANGED <<files, order, capacity>>

\* The loop over the rows, or over the vehicles, is over.
NextPhase(from, length, to) ==
  /\ phase = from /\ cursor = length + 1
  /\ phase' = to
  /\ cursor' = 1
  /\ UNCHANGED <<files, repositories>>

ColdNext ==
  \/ ReadVehicle
  \/ NextPhase("vehicles", Len(files.vehicles), "stations")
  \/ ReadStation
  \/ NextPhase("stations", Len(files.stations), "link")
  \/ LinkVehicle
  \/ NextPhase("link", Len(order), "serving")

ColdSpec == ColdInit /\ [][ColdNext]_cvars

-----------------------------------------------------------------------------
(* Properties.                                                              *)

VehicleTyped(v) ==
  /\ v \in [type : Types, status : Statuses, rides : Int, extra : 0..100,
            date : Dates \cup {None}, station : Int \cup {None}]
  /\ v.type = "bike" => v.extra \in {0, 1}

\* Whatever the files hold, every vehicle in memory satisfies the constructors
\* of vehicles.py and every station those of stations.py.
TypeOK ==
  /\ phase \in {"vehicles", "stations", "link", "serving", "failed"}
  /\ cursor \in Nat \ {0}
  /\ DOMAIN vehicle \subseteq VehicleIds
  /\ \A v \in DOMAIN vehicle : VehicleTyped(vehicle[v])
  /\ order \in Seq(DOMAIN vehicle)
  /\ DOMAIN capacity \subseteq Nat /\ \A s \in DOMAIN capacity : capacity[s] \in Nat \ {0}
  /\ docked \in [DOMAIN capacity -> Seq(DOMAIN vehicle)]
  /\ pool \in Seq(DOMAIN vehicle)

\* No station holds more vehicles than its capacity, although Station.is_full
\* is an equality that a station beyond its capacity, or one of a negative
\* capacity, would escape (README.md:27 "capacity enforcement", stations.py:65).
CapacityRespected == \A s \in DOMAIN docked : Len(docked[s]) <= capacity[s]

\* A vehicle stands in one place at most: once in one station, which is the one
\* it names, or in the degraded pool, naming none (link_vehicles.py:35-40).
DockedOnce ==
  /\ \A s \in DOMAIN docked : \A i \in DOMAIN docked[s] :
       /\ vehicle[docked[s][i]].station = s
       /\ \A j \in DOMAIN docked[s] : docked[s][i] = docked[s][j] => i = j
  /\ \A i \in DOMAIN pool :
       /\ vehicle[pool[i]].station = None
       /\ \A j \in DOMAIN pool : pool[i] = pool[j] => i = j

NowhereToDock(v) ==
  LET s == vehicle[v].station
  IN  s = None \/ s \notin DOMAIN capacity \/ Full(s)

\* Linking forgets no vehicle: each one it has passed is in the pool, or docked,
\* or names a station that does not exist or has filled up
\* (link_vehicles.py:28-33).
EveryVehiclePlaced ==
  phase = "link" =>
    \A i \in DOMAIN order :
      i < cursor =>
        \/ order[i] \in Elements(pool)
        \/ \E s \in DOMAIN docked : order[i] \in Elements(docked[s])
        \/ NowhereToDock(order[i])

\* Of the good rows with the same id the last one counts, and a bad row after it
\* changes nothing; a vehicle keeps its one place in the dictionary
\* (in_memory.py:32).
LastRowWins ==
  LET rows == files.vehicles
      good == {i \in DOMAIN rows : RowLoads(rows[i])}
      Same(v, row) == [v EXCEPT !.station = None] = [VehicleOf(row) EXCEPT !.station = None]
  IN  phase \in {"stations", "link"} =>
        /\ Elements(order) = DOMAIN vehicle /\ DOMAIN vehicle = {rows[i].id : i \in good}
        /\ \A i, j \in DOMAIN order : order[i] = order[j] => i = j
        /\ \A i \in good : (\A j \in good : rows[j].id = rows[i].id => j <= i)
                           => Same(vehicle[rows[i].id], rows[i])

\* A startup fails over a row that is too short and over nothing else: no bad
\* value, no full station and no repeated id stops the service from starting
\* (loaders.py:162, link_vehicles.py:56).
FailsOnlyOnShortRow ==
  phase = "failed" =>
    \/ \E i \in DOMAIN files.vehicles :
         LET row == files.vehicles[i]
         IN  Missing \in {row.id, row.frame, row.type, row.status, row.rides,
                          row.extra, row.date, row.station}
    \/ \E i \in DOMAIN files.stations : StationAborts(files.stations[i])
=============================================================================
