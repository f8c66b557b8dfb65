------------------------------ MODULE Maintenance ------------------------------
(***************************************************************************)
(* The fleet after the cold start: vehicles are ridden from station to     *)
(* station, reported into the degraded pool, treated in batches that leave *)
(* maintenance events behind, and survive restarts through state.json.     *)
(* Here the stations and the pool keep the order of their lists, and       *)
(* vehicles their types; who rides, who pays and who waits for which lock  *)
(* is the matter of RideService and Restart.                               *)
(*                                                                         *)
(* Of a ride only the charge is awaited, so its end takes two steps.       *)
(* treat_vehicles is a step per vehicle, because it draws a station for    *)
(* each; nothing comes between those steps but the death of the process.   *)
(*                                                                         *)
(* A reported vehicle leaves the vehicle repository and never comes back   *)
(* to it; the object lives on in the pool and in the stations until the    *)
(* next startup.                                                           *)
(***************************************************************************)
EXTENDS ColdStart, SequencesExt

CONSTANTS
  PlainCapacity,  \* the capacities in a stations.csv of good rows, per station id
  Today,          \* date.today()
  TreatAt,        \* is_treatment_eligible threshold (7 in the code)
  RentLimit,      \* is_unrentable threshold (10 in the code)
  MaxEvents,      \* BOUND: maintenance events in a behaviour
  MaxRides        \* BOUND: rides since the last treatment after which none starts

ASSUME PlainAssumption == /\ DOMAIN PlainCapacity \subseteq Nat
                          /\ \A s \in DOMAIN PlainCapacity : PlainCapacity[s] \in Nat \ {0}
ASSUME TodayAssumption == Today \in Dates
ASSUME BoundAssumption == /\ TreatAt \in Nat /\ RentLimit \in Nat
                          /\ MaxEvents \in Nat /\ MaxRides \in Nat

VARIABLES
  batch,    \* what the running treat_vehicles loop has left
  log,      \* MaintenanceRepository: the events in dictionary order
  index,    \* _event_ids_by_vehicle_id: vehicle -> event ids, a partial function
  ridden,   \* vehicle id -> None while a ride on it is active, or the station found
            \* for it while the charge is awaited, a partial function
  disk      \* state.json, or None while there is no such file

events == <<log, index>>
mvars == <<cvars, batch, events, ridden, disk>>

Idle == phase = "serving" /\ batch = <<>>

\* The vehicle repository: `vehicle` holds every object since the last startup,
\* `order` the keys that are left.
Repository == Elements(order)

-----------------------------------------------------------------------------
(* Vehicles and events.                                                     *)

TreatmentEligible(v) == vehicle[v].rides >= TreatAt

\* get_required_treatments; EBike inherits the one of Vehicle.
RequiredTreatments ==
  [bike    |-> <<"chain_lubrication", "general_inspection">>,
   ebike   |-> <<"general_inspection">>,
   scooter |-> <<"battery_inspection", "scooter_firmware_update">>]

\* complete_maintenance, then set_status.
Treated(v) == [v EXCEPT !.rides = 0, !.date = Today, !.status = "available"]

\* An event is closed as soon as it is opened, and its report_id is always "".
Event(id, v) ==
  [id |-> id, vehicle |-> v, treatments |-> RequiredTreatments[vehicle[v].type]]

AddEvent(event) ==
  /\ log' = Append(log, event)
  /\ index' = Filed(index, event.vehicle, event.id)

-----------------------------------------------------------------------------
(* Rides.                                                                   *)

\* A list that has v once.
CheckOut_StaysListed(s, v) == UNCHANGED docked

CheckOut(s, v) == docked' = [docked EXCEPT ![s] = RemoveFirst(@, v)]

\* A vehicle of station s, with the status the handler gives it.
StartRide(s, v, status) ==
  /\ Idle /\ v \in Elements(docked[s])
  /\ vehicle[v].rides < MaxRides
  /\ CheckOut(s, v)
  /\ vehicle' = [vehicle EXCEPT ![v] = [@ EXCEPT !.station = None, !.status = status]]
  /\ ridden' = Put(ridden, v, None)
  /\ UNCHANGED <<files, phase, cursor, order, capacity, pool, batch, events, disk>>

StartByVehicle(v) ==
  /\ v \in Repository /\ vehicle[v].station \in DOMAIN docked
  /\ StartRide(vehicle[v].station, v, vehicle[v].status)

\* Which of the eligible vehicles it is, is the matter of RideService.
StartByLocation(s, v) ==
  /\ vehicle[v].status = "available" /\ vehicle[v].rides <= RentLimit
  /\ StartRide(s, v, "in_use")

StartAtStation(s) == docked[s] # <<>> /\ StartRide(s, Last(docked[s]), "in_use")

\* The ride is completed, and the charge awaited.
BeginEnd(v) ==
  /\ Idle /\ v \in DOMAIN ridden /\ ridden[v] = None
  /\ \E s \in DOMAIN docked : ~Full(s) /\ ridden' = [ridden EXCEPT ![v] = s]
  /\ UNCHANGED <<cvars, batch, events, disk>>

Returned(v, s) == [v EXCEPT !.station = s, !.status = "available", !.rides = @ + 1]

\* Only a vehicle of the repository is docked, and only if the station has not
\* filled up meanwhile.
FinishEnd(v) ==
  /\ Idle /\ v \in DOMAIN ridden /\ ridden[v] # None
  /\ LET s == ridden[v]
     IN  \/ /\ v \in Repository /\ ~Full(s)
            /\ docked' = [docked EXCEPT ![s] = Append(@, v)]
            /\ vehicle' = [vehicle EXCEPT ![v] = Returned(@, s)]
         \/ (v \notin Repository \/ Full(s)) /\ UNCHANGED <<docked, vehicle>>
  /\ ridden' = Without(ridden, v)
  /\ UNCHANGED <<files, phase, cursor, order, capacity, pool, batch, events, disk>>

-----------------------------------------------------------------------------
(* The degraded pool.                                                       *)

DockedAt(v) == {s \in DOMAIN docked : v \in Elements(docked[s])}

Pooled(v) == IF v \in Elements(pool) THEN pool ELSE Append(pool, v)

\* The rider reports the vehicle: the ride ends, and the vehicle repository
\* loses it.
Report(v) ==
  /\ Idle /\ v \in DOMAIN ridden /\ ridden[v] = None
  /\ v \in Repository
  /\ vehicle' = [vehicle EXCEPT ![v].status = "degraded"]
  /\ order' = Dropped(order, v)
  /\ pool' = Pooled(v)
  /\ ridden' = Without(ridden, v)
  /\ UNCHANGED <<files, phase, cursor, capacity, docked, batch, events, disk>>

\* Station.undock raises when v is not in the station it names.
MarkDegraded(v) ==
  /\ Idle /\ v \in Repository
  /\ LET s == vehicle[v].station
     IN  /\ s \in DOMAIN docked
         /\ v \in Elements(docked[s])
         /\ docked' = [docked EXCEPT ![s] = RemoveFirst(@, v)]
  /\ vehicle' = [vehicle EXCEPT ![v].station = None]
  /\ pool' = Pooled(v)
  /\ UNCHANGED <<files, phase, cursor, order, capacity, batch, events, ridden, disk>>

\* With no station to go to the vehicle is put back, behind the others.
BackToPool(v) == pool' = Append(Dropped(pool, v), v)

UnmarkDegraded(v) ==
  /\ Idle /\ v \in Elements(pool)
  /\ LET free == {s \in DOMAIN docked : ~Full(s)}
     IN  \/ \E s \in free : DockAt(s, v) /\ pool' = Dropped(pool, v)
         \/ free = {} /\ BackToPool(v) /\ UNCHANGED <<docked, vehicle>>
  /\ UNCHANGED <<files, phase, cursor, order, capacity, batch, events, ridden, disk>>

-----------------------------------------------------------------------------
(* treat_vehicles.                                                          *)

HighRide_PooledToo == Kept(order, {v \in Repository : TreatmentEligible(v)})

HighRide == Kept(order, {v \in Repository : TreatmentEligible(v)} \ Elements(pool))

\* The batch is drawn up before the first vehicle is treated.
StartTreating ==
  /\ Idle
  /\ Len(log) + Len(pool) + Len(HighRide) <= MaxEvents
  /\ batch' = [i \in DOMAIN pool |-> [id |-> pool[i], pooled |-> TRUE]]
               \o [i \in DOMAIN HighRide |->
                     [id |-> HighRide[i], pooled |-> HighRide[i] \in Elements(pool)]]
  /\ UNCHANGED <<cvars, events, ridden, disk>>

\* Out of the station it may be in, and into s.
Relocated(v, s) ==
  [t \in DOMAIN docked |-> IF t = s THEN Append(docked[t], v) ELSE RemoveFirst(docked[t], v)]

Relocate_Skipped(v) == vehicle' = [vehicle EXCEPT ![v] = Treated(@)] /\ UNCHANGED docked

\* A pooled vehicle goes to a station with a free slot other than its own; it
\* stays where it is when there is none.
Relocate(v) ==
  LET candidates == {s \in DOMAIN docked : ~Full(s)} \ DockedAt(v)
  IN  \/ \E s \in candidates :
           /\ docked' = Relocated(v, s)
           /\ vehicle' = [vehicle EXCEPT ![v] = [Treated(@) EXCEPT !.station = s]]
      \/ /\ candidates = {}
         /\ vehicle' = [vehicle EXCEPT ![v] = Treated(@)]
         /\ UNCHANGED docked

TreatNext ==
  /\ phase = "serving" /\ batch # <<>>
  /\ LET v == Head(batch).id
     IN  /\ AddEvent(Event(Len(log) + 1, v))
         /\ IF Head(batch).pooled
            THEN Relocate(v) /\ pool' = Dropped(pool, v)
            ELSE /\ vehicle' = [vehicle EXCEPT ![v] = Treated(@)]
                 /\ UNCHANGED <<docked, pool>>
  /\ batch' = Tail(batch)
  /\ UNCHANGED <<files, phase, cursor, order, capacity, ridden, disk>>

-----------------------------------------------------------------------------
(* Restarts.                                                                *)

\* A bike is written with has_child_seat and no battery_health, the others the
\* other way round.
VehicleToDict(v) ==
  [type |-> v.type, status |-> v.status, rides |-> v.rides, date |-> v.date,
   station |-> v.station,
   childSeat |-> IF v.type = "bike" THEN v.extra ELSE None,
   battery |-> IF v.type # "bike" THEN v.extra ELSE None]

VehicleFromDict_NoBattery(d) ==
  [type |-> d.type, status |-> d.status, rides |-> d.rides, date |-> d.date,
   station |-> d.station, extra |-> IF d.childSeat = None THEN 0 ELSE d.childSeat]

VehicleFromDict_Scooters(d) ==
  [type |-> IF d.type = "ebike" THEN "scooter" ELSE d.type, status |-> d.status,
   rides |-> d.rides, date |-> d.date, station |-> d.station,
   extra |-> CASE d.type = "bike" -> IF d.childSeat = None THEN 0 ELSE d.childSeat
               [] OTHER -> IF d.battery = None THEN 100 ELSE d.battery]

\* A missing battery_health reads as 100, a missing has_child_seat as False.
VehicleFromDict(d) ==
  [type |-> d.type, status |-> d.status, rides |-> d.rides, date |-> d.date,
   station |-> d.station,
   extra |-> CASE d.type = "bike" -> IF d.childSeat = None THEN 0 ELSE d.childSeat
               [] OTHER -> IF d.battery = None THEN 100 ELSE d.battery]

\* Only the vehicles of the repository are written out; the stations and the
\* pool write ids, and of the rides the active ones matter here.
Snapshot ==
  [vehicles |-> [v \in Repository |-> VehicleToDict(vehicle[v])], order |-> order,
   capacity |-> capacity, vehicleIds |-> docked, maintenance |-> log, degraded |-> pool,
   rides |-> {v \in DOMAIN ridden : ridden[v] = None}]

RestoreVehicles(d, relisted, back) ==
  vehicle' = [v \in DOMAIN d.vehicles |->
    LET at == {s \in DOMAIN relisted : v \in Elements(relisted[s])}
        restored == VehicleFromDict(d.vehicles[v])
    IN  CASE at = {} -> restored
          [] at # {} /\ v \in Elements(back) -> [restored EXCEPT !.station = None]
          [] OTHER -> [restored EXCEPT !.station = CHOOSE s \in at : TRUE]]

\* Both dictionaries are emptied and the events are added again.
RestoreEvents(d) ==
  /\ log' = d.maintenance
  /\ index' = Grouped(d.maintenance, [e \in Elements(d.maintenance) |-> e.vehicle],
                       [e \in Elements(d.maintenance) |-> e.id])

\* A startup with a snapshot d: the listed vehicles that are known are docked
\* again, in the order of the list, and the pooled ones are taken out of their
\* stations.
Startup(d) ==
  LET known == DOMAIN d.vehicles
      relisted == [s \in DOMAIN d.vehicleIds |-> Kept(d.vehicleIds[s], known)]
      back == Kept(d.degraded, known)
  IN  /\ RestoreVehicles(d, relisted, back)
      /\ order' = d.order
      /\ capacity' = d.capacity
      /\ docked' = [s \in DOMAIN relisted |-> Kept(relisted[s], known \ Elements(back))]
      /\ pool' = back
      /\ phase' = IF \E s \in DOMAIN relisted : Len(relisted[s]) > d.capacity[s]
                  THEN "failed" ELSE "serving"
      /\ batch' = <<>>
      /\ ridden' = [v \in d.rides |-> None]
      /\ RestoreEvents(d)
      /\ UNCHANGED <<files, cursor>>

\* A graceful shutdown, which waits for the requests in flight, and the next
\* startup.
Restart ==
  /\ Idle /\ \A v \in DOMAIN ridden : ridden[v] = None
  /\ disk' = Snapshot
  /\ Startup(Snapshot)

ColdStartAgain ==
  /\ phase' = "vehicles" /\ cursor' = 1
  /\ vehicle' = EmptyDict /\ order' = <<>>
  /\ capacity' = EmptyDict /\ docked' = EmptyDict
  /\ pool' = <<>> /\ batch' = <<>>
  /\ log' = <<>> /\ index' = EmptyDict /\ ridden' = EmptyDict
  /\ UNCHANGED files

\* Nothing is written.  Without a state.json the next startup is a cold start.
Crash ==
  /\ phase = "serving"
  /\ IF disk = None THEN ColdStartAgain ELSE Startup(disk)
  /\ UNCHANGED disk

-----------------------------------------------------------------------------
Init ==
  /\ ColdInit
  /\ batch = <<>> /\ log = <<>> /\ index = EmptyDict /\ ridden = EmptyDict
  /\ disk = None

Next ==
  \/ ColdNext /\ UNCHANGED <<batch, events, ridden, disk>>
  \/ \E v \in DOMAIN vehicle : StartByVehicle(v)
  \/ \E v \in DOMAIN vehicle, s \in DOMAIN docked : StartByLocation(s, v)
  \/ \E s \in DOMAIN docked : StartAtStation(s)
  \/ \E v \in VehicleIds : BeginEnd(v) \/ FinishEnd(v) \/ Report(v)
  \/ \E v \in VehicleIds : MarkDegraded(v) \/ UnmarkDegraded(v)
  \/ StartTreating
  \/ TreatNext
  \/ Restart
  \/ Crash

Spec == Init /\ [][Next]_mvars

-----------------------------------------------------------------------------
(* Properties.                                                              *)

\* The second map of MaintenanceRepository lists the events of a vehicle, all of
\* them, once each and in the order they were added, across restarts too
\* (maintenance_repository.py:17, :41-50).
EventIndexConsistent ==
  \A v \in VehicleIds :
    LET own == Kept(log, {e \in Elements(log) : e.vehicle = v})
        ids == Listed(index, v)
    IN  /\ ids = [i \in DOMAIN own |-> own[i].id]
        /\ \A i, j \in DOMAIN ids : ids[i] = ids[j] => i = j

\* An event lists the treatments of the type its vehicle has now, so no restart
\* and no crash changes the type of a treated vehicle (README.md:31).  A vehicle
\* that was reported before it was treated may be gone after a restart; its
\* events stay (vehicles_service.py:102).
EventsFitVehicles ==
  \A i \in DOMAIN log :
    LET v == log[i].vehicle
    IN  v \in DOMAIN vehicle => log[i].treatments = RequiredTreatments[vehicle[v].type]

\* An event is written for a vehicle that is due at that moment, although the
\* batch was drawn up before: one in the pool or with TreatAt rides or more.
\* A vehicle that is both is not treated twice (vehicles_service.py:29).
OnlyDueTreated ==
  [][TreatNext => LET v == log'[Len(log')].vehicle
                  IN  v \in Elements(pool) \/ TreatmentEligible(v)]_mvars

\* Short of a crash a vehicle leaves the pool into a station with a free slot.
\* Two exceptions: a treatment while no station has one releases it to nowhere,
\* and a restart forgets a reported vehicle (vehicles_service.py:66, :102,
\* degraded_vehicles_repository.py:66).
PoolLeavesDocked ==
  [][Crash \/ \A v \in Elements(pool) :
       \/ v \in Elements(pool')
       \/ \E s \in DOMAIN docked : v \in Elements(docked'[s]) /\ ~Full(s)
       \/ TreatNext /\ \A s \in DOMAIN docked : Full(s)
       \/ Restart /\ v \notin Repository]_mvars

\* A graceful restart gives back every vehicle of the repository as it was, the
\* stations and the pool in their order but without the reported vehicles, and
\* the same active rides and events (README.md:331).
GracefulRestartKeepsFleet ==
  [][Restart =>
       /\ UNCHANGED <<phase, order, capacity, events, ridden>>
       /\ vehicle' = [v \in Repository |-> vehicle[v]]
       /\ docked' = [s \in DOMAIN docked |-> Kept(docked[s], Repository)]
       /\ pool' = Kept(pool, Repository)]_mvars

-----------------------------------------------------------------------------
(* What RideService starts from.                                            *)

Service == INSTANCE RideService WITH
  Users <- {}, Vehicles <- VehicleIds, Stations <- DOMAIN PlainCapacity, Locations <- {},
  Rides <- {}, Tasks <- {}, Capacity <- PlainCapacity,
  Dist <- [l \in {} |-> l], Within5m <- [l \in {} |-> l], Electric <- {},
  Rank <- [v \in VehicleIds |-> 0], RentLimit <- RentLimit, InitialRides <- Nat,
  Endpoints <- {},
  docked <- [s \in DOMAIN PlainCapacity |-> Elements(docked[s])],
  stationOf <- [v \in VehicleIds |-> vehicle[v].station],
  status <- [v \in VehicleIds |-> vehicle[v].status],
  ridesSince <- [v \in VehicleIds |-> vehicle[v].rides],
  vehicleRepo <- Repository,
  degraded <- Elements(pool),
  events <- [v \in VehicleIds |-> 0],
  ride <- EmptyDict, activeRide <- EmptyDict, charged <- EmptyDict, pro <- {},
  userLock <- EmptyDict, stationLock <- [s \in DOMAIN PlainCapacity |-> <<>>],
  pc <- EmptyDict, req <- EmptyDict, loop <- None, toTreat <- {}

\* Files like the shipped ones: every vehicle is degraded, or available and at a
\* known station.
PlainFleet ==
  /\ DOMAIN vehicle = VehicleIds /\ capacity = PlainCapacity
  /\ \A v \in VehicleIds :
       /\ vehicle[v].rides >= 0
       /\ \/ vehicle[v].status = "degraded"
          \/ vehicle[v].status = "available" /\ vehicle[v].station \in DOMAIN PlainCapacity

\* From such files linking leads to an initial state of RideService: the pool is
\* exactly the vehicles at no station, and whoever is not docked at the station
\* it names found it full (link_vehicles.py:34-63).
LinkingGivesInit ==
  phase = "link" /\ cursor = Len(order) + 1 /\ PlainFleet => Service!Init
=============================================================================
