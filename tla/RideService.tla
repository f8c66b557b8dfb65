------------------------------ MODULE RideService ------------------------------
(***************************************************************************)
(* The ride, vehicle and upgrade endpoints of TLVFlow, with the domain     *)
(* objects and in-memory repositories they share.                          *)
(*                                                                         *)
(* The service is one asyncio event loop.  A request handler runs without  *)
(* interruption until it awaits a lock that is not free, or the sleep in   *)
(* PaymentService.process_charge; every other await in the handlers runs   *)
(* straight through.  `loop` is the task that is running (None between     *)
(* two callbacks), so an action of another task is possible only where the *)
(* code really suspends.                                                   *)
(*                                                                         *)
(* A lock is the queue of the tasks that called acquire() on it: the head  *)
(* owns the lock, or is the waiter that release() has already woken.       *)
(* asyncio.Lock is first-in first-out and never lets a newcomer overtake.  *)
(*                                                                         *)
(* An operator X_Suffix, just before X, is a plausible bug in the code of  *)
(* X.  It is part of no specification: it serves to see that a property    *)
(* fails when X is replaced by it.                                         *)
(***************************************************************************)
EXTENDS Naturals, Sequences, FiniteSets

CONSTANTS
  Users,          \* registered users
  Vehicles,       \* vehicles of the fleet
  Stations,       \* stations
  Locations,      \* client positions (lon, lat)
  Rides,          \* BOUND: the uuid4 ride ids that can ever be drawn
  Tasks,          \* BOUND: requests in flight at the same time
  None,           \* Python's None
  Capacity,       \* Station.capacity
  Dist,           \* Dist[l][s]: squared distance used to rank stations
  Within5m,       \* Within5m[l]: stations at most 5 m away from l
  Electric,       \* vehicles whose is_electric is True
  Rank,           \* selection order: (bike, ebike, scooter), then vehicle_id
  TreatAt,        \* is_treatment_eligible threshold (7 in the code)
  RentLimit,      \* is_unrentable limit (10 in the code)
  InitialRides,   \* rides_since_last_treated of a vehicle at startup
  Endpoints       \* the ride endpoints clients call, a subset of AllEndpoints

AllEndpoints == {"start", "start-by-station", "start-by-vehicle", "end",
                 "report-degraded"}

ASSUME NoneAssumption == None \notin Users \cup Vehicles \cup Stations
                                     \cup Locations \cup Rides \cup Tasks
ASSUME FleetAssumption == /\ IsFiniteSet(Vehicles)
                          /\ Capacity \in [Stations -> Nat \ {0}]
                          /\ Electric \subseteq Vehicles
                          /\ Rank \in [Vehicles -> Nat]
                          /\ InitialRides \subseteq Nat
ASSUME MapAssumption == /\ Dist \in [Locations -> [Stations -> Nat]]
                        /\ Within5m \in [Locations -> SUBSET Stations]
ASSUME LimitAssumption == TreatAt \in Nat /\ RentLimit \in Nat
ASSUME EndpointAssumption == Endpoints \subseteq AllEndpoints

VARIABLES
  docked,       \* Station._vehicles, as a set
  stationOf,    \* Vehicle._station_id
  status,       \* Vehicle status
  ridesSince,   \* Vehicle.rides_since_last_treated
  vehicleRepo,  \* ids known to VehicleRepository
  degraded,     \* ids known to DegradedVehiclesRepository
  events,       \* closed MaintenanceEvents per vehicle
  ride,         \* RidesRepository: ride id -> ride
  activeRide,   \* ActiveUsersRepository: user -> ride id or None
  charged,      \* completed charges per ride
  pro,          \* users stored as ProUser
  userLock,     \* user_rides_locks: user -> queue of tasks
  stationLock,  \* station_locks: station -> queue of tasks
  pc,           \* where a request is suspended
  req,          \* what a request asked for and has looked up
  loop,         \* the task holding the event loop, or None
  toTreat       \* vehicles the running treat_vehicles loop has left

fleet == <<docked, stationOf, status, ridesSince, vehicleRepo, degraded, events>>
books == <<ride, activeRide, charged>>
locks == <<userLock, stationLock>>
tasks == <<pc, req, loop>>
vars  == <<fleet, books, pro, locks, tasks, toTreat>>

-----------------------------------------------------------------------------
(* Requests.  "x.user" waits for, or has just got, the user's lock;         *)
(* "x.station" the station's.                                               *)

StartPCs == {"start.user", "start.station", "station.station", "station.user",
             "vehicle.station", "vehicle.user"}

\* Suspension points at which the task is in the queue of req.user's lock.
UserPCs == {"start.user", "start.station", "station.user", "vehicle.user",
            "end.user", "end.charge", "end.dock", "report.user"}

\* Suspension points at which the task is in the queue of req.station's lock.
StationPCs == {"start.station", "station.station", "station.user",
               "vehicle.station", "vehicle.user", "end.dock"}

\* Suspension points reached only after that lock was granted.
UserOwnerPCs == {"start.station", "end.charge", "end.dock"}
StationOwnerPCs == {"station.user", "vehicle.user"}

PCs == UserPCs \cup StationPCs \cup {"idle"}

NoReq == [user |-> None, ride |-> None, station |-> None,
          vehicle |-> None, loc |-> None]

NoRide == [status |-> "none", user |-> None, vehicle |-> None, fee |-> 0]

RideFee == 15

-----------------------------------------------------------------------------
(* Domain queries.                                                          *)

Full(s) == Cardinality(docked[s]) = Capacity[s]

Unrentable(v) == ridesSince[v] > RentLimit

TreatmentEligible(v) == ridesSince[v] >= TreatAt

Eligible_AnyCount(s) == {v \in docked[s] : status[v] = "available"}

Eligible(s) == {v \in docked[s] : status[v] = "available" /\ ~Unrentable(v)}

\* checkout_eligible_vehicle's choice among the eligible vehicles of s.
Preferred(s) == {v \in Eligible(s) : \A w \in Eligible(s) : Rank[v] <= Rank[w]}

\* The stations of S that min() may return for location l.
Nearest(l, S) == {s \in S : \A x \in S : Dist[l][s] <= Dist[l][x]}

CanRent(u, v) == u \in pro \/ v \notin Electric

ActiveRides(u) == {r \in Rides : ride[r].status = "active" /\ ride[r].user = u}

-----------------------------------------------------------------------------
Init ==
  /\ stationOf \in [Vehicles -> Stations \cup {None}]
  /\ docked \in [Stations -> SUBSET Vehicles]
  /\ \A s \in Stations :
       LET assigned == {v \in Vehicles : stationOf[v] = s}
       IN  /\ docked[s] \subseteq assigned
           /\ Cardinality(docked[s]) <= Capacity[s]
           /\ Full(s) \/ docked[s] = assigned
  /\ degraded = {v \in Vehicles : stationOf[v] = None}
  /\ status = [v \in Vehicles |-> IF v \in degraded THEN "degraded" ELSE "available"]
  /\ ridesSince \in [Vehicles -> InitialRides]
  /\ vehicleRepo = Vehicles
  /\ events = [v \in Vehicles |-> 0]
  /\ ride = [r \in Rides |-> NoRide]
  /\ activeRide = [u \in Users |-> None]
  /\ charged = [r \in Rides |-> 0]
  /\ pro = {}
  /\ userLock = [u \in Users |-> <<>>]
  /\ stationLock = [s \in Stations |-> <<>>]
  /\ pc = [t \in Tasks |-> "idle"]
  /\ req = [t \in Tasks |-> NoReq]
  /\ loop = None
  /\ toTreat = {}

-----------------------------------------------------------------------------
(* The event loop and the locks.                                            *)

\* Nothing is running: a new request or a ready callback can be picked.
LoopFree == loop = None /\ toTreat = {}

\* Task t has the loop, or can be given it.
CanRun(t) == toTreat = {} /\ loop \in {None, t}

Holds_Shared(t, queue) == \E i \in DOMAIN queue : queue[i] = t

Holds(t, queue) == queue # <<>> /\ Head(queue) = t

\* acquire(): a free lock is taken without suspending, so t keeps the loop.
KeepLoopIf(t, free) == loop' = IF free THEN t ELSE None

AcquireUser(t, u) ==
  /\ userLock' = [userLock EXCEPT ![u] = Append(@, t)]
  /\ KeepLoopIf(t, userLock[u] = <<>>)

AcquireStation(t, s) ==
  /\ stationLock' = [stationLock EXCEPT ![s] = Append(@, t)]
  /\ KeepLoopIf(t, stationLock[s] = <<>>)

ReleaseUser_Leak(u) == UNCHANGED userLock

ReleaseUser(u) == userLock' = [userLock EXCEPT ![u] = Tail(@)]

ReleaseStation_Leak(s) == UNCHANGED stationLock

ReleaseStation(s) == stationLock' = [stationLock EXCEPT ![s] = Tail(@)]

\* A request arrives at an idle task while the loop is free.
Accept(t, endpoint, where, request) ==
  /\ LoopFree
  /\ endpoint \in Endpoints
  /\ pc[t] = "idle"
  /\ pc' = [pc EXCEPT ![t] = where]
  /\ req' = [req EXCEPT ![t] = request]

GoTo(t, where) == pc' = [pc EXCEPT ![t] = where]

\* The handler returns or raises: the reply is sent and the task is over.
Reply(t) ==
  /\ pc' = [pc EXCEPT ![t] = "idle"]
  /\ req' = [req EXCEPT ![t] = NoReq]
  /\ loop' = None

\* BOUND: a start is accepted only while an unused ride id is left for it.
RideIdLeft == Cardinality({t \in Tasks : pc[t] \in StartPCs})
                < Cardinality({r \in Rides : ride[r].status = "none"})

-----------------------------------------------------------------------------
(* Starting a ride: what the three start endpoints have in common.          *)

Checkout_StaysListed(s, v) ==
  /\ stationOf' = [stationOf EXCEPT ![v] = None]
  /\ UNCHANGED docked

Checkout_KeepsStationId(s, v) ==
  /\ docked' = [docked EXCEPT ![s] = @ \ {v}]
  /\ UNCHANGED stationOf

\* The vehicle leaves the station's list and forgets its station.
Checkout(s, v) ==
  /\ docked' = [docked EXCEPT ![s] = @ \ {v}]
  /\ stationOf' = [stationOf EXCEPT ![v] = None]

BeginRide_ReusesId(u, v) ==
  \E r \in Rides :
    /\ ride[r].status # "active"
    /\ ride' = [ride EXCEPT ![r] = [status |-> "active", user |-> u,
                                    vehicle |-> v, fee |-> 0]]
    /\ activeRide' = [activeRide EXCEPT ![u] = r]
    /\ UNCHANGED charged

BeginRide_NoUser(u, v) ==
  \E r \in Rides :
    /\ ride[r].status = "none"
    /\ ride' = [ride EXCEPT ![r].status = "active", ![r].vehicle = v]
    /\ activeRide' = [activeRide EXCEPT ![u] = r]
    /\ UNCHANGED charged

\* A new Ride is stored and becomes the user's active ride.
BeginRide(u, v) ==
  \E r \in Rides :
    /\ ride[r].status = "none"
    /\ ride' = [ride EXCEPT ![r] = [status |-> "active", user |-> u,
                                    vehicle |-> v, fee |-> 0]]
    /\ activeRide' = [activeRide EXCEPT ![u] = r]
    /\ UNCHANGED charged

-----------------------------------------------------------------------------
(* POST /ride/start: user lock, then the nearest station's lock.            *)

AcceptStart(t, u, l) ==
  /\ RideIdLeft
  /\ Accept(t, "start", "start.user", [NoReq EXCEPT !.user = u, !.loc = l])
  /\ AcquireUser(t, u)
  /\ UNCHANGED <<fleet, books, pro, stationLock, toTreat>>

StationsWithEligible == {s \in Stations : Eligible(s) # {}}

\* Under the user's lock: reject a second ride, else wait for a station.
StartChooseStation(t) ==
  LET u == req[t].user
  IN  /\ CanRun(t) /\ pc[t] = "start.user" /\ Holds(t, userLock[u])
      /\ \/ /\ activeRide[u] # None \/ StationsWithEligible = {}
            /\ ReleaseUser(u) /\ Reply(t)
            /\ UNCHANGED stationLock
         \/ /\ activeRide[u] = None
            /\ \E s \in Nearest(req[t].loc, StationsWithEligible) :
                 /\ req' = [req EXCEPT ![t].station = s]
                 /\ AcquireStation(t, s)
            /\ GoTo(t, "start.station")
            /\ UNCHANGED userLock
      /\ UNCHANGED <<fleet, books, pro, toTreat>>

\* Under both locks: look again for an eligible vehicle and take it.
StartCheckout(t) ==
  LET u == req[t].user
      s == req[t].station
  IN  /\ CanRun(t) /\ pc[t] = "start.station" /\ Holds(t, stationLock[s])
      /\ \/ Eligible(s) = {} /\ UNCHANGED <<fleet, books>>
         \/ \E v \in Preferred(s) :
              /\ Checkout(s, v)
              /\ status' = [status EXCEPT ![v] = "in_use"]
              /\ BeginRide(u, v)
              /\ UNCHANGED <<ridesSince, vehicleRepo, degraded, events>>
      /\ ReleaseUser(u) /\ ReleaseStation(s) /\ Reply(t)
      /\ UNCHANGED <<pro, toTreat>>

-----------------------------------------------------------------------------
(* POST /ride/start-by-station and /ride/start-by-vehicle: the station's    *)
(* lock first, then the user's.                                             *)

AcceptByStation(t, u, s) ==
  /\ RideIdLeft
  /\ Accept(t, "start-by-station", "station.station",
            [NoReq EXCEPT !.user = u, !.station = s])
  /\ AcquireStation(t, s)
  /\ UNCHANGED <<fleet, books, pro, userLock, toTreat>>

\* The station whose lock is taken is read before any lock is held.
AcceptByVehicle(t, u, v) ==
  /\ RideIdLeft
  /\ v \in vehicleRepo /\ stationOf[v] # None
  /\ Accept(t, "start-by-vehicle", "vehicle.station",
            [NoReq EXCEPT !.user = u, !.station = stationOf[v], !.vehicle = v])
  /\ AcquireStation(t, stationOf[v])
  /\ UNCHANGED <<fleet, books, pro, userLock, toTreat>>

\* The second lock of `async with station_lock, user_lock`.
AwaitUser(t) ==
  /\ CanRun(t)
  /\ pc[t] \in {"station.station", "vehicle.station"}
  /\ Holds(t, stationLock[req[t].station])
  /\ GoTo(t, IF pc[t] = "station.station" THEN "station.user" ELSE "vehicle.user")
  /\ AcquireUser(t, req[t].user)
  /\ UNCHANGED <<fleet, books, pro, stationLock, req, toTreat>>

\* checkout_vehicle pops the last vehicle, whatever its state.
ByStationRide(t) ==
  LET u == req[t].user
      s == req[t].station
  IN  /\ CanRun(t) /\ pc[t] = "station.user" /\ Holds(t, userLock[u])
      /\ \/ /\ activeRide[u] # None \/ docked[s] = {}
            /\ UNCHANGED <<fleet, books>>
         \/ /\ activeRide[u] = None
            /\ \E v \in docked[s] :
                 /\ Checkout(s, v)
                 /\ status' = [status EXCEPT ![v] = "in_use"]
                 /\ BeginRide(u, v)
            /\ UNCHANGED <<ridesSince, vehicleRepo, degraded, events>>
      /\ ReleaseUser(u) /\ ReleaseStation(s) /\ Reply(t)
      /\ UNCHANGED <<pro, toTreat>>

ByVehicleAllowed_SecondRide(u, v) ==
  /\ v \in vehicleRepo
  /\ CanRent(u, v)
  /\ stationOf[v] # None
  /\ v \in docked[stationOf[v]]

\* The vehicle must still be known, permitted and docked where it says it is.
ByVehicleAllowed(u, v) ==
  /\ activeRide[u] = None
  /\ v \in vehicleRepo
  /\ CanRent(u, v)
  /\ stationOf[v] # None
  /\ v \in docked[stationOf[v]]

\* Neither the status nor the ride count is looked at, and the status stays.
ByVehicleRide(t) ==
  LET u == req[t].user
      v == req[t].vehicle
  IN  /\ CanRun(t) /\ pc[t] = "vehicle.user" /\ Holds(t, userLock[u])
      /\ \/ ~ByVehicleAllowed(u, v) /\ UNCHANGED <<fleet, books>>
         \/ /\ ByVehicleAllowed(u, v)
            /\ Checkout(stationOf[v], v)
            /\ BeginRide(u, v)
            /\ UNCHANGED <<status, ridesSince, vehicleRepo, degraded, events>>
      /\ ReleaseUser(u) /\ ReleaseStation(req[t].station) /\ Reply(t)
      /\ UNCHANGED <<pro, toTreat>>

-----------------------------------------------------------------------------
(* POST /ride/end: user lock, charge (0.5 s), then the station's lock.      *)

AcceptEnd(t, r, l) ==
  /\ ride[r].status # "none"
  /\ Accept(t, "end", "end.user",
            [NoReq EXCEPT !.user = ride[r].user, !.ride = r, !.loc = l])
  /\ AcquireUser(t, ride[r].user)
  /\ UNCHANGED <<fleet, books, pro, stationLock, toTreat>>

StationsWithSlot == {s \in Stations : ~Full(s)}

CompleteRide_FeeOnly(r, fee) == ride' = [ride EXCEPT ![r].fee = fee]

CompleteRide(r, fee) == ride' = [ride EXCEPT ![r].status = "completed", ![r].fee = fee]

\* The ride is completed and its fee set before the charge is awaited.
EndRide(t) ==
  LET r == req[t].ride
      u == req[t].user
      near == Nearest(req[t].loc, StationsWithSlot)
  IN  /\ CanRun(t) /\ pc[t] = "end.user" /\ Holds(t, userLock[u])
      /\ \/ /\ \/ ride[r].status # "active"
               \/ near = {}
               \/ ~(near \subseteq Within5m[req[t].loc])
            /\ ReleaseUser(u) /\ Reply(t)
            /\ UNCHANGED books
         \/ /\ ride[r].status = "active"
            /\ \E s \in near \cap Within5m[req[t].loc] :
                 req' = [req EXCEPT ![t].station = s]
            /\ CompleteRide(r, RideFee)
            /\ GoTo(t, "end.charge")
            /\ loop' = None
            /\ UNCHANGED <<activeRide, charged, userLock>>
      /\ UNCHANGED <<fleet, pro, stationLock, toTreat>>

EndCharged_StaysActive(t) ==
  LET r == req[t].ride
      u == req[t].user
  IN  /\ CanRun(t) /\ pc[t] = "end.charge"
      /\ charged' = [charged EXCEPT ![r] = @ + 1]
      /\ \/ /\ ride[r].vehicle \in vehicleRepo
            /\ AcquireStation(t, req[t].station)
            /\ GoTo(t, "end.dock")
            /\ UNCHANGED <<userLock, req>>
         \/ /\ ride[r].vehicle \notin vehicleRepo
            /\ ReleaseUser(u) /\ Reply(t)
            /\ UNCHANGED stationLock
      /\ UNCHANGED <<activeRide, fleet, ride, pro, toTreat>>

\* The charge went through; a vehicle missing from the repository is skipped.
EndCharged(t) ==
  LET r == req[t].ride
      u == req[t].user
  IN  /\ CanRun(t) /\ pc[t] = "end.charge"
      /\ charged' = [charged EXCEPT ![r] = @ + 1]
      /\ \/ /\ ride[r].vehicle \in vehicleRepo
            /\ AcquireStation(t, req[t].station)
            /\ GoTo(t, "end.dock")
            /\ UNCHANGED <<activeRide, userLock, req>>
         \/ /\ ride[r].vehicle \notin vehicleRepo
            /\ activeRide' = [activeRide EXCEPT ![u] = None]
            /\ ReleaseUser(u) /\ Reply(t)
            /\ UNCHANGED stationLock
      /\ UNCHANGED <<fleet, ride, pro, toTreat>>

Dock_SkipsList(s, v) ==
  /\ stationOf' = [stationOf EXCEPT ![v] = s]
  /\ UNCHANGED docked

Dock(s, v) ==
  /\ docked' = [docked EXCEPT ![s] = @ \cup {v}]
  /\ stationOf' = [stationOf EXCEPT ![v] = s]

EndDock_NoRecheck(t) ==
  LET u == req[t].user
      s == req[t].station
      v == ride[req[t].ride].vehicle
  IN  /\ CanRun(t) /\ pc[t] = "end.dock" /\ Holds(t, stationLock[s])
      /\ Dock(s, v)
      /\ status' = [status EXCEPT ![v] = "available"]
      /\ ridesSince' = [ridesSince EXCEPT ![v] = @ + 1]
      /\ activeRide' = [activeRide EXCEPT ![u] = None]
      /\ ReleaseUser(u) /\ ReleaseStation(s) /\ Reply(t)
      /\ UNCHANGED <<vehicleRepo, degraded, events, ride, charged, pro, toTreat>>

\* The station may have filled up meanwhile: then nothing is undone.
EndDock(t) ==
  LET u == req[t].user
      s == req[t].station
      v == ride[req[t].ride].vehicle
  IN  /\ CanRun(t) /\ pc[t] = "end.dock" /\ Holds(t, stationLock[s])
      /\ \/ Full(s) /\ UNCHANGED <<fleet, activeRide>>
         \/ /\ ~Full(s)
            /\ Dock(s, v)
            /\ status' = [status EXCEPT ![v] = "available"]
            /\ ridesSince' = [ridesSince EXCEPT ![v] = @ + 1]
            /\ activeRide' = [activeRide EXCEPT ![u] = None]
            /\ UNCHANGED <<vehicleRepo, degraded, events>>
      /\ ReleaseUser(u) /\ ReleaseStation(s) /\ Reply(t)
      /\ UNCHANGED <<ride, charged, pro, toTreat>>

-----------------------------------------------------------------------------
(* POST /vehicle/report-degraded                                            *)

AcceptReport(t, u, v) ==
  /\ Accept(t, "report-degraded", "report.user",
            [NoReq EXCEPT !.user = u, !.vehicle = v])
  /\ AcquireUser(t, u)
  /\ UNCHANGED <<fleet, books, pro, stationLock, toTreat>>

\* The ride ends free of charge and the vehicle moves to the degraded pool.
ReportDegraded(t) ==
  LET u == req[t].user
      v == req[t].vehicle
      reported == {r \in ActiveRides(u) : ride[r].vehicle = v}
  IN  /\ CanRun(t) /\ pc[t] = "report.user" /\ Holds(t, userLock[u])
      /\ \/ /\ reported = {} \/ v \notin vehicleRepo
            /\ UNCHANGED <<fleet, books>>
         \/ /\ v \in vehicleRepo
            /\ \E r \in reported : CompleteRide(r, 0)
            /\ status' = [status EXCEPT ![v] = "degraded"]
            /\ vehicleRepo' = vehicleRepo \ {v}
            /\ degraded' = degraded \cup {v}
            /\ activeRide' = [activeRide EXCEPT ![u] = None]
            /\ UNCHANGED <<docked, stationOf, ridesSince, events, charged>>
      /\ ReleaseUser(u) /\ Reply(t)
      /\ UNCHANGED <<stationLock, pro, toTreat>>

-----------------------------------------------------------------------------
(* POST /vehicle/treat: one uninterrupted loop over the vehicles to treat.  *)

TreatBegin ==
  /\ LoopFree
  /\ toTreat' = degraded \cup {v \in vehicleRepo : TreatmentEligible(v)}
  /\ toTreat' # {}
  /\ UNCHANGED <<fleet, books, pro, locks, tasks>>

Relocate_Skipped(v) == UNCHANGED <<docked, stationOf>>

\* A pooled vehicle moves to some other station with a slot, if there is one.
Relocate(v) ==
  LET candidates == {s \in Stations : ~Full(s) /\ v \notin docked[s]}
  IN  \/ candidates = {} /\ UNCHANGED <<docked, stationOf>>
      \/ \E new \in candidates :
           /\ docked' = [s \in Stations |-> IF s = new THEN docked[s] \cup {v}
                                                       ELSE docked[s] \ {v}]
           /\ stationOf' = [stationOf EXCEPT ![v] = new]

TreatOne(v) ==
  /\ v \in toTreat
  /\ toTreat' = toTreat \ {v}
  /\ events' = [events EXCEPT ![v] = @ + 1]
  /\ IF v \in degraded THEN Relocate(v) ELSE UNCHANGED <<docked, stationOf>>
  /\ degraded' = degraded \ {v}
  /\ ridesSince' = [ridesSince EXCEPT ![v] = 0]
  /\ status' = [status EXCEPT ![v] = "available"]
  /\ UNCHANGED <<vehicleRepo, books, pro, locks, tasks>>

-----------------------------------------------------------------------------
(* POST /user/upgrade: replaces the stored user by a ProUser, no await.     *)

UpgradeUser(u) ==
  /\ LoopFree
  /\ u \notin pro
  /\ pro' = pro \cup {u}
  /\ UNCHANGED <<fleet, books, locks, tasks, toTreat>>

-----------------------------------------------------------------------------
Arrival(t) ==
  \/ \E u \in Users, l \in Locations : AcceptStart(t, u, l)
  \/ \E u \in Users, s \in Stations : AcceptByStation(t, u, s)
  \/ \E u \in Users, v \in Vehicles : AcceptByVehicle(t, u, v)
  \/ \E r \in Rides, l \in Locations : AcceptEnd(t, r, l)
  \/ \E u \in Users, v \in Vehicles : AcceptReport(t, u, v)

\* What the event loop does with an accepted request.
Step(t) == \/ StartChooseStation(t) \/ StartCheckout(t)
           \/ AwaitUser(t) \/ ByStationRide(t) \/ ByVehicleRide(t)
           \/ EndRide(t) \/ EndCharged(t) \/ EndDock(t)
           \/ ReportDegraded(t)

Next == \/ \E t \in Tasks : Arrival(t) \/ Step(t)
        \/ TreatBegin
        \/ \E v \in Vehicles : TreatOne(v)
        \/ \E u \in Users : UpgradeUser(u)

Spec == Init /\ [][Next]_vars

\* A ready callback stays in asyncio's first-in first-out ready queue until it
\* runs, and the 0.5 s timer fires: a request that can step again and again
\* does step.  A batch treatment, once begun, runs to its end.  Nothing is
\* assumed of the clients.
Fairness == /\ \A t \in Tasks : SF_vars(Step(t))
            /\ WF_vars(\E v \in Vehicles : TreatOne(v))

FairSpec == Spec /\ Fairness

-----------------------------------------------------------------------------
(* Properties.                                                              *)

RequestTyped(t) ==
  /\ pc[t] # "idle" => req[t].user \in Users
  /\ pc[t] \in StationPCs \cup {"end.charge"} => req[t].station \in Stations
  /\ pc[t] \in {"start.user", "end.user"} => req[t].loc \in Locations
  /\ pc[t] \in {"end.user", "end.charge", "end.dock"}
       => req[t].ride \in Rides /\ ride[req[t].ride].status # "none"
  /\ pc[t] \in {"vehicle.station", "vehicle.user", "report.user"}
       => req[t].vehicle \in Vehicles

FleetTyped ==
  /\ docked \in [Stations -> SUBSET Vehicles]
  /\ stationOf \in [Vehicles -> Stations \cup {None}]
  /\ status \in [Vehicles -> {"available", "in_use", "degraded"}]
  /\ ridesSince \in [Vehicles -> Nat]
  /\ vehicleRepo \subseteq Vehicles
  /\ degraded \subseteq Vehicles
  /\ events \in [Vehicles -> Nat]
  /\ toTreat \subseteq Vehicles

BooksTyped ==
  /\ ride \in [Rides -> [status : {"none", "active", "completed"},
                         user : Users \cup {None},
                         vehicle : Vehicles \cup {None}, fee : Nat]]
  /\ \A r \in Rides : ride[r].status # "none" =>
       ride[r].user \in Users /\ ride[r].vehicle \in Vehicles
  /\ activeRide \in [Users -> Rides \cup {None}]
  /\ charged \in [Rides -> Nat]
  /\ pro \subseteq Users

RequestsTyped ==
  /\ userLock \in [Users -> Seq(Tasks)]
  /\ stationLock \in [Stations -> Seq(Tasks)]
  /\ pc \in [Tasks -> PCs]
  /\ req \in [Tasks -> [user : Users \cup {None}, ride : Rides \cup {None},
                        station : Stations \cup {None},
                        vehicle : Vehicles \cup {None},
                        loc : Locations \cup {None}]]
  /\ \A t \in Tasks : RequestTyped(t)
  /\ loop \in Tasks \cup {None}

\* Every variable has its type, and a suspended request carries the fields
\* its handler will use when it resumes.
TypeOK == FleetTyped /\ BooksTyped /\ RequestsTyped

\* A docked vehicle names its station, so it is docked once and outside the
\* degraded pool; a vehicle that names a station without being docked there is
\* one the cold start could not place, and it was never ridden (stations.py:83,
\* link_vehicles.py:56).
DockingConsistent ==
  \A v \in Vehicles :
    /\ \A s \in Stations : v \in docked[s] => stationOf[v] = s
    /\ stationOf[v] # None =>
         /\ v \notin degraded
         /\ \/ v \in docked[stationOf[v]]
            \/ \A r \in Rides : ride[r].vehicle # v

\* No station ever holds more vehicles than it has slots, although the free
\* slot an end request found is only used after the charge (stations.py:83).
CapacityRespected == \A s \in Stations : Cardinality(docked[s]) <= Capacity[s]

\* Ride r is being returned: its handler completed it and still has to charge
\* for it or to dock its vehicle.
Returning(r) == \E t \in Tasks : pc[t] \in {"end.charge", "end.dock"} /\ req[t].ride = r

OpenRides == {r \in Rides : ride[r].status = "active" \/ Returning(r)}

\* No double booking: a vehicle belongs to at most one ride that is active or
\* being returned, and is then neither docked nor in the degraded pool
\* (README "async locks ... to prevent double-booking").
VehicleExclusive ==
  \A r \in OpenRides :
    /\ \A s \in Stations : ride[r].vehicle \notin docked[s]
    /\ ride[r].vehicle \notin degraded
    /\ \A q \in OpenRides \ {r} : ride[q].vehicle # ride[r].vehicle

\* The rides and the active users repositories agree: an open ride is its
\* user's active ride (so a user has at most one), and an active ride id
\* belongs to the user it is filed under (README "duplicate ride starts").
RideIndexConsistent ==
  /\ \A r \in OpenRides : activeRide[ride[r].user] = r
  /\ \A u \in Users : activeRide[u] # None =>
       ride[activeRide[u]].status # "none" /\ ride[activeRide[u]].user = u

\* A ride is charged at most once, only when it was ended for the fee; a ride
\* ended by a degradation report is never charged (rides_service.py:228,
\* vehicles_service.py:105).
ChargedOnce ==
  \A r \in Rides :
    /\ charged[r] <= 1
    /\ charged[r] = 1 => ride[r].status = "completed" /\ ride[r].fee = RideFee

InQueue(t, queue) == \E i \in DOMAIN queue : queue[i] = t

NoRepeat(queue) == \A i, j \in DOMAIN queue : queue[i] = queue[j] => i = j

UserQueuesMatch ==
  /\ \A u \in Users :
       /\ NoRepeat(userLock[u])
       /\ \A t \in Tasks : InQueue(t, userLock[u]) <=> pc[t] \in UserPCs /\ req[t].user = u
  /\ \A t \in Tasks : pc[t] \in UserOwnerPCs => Holds(t, userLock[req[t].user])

StationQueuesMatch ==
  /\ \A s \in Stations :
       /\ NoRepeat(stationLock[s])
       /\ \A t \in Tasks : InQueue(t, stationLock[s]) <=>
                             pc[t] \in StationPCs /\ req[t].station = s
  /\ \A t \in Tasks : pc[t] \in StationOwnerPCs => Holds(t, stationLock[req[t].station])

\* The lock queues hold exactly the requests that wait for or own the lock,
\* each once, and a request past its wait is the owner: no handler leaves a
\* lock behind on any error path, and no two requests are past the same lock.
LocksMatchRequests == UserQueuesMatch /\ StationQueuesMatch

LookupHolds(t) ==
  LET r == req[t].ride
  IN  /\ pc[t] = "start.station" => activeRide[req[t].user] = None
      /\ pc[t] \in {"end.user", "end.charge", "end.dock"} => ride[r].user = req[t].user
      /\ pc[t] \in {"end.charge", "end.dock"} =>
           /\ ride[r].status = "completed" /\ ride[r].fee = RideFee
           /\ charged[r] = IF pc[t] = "end.charge" THEN 0 ELSE 1

\* What a handler looked up before it suspended still holds when it resumes:
\* the user of a start has still no ride, and the ride of an end is still its
\* user's, completed by this handler alone and charged exactly once on the way
\* to the dock (rides_service.py:93, 199, 228).
LookupsStillHold == \A t \in Tasks : LookupHolds(t)

KeepsHistory ==
  \A r \in Rides : ride[r].status # "none" =>
    /\ ride'[r].user = ride[r].user /\ ride'[r].vehicle = ride[r].vehicle
    /\ ride'[r].status # "none"
    /\ ride[r].status = "completed" => ride'[r] = ride[r]

\* A stored ride keeps its user and vehicle and never reopens; once completed
\* its fee is final (rides.py:148).
HistoryImmutable == [][KeepsHistory]_vars

\* README.md:257: "Unrentable vehicles (`> 10` rides) stay docked until
\* treated": no vehicle leaves a station while it is unrentable.
UnrentableStaysDocked ==
  [][\A v \in Vehicles, s \in Stations :
       v \in docked[s] /\ Unrentable(v) =>
         v \in docked'[s] \/ ridesSince'[v] = 0]_vars

\* User u is filed as active under a ride that is neither running nor being
\* returned: no end and no report lets u start another one.
Stranded(u) == activeRide[u] # None /\ activeRide[u] \notin OpenRides

\* A user filed as active can always get out of it by ending the ride or
\* reporting the vehicle.
NoStrandedUser == \A u \in Users : ~Stranded(u)

\* The one way to strand a user is to end a ride at a station that had a free slot
\* before the charge and has none after it; no report, no second end request and
\* no skipped vehicle does (rides_service.py:242).
StrandedOnlyWhenFull ==
  [][\A u \in Users : ~Stranded(u) /\ Stranded(u)' =>
       \E t \in Tasks :
         /\ pc[t] = "end.dock" /\ pc'[t] = "idle" /\ req[t].user = u
         /\ Cardinality(docked[req[t].station]) = Capacity[req[t].station]]_vars

\* A step takes the charged ride of u off the books.
ChargedAndCleared(u) ==
  activeRide[u] # None /\ activeRide'[u] = None /\ charged'[activeRide[u]] = 1

\* rides_router.py:300: ending a ride releases the vehicle.  Whoever stops being
\* active through a charged ride has left the vehicle docked.
EndReleasesVehicle ==
  [][\A u \in Users : ChargedAndCleared(u) =>
       \E s \in Stations : ride[activeRide[u]].vehicle \in docked'[s]]_vars

\* It does for the vehicles of the repository, whoever reports and treats what
\* meanwhile: only a vehicle reported before this ride is left docked nowhere
\* (rides_service.py:235).
KnownVehicleReleased ==
  [][\A u \in Users :
       ChargedAndCleared(u) /\ ride[activeRide[u]].vehicle \in vehicleRepo =>
         \E s \in Stations : ride[activeRide[u]].vehicle \in docked'[s]]_vars

\* A vehicle leaves the degraded pool into a free slot of the station it names
\* from then on, unless no station has one (vehicles_service.py:66).
TreatedStaysOutOnlyWhenFull ==
  [][\A v \in degraded \ degraded' :
       \/ \E s \in Stations : /\ v \in docked'[s] /\ stationOf'[v] = s
                             /\ Cardinality(docked[s]) < Capacity[s]
       \/ \A s \in Stations : Cardinality(docked[s]) = Capacity[s]]_vars

\* Every request is answered: the lock queues drain and no two handlers wait
\* for each other.
RequestsFinish == \A t \in Tasks : pc[t] # "idle" ~> pc[t] = "idle"
=============================================================================
