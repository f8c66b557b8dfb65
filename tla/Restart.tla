-------------------------------- MODULE Restart --------------------------------
(***************************************************************************)
(* RideService across restarts: the lifespan handler of the application,   *)
(* the snapshot and restore methods of the repositories, and StateStore.   *)
(*                                                                         *)
(* All state is in memory.  A graceful shutdown waits for the requests in  *)
(* flight, then writes one snapshot over state.json; a crash writes        *)
(* nothing.  A startup restores state.json if it exists, and loads the CSV *)
(* files otherwise, which never change (`csv`: what loading them gives).   *)
(***************************************************************************)
EXTENDS RideService

CONSTANT MaxCrashes   \* BOUND: crashes in a behaviour

ASSUME CrashAssumption == MaxCrashes \in Nat

VARIABLES
  csv,       \* the fleet the CSV files describe
  disk,      \* state.json, or None while there is no such file
  phase,     \* "up", "saving" or "down"
  crashes    \* crashes so far

rvars == <<vars, csv, disk, phase, crashes>>

-----------------------------------------------------------------------------
(* What each repository writes to the snapshot and makes of it.             *)

VehicleToDict(v) ==
  [status |-> status[v], rides |-> ridesSince[v], station |-> stationOf[v]]

\* A ride is written with the end time it has; the status read back is that of
\* a completed ride if and only if there is one.
RideToDict(r) ==
  [user |-> ride[r].user, vehicle |-> ride[r].vehicle, fee |-> ride[r].fee,
   ended |-> ride[r].status = "completed"]

RideFromDict_NeverEnded(d) ==
  [status |-> "active", user |-> d.user, vehicle |-> d.vehicle, fee |-> d.fee]

RideFromDict(d) ==
  [status |-> IF d.ended THEN "completed" ELSE "active",
   user |-> d.user, vehicle |-> d.vehicle, fee |-> d.fee]

StoredRides == {r \in Rides : ride[r].status # "none"}

\* Only the vehicles of the vehicle repository are written out; the stations
\* and the degraded pool write vehicle ids.
Snapshot ==
  [vehicles    |-> [v \in vehicleRepo |-> VehicleToDict(v)],
   stations    |-> docked,
   users       |-> pro,
   activeUsers |-> activeRide,
   rides       |-> [r \in StoredRides |-> RideToDict(r)],
   maintenance |-> events,
   degraded    |-> degraded]

-----------------------------------------------------------------------------
(* Startup.                                                                 *)

Known == DOMAIN disk.vehicles

\* Station.dock on every listed vehicle that the vehicle repository knows.
Redocked(s) == disk.stations[s] \cap Known

RestoredPool == disk.degraded \cap Known

\* restore_degraded takes a pooled vehicle out of its station.
RestoredDocked == [s \in Stations |-> Redocked(s) \ RestoredPool]

\* The station a vehicle is listed at, else the one it was written with.
RestoredStation(v) ==
  LET listed == {s \in Stations : v \in Redocked(s)}
  IN  CASE v \notin Known -> None
        [] v \in Known /\ listed = {} -> disk.vehicles[v].station
        [] v \in Known /\ listed # {} /\ v \in RestoredPool -> None
        [] OTHER -> CHOOSE s \in listed : TRUE

\* No vehicle object exists for an id outside Known; the values given here for
\* such a vehicle stand for nothing.
RestoreFleet_NoRideCount ==
  /\ vehicleRepo' = Known
  /\ docked' = RestoredDocked
  /\ stationOf' = [v \in Vehicles |-> RestoredStation(v)]
  /\ degraded' = RestoredPool
  /\ status' = [v \in Vehicles |->
                  IF v \in Known THEN disk.vehicles[v].status ELSE "available"]
  /\ ridesSince' = [v \in Vehicles |-> 0]
  /\ events' = disk.maintenance

RestoreFleet ==
  /\ vehicleRepo' = Known
  /\ docked' = RestoredDocked
  /\ stationOf' = [v \in Vehicles |-> RestoredStation(v)]
  /\ degraded' = RestoredPool
  /\ status' = [v \in Vehicles |->
                  IF v \in Known THEN disk.vehicles[v].status ELSE "available"]
  /\ ridesSince' = [v \in Vehicles |->
                      IF v \in Known THEN disk.vehicles[v].rides ELSE 0]
  /\ events' = disk.maintenance

RestoreBooks_NoActiveUsers ==
  /\ ride' = [r \in Rides |-> IF r \in DOMAIN disk.rides
                              THEN RideFromDict(disk.rides[r]) ELSE NoRide]
  /\ activeRide' = [u \in Users |-> None]
  /\ pro' = disk.users

RestoreBooks ==
  /\ ride' = [r \in Rides |-> IF r \in DOMAIN disk.rides
                              THEN RideFromDict(disk.rides[r]) ELSE NoRide]
  /\ activeRide' = disk.activeUsers
  /\ pro' = disk.users

\* The charges already made are outside the service and stay made.  An id the
\* restored books do not know stands for a ride id that was never drawn.
ChargesAfter(books2) ==
  charged' = [r \in Rides |-> IF books2[r].status = "none" THEN 0 ELSE charged[r]]

\* The locks are new, and no request has survived.
FreshLoop ==
  /\ userLock' = [u \in Users |-> <<>>]
  /\ stationLock' = [s \in Stations |-> <<>>]
  /\ pc' = [t \in Tasks |-> "idle"]
  /\ req' = [t \in Tasks |-> NoReq]
  /\ loop' = None
  /\ toTreat' = {}

LoadFleet ==
  /\ vehicleRepo' = Vehicles
  /\ docked' = csv.docked
  /\ stationOf' = csv.station
  /\ degraded' = {v \in Vehicles : csv.station[v] = None}
  /\ status' = [v \in Vehicles |-> IF csv.station[v] = None THEN "degraded" ELSE "available"]
  /\ ridesSince' = csv.rides
  /\ events' = [v \in Vehicles |-> 0]

EmptyBooks ==
  /\ ride' = [r \in Rides |-> NoRide]
  /\ activeRide' = [u \in Users |-> None]
  /\ pro' = {}

Startup ==
  /\ phase = "down"
  /\ phase' = "up"
  /\ \/ disk = None /\ LoadFleet /\ EmptyBooks
     \/ disk # None /\ RestoreFleet /\ RestoreBooks
  /\ ChargesAfter(ride')
  /\ FreshLoop
  /\ UNCHANGED <<csv, disk, crashes>>

-----------------------------------------------------------------------------
(* Shutdown and crash.                                                      *)

\* The server stops accepting requests, waits for those in flight, and then
\* runs the lifespan handler's finally block.
Shutdown ==
  /\ phase = "up"
  /\ \A t \in Tasks : pc[t] = "idle"
  /\ LoopFree
  /\ phase' = "saving"
  /\ UNCHANGED <<vars, csv, disk, crashes>>

Save_StationsOnce ==
  /\ phase = "saving"
  /\ disk' = IF disk = None THEN Snapshot
                            ELSE [Snapshot EXCEPT !.stations = disk.stations]
  /\ phase' = "down"
  /\ UNCHANGED <<vars, csv, crashes>>

\* A temporary file is written and renamed over state.json in one step.
Save ==
  /\ phase = "saving"
  /\ disk' = Snapshot
  /\ phase' = "down"
  /\ UNCHANGED <<vars, csv, crashes>>

\* The process dies, also while it writes the temporary file.
Crash ==
  /\ phase \in {"up", "saving"}
  /\ crashes < MaxCrashes
  /\ crashes' = crashes + 1
  /\ phase' = "down"
  /\ UNCHANGED <<vars, csv, disk>>

Serve == phase = "up" /\ Next /\ UNCHANGED <<csv, disk, phase, crashes>>

RInit == /\ Init
         /\ csv = [station |-> stationOf, docked |-> docked, rides |-> ridesSince]
         /\ disk = None
         /\ phase = "up"
         /\ crashes = 0

RNext == Serve \/ Shutdown \/ Save \/ Crash \/ Startup

RSpec == RInit /\ [][RNext]_rvars

-----------------------------------------------------------------------------
(* Properties.                                                              *)

\* A startup from a file that holds what memory held when the service stopped.
Resumes == phase = "down" /\ phase' = "up" /\ disk # None /\ disk = Snapshot

\* README.md:331: a graceful restart keeps the rides, the active users, the
\* permissions and the maintenance counts, and leaves every vehicle of the
\* vehicle repository where it was, as worn as it was.
GracefulRestartKeeps ==
  [][Resumes =>
       /\ ride' = ride /\ activeRide' = activeRide /\ pro' = pro /\ events' = events
       /\ \A v \in vehicleRepo :
            /\ stationOf'[v] = stationOf[v] /\ (v \in degraded') = (v \in degraded)
            /\ status'[v] = status[v] /\ ridesSince'[v] = ridesSince[v]
            /\ \A s \in Stations : (v \in docked'[s]) = (v \in docked[s])]_rvars

\* README.md:331 "full state": a vehicle some repository or station holds is
\* still held by one after a graceful restart.
NoVehicleForgotten ==
  [][Resumes =>
       vehicleRepo \cup degraded \cup UNION {docked[s] : s \in Stations}
         \subseteq vehicleRepo' \cup degraded' \cup UNION {docked'[s] : s \in Stations}]_rvars

\* The charge is the one effect a crash cannot undo: rolled back to an older
\* snapshot, a ride can be charged again, but only once more per crash
\* (app.py:117, rides_service.py:228).
ChargedPerCrash == \A r \in Rides : charged[r] <= 1 + crashes
=============================================================================
