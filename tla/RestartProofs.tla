----------------------------- MODULE RestartProofs -----------------------------
(***************************************************************************)
(* Theorems about Restart: shutdowns, crashes and startups keep the rides, *)
(* the active users and the fleet consistent, and charge a ride again at   *)
(* most once per crash.                                                    *)
(*                                                                         *)
(* A crash takes back the rides but not the charges, so the invariants of  *)
(* RideService that speak of charges fail after one.  They hold, however,  *)
(* of the charges that the rides in memory account for, `ChargedHere`:     *)
(* with these in the place of `charged` every step of a serving process is *)
(* one of RideService, and every startup leads to a state that satisfies   *)
(* its invariant.                                                          *)
(***************************************************************************)
EXTENDS Restart, FiniteSetTheorems, TLAPS

Paid(r) == ride[r].status = "completed" /\ ride[r].fee = RideFee

InCharge(r) == \E t \in Tasks : pc[t] = "end.charge" /\ req[t].ride = r

ChargedHere == [r \in Rides |-> IF Paid(r) /\ ~InCharge(r) THEN 1 ELSE 0]

Here == INSTANCE RideFleetProofs WITH charged <- ChargedHere

-----------------------------------------------------------------------------
(* The invariant of RideService, for the charges of the rides in memory.    *)

LEMMA FiniteHere == Here!IsFiniteSet(Vehicles)
BY FleetAssumption DEF IsFiniteSet, Here!IsFiniteSet

LEMMA HereStep ==
  ASSUME Here!FleetInv, [Here!Next]_(Here!vars)
  PROVE  Here!FleetInv'
<1> USE NoneAssumption, MapAssumption, LimitAssumption, EndpointAssumption, FleetAssumption,
        FiniteHere DEF AllEndpoints, Here!AllEndpoints
<1> QED  BY Here!ServiceStep

LEMMA HereInit == Here!Init => Here!FleetInv
<1> USE NoneAssumption, MapAssumption, LimitAssumption, EndpointAssumption, FleetAssumption,
        FiniteHere DEF AllEndpoints, Here!AllEndpoints
<1> QED  BY Here!InitFleet

\* At most one request charges a ride, which is then completed for the fee.
LEMMA HereCharging ==
  ASSUME Here!FleetInv, NEW t \in Tasks, pc[t] = "end.charge"
  PROVE  /\ req[t].ride \in Rides /\ Paid(req[t].ride)
         /\ \A x \in Tasks : pc[x] = "end.charge" /\ req[x].ride = req[t].ride => x = t
<1> USE NoneAssumption, MapAssumption, LimitAssumption, EndpointAssumption, FleetAssumption,
        FiniteHere DEF AllEndpoints, Here!AllEndpoints
<1>1. Here!BookInv
  BY DEF Here!FleetInv
<1>2. \A x \in Tasks : pc[x] = "end.charge" /\ req[x].ride = req[t].ride => x = t
  BY <1>1, Here!SoleReturn DEF Here!EndPCs
<1>3. req[t].ride \in Rides
  BY <1>1 DEF Here!BookInv, Here!SafeLocks, Here!TypeOK, Here!RequestsTyped, Here!RequestTyped
<1>4. Paid(req[t].ride)
  BY <1>1 DEF Here!BookInv, Here!LookupsStillHold, Here!LookupHolds, Paid, RideFee, Here!RideFee
<1> QED  BY <1>2, <1>3, <1>4

-----------------------------------------------------------------------------
(* Every step of a serving process is one of RideService, with ChargedHere. *)

LEMMA TypesHere ==
  ASSUME Here!FleetInv
  PROVE  /\ pc \in [Tasks -> PCs] /\ DOMAIN req = Tasks
         /\ ride \in [Rides -> [status : {"none", "active", "completed"},
                                user : Users \cup {None},
                                vehicle : Vehicles \cup {None}, fee : Nat]]
BY DEF Here!FleetInv, Here!BookInv, Here!SafeLocks, Here!TypeOK, Here!RequestsTyped,
       Here!BooksTyped, PCs, Here!PCs, UserPCs, Here!UserPCs, StationPCs, Here!StationPCs

LEMMA ReqTypeHere ==
  ASSUME Here!FleetInv
  PROVE  req \in [Tasks -> [user : Users \cup {None}, ride : Rides \cup {None},
                            station : Stations \cup {None}, vehicle : Vehicles \cup {None},
                            loc : Locations \cup {None}]]
BY DEF Here!FleetInv, Here!BookInv, Here!SafeLocks, Here!TypeOK, Here!RequestsTyped

\* Only task t moves, neither into a charge nor out of one.
NotCharging(t) ==
  /\ pc[t] # "end.charge" /\ pc'[t] # "end.charge"
  /\ \A x \in Tasks \ {t} : pc'[x] = pc[x] /\ req'[x] = req[x]

LEMMA SameCharges ==
  ASSUME \A r \in Rides : Paid(r)' <=> Paid(r),
         UNCHANGED <<pc, req>> \/ \E t \in Tasks : NotCharging(t)
  PROVE  ChargedHere' = ChargedHere
<1>1. \A r \in Rides : InCharge(r)' <=> InCharge(r)
  BY DEF InCharge, NotCharging
<1> QED  BY <1>1 DEF ChargedHere

LEMMA SameRides ==
  ASSUME UNCHANGED ride
  PROVE  \A r \in Rides : Paid(r)' <=> Paid(r)
BY DEF Paid

LEMMA BegunRides ==
  ASSUME Here!FleetInv, NEW u, NEW v, BeginRide(u, v)
  PROVE  \A r \in Rides : Paid(r)' <=> Paid(r)
BY TypesHere DEF BeginRide, Paid

\* What a handler looks up is the same for both.
LEMMA CardinalityHere == ASSUME NEW S PROVE Here!Cardinality(S) = Cardinality(S)
BY Zenon DEF Cardinality, Here!Cardinality

LEMMA RideIdHere == Here!RideIdLeft <=> RideIdLeft
BY CardinalityHere DEF RideIdLeft, Here!RideIdLeft, StartPCs, Here!StartPCs

LEMMA FullHere == ASSUME NEW s PROVE Here!Full(s) <=> Full(s)
BY CardinalityHere DEF Full, Here!Full

LEMMA EligibleHere == ASSUME NEW s PROVE Here!Eligible(s) = Eligible(s)
BY DEF Eligible, Here!Eligible, Unrentable, Here!Unrentable

LEMMA PreferredHere == ASSUME NEW s PROVE Here!Preferred(s) = Preferred(s)
BY EligibleHere DEF Preferred, Here!Preferred

LEMMA NearestHere == ASSUME NEW l, NEW S PROVE Here!Nearest(l, S) = Nearest(l, S)
BY DEF Nearest, Here!Nearest

LEMMA StationsHere == /\ Here!StationsWithEligible = StationsWithEligible
                      /\ Here!StationsWithSlot = StationsWithSlot
BY EligibleHere, FullHere DEF StationsWithEligible, Here!StationsWithEligible,
   StationsWithSlot, Here!StationsWithSlot

LEMMA ArrivalHere ==
  ASSUME Here!FleetInv, NEW t \in Tasks, Arrival(t)
  PROVE  ChargedHere' = ChargedHere /\ Here!Arrival(t)
<1>1. UNCHANGED ride /\ NotCharging(t)
  BY TypesHere DEF Arrival, AcceptStart, AcceptByStation, AcceptByVehicle, AcceptEnd,
         AcceptReport, Accept, NotCharging, books
<1>2. ChargedHere' = ChargedHere
  BY <1>1, SameRides, SameCharges
<1> USE DEF fleet, Here!fleet, books, Here!books, Accept, Here!Accept, LoopFree, Here!LoopFree,
            NoReq, Here!NoReq, KeepLoopIf, Here!KeepLoopIf, AcquireUser, Here!AcquireUser,
            AcquireStation, Here!AcquireStation
<1>3. ASSUME NEW u \in Users, NEW l \in Locations, AcceptStart(t, u, l)
      PROVE  Here!AcceptStart(t, u, l)
  BY <1>2, <1>3, RideIdHere DEF AcceptStart, Here!AcceptStart
<1>4. ASSUME NEW u \in Users, NEW s \in Stations, AcceptByStation(t, u, s)
      PROVE  Here!AcceptByStation(t, u, s)
  BY <1>2, <1>4, RideIdHere DEF AcceptByStation, Here!AcceptByStation
<1>5. ASSUME NEW u \in Users, NEW v \in Vehicles, AcceptByVehicle(t, u, v)
      PROVE  Here!AcceptByVehicle(t, u, v)
  BY <1>2, <1>5, RideIdHere DEF AcceptByVehicle, Here!AcceptByVehicle
<1>6. ASSUME NEW r \in Rides, NEW l \in Locations, AcceptEnd(t, r, l)
      PROVE  Here!AcceptEnd(t, r, l)
  BY <1>2, <1>6 DEF AcceptEnd, Here!AcceptEnd
<1>7. ASSUME NEW u \in Users, NEW v \in Vehicles, AcceptReport(t, u, v)
      PROVE  Here!AcceptReport(t, u, v)
  BY <1>2, <1>7 DEF AcceptReport, Here!AcceptReport
<1> HIDE DEF fleet, Here!fleet, books, Here!books, Accept, Here!Accept, LoopFree, Here!LoopFree,
            NoReq, Here!NoReq, KeepLoopIf, Here!KeepLoopIf, AcquireUser, Here!AcquireUser,
            AcquireStation, Here!AcquireStation
<1> QED  BY <1>2, <1>3, <1>4, <1>5, <1>6, <1>7 DEF Arrival, Here!Arrival

LEMMA StepHereQuiet ==
  ASSUME Here!FleetInv, NEW t \in Tasks,
         \/ StartChooseStation(t) \/ StartCheckout(t) \/ AwaitUser(t) \/ ByStationRide(t)
         \/ ByVehicleRide(t) \/ EndDock(t)
  PROVE  ChargedHere' = ChargedHere
<1>1. NotCharging(t)
  BY TypesHere DEF StartChooseStation, StartCheckout, AwaitUser, ByStationRide,
         ByVehicleRide, EndDock, NotCharging, GoTo, Reply
<1>2. UNCHANGED ride \/ \E u, v : BeginRide(u, v)
  BY DEF StartChooseStation, StartCheckout, AwaitUser, ByStationRide, ByVehicleRide, EndDock,
         books
<1>3. \A r \in Rides : Paid(r)' <=> Paid(r)
  BY <1>2, SameRides, BegunRides
<1> QED  BY <1>1, <1>3, SameCharges

LEMMA EndRideHere ==
  ASSUME Here!FleetInv, NEW t \in Tasks, EndRide(t)
  PROVE  ChargedHere' = ChargedHere
<1> PICK r : r = req[t].ride
  OBVIOUS
<1>1. CASE UNCHANGED books /\ Reply(t)
  <2>1. NotCharging(t)
    BY <1>1, TypesHere DEF EndRide, NotCharging, Reply
  <2>2. \A q \in Rides : Paid(q)' <=> Paid(q)
    BY <1>1, SameRides DEF books
  <2> QED  BY <2>1, <2>2, SameCharges
<1>2. CASE /\ ride[r].status = "active" /\ CompleteRide(r, RideFee) /\ GoTo(t, "end.charge")
           /\ \E s : req' = [req EXCEPT ![t].station = s]
  <2>1. /\ pc[t] = "end.user" /\ pc'[t] = "end.charge" /\ req'[t].ride = r
        /\ \A x \in Tasks \ {t} : pc'[x] = pc[x] /\ req'[x] = req[x]
    BY <1>2, TypesHere, ReqTypeHere DEF EndRide, GoTo
  <2>2. \A q \in Rides \ {r} : (InCharge(q)' <=> InCharge(q)) /\ (Paid(q)' <=> Paid(q))
    BY <1>2, <2>1, TypesHere DEF InCharge, Paid, CompleteRide
  <2>3. ~Paid(r) /\ InCharge(r)'
    BY <1>2, <2>1 DEF InCharge, Paid
  <2>4. \A q \in Rides : (Paid(q) /\ ~InCharge(q)) <=> (Paid(q)' /\ ~InCharge(q)')
    BY <2>2, <2>3
  <2> QED  BY <2>4 DEF ChargedHere
<1> QED  BY <1>1, <1>2 DEF EndRide

LEMMA EndChargedHere ==
  ASSUME Here!FleetInv, NEW t \in Tasks, EndCharged(t)
  PROVE  /\ req[t].ride \in Rides
         /\ ChargedHere' = [ChargedHere EXCEPT ![req[t].ride] = @ + 1]
<1> PICK r : r = req[t].ride
  OBVIOUS
<1>1. /\ r \in Rides /\ Paid(r) /\ InCharge(r)
      /\ \A x \in Tasks : pc[x] = "end.charge" /\ req[x].ride = r => x = t
  BY HereCharging DEF EndCharged, InCharge
<1>2. /\ pc'[t] # "end.charge" /\ UNCHANGED ride
      /\ \A x \in Tasks \ {t} : pc'[x] = pc[x] /\ req'[x] = req[x]
  BY TypesHere DEF EndCharged, GoTo, Reply
<1>3. ~InCharge(r)' /\ Paid(r)'
  BY <1>1, <1>2 DEF InCharge, Paid
<1>4. \A q \in Rides \ {r} : (InCharge(q)' <=> InCharge(q)) /\ (Paid(q)' <=> Paid(q))
  BY <1>2 DEF InCharge, Paid, EndCharged
<1>5. /\ \A q \in Rides \ {r} : ChargedHere'[q] = ChargedHere[q]
      /\ ChargedHere[r] = 0 /\ ChargedHere'[r] = 1
  BY <1>1, <1>3, <1>4 DEF ChargedHere
<1>6. ChargedHere' = [q \in Rides |-> ChargedHere'[q]] /\ DOMAIN ChargedHere = Rides
  BY DEF ChargedHere
<1> QED  BY <1>1, <1>5, <1>6

LEMMA ReportHere ==
  ASSUME Here!FleetInv, NEW t \in Tasks, ReportDegraded(t)
  PROVE  ChargedHere' = ChargedHere
<1>1. NotCharging(t)
  BY TypesHere DEF ReportDegraded, NotCharging, Reply
<1>2. ASSUME NEW r \in Rides, ride[r].status = "active", CompleteRide(r, 0)
      PROVE  \A q \in Rides : Paid(q)' <=> Paid(q)
  BY <1>2, TypesHere DEF CompleteRide, Paid, RideFee
<1>3. UNCHANGED ride \/ \E r \in Rides : ride[r].status = "active" /\ CompleteRide(r, 0)
  BY DEF ReportDegraded, ActiveRides, books
<1>4. \A q \in Rides : Paid(q)' <=> Paid(q)
  BY <1>2, <1>3, SameRides
<1> QED  BY <1>1, <1>4, SameCharges

LEMMA StepHere ==
  ASSUME Here!FleetInv, NEW t \in Tasks, Step(t)
  PROVE  Here!Step(t)
<1> USE FullHere, EligibleHere, PreferredHere, NearestHere, StationsHere
    DEF fleet, Here!fleet, books, Here!books, CanRun, Here!CanRun, Holds, Here!Holds,
        GoTo, Here!GoTo, Reply, Here!Reply, NoReq, Here!NoReq, KeepLoopIf, Here!KeepLoopIf,
        ReleaseUser, Here!ReleaseUser, ReleaseStation, Here!ReleaseStation,
        AcquireUser, Here!AcquireUser, AcquireStation, Here!AcquireStation
<1>1. ASSUME StartChooseStation(t) PROVE Here!StartChooseStation(t)
  BY <1>1, StepHereQuiet DEF StartChooseStation, Here!StartChooseStation
<1>2. ASSUME AwaitUser(t) PROVE Here!AwaitUser(t)
  BY <1>2, StepHereQuiet DEF AwaitUser, Here!AwaitUser
<1>3. ASSUME EndDock(t) PROVE Here!EndDock(t)
  BY <1>3, StepHereQuiet DEF EndDock, Here!EndDock, Dock, Here!Dock
<1>4. ASSUME EndRide(t) PROVE Here!EndRide(t)
  BY <1>4, EndRideHere DEF EndRide, Here!EndRide, CompleteRide, Here!CompleteRide,
     RideFee, Here!RideFee
<1>5. ASSUME EndCharged(t) PROVE Here!EndCharged(t)
  BY <1>5, EndChargedHere DEF EndCharged, Here!EndCharged
<1>6. ASSUME ReportDegraded(t) PROVE Here!ReportDegraded(t)
  BY <1>6, ReportHere DEF ReportDegraded, Here!ReportDegraded, ActiveRides, Here!ActiveRides,
     CompleteRide, Here!CompleteRide
<1> USE DEF Checkout, Here!Checkout, BeginRide, Here!BeginRide
<1>7. ASSUME StartCheckout(t) PROVE Here!StartCheckout(t)
  BY <1>7, StepHereQuiet DEF StartCheckout, Here!StartCheckout
<1>8. ASSUME ByStationRide(t) PROVE Here!ByStationRide(t)
  BY <1>8, StepHereQuiet DEF ByStationRide, Here!ByStationRide
<1>9. ASSUME ByVehicleRide(t) PROVE Here!ByVehicleRide(t)
  BY <1>9, StepHereQuiet DEF ByVehicleRide, Here!ByVehicleRide, ByVehicleAllowed,
     Here!ByVehicleAllowed, CanRent, Here!CanRent
<1>10. \/ StartChooseStation(t) \/ StartCheckout(t) \/ AwaitUser(t) \/ ByStationRide(t)
       \/ ByVehicleRide(t) \/ EndRide(t) \/ EndCharged(t) \/ EndDock(t) \/ ReportDegraded(t)
  BY Zenon DEF Step
<1> QED
  BY ONLY <1>1, <1>2, <1>3, <1>4, <1>5, <1>6, <1>7, <1>8, <1>9, <1>10 DEF Here!Step

LEMMA TreatHere ==
  ASSUME NEW v \in Vehicles, TreatOne(v)
  PROVE  ChargedHere' = ChargedHere /\ Here!TreatOne(v)
<1>1. ChargedHere' = ChargedHere
  BY SameRides, SameCharges DEF TreatOne, books, tasks
<1>2. Relocate(v) => Here!Relocate(v)
  BY FullHere DEF Relocate, Here!Relocate
<1> QED
  BY <1>1, <1>2 DEF TreatOne, Here!TreatOne, books, Here!books, locks, Here!locks, tasks, Here!tasks

LEMMA TreatBeginHere ==
  ASSUME TreatBegin
  PROVE  ChargedHere' = ChargedHere /\ Here!TreatBegin
<1>1. ChargedHere' = ChargedHere
  BY SameRides, SameCharges DEF TreatBegin, books, tasks
<1> QED
  BY <1>1 DEF TreatBegin, Here!TreatBegin, LoopFree, Here!LoopFree, TreatmentEligible,
     Here!TreatmentEligible, fleet, Here!fleet, books, Here!books, locks, Here!locks,
     tasks, Here!tasks

LEMMA UpgradeHere ==
  ASSUME NEW u \in Users, UpgradeUser(u)
  PROVE  ChargedHere' = ChargedHere /\ Here!UpgradeUser(u)
<1>1. ChargedHere' = ChargedHere
  BY SameRides, SameCharges DEF UpgradeUser, books, tasks
<1> QED
  BY <1>1 DEF UpgradeUser, Here!UpgradeUser, LoopFree, Here!LoopFree, fleet, Here!fleet,
     books, Here!books, locks, Here!locks, tasks, Here!tasks

\* Charges and the charges of the rides in memory move together.
ChargedAlike ==
  \/ UNCHANGED charged /\ ChargedHere' = ChargedHere
  \/ \E r \in Rides : /\ charged' = [charged EXCEPT ![r] = @ + 1]
                       /\ ChargedHere' = [ChargedHere EXCEPT ![r] = @ + 1]

LEMMA NextHere ==
  ASSUME Here!FleetInv, Next
  PROVE  Here!Next /\ ChargedAlike
<1>1. ASSUME NEW t \in Tasks, Arrival(t) PROVE Here!Arrival(t) /\ ChargedAlike
  <2>1. UNCHANGED charged
    BY <1>1 DEF Arrival, AcceptStart, AcceptByStation, AcceptByVehicle, AcceptEnd,
       AcceptReport, books
  <2> QED  BY <1>1, <2>1, ArrivalHere DEF ChargedAlike
<1>2. ASSUME NEW t \in Tasks, Step(t) PROVE Here!Step(t) /\ ChargedAlike
  <2>1. CASE EndCharged(t)
    BY <1>2, <2>1, EndChargedHere, StepHere DEF ChargedAlike, EndCharged
  <2>2. CASE EndRide(t)
    BY <1>2, <2>2, EndRideHere, StepHere DEF ChargedAlike, EndRide, books
  <2>3. CASE ReportDegraded(t)
    BY <1>2, <2>3, ReportHere, StepHere DEF ChargedAlike, ReportDegraded, books
  <2>4. CASE \/ StartChooseStation(t) \/ StartCheckout(t) \/ AwaitUser(t)
             \/ ByStationRide(t) \/ ByVehicleRide(t) \/ EndDock(t)
    <3>1. UNCHANGED charged
      BY <2>4 DEF StartChooseStation, StartCheckout, AwaitUser, ByStationRide, ByVehicleRide,
         EndDock, BeginRide, books
    <3> QED  BY <1>2, <2>4, <3>1, StepHereQuiet, StepHere DEF ChargedAlike
  <2> QED  BY <1>2, <2>1, <2>2, <2>3, <2>4 DEF Step
<1>3. ASSUME NEW v \in Vehicles, TreatOne(v) PROVE Here!TreatOne(v) /\ ChargedAlike
  BY <1>3, TreatHere DEF ChargedAlike, TreatOne, books
<1>4. ASSUME TreatBegin PROVE Here!TreatBegin /\ ChargedAlike
  BY <1>4, TreatBeginHere DEF ChargedAlike, TreatBegin, books
<1>5. ASSUME NEW u \in Users, UpgradeUser(u) PROVE Here!UpgradeUser(u) /\ ChargedAlike
  BY <1>5, UpgradeHere DEF ChargedAlike, UpgradeUser, books
<1> QED  BY <1>1, <1>2, <1>3, <1>4, <1>5 DEF Next, Here!Next

-----------------------------------------------------------------------------
(* The invariant: RideService's, for the rides in memory, and what makes    *)
(* state.json a state to start from.                                        *)

\* An id that no ride was given has no ride.
UndrawnIds == \A r \in Rides : ride[r].status = "none" => ride[r] = NoRide

\* The CSV files describe an initial fleet.
CsvGood ==
  /\ csv.station \in [Vehicles -> Stations \cup {None}]
  /\ csv.docked \in [Stations -> SUBSET Vehicles]
  /\ \A s \in Stations :
       LET assigned == {v \in Vehicles : csv.station[v] = s}
       IN  /\ csv.docked[s] \subseteq assigned
           /\ Cardinality(csv.docked[s]) <= Capacity[s]
           /\ Cardinality(csv.docked[s]) = Capacity[s] \/ csv.docked[s] = assigned
  /\ csv.rides \in [Vehicles -> InitialRides]

DiskTyped ==
  /\ Known \subseteq Vehicles
  /\ \A v \in Known : /\ disk.vehicles[v].status \in {"available", "in_use", "degraded"}
                       /\ disk.vehicles[v].rides \in Nat
                       /\ disk.vehicles[v].station \in Stations \cup {None}
  /\ disk.stations \in [Stations -> SUBSET Vehicles]
  /\ disk.users \subseteq Users
  /\ disk.activeUsers \in [Users -> Rides \cup {None}]
  /\ DOMAIN disk.rides \subseteq Rides
  /\ \A r \in DOMAIN disk.rides : /\ disk.rides[r].user \in Users
                                   /\ disk.rides[r].vehicle \in Vehicles
                                   /\ disk.rides[r].fee \in Nat
                                   /\ disk.rides[r].ended \in BOOLEAN
  /\ disk.maintenance \in [Vehicles -> Nat]
  /\ disk.degraded \subseteq Vehicles

ActiveOnDisk == {r \in DOMAIN disk.rides : ~disk.rides[r].ended}

\* The rides and the active users of the snapshot agree.
DiskIndexed ==
  /\ \A r \in ActiveOnDisk : disk.activeUsers[disk.rides[r].user] = r
  /\ \A u \in Users : disk.activeUsers[u] # None =>
       /\ disk.activeUsers[u] \in DOMAIN disk.rides
       /\ disk.rides[disk.activeUsers[u]].user = u

\* A vehicle is listed at one station at most, the one it names if it was
\* written out, and not in the pool.
DiskDocked ==
  /\ \A s \in Stations : \A v \in disk.stations[s] :
       /\ v \notin disk.degraded
       /\ \A x \in Stations : v \in disk.stations[x] => x = s
       /\ v \in Known => disk.vehicles[v].station = s
  /\ \A v \in Known : disk.vehicles[v].station # None =>
       /\ v \notin disk.degraded
       /\ \/ v \in disk.stations[disk.vehicles[v].station]
          \/ \A r \in DOMAIN disk.rides : disk.rides[r].vehicle # v
  /\ \A s \in Stations : Cardinality(disk.stations[s]) <= Capacity[s]

DiskExclusive ==
  \A r \in ActiveOnDisk :
    /\ \A s \in Stations : disk.rides[r].vehicle \notin disk.stations[s]
    /\ disk.rides[r].vehicle \notin disk.degraded
    /\ \A q \in ActiveOnDisk \ {r} : disk.rides[q].vehicle # disk.rides[r].vehicle

DiskGood == DiskTyped /\ DiskIndexed /\ DiskDocked /\ DiskExclusive

\* The charges that the rides of the next startup account for.
PaidOnDisk(r) ==
  /\ r \in DOMAIN disk.rides
  /\ disk.rides[r].ended /\ disk.rides[r].fee = RideFee

Accounted(r) == IF phase = "down" THEN IF PaidOnDisk(r) THEN 1 ELSE 0 ELSE ChargedHere[r]

ChargesBounded ==
  /\ charged \in [Rides -> Nat]
  /\ crashes \in Nat
  /\ \A r \in Rides : charged[r] <= crashes + Accounted(r)

RInv ==
  /\ Here!FleetInv
  /\ UndrawnIds
  /\ phase \in {"up", "saving", "down"}
  /\ phase = "saving" => \A t \in Tasks : pc[t] = "idle"
  /\ ChargesBounded
  /\ CsvGood
  /\ disk # None => DiskGood

\* Without requests in flight the rides that are completed for the fee are
\* exactly the charged ones.
LEMMA IdleCharges ==
  ASSUME \A t \in Tasks : pc[t] = "idle", NEW r \in Rides
  PROVE  ChargedHere[r] = IF Paid(r) THEN 1 ELSE 0
BY DEF ChargedHere, InCharge

LEMMA ChargedHereTyped == ChargedHere \in [Rides -> {0, 1}]
BY DEF ChargedHere

-----------------------------------------------------------------------------
(* The steps of a serving process.                                          *)

LEMMA UndrawnStep ==
  ASSUME Here!FleetInv, UndrawnIds, Next
  PROVE  UndrawnIds'
<1>1. ASSUME NEW r \in Rides, NEW fee, ride[r].status = "active", CompleteRide(r, fee)
      PROVE  UndrawnIds'
  BY <1>1, TypesHere DEF UndrawnIds, CompleteRide
<1>2. ASSUME NEW u, NEW v, BeginRide(u, v) PROVE UndrawnIds'
  BY <1>2, TypesHere DEF UndrawnIds, BeginRide
<1>3. ASSUME UNCHANGED ride PROVE UndrawnIds'
  BY <1>3 DEF UndrawnIds
<1>4. \/ UNCHANGED ride
      \/ \E u, v : BeginRide(u, v)
      \/ \E r \in Rides : \E fee : ride[r].status = "active" /\ CompleteRide(r, fee)
  <2>1. ASSUME NEW t \in Tasks, Arrival(t) PROVE UNCHANGED ride
    BY <2>1 DEF Arrival, AcceptStart, AcceptByStation, AcceptByVehicle, AcceptEnd,
       AcceptReport, books
  <2>2. ASSUME NEW t \in Tasks, \/ StartChooseStation(t) \/ AwaitUser(t) \/ EndCharged(t)
                                \/ EndDock(t)
        PROVE  UNCHANGED ride
    BY <2>2 DEF StartChooseStation, AwaitUser, EndCharged, EndDock, books
  <2>3. ASSUME NEW t \in Tasks, StartCheckout(t) \/ ByStationRide(t) \/ ByVehicleRide(t)
        PROVE  UNCHANGED ride \/ \E u, v : BeginRide(u, v)
    BY <2>3 DEF StartCheckout, ByStationRide, ByVehicleRide, books
  <2>4. ASSUME NEW t \in Tasks, EndRide(t)
        PROVE  \/ UNCHANGED ride
               \/ \E r \in Rides : \E fee : ride[r].status = "active" /\ CompleteRide(r, fee)
    <3>1. req[t].ride \in Rides
      BY <2>4 DEF EndRide, Here!FleetInv, Here!BookInv, Here!SafeLocks, Here!TypeOK,
         Here!RequestsTyped, Here!RequestTyped
    <3> QED  BY <2>4, <3>1 DEF EndRide, books
  <2>5. ASSUME NEW t \in Tasks, ReportDegraded(t)
        PROVE  \/ UNCHANGED ride
               \/ \E r \in Rides : \E fee : ride[r].status = "active" /\ CompleteRide(r, fee)
    BY <2>5 DEF ReportDegraded, ActiveRides, books
  <2>6. ASSUME TreatBegin \/ (\E v \in Vehicles : TreatOne(v)) \/ \E u \in Users : UpgradeUser(u)
        PROVE  UNCHANGED ride
    BY <2>6 DEF TreatBegin, TreatOne, UpgradeUser, books
  <2> QED  BY <2>1, <2>2, <2>3, <2>4, <2>5, <2>6 DEF Next, Step
<1> QED  BY <1>1, <1>2, <1>3, <1>4

LEMMA ServeKeeps ==
  ASSUME RInv, Serve
  PROVE  RInv'
<1>1. Here!FleetInv /\ Next /\ phase = "up" /\ phase' = "up" /\ UNCHANGED <<csv, disk, crashes>>
  BY DEF RInv, Serve
<1>2. Here!Next /\ ChargedAlike
  BY <1>1, NextHere
<1>3. Here!FleetInv'
  BY <1>1, <1>2, HereStep
<1>4. UndrawnIds'
  BY <1>1, UndrawnStep DEF RInv
<1>5. ChargesBounded'
  <2>1. \A r \in Rides : Accounted(r) = ChargedHere[r] /\ Accounted(r)' = ChargedHere'[r]
    BY <1>1 DEF Accounted
  <2>2. ChargedHere \in [Rides -> Nat]
    BY ChargedHereTyped
  <2> QED  BY <1>1, <1>2, <2>1, <2>2 DEF RInv, ChargesBounded, ChargedAlike
<1>6. CsvGood' /\ (disk' # None => DiskGood')
  BY <1>1 DEF RInv, CsvGood, DiskGood, DiskTyped, DiskIndexed, DiskDocked, DiskExclusive,
     ActiveOnDisk, Known
<1> QED  BY <1>1, <1>3, <1>4, <1>5, <1>6 DEF RInv

-----------------------------------------------------------------------------
(* Shutdown and crash.                                                      *)

\* The memory of the process stays what it was.
LEMMA MemoryKept ==
  ASSUME Here!FleetInv, UndrawnIds, UNCHANGED vars
  PROVE  Here!FleetInv' /\ UndrawnIds' /\ ChargedHere' = ChargedHere
<1>1. ChargedHere' = ChargedHere /\ UndrawnIds'
  BY DEF vars, books, tasks, ChargedHere, Paid, InCharge, UndrawnIds
<1>2. UNCHANGED Here!vars
  BY <1>1 DEF vars, fleet, books, locks, tasks, Here!vars, Here!fleet, Here!books,
     Here!locks, Here!tasks
<1> QED  BY <1>1, <1>2, HereStep

LEMMA CsvKept ==
  ASSUME CsvGood, UNCHANGED csv
  PROVE  CsvGood'
BY DEF CsvGood

LEMMA DiskKept ==
  ASSUME DiskGood, UNCHANGED disk
  PROVE  DiskGood'
BY DEF DiskGood, DiskTyped, DiskIndexed, DiskDocked, DiskExclusive, ActiveOnDisk, Known

LEMMA ShutdownKeeps ==
  ASSUME RInv, Shutdown
  PROVE  RInv'
<1>1. /\ Here!FleetInv' /\ UndrawnIds' /\ ChargedHere' = ChargedHere
      /\ CsvGood' /\ (disk' # None => DiskGood')
  BY MemoryKept, CsvKept, DiskKept DEF RInv, Shutdown
<1>2. phase = "up" /\ phase' = "saving" /\ \A t \in Tasks : pc'[t] = "idle"
  BY DEF Shutdown, vars, tasks
<1>3. ChargesBounded'
  BY <1>1, <1>2 DEF RInv, ChargesBounded, Accounted, Shutdown, vars, books
<1> QED  BY <1>1, <1>2, <1>3 DEF RInv

LEMMA Dictionaries ==
  /\ \A v : /\ VehicleToDict(v).status = status[v] /\ VehicleToDict(v).rides = ridesSince[v]
           /\ VehicleToDict(v).station = stationOf[v]
  /\ \A r : /\ RideToDict(r).user = ride[r].user /\ RideToDict(r).vehicle = ride[r].vehicle
           /\ RideToDict(r).fee = ride[r].fee
BY DEF VehicleToDict, RideToDict

LEMMA EndedInDictionary ==
  ASSUME NEW r
  PROVE  RideToDict(r).ended = (ride[r].status = "completed")
BY DEF RideToDict

\* A snapshot is taken when no request is in flight, and is then good.
LEMMA SnapshotGood ==
  ASSUME Here!FleetInv, \A t \in Tasks : pc[t] = "idle", disk' = Snapshot
  PROVE  DiskGood'
<1>1. /\ disk'.vehicles = [v \in vehicleRepo |-> VehicleToDict(v)]
      /\ disk'.stations = docked /\ disk'.users = pro /\ disk'.activeUsers = activeRide
      /\ disk'.rides = [r \in StoredRides |-> RideToDict(r)]
      /\ disk'.maintenance = events /\ disk'.degraded = degraded
  BY DEF Snapshot
<1>2. /\ Known' = vehicleRepo /\ DOMAIN disk'.rides = StoredRides
      /\ \A v \in vehicleRepo : disk'.vehicles[v] = VehicleToDict(v)
      /\ \A r \in StoredRides : disk'.rides[r] = RideToDict(r)
  BY <1>1 DEF Known
<1>3. /\ Here!FleetTyped /\ Here!BooksTyped
      /\ Here!RideIndexConsistent /\ Here!DockingConsistent /\ Here!VehicleExclusive
      /\ Here!CapacityRespected
  BY DEF Here!FleetInv, Here!BookInv, Here!SafeLocks, Here!TypeOK
<1>4. ActiveOnDisk' = {r \in Rides : ride[r].status = "active"}
  <2>1. \A r \in StoredRides : disk'.rides[r].ended = (ride[r].status = "completed")
    BY <1>2, EndedInDictionary, Zenon
  <2>2. \A r \in StoredRides :
          r \in Rides /\ (ride[r].status # "completed" <=> ride[r].status = "active")
    BY TypesHere DEF StoredRides
  <2>3. \A r \in Rides : ride[r].status = "active" => r \in StoredRides
    BY DEF StoredRides
  <2> QED  BY <1>2, <2>1, <2>2, <2>3 DEF ActiveOnDisk
<1>5. Here!OpenRides = {r \in Rides : ride[r].status = "active"}
  BY DEF Here!OpenRides, Here!Returning
<1>6. DiskTyped'
  <2>1. /\ Known' \subseteq Vehicles
        /\ \A v \in Known' : /\ disk'.vehicles[v].status \in {"available", "in_use", "degraded"}
                             /\ disk'.vehicles[v].rides \in Nat
                             /\ disk'.vehicles[v].station \in Stations \cup {None}
    BY <1>2, <1>3, Dictionaries DEF Here!FleetTyped
  <2>2. /\ DOMAIN disk'.rides \subseteq Rides
        /\ \A r \in DOMAIN disk'.rides : /\ disk'.rides[r].user \in Users
                                         /\ disk'.rides[r].vehicle \in Vehicles
                                         /\ disk'.rides[r].fee \in Nat
    BY <1>2, <1>3, Dictionaries DEF Here!BooksTyped, StoredRides
  <2>3. \A r \in DOMAIN disk'.rides : disk'.rides[r].ended \in BOOLEAN
    <3>1. \A r \in DOMAIN disk'.rides : disk'.rides[r].ended = (ride[r].status = "completed")
      BY <1>2, EndedInDictionary, Zenon
    <3> QED  BY <3>1
  <2> QED  BY <1>1, <1>3, <2>1, <2>2, <2>3 DEF DiskTyped, Here!FleetTyped, Here!BooksTyped
<1>7. DiskIndexed'
  BY <1>1, <1>2, <1>3, <1>4, <1>5, Dictionaries DEF DiskIndexed, Here!RideIndexConsistent,
     StoredRides, Here!BooksTyped
<1>8. DiskDocked'
  <2>1. \A s \in Stations : \A v \in docked[s] :
          v \in Vehicles /\ stationOf[v] = s /\ s # None /\ v \notin degraded
    BY <1>3, NoneAssumption DEF Here!FleetTyped, Here!DockingConsistent
  <2>2. \A v \in vehicleRepo : stationOf[v] # None =>
          /\ v \notin degraded
          /\ v \in docked[stationOf[v]] \/ \A r \in Rides : ride[r].vehicle # v
    BY <1>3 DEF Here!FleetTyped, Here!DockingConsistent
  <2>3. \A s \in Stations : Cardinality(docked[s]) <= Capacity[s]
    BY <1>3, CardinalityHere DEF Here!CapacityRespected
  <2>4. \A r \in StoredRides : r \in Rides /\ disk'.rides[r].vehicle = ride[r].vehicle
    BY <1>2, Dictionaries DEF StoredRides
  <2>5. \A v \in vehicleRepo : disk'.vehicles[v].station = stationOf[v]
    BY <1>2, Dictionaries
  <2> QED  BY <1>1, <1>2, <2>1, <2>2, <2>3, <2>4, <2>5 DEF DiskDocked
<1>9. DiskExclusive'
  <2>1. \A r \in ActiveOnDisk' : disk'.rides[r].vehicle = ride[r].vehicle
    BY <1>2, <1>4, Dictionaries DEF StoredRides
  <2> QED  BY <1>1, <1>3, <1>4, <1>5, <2>1 DEF DiskExclusive, Here!VehicleExclusive
<1> QED  BY <1>6, <1>7, <1>8, <1>9 DEF DiskGood

LEMMA SaveKeeps ==
  ASSUME RInv, Save
  PROVE  RInv'
<1>1. /\ Here!FleetInv /\ phase = "saving" /\ phase' = "down" /\ UNCHANGED <<vars, csv, crashes>>
      /\ \A t \in Tasks : pc[t] = "idle"
  BY DEF RInv, Save
<1>2. Here!FleetInv' /\ UndrawnIds' /\ CsvGood'
  BY <1>1, MemoryKept, CsvKept DEF RInv
<1>3. DiskGood'
  BY <1>1, SnapshotGood DEF Save
<1>4. ASSUME NEW r \in Rides PROVE Accounted(r)' = Accounted(r)
  <2>1. Accounted(r) = IF Paid(r) THEN 1 ELSE 0
    BY <1>1, IdleCharges DEF Accounted
  <2>2. /\ DOMAIN disk'.rides = StoredRides
        /\ r \in StoredRides => disk'.rides[r] = RideToDict(r)
    BY DEF Save, Snapshot
  <2>3. PaidOnDisk(r)' <=> Paid(r)
    BY <2>2, Dictionaries, EndedInDictionary DEF PaidOnDisk, Paid, StoredRides
  <2> QED  BY <1>1, <2>1, <2>3 DEF Accounted
<1>5. ChargesBounded'
  BY <1>1, <1>4 DEF RInv, ChargesBounded, vars, books
<1> QED  BY <1>1, <1>2, <1>3, <1>5 DEF RInv

LEMMA CrashKeeps ==
  ASSUME RInv, Crash
  PROVE  RInv'
<1>1. /\ Here!FleetInv' /\ UndrawnIds' /\ CsvGood' /\ (disk' # None => DiskGood')
      /\ phase # "down" /\ phase' = "down" /\ crashes' = crashes + 1 /\ charged' = charged
  BY MemoryKept, CsvKept, DiskKept DEF RInv, Crash, vars, books
<1>2. ChargesBounded'
  BY <1>1, ChargedHereTyped DEF RInv, ChargesBounded, Accounted
<1> QED  BY <1>1, <1>2 DEF RInv

-----------------------------------------------------------------------------
(* Startup.                                                                 *)

LEMMA NoRequests ==
  ASSUME FreshLoop
  PROVE  /\ \A t \in Tasks : pc'[t] = "idle"
         /\ Here!RequestsTyped' /\ Here!LocksMatchRequests' /\ Here!LookupsStillHold'
         /\ toTreat' = {}
<1>1. /\ userLock' = [u \in Users |-> <<>>] /\ stationLock' = [s \in Stations |-> <<>>]
      /\ pc' = [t \in Tasks |-> "idle"] /\ loop' = None /\ toTreat' = {}
      /\ req' = [t \in Tasks |-> [user |-> None, ride |-> None, station |-> None,
                                 vehicle |-> None, loc |-> None]]
  BY DEF FreshLoop, NoReq
<1>2. Here!RequestsTyped'
  BY <1>1 DEF Here!RequestsTyped, Here!RequestTyped, Here!PCs, Here!UserPCs, Here!StationPCs
<1>3. Here!LocksMatchRequests'
  BY <1>1 DEF Here!LocksMatchRequests, Here!UserQueuesMatch, Here!StationQueuesMatch,
     Here!NoRepeat, Here!InQueue, Here!UserPCs, Here!StationPCs, Here!UserOwnerPCs,
     Here!StationOwnerPCs
<1>4. Here!LookupsStillHold'
  BY <1>1 DEF Here!LookupsStillHold, Here!LookupHolds
<1> QED  BY <1>1, <1>2, <1>3, <1>4

\* From the CSV files the process starts in an initial state of RideService.
LEMMA ColdStartGood ==
  ASSUME CsvGood, LoadFleet, EmptyBooks, FreshLoop
  PROVE  Here!FleetInv'
<1>1. Here!Init'
  <2>1. /\ stationOf' = csv.station /\ docked' = csv.docked /\ ridesSince' = csv.rides
        /\ degraded' = {v \in Vehicles : csv.station[v] = None}
        /\ status' = [v \in Vehicles |-> IF csv.station[v] = None THEN "degraded" ELSE "available"]
        /\ vehicleRepo' = Vehicles /\ events' = [v \in Vehicles |-> 0]
    BY DEF LoadFleet
  <2>2. \A s \in Stations :
          LET assigned == {v \in Vehicles : stationOf'[v] = s}
          IN  /\ docked'[s] \subseteq assigned
              /\ Here!Cardinality(docked'[s]) <= Capacity[s]
              /\ Here!Full(s)' \/ docked'[s] = assigned
    BY <2>1, CardinalityHere DEF CsvGood, Here!Full
  <2>3. /\ stationOf' \in [Vehicles -> Stations \cup {None}]
        /\ docked' \in [Stations -> SUBSET Vehicles]
        /\ ridesSince' \in [Vehicles -> InitialRides]
    BY <2>1 DEF CsvGood
  <2>4. /\ degraded' = {v \in Vehicles : stationOf'[v] = None}
        /\ status' = [v \in Vehicles |-> IF v \in degraded' THEN "degraded" ELSE "available"]
    BY <2>1
  <2>5. ChargedHere' = [r \in Rides |-> 0]
    BY DEF EmptyBooks, ChargedHere, Paid, NoRide
  <2> QED
    BY <2>1, <2>2, <2>3, <2>4, <2>5 DEF EmptyBooks, FreshLoop, NoRide, Here!NoRide, NoReq,
       Here!NoReq, Here!Init
<1>2. (Here!Init => Here!FleetInv)'
  BY HereInit, PTL
<1> QED  BY <1>1, <1>2

\* Where the restored vehicles are.
LEMMA RestoredPlaces ==
  ASSUME DiskTyped, DiskDocked
  PROVE  /\ \A s \in Stations : /\ RestoredDocked[s] = disk.stations[s] \cap Known
                                /\ RestoredDocked[s] \subseteq Vehicles
         /\ \A v \in Vehicles : RestoredStation(v) = IF v \in Known
                                                     THEN disk.vehicles[v].station ELSE None
<1>1. ASSUME NEW s \in Stations
      PROVE  /\ RestoredDocked[s] = disk.stations[s] \cap Known
             /\ RestoredDocked[s] \subseteq Vehicles
  <2>1. \A v \in disk.stations[s] : v \notin RestoredPool
    BY DEF DiskDocked, RestoredPool
  <2> QED  BY <2>1 DEF RestoredDocked, Redocked, DiskTyped
<1>2. ASSUME NEW v \in Known PROVE RestoredStation(v) = disk.vehicles[v].station
  <2> DEFINE listed == {s \in Stations : v \in Redocked(s)}
  <2>1. \A s \in listed : /\ v \in disk.stations[s] /\ s \in Stations
                          /\ disk.vehicles[v].station = s /\ v \notin RestoredPool
    BY <1>2 DEF Redocked, DiskDocked, RestoredPool
  <2>2. CASE listed = {}
    BY <1>2, <2>2 DEF RestoredStation
  <2>3. CASE listed # {}
    <3>1. v \notin RestoredPool
      BY <2>1, <2>3
    <3>2. (CHOOSE s \in listed : TRUE) \in listed
      BY <2>3
    <3>3. RestoredStation(v) = CHOOSE s \in listed : TRUE
      BY <1>2, <2>3, <3>1 DEF RestoredStation
    <3> HIDE DEF listed
    <3> QED  BY <2>1, <3>2, <3>3
  <2> QED  BY <2>2, <2>3
<1>3. ASSUME NEW v, v \notin Known PROVE RestoredStation(v) = None
  BY <1>3 DEF RestoredStation
<1> QED  BY <1>1, <1>2, <1>3

\* A ride of the snapshot comes back with the data it was written with.
LEMMA RestoredRides ==
  ASSUME DiskTyped, RestoreBooks
  PROVE  \A r \in Rides :
           /\ r \notin DOMAIN disk.rides => ride'[r] = NoRide
           /\ r \in DOMAIN disk.rides =>
                /\ ride'[r].user = disk.rides[r].user /\ ride'[r].vehicle = disk.rides[r].vehicle
                /\ ride'[r].fee = disk.rides[r].fee
                /\ ride'[r].status = IF disk.rides[r].ended THEN "completed" ELSE "active"
                /\ ride'[r] \in [status : {"none", "active", "completed"},
                                user : Users \cup {None},
                                vehicle : Vehicles \cup {None}, fee : Nat]
BY DEF RestoreBooks, RideFromDict, DiskTyped

\* From a good file the process starts in a state that satisfies the invariant.
LEMMA RestoreGood ==
  ASSUME DiskGood, RestoreFleet, RestoreBooks, FreshLoop
  PROVE  Here!FleetInv'
<1>1. DiskTyped /\ DiskIndexed /\ DiskDocked /\ DiskExclusive
  BY DEF DiskGood
<1>2. /\ vehicleRepo' = Known /\ degraded' = disk.degraded \cap Known
      /\ docked' = [s \in Stations |-> disk.stations[s] \cap Known]
      /\ stationOf' = [v \in Vehicles |-> IF v \in Known THEN disk.vehicles[v].station ELSE None]
  <2>1. docked' = [s \in Stations |-> RestoredDocked[s]]
    BY DEF RestoreFleet, RestoredDocked
  <2>2. stationOf' = [v \in Vehicles |-> RestoredStation(v)]
    BY DEF RestoreFleet
  <2>3. vehicleRepo' = Known /\ degraded' = disk.degraded \cap Known
    BY DEF RestoreFleet, RestoredPool
  <2> QED  BY <1>1, <2>1, <2>2, <2>3, RestoredPlaces
<1>3. activeRide' = disk.activeUsers /\ pro' = disk.users
  BY DEF RestoreBooks
<1>4. \A t \in Tasks : pc'[t] = "idle"
  BY NoRequests
<1>5. Here!FleetTyped'
  <2>1. docked' \in [Stations -> SUBSET Vehicles] /\ vehicleRepo' \subseteq Vehicles
        /\ degraded' \subseteq Vehicles /\ stationOf' \in [Vehicles -> Stations \cup {None}]
    BY <1>1, <1>2 DEF DiskTyped
  <2>2. /\ status' \in [Vehicles -> {"available", "in_use", "degraded"}]
        /\ ridesSince' \in [Vehicles -> Nat] /\ events' \in [Vehicles -> Nat]
    BY <1>1 DEF RestoreFleet, DiskTyped
  <2> QED  BY <2>1, <2>2, NoRequests DEF Here!FleetTyped
<1>6. Here!BooksTyped'
  <2>1. ride' \in [Rides -> [status : {"none", "active", "completed"}, user : Users \cup {None},
                            vehicle : Vehicles \cup {None}, fee : Nat]]
    <3>1. ride' = [r \in Rides |-> ride'[r]]
      BY DEF RestoreBooks
    <3>2. NoRide \in [status : {"none", "active", "completed"}, user : Users \cup {None},
                      vehicle : Vehicles \cup {None}, fee : Nat]
      BY DEF NoRide
    <3> QED  BY <1>1, <3>1, <3>2, RestoredRides
  <2>2. \A r \in Rides : ride'[r].status # "none" =>
          ride'[r].user \in Users /\ ride'[r].vehicle \in Vehicles
    BY <1>1, RestoredRides DEF DiskTyped, NoRide
  <2>3. activeRide' \in [Users -> Rides \cup {None}] /\ pro' \subseteq Users
    BY <1>1, <1>3 DEF DiskTyped
  <2>4. ChargedHere' \in [Rides -> Nat]
    BY DEF ChargedHere
  <2> QED  BY <2>1, <2>2, <2>3, <2>4 DEF Here!BooksTyped
<1>7. Here!OpenRides' = ActiveOnDisk
  <2>1. \A r \in Rides : ride'[r].status = "active" <=> r \in ActiveOnDisk
    BY <1>1, RestoredRides DEF ActiveOnDisk, NoRide
  <2>2. ActiveOnDisk \subseteq Rides
    BY <1>1 DEF ActiveOnDisk, DiskTyped
  <2> QED  BY <1>4, <2>1, <2>2 DEF Here!OpenRides, Here!Returning
<1>8. Here!RideIndexConsistent'
  <2>1. \A r \in DOMAIN disk.rides : r \in Rides /\ ride'[r].user = disk.rides[r].user
                                     /\ ride'[r].status # "none"
    BY <1>1, RestoredRides DEF DiskTyped
  <2> QED  BY <1>1, <1>3, <1>7, <2>1 DEF Here!RideIndexConsistent, DiskIndexed, ActiveOnDisk
<1>9. Here!ChargedOnce'
  BY DEF Here!ChargedOnce, ChargedHere, Paid, RideFee, Here!RideFee
<1>10. Here!DockingConsistent'
  <2>1. ASSUME NEW v \in Known, disk.vehicles[v].station # None
        PROVE  /\ disk.vehicles[v].station \in Stations
               /\ v \in disk.stations[disk.vehicles[v].station]
                  \/ \A r \in Rides : ride'[r].vehicle # v
    <3>1. disk.vehicles[v].station \in Stations /\ v \in Vehicles /\ v # None
      BY <1>1, <2>1, NoneAssumption DEF DiskTyped
    <3>2. ASSUME \A r \in DOMAIN disk.rides : disk.rides[r].vehicle # v
          PROVE  \A r \in Rides : ride'[r].vehicle # v
      BY <1>1, <3>1, <3>2, RestoredRides DEF NoRide
    <3> QED  BY <1>1, <2>1, <3>1, <3>2 DEF DiskDocked
  <2>2. \A s \in Stations : \A v \in disk.stations[s] \cap Known :
          v \in Vehicles /\ disk.vehicles[v].station = s
    BY <1>1 DEF DiskDocked, DiskTyped
  <2>3. \A v \in Known : disk.vehicles[v].station # None => v \notin disk.degraded
    BY <1>1 DEF DiskDocked
  <2> QED  BY <1>2, <2>1, <2>2, <2>3 DEF Here!DockingConsistent
<1>11. Here!VehicleExclusive'
  <2>1. \A r \in ActiveOnDisk : ride'[r].vehicle = disk.rides[r].vehicle
    BY <1>1, RestoredRides DEF ActiveOnDisk, DiskTyped
  <2> QED  BY <1>1, <1>2, <1>7, <2>1 DEF Here!VehicleExclusive, DiskExclusive
<1>12. Here!CapacityRespected'
  <2> SUFFICES ASSUME NEW s \in Stations
               PROVE  Cardinality(disk.stations[s] \cap Known) <= Capacity[s]
    BY <1>2, CardinalityHere DEF Here!CapacityRespected
  <2>1. IsFiniteSet(disk.stations[s])
    BY <1>1, FleetAssumption, FS_Subset DEF DiskTyped
  <2>2. /\ IsFiniteSet(disk.stations[s] \cap Known)
        /\ Cardinality(disk.stations[s] \cap Known) <= Cardinality(disk.stations[s])
    BY <2>1, FS_Subset
  <2>3. Cardinality(disk.stations[s]) \in Nat /\ Cardinality(disk.stations[s] \cap Known) \in Nat
    BY <2>1, <2>2, FS_CardinalityType
  <2>4. Cardinality(disk.stations[s]) <= Capacity[s] /\ Capacity[s] \in Nat
    BY <1>1, FleetAssumption DEF DiskDocked
  <2> QED  BY <2>2, <2>3, <2>4
<1> QED
  BY <1>5, <1>6, <1>8, <1>9, <1>10, <1>11, <1>12, NoRequests
     DEF Here!FleetInv, Here!BookInv, Here!SafeLocks, Here!TypeOK

LEMMA StartupKeeps ==
  ASSUME RInv, Startup
  PROVE  RInv'
<1>1. /\ FreshLoop /\ phase = "down" /\ phase' = "up" /\ UNCHANGED <<csv, disk, crashes>>
      /\ CsvGood' /\ (disk' # None => DiskGood') /\ ChargesAfter(ride')
      /\ \A t \in Tasks : pc'[t] = "idle"
  BY CsvKept, DiskKept, NoRequests DEF RInv, Startup
<1>2. charged' = [r \in Rides |-> IF ride'[r].status = "none" THEN 0 ELSE charged[r]]
  BY <1>1 DEF ChargesAfter
<1>3. charged \in [Rides -> Nat] /\ crashes \in Nat
      /\ \A r \in Rides : charged[r] <= crashes + IF PaidOnDisk(r) THEN 1 ELSE 0
  BY <1>1 DEF RInv, ChargesBounded, Accounted
<1>4. \A r \in Rides : Accounted(r)' = IF Paid(r)' THEN 1 ELSE 0
  BY <1>1 DEF Accounted, ChargedHere, InCharge
<1>5. CASE disk = None /\ LoadFleet /\ EmptyBooks
  <2>1. Here!FleetInv'
    BY <1>1, <1>5, ColdStartGood DEF RInv
  <2>2. \A r \in Rides : ride'[r] = NoRide /\ ride'[r].status = "none"
    BY <1>5 DEF EmptyBooks, NoRide
  <2>3. UndrawnIds'
    BY <2>2 DEF UndrawnIds
  <2>4. ChargesBounded'
    BY <1>1, <1>2, <1>3, <1>4, <2>2 DEF ChargesBounded
  <2> QED  BY <1>1, <2>1, <2>3, <2>4 DEF RInv
<1>6. CASE disk # None /\ RestoreFleet /\ RestoreBooks
  <2>1. DiskGood /\ DiskTyped
    BY <1>6 DEF RInv, DiskGood
  <2>2. Here!FleetInv'
    BY <1>1, <1>6, <2>1, RestoreGood
  <2>3. \A r \in Rides : /\ r \notin DOMAIN disk.rides => ride'[r] = NoRide
                         /\ r \in DOMAIN disk.rides => ride'[r].status # "none"
                         /\ ride'[r].status # "none" /\ PaidOnDisk(r) => Paid(r)'
    BY <1>6, <2>1, RestoredRides DEF PaidOnDisk, Paid
  <2>4. UndrawnIds'
    BY <2>3 DEF UndrawnIds
  <2>5. ChargesBounded'
    BY <1>1, <1>2, <1>3, <1>4, <2>3 DEF ChargesBounded
  <2> QED  BY <1>1, <2>2, <2>4, <2>5 DEF RInv
<1> QED  BY <1>5, <1>6 DEF Startup

-----------------------------------------------------------------------------
(* Theorems.                                                                *)

LEMMA RestartInit == RInit => RInv
<1> SUFFICES ASSUME RInit PROVE RInv
  OBVIOUS
<1>1. Init /\ csv = [station |-> stationOf, docked |-> docked, rides |-> ridesSince]
      /\ disk = None /\ phase = "up" /\ crashes = 0
  BY DEF RInit
<1>2. /\ ChargedHere = [r \in Rides |-> 0]
      /\ \A r \in Rides : ride[r] = NoRide
  BY <1>1 DEF Init, ChargedHere, Paid, NoRide
<1>3. Here!Init
  BY <1>1, <1>2, FullHere, CardinalityHere DEF Init, Here!Init, NoRide, Here!NoRide, NoReq,
     Here!NoReq
<1>4. CsvGood
  BY <1>1 DEF Init, CsvGood, Full
<1>5. ChargesBounded
  BY <1>1, <1>2 DEF Init, ChargesBounded, Accounted
<1> QED  BY <1>1, <1>2, <1>3, <1>4, <1>5, HereInit DEF RInv, UndrawnIds

LEMMA RestartStep ==
  ASSUME RInv, [RNext]_rvars
  PROVE  RInv'
<1>1. CASE UNCHANGED rvars
  <2>1. /\ Here!FleetInv' /\ UndrawnIds' /\ ChargedHere' = ChargedHere
        /\ CsvGood' /\ (disk' # None => DiskGood')
    BY <1>1, MemoryKept, CsvKept, DiskKept DEF RInv, rvars
  <2>2. ChargesBounded'
    BY <1>1, <2>1 DEF RInv, ChargesBounded, Accounted, PaidOnDisk, rvars, vars, books
  <2>3. phase' = "saving" => \A t \in Tasks : pc'[t] = "idle"
    BY <1>1 DEF RInv, rvars, vars, tasks
  <2> QED  BY <1>1, <2>1, <2>2, <2>3 DEF RInv, rvars
<1> QED  BY <1>1, ServeKeeps, ShutdownKeeps, SaveKeeps, CrashKeeps, StartupKeeps DEF RNext

\* Across shutdowns, crashes and startups the process serves from a consistent
\* state, and state.json holds one (app.py:73-128).
THEOREM RestartSafe == RSpec => []RInv
<1>1. RInv /\ [RNext]_rvars => RInv'
  BY RestartStep
<1> QED  BY <1>1, RestartInit, PTL DEF RSpec

\* A ride is charged once, and once more per crash at most.
THEOREM ChargesCorrect == RSpec => []ChargedPerCrash
<1>1. RInv => ChargedPerCrash
  <2> SUFFICES ASSUME RInv, NEW r \in Rides PROVE charged[r] <= 1 + crashes
    BY DEF ChargedPerCrash
  <2>1. /\ charged[r] \in Nat /\ crashes \in Nat /\ Accounted(r) \in {0, 1}
        /\ charged[r] <= crashes + Accounted(r)
    BY ChargedHereTyped DEF RInv, ChargesBounded, Accounted
  <2> QED  BY <2>1
<1> QED  BY <1>1, RestartSafe, PTL

LEMMA OpenHere == Here!OpenRides = OpenRides
BY DEF OpenRides, Here!OpenRides, Returning, Here!Returning

\* The rides and the active users agree after any restart.
THEOREM RestartIndexCorrect == RSpec => []RideIndexConsistent
<1>1. RInv => RideIndexConsistent
  BY OpenHere DEF RInv, Here!FleetInv, Here!BookInv, Here!RideIndexConsistent, RideIndexConsistent
<1> QED  BY <1>1, RestartSafe, PTL

\* No restart brings a vehicle back in two places, or on a ride and in a place.
THEOREM RestartExclusive == RSpec => []VehicleExclusive
<1>1. RInv => VehicleExclusive
  BY OpenHere DEF RInv, Here!FleetInv, Here!VehicleExclusive, VehicleExclusive
<1> QED  BY <1>1, RestartSafe, PTL

\* A startup from what memory held gives memory back, as far as the snapshot
\* goes.
LEMMA ResumeKeeps ==
  ASSUME RInv, Startup, Resumes
  PROVE  /\ ride' = ride /\ activeRide' = activeRide /\ pro' = pro /\ events' = events
         /\ \A v \in vehicleRepo :
              /\ stationOf'[v] = stationOf[v] /\ (v \in degraded') = (v \in degraded)
              /\ status'[v] = status[v] /\ ridesSince'[v] = ridesSince[v]
              /\ \A s \in Stations : (v \in docked'[s]) = (v \in docked[s])
<1>1. DiskGood /\ DiskTyped /\ DiskDocked /\ RestoreFleet /\ RestoreBooks /\ Here!FleetInv
  BY DEF RInv, Resumes, Startup, DiskGood
<1>2. /\ disk.vehicles = [v \in vehicleRepo |-> VehicleToDict(v)]
      /\ disk.stations = docked /\ disk.users = pro /\ disk.activeUsers = activeRide
      /\ disk.rides = [r \in StoredRides |-> RideToDict(r)]
      /\ disk.maintenance = events /\ disk.degraded = degraded
  BY DEF Resumes, Snapshot
<1>3. /\ Known = vehicleRepo /\ DOMAIN disk.rides = StoredRides
      /\ \A v \in vehicleRepo : disk.vehicles[v] = VehicleToDict(v)
      /\ \A r \in StoredRides : disk.rides[r] = RideToDict(r)
  BY <1>2 DEF Known
<1>4. ride' = ride
  <2>1. ASSUME NEW r \in Rides PROVE ride'[r] = ride[r]
    <3>1. CASE r \notin StoredRides
      BY <1>1, <1>3, <3>1, RestoredRides DEF RInv, UndrawnIds, StoredRides
    <3>2. CASE r \in StoredRides
      <4>1. disk.rides[r].ended = (ride[r].status = "completed")
        BY <1>3, <3>2, EndedInDictionary, Zenon
      <4>2. /\ ride'[r].user = ride[r].user /\ ride'[r].vehicle = ride[r].vehicle
            /\ ride'[r].fee = ride[r].fee
        BY <1>1, <1>3, <3>2, RestoredRides, Dictionaries
      <4>3. ride'[r].status = IF disk.rides[r].ended THEN "completed" ELSE "active"
        BY <1>1, <1>3, <3>2, RestoredRides
      <4>4. ride'[r].status = ride[r].status
        BY <1>1, <3>2, <4>1, <4>3, TypesHere DEF StoredRides
      <4>5. /\ ride'[r] \in [status : {"none", "active", "completed"}, user : Users \cup {None},
                             vehicle : Vehicles \cup {None}, fee : Nat]
            /\ ride[r] \in [status : {"none", "active", "completed"}, user : Users \cup {None},
                            vehicle : Vehicles \cup {None}, fee : Nat]
        BY <1>1, <1>3, <3>2, RestoredRides, TypesHere
      <4> QED  BY <4>2, <4>4, <4>5
    <3> QED  BY <3>1, <3>2
  <2>2. ride' = [r \in Rides |-> ride'[r]] /\ ride = [r \in Rides |-> ride[r]]
    BY <1>1, TypesHere DEF RestoreBooks
  <2> QED  BY <2>1, <2>2
<1>5. activeRide' = activeRide /\ pro' = pro /\ events' = events
  BY <1>1, <1>2 DEF RestoreBooks, RestoreFleet
<1>6. ASSUME NEW v \in vehicleRepo
      PROVE  /\ stationOf'[v] = stationOf[v] /\ (v \in degraded') = (v \in degraded)
             /\ status'[v] = status[v] /\ ridesSince'[v] = ridesSince[v]
             /\ \A s \in Stations : (v \in docked'[s]) = (v \in docked[s])
  <2>1. v \in Vehicles /\ v \in Known
    BY <1>1, <1>3 DEF DiskTyped
  <2>2. stationOf'[v] = stationOf[v]
    BY <1>1, <1>3, <2>1, RestoredPlaces, Dictionaries DEF RestoreFleet
  <2>3. status'[v] = status[v] /\ ridesSince'[v] = ridesSince[v]
    BY <1>1, <1>3, <2>1, Dictionaries DEF RestoreFleet
  <2>4. v \in degraded' <=> v \in degraded
    BY <1>1, <1>2, <2>1 DEF RestoreFleet, RestoredPool
  <2>5. \A s \in Stations : v \in docked'[s] <=> v \in docked[s]
    <3>1. \A s \in Stations : docked'[s] = disk.stations[s] \cap Known
      BY <1>1, RestoredPlaces DEF RestoreFleet
    <3> QED  BY <1>2, <2>1, <3>1
  <2> QED  BY <2>2, <2>3, <2>4, <2>5
<1> QED  BY <1>4, <1>5, <1>6

\* A graceful restart loses nothing of what the snapshot covers.
THEOREM GracefulRestartCorrect == RSpec => GracefulRestartKeeps
<1> DEFINE Kept == Resumes =>
       /\ ride' = ride /\ activeRide' = activeRide /\ pro' = pro /\ events' = events
       /\ \A v \in vehicleRepo :
            /\ stationOf'[v] = stationOf[v] /\ (v \in degraded') = (v \in degraded)
            /\ status'[v] = status[v] /\ ridesSince'[v] = ridesSince[v]
            /\ \A s \in Stations : (v \in docked'[s]) = (v \in docked[s])
<1>1. RInv /\ [RNext]_rvars => [Kept]_rvars
  <2> SUFFICES ASSUME RInv, RNext, Resumes PROVE Kept
    OBVIOUS
  <2>1. Startup
    BY DEF RNext, Serve, Shutdown, Save, Crash, Resumes
  <2> QED  BY <2>1, ResumeKeeps
<1>2. RSpec => [][Kept]_rvars
  BY <1>1, RestartSafe, PTL DEF RSpec
<1> QED  BY <1>2 DEF GracefulRestartKeeps

=============================================================================
