---------------------------- MODULE RideFleetProofs ----------------------------
(***************************************************************************)
(* The fleet of RideService: no vehicle is in two places, no vehicle is    *)
(* booked twice, no station overflows.                                     *)
(***************************************************************************)
EXTENDS RideServiceProofs

\* A vehicle on an open ride is in nobody's station and not in the pool, so
\* that docking or reporting it puts it in one place.
FleetInv == BookInv /\ DockingConsistent /\ VehicleExclusive /\ CapacityRespected

-----------------------------------------------------------------------------
(* Capacity.                                                                *)

LEMMA DockedFinite ==
  ASSUME TypeOK, NEW s \in Stations
  PROVE  IsFiniteSet(docked[s]) /\ Cardinality(docked[s]) \in Nat
<1>1. docked[s] \subseteq Vehicles
  BY DEF TypeOK, FleetTyped
<1> QED  BY <1>1, FleetAssumption, FS_Subset, FS_CardinalityType

\* A station loses vehicles, or gets one while it is not full.
LEMMA CapacityKept ==
  ASSUME TypeOK, CapacityRespected, NEW s \in Stations,
         \/ docked'[s] \subseteq docked[s]
         \/ ~Full(s) /\ \E v : docked'[s] = docked[s] \cup {v}
  PROVE  Cardinality(docked'[s]) <= Capacity[s]
<1>0. /\ IsFiniteSet(docked[s]) /\ Cardinality(docked[s]) \in Nat
      /\ Cardinality(docked[s]) <= Capacity[s] /\ Capacity[s] \in Nat
  BY DockedFinite, FleetAssumption DEF CapacityRespected
<1>1. CASE docked'[s] \subseteq docked[s]
  <2>1. Cardinality(docked'[s]) \in Nat /\ Cardinality(docked'[s]) <= Cardinality(docked[s])
    BY <1>0, <1>1, FS_Subset, FS_CardinalityType
  <2> QED  BY <1>0, <2>1
<1>2. ASSUME NEW v, ~Full(s), docked'[s] = docked[s] \cup {v}
      PROVE  Cardinality(docked'[s]) <= Capacity[s]
  <2>1. Cardinality(docked[s]) # Capacity[s]
    BY <1>2 DEF Full
  <2>2. Cardinality(docked'[s]) \in {Cardinality(docked[s]), Cardinality(docked[s]) + 1}
    BY <1>0, <1>2, FS_AddElement
  <2> QED  BY <1>0, <2>1, <2>2
<1> QED  BY <1>1, <1>2

LEMMA CapacityStep ==
  ASSUME TypeOK, CapacityRespected, [Next]_vars
  PROVE  CapacityRespected'
<1> DEFINE Loses(s) == docked'[s] \subseteq docked[s]
<1> DEFINE Gets(s) == ~Full(s) /\ \E v : docked'[s] = docked[s] \cup {v}
<1>0. docked \in [Stations -> SUBSET Vehicles]
  BY DEF TypeOK, FleetTyped
<1>1. ASSUME NEW s, NEW v, Checkout(s, v) PROVE \A x \in Stations : Loses(x)
  BY <1>0, <1>1 DEF Checkout
<1>2. ASSUME NEW s \in Stations, NEW v, ~Full(s), Dock(s, v)
      PROVE  \A x \in Stations : Loses(x) \/ Gets(x)
  BY <1>0, <1>2 DEF Dock
<1>3. ASSUME NEW v, Relocate(v) PROVE \A x \in Stations : Loses(x) \/ Gets(x)
  <2>1. CASE UNCHANGED docked
    BY <2>1
  <2>2. ASSUME NEW new \in Stations, ~Full(new),
               docked' = [s \in Stations |-> IF s = new THEN docked[s] \cup {v}
                                                       ELSE docked[s] \ {v}]
        PROVE  \A x \in Stations : Loses(x) \/ Gets(x)
    BY <2>2
  <2> QED  BY <1>3, <2>1, <2>2 DEF Relocate
<1>4. ASSUME NEW t \in Tasks, EndDock(t) PROVE \A x \in Stations : Loses(x) \/ Gets(x)
  <2>1. req[t].station \in Stations
    BY <1>4, RequestFields DEF EndDock, TypeOK, StationPCs
  <2> QED  BY <1>2, <1>4, <2>1 DEF EndDock, fleet
<1>5. ASSUME NEW t \in Tasks, Step(t), ~EndDock(t) PROVE \A x \in Stations : Loses(x)
  BY <1>1, <1>5 DEF Step, StartChooseStation, StartCheckout, AwaitUser, ByStationRide,
                    ByVehicleRide, EndRide, EndCharged, ReportDegraded, fleet
<1>6. ASSUME NEW v \in Vehicles, TreatOne(v) PROVE \A x \in Stations : Loses(x) \/ Gets(x)
  BY <1>3, <1>6 DEF TreatOne
<1>7. (\E t \in Tasks : Arrival(t)) \/ TreatBegin \/ (\E u \in Users : UpgradeUser(u))
        \/ UNCHANGED vars => UNCHANGED docked
  BY DEF Arrival, AcceptStart, AcceptByStation, AcceptByVehicle, AcceptEnd,
         AcceptReport, TreatBegin, UpgradeUser, vars, fleet
<1>8. \A x \in Stations : Loses(x) \/ Gets(x)
  BY <1>4, <1>5, <1>6, <1>7 DEF Next
<1> QED  BY <1>8, CapacityKept DEF CapacityRespected

-----------------------------------------------------------------------------
(* Docking and booking.                                                     *)

\* Nothing moves and no ride opens.
LEMMA FleetStill ==
  ASSUME FleetInv, UNCHANGED <<docked, stationOf, degraded>>, OpenRides' \subseteq OpenRides,
         \A q \in Rides : ride'[q].vehicle = ride[q].vehicle
  PROVE  DockingConsistent' /\ VehicleExclusive'
<1>1. OpenRides \subseteq Rides
  BY DEF OpenRides
<1> QED  BY <1>1 DEF FleetInv, DockingConsistent, VehicleExclusive

\* A docked vehicle is on no open ride, docked nowhere else and not pooled.
LEMMA DockedIsFree ==
  ASSUME FleetInv, NEW s \in Stations, NEW v \in docked[s]
  PROVE  /\ v \in Vehicles /\ stationOf[v] = s /\ v \notin degraded
         /\ \A x \in Stations \ {s} : v \notin docked[x]
         /\ \A q \in OpenRides : ride[q].vehicle # v
<1>1. v \in Vehicles /\ s # None
  BY NoneAssumption DEF FleetInv, BookInv, SafeLocks, TypeOK, FleetTyped
<1> QED  BY <1>1 DEF FleetInv, DockingConsistent, VehicleExclusive

\* A vehicle on an open ride has no station.
LEMMA RiddenIsOut ==
  ASSUME FleetInv, NEW r \in OpenRides
  PROVE  /\ ride[r].vehicle \in Vehicles /\ stationOf[ride[r].vehicle] = None
         /\ ride[r].vehicle \notin degraded
         /\ \A s \in Stations : ride[r].vehicle \notin docked[s]
<1>1. r \in Rides /\ ride[r].vehicle \in Vehicles
  BY BookTypes DEF FleetInv
<1>2. /\ ride[r].vehicle \notin degraded
      /\ \A s \in Stations : ride[r].vehicle \notin docked[s]
  BY DEF FleetInv, VehicleExclusive
<1>3. stationOf[ride[r].vehicle] \in Stations \cup {None}
  BY <1>1 DEF FleetInv, BookInv, SafeLocks, TypeOK, FleetTyped
<1> QED  BY <1>1, <1>2, <1>3 DEF FleetInv, DockingConsistent

LEMMA FleetTaken ==
  ASSUME FleetInv, NEW u, NEW s \in Stations, NEW v \in docked[s], Checkout(s, v),
         BeginRide(u, v), UNCHANGED degraded, \A q \in Rides : Returning(q)' => Returning(q)
  PROVE  DockingConsistent' /\ VehicleExclusive'
<1>0. /\ docked \in [Stations -> SUBSET Vehicles]
      /\ stationOf \in [Vehicles -> Stations \cup {None}]
      /\ ride \in [Rides -> [status : {"none", "active", "completed"},
                             user : Users \cup {None},
                             vehicle : Vehicles \cup {None}, fee : Nat]]
      /\ \A x \in Stations : x # None
  BY NoneAssumption DEF FleetInv, BookInv, SafeLocks, TypeOK, FleetTyped, BooksTyped
<1>1. /\ docked'[s] = docked[s] \ {v}
      /\ \A x \in Stations \ {s} : docked'[x] = docked[x]
      /\ stationOf'[v] = None
      /\ \A w \in Vehicles \ {v} : stationOf'[w] = stationOf[w]
  BY <1>0, DockedIsFree DEF Checkout
<1>2. PICK r \in Rides :
        /\ ride[r].status = "none"
        /\ ride' = [ride EXCEPT ![r] = [status |-> "active", user |-> u,
                                        vehicle |-> v, fee |-> 0]]
  BY DEF BeginRide
<1>3. ride'[r].vehicle = v /\ \A q \in Rides \ {r} : ride'[q] = ride[q]
  BY <1>0, <1>2
<1>4. \A q \in OpenRides' : q \in Rides /\ (q = r \/ q \in OpenRides)
  BY <1>3 DEF OpenRides
<1>5. \A x \in Stations : v \notin docked'[x] /\ docked'[x] \subseteq docked[x]
  BY <1>1, DockedIsFree
<1>6. DockingConsistent'
  <2>1. ASSUME NEW w \in Vehicles \ {v}, NEW x \in Stations
        PROVE  w \in docked'[x] <=> w \in docked[x]
    BY <1>1
  <2>2. ASSUME NEW w \in Vehicles \ {v}, \A q \in Rides : ride[q].vehicle # w
        PROVE  \A q \in Rides : ride'[q].vehicle # w
    BY <1>3, <2>2
  <2>3. ASSUME NEW w \in Vehicles \ {v}, stationOf'[w] # None
        PROVE  /\ w \notin degraded'
               /\ w \in docked'[stationOf'[w]] \/ \A q \in Rides : ride'[q].vehicle # w
    <3>1. stationOf'[w] = stationOf[w] /\ stationOf[w] \in Stations
      BY <1>0, <1>1, <2>3
    <3> QED  BY <2>1, <2>2, <2>3, <3>1 DEF FleetInv, DockingConsistent
  <2>4. ASSUME NEW w \in Vehicles \ {v}, NEW x \in Stations, w \in docked'[x]
        PROVE  stationOf'[w] = x
    BY <1>1, <2>1, <2>4 DEF FleetInv, DockingConsistent
  <2> QED  BY <1>1, <1>5, <2>3, <2>4 DEF DockingConsistent
<1>7. VehicleExclusive'
  <2>1. \A q \in OpenRides' : (q # r) => ride'[q].vehicle = ride[q].vehicle /\ ride[q].vehicle # v
    BY <1>3, <1>4, DockedIsFree
  <2> QED
    BY <1>3, <1>4, <1>5, <2>1, DockedIsFree DEF FleetInv, VehicleExclusive
<1> QED  BY <1>6, <1>7

LEMMA FleetDocked ==
  ASSUME FleetInv, NEW r \in OpenRides, NEW s \in Stations, Dock(s, ride[r].vehicle),
         UNCHANGED <<ride, degraded>>, OpenRides' \subseteq OpenRides \ {r}
  PROVE  DockingConsistent' /\ VehicleExclusive'
<1> DEFINE v == ride[r].vehicle
<1>0. /\ docked \in [Stations -> SUBSET Vehicles]
      /\ stationOf \in [Vehicles -> Stations \cup {None}]
  BY DEF FleetInv, BookInv, SafeLocks, TypeOK, FleetTyped
<1>1. v \in Vehicles /\ v \notin degraded /\ \A x \in Stations : v \notin docked[x]
  BY RiddenIsOut
<1>2. /\ docked'[s] = docked[s] \cup {v}
      /\ \A x \in Stations \ {s} : docked'[x] = docked[x]
      /\ stationOf'[v] = s
      /\ \A w \in Vehicles \ {v} : stationOf'[w] = stationOf[w]
  BY <1>0, <1>1 DEF Dock
<1> HIDE DEF v
<1>3. \A w \in Vehicles \ {v}, x \in Stations : w \in docked'[x] <=> w \in docked[x]
  BY <1>2
<1>4. DockingConsistent'
  <2>1. \A x \in Stations : v \in docked'[x] <=> x = s
    BY <1>1, <1>2
  <2>2. ASSUME NEW w \in Vehicles \ {v}
        PROVE  /\ \A x \in Stations : w \in docked'[x] => stationOf'[w] = x
               /\ stationOf'[w] # None =>
                    /\ w \notin degraded'
                    /\ w \in docked'[stationOf'[w]] \/ \A q \in Rides : ride'[q].vehicle # w
    <3>1. stationOf'[w] = stationOf[w] /\ stationOf[w] \in Stations \cup {None}
      BY <1>0, <1>2
    <3> QED  BY <1>3, <3>1 DEF FleetInv, DockingConsistent
  <2> QED  BY <1>1, <1>2, <2>1, <2>2 DEF DockingConsistent
<1>5. VehicleExclusive'
  <2>1. \A q \in OpenRides' : q \in OpenRides /\ ride[q].vehicle # v
    BY DEF v, FleetInv, VehicleExclusive
  <2> QED  BY <1>2, <2>1 DEF FleetInv, VehicleExclusive
<1> QED  BY <1>4, <1>5

LEMMA FleetReported ==
  ASSUME FleetInv, NEW r \in OpenRides, degraded' = degraded \cup {ride[r].vehicle},
         UNCHANGED <<docked, stationOf>>, OpenRides' \subseteq OpenRides \ {r},
         \A q \in Rides : ride'[q].vehicle = ride[q].vehicle
  PROVE  DockingConsistent' /\ VehicleExclusive'
<1>1. stationOf[ride[r].vehicle] = None
  BY RiddenIsOut
<1>2. r \in Rides /\ OpenRides \subseteq Rides
  BY DEF OpenRides
<1>3. DockingConsistent'
  BY <1>1 DEF FleetInv, DockingConsistent
<1>4. VehicleExclusive'
  BY <1>2 DEF FleetInv, VehicleExclusive
<1> QED  BY <1>3, <1>4

LEMMA FleetTreated ==
  ASSUME FleetInv, NEW v \in degraded, Relocate(v), degraded' = degraded \ {v},
         UNCHANGED <<books, tasks>>
  PROVE  DockingConsistent' /\ VehicleExclusive'
<1>0. /\ docked \in [Stations -> SUBSET Vehicles] /\ v \in Vehicles
      /\ stationOf \in [Vehicles -> Stations \cup {None}]
      /\ ride' = ride /\ OpenRides' = OpenRides
      /\ \A x \in Stations : x # None
  BY NoneAssumption
     DEF FleetInv, BookInv, SafeLocks, TypeOK, FleetTyped, books, tasks, OpenRides, Returning
<1>1. CASE UNCHANGED <<docked, stationOf>>
  BY <1>0, <1>1 DEF FleetInv, DockingConsistent, VehicleExclusive
<1>2. ASSUME NEW new \in Stations,
             docked' = [s \in Stations |-> IF s = new THEN docked[s] \cup {v}
                                                      ELSE docked[s] \ {v}],
             stationOf' = [stationOf EXCEPT ![v] = new]
      PROVE  DockingConsistent' /\ VehicleExclusive'
  <2>1. \A x \in Stations : v \in docked'[x] <=> x = new
    BY <1>2
  <2>2. \A w \in Vehicles \ {v}, x \in Stations : w \in docked'[x] <=> w \in docked[x]
    BY <1>2
  <2>3. stationOf'[v] = new /\ \A w \in Vehicles \ {v} : stationOf'[w] = stationOf[w]
    BY <1>0, <1>2
  <2>4. DockingConsistent'
    <3>1. ASSUME NEW w \in Vehicles \ {v}
          PROVE  /\ \A x \in Stations : w \in docked'[x] => stationOf'[w] = x
                 /\ stationOf'[w] # None =>
                      /\ w \notin degraded'
                      /\ w \in docked'[stationOf'[w]] \/ \A q \in Rides : ride'[q].vehicle # w
      <4>1. stationOf'[w] = stationOf[w] /\ stationOf[w] \in Stations \cup {None}
        BY <1>0, <2>3
      <4> QED  BY <1>0, <2>2, <4>1 DEF FleetInv, DockingConsistent
    <3> QED  BY <1>0, <2>1, <2>3, <3>1 DEF DockingConsistent
  <2>5. VehicleExclusive'
    <3>1. \A q \in OpenRides : ride[q].vehicle # v /\ ride[q].vehicle \in Vehicles
      BY BookTypes DEF FleetInv, VehicleExclusive
    <3> QED  BY <1>0, <2>2, <3>1 DEF FleetInv, VehicleExclusive
  <2> QED  BY <2>4, <2>5
<1> QED  BY <1>1, <1>2 DEF Relocate

-----------------------------------------------------------------------------
(* Every step keeps the fleet in place.                                     *)

\* A request opens no ride unless it begins one.
LEMMA OpenAfter ==
  ASSUME NEW t \in Tasks, OthersKeep(t),
         pc'[t] \in EndPCs => req'[t].ride \in OpenRides,
         \A q \in Rides : ride'[q].status = "active" => ride[q].status = "active"
  PROVE  OpenRides' \subseteq OpenRides
<1> SUFFICES ASSUME NEW q \in OpenRides' PROVE q \in OpenRides
  OBVIOUS
<1>1. q \in Rides
  BY DEF OpenRides
<1>2. CASE ride'[q].status = "active"
  BY <1>1, <1>2 DEF OpenRides
<1>3. ASSUME NEW x \in Tasks, pc'[x] \in EndPCs, req'[x].ride = q PROVE q \in OpenRides
  BY <1>1, <1>3 DEF OpenRides, Returning, OthersKeep, EndPCs
<1> QED  BY <1>2, <1>3 DEF OpenRides, Returning, EndPCs

\* Only the request that returns a ride keeps it open.
LEMMA ClosedAfter ==
  ASSUME BookInv, NEW t \in Tasks, OthersKeep(t), pc[t] \in EndPCs, pc'[t] = "idle",
         UNCHANGED ride
  PROVE  req[t].ride \notin OpenRides'
<1>1. ride[req[t].ride].status = "completed"
  BY DEF BookInv, LookupsStillHold, LookupHolds, EndPCs
<1>2. ASSUME NEW x \in Tasks, pc'[x] \in EndPCs, req'[x].ride = req[t].ride PROVE FALSE
  <2>1. x # t /\ pc[x] \in EndPCs /\ req[x].ride = req[t].ride
    BY <1>2 DEF OthersKeep, EndPCs
  <2> QED  BY <2>1, SoleReturn
<1> QED  BY <1>1, <1>2 DEF OpenRides, Returning, EndPCs

LEMMA FleetStep ==
  ASSUME FleetInv, [Next]_vars
  PROVE  DockingConsistent' /\ VehicleExclusive'
<1> DEFINE Goal == DockingConsistent' /\ VehicleExclusive'
<1>0. BookInv /\ TypeOK /\ RequestsTyped /\ FleetTyped
  BY DEF FleetInv, BookInv, SafeLocks, TypeOK
<1>1. ASSUME UNCHANGED <<docked, stationOf, degraded, ride>>,
             NEW t \in Tasks, OthersKeep(t), pc'[t] \in EndPCs => req'[t].ride \in OpenRides
      PROVE  Goal
  BY <1>1, OpenAfter, FleetStill
<1>2. ASSUME NEW t \in Tasks, Reply(t), UNCHANGED <<docked, stationOf, degraded, ride>>
      PROVE  Goal
  BY <1>0, <1>1, <1>2, ReplyFacts DEF EndPCs
<1>3. ASSUME NEW t \in Tasks, Arrival(t) PROVE Goal
  <2>1. UNCHANGED <<docked, stationOf, degraded, ride>>
    BY <1>3 DEF Arrival, AcceptStart, AcceptByStation, AcceptByVehicle, AcceptEnd,
                AcceptReport, fleet, books
  <2>2. ASSUME NEW e, NEW w, NEW q, Accept(t, e, w, q), w \notin EndPCs PROVE Goal
    BY <1>0, <1>1, <2>1, <2>2, AcceptFacts
  <2>3. CASE \E u \in Users, l \in Locations : AcceptStart(t, u, l)
    BY <2>2, <2>3 DEF AcceptStart, EndPCs
  <2>4. CASE \E u \in Users, s \in Stations : AcceptByStation(t, u, s)
    BY <2>2, <2>4 DEF AcceptByStation, EndPCs
  <2>5. CASE \E u \in Users, v \in Vehicles : AcceptByVehicle(t, u, v)
    BY <2>2, <2>5 DEF AcceptByVehicle, EndPCs
  <2>6. CASE \E r \in Rides, l \in Locations : AcceptEnd(t, r, l)
    BY <2>2, <2>6 DEF AcceptEnd, EndPCs
  <2>7. CASE \E u \in Users, v \in Vehicles : AcceptReport(t, u, v)
    BY <2>2, <2>7 DEF AcceptReport, EndPCs
  <2> QED  BY <1>3, <2>3, <2>4, <2>5, <2>6, <2>7 DEF Arrival
<1>4. ASSUME NEW t \in Tasks, StartChooseStation(t) PROVE Goal
  <2>1. UNCHANGED <<docked, stationOf, degraded, ride>>
    BY <1>4 DEF StartChooseStation, fleet, books
  <2>2. CASE Reply(t)
    BY <1>2, <2>1, <2>2
  <2>3. ASSUME NEW s, req' = [req EXCEPT ![t].station = s], GoTo(t, "start.station")
        PROVE  Goal
    <3>1. OthersKeep(t) /\ pc'[t] = "start.station"
      BY <1>0, <2>3, GoToFacts DEF RequestsTyped
    <3> QED  BY <1>1, <2>1, <3>1 DEF EndPCs
  <2> QED  BY <1>4, <2>2, <2>3 DEF StartChooseStation
<1>5. ASSUME NEW t \in Tasks, Reply(t), NEW u, NEW s \in Stations, NEW v \in docked[s],
             Checkout(s, v), BeginRide(u, v), UNCHANGED degraded
      PROVE  Goal
  <2>1. \A q \in Rides : Returning(q)' => Returning(q)
    BY <1>0, <1>5, ReplyFacts DEF Returning, OthersKeep
  <2> QED  BY <1>5, <2>1, FleetTaken
<1>6. ASSUME NEW t \in Tasks, StartCheckout(t) PROVE Goal
  <2>1. req[t].station \in Stations
    BY <1>0, <1>6, RequestFields DEF StartCheckout, StationPCs
  <2>2. CASE UNCHANGED <<fleet, books>>
    BY <1>2, <1>6, <2>2 DEF StartCheckout, fleet, books
  <2> QED  BY <1>5, <1>6, <2>1, <2>2 DEF StartCheckout, Preferred, Eligible
<1>7. ASSUME NEW t \in Tasks, AwaitUser(t) PROVE Goal
  <2>1. OthersKeep(t) /\ pc'[t] \in {"station.user", "vehicle.user"}
    BY <1>0, <1>7, GoToFacts DEF AwaitUser
  <2> QED  BY <1>1, <1>7, <2>1 DEF AwaitUser, EndPCs, fleet, books
<1>8. ASSUME NEW t \in Tasks, ByStationRide(t) PROVE Goal
  <2>1. req[t].station \in Stations
    BY <1>0, <1>8, RequestFields DEF ByStationRide, StationPCs
  <2>2. CASE UNCHANGED <<fleet, books>>
    BY <1>2, <1>8, <2>2 DEF ByStationRide, fleet, books
  <2> QED  BY <1>5, <1>8, <2>1, <2>2 DEF ByStationRide
<1>9. ASSUME NEW t \in Tasks, ByVehicleRide(t) PROVE Goal
  <2>1. CASE UNCHANGED <<fleet, books>>
    BY <1>2, <1>9, <2>1 DEF ByVehicleRide, fleet, books
  <2>2. CASE /\ ByVehicleAllowed(req[t].user, req[t].vehicle)
             /\ Checkout(stationOf[req[t].vehicle], req[t].vehicle)
             /\ BeginRide(req[t].user, req[t].vehicle)
             /\ UNCHANGED degraded
    <3>1. /\ stationOf[req[t].vehicle] \in Stations
          /\ req[t].vehicle \in docked[stationOf[req[t].vehicle]]
      BY <1>0, <1>9, <2>2
         DEF ByVehicleAllowed, ByVehicleRide, FleetTyped, RequestsTyped, RequestTyped
    <3> QED  BY <1>5, <1>9, <2>2, <3>1 DEF ByVehicleRide
  <2> QED  BY <1>9, <2>1, <2>2 DEF ByVehicleRide
<1>10. ASSUME NEW t \in Tasks, EndRide(t) PROVE Goal
  <2>1. CASE Reply(t) /\ UNCHANGED books
    BY <1>2, <1>10, <2>1 DEF EndRide, fleet, books
  <2>2. ASSUME NEW s, req' = [req EXCEPT ![t].station = s], GoTo(t, "end.charge"),
               ride[req[t].ride].status = "active", CompleteRide(req[t].ride, RideFee)
        PROVE  Goal
    <3>1. OthersKeep(t) /\ pc'[t] = "end.charge" /\ req'[t].ride = req[t].ride
      BY <1>0, <2>2, GoToFacts DEF RequestsTyped
    <3>2. req[t].ride \in Rides
      BY <1>0, <1>10, EndedRide DEF EndRide
    <3>3. \A q \in Rides : /\ ride'[q].status = "active" => ride[q].status = "active"
                           /\ ride'[q].vehicle = ride[q].vehicle
      BY <1>0, <2>2, <3>2, BookTypes DEF CompleteRide
    <3>4. OpenRides' \subseteq OpenRides
      BY <2>2, <3>1, <3>2, <3>3, OpenAfter DEF OpenRides
    <3> QED  BY <1>10, <3>3, <3>4, FleetStill DEF EndRide, fleet
  <2> QED  BY <1>10, <2>1, <2>2 DEF EndRide
<1>11. ASSUME NEW t \in Tasks, EndCharged(t) PROVE Goal
  <2>1. CASE Reply(t)
    BY <1>2, <1>11, <2>1 DEF EndCharged, fleet
  <2>2. CASE GoTo(t, "end.dock") /\ UNCHANGED req
    <3>1. OthersKeep(t) /\ req'[t].ride \in OpenRides
      <4>1. pc[t] = "end.charge" /\ req[t].ride \in Rides
        BY <1>0, <1>11, EndedRide DEF EndCharged
      <4> QED  BY <1>0, <2>2, <4>1, GoToFacts DEF OpenRides, Returning
    <3> QED  BY <1>1, <1>11, <3>1 DEF EndCharged, fleet
  <2> QED  BY <1>11, <2>1, <2>2 DEF EndCharged
<1>12. ASSUME NEW t \in Tasks, EndDock(t) PROVE Goal
  <2>1. /\ pc[t] = "end.dock" /\ req[t].station \in Stations /\ req[t].ride \in Rides
        /\ UNCHANGED ride /\ OthersKeep(t) /\ pc'[t] = "idle"
    BY <1>0, <1>12, RequestFields, EndedRide, ReplyFacts DEF EndDock, StationPCs
  <2>2. req[t].ride \in OpenRides
    BY <2>1 DEF OpenRides, Returning
  <2>3. OpenRides' \subseteq OpenRides \ {req[t].ride}
    BY <1>0, <2>1, OpenAfter, ClosedAfter DEF EndPCs
  <2>4. CASE UNCHANGED fleet
    BY <2>1, <2>3, <2>4, FleetStill DEF fleet
  <2>5. CASE Dock(req[t].station, ride[req[t].ride].vehicle) /\ UNCHANGED degraded
    BY <2>1, <2>2, <2>3, <2>5, FleetDocked
  <2> QED  BY <1>12, <2>4, <2>5 DEF EndDock
<1>13. ASSUME NEW t \in Tasks, ReportDegraded(t) PROVE Goal
  <2>1. CASE UNCHANGED <<fleet, books>>
    BY <1>2, <1>13, <2>1 DEF ReportDegraded, fleet, books
  <2>2. ASSUME NEW r \in ActiveRides(req[t].user), ride[r].vehicle = req[t].vehicle,
               CompleteRide(r, 0), degraded' = degraded \cup {req[t].vehicle},
               UNCHANGED <<docked, stationOf>>
        PROVE  Goal
    <3>1. r \in Rides /\ ride[r].status = "active" /\ r \in OpenRides
      BY DEF ActiveRides, OpenRides
    <3>2. OthersKeep(t) /\ pc'[t] = "idle" /\ pc[t] = "report.user"
      BY <1>0, <1>13, ReplyFacts DEF ReportDegraded
    <3>3. \A q \in Rides : /\ ride'[q].status = "active" => ride[q].status = "active"
                           /\ ride'[q].vehicle = ride[q].vehicle
      BY <1>0, <2>2, <3>1, BookTypes DEF CompleteRide
    <3>4. r \notin OpenRides'
      <4>1. ride'[r].status = "completed"
        BY <1>0, <2>2, <3>1, BookTypes DEF CompleteRide
      <4>2. \A x \in Tasks : pc[x] \in EndPCs => req[x].ride # r
        BY <1>0, <3>1 DEF BookInv, LookupsStillHold, LookupHolds, EndPCs
      <4> QED  BY <3>2, <4>1, <4>2 DEF OpenRides, Returning, OthersKeep, EndPCs
    <3>5. OpenRides' \subseteq OpenRides \ {r}
      BY <3>2, <3>3, <3>4, OpenAfter DEF EndPCs
    <3> QED  BY <2>2, <3>1, <3>3, <3>5, FleetReported
  <2> QED  BY <1>13, <2>1, <2>2 DEF ReportDegraded
<1>14. ASSUME NEW v \in Vehicles, TreatOne(v) PROVE Goal
  <2>1. CASE v \in degraded
    BY <1>14, <2>1, FleetTreated DEF TreatOne
  <2>2. CASE v \notin degraded
    <3>1. degraded' = degraded /\ UNCHANGED <<docked, stationOf, ride>> /\ OpenRides' = OpenRides
      BY <1>14, <2>2 DEF TreatOne, books, tasks, OpenRides, Returning
    <3> QED  BY <3>1, FleetStill
  <2> QED  BY <2>1, <2>2
<1>15. ASSUME TreatBegin \/ (\E u \in Users : UpgradeUser(u)) \/ UNCHANGED vars PROVE Goal
  <2>1. UNCHANGED <<docked, stationOf, degraded, ride>> /\ OpenRides' = OpenRides
    BY <1>15 DEF TreatBegin, UpgradeUser, vars, fleet, books, tasks, OpenRides, Returning
  <2> QED  BY <2>1, FleetStill
<1> QED
  BY <1>3, <1>4, <1>6, <1>7, <1>8, <1>9, <1>10, <1>11, <1>12, <1>13, <1>14, <1>15
     DEF Next, Step

LEMMA InitFleet == Init => FleetInv
<1> SUFFICES ASSUME Init PROVE FleetInv
  OBVIOUS
<1>1. BookInv
  BY InitBooks
<1>2. DockingConsistent
  <2>1. \A r \in Rides : ride[r].vehicle = None
    BY DEF Init, NoRide
  <2>2. \A v \in Vehicles : v # None
    BY NoneAssumption
  <2>3. \A v \in Vehicles, s \in Stations : v \in docked[s] => stationOf[v] = s
    BY DEF Init
  <2> QED  BY <2>1, <2>2, <2>3 DEF Init, DockingConsistent
<1>3. OpenRides = {}
  BY DEF Init, OpenRides, Returning, NoRide
<1>4. VehicleExclusive
  BY <1>3 DEF VehicleExclusive
<1>5. CapacityRespected
  BY DEF Init, CapacityRespected
<1> QED  BY <1>1, <1>2, <1>4, <1>5 DEF FleetInv

LEMMA ServiceStep ==
  ASSUME FleetInv, [Next]_vars
  PROVE  FleetInv'
<1>1. BookInv /\ SafeLocks /\ TypeOK /\ CapacityRespected
  BY DEF FleetInv, BookInv, SafeLocks
<1>2. BookInv'
  BY <1>1, BooksStep, LocksStep DEF BookInv
<1> QED  BY <1>1, <1>2, FleetStep, CapacityStep DEF FleetInv

\* The fleet is right in every reachable state.
THEOREM FleetSafe == Spec => []FleetInv
<1>1. FleetInv /\ [Next]_vars => FleetInv'
  BY ServiceStep
<1> QED  BY <1>1, InitFleet, PTL DEF Spec

\* No vehicle is on two open rides, nor on one and in a station or the pool.
THEOREM NoDoubleBooking == Spec => []VehicleExclusive
<1>1. FleetInv => VehicleExclusive
  BY DEF FleetInv
<1> QED  BY <1>1, FleetSafe, PTL

\* The station lists and the vehicles' station ids agree.
THEOREM DockingCorrect == Spec => []DockingConsistent
<1>1. FleetInv => DockingConsistent
  BY DEF FleetInv
<1> QED  BY <1>1, FleetSafe, PTL

\* No station overflows, although the slot is only taken after the charge.
THEOREM CapacityCorrect == Spec => []CapacityRespected
<1>1. FleetInv => CapacityRespected
  BY DEF FleetInv
<1> QED  BY <1>1, FleetSafe, PTL

-----------------------------------------------------------------------------
(* A user is stranded at a full station, and nowhere else.                  *)

LEMMA StaysOpen ==
  ASSUME NEW t \in Tasks, OthersKeep(t), NEW q \in OpenRides,
         ride[q].status = "active" => ride'[q].status = "active",
         pc[t] \in EndPCs /\ req[t].ride = q => pc'[t] \in EndPCs /\ req'[t].ride = q
  PROVE  q \in OpenRides'
<1>1. CASE ride[q].status = "active"
  BY <1>1 DEF OpenRides
<1>2. ASSUME NEW x \in Tasks, pc[x] \in EndPCs, req[x].ride = q PROVE q \in OpenRides'
  <2>1. pc'[x] \in EndPCs /\ req'[x].ride = q
    BY <1>2 DEF OthersKeep
  <2> QED  BY <2>1 DEF OpenRides, Returning, EndPCs
<1> QED  BY <1>1, <1>2 DEF OpenRides, Returning, EndPCs

\* A step strands nobody.
Harmless == \A w \in Users : ~Stranded(w) => ~Stranded(w)'

\* A user gets out of a ride that closes, because no one else is filed under it.
LEMMA NobodyLeftBehind ==
  ASSUME FleetInv, NEW t \in Tasks, OthersKeep(t),
         NEW r \in Rides, NEW u \in Users, ride[r].user = u,
         activeRide' = [activeRide EXCEPT ![u] = None],
         \A q \in Rides \ {r} : ride'[q] = ride[q],
         pc[t] \in EndPCs => req[t].ride = r
  PROVE  Harmless
<1>1. activeRide \in [Users -> Rides \cup {None}]
  BY BookTypes DEF FleetInv
<1>2. ASSUME NEW w \in Users, ~Stranded(w), activeRide'[w] # None PROVE activeRide'[w] \in OpenRides'
  <2>1. w # u /\ activeRide'[w] = activeRide[w] /\ activeRide[w] # None
    BY <1>1, <1>2
  <2>2. activeRide[w] \in OpenRides /\ activeRide[w] # r /\ activeRide[w] \in Rides
    BY <1>1, <1>2, <2>1 DEF Stranded, FleetInv, BookInv, RideIndexConsistent
  <2> QED  BY <2>1, <2>2, StaysOpen
<1> QED  BY <1>2 DEF Harmless, Stranded

LEMMA StrandedStep ==
  ASSUME FleetInv, [Next]_vars
  PROVE  \/ Harmless
         \/ \E t \in Tasks :
              /\ pc[t] = "end.dock" /\ pc'[t] = "idle"
              /\ Cardinality(docked[req[t].station]) = Capacity[req[t].station]
              /\ \A w \in Users \ {req[t].user} : ~Stranded(w) => ~Stranded(w)'
<1>0. /\ BookInv /\ TypeOK /\ RequestsTyped
      /\ activeRide \in [Users -> Rides \cup {None}] /\ \A r \in Rides : None # r
  BY BookTypes DEF FleetInv, BookInv, SafeLocks, TypeOK
<1>1. ASSUME NEW t \in Tasks, OthersKeep(t), UNCHANGED activeRide,
             \A q \in Rides : ride[q].status = "active" => ride'[q].status = "active",
             pc[t] \in EndPCs => pc'[t] \in EndPCs /\ req'[t].ride = req[t].ride
      PROVE  Harmless
  <2>1. \A q \in OpenRides : q \in Rides
    BY DEF OpenRides
  <2> QED  BY <1>1, <2>1, StaysOpen DEF Harmless, Stranded
<1>2. ASSUME NEW t \in Tasks, Arrival(t) PROVE Harmless
  <2>1. UNCHANGED books
    BY <1>2 DEF Arrival, AcceptStart, AcceptByStation, AcceptByVehicle, AcceptEnd, AcceptReport
  <2>2. OthersKeep(t) /\ pc[t] = "idle"
    BY <1>0, <1>2, AcceptFacts
       DEF Arrival, AcceptStart, AcceptByStation, AcceptByVehicle, AcceptEnd, AcceptReport
  <2> QED  BY <1>1, <2>1, <2>2 DEF books, EndPCs
<1>3. ASSUME NEW t \in Tasks, StartChooseStation(t) \/ AwaitUser(t) PROVE Harmless
  <2>1. UNCHANGED books /\ pc[t] \notin EndPCs
    BY <1>3 DEF StartChooseStation, AwaitUser, books, EndPCs
  <2>2. OthersKeep(t)
    BY <1>0, <1>3, ReplyFacts, GoToFacts DEF StartChooseStation, AwaitUser, RequestsTyped
  <2> QED  BY <1>1, <2>1, <2>2 DEF books
<1>4. ASSUME NEW t \in Tasks, Reply(t), pc[t] \notin EndPCs, NEW v,
             UNCHANGED books \/ BeginRide(req[t].user, v)
      PROVE  Harmless
  <2>1. OthersKeep(t)
    BY <1>0, <1>4, ReplyFacts
  <2>2. CASE UNCHANGED books
    BY <1>1, <1>4, <2>1, <2>2 DEF books
  <2>3. ASSUME NEW r \in Rides, ride[r].status = "none",
               ride' = [ride EXCEPT ![r] = [status |-> "active", user |-> req[t].user,
                                            vehicle |-> v, fee |-> 0]],
               activeRide' = [activeRide EXCEPT ![req[t].user] = r]
        PROVE  Harmless
    <3>1. ride'[r].status = "active" /\ \A q \in Rides \ {r} : ride'[q] = ride[q]
      BY <1>0, <2>3, BookTypes
    <3>2. r \in OpenRides'
      BY <3>1 DEF OpenRides
    <3>3. ASSUME NEW q \in OpenRides PROVE q \in OpenRides'
      <4>1. q \in Rides
        BY DEF OpenRides
      <4> QED  BY <1>4, <2>1, <3>1, <3>2, <4>1, StaysOpen
    <3> QED  BY <1>0, <2>3, <3>2, <3>3 DEF Harmless, Stranded
  <2> QED  BY <1>4, <2>2, <2>3 DEF BeginRide
<1>5. ASSUME NEW t \in Tasks, StartCheckout(t) \/ ByStationRide(t) \/ ByVehicleRide(t)
      PROVE  Harmless
  <2>1. pc[t] \notin EndPCs /\ Reply(t)
    BY <1>5 DEF StartCheckout, ByStationRide, ByVehicleRide, EndPCs
  <2>2. UNCHANGED books \/ \E v : BeginRide(req[t].user, v)
    BY <1>5 DEF StartCheckout, ByStationRide, ByVehicleRide
  <2> QED  BY <1>4, <2>1, <2>2
<1>6. ASSUME NEW t \in Tasks, EndRide(t) PROVE Harmless
  <2>1. pc[t] = "end.user" /\ req[t].ride \in Rides
    BY <1>0, <1>6, EndedRide DEF EndRide
  <2>2. CASE Reply(t) /\ UNCHANGED books
    BY <1>0, <1>1, <2>1, <2>2, ReplyFacts DEF books, EndPCs
  <2>3. ASSUME NEW s, req' = [req EXCEPT ![t].station = s], GoTo(t, "end.charge"),
               CompleteRide(req[t].ride, RideFee), UNCHANGED activeRide
        PROVE  Harmless
    <3>1. OthersKeep(t) /\ pc'[t] = "end.charge" /\ req'[t].ride = req[t].ride
      BY <1>0, <2>3, GoToFacts DEF RequestsTyped
    <3>2. req[t].ride \in OpenRides'
      BY <2>1, <3>1 DEF OpenRides, Returning
    <3>3. \A q \in Rides \ {req[t].ride} : ride'[q] = ride[q]
      BY <1>0, <2>3, BookTypes DEF CompleteRide
    <3>4. ASSUME NEW q \in OpenRides PROVE q \in OpenRides'
      <4>1. q \in Rides
        BY DEF OpenRides
      <4> QED  BY <2>1, <3>1, <3>2, <3>3, <4>1, StaysOpen DEF EndPCs
    <3> QED  BY <2>3, <3>4 DEF Harmless, Stranded
  <2> QED  BY <1>6, <2>2, <2>3 DEF EndRide
\* What the request of an ending ride says of it.
<1>7. ASSUME NEW t \in Tasks, pc[t] \in EndPCs
      PROVE  /\ req[t].ride \in OpenRides /\ req[t].ride \in Rides
             /\ ride[req[t].ride].user = req[t].user /\ req[t].user \in Users
  <2>1. /\ req[t].ride \in Rides /\ ride[req[t].ride].user = req[t].user
        /\ ride[req[t].ride].user \in Users
    BY <1>0, <1>7, EndedRide DEF BookInv, LookupsStillHold, LookupHolds, EndPCs
  <2> QED  BY <1>7, <2>1 DEF OpenRides, Returning, EndPCs
<1>8. ASSUME NEW t \in Tasks, EndCharged(t) PROVE Harmless
  <2>1. pc[t] \in EndPCs /\ UNCHANGED ride
    BY <1>8 DEF EndCharged, EndPCs
  <2>2. CASE GoTo(t, "end.dock") /\ UNCHANGED <<activeRide, req>>
    <3>1. OthersKeep(t) /\ pc'[t] \in EndPCs
      BY <1>0, <2>2, GoToFacts DEF EndPCs
    <3> QED  BY <1>1, <2>1, <2>2, <3>1
  <2>3. CASE Reply(t) /\ activeRide' = [activeRide EXCEPT ![req[t].user] = None]
    BY <1>0, <1>7, <2>1, <2>3, ReplyFacts, NobodyLeftBehind
  <2> QED  BY <1>8, <2>2, <2>3 DEF EndCharged
<1>9. ASSUME NEW t \in Tasks, EndDock(t)
      PROVE  \/ Harmless
             \/ /\ pc[t] = "end.dock" /\ pc'[t] = "idle"
                /\ Cardinality(docked[req[t].station]) = Capacity[req[t].station]
                /\ \A w \in Users \ {req[t].user} : ~Stranded(w) => ~Stranded(w)'
  <2>1. pc[t] = "end.dock" /\ pc[t] \in EndPCs /\ UNCHANGED ride /\ Reply(t)
    BY <1>9 DEF EndDock, EndPCs
  <2>2. CASE ~Full(req[t].station)
    <3>1. activeRide' = [activeRide EXCEPT ![req[t].user] = None]
      BY <1>9, <2>2 DEF EndDock
    <3> QED  BY <1>0, <1>7, <2>1, <3>1, ReplyFacts, NobodyLeftBehind
  <2>3. CASE Full(req[t].station)
    <3>1. UNCHANGED activeRide /\ OthersKeep(t) /\ pc'[t] = "idle"
      BY <1>0, <1>9, <2>1, <2>3, ReplyFacts DEF EndDock
    <3>2. ASSUME NEW w \in Users \ {req[t].user}, ~Stranded(w), activeRide[w] # None
          PROVE  activeRide[w] \in OpenRides'
      <4>1. activeRide[w] \in OpenRides /\ activeRide[w] # req[t].ride
        BY <1>0, <1>7, <2>1, <3>2 DEF Stranded, BookInv, RideIndexConsistent
      <4> QED  BY <2>1, <3>1, <4>1, StaysOpen
    <3> QED  BY <2>1, <2>3, <3>1, <3>2 DEF Full, Stranded
  <2> QED  BY <2>2, <2>3
<1>10. ASSUME NEW t \in Tasks, ReportDegraded(t) PROVE Harmless
  <2>1. OthersKeep(t) /\ pc[t] \notin EndPCs /\ req[t].user \in Users
    BY <1>0, <1>10, ReplyFacts, RequestFields DEF ReportDegraded, EndPCs, UserPCs
  <2>2. CASE UNCHANGED books
    BY <1>1, <2>1, <2>2 DEF books
  <2>3. ASSUME NEW r \in ActiveRides(req[t].user), CompleteRide(r, 0),
               activeRide' = [activeRide EXCEPT ![req[t].user] = None]
        PROVE  Harmless
    <3>1. r \in Rides /\ ride[r].user = req[t].user
      BY DEF ActiveRides
    <3>2. \A q \in Rides \ {r} : ride'[q] = ride[q]
      BY <1>0, <2>3, BookTypes DEF CompleteRide
    <3> QED  BY <2>1, <2>3, <3>1, <3>2, NobodyLeftBehind
  <2> QED  BY <1>10, <2>2, <2>3 DEF ReportDegraded
<1>11. ASSUME \/ TreatBegin \/ UNCHANGED vars \/ \E v \in Vehicles : TreatOne(v)
              \/ \E u \in Users : UpgradeUser(u)
       PROVE  Harmless
  <2>1. UNCHANGED <<ride, activeRide, pc, req>>
    BY <1>11 DEF TreatBegin, TreatOne, UpgradeUser, vars, books, tasks
  <2> QED  BY <2>1 DEF Harmless, Stranded, OpenRides, Returning
<1> QED  BY <1>2, <1>3, <1>5, <1>6, <1>8, <1>9, <1>10, <1>11 DEF Next, Step

\* Whatever endpoints the clients call, only an end request that finds its station
\* full after the charge leaves its user filed under a ride that is over.
THEOREM StrandedAtFullStations == Spec => StrandedOnlyWhenFull
<1> DEFINE AtFull ==
      \A u \in Users : ~Stranded(u) /\ Stranded(u)' =>
        \E t \in Tasks :
          /\ pc[t] = "end.dock" /\ pc'[t] = "idle" /\ req[t].user = u
          /\ Cardinality(docked[req[t].station]) = Capacity[req[t].station]
<1>1. FleetInv /\ [Next]_vars => AtFull
  BY StrandedStep DEF Harmless
<1>2. FleetInv /\ [Next]_vars => [AtFull]_vars
  BY <1>1
<1> QED  BY <1>2, FleetSafe, PTL DEF Spec, StrandedOnlyWhenFull

-----------------------------------------------------------------------------
(* Where a returned or treated vehicle goes.                                *)

LEMMA Released ==
  ASSUME FleetInv, [Next]_vars, NEW u \in Users, ChargedAndCleared(u),
         ride[activeRide[u]].vehicle \in vehicleRepo
  PROVE  \E s \in Stations : ride[activeRide[u]].vehicle \in docked'[s]
<1>0. /\ BookInv /\ TypeOK /\ RequestsTyped /\ FleetTyped
      /\ activeRide \in [Users -> Rides \cup {None}] /\ \A r \in Rides : None # r
      /\ activeRide[u] # None /\ activeRide'[u] = None /\ activeRide[u] \in Rides
  BY BookTypes DEF FleetInv, BookInv, SafeLocks, TypeOK, ChargedAndCleared
<1>1. \A w, v : ~BeginRide(w, v)
  BY <1>0 DEF BeginRide
\* The request that clears the active user is about that user's ride.
<1>r. ASSUME NEW t \in Tasks, pc[t] \in {"end.charge", "end.dock"},
             activeRide' = [activeRide EXCEPT ![req[t].user] = None]
      PROVE  activeRide[u] = req[t].ride
  <2>1. /\ req[t].ride \in Rides /\ ride[req[t].ride].user = req[t].user /\ req[t].user \in Users
    BY <1>0, <1>r, EndedRide DEF BookInv, LookupsStillHold, LookupHolds
  <2>2. u = req[t].user
    BY <1>0, <1>r
  <2> QED  BY <1>0, <1>r, <2>1, <2>2 DEF OpenRides, Returning, BookInv, RideIndexConsistent
<1>2. ASSUME NEW t \in Tasks, EndDock(t) PROVE \E s \in Stations : ride[activeRide[u]].vehicle \in docked'[s]
  <2>1. /\ pc[t] = "end.dock" /\ req[t].station \in Stations
    BY <1>0, <1>2, RequestFields DEF EndDock, StationPCs
  <2>2. /\ Dock(req[t].station, ride[req[t].ride].vehicle)
        /\ activeRide' = [activeRide EXCEPT ![req[t].user] = None]
    BY <1>0, <1>2 DEF EndDock
  <2>3. ride[req[t].ride].vehicle \in docked'[req[t].station]
    BY <1>0, <2>1, <2>2 DEF Dock, FleetTyped
  <2> QED  BY <1>r, <2>1, <2>2, <2>3
<1>3. ASSUME NEW t \in Tasks, EndCharged(t) PROVE FALSE
  <2>1. /\ pc[t] = "end.charge" /\ ride[req[t].ride].vehicle \notin vehicleRepo
        /\ activeRide' = [activeRide EXCEPT ![req[t].user] = None]
    BY <1>0, <1>3 DEF EndCharged
  <2> QED  BY <1>r, <2>1
<1>4. ASSUME NEW t \in Tasks, ReportDegraded(t) PROVE FALSE
  <2>1. /\ activeRide' = [activeRide EXCEPT ![req[t].user] = None] /\ UNCHANGED charged
        /\ ActiveRides(req[t].user) # {}
    BY <1>0, <1>4 DEF ReportDegraded, books
  <2>2. u = req[t].user
    BY <1>0, <2>1
  <2>3. PICK r \in Rides : ride[r].status = "active" /\ ride[r].user = u
    BY <2>1, <2>2 DEF ActiveRides
  <2>4. activeRide[u] = r
    BY <1>0, <2>3 DEF OpenRides, BookInv, RideIndexConsistent
  <2>5. ride[r].status = "completed"
    BY <1>0, <2>1, <2>4 DEF ChargedAndCleared, BookInv, ChargedOnce
  <2> QED  BY <2>3, <2>5
<1>5. ASSUME NEW t \in Tasks, Step(t), ~EndDock(t) PROVE FALSE
  BY <1>0, <1>1, <1>3, <1>4, <1>5 DEF Step, StartChooseStation, StartCheckout, AwaitUser,
                                ByStationRide, ByVehicleRide, EndRide, books
<1>6. ~\/ \E t \in Tasks : Arrival(t)
       \/ TreatBegin \/ UNCHANGED vars
       \/ \E v \in Vehicles : TreatOne(v)
       \/ \E w \in Users : UpgradeUser(w)
  BY <1>0 DEF Arrival, AcceptStart, AcceptByStation, AcceptByVehicle, AcceptEnd, AcceptReport,
         TreatBegin, TreatOne, UpgradeUser, vars, books
<1> QED  BY <1>2, <1>5, <1>6 DEF Next

\* Whoever stops being active after a charge has left the vehicle docked, if the
\* repository knows it, whatever reports and treatments come between.
THEOREM KnownVehiclesReleased == Spec => KnownVehicleReleased
<1> DEFINE Releases ==
      \A u \in Users :
        ChargedAndCleared(u) /\ ride[activeRide[u]].vehicle \in vehicleRepo =>
          \E s \in Stations : ride[activeRide[u]].vehicle \in docked'[s]
<1>1. FleetInv /\ [Next]_vars => [Releases]_vars
  BY Released
<1> QED  BY <1>1, FleetSafe, PTL DEF Spec, KnownVehicleReleased

LEMMA TreatedRelocated ==
  ASSUME FleetInv, [Next]_vars, NEW v \in degraded \ degraded'
  PROVE  \/ \E s \in Stations : /\ v \in docked'[s] /\ stationOf'[v] = s
                               /\ Cardinality(docked[s]) < Capacity[s]
         \/ \A s \in Stations : Cardinality(docked[s]) = Capacity[s]
<1>0. TypeOK /\ FleetTyped /\ v \in Vehicles /\ \A s \in Stations : s # None
  BY NoneAssumption DEF FleetInv, BookInv, SafeLocks, TypeOK, FleetTyped
<1>1. \A s \in Stations : v \notin docked[s]
  BY <1>0 DEF FleetInv, DockingConsistent
<1>2. \A s \in Stations : ~Full(s) => Cardinality(docked[s]) < Capacity[s]
  <2>1. ASSUME NEW s \in Stations, ~Full(s) PROVE Cardinality(docked[s]) < Capacity[s]
    <3>1. Cardinality(docked[s]) \in Nat /\ Capacity[s] \in Nat /\ Cardinality(docked[s]) <= Capacity[s]
      BY <1>0, DockedFinite, FleetAssumption DEF FleetInv, CapacityRespected
    <3> QED  BY <2>1, <3>1 DEF Full
  <2> QED  BY <2>1
<1>3. ASSUME NEW w \in Vehicles, TreatOne(w)
      PROVE  \/ \E s \in Stations : ~Full(s) /\ v \in docked'[s] /\ stationOf'[v] = s
             \/ \A s \in Stations : Full(s)
  <2>1. v = w /\ Relocate(v)
    BY <1>3 DEF TreatOne
  <2>2. CASE \A s \in Stations : Full(s)
    BY <2>2
  <2>3. CASE \E s \in Stations : ~Full(s)
    <3>1. PICK new \in Stations :
            /\ ~Full(new) /\ stationOf' = [stationOf EXCEPT ![v] = new]
            /\ docked' = [s \in Stations |-> IF s = new THEN docked[s] \cup {v}
                                                        ELSE docked[s] \ {v}]
      BY <1>1, <2>1, <2>3 DEF Relocate
    <3> QED  BY <1>0, <3>1 DEF FleetTyped
  <2> QED  BY <2>2, <2>3
<1>4. ASSUME NEW t \in Tasks, Step(t) PROVE degraded \subseteq degraded'
  BY <1>4 DEF Step, StartChooseStation, StartCheckout, AwaitUser, ByStationRide,
              ByVehicleRide, EndRide, EndCharged, EndDock, ReportDegraded, fleet
<1>5. ASSUME \/ \E t \in Tasks : Arrival(t)
             \/ TreatBegin \/ UNCHANGED vars \/ \E u \in Users : UpgradeUser(u)
      PROVE  degraded \subseteq degraded'
  BY <1>5 DEF Arrival, AcceptStart, AcceptByStation, AcceptByVehicle, AcceptEnd, AcceptReport,
              TreatBegin, UpgradeUser, vars, fleet
<1>6. PICK w \in Vehicles : TreatOne(w)
  BY <1>4, <1>5 DEF Next
<1> QED  BY <1>2, <1>3, <1>6 DEF Full

\* A treated vehicle leaves the degraded pool for a slot, or because no station has
\* one, whatever endpoints the clients call and whatever requests are in flight.
THEOREM TreatmentRelocates == Spec => TreatedStaysOutOnlyWhenFull
<1> DEFINE Relocates ==
      \A v \in degraded \ degraded' :
        \/ \E s \in Stations : /\ v \in docked'[s] /\ stationOf'[v] = s
                              /\ Cardinality(docked[s]) < Capacity[s]
        \/ \A s \in Stations : Cardinality(docked[s]) = Capacity[s]
<1>1. FleetInv /\ [Next]_vars => [Relocates]_vars
  BY TreatedRelocated
<1> QED  BY <1>1, FleetSafe, PTL DEF Spec, TreatedStaysOutOnlyWhenFull

-----------------------------------------------------------------------------
(* Vehicles beyond the rent limit, where only /ride/start starts rides.     *)

\* The start endpoints that hand out a vehicle without looking at its rides.
DirectStarts == {"start-by-station", "start-by-vehicle"}
DirectPCs == {"station.station", "station.user", "vehicle.station", "vehicle.user"}
NoDirectStart == \A t \in Tasks : pc[t] \notin DirectPCs

LEMMA NoDirectStep ==
  ASSUME TypeOK, Endpoints \cap DirectStarts = {}, NoDirectStart, [Next]_vars
  PROVE  NoDirectStart'
<1>0. RequestsTyped
  BY DEF TypeOK
<1>1. ASSUME NEW t \in Tasks, OthersKeep(t), pc'[t] \notin DirectPCs PROVE NoDirectStart'
  BY <1>1 DEF NoDirectStart, OthersKeep
<1>2. ASSUME NEW t \in Tasks, Arrival(t) PROVE NoDirectStart'
  <2>1. ASSUME NEW e, NEW w, NEW q, Accept(t, e, w, q), w \notin DirectPCs
        PROVE  NoDirectStart'
    BY <1>0, <1>1, <2>1, AcceptFacts
  <2>2. /\ ~\E u \in Users, s \in Stations : AcceptByStation(t, u, s)
        /\ ~\E u \in Users, v \in Vehicles : AcceptByVehicle(t, u, v)
    <3>1. \A e, w, q : Accept(t, e, w, q) => e \notin DirectStarts
      BY DEF Accept
    <3> QED  BY <3>1 DEF AcceptByStation, AcceptByVehicle, DirectStarts
  <2>3. ASSUME NEW u, NEW l, AcceptStart(t, u, l) PROVE NoDirectStart'
    BY <2>1, <2>3 DEF AcceptStart, DirectPCs
  <2>4. ASSUME NEW r, NEW l, AcceptEnd(t, r, l) PROVE NoDirectStart'
    BY <2>1, <2>4 DEF AcceptEnd, DirectPCs
  <2>5. ASSUME NEW u, NEW v, AcceptReport(t, u, v) PROVE NoDirectStart'
    BY <2>1, <2>5 DEF AcceptReport, DirectPCs
  <2> QED  BY <1>2, <2>2, <2>3, <2>4, <2>5 DEF Arrival
<1>3. ASSUME NEW t \in Tasks, Step(t) PROVE NoDirectStart'
  <2>1. CASE Reply(t)
    BY <1>0, <1>1, <2>1, ReplyFacts DEF DirectPCs
  <2>2. ASSUME NEW w, w \notin DirectPCs, GoTo(t, w), \A x \in Tasks \ {t} : req'[x] = req[x]
        PROVE  NoDirectStart'
    BY <1>0, <1>1, <2>2, GoToFacts
  <2>3. CASE StartChooseStation(t)
    BY <1>0, <2>1, <2>2, <2>3 DEF StartChooseStation, RequestsTyped, DirectPCs
  <2>4. ~AwaitUser(t)
    BY DEF AwaitUser, NoDirectStart, DirectPCs
  <2>5. CASE EndRide(t)
    BY <1>0, <2>1, <2>2, <2>5 DEF EndRide, RequestsTyped, DirectPCs
  <2>6. CASE EndCharged(t)
    BY <2>1, <2>2, <2>6 DEF EndCharged, DirectPCs
  <2> QED
    BY <1>3, <2>1, <2>3, <2>4, <2>5, <2>6
       DEF Step, StartCheckout, ByStationRide, ByVehicleRide, EndDock, ReportDegraded
<1>4. ASSUME \/ TreatBegin \/ UNCHANGED vars \/ \E v \in Vehicles : TreatOne(v)
             \/ \E u \in Users : UpgradeUser(u)
      PROVE  NoDirectStart'
  BY <1>4 DEF NoDirectStart, TreatBegin, TreatOne, UpgradeUser, vars, tasks
<1> QED  BY <1>2, <1>3, <1>4 DEF Next

LEMMA UnrentableStays ==
  ASSUME FleetInv, NoDirectStart, [Next]_vars,
         NEW s \in Stations, NEW v \in docked[s], Unrentable(v)
  PROVE  v \in docked'[s]
<1>0. TypeOK /\ FleetTyped
  BY DEF FleetInv, BookInv, SafeLocks, TypeOK
<1>1. ASSUME NEW t \in Tasks, StartCheckout(t) PROVE v \in docked'[s]
  <2>1. CASE UNCHANGED docked
    BY <2>1
  <2>2. ASSUME NEW w \in Preferred(req[t].station), Checkout(req[t].station, w)
        PROVE  v \in docked'[s]
    <3>1. v # w
      BY DEF Preferred, Eligible
    <3> QED  BY <1>0, <2>2, <3>1 DEF Checkout, FleetTyped
  <2> QED  BY <1>1, <2>1, <2>2 DEF StartCheckout, fleet
<1>2. ASSUME NEW t \in Tasks, EndDock(t) PROVE v \in docked'[s]
  BY <1>0, <1>2 DEF EndDock, Dock, FleetTyped, fleet
<1>3. ASSUME NEW w \in Vehicles, TreatOne(w) PROVE v \in docked'[s]
  <2>1. CASE UNCHANGED docked
    BY <2>1
  <2>2. CASE w \in degraded /\ Relocate(w)
    <3>1. v # w
      BY <2>2, DockedIsFree
    <3> QED  BY <2>2, <3>1 DEF Relocate
  <2> QED  BY <1>3, <2>1, <2>2 DEF TreatOne
<1>4. ASSUME NEW t \in Tasks, Step(t), ~StartCheckout(t), ~EndDock(t) PROVE UNCHANGED docked
  BY <1>4 DEF Step, StartChooseStation, AwaitUser, ByStationRide, ByVehicleRide, EndRide,
              EndCharged, ReportDegraded, NoDirectStart, DirectPCs, fleet
<1>5. ASSUME \/ \E t \in Tasks : Arrival(t)
             \/ TreatBegin \/ UNCHANGED vars \/ \E u \in Users : UpgradeUser(u)
      PROVE  UNCHANGED docked
  BY <1>5 DEF Arrival, AcceptStart, AcceptByStation, AcceptByVehicle, AcceptEnd, AcceptReport,
              TreatBegin, UpgradeUser, vars, fleet
<1> QED  BY <1>1, <1>2, <1>3, <1>4, <1>5 DEF Next

\* Where clients start rides with /ride/start only, a vehicle beyond the rent limit
\* stays docked until it is treated.  (The two direct endpoints hand it out.)
THEOREM UnrentableIsKept ==
  Endpoints \cap DirectStarts = {} => (Spec => UnrentableStaysDocked)
<1> SUFFICES ASSUME Endpoints \cap DirectStarts = {} PROVE Spec => UnrentableStaysDocked
  OBVIOUS
<1> DEFINE Stays ==
      \A v \in Vehicles, s \in Stations :
        v \in docked[s] /\ Unrentable(v) => v \in docked'[s] \/ ridesSince'[v] = 0
<1>1. Init => NoDirectStart
  BY DEF Init, NoDirectStart, DirectPCs
<1>2. FleetInv /\ NoDirectStart /\ [Next]_vars => NoDirectStart'
  BY NoDirectStep DEF FleetInv, BookInv, SafeLocks
<1>3. FleetInv /\ NoDirectStart /\ [Next]_vars => [Stays]_vars
  BY UnrentableStays
<1> QED  BY <1>1, <1>2, <1>3, FleetSafe, PTL DEF Spec, UnrentableStaysDocked

=============================================================================
