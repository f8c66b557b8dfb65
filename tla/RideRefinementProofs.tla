------------------------- MODULE RideRefinementProofs -------------------------
(***************************************************************************)
(* RideService implements RideLedger, for any number of users, vehicles,   *)
(* stations and requests in flight.                                        *)
(***************************************************************************)
EXTENDS RideRefinement, RideFleetProofs

-----------------------------------------------------------------------------
(* The ledger state of a ride.                                              *)

LEMMA StateTyped == \A r \in Rides : LedgerState(r) \in {"new", "riding", "owed", "paid", "free", "closed"}
BY DEF LedgerState

\* A ride is being returned by at most one request, and is then completed.
LEMMA ReturnedBy ==
  ASSUME BookInv, NEW t \in Tasks, pc[t] \in EndPCs, NEW r \in Rides, req[t].ride = r
  PROVE  /\ ride[r].status = "completed" /\ ride[r].fee = RideFee
         /\ \A x \in Tasks : pc[x] \in EndPCs /\ req[x].ride = r => x = t
<1>1. ride[r].status = "completed" /\ ride[r].fee = RideFee
  BY DEF BookInv, LookupsStillHold, LookupHolds, EndPCs
<1> QED  BY <1>1, SoleReturn

LEMMA NotReturned ==
  ASSUME BookInv, NEW r \in Rides, ride[r].status # "completed"
  PROVE  \A x \in Tasks : pc[x] \in EndPCs => req[x].ride # r
BY ReturnedBy

LEMMA OpenMatches == BookInv => L!Open = OpenRides
<1> SUFFICES ASSUME BookInv, NEW r \in Rides
             PROVE  LedgerState(r) \in {"riding", "owed", "paid"} <=> r \in OpenRides
  BY DEF L!Open, LedgerView, OpenRides
<1>1. ride[r].status \in {"none", "active", "completed"}
  BY BookTypes
<1>2. Returning(r) <=> ReturningAt(r, "end.charge") \/ ReturningAt(r, "end.dock")
  BY DEF Returning, ReturningAt
<1>3. CASE ride[r].status = "completed"
  BY <1>2, <1>3 DEF LedgerState, OpenRides
<1>4. CASE ride[r].status = "active"
  BY <1>4 DEF LedgerState, OpenRides
<1>5. CASE ride[r].status = "none"
  <2>1. ~Returning(r)
    BY <1>5, NotReturned DEF Returning, EndPCs
  <2> QED  BY <1>5, <2>1 DEF LedgerState, OpenRides
<1> QED  BY <1>1, <1>3, <1>4, <1>5

\* The step of a request changes the ledger state of no ride it does not end.
LEMMA StateKept ==
  ASSUME NEW t \in Tasks, OthersKeep(t), NEW q \in Rides, ride'[q] = ride[q],
         pc[t] \in EndPCs => req[t].ride # q, pc'[t] \in EndPCs => req'[t].ride # q
  PROVE  LedgerState(q)' = LedgerState(q)
<1>1. ASSUME NEW w \in EndPCs PROVE ReturningAt(q, w)' <=> ReturningAt(q, w)
  BY <1>1 DEF ReturningAt, OthersKeep
<1>2. /\ ReturningAt(q, "end.charge")' <=> ReturningAt(q, "end.charge")
      /\ ReturningAt(q, "end.dock")' <=> ReturningAt(q, "end.dock")
  BY <1>1 DEF EndPCs
<1> QED  BY <1>2 DEF LedgerState

LEMMA SameLedger ==
  ASSUME NEW t \in Tasks, OthersKeep(t), pc[t] \notin EndPCs, pc'[t] \notin EndPCs,
         UNCHANGED <<ride, docked>>
  PROVE  UNCHANGED L!vars
<1>1. \A q \in Rides : LedgerState(q)' = LedgerState(q)
  BY StateKept
<1> QED  BY <1>1 DEF L!vars, LedgerView, ParkedView

LEMMA MoveLedger ==
  ASSUME NEW r \in Rides, NEW from, NEW to, LedgerState(r) = from, LedgerState(r)' = to,
         \A q \in Rides \ {r} : LedgerState(q)' = LedgerState(q),
         \A q \in Rides : ride'[q].user = ride[q].user /\ ride'[q].vehicle = ride[q].vehicle
  PROVE  L!Move(r, from, to)
BY DEF L!Move, LedgerView

-----------------------------------------------------------------------------
(* One lemma per kind of step.                                              *)

LEMMA LedgerBegins ==
  ASSUME FleetInv, NEW t \in Tasks, OthersKeep(t), pc[t] \notin EndPCs, pc'[t] \notin EndPCs,
         NEW u \in Users, NEW s \in Stations, NEW v \in docked[s],
         activeRide[u] = None, Checkout(s, v), BeginRide(u, v)
  PROVE  L!Next
<1>0. BookInv /\ v \in Vehicles
  BY DockedIsFree DEF FleetInv
<1>1. PICK r \in Rides :
        /\ ride[r].status = "none"
        /\ ride' = [ride EXCEPT ![r] = [status |-> "active", user |-> u,
                                        vehicle |-> v, fee |-> 0]]
  BY DEF BeginRide
<1>2. /\ ride'[r].status = "active" /\ ride'[r].user = u /\ ride'[r].vehicle = v
      /\ \A q \in Rides \ {r} : ride'[q] = ride[q]
  BY <1>0, <1>1, BookTypes
<1>3. \A q \in Rides \ {r} : LedgerState(q)' = LedgerState(q)
  BY <1>2, StateKept
<1>4. LedgerState(r) = "new" /\ LedgerState(r)' = "riding"
  BY <1>1, <1>2 DEF LedgerState
<1>6. LedgerView' = [LedgerView EXCEPT ![r] = [state |-> "riding", user |-> u, vehicle |-> v]]
  BY <1>2, <1>3, <1>4 DEF LedgerView
<1>7. LedgerView[r].state = "new"
  BY <1>4 DEF LedgerView
<1>8. \A q \in L!Open : LedgerView[q].user # u /\ LedgerView[q].vehicle # v
  <2>1. \A q \in OpenRides : q \in Rides /\ ride[q].user # u /\ ride[q].vehicle # v
    BY <1>0, BookTypes, DockedIsFree DEF BookInv, RideIndexConsistent
  <2> QED  BY <1>0, <2>1, OpenMatches DEF LedgerView
<1>9. v \in ParkedView /\ ParkedView' = ParkedView \ {v}
  <2>1. \A x \in Stations : docked'[x] = docked[x] \ {v}
    BY DockedIsFree DEF Checkout, FleetInv, BookInv, SafeLocks, TypeOK, FleetTyped
  <2> QED  BY <2>1 DEF ParkedView
<1>10. L!Begin(r, u, v)
  BY <1>6, <1>7, <1>8, <1>9 DEF L!Begin
<1> QED  BY <1>0, <1>10 DEF L!Next

LEMMA LedgerReturns ==
  ASSUME BookInv, NEW t \in Tasks, OthersKeep(t), NEW r \in Rides,
         ride[r].status = "active", CompleteRide(r, RideFee), UNCHANGED docked,
         pc[t] \notin EndPCs, pc'[t] = "end.charge", req'[t].ride = r
  PROVE  L!Return(r)
<1>1. /\ ride'[r] = [ride[r] EXCEPT !.status = "completed", !.fee = RideFee]
      /\ \A q \in Rides \ {r} : ride'[q] = ride[q]
  BY BookTypes DEF CompleteRide
<1>2. \A q \in Rides \ {r} : LedgerState(q)' = LedgerState(q)
  BY <1>1, StateKept
<1>3. LedgerState(r) = "riding"
  BY DEF LedgerState
<1>4. LedgerState(r)' = "owed"
  <2>1. ride'[r].status = "completed"
    BY <1>1, BookTypes
  <2> QED  BY <2>1 DEF LedgerState, ReturningAt
<1>5. \A q \in Rides : ride'[q].user = ride[q].user /\ ride'[q].vehicle = ride[q].vehicle
  BY BookTypes DEF CompleteRide
<1> QED  BY <1>2, <1>3, <1>4, <1>5, MoveLedger DEF L!Return, ParkedView

LEMMA LedgerForgives ==
  ASSUME BookInv, NEW t \in Tasks, OthersKeep(t), NEW r \in Rides,
         ride[r].status = "active", CompleteRide(r, 0), UNCHANGED docked,
         pc[t] \notin EndPCs, pc'[t] \notin EndPCs
  PROVE  L!Forgive(r)
<1>1. /\ ride'[r] = [ride[r] EXCEPT !.status = "completed", !.fee = 0]
      /\ \A q \in Rides \ {r} : ride'[q] = ride[q]
  BY BookTypes DEF CompleteRide
<1>2. \A q \in Rides \ {r} : LedgerState(q)' = LedgerState(q)
  BY <1>1, StateKept
<1>3. LedgerState(r) = "riding"
  BY DEF LedgerState
<1>4. LedgerState(r)' = "free"
  <2>1. ride'[r].status = "completed" /\ ride'[r].fee = 0
    BY <1>1, BookTypes
  <2>2. \A x \in Tasks : pc'[x] \in EndPCs => req'[x].ride # r
    BY NotReturned DEF OthersKeep
  <2> QED  BY <2>1, <2>2 DEF LedgerState, ReturningAt, EndPCs
<1>5. \A q \in Rides : ride'[q].user = ride[q].user /\ ride'[q].vehicle = ride[q].vehicle
  BY BookTypes DEF CompleteRide
<1> QED  BY <1>2, <1>3, <1>4, <1>5, MoveLedger DEF L!Forgive, ParkedView

\* A request that is returning a ride moves that ride on, and no other.
LEMMA LedgerAdvances ==
  ASSUME BookInv, NEW t \in Tasks, OthersKeep(t), NEW r \in Rides,
         pc[t] \in EndPCs, req[t].ride = r, UNCHANGED ride,
         pc'[t] = "idle" \/ (pc'[t] = "end.dock" /\ req'[t] = req[t])
  PROVE  L!Move(r, IF pc[t] = "end.charge" THEN "owed" ELSE "paid",
                   IF pc'[t] = "idle" THEN "closed" ELSE "paid")
<1>1. /\ ride[r].status = "completed" /\ ride[r].fee = 15
      /\ \A x \in Tasks \ {t} : pc[x] \in EndPCs => req[x].ride # r
  BY ReturnedBy DEF RideFee
<1>2. \A q \in Rides \ {r} : LedgerState(q)' = LedgerState(q)
  <2>1. pc'[t] \in EndPCs => req'[t].ride = r
    BY DEF EndPCs
  <2> QED  BY <2>1, StateKept
<1>3. LedgerState(r) = IF pc[t] = "end.charge" THEN "owed" ELSE "paid"
  BY <1>1 DEF LedgerState, ReturningAt, EndPCs
<1>4. LedgerState(r)' = IF pc'[t] = "idle" THEN "closed" ELSE "paid"
  <2>1. \A x \in Tasks \ {t} : pc'[x] \in EndPCs => req'[x].ride # r
    BY <1>1 DEF OthersKeep
  <2> QED  BY <1>1, <2>1 DEF LedgerState, ReturningAt, EndPCs
<1> QED  BY <1>2, <1>3, <1>4, MoveLedger

LEMMA LedgerReparks ==
  ASSUME FleetInv, NEW v \in degraded, Relocate(v), UNCHANGED <<books, tasks>>
  PROVE  L!Next \/ UNCHANGED L!vars
<1>0. /\ v \in Vehicles /\ BookInv
      /\ docked \in [Stations -> SUBSET Vehicles]
  BY DEF FleetInv, BookInv, SafeLocks, TypeOK, FleetTyped
<1>1. LedgerView' = LedgerView
  BY DEF books, tasks, LedgerView, LedgerState, ReturningAt
<1>2. CASE UNCHANGED docked
  BY <1>1, <1>2 DEF L!vars, ParkedView
<1>3. ASSUME NEW new \in Stations,
             docked' = [s \in Stations |-> IF s = new THEN docked[s] \cup {v}
                                                      ELSE docked[s] \ {v}]
      PROVE  L!Next
  <2>1. ParkedView' = ParkedView \cup {v}
    <3>1. /\ docked'[new] = docked[new] \cup {v}
          /\ \A s \in Stations \ {new} : docked'[s] = docked[s] \ {v}
      BY <1>3
    <3> QED  BY <3>1 DEF ParkedView
  <2>2. \A q \in L!Open : LedgerView[q].vehicle # v
    <3>1. \A q \in OpenRides : q \in Rides /\ ride[q].vehicle # v
      BY DEF FleetInv, VehicleExclusive, OpenRides
    <3> QED  BY <1>0, <3>1, OpenMatches DEF LedgerView
  <2>3. L!Repark(v)
    BY <1>1, <2>1, <2>2 DEF L!Repark
  <2> QED  BY <1>0, <2>3 DEF L!Next
<1> QED  BY <1>2, <1>3 DEF Relocate

-----------------------------------------------------------------------------
(* Every step of the service.                                               *)

LEMMA LedgerStep ==
  ASSUME FleetInv, [Next]_vars
  PROVE  L!Next \/ UNCHANGED L!vars
<1> DEFINE Goal == L!Next \/ UNCHANGED L!vars
<1>0. BookInv /\ TypeOK /\ RequestsTyped /\ FleetTyped
  BY DEF FleetInv, BookInv, SafeLocks, TypeOK
<1>1. ASSUME NEW t \in Tasks, Reply(t), pc[t] \notin EndPCs, UNCHANGED <<ride, docked>>
      PROVE  Goal
  BY <1>0, <1>1, ReplyFacts, SameLedger DEF EndPCs
<1>2. ASSUME NEW t \in Tasks, Arrival(t) PROVE Goal
  <2>1. UNCHANGED <<ride, docked>>
    BY <1>2 DEF Arrival, AcceptStart, AcceptByStation, AcceptByVehicle, AcceptEnd,
                AcceptReport, fleet, books
  <2>2. \E e, w, q : w \notin EndPCs /\ Accept(t, e, w, q)
    BY <1>2 DEF Arrival, AcceptStart, AcceptByStation, AcceptByVehicle, AcceptEnd,
                AcceptReport, EndPCs
  <2>3. OthersKeep(t) /\ pc[t] = "idle" /\ pc'[t] \notin EndPCs
    BY <1>0, <2>2, AcceptFacts
  <2> QED  BY <2>1, <2>3, SameLedger DEF EndPCs
<1>3. ASSUME NEW t \in Tasks, StartChooseStation(t) PROVE Goal
  <2>1. UNCHANGED <<ride, docked>> /\ pc[t] = "start.user"
    BY <1>3 DEF StartChooseStation, fleet, books
  <2>2. CASE Reply(t)
    BY <1>1, <2>1, <2>2 DEF EndPCs
  <2>3. ASSUME NEW s, req' = [req EXCEPT ![t].station = s], GoTo(t, "start.station")
        PROVE  Goal
    <3>1. OthersKeep(t) /\ pc'[t] = "start.station"
      BY <1>0, <2>3, GoToFacts DEF RequestsTyped
    <3> QED  BY <2>1, <3>1, SameLedger DEF EndPCs
  <2> QED  BY <1>3, <2>2, <2>3 DEF StartChooseStation
<1>4. ASSUME NEW t \in Tasks, Reply(t), pc[t] \notin EndPCs, NEW u \in Users,
             NEW s \in Stations, NEW v \in docked[s],
             activeRide[u] = None, Checkout(s, v), BeginRide(u, v)
      PROVE  Goal
  BY <1>0, <1>4, ReplyFacts, LedgerBegins DEF EndPCs
<1>5. ASSUME NEW t \in Tasks, StartCheckout(t) PROVE Goal
  <2>1. /\ pc[t] = "start.station" /\ req[t].station \in Stations /\ req[t].user \in Users
        /\ activeRide[req[t].user] = None
    BY <1>0, <1>5, RequestFields
       DEF StartCheckout, StationPCs, UserPCs, BookInv, LookupsStillHold, LookupHolds
  <2>2. CASE UNCHANGED <<fleet, books>>
    BY <1>1, <1>5, <2>1, <2>2 DEF StartCheckout, fleet, books, EndPCs
  <2> QED  BY <1>4, <1>5, <2>1, <2>2 DEF StartCheckout, Preferred, Eligible, EndPCs
<1>6. ASSUME NEW t \in Tasks, AwaitUser(t) PROVE Goal
  <2>1. OthersKeep(t) /\ pc'[t] \in {"station.user", "vehicle.user"}
    BY <1>0, <1>6, GoToFacts DEF AwaitUser
  <2> QED  BY <1>6, <2>1, SameLedger DEF AwaitUser, EndPCs, fleet, books
<1>7. ASSUME NEW t \in Tasks, ByStationRide(t) PROVE Goal
  <2>1. pc[t] = "station.user" /\ req[t].station \in Stations /\ req[t].user \in Users
    BY <1>0, <1>7, RequestFields DEF ByStationRide, StationPCs, UserPCs
  <2>2. CASE UNCHANGED <<fleet, books>>
    BY <1>1, <1>7, <2>1, <2>2 DEF ByStationRide, fleet, books, EndPCs
  <2> QED  BY <1>4, <1>7, <2>1, <2>2 DEF ByStationRide, EndPCs
<1>8. ASSUME NEW t \in Tasks, ByVehicleRide(t) PROVE Goal
  <2>1. pc[t] = "vehicle.user" /\ req[t].user \in Users
    BY <1>0, <1>8, RequestFields DEF ByVehicleRide, StationPCs, UserPCs
  <2>2. CASE UNCHANGED <<fleet, books>>
    BY <1>1, <1>8, <2>1, <2>2 DEF ByVehicleRide, fleet, books, EndPCs
  <2>3. CASE /\ ByVehicleAllowed(req[t].user, req[t].vehicle)
             /\ Checkout(stationOf[req[t].vehicle], req[t].vehicle)
             /\ BeginRide(req[t].user, req[t].vehicle)
    <3>1. /\ stationOf[req[t].vehicle] \in Stations
          /\ req[t].vehicle \in docked[stationOf[req[t].vehicle]]
          /\ activeRide[req[t].user] = None
      BY <1>0, <2>1, <2>3
         DEF ByVehicleAllowed, FleetTyped, RequestsTyped, RequestTyped
    <3> QED  BY <1>4, <1>8, <2>1, <2>3, <3>1 DEF ByVehicleRide, EndPCs
  <2> QED  BY <1>8, <2>2, <2>3 DEF ByVehicleRide
<1>9. ASSUME NEW t \in Tasks, EndRide(t) PROVE Goal
  <2>1. pc[t] = "end.user" /\ UNCHANGED docked /\ req[t].ride \in Rides
    BY <1>0, <1>9, EndedRide DEF EndRide, fleet
  <2>2. CASE Reply(t) /\ UNCHANGED books
    BY <1>1, <2>1, <2>2 DEF EndPCs, books
  <2>3. ASSUME NEW s, req' = [req EXCEPT ![t].station = s], GoTo(t, "end.charge"),
               ride[req[t].ride].status = "active", CompleteRide(req[t].ride, RideFee)
        PROVE  Goal
    <3>1. OthersKeep(t) /\ pc'[t] = "end.charge" /\ req'[t].ride = req[t].ride
      BY <1>0, <2>3, GoToFacts DEF RequestsTyped
    <3>2. L!Return(req[t].ride)
      BY <1>0, <2>1, <2>3, <3>1, LedgerReturns DEF EndPCs
    <3> QED  BY <2>1, <3>2 DEF L!Next
  <2> QED  BY <1>9, <2>2, <2>3 DEF EndRide
<1>10. ASSUME NEW t \in Tasks, EndCharged(t) PROVE Goal
  <2>1. pc[t] = "end.charge" /\ UNCHANGED <<ride, docked>> /\ req[t].ride \in Rides
    BY <1>0, <1>10, EndedRide DEF EndCharged, fleet
  <2>2. /\ OthersKeep(t)
        /\ pc'[t] = "idle" \/ (pc'[t] = "end.dock" /\ req'[t] = req[t])
    <3>1. CASE Reply(t)
      BY <1>0, <3>1, ReplyFacts
    <3>2. CASE GoTo(t, "end.dock") /\ UNCHANGED req
      BY <1>0, <3>2, GoToFacts
    <3> QED  BY <1>10, <3>1, <3>2 DEF EndCharged
  <2>3. L!Pay(req[t].ride)
    BY <1>0, <2>1, <2>2, LedgerAdvances DEF L!Pay, EndPCs, ParkedView
  <2> QED  BY <2>1, <2>3 DEF L!Next
<1>11. ASSUME NEW t \in Tasks, EndDock(t) PROVE Goal
  <2> DEFINE r == req[t].ride
  <2>1. pc[t] = "end.dock" /\ UNCHANGED ride /\ r \in Rides /\ req[t].station \in Stations
    BY <1>0, <1>11, EndedRide, RequestFields DEF EndDock, StationPCs
  <2>2. OthersKeep(t) /\ pc'[t] = "idle"
    BY <1>0, <1>11, ReplyFacts DEF EndDock
  <2>3. L!Move(r, "paid", "closed")
    BY <1>0, <2>1, <2>2, LedgerAdvances DEF EndPCs
  <2>4. LedgerView[r].vehicle = ride[r].vehicle
    BY <2>1 DEF LedgerView
  <2>5. ParkedView' = ParkedView \cup {ride[r].vehicle} \/ UNCHANGED ParkedView
    <3>1. CASE UNCHANGED fleet
      BY <3>1 DEF fleet, ParkedView
    <3>2. CASE Dock(req[t].station, ride[r].vehicle)
      <4>1. /\ docked'[req[t].station] = docked[req[t].station] \cup {ride[r].vehicle}
            /\ \A s \in Stations \ {req[t].station} : docked'[s] = docked[s]
        BY <1>0, <2>1, <3>2 DEF Dock, FleetTyped
      <4> QED  BY <2>1, <4>1 DEF ParkedView
    <3> QED  BY <1>11, <3>1, <3>2 DEF EndDock
  <2>6. L!Close(r)
    BY <2>3, <2>4, <2>5 DEF L!Close
  <2> QED  BY <2>1, <2>6 DEF L!Next
<1>12. ASSUME NEW t \in Tasks, ReportDegraded(t) PROVE Goal
  <2>1. pc[t] = "report.user" /\ UNCHANGED docked /\ OthersKeep(t) /\ pc'[t] = "idle"
    BY <1>0, <1>12, ReplyFacts DEF ReportDegraded, fleet
  <2>2. CASE UNCHANGED <<fleet, books>>
    BY <2>1, <2>2, SameLedger DEF EndPCs, books
  <2>3. ASSUME NEW r \in ActiveRides(req[t].user), CompleteRide(r, 0) PROVE Goal
    <3>1. r \in Rides /\ ride[r].status = "active"
      BY DEF ActiveRides
    <3>2. L!Forgive(r)
      BY <1>0, <2>1, <2>3, <3>1, LedgerForgives DEF EndPCs
    <3> QED  BY <3>1, <3>2 DEF L!Next
  <2> QED  BY <1>12, <2>2, <2>3 DEF ReportDegraded
<1>13. ASSUME NEW v \in Vehicles, TreatOne(v) PROVE Goal
  <2>1. CASE v \in degraded
    BY <1>13, <2>1, LedgerReparks DEF TreatOne
  <2>2. CASE v \notin degraded
    BY <1>13, <2>2 DEF TreatOne, books, tasks, L!vars, LedgerView, LedgerState,
                       ReturningAt, ParkedView
  <2> QED  BY <2>1, <2>2
<1>14. ASSUME TreatBegin \/ (\E u \in Users : UpgradeUser(u)) \/ UNCHANGED vars PROVE Goal
  <2>1. UNCHANGED <<docked, ride, pc, req>>
    BY <1>14 DEF TreatBegin, UpgradeUser, vars, fleet, books, tasks
  <2> QED  BY <2>1 DEF L!vars, LedgerView, LedgerState, ReturningAt, ParkedView
<1> QED
  BY <1>2, <1>3, <1>5, <1>6, <1>7, <1>8, <1>9, <1>10, <1>11, <1>12, <1>13, <1>14
     DEF Next, Step

LEMMA LedgerInit == Init => L!Init
<1> SUFFICES ASSUME Init PROVE L!Init
  OBVIOUS
<1>1. LedgerView = [r \in Rides |-> L!NoEntry]
  BY DEF Init, NoRide, LedgerView, LedgerState, L!NoEntry
<1>2. ParkedView \in SUBSET Vehicles
  BY DEF Init, ParkedView
<1> QED  BY <1>1, <1>2 DEF L!Init

\* Whatever the interleaving of the handlers, rides and vehicles behave as in
\* RideLedger: a vehicle goes out only when nobody has it, to a user who has no
\* open ride, and a ride is paid once between its return and its end.
THEOREM ServiceImplementsLedger == Spec => ImplementsLedger
<1>1. FleetInv /\ [Next]_vars => [L!Next]_(L!vars)
  BY LedgerStep
<1> QED  BY <1>1, LedgerInit, FleetSafe, PTL DEF Spec, L!Spec, ImplementsLedger
=============================================================================
