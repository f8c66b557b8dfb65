--------------------------- MODULE RideServiceProofs ---------------------------
(***************************************************************************)
(* Proofs about RideService, for every fleet, map, number of requests in   *)
(* flight and choice of endpoints: types, locks, and then the books: no    *)
(* user has two rides, no ride is charged twice, history is never          *)
(* rewritten.                                                              *)
(***************************************************************************)
EXTENDS RideService, TLAPS, FiniteSetTheorems

-----------------------------------------------------------------------------
(* Queues.                                                                  *)

\* acquire() on a lock: the caller is added at the end, once if it was not
\* there, and an owner stays the owner.
LEMMA AppendQueue ==
  ASSUME NEW S, NEW q \in Seq(S), NEW t \in S
  PROVE  /\ Append(q, t) \in Seq(S)
         /\ \A x : InQueue(x, Append(q, t)) <=> InQueue(x, q) \/ x = t
         /\ NoRepeat(q) /\ ~InQueue(t, q) => NoRepeat(Append(q, t))
         /\ \A x : Holds(x, q) => Holds(x, Append(q, t))
<1>1. Append(q, t) \in Seq(S) /\ Len(Append(q, t)) = Len(q) + 1
  OBVIOUS
<1>2. \A i \in 1..Len(q) : Append(q, t)[i] = q[i]
  OBVIOUS
<1>3. Append(q, t)[Len(q) + 1] = t
  OBVIOUS
<1>4. DOMAIN q = 1..Len(q) /\ DOMAIN Append(q, t) = 1..(Len(q) + 1) /\ Len(q) \in Nat
  OBVIOUS
<1>5. ASSUME NEW x PROVE InQueue(x, Append(q, t)) <=> InQueue(x, q) \/ x = t
  BY <1>2, <1>3, <1>4 DEF InQueue
<1>6. NoRepeat(q) /\ ~InQueue(t, q) => NoRepeat(Append(q, t))
  BY <1>2, <1>3, <1>4 DEF NoRepeat, InQueue
<1>7. ASSUME NEW x, Holds(x, q) PROVE Holds(x, Append(q, t))
  BY <1>1, <1>7 DEF Holds
<1> QED  BY <1>1, <1>5, <1>6, <1>7

\* release() by the owner: the owner, and nobody else, leaves the queue.
LEMMA TailQueue ==
  ASSUME NEW S, NEW q \in Seq(S), NEW t, Holds(t, q)
  PROVE  /\ Tail(q) \in Seq(S)
         /\ NoRepeat(q) => /\ NoRepeat(Tail(q))
                           /\ \A x : InQueue(x, Tail(q)) <=> InQueue(x, q) /\ x # t
<1>1. q # <<>> /\ t = q[1]
  BY DEF Holds
<1>2. Tail(q) \in Seq(S) /\ Len(Tail(q)) = Len(q) - 1 /\ Len(q) \in Nat \ {0}
  BY <1>1
<1>3. \A i \in 1..(Len(q) - 1) : Tail(q)[i] = q[i + 1]
  BY <1>1
<1>4. DOMAIN q = 1..Len(q) /\ DOMAIN Tail(q) = 1..(Len(q) - 1)
  BY <1>2
<1>5. ASSUME NoRepeat(q) PROVE NoRepeat(Tail(q))
  BY <1>2, <1>3, <1>4, <1>5 DEF NoRepeat
<1>6. ASSUME NoRepeat(q), NEW x PROVE InQueue(x, Tail(q)) <=> InQueue(x, q) /\ x # t
  <2>1. ASSUME InQueue(x, Tail(q)) PROVE InQueue(x, q) /\ x # t
    <3>1. PICK i \in 1..(Len(q) - 1) : Tail(q)[i] = x
      BY <1>4, <2>1 DEF InQueue
    <3>2. i + 1 \in DOMAIN q /\ q[i + 1] = x /\ 1 \in DOMAIN q /\ i + 1 # 1
      BY <1>2, <1>3, <1>4, <3>1
    <3> QED  BY <1>1, <1>6, <3>2 DEF InQueue, NoRepeat
  <2>2. ASSUME InQueue(x, q), x # t PROVE InQueue(x, Tail(q))
    <3>1. PICK i \in 1..Len(q) : q[i] = x
      BY <1>4, <2>2 DEF InQueue
    <3>2. i - 1 \in 1..(Len(q) - 1) /\ Tail(q)[i - 1] = x
      BY <1>1, <1>2, <1>3, <2>2, <3>1
    <3> QED  BY <1>4, <3>2 DEF InQueue
  <2> QED  BY <2>1, <2>2
<1> QED  BY <1>2, <1>5, <1>6

-----------------------------------------------------------------------------
(* Locks.  An action moves one request; with respect to a lock that request *)
(* joins the queue, leaves it, or stays where it is.                        *)

OthersKeep(t) == \A x \in Tasks \ {t} : pc'[x] = pc[x] /\ req'[x] = req[x]

LEMMA UserJoins ==
  ASSUME RequestsTyped, UserQueuesMatch, NEW t \in Tasks, NEW u \in Users,
         OthersKeep(t), pc[t] \notin UserPCs, pc'[t] \in UserPCs \ UserOwnerPCs,
         req'[t].user = u, userLock' = [userLock EXCEPT ![u] = Append(@, t)]
  PROVE  UserQueuesMatch'
<1>1. /\ userLock[u] \in Seq(Tasks)
      /\ userLock'[u] = Append(userLock[u], t)
      /\ \A w \in Users \ {u} : userLock'[w] = userLock[w]
  BY DEF RequestsTyped
<1>2. \A w \in Users : ~InQueue(t, userLock[w])
  BY DEF UserQueuesMatch
<1>3. NoRepeat(userLock'[u])
  BY <1>1, <1>2, AppendQueue DEF UserQueuesMatch
<1>4. \A x \in Tasks : InQueue(x, userLock'[u]) <=> pc'[x] \in UserPCs /\ req'[x].user = u
  BY <1>1, AppendQueue DEF UserQueuesMatch, OthersKeep
<1>5. ASSUME NEW w \in Users \ {u}
      PROVE  /\ NoRepeat(userLock'[w])
             /\ \A x \in Tasks : InQueue(x, userLock'[w]) <=> pc'[x] \in UserPCs /\ req'[x].user = w
  BY <1>1, <1>2, <1>5 DEF UserQueuesMatch, OthersKeep
<1>6. ASSUME NEW x \in Tasks, pc'[x] \in UserOwnerPCs
      PROVE  Holds(x, userLock'[req'[x].user])
  <2>1. x # t /\ pc[x] \in UserOwnerPCs /\ req'[x] = req[x]
    BY <1>6 DEF OthersKeep
  <2>2. req[x].user \in Users
    BY <2>1 DEF RequestsTyped, RequestTyped, UserOwnerPCs
  <2>3. Holds(x, userLock[req[x].user])
    BY <2>1 DEF UserQueuesMatch
  <2> QED  BY <1>1, <2>1, <2>2, <2>3, AppendQueue
<1> QED  BY <1>3, <1>4, <1>5, <1>6 DEF UserQueuesMatch

LEMMA UserLeaves ==
  ASSUME RequestsTyped, UserQueuesMatch, NEW t \in Tasks, NEW u \in Users,
         OthersKeep(t), req[t].user = u, Holds(t, userLock[u]), pc'[t] = "idle",
         userLock' = [userLock EXCEPT ![u] = Tail(@)]
  PROVE  UserQueuesMatch'
<1>1. /\ userLock[u] \in Seq(Tasks)
      /\ userLock'[u] = Tail(userLock[u])
      /\ \A w \in Users \ {u} : userLock'[w] = userLock[w]
  BY DEF RequestsTyped
<1>2. "idle" \notin UserPCs
  BY DEF UserPCs
<1>3. NoRepeat(userLock'[u])
  BY <1>1, TailQueue DEF UserQueuesMatch
<1>4. \A x \in Tasks : InQueue(x, userLock'[u]) <=> pc'[x] \in UserPCs /\ req'[x].user = u
  BY <1>1, <1>2, TailQueue DEF UserQueuesMatch, OthersKeep
<1>5. ASSUME NEW w \in Users \ {u}
      PROVE  /\ NoRepeat(userLock'[w])
             /\ \A x \in Tasks : InQueue(x, userLock'[w]) <=> pc'[x] \in UserPCs /\ req'[x].user = w
  BY <1>1, <1>2, <1>5 DEF UserQueuesMatch, OthersKeep
<1>6. ASSUME NEW x \in Tasks, pc'[x] \in UserOwnerPCs
      PROVE  Holds(x, userLock'[req'[x].user])
  <2>1. x # t /\ pc[x] \in UserOwnerPCs /\ req'[x] = req[x]
    BY <1>2, <1>6 DEF OthersKeep, UserOwnerPCs
  <2>2. req[x].user \in Users
    BY <2>1 DEF RequestsTyped, RequestTyped, UserOwnerPCs
  <2>3. Holds(x, userLock[req[x].user])
    BY <2>1 DEF UserQueuesMatch
  <2>4. req[x].user # u
    BY <2>1, <2>3 DEF Holds
  <2> QED  BY <1>1, <2>1, <2>2, <2>3, <2>4
<1> QED  BY <1>3, <1>4, <1>5, <1>6 DEF UserQueuesMatch

LEMMA UserStays ==
  ASSUME RequestsTyped, UserQueuesMatch, NEW t \in Tasks, OthersKeep(t),
         pc'[t] \in UserPCs <=> pc[t] \in UserPCs,
         pc[t] \in UserPCs => req'[t].user = req[t].user,
         pc'[t] \in UserOwnerPCs => Holds(t, userLock[req[t].user]) /\ pc[t] \in UserPCs,
         UNCHANGED userLock
  PROVE  UserQueuesMatch'
<1>1. \A u \in Users, x \in Tasks :
        InQueue(x, userLock'[u]) <=> pc'[x] \in UserPCs /\ req'[x].user = u
  BY DEF UserQueuesMatch, OthersKeep
<1>2. \A x \in Tasks : pc'[x] \in UserOwnerPCs => Holds(x, userLock'[req'[x].user])
  BY DEF UserQueuesMatch, OthersKeep
<1> QED  BY <1>1, <1>2 DEF UserQueuesMatch

LEMMA StationJoins ==
  ASSUME RequestsTyped, StationQueuesMatch, NEW t \in Tasks, NEW s \in Stations,
         OthersKeep(t), pc[t] \notin StationPCs, pc'[t] \in StationPCs \ StationOwnerPCs,
         req'[t].station = s, stationLock' = [stationLock EXCEPT ![s] = Append(@, t)]
  PROVE  StationQueuesMatch'
<1>1. /\ stationLock[s] \in Seq(Tasks)
      /\ stationLock'[s] = Append(stationLock[s], t)
      /\ \A w \in Stations \ {s} : stationLock'[w] = stationLock[w]
  BY DEF RequestsTyped
<1>2. \A w \in Stations : ~InQueue(t, stationLock[w])
  BY DEF StationQueuesMatch
<1>3. NoRepeat(stationLock'[s])
  BY <1>1, <1>2, AppendQueue DEF StationQueuesMatch
<1>4. \A x \in Tasks : InQueue(x, stationLock'[s]) <=> pc'[x] \in StationPCs /\ req'[x].station = s
  BY <1>1, AppendQueue DEF StationQueuesMatch, OthersKeep
<1>5. ASSUME NEW w \in Stations \ {s}
      PROVE  /\ NoRepeat(stationLock'[w])
             /\ \A x \in Tasks : InQueue(x, stationLock'[w]) <=> pc'[x] \in StationPCs /\ req'[x].station = w
  BY <1>1, <1>2, <1>5 DEF StationQueuesMatch, OthersKeep
<1>6. ASSUME NEW x \in Tasks, pc'[x] \in StationOwnerPCs
      PROVE  Holds(x, stationLock'[req'[x].station])
  <2>1. x # t /\ pc[x] \in StationOwnerPCs /\ req'[x] = req[x]
    BY <1>6 DEF OthersKeep
  <2>2. req[x].station \in Stations
    BY <2>1 DEF RequestsTyped, RequestTyped, StationOwnerPCs, StationPCs
  <2>3. Holds(x, stationLock[req[x].station])
    BY <2>1 DEF StationQueuesMatch
  <2> QED  BY <1>1, <2>1, <2>2, <2>3, AppendQueue
<1> QED  BY <1>3, <1>4, <1>5, <1>6 DEF StationQueuesMatch

LEMMA StationLeaves ==
  ASSUME RequestsTyped, StationQueuesMatch, NEW t \in Tasks, NEW s \in Stations,
         OthersKeep(t), req[t].station = s, Holds(t, stationLock[s]), pc'[t] = "idle",
         stationLock' = [stationLock EXCEPT ![s] = Tail(@)]
  PROVE  StationQueuesMatch'
<1>1. /\ stationLock[s] \in Seq(Tasks)
      /\ stationLock'[s] = Tail(stationLock[s])
      /\ \A w \in Stations \ {s} : stationLock'[w] = stationLock[w]
  BY DEF RequestsTyped
<1>2. "idle" \notin StationPCs
  BY DEF StationPCs
<1>3. NoRepeat(stationLock'[s])
  BY <1>1, TailQueue DEF StationQueuesMatch
<1>4. \A x \in Tasks : InQueue(x, stationLock'[s]) <=> pc'[x] \in StationPCs /\ req'[x].station = s
  BY <1>1, <1>2, TailQueue DEF StationQueuesMatch, OthersKeep
<1>5. ASSUME NEW w \in Stations \ {s}
      PROVE  /\ NoRepeat(stationLock'[w])
             /\ \A x \in Tasks : InQueue(x, stationLock'[w]) <=> pc'[x] \in StationPCs /\ req'[x].station = w
  BY <1>1, <1>2, <1>5 DEF StationQueuesMatch, OthersKeep
<1>6. ASSUME NEW x \in Tasks, pc'[x] \in StationOwnerPCs
      PROVE  Holds(x, stationLock'[req'[x].station])
  <2>1. x # t /\ pc[x] \in StationOwnerPCs /\ req'[x] = req[x]
    BY <1>2, <1>6 DEF OthersKeep, StationOwnerPCs
  <2>2. req[x].station \in Stations
    BY <2>1 DEF RequestsTyped, RequestTyped, StationOwnerPCs, StationPCs
  <2>3. Holds(x, stationLock[req[x].station])
    BY <2>1 DEF StationQueuesMatch
  <2>4. req[x].station # s
    BY <2>1, <2>3 DEF Holds
  <2> QED  BY <1>1, <2>1, <2>2, <2>3, <2>4
<1> QED  BY <1>3, <1>4, <1>5, <1>6 DEF StationQueuesMatch

LEMMA StationStays ==
  ASSUME RequestsTyped, StationQueuesMatch, NEW t \in Tasks, OthersKeep(t),
         pc'[t] \in StationPCs <=> pc[t] \in StationPCs,
         pc[t] \in StationPCs => req'[t].station = req[t].station,
         pc'[t] \in StationOwnerPCs => Holds(t, stationLock[req[t].station]) /\ pc[t] \in StationPCs,
         UNCHANGED stationLock
  PROVE  StationQueuesMatch'
<1>1. \A s \in Stations, x \in Tasks :
        InQueue(x, stationLock'[s]) <=> pc'[x] \in StationPCs /\ req'[x].station = s
  BY DEF StationQueuesMatch, OthersKeep
<1>2. \A x \in Tasks : pc'[x] \in StationOwnerPCs => Holds(x, stationLock'[req'[x].station])
  BY DEF StationQueuesMatch, OthersKeep
<1> QED  BY <1>1, <1>2 DEF StationQueuesMatch

-----------------------------------------------------------------------------
(* What an action does to the request it moves.                             *)

LEMMA AcceptFacts ==
  ASSUME RequestsTyped, NEW t \in Tasks, NEW e, NEW w, NEW q, Accept(t, e, w, q)
  PROVE  OthersKeep(t) /\ pc[t] = "idle" /\ pc'[t] = w /\ req'[t] = q
BY DEF RequestsTyped, Accept, OthersKeep

LEMMA ReplyFacts ==
  ASSUME RequestsTyped, NEW t \in Tasks, Reply(t)
  PROVE  OthersKeep(t) /\ pc'[t] = "idle" /\ req'[t] = NoReq
BY DEF RequestsTyped, Reply, OthersKeep

LEMMA GoToFacts ==
  ASSUME RequestsTyped, NEW t \in Tasks, NEW w, GoTo(t, w),
         \A x \in Tasks \ {t} : req'[x] = req[x]
  PROVE  OthersKeep(t) /\ pc'[t] = w
BY DEF RequestsTyped, GoTo, OthersKeep

\* The request of a task that is not idle names a user, and a station where
\* its suspension point needs one.
LEMMA RequestFields ==
  ASSUME RequestsTyped, NEW t \in Tasks
  PROVE  /\ pc[t] \in UserPCs \cup StationPCs => req[t].user \in Users
         /\ pc[t] \in StationPCs \cup {"end.charge"} => req[t].station \in Stations
BY DEF RequestsTyped, RequestTyped, UserPCs, StationPCs

-----------------------------------------------------------------------------
(* No step loses or leaks a user's lock.                                    *)

LEMMA UserQueuesStep ==
  ASSUME TypeOK, LocksMatchRequests, [Next]_vars
  PROVE  UserQueuesMatch'
<1> USE DEF TypeOK, LocksMatchRequests
<1> USE DEF UserPCs, UserOwnerPCs, StationPCs
<1>1. ASSUME NEW t \in Tasks, NEW u \in Users, NEW l \in Locations, AcceptStart(t, u, l)
      PROVE  UserQueuesMatch'
  <2>0. /\ OthersKeep(t) /\ pc[t] = "idle" /\ pc'[t] = "start.user"
        /\ req'[t] = [NoReq EXCEPT !.user = u, !.loc = l]
    BY <1>1, AcceptFacts DEF AcceptStart
  <2>1. req'[t].user = u
    BY <2>0 DEF NoReq
  <2> QED  BY <1>1, <2>0, <2>1, UserJoins DEF AcceptStart, AcquireUser
<1>2. ASSUME NEW t \in Tasks, NEW u \in Users, NEW s \in Stations, AcceptByStation(t, u, s)
      PROVE  UserQueuesMatch'
  <2>1. OthersKeep(t) /\ pc[t] = "idle" /\ pc'[t] = "station.station"
    BY <1>2, AcceptFacts DEF AcceptByStation
  <2> QED  BY <1>2, <2>1, UserStays DEF AcceptByStation
<1>3. ASSUME NEW t \in Tasks, NEW u \in Users, NEW v \in Vehicles, AcceptByVehicle(t, u, v)
      PROVE  UserQueuesMatch'
  <2>1. OthersKeep(t) /\ pc[t] = "idle" /\ pc'[t] = "vehicle.station"
    BY <1>3, AcceptFacts DEF AcceptByVehicle
  <2> QED  BY <1>3, <2>1, UserStays DEF AcceptByVehicle
<1>4. ASSUME NEW t \in Tasks, NEW r \in Rides, NEW l \in Locations, AcceptEnd(t, r, l)
      PROVE  UserQueuesMatch'
  <2>0. /\ OthersKeep(t) /\ pc[t] = "idle" /\ pc'[t] = "end.user"
        /\ req'[t] = [NoReq EXCEPT !.user = ride[r].user, !.ride = r, !.loc = l]
    BY <1>4, AcceptFacts DEF AcceptEnd
  <2>1. req'[t].user = ride[r].user
    BY <2>0 DEF NoReq
  <2>2. ride[r].user \in Users
    BY <1>4 DEF AcceptEnd, BooksTyped
  <2> QED  BY <1>4, <2>0, <2>1, <2>2, UserJoins DEF AcceptEnd, AcquireUser
<1>5. ASSUME NEW t \in Tasks, NEW u \in Users, NEW v \in Vehicles, AcceptReport(t, u, v)
      PROVE  UserQueuesMatch'
  <2>0. /\ OthersKeep(t) /\ pc[t] = "idle" /\ pc'[t] = "report.user"
        /\ req'[t] = [NoReq EXCEPT !.user = u, !.vehicle = v]
    BY <1>5, AcceptFacts DEF AcceptReport
  <2>1. req'[t].user = u
    BY <2>0 DEF NoReq
  <2> QED  BY <1>5, <2>0, <2>1, UserJoins DEF AcceptReport, AcquireUser
<1>6. ASSUME NEW t \in Tasks, StartChooseStation(t) PROVE UserQueuesMatch'
  <2>1. pc[t] = "start.user" /\ req[t].user \in Users /\ Holds(t, userLock[req[t].user])
    BY <1>6, RequestFields DEF StartChooseStation
  <2>2. CASE ReleaseUser(req[t].user) /\ Reply(t)
    BY <2>1, <2>2, ReplyFacts, UserLeaves DEF ReleaseUser
  <2>3. CASE /\ \E s \in Stations : req' = [req EXCEPT ![t].station = s]
             /\ GoTo(t, "start.station") /\ UNCHANGED userLock
    <3>1. OthersKeep(t) /\ pc'[t] = "start.station" /\ req'[t].user = req[t].user
      BY <2>3, GoToFacts DEF RequestsTyped
    <3> QED  BY <2>1, <2>3, <3>1, UserStays
  <2> QED  BY <1>6, <2>2, <2>3 DEF StartChooseStation, Nearest, StationsWithEligible
<1>7. ASSUME NEW t \in Tasks, StartCheckout(t) PROVE UserQueuesMatch'
  <2>1. pc[t] = "start.station" /\ req[t].user \in Users
    BY <1>7, RequestFields DEF StartCheckout
  <2>2. Holds(t, userLock[req[t].user])
    BY <2>1 DEF UserQueuesMatch
  <2> QED  BY <1>7, <2>1, <2>2, ReplyFacts, UserLeaves DEF StartCheckout, ReleaseUser
<1>8. ASSUME NEW t \in Tasks, AwaitUser(t) PROVE UserQueuesMatch'
  <2>1. /\ pc[t] \in {"station.station", "vehicle.station"} /\ req[t].user \in Users
        /\ pc'[t] \in {"station.user", "vehicle.user"} /\ OthersKeep(t) /\ req' = req
    BY <1>8, RequestFields, GoToFacts DEF AwaitUser
  <2> QED  BY <1>8, <2>1, UserJoins DEF AwaitUser, AcquireUser
<1>9. ASSUME NEW t \in Tasks, ByStationRide(t) PROVE UserQueuesMatch'
  <2>1. req[t].user \in Users /\ Holds(t, userLock[req[t].user])
    BY <1>9, RequestFields DEF ByStationRide
  <2> QED  BY <1>9, <2>1, ReplyFacts, UserLeaves DEF ByStationRide, ReleaseUser
<1>10. ASSUME NEW t \in Tasks, ByVehicleRide(t) PROVE UserQueuesMatch'
  <2>1. req[t].user \in Users /\ Holds(t, userLock[req[t].user])
    BY <1>10, RequestFields DEF ByVehicleRide
  <2> QED  BY <1>10, <2>1, ReplyFacts, UserLeaves DEF ByVehicleRide, ReleaseUser
<1>11. ASSUME NEW t \in Tasks, EndRide(t) PROVE UserQueuesMatch'
  <2>1. pc[t] = "end.user" /\ req[t].user \in Users /\ Holds(t, userLock[req[t].user])
    BY <1>11, RequestFields DEF EndRide
  <2>2. CASE ReleaseUser(req[t].user) /\ Reply(t)
    BY <2>1, <2>2, ReplyFacts, UserLeaves DEF ReleaseUser
  <2>3. CASE /\ \E s \in Stations : req' = [req EXCEPT ![t].station = s]
             /\ GoTo(t, "end.charge") /\ UNCHANGED userLock
    <3>1. OthersKeep(t) /\ pc'[t] = "end.charge" /\ req'[t].user = req[t].user
      BY <2>3, GoToFacts DEF RequestsTyped
    <3> QED  BY <2>1, <2>3, <3>1, UserStays
  <2> QED  BY <1>11, <2>2, <2>3 DEF EndRide, Nearest, StationsWithSlot
<1>12. ASSUME NEW t \in Tasks, EndCharged(t) PROVE UserQueuesMatch'
  <2>1. pc[t] = "end.charge" /\ req[t].user \in Users
    BY <1>12, RequestFields DEF EndCharged
  <2>2. Holds(t, userLock[req[t].user])
    BY <2>1 DEF UserQueuesMatch
  <2>3. CASE ReleaseUser(req[t].user) /\ Reply(t)
    BY <2>1, <2>2, <2>3, ReplyFacts, UserLeaves DEF ReleaseUser
  <2>4. CASE GoTo(t, "end.dock") /\ UNCHANGED <<userLock, req>>
    <3>1. OthersKeep(t) /\ pc'[t] = "end.dock"
      BY <2>4, GoToFacts
    <3> QED  BY <2>1, <2>2, <2>4, <3>1, UserStays
  <2> QED  BY <1>12, <2>3, <2>4 DEF EndCharged
<1>13. ASSUME NEW t \in Tasks, EndDock(t) PROVE UserQueuesMatch'
  <2>1. pc[t] = "end.dock" /\ req[t].user \in Users
    BY <1>13, RequestFields DEF EndDock
  <2>2. Holds(t, userLock[req[t].user])
    BY <2>1 DEF UserQueuesMatch
  <2> QED  BY <1>13, <2>1, <2>2, ReplyFacts, UserLeaves DEF EndDock, ReleaseUser
<1>14. ASSUME NEW t \in Tasks, ReportDegraded(t) PROVE UserQueuesMatch'
  <2>1. req[t].user \in Users /\ Holds(t, userLock[req[t].user])
    BY <1>14, RequestFields DEF ReportDegraded
  <2> QED  BY <1>14, <2>1, ReplyFacts, UserLeaves DEF ReportDegraded, ReleaseUser
<1>15. CASE UNCHANGED <<locks, tasks>>
  BY <1>15 DEF locks, tasks, UserQueuesMatch
<1>16. TreatBegin \/ (\E v \in Vehicles : TreatOne(v)) \/ (\E u \in Users : UpgradeUser(u))
         => UNCHANGED <<locks, tasks>>
  BY DEF TreatBegin, TreatOne, UpgradeUser
<1>17. UNCHANGED vars => UNCHANGED <<locks, tasks>>
  BY DEF vars
<1> QED
  BY <1>1, <1>2, <1>3, <1>4, <1>5, <1>6, <1>7, <1>8, <1>9, <1>10, <1>11, <1>12, <1>13,
     <1>14, <1>15, <1>16, <1>17 DEF Next, Arrival, Step

-----------------------------------------------------------------------------
(* No step loses or leaks a station's lock.                                 *)

LEMMA StationQueuesStep ==
  ASSUME TypeOK, LocksMatchRequests, [Next]_vars
  PROVE  StationQueuesMatch'
<1> USE DEF TypeOK, LocksMatchRequests
<1> USE DEF UserPCs, StationOwnerPCs, StationPCs
<1>1. ASSUME NEW t \in Tasks, NEW u \in Users, NEW l \in Locations, AcceptStart(t, u, l)
      PROVE  StationQueuesMatch'
  <2>1. OthersKeep(t) /\ pc[t] = "idle" /\ pc'[t] = "start.user"
    BY <1>1, AcceptFacts DEF AcceptStart
  <2> QED  BY <1>1, <2>1, StationStays DEF AcceptStart
<1>2. ASSUME NEW t \in Tasks, NEW u \in Users, NEW s \in Stations, AcceptByStation(t, u, s)
      PROVE  StationQueuesMatch'
  <2>1. /\ OthersKeep(t) /\ pc[t] = "idle" /\ pc'[t] = "station.station"
        /\ req'[t] = [NoReq EXCEPT !.user = u, !.station = s]
    BY <1>2, AcceptFacts DEF AcceptByStation
  <2>2. req'[t].station = s
    BY <2>1 DEF NoReq
  <2> QED  BY <1>2, <2>1, <2>2, StationJoins DEF AcceptByStation, AcquireStation
<1>3. ASSUME NEW t \in Tasks, NEW u \in Users, NEW v \in Vehicles, AcceptByVehicle(t, u, v)
      PROVE  StationQueuesMatch'
  <2>1. /\ OthersKeep(t) /\ pc[t] = "idle" /\ pc'[t] = "vehicle.station"
        /\ req'[t] = [NoReq EXCEPT !.user = u, !.station = stationOf[v], !.vehicle = v]
    BY <1>3, AcceptFacts DEF AcceptByVehicle
  <2>2. req'[t].station = stationOf[v]
    BY <2>1 DEF NoReq
  <2>3. stationOf[v] \in Stations
    BY <1>3 DEF AcceptByVehicle, FleetTyped
  <2> QED  BY <1>3, <2>1, <2>2, <2>3, StationJoins DEF AcceptByVehicle, AcquireStation
<1>4. ASSUME NEW t \in Tasks, NEW r \in Rides, NEW l \in Locations, AcceptEnd(t, r, l)
      PROVE  StationQueuesMatch'
  <2>1. OthersKeep(t) /\ pc[t] = "idle" /\ pc'[t] = "end.user"
    BY <1>4, AcceptFacts DEF AcceptEnd
  <2> QED  BY <1>4, <2>1, StationStays DEF AcceptEnd
<1>5. ASSUME NEW t \in Tasks, NEW u \in Users, NEW v \in Vehicles, AcceptReport(t, u, v)
      PROVE  StationQueuesMatch'
  <2>1. OthersKeep(t) /\ pc[t] = "idle" /\ pc'[t] = "report.user"
    BY <1>5, AcceptFacts DEF AcceptReport
  <2> QED  BY <1>5, <2>1, StationStays DEF AcceptReport
<1>6. ASSUME NEW t \in Tasks, StartChooseStation(t) PROVE StationQueuesMatch'
  <2>1. pc[t] = "start.user"
    BY <1>6 DEF StartChooseStation
  <2>2. CASE Reply(t) /\ UNCHANGED stationLock
    BY <2>1, <2>2, ReplyFacts, StationStays
  <2>3. ASSUME NEW s \in Stations, req' = [req EXCEPT ![t].station = s],
               AcquireStation(t, s), GoTo(t, "start.station")
        PROVE  StationQueuesMatch'
    <3>1. OthersKeep(t) /\ pc'[t] = "start.station" /\ req'[t].station = s
      BY <2>3, GoToFacts DEF RequestsTyped
    <3> QED  BY <2>1, <2>3, <3>1, StationJoins DEF AcquireStation
  <2> QED  BY <1>6, <2>2, <2>3 DEF StartChooseStation, Nearest, StationsWithEligible
<1>7. ASSUME NEW t \in Tasks, StartCheckout(t) PROVE StationQueuesMatch'
  <2>1. req[t].station \in Stations /\ Holds(t, stationLock[req[t].station])
    BY <1>7, RequestFields DEF StartCheckout
  <2> QED  BY <1>7, <2>1, ReplyFacts, StationLeaves DEF StartCheckout, ReleaseStation
<1>8. ASSUME NEW t \in Tasks, AwaitUser(t) PROVE StationQueuesMatch'
  <2>1. /\ pc[t] \in {"station.station", "vehicle.station"}
        /\ pc'[t] \in {"station.user", "vehicle.user"} /\ OthersKeep(t) /\ req' = req
        /\ Holds(t, stationLock[req[t].station])
    BY <1>8, GoToFacts DEF AwaitUser
  <2> QED  BY <1>8, <2>1, StationStays DEF AwaitUser
<1>9. ASSUME NEW t \in Tasks, ByStationRide(t) PROVE StationQueuesMatch'
  <2>1. pc[t] = "station.user" /\ req[t].station \in Stations
    BY <1>9, RequestFields DEF ByStationRide
  <2>2. Holds(t, stationLock[req[t].station])
    BY <2>1 DEF StationQueuesMatch
  <2> QED  BY <1>9, <2>1, <2>2, ReplyFacts, StationLeaves DEF ByStationRide, ReleaseStation
<1>10. ASSUME NEW t \in Tasks, ByVehicleRide(t) PROVE StationQueuesMatch'
  <2>1. pc[t] = "vehicle.user" /\ req[t].station \in Stations
    BY <1>10, RequestFields DEF ByVehicleRide
  <2>2. Holds(t, stationLock[req[t].station])
    BY <2>1 DEF StationQueuesMatch
  <2> QED  BY <1>10, <2>1, <2>2, ReplyFacts, StationLeaves DEF ByVehicleRide, ReleaseStation
<1>11. ASSUME NEW t \in Tasks, EndRide(t) PROVE StationQueuesMatch'
  <2>1. pc[t] = "end.user"
    BY <1>11 DEF EndRide
  <2>2. CASE Reply(t)
    BY <1>11, <2>1, <2>2, ReplyFacts, StationStays DEF EndRide
  <2>3. CASE /\ \E s \in Stations : req' = [req EXCEPT ![t].station = s]
             /\ GoTo(t, "end.charge")
    <3>1. OthersKeep(t) /\ pc'[t] = "end.charge"
      BY <2>3, GoToFacts DEF RequestsTyped
    <3> QED  BY <1>11, <2>1, <3>1, StationStays DEF EndRide
  <2> QED  BY <1>11, <2>2, <2>3 DEF EndRide, Nearest, StationsWithSlot
<1>12. ASSUME NEW t \in Tasks, EndCharged(t) PROVE StationQueuesMatch'
  <2>1. pc[t] = "end.charge" /\ req[t].station \in Stations
    BY <1>12, RequestFields DEF EndCharged
  <2>2. CASE Reply(t) /\ UNCHANGED stationLock
    BY <2>1, <2>2, ReplyFacts, StationStays
  <2>3. CASE /\ AcquireStation(t, req[t].station)
             /\ GoTo(t, "end.dock") /\ UNCHANGED req
    <3>1. OthersKeep(t) /\ pc'[t] = "end.dock"
      BY <2>3, GoToFacts
    <3> QED  BY <2>1, <2>3, <3>1, StationJoins DEF AcquireStation
  <2> QED  BY <1>12, <2>2, <2>3 DEF EndCharged
<1>13. ASSUME NEW t \in Tasks, EndDock(t) PROVE StationQueuesMatch'
  <2>1. req[t].station \in Stations /\ Holds(t, stationLock[req[t].station])
    BY <1>13, RequestFields DEF EndDock
  <2> QED  BY <1>13, <2>1, ReplyFacts, StationLeaves DEF EndDock, ReleaseStation
<1>14. ASSUME NEW t \in Tasks, ReportDegraded(t) PROVE StationQueuesMatch'
  <2>1. pc[t] = "report.user"
    BY <1>14 DEF ReportDegraded
  <2> QED  BY <1>14, <2>1, ReplyFacts, StationStays DEF ReportDegraded
<1>15. CASE UNCHANGED <<locks, tasks>>
  BY <1>15 DEF locks, tasks, StationQueuesMatch
<1>16. TreatBegin \/ (\E v \in Vehicles : TreatOne(v)) \/ (\E u \in Users : UpgradeUser(u))
         => UNCHANGED <<locks, tasks>>
  BY DEF TreatBegin, TreatOne, UpgradeUser
<1>17. UNCHANGED vars => UNCHANGED <<locks, tasks>>
  BY DEF vars
<1> QED
  BY <1>1, <1>2, <1>3, <1>4, <1>5, <1>6, <1>7, <1>8, <1>9, <1>10, <1>11, <1>12, <1>13,
     <1>14, <1>15, <1>16, <1>17 DEF Next, Arrival, Step

-----------------------------------------------------------------------------
(* No step takes the fleet out of its type.                                 *)

LEMMA CheckoutTyped ==
  ASSUME FleetTyped, NEW s, NEW v, Checkout(s, v)
  PROVE  /\ docked' \in [Stations -> SUBSET Vehicles]
         /\ stationOf' \in [Vehicles -> Stations \cup {None}]
BY DEF FleetTyped, Checkout

LEMMA DockTyped ==
  ASSUME FleetTyped, NEW s \in Stations, NEW v \in Vehicles, Dock(s, v)
  PROVE  /\ docked' \in [Stations -> SUBSET Vehicles]
         /\ stationOf' \in [Vehicles -> Stations \cup {None}]
BY DEF FleetTyped, Dock

LEMMA RelocateTyped ==
  ASSUME FleetTyped, NEW v \in Vehicles, Relocate(v)
  PROVE  /\ docked' \in [Stations -> SUBSET Vehicles]
         /\ stationOf' \in [Vehicles -> Stations \cup {None}]
BY DEF FleetTyped, Relocate

\* The vehicle of a ride that is being ended is a vehicle of the fleet.
LEMMA EndedRide ==
  ASSUME TypeOK, NEW t \in Tasks, pc[t] \in {"end.user", "end.charge", "end.dock"}
  PROVE  /\ req[t].ride \in Rides /\ ride[req[t].ride].status # "none"
         /\ ride[req[t].ride].user \in Users /\ ride[req[t].ride].vehicle \in Vehicles
BY DEF TypeOK, BooksTyped, RequestsTyped, RequestTyped

LEMMA FleetTypedStep ==
  ASSUME TypeOK, [Next]_vars
  PROVE  FleetTyped'
<1>0. FleetTyped
  BY DEF TypeOK
<1>1. CASE UNCHANGED <<fleet, toTreat>>
  BY <1>0, <1>1 DEF FleetTyped, fleet
<1>2. ASSUME NEW t \in Tasks, StartCheckout(t) PROVE FleetTyped'
  <2>1. CASE UNCHANGED fleet
    BY <1>1, <1>2, <2>1 DEF StartCheckout
  <2>2. ASSUME NEW s, NEW v, Checkout(s, v), status' = [status EXCEPT ![v] = "in_use"],
               UNCHANGED <<ridesSince, vehicleRepo, degraded, events>>
        PROVE  FleetTyped'
    BY <1>0, <1>2, <2>2, CheckoutTyped DEF StartCheckout, FleetTyped
  <2> QED  BY <1>2, <2>1, <2>2 DEF StartCheckout
<1>3. ASSUME NEW t \in Tasks, ByStationRide(t) PROVE FleetTyped'
  <2>1. CASE UNCHANGED fleet
    BY <1>1, <1>3, <2>1 DEF ByStationRide
  <2>2. ASSUME NEW s, NEW v, Checkout(s, v), status' = [status EXCEPT ![v] = "in_use"],
               UNCHANGED <<ridesSince, vehicleRepo, degraded, events>>
        PROVE  FleetTyped'
    BY <1>0, <1>3, <2>2, CheckoutTyped DEF ByStationRide, FleetTyped
  <2> QED  BY <1>3, <2>1, <2>2 DEF ByStationRide
<1>4. ASSUME NEW t \in Tasks, ByVehicleRide(t) PROVE FleetTyped'
  <2>1. CASE UNCHANGED fleet
    BY <1>1, <1>4, <2>1 DEF ByVehicleRide
  <2>2. ASSUME NEW s, NEW v, Checkout(s, v),
               UNCHANGED <<status, ridesSince, vehicleRepo, degraded, events>>
        PROVE  FleetTyped'
    BY <1>0, <1>4, <2>2, CheckoutTyped DEF ByVehicleRide, FleetTyped
  <2> QED  BY <1>4, <2>1, <2>2 DEF ByVehicleRide
<1>5. ASSUME NEW t \in Tasks, EndDock(t) PROVE FleetTyped'
  <2>1. CASE UNCHANGED fleet
    BY <1>1, <1>5, <2>1 DEF EndDock
  <2>2. /\ ride[req[t].ride].vehicle \in Vehicles
        /\ req[t].station \in Stations
    BY <1>5, EndedRide DEF EndDock, TypeOK, RequestsTyped, RequestTyped, StationPCs
  <2>3. ASSUME NEW s \in Stations, NEW v \in Vehicles, Dock(s, v),
               status' = [status EXCEPT ![v] = "available"],
               ridesSince' = [ridesSince EXCEPT ![v] = @ + 1],
               UNCHANGED <<vehicleRepo, degraded, events>>
        PROVE  FleetTyped'
    <3>1. ridesSince' \in [Vehicles -> Nat]
      BY <1>0, <2>3 DEF FleetTyped
    <3> QED  BY <1>0, <1>5, <2>3, <3>1, DockTyped DEF EndDock, FleetTyped
  <2> QED  BY <1>5, <2>1, <2>2, <2>3 DEF EndDock, fleet
<1>6. ASSUME NEW t \in Tasks, ReportDegraded(t) PROVE FleetTyped'
  <2>1. CASE UNCHANGED fleet
    BY <1>1, <1>6, <2>1 DEF ReportDegraded
  <2>2. req[t].vehicle \in Vehicles
    BY <1>6 DEF ReportDegraded, TypeOK, RequestsTyped, RequestTyped
  <2>3. ASSUME NEW v \in Vehicles, status' = [status EXCEPT ![v] = "degraded"],
               vehicleRepo' = vehicleRepo \ {v}, degraded' = degraded \cup {v},
               UNCHANGED <<docked, stationOf, ridesSince, events>>
        PROVE  FleetTyped'
    BY <1>0, <1>6, <2>3 DEF ReportDegraded, FleetTyped
  <2> QED  BY <1>6, <2>1, <2>2, <2>3 DEF ReportDegraded
<1>7. CASE TreatBegin
  BY <1>0, <1>7 DEF TreatBegin, FleetTyped, fleet
<1>8. ASSUME NEW v \in Vehicles, TreatOne(v) PROVE FleetTyped'
  <2>1. /\ docked' \in [Stations -> SUBSET Vehicles]
        /\ stationOf' \in [Vehicles -> Stations \cup {None}]
    BY <1>0, <1>8, RelocateTyped DEF TreatOne, FleetTyped
  <2>2. events' \in [Vehicles -> Nat] /\ ridesSince' \in [Vehicles -> Nat]
    BY <1>0, <1>8 DEF TreatOne, FleetTyped
  <2> QED  BY <1>0, <1>8, <2>1, <2>2 DEF TreatOne, FleetTyped
<1>9. (\E t \in Tasks : Arrival(t)) \/ (\E u \in Users : UpgradeUser(u)) \/ UNCHANGED vars
        => UNCHANGED <<fleet, toTreat>>
  BY DEF Arrival, AcceptStart, AcceptByStation, AcceptByVehicle, AcceptEnd, AcceptReport,
         UpgradeUser, vars
<1>10. ASSUME NEW t \in Tasks,
              StartChooseStation(t) \/ AwaitUser(t) \/ EndRide(t) \/ EndCharged(t)
       PROVE  UNCHANGED <<fleet, toTreat>>
  BY <1>10 DEF StartChooseStation, AwaitUser, EndRide, EndCharged
<1> QED
  BY <1>1, <1>2, <1>3, <1>4, <1>5, <1>6, <1>7, <1>8, <1>9, <1>10 DEF Next, Step

-----------------------------------------------------------------------------
(* No step takes the books out of their type.                               *)

LEMMA BeginRideTyped ==
  ASSUME BooksTyped, NEW u \in Users, NEW v \in Vehicles, BeginRide(u, v), UNCHANGED pro
  PROVE  BooksTyped'
BY DEF BooksTyped, BeginRide

LEMMA CompleteRideTyped ==
  ASSUME BooksTyped, NEW r \in Rides, NEW fee \in Nat, CompleteRide(r, fee),
         ride[r].status # "none"
  PROVE  /\ ride' \in [Rides -> [status : {"none", "active", "completed"},
                                user : Users \cup {None},
                                vehicle : Vehicles \cup {None}, fee : Nat]]
         /\ \A q \in Rides : ride'[q].status # "none" =>
              ride'[q].user \in Users /\ ride'[q].vehicle \in Vehicles
BY DEF BooksTyped, CompleteRide

LEMMA BooksTypedStep ==
  ASSUME TypeOK, [Next]_vars
  PROVE  BooksTyped'
<1>0. BooksTyped
  BY DEF TypeOK
<1>1. CASE UNCHANGED <<books, pro>>
  BY <1>0, <1>1 DEF BooksTyped, books
<1>2. ASSUME NEW t \in Tasks, StartCheckout(t) PROVE BooksTyped'
  <2>1. CASE UNCHANGED books
    BY <1>1, <1>2, <2>1 DEF StartCheckout
  <2>2. req[t].user \in Users /\ Eligible(req[t].station) \subseteq Vehicles
    BY <1>2, RequestFields DEF StartCheckout, StationPCs, UserPCs, TypeOK, FleetTyped, Eligible
  <2> QED  BY <1>0, <1>2, <2>1, <2>2, BeginRideTyped DEF StartCheckout, Preferred
<1>3. ASSUME NEW t \in Tasks, ByStationRide(t) PROVE BooksTyped'
  <2>1. CASE UNCHANGED books
    BY <1>1, <1>3, <2>1 DEF ByStationRide
  <2>2. req[t].user \in Users /\ docked[req[t].station] \subseteq Vehicles
    BY <1>3, RequestFields DEF ByStationRide, StationPCs, UserPCs, TypeOK, FleetTyped
  <2> QED  BY <1>0, <1>3, <2>1, <2>2, BeginRideTyped DEF ByStationRide
<1>4. ASSUME NEW t \in Tasks, ByVehicleRide(t) PROVE BooksTyped'
  <2>1. CASE UNCHANGED books
    BY <1>1, <1>4, <2>1 DEF ByVehicleRide
  <2>2. req[t].user \in Users /\ req[t].vehicle \in Vehicles
    BY <1>4 DEF ByVehicleRide, TypeOK, RequestsTyped, RequestTyped
  <2> QED  BY <1>0, <1>4, <2>1, <2>2, BeginRideTyped DEF ByVehicleRide
<1>5. ASSUME NEW t \in Tasks, EndRide(t) PROVE BooksTyped'
  <2>1. CASE UNCHANGED books
    BY <1>1, <1>5, <2>1 DEF EndRide
  <2>2. CASE CompleteRide(req[t].ride, RideFee) /\ UNCHANGED <<activeRide, charged>>
    <3>1. req[t].ride \in Rides /\ ride[req[t].ride].status # "none" /\ RideFee \in Nat
      BY <1>5, EndedRide DEF EndRide, RideFee
    <3> QED  BY <1>0, <1>5, <2>2, <3>1, CompleteRideTyped DEF EndRide, BooksTyped
  <2> QED  BY <1>5, <2>1, <2>2 DEF EndRide
<1>6. ASSUME NEW t \in Tasks, EndCharged(t) PROVE BooksTyped'
  <2>1. charged' \in [Rides -> Nat]
    <3>1. req[t].ride \in Rides
      BY <1>6, EndedRide DEF EndCharged
    <3> QED  BY <1>0, <1>6, <3>1 DEF EndCharged, BooksTyped
  <2>2. activeRide' \in [Users -> Rides \cup {None}]
    BY <1>0, <1>6 DEF EndCharged, BooksTyped
  <2> QED  BY <1>0, <1>6, <2>1, <2>2 DEF EndCharged, BooksTyped
<1>7. ASSUME NEW t \in Tasks, EndDock(t) PROVE BooksTyped'
  <2>1. activeRide' \in [Users -> Rides \cup {None}]
    BY <1>0, <1>7 DEF EndDock, BooksTyped
  <2> QED  BY <1>0, <1>7, <2>1 DEF EndDock, BooksTyped
<1>8. ASSUME NEW t \in Tasks, ReportDegraded(t) PROVE BooksTyped'
  <2>1. CASE UNCHANGED books
    BY <1>1, <1>8, <2>1 DEF ReportDegraded
  <2>2. ASSUME NEW r \in ActiveRides(req[t].user), CompleteRide(r, 0),
               activeRide' = [activeRide EXCEPT ![req[t].user] = None], UNCHANGED charged
        PROVE  BooksTyped'
    <3>1. r \in Rides /\ ride[r].status # "none"
      BY <2>2 DEF ActiveRides
    <3> QED  BY <1>0, <1>8, <2>2, <3>1, CompleteRideTyped DEF ReportDegraded, BooksTyped
  <2> QED  BY <1>8, <2>1, <2>2 DEF ReportDegraded
<1>9. CASE \E u \in Users : UpgradeUser(u)
  BY <1>0, <1>9 DEF UpgradeUser, BooksTyped, books
<1>10. ASSUME NEW t \in Tasks, Arrival(t) \/ StartChooseStation(t) \/ AwaitUser(t)
       PROVE  UNCHANGED <<books, pro>>
  BY <1>10 DEF Arrival, AcceptStart, AcceptByStation, AcceptByVehicle, AcceptEnd,
              AcceptReport, StartChooseStation, AwaitUser
<1>11. TreatBegin \/ (\E v \in Vehicles : TreatOne(v)) \/ UNCHANGED vars
         => UNCHANGED <<books, pro>>
  BY DEF TreatBegin, TreatOne, vars
<1> QED
  BY <1>1, <1>2, <1>3, <1>4, <1>5, <1>6, <1>7, <1>8, <1>9, <1>10, <1>11 DEF Next, Step

-----------------------------------------------------------------------------
(* No step takes a request out of its type.                                 *)

ReqType == [user : Users \cup {None}, ride : Rides \cup {None},
            station : Stations \cup {None}, vehicle : Vehicles \cup {None},
            loc : Locations \cup {None}]

\* An action types the requests if it types the one it moves.
LEMMA RequestMoves ==
  ASSUME TypeOK, NEW t \in Tasks, OthersKeep(t), BooksTyped',
         \A r \in Rides : ride[r].status # "none" => ride'[r].status # "none",
         pc' \in [Tasks -> PCs], req' \in [Tasks -> ReqType], RequestTyped(t)',
         userLock' \in [Users -> Seq(Tasks)], stationLock' \in [Stations -> Seq(Tasks)],
         loop' \in Tasks \cup {None}
  PROVE  RequestsTyped'
<1>1. ASSUME NEW x \in Tasks \ {t} PROVE RequestTyped(x)'
  BY <1>1 DEF TypeOK, RequestsTyped, RequestTyped, OthersKeep
<1> QED  BY <1>1 DEF RequestsTyped, ReqType

LEMMA AcquireTyped ==
  ASSUME RequestsTyped, NEW t \in Tasks
  PROVE  /\ \A u \in Users : AcquireUser(t, u) =>
              userLock' \in [Users -> Seq(Tasks)] /\ loop' \in Tasks \cup {None}
         /\ \A s \in Stations : AcquireStation(t, s) =>
              stationLock' \in [Stations -> Seq(Tasks)] /\ loop' \in Tasks \cup {None}
<1>1. ASSUME NEW u \in Users, AcquireUser(t, u)
      PROVE  userLock' \in [Users -> Seq(Tasks)] /\ loop' \in Tasks \cup {None}
  <2>1. Append(userLock[u], t) \in Seq(Tasks)
    BY DEF RequestsTyped
  <2> QED  BY <1>1, <2>1 DEF RequestsTyped, AcquireUser, KeepLoopIf
<1>2. ASSUME NEW s \in Stations, AcquireStation(t, s)
      PROVE  stationLock' \in [Stations -> Seq(Tasks)] /\ loop' \in Tasks \cup {None}
  <2>1. Append(stationLock[s], t) \in Seq(Tasks)
    BY DEF RequestsTyped
  <2> QED  BY <1>2, <2>1 DEF RequestsTyped, AcquireStation, KeepLoopIf
<1> QED  BY <1>1, <1>2

LEMMA ReleaseTyped ==
  ASSUME RequestsTyped, NEW t \in Tasks
  PROVE  /\ \A u \in Users : ReleaseUser(u) /\ Holds(t, userLock[u]) =>
              userLock' \in [Users -> Seq(Tasks)]
         /\ \A s \in Stations : ReleaseStation(s) /\ Holds(t, stationLock[s]) =>
              stationLock' \in [Stations -> Seq(Tasks)]
<1>1. ASSUME NEW u \in Users, ReleaseUser(u), Holds(t, userLock[u])
      PROVE  userLock' \in [Users -> Seq(Tasks)]
  <2>1. Tail(userLock[u]) \in Seq(Tasks)
    BY <1>1 DEF RequestsTyped, Holds
  <2> QED  BY <1>1, <2>1 DEF RequestsTyped, ReleaseUser
<1>2. ASSUME NEW s \in Stations, ReleaseStation(s), Holds(t, stationLock[s])
      PROVE  stationLock' \in [Stations -> Seq(Tasks)]
  <2>1. Tail(stationLock[s]) \in Seq(Tasks)
    BY <1>2 DEF RequestsTyped, Holds
  <2> QED  BY <1>2, <2>1 DEF RequestsTyped, ReleaseStation
<1> QED  BY <1>1, <1>2

LEMMA ReplyTyped ==
  ASSUME RequestsTyped, NEW t \in Tasks, Reply(t)
  PROVE  /\ pc' \in [Tasks -> PCs] /\ req' \in [Tasks -> ReqType]
         /\ RequestTyped(t)' /\ loop' \in Tasks \cup {None} /\ OthersKeep(t)
<1>1. pc'[t] = "idle" /\ OthersKeep(t)
  BY ReplyFacts
<1>2. NoReq \in ReqType
  BY DEF NoReq, ReqType
<1>3. pc' \in [Tasks -> PCs] /\ req' \in [Tasks -> ReqType]
  BY <1>2 DEF RequestsTyped, Reply, PCs, ReqType
<1>4. RequestTyped(t)'
  BY <1>1 DEF RequestTyped, StationPCs
<1> QED  BY <1>1, <1>3, <1>4 DEF Reply

\* A stored ride stays stored.
LEMMA RidesKept ==
  ASSUME TypeOK, [Next]_vars
  PROVE  \A r \in Rides : ride[r].status # "none" => ride'[r].status # "none"
<1>1. ASSUME NEW u, NEW v, BeginRide(u, v)
      PROVE  \A r \in Rides : ride[r].status # "none" => ride'[r].status # "none"
  BY <1>1 DEF TypeOK, BooksTyped, BeginRide
<1>2. ASSUME NEW q, NEW fee, CompleteRide(q, fee)
      PROVE  \A r \in Rides : ride[r].status # "none" => ride'[r].status # "none"
  BY <1>2 DEF TypeOK, BooksTyped, CompleteRide
<1>3. ASSUME NEW t \in Tasks, Step(t), ~ UNCHANGED ride
      PROVE  (\E u, v : BeginRide(u, v)) \/ (\E q, fee : CompleteRide(q, fee))
  BY <1>3 DEF Step, StartChooseStation, StartCheckout, AwaitUser, ByStationRide,
              ByVehicleRide, EndRide, EndCharged, EndDock, ReportDegraded, books
<1>4. (\E t \in Tasks : Arrival(t)) \/ TreatBegin \/ (\E v \in Vehicles : TreatOne(v))
        \/ (\E u \in Users : UpgradeUser(u)) \/ UNCHANGED vars => UNCHANGED ride
  BY DEF Arrival, AcceptStart, AcceptByStation, AcceptByVehicle, AcceptEnd,
         AcceptReport, TreatBegin, TreatOne, UpgradeUser, vars, books
<1> QED  BY <1>1, <1>2, <1>3, <1>4 DEF Next

LEMMA AcceptTyped ==
  ASSUME RequestsTyped, NEW t \in Tasks, NEW e, NEW w \in PCs, NEW q \in ReqType,
         Accept(t, e, w, q)
  PROVE  /\ pc' \in [Tasks -> PCs] /\ req' \in [Tasks -> ReqType] /\ OthersKeep(t)
         /\ pc'[t] = w /\ req'[t] = q
<1>1. OthersKeep(t) /\ pc'[t] = w /\ req'[t] = q
  BY AcceptFacts
<1>2. pc' \in [Tasks -> PCs] /\ req' \in [Tasks -> ReqType]
  BY DEF RequestsTyped, Accept, ReqType
<1> QED  BY <1>1, <1>2

LEMMA RequestsTypedStep ==
  ASSUME TypeOK, LocksMatchRequests, [Next]_vars
  PROVE  RequestsTyped'
<1> USE DEF UserPCs, StationPCs, UserOwnerPCs, StationOwnerPCs, PCs
<1>0. /\ RequestsTyped /\ BooksTyped /\ BooksTyped'
      /\ \A r \in Rides : ride[r].status # "none" => ride'[r].status # "none"
  BY BooksTypedStep, RidesKept DEF TypeOK
<1>1. ASSUME NEW t \in Tasks, NEW u \in Users, NEW l \in Locations, AcceptStart(t, u, l)
      PROVE  RequestsTyped'
  <2>1. u \in Users /\ l \in Locations
    BY <1>1 DEF AcceptStart, TypeOK, FleetTyped, BooksTyped
  <2>2. [NoReq EXCEPT !.user = u, !.loc = l] \in ReqType
    BY <2>1 DEF NoReq, ReqType
  <2>3. /\ pc' \in [Tasks -> PCs] /\ req' \in [Tasks -> ReqType] /\ OthersKeep(t)
        /\ pc'[t] = "start.user" /\ req'[t] = [NoReq EXCEPT !.user = u, !.loc = l]
    BY <1>0, <1>1, <2>2, AcceptTyped DEF AcceptStart
  <2>4. RequestTyped(t)'
    BY <1>0, <1>1, <2>1, <2>3 DEF RequestTyped, NoReq, AcceptStart
  <2> QED
    BY <1>0, <1>1, <2>1, <2>3, <2>4, RequestMoves, AcquireTyped DEF AcceptStart, RequestsTyped
<1>2. ASSUME NEW t \in Tasks, NEW u \in Users, NEW s \in Stations, AcceptByStation(t, u, s)
      PROVE  RequestsTyped'
  <2>1. u \in Users /\ s \in Stations
    BY <1>2 DEF AcceptByStation, TypeOK, FleetTyped, BooksTyped
  <2>2. [NoReq EXCEPT !.user = u, !.station = s] \in ReqType
    BY <2>1 DEF NoReq, ReqType
  <2>3. /\ pc' \in [Tasks -> PCs] /\ req' \in [Tasks -> ReqType] /\ OthersKeep(t)
        /\ pc'[t] = "station.station" /\ req'[t] = [NoReq EXCEPT !.user = u, !.station = s]
    BY <1>0, <1>2, <2>2, AcceptTyped DEF AcceptByStation
  <2>4. RequestTyped(t)'
    BY <1>0, <1>2, <2>1, <2>3 DEF RequestTyped, NoReq, AcceptByStation
  <2> QED
    BY <1>0, <1>2, <2>1, <2>3, <2>4, RequestMoves, AcquireTyped DEF AcceptByStation, RequestsTyped
<1>3. ASSUME NEW t \in Tasks, NEW u \in Users, NEW v \in Vehicles, AcceptByVehicle(t, u, v)
      PROVE  RequestsTyped'
  <2>1. stationOf[v] \in Stations
    BY <1>3 DEF AcceptByVehicle, TypeOK, FleetTyped, BooksTyped
  <2>2. [NoReq EXCEPT !.user = u, !.station = stationOf[v], !.vehicle = v] \in ReqType
    BY <2>1 DEF NoReq, ReqType
  <2>3. /\ pc' \in [Tasks -> PCs] /\ req' \in [Tasks -> ReqType] /\ OthersKeep(t)
        /\ pc'[t] = "vehicle.station" /\ req'[t] = [NoReq EXCEPT !.user = u, !.station = stationOf[v], !.vehicle = v]
    BY <1>0, <1>3, <2>2, AcceptTyped DEF AcceptByVehicle
  <2>4. RequestTyped(t)'
    BY <1>0, <1>3, <2>1, <2>3 DEF RequestTyped, NoReq, AcceptByVehicle
  <2> QED
    BY <1>0, <1>3, <2>1, <2>3, <2>4, RequestMoves, AcquireTyped DEF AcceptByVehicle, RequestsTyped
<1>4. ASSUME NEW t \in Tasks, NEW r \in Rides, NEW l \in Locations, AcceptEnd(t, r, l)
      PROVE  RequestsTyped'
  <2>1. ride[r].user \in Users /\ ride[r].status # "none"
    BY <1>4 DEF AcceptEnd, TypeOK, FleetTyped, BooksTyped
  <2>2. [NoReq EXCEPT !.user = ride[r].user, !.ride = r, !.loc = l] \in ReqType
    BY <2>1 DEF NoReq, ReqType
  <2>3. /\ pc' \in [Tasks -> PCs] /\ req' \in [Tasks -> ReqType] /\ OthersKeep(t)
        /\ pc'[t] = "end.user" /\ req'[t] = [NoReq EXCEPT !.user = ride[r].user, !.ride = r, !.loc = l]
    BY <1>0, <1>4, <2>2, AcceptTyped DEF AcceptEnd
  <2>4. RequestTyped(t)'
    BY <1>0, <1>4, <2>1, <2>3 DEF RequestTyped, NoReq, AcceptEnd
  <2> QED
    BY <1>0, <1>4, <2>1, <2>3, <2>4, RequestMoves, AcquireTyped DEF AcceptEnd, RequestsTyped
<1>5. ASSUME NEW t \in Tasks, NEW u \in Users, NEW v \in Vehicles, AcceptReport(t, u, v)
      PROVE  RequestsTyped'
  <2>1. u \in Users /\ v \in Vehicles
    BY <1>5 DEF AcceptReport, TypeOK, FleetTyped, BooksTyped
  <2>2. [NoReq EXCEPT !.user = u, !.vehicle = v] \in ReqType
    BY <2>1 DEF NoReq, ReqType
  <2>3. /\ pc' \in [Tasks -> PCs] /\ req' \in [Tasks -> ReqType] /\ OthersKeep(t)
        /\ pc'[t] = "report.user" /\ req'[t] = [NoReq EXCEPT !.user = u, !.vehicle = v]
    BY <1>0, <1>5, <2>2, AcceptTyped DEF AcceptReport
  <2>4. RequestTyped(t)'
    BY <1>0, <1>5, <2>1, <2>3 DEF RequestTyped, NoReq, AcceptReport
  <2> QED
    BY <1>0, <1>5, <2>1, <2>3, <2>4, RequestMoves, AcquireTyped DEF AcceptReport, RequestsTyped
<1>6. ASSUME NEW t \in Tasks, StartChooseStation(t) PROVE RequestsTyped'
  <2>1. /\ pc[t] = "start.user" /\ req[t].user \in Users
        /\ Holds(t, userLock[req[t].user])
    BY <1>0, <1>6, RequestFields DEF StartChooseStation
  <2>2. CASE ReleaseUser(req[t].user) /\ Reply(t) /\ UNCHANGED stationLock
    <3>1. userLock' \in [Users -> Seq(Tasks)]
      BY <1>0, <2>1, <2>2, ReleaseTyped
    <3> QED  BY <1>0, <2>2, <3>1, ReplyTyped, RequestMoves DEF RequestsTyped
  <2>3. ASSUME NEW s \in Stations, req' = [req EXCEPT ![t].station = s],
               AcquireStation(t, s), GoTo(t, "start.station"), UNCHANGED userLock
        PROVE  RequestsTyped'
    <3>1. pc' \in [Tasks -> PCs] /\ req' \in [Tasks -> ReqType]
      BY <1>0, <2>3 DEF RequestsTyped, ReqType, GoTo
    <3>2. OthersKeep(t) /\ pc'[t] = "start.station"
      BY <1>0, <2>3, GoToFacts DEF RequestsTyped
    <3>3. req'[t].station = s /\ req'[t].user = req[t].user
      BY <1>0, <2>3 DEF RequestsTyped
    <3>4. RequestTyped(t)'
      BY <2>1, <3>2, <3>3 DEF RequestTyped
    <3> QED
      BY <1>0, <2>3, <3>1, <3>2, <3>4, AcquireTyped, RequestMoves DEF RequestsTyped
  <2> QED  BY <1>6, <2>2, <2>3 DEF StartChooseStation, Nearest, StationsWithEligible
<1>7. ASSUME NEW t \in Tasks, StartCheckout(t) PROVE RequestsTyped'
  <2>1. req[t].user \in Users /\ req[t].station \in Stations
    BY <1>0, <1>7, RequestFields DEF StartCheckout
  <2>2. Holds(t, userLock[req[t].user]) /\ Holds(t, stationLock[req[t].station])
    BY <1>7 DEF StartCheckout, LocksMatchRequests, UserQueuesMatch, StationQueuesMatch
  <2>3. /\ userLock' \in [Users -> Seq(Tasks)]
        /\ stationLock' \in [Stations -> Seq(Tasks)]
    BY <1>0, <1>7, <2>1, <2>2, ReleaseTyped DEF StartCheckout, RequestsTyped
  <2> QED
    BY <1>0, <1>7, <2>3, ReplyTyped, RequestMoves DEF StartCheckout
<1>8. ASSUME NEW t \in Tasks, AwaitUser(t) PROVE RequestsTyped'
  <2>1. /\ pc[t] \in {"station.station", "vehicle.station"} /\ req[t].user \in Users
        /\ pc'[t] = IF pc[t] = "station.station" THEN "station.user" ELSE "vehicle.user"
        /\ OthersKeep(t) /\ req' = req /\ pc' \in [Tasks -> PCs]
    <3>1. pc[t] \in {"station.station", "vehicle.station"} /\ req[t].user \in Users
      BY <1>0, <1>8, RequestFields DEF AwaitUser
    <3>2. /\ OthersKeep(t) /\ req' = req
          /\ pc'[t] = IF pc[t] = "station.station" THEN "station.user" ELSE "vehicle.user"
      BY <1>0, <1>8, GoToFacts DEF AwaitUser
    <3>3. pc' \in [Tasks -> PCs]
      BY <1>0, <1>8 DEF AwaitUser, GoTo, RequestsTyped
    <3> QED  BY <3>1, <3>2, <3>3
  <2>2. RequestTyped(t)'
    BY <1>0, <2>1 DEF RequestTyped, RequestsTyped
  <2> QED
    BY <1>0, <1>8, <2>1, <2>2, AcquireTyped, RequestMoves DEF AwaitUser, RequestsTyped, ReqType
<1>9. ASSUME NEW t \in Tasks, ByStationRide(t) PROVE RequestsTyped'
  <2>1. req[t].user \in Users /\ req[t].station \in Stations
    BY <1>0, <1>9, RequestFields DEF ByStationRide
  <2>2. Holds(t, userLock[req[t].user]) /\ Holds(t, stationLock[req[t].station])
    BY <1>9 DEF ByStationRide, LocksMatchRequests, UserQueuesMatch, StationQueuesMatch
  <2>3. /\ userLock' \in [Users -> Seq(Tasks)]
        /\ stationLock' \in [Stations -> Seq(Tasks)]
    BY <1>0, <1>9, <2>1, <2>2, ReleaseTyped DEF ByStationRide, RequestsTyped
  <2> QED
    BY <1>0, <1>9, <2>3, ReplyTyped, RequestMoves DEF ByStationRide
<1>10. ASSUME NEW t \in Tasks, ByVehicleRide(t) PROVE RequestsTyped'
  <2>1. req[t].user \in Users /\ req[t].station \in Stations
    BY <1>0, <1>10, RequestFields DEF ByVehicleRide
  <2>2. Holds(t, userLock[req[t].user]) /\ Holds(t, stationLock[req[t].station])
    BY <1>10 DEF ByVehicleRide, LocksMatchRequests, UserQueuesMatch, StationQueuesMatch
  <2>3. /\ userLock' \in [Users -> Seq(Tasks)]
        /\ stationLock' \in [Stations -> Seq(Tasks)]
    BY <1>0, <1>10, <2>1, <2>2, ReleaseTyped DEF ByVehicleRide, RequestsTyped
  <2> QED
    BY <1>0, <1>10, <2>3, ReplyTyped, RequestMoves DEF ByVehicleRide
<1>11. ASSUME NEW t \in Tasks, EndRide(t) PROVE RequestsTyped'
  <2>1. /\ pc[t] = "end.user" /\ req[t].user \in Users /\ req[t].ride \in Rides
        /\ ride[req[t].ride].status # "none" /\ Holds(t, userLock[req[t].user])
    BY <1>0, <1>11, RequestFields, EndedRide DEF EndRide
  <2>2. CASE ReleaseUser(req[t].user) /\ Reply(t) /\ UNCHANGED stationLock
    <3>1. userLock' \in [Users -> Seq(Tasks)]
      BY <1>0, <2>1, <2>2, ReleaseTyped
    <3> QED  BY <1>0, <2>2, <3>1, ReplyTyped, RequestMoves DEF RequestsTyped
  <2>3. ASSUME NEW s \in Stations, req' = [req EXCEPT ![t].station = s],
               GoTo(t, "end.charge"), loop' = None, UNCHANGED <<userLock, stationLock>>
        PROVE  RequestsTyped'
    <3>1. pc' \in [Tasks -> PCs] /\ req' \in [Tasks -> ReqType]
      BY <1>0, <2>3 DEF RequestsTyped, ReqType, GoTo
    <3>2. OthersKeep(t) /\ pc'[t] = "end.charge"
      BY <1>0, <2>3, GoToFacts DEF RequestsTyped
    <3>3. req'[t].station = s /\ req'[t].user = req[t].user /\ req'[t].ride = req[t].ride
      BY <1>0, <2>3 DEF RequestsTyped
    <3>4. RequestTyped(t)'
      BY <1>0, <2>1, <3>2, <3>3 DEF RequestTyped
    <3> QED  BY <1>0, <2>3, <3>1, <3>2, <3>4, RequestMoves DEF RequestsTyped
  <2> QED  BY <1>11, <2>2, <2>3 DEF EndRide, Nearest, StationsWithSlot
<1>12. ASSUME NEW t \in Tasks, EndCharged(t) PROVE RequestsTyped'
  <2>1. /\ pc[t] = "end.charge" /\ req[t].user \in Users /\ req[t].station \in Stations
        /\ req[t].ride \in Rides /\ ride[req[t].ride].status # "none"
    BY <1>0, <1>12, RequestFields, EndedRide DEF EndCharged
  <2>2. Holds(t, userLock[req[t].user])
    BY <2>1 DEF LocksMatchRequests, UserQueuesMatch
  <2>3. CASE ReleaseUser(req[t].user) /\ Reply(t) /\ UNCHANGED stationLock
    <3>1. userLock' \in [Users -> Seq(Tasks)]
      BY <1>0, <2>1, <2>2, <2>3, ReleaseTyped
    <3> QED  BY <1>0, <2>3, <3>1, ReplyTyped, RequestMoves DEF RequestsTyped
  <2>4. CASE /\ AcquireStation(t, req[t].station) /\ GoTo(t, "end.dock")
             /\ UNCHANGED <<userLock, req>>
    <3>1. pc' \in [Tasks -> PCs] /\ req' \in [Tasks -> ReqType]
      BY <1>0, <2>4 DEF RequestsTyped, ReqType, GoTo
    <3>2. OthersKeep(t) /\ pc'[t] = "end.dock"
      BY <1>0, <2>4, GoToFacts DEF RequestsTyped
    <3>3. RequestTyped(t)'
      BY <1>0, <2>1, <2>4, <3>2 DEF RequestTyped
    <3> QED
      BY <1>0, <2>1, <2>4, <3>1, <3>2, <3>3, AcquireTyped, RequestMoves DEF RequestsTyped
  <2> QED  BY <1>12, <2>3, <2>4 DEF EndCharged
<1>13. ASSUME NEW t \in Tasks, EndDock(t) PROVE RequestsTyped'
  <2>1. req[t].user \in Users /\ req[t].station \in Stations
    BY <1>0, <1>13, RequestFields DEF EndDock
  <2>2. Holds(t, userLock[req[t].user]) /\ Holds(t, stationLock[req[t].station])
    BY <1>13 DEF EndDock, LocksMatchRequests, UserQueuesMatch, StationQueuesMatch
  <2>3. /\ userLock' \in [Users -> Seq(Tasks)]
        /\ stationLock' \in [Stations -> Seq(Tasks)]
    BY <1>0, <1>13, <2>1, <2>2, ReleaseTyped DEF EndDock, RequestsTyped
  <2> QED
    BY <1>0, <1>13, <2>3, ReplyTyped, RequestMoves DEF EndDock
<1>14. ASSUME NEW t \in Tasks, ReportDegraded(t) PROVE RequestsTyped'
  <2>1. req[t].user \in Users
    BY <1>0, <1>14, RequestFields DEF ReportDegraded
  <2>2. Holds(t, userLock[req[t].user])
    BY <1>14 DEF ReportDegraded, LocksMatchRequests, UserQueuesMatch, StationQueuesMatch
  <2>3. /\ userLock' \in [Users -> Seq(Tasks)]
        /\ stationLock' \in [Stations -> Seq(Tasks)]
    BY <1>0, <1>14, <2>1, <2>2, ReleaseTyped DEF ReportDegraded, RequestsTyped
  <2> QED
    BY <1>0, <1>14, <2>3, ReplyTyped, RequestMoves DEF ReportDegraded
<1>15. CASE UNCHANGED <<locks, tasks>>
  <2>1. \A t \in Tasks : RequestTyped(t)'
    BY <1>0, <1>15 DEF RequestsTyped, RequestTyped, tasks
  <2> QED  BY <1>0, <1>15, <2>1 DEF RequestsTyped, locks, tasks
<1>16. TreatBegin \/ (\E v \in Vehicles : TreatOne(v)) \/ (\E u \in Users : UpgradeUser(u))
         => UNCHANGED <<locks, tasks>>
  BY DEF TreatBegin, TreatOne, UpgradeUser
<1>17. UNCHANGED vars => UNCHANGED <<locks, tasks>>
  BY DEF vars
<1> QED
  BY <1>1, <1>2, <1>3, <1>4, <1>5, <1>6, <1>7, <1>8, <1>9, <1>10, <1>11, <1>12, <1>13,
     <1>14, <1>15, <1>16, <1>17 DEF Next, Arrival, Step

-----------------------------------------------------------------------------
(* The invariants.                                                          *)

LEMMA InitTyped == Init => TypeOK
<1> SUFFICES ASSUME Init PROVE TypeOK
  OBVIOUS
<1>1. FleetTyped
  <2>1. ridesSince \in [Vehicles -> Nat]
    BY FleetAssumption DEF Init
  <2> QED  BY <2>1 DEF Init, FleetTyped
<1>2. BooksTyped
  BY DEF Init, BooksTyped, NoRide
<1>3. RequestsTyped
  BY DEF Init, RequestsTyped, RequestTyped, NoReq, PCs, StationPCs
<1> QED  BY <1>1, <1>2, <1>3 DEF TypeOK

LEMMA InitLocks == Init => LocksMatchRequests
BY DEF Init, LocksMatchRequests, UserQueuesMatch, StationQueuesMatch, NoRepeat, InQueue,
       UserPCs, StationPCs, UserOwnerPCs, StationOwnerPCs

\* The types and the lock queues need each other: an owner may release because
\* it is at the head of the queue, and it is there because nobody else is past
\* the lock.
SafeLocks == TypeOK /\ LocksMatchRequests

LEMMA LocksStep ==
  ASSUME SafeLocks, [Next]_vars
  PROVE  SafeLocks'
<1>1. TypeOK /\ LocksMatchRequests
  BY DEF SafeLocks
<1>2. TypeOK'
  BY <1>1, FleetTypedStep, BooksTypedStep, RequestsTypedStep DEF TypeOK
<1>3. LocksMatchRequests'
  BY <1>1, UserQueuesStep, StationQueuesStep DEF LocksMatchRequests
<1> QED  BY <1>2, <1>3 DEF SafeLocks

\* Typing and lock ownership hold in every reachable state.
THEOREM LocksSafe == Spec => []SafeLocks
<1>1. Init => SafeLocks
  BY InitTyped, InitLocks DEF SafeLocks
<1>2. SafeLocks /\ [Next]_vars => SafeLocks'
  BY LocksStep
<1> QED  BY <1>1, <1>2, PTL DEF Spec

\* Every variable keeps its type: no handler resumes with a field it did not
\* look up.
THEOREM TypeCorrect == Spec => []TypeOK
<1>1. SafeLocks => TypeOK
  BY DEF SafeLocks
<1> QED  BY <1>1, LocksSafe, PTL

\* No error path of a handler leaks a lock, and no two requests are past the
\* same lock (rides_router.py:137, 206, 232, 350).
THEOREM LocksCorrect == Spec => []LocksMatchRequests
<1>1. SafeLocks => LocksMatchRequests
  BY DEF SafeLocks
<1> QED  BY <1>1, LocksSafe, PTL

-----------------------------------------------------------------------------
(* The books.                                                               *)

\* The user's lock protects the user's entry of the active users repository,
\* the lookups of the requests that wait for it, and the charge.
BookInv == SafeLocks /\ RideIndexConsistent /\ LookupsStillHold /\ ChargedOnce

EndPCs == {"end.charge", "end.dock"}

\* Whoever owns a user's lock is the only request past it.
LEMMA SoleOwner ==
  ASSUME SafeLocks, NEW t \in Tasks, NEW x \in Tasks, NEW u,
         Holds(t, userLock[u]), pc[x] \in UserOwnerPCs, req[x].user = u
  PROVE  x = t
BY DEF SafeLocks, LocksMatchRequests, UserQueuesMatch, Holds

\* Every owner of a user's lock, and every request granted it, is at its head.
LEMMA OwnerHolds ==
  ASSUME SafeLocks, NEW t \in Tasks, pc[t] \in UserOwnerPCs
  PROVE  Holds(t, userLock[req[t].user])
BY DEF SafeLocks, LocksMatchRequests, UserQueuesMatch

-----------------------------------------------------------------------------
(* Steps that leave the books alone.                                        *)

LEMMA QuietBooks ==
  ASSUME BookInv, NEW t \in Tasks, OthersKeep(t), UNCHANGED books,
         pc[t] \notin EndPCs, pc'[t] \notin EndPCs, LookupHolds(t)'
  PROVE  RideIndexConsistent' /\ LookupsStillHold' /\ ChargedOnce'
<1>0. ride' = ride /\ activeRide' = activeRide /\ charged' = charged
  BY DEF books
<1>1. ASSUME NEW x \in Tasks \ {t} PROVE LookupHolds(x)'
  BY <1>0 DEF OthersKeep, BookInv, LookupsStillHold, LookupHolds
<1>2. \A r \in Rides : Returning(r)' <=> Returning(r)
  BY DEF OthersKeep, Returning, EndPCs
<1>3. OpenRides' = OpenRides
  BY <1>0, <1>2 DEF OpenRides
<1>4. RideIndexConsistent'
  BY <1>0, <1>3 DEF BookInv, RideIndexConsistent
<1>5. ChargedOnce'
  BY <1>0 DEF BookInv, ChargedOnce
<1> QED  BY <1>1, <1>4, <1>5 DEF LookupsStillHold

LEMMA SameBooks ==
  ASSUME BookInv, UNCHANGED <<books, tasks>>
  PROVE  RideIndexConsistent' /\ LookupsStillHold' /\ ChargedOnce'
<1>0. ride' = ride /\ activeRide' = activeRide /\ charged' = charged /\ pc' = pc /\ req' = req
  BY DEF books, tasks
<1>1. LookupsStillHold'
  BY <1>0 DEF BookInv, LookupsStillHold, LookupHolds
<1>2. OpenRides' = OpenRides
  BY <1>0 DEF OpenRides, Returning
<1>3. RideIndexConsistent'
  BY <1>0, <1>2 DEF BookInv, RideIndexConsistent
<1>4. ChargedOnce'
  BY <1>0 DEF BookInv, ChargedOnce
<1> QED  BY <1>1, <1>3, <1>4

-----------------------------------------------------------------------------
(* A ride begins under the user's lock.                                     *)

LEMMA BeginBooks ==
  ASSUME BookInv, NEW t \in Tasks, OthersKeep(t), NEW u \in Users, NEW v \in Vehicles,
         Holds(t, userLock[u]), activeRide[u] = None, BeginRide(u, v),
         pc[t] \notin EndPCs, pc'[t] = "idle"
  PROVE  RideIndexConsistent' /\ LookupsStillHold' /\ ChargedOnce'
<1>0. /\ ride \in [Rides -> [status : {"none", "active", "completed"},
                             user : Users \cup {None},
                             vehicle : Vehicles \cup {None}, fee : Nat]]
      /\ activeRide \in [Users -> Rides \cup {None}]
      /\ \A r \in Rides : charged[r] \in Nat
      /\ \A r \in Rides : None # r
  BY NoneAssumption DEF BookInv, SafeLocks, TypeOK, BooksTyped
<1>1. PICK r \in Rides :
        /\ ride[r].status = "none"
        /\ ride' = [ride EXCEPT ![r] = [status |-> "active", user |-> u,
                                        vehicle |-> v, fee |-> 0]]
        /\ activeRide' = [activeRide EXCEPT ![u] = r]
        /\ charged' = charged
  BY DEF BeginRide
<1>2. /\ ride'[r] = [status |-> "active", user |-> u, vehicle |-> v, fee |-> 0]
      /\ \A q \in Rides \ {r} : ride'[q] = ride[q]
      /\ activeRide'[u] = r
      /\ \A w \in Users \ {u} : activeRide'[w] = activeRide[w]
  BY <1>0, <1>1
<1>3. \A q \in Rides : Returning(q)' => Returning(q) /\ q # r
  BY <1>1 DEF OthersKeep, Returning, EndPCs, BookInv, LookupsStillHold, LookupHolds
<1>4. \A q \in OpenRides' : q = r \/ (q \in OpenRides /\ q # r)
  BY <1>2, <1>3 DEF OpenRides
<1>5. RideIndexConsistent'
  <2>1. ASSUME NEW q \in OpenRides' PROVE activeRide'[ride'[q].user] = q
    <3>1. CASE q = r
      BY <1>2, <3>1
    <3>2. CASE q \in OpenRides /\ q # r
      <4>1. q \in Rides /\ activeRide[ride[q].user] = q
        BY <3>2 DEF BookInv, RideIndexConsistent, OpenRides
      <4>2. ride[q].status # "none" /\ ride[q].user \in Users
        BY <3>2, <4>1 DEF OpenRides, Returning, BookInv, LookupsStillHold, LookupHolds,
                          SafeLocks, TypeOK, BooksTyped
      <4> QED  BY <1>0, <1>2, <3>2, <4>1, <4>2
    <3> QED  BY <1>4, <2>1, <3>1, <3>2
  <2>2. ASSUME NEW w \in Users, activeRide'[w] # None
        PROVE  ride'[activeRide'[w]].status # "none" /\ ride'[activeRide'[w]].user = w
    <3>1. CASE w = u
      BY <1>2, <3>1
    <3>2. CASE w # u
      <4>1. activeRide'[w] = activeRide[w] /\ activeRide[w] \in Rides
        BY <1>0, <1>2, <2>2, <3>2
      <4>2. ride[activeRide[w]].status # "none" /\ ride[activeRide[w]].user = w
        BY <2>2, <4>1 DEF BookInv, RideIndexConsistent
      <4> QED  BY <1>1, <1>2, <4>1, <4>2
    <3> QED  BY <3>1, <3>2
  <2> QED  BY <2>1, <2>2 DEF RideIndexConsistent
<1>6. LookupsStillHold'
  <2>1. LookupHolds(t)'
    BY DEF LookupHolds
  <2>2. ASSUME NEW x \in Tasks \ {t} PROVE LookupHolds(x)'
    <3>1. pc'[x] = pc[x] /\ req'[x] = req[x] /\ LookupHolds(x)
      BY DEF OthersKeep, BookInv, LookupsStillHold
    <3>2. pc[x] = "start.station" => req[x].user \in Users \ {u}
      BY SoleOwner, RequestFields DEF UserOwnerPCs, StationPCs, UserPCs, BookInv, SafeLocks, TypeOK
    <3>3. pc[x] \in {"end.user", "end.charge", "end.dock"} => req[x].ride \in Rides \ {r}
      BY <1>1, EndedRide DEF BookInv, SafeLocks
    <3> QED  BY <1>1, <1>2, <3>1, <3>2, <3>3 DEF LookupHolds
  <2> QED  BY <2>1, <2>2 DEF LookupsStillHold
<1>7. ChargedOnce'
  BY <1>0, <1>1, <1>2 DEF BookInv, ChargedOnce
<1> QED  BY <1>5, <1>6, <1>7

-----------------------------------------------------------------------------
(* A ride is completed.                                                     *)

\* The facts about the books every step below starts from.
LEMMA BookTypes ==
  ASSUME BookInv
  PROVE  /\ ride \in [Rides -> [status : {"none", "active", "completed"},
                              user : Users \cup {None},
                              vehicle : Vehicles \cup {None}, fee : Nat]]
         /\ activeRide \in [Users -> Rides \cup {None}]
         /\ charged \in [Rides -> Nat]
         /\ \A r \in Rides : None # r
         /\ \A r \in OpenRides : /\ r \in Rides /\ ride[r].status # "none"
                                 /\ ride[r].user \in Users /\ ride[r].vehicle \in Vehicles
                                 /\ activeRide[ride[r].user] = r
<1>1. \A r \in OpenRides : r \in Rides /\ ride[r].status # "none"
  BY DEF OpenRides, Returning, BookInv, LookupsStillHold, LookupHolds
<1>2. \A r \in OpenRides : ride[r].user \in Users /\ ride[r].vehicle \in Vehicles
  BY <1>1 DEF BookInv, SafeLocks, TypeOK, BooksTyped
<1> QED  BY <1>1, <1>2, NoneAssumption
         DEF BookInv, SafeLocks, TypeOK, BooksTyped, RideIndexConsistent

LEMMA NotYetCharged ==
  ASSUME BookInv, NEW r \in Rides, ride[r].status # "completed"
  PROVE  charged[r] = 0
<1>1. charged[r] \in Nat /\ charged[r] <= 1 /\ charged[r] # 1
  BY DEF BookInv, ChargedOnce, SafeLocks, TypeOK, BooksTyped
<1> QED  BY <1>1

\* The end handler: completed, and from then on returned by this request.
LEMMA EndBooks ==
  ASSUME BookInv, NEW t \in Tasks, OthersKeep(t), NEW r \in Rides, pc[t] = "end.user",
         req[t].ride = r, ride[r].status = "active", Holds(t, userLock[req[t].user]),
         CompleteRide(r, RideFee), UNCHANGED <<activeRide, charged>>,
         pc'[t] = "end.charge", req'[t].ride = r, req'[t].user = req[t].user
  PROVE  RideIndexConsistent' /\ LookupsStillHold' /\ ChargedOnce'
<1>1. /\ ride'[r] = [ride[r] EXCEPT !.status = "completed", !.fee = RideFee]
      /\ \A q \in Rides \ {r} : ride'[q] = ride[q]
  BY BookTypes DEF CompleteRide
<1>2. /\ ride'[r].status = "completed" /\ ride'[r].fee = RideFee
      /\ ride'[r].user = ride[r].user
  BY <1>1, BookTypes
<1>3. ASSUME NEW q \in OpenRides' PROVE q \in OpenRides
  <2>1. CASE q = r
    BY <2>1 DEF OpenRides
  <2>2. CASE q # r
    <3>1. Returning(q)' => Returning(q)
      BY <2>2 DEF Returning, OthersKeep
    <3> QED  BY <1>1, <1>3, <2>2, <3>1 DEF OpenRides
  <2> QED  BY <2>1, <2>2
<1>4. \A q \in Rides : ride'[q].user = ride[q].user /\ (ride[q].status # "none" => ride'[q].status # "none")
  BY <1>1, <1>2
<1>5. RideIndexConsistent'
  <2>1. \A q \in OpenRides' : activeRide'[ride'[q].user] = q
    BY <1>3, <1>4, BookTypes
  <2>2. \A u \in Users : activeRide[u] # None => activeRide[u] \in Rides
    BY BookTypes
  <2> QED  BY <1>4, <2>1, <2>2 DEF BookInv, RideIndexConsistent
<1>6. LookupsStillHold'
  <2>1. LookupHolds(t)'
    <3>1. ride[r].user = req[t].user
      BY DEF BookInv, LookupsStillHold, LookupHolds
    <3>2. charged[r] = 0
      BY NotYetCharged
    <3> QED  BY <1>2, <3>1, <3>2 DEF LookupHolds
  <2>2. ASSUME NEW x \in Tasks \ {t} PROVE LookupHolds(x)'
    <3>1. pc'[x] = pc[x] /\ req'[x] = req[x] /\ LookupHolds(x)
      BY DEF OthersKeep, BookInv, LookupsStillHold
    <3>2. pc[x] \in {"end.user", "end.charge", "end.dock"} => req[x].ride \in Rides
      BY EndedRide DEF BookInv, SafeLocks
    <3> QED  BY <1>1, <1>4, <3>1, <3>2 DEF LookupHolds
  <2> QED  BY <2>1, <2>2 DEF LookupsStillHold
<1>7. ChargedOnce'
  <2>1. charged[r] = 0
    BY NotYetCharged
  <2> QED  BY <1>1, <2>1 DEF BookInv, ChargedOnce
<1> QED  BY <1>5, <1>6, <1>7

\* A degradation report closes the ride at once and frees the user.
LEMMA ReportBooks ==
  ASSUME BookInv, NEW t \in Tasks, OthersKeep(t), NEW u \in Users, NEW r \in ActiveRides(u),
         Holds(t, userLock[u]), CompleteRide(r, 0),
         activeRide' = [activeRide EXCEPT ![u] = None], UNCHANGED charged,
         pc[t] \notin EndPCs, pc'[t] = "idle"
  PROVE  RideIndexConsistent' /\ LookupsStillHold' /\ ChargedOnce'
<1>0. r \in Rides /\ ride[r].status = "active" /\ ride[r].user = u
  BY DEF ActiveRides
<1>1. /\ ride'[r] = [ride[r] EXCEPT !.status = "completed", !.fee = 0]
      /\ \A q \in Rides \ {r} : ride'[q] = ride[q]
      /\ activeRide'[u] = None
      /\ \A w \in Users \ {u} : activeRide'[w] = activeRide[w]
  BY <1>0, BookTypes DEF CompleteRide
<1>2. \A q \in Rides : ride'[q].user = ride[q].user /\ (ride[q].status # "none" => ride'[q].status # "none")
  <2>1. ride'[r].user = ride[r].user /\ ride'[r].status = "completed"
    BY <1>0, <1>1, BookTypes
  <2> QED  BY <1>1, <2>1
<1>3. ASSUME NEW q \in OpenRides' PROVE q \in OpenRides /\ q # r
  <2>1. Returning(q)' => Returning(q)
    BY DEF Returning, OthersKeep, EndPCs
  <2>2. ~Returning(r)
    BY <1>0 DEF Returning, BookInv, LookupsStillHold, LookupHolds
  <2>3. ride'[r].status = "completed"
    BY <1>0, <1>1, BookTypes
  <2> QED  BY <1>1, <1>3, <2>1, <2>2, <2>3 DEF OpenRides, Returning, OthersKeep, EndPCs
<1>4. activeRide[u] = r
  BY <1>0, BookTypes DEF OpenRides
<1>5. RideIndexConsistent'
  <2>1. ASSUME NEW q \in OpenRides' PROVE activeRide'[ride'[q].user] = q
    <3>1. q \in OpenRides /\ q # r
      BY <1>3
    <3>2. ride[q].user # u
      BY <1>4, <3>1, BookTypes
    <3> QED  BY <1>1, <1>2, <3>1, <3>2, BookTypes
  <2>2. \A w \in Users : activeRide'[w] # None => activeRide[w] # None /\ activeRide'[w] = activeRide[w]
                                                    /\ activeRide[w] \in Rides
    BY <1>1, BookTypes
  <2> QED  BY <1>2, <2>1, <2>2 DEF BookInv, RideIndexConsistent
<1>6. LookupsStillHold'
  <2>1. LookupHolds(t)'
    BY DEF LookupHolds
  <2>2. ASSUME NEW x \in Tasks \ {t} PROVE LookupHolds(x)'
    <3>1. pc'[x] = pc[x] /\ req'[x] = req[x] /\ LookupHolds(x)
      BY DEF OthersKeep, BookInv, LookupsStillHold
    <3>2. pc[x] \in {"end.user", "end.charge", "end.dock"} => req[x].ride \in Rides
      BY EndedRide DEF BookInv, SafeLocks
    <3>3. pc[x] = "start.station" => req[x].user \in Users
      BY RequestFields DEF UserPCs, BookInv, SafeLocks, TypeOK
    <3> QED  BY <1>0, <1>1, <1>2, <3>1, <3>2, <3>3 DEF LookupHolds
  <2> QED  BY <2>1, <2>2 DEF LookupsStillHold
<1>7. ChargedOnce'
  <2>1. charged[r] = 0
    BY <1>0, NotYetCharged
  <2> QED  BY <1>1, <2>1 DEF BookInv, ChargedOnce
<1> QED  BY <1>5, <1>6, <1>7

-----------------------------------------------------------------------------
(* A ride is being returned: charged, then docked, by one request only.     *)

\* Two requests never return the same ride.
LEMMA SoleReturn ==
  ASSUME BookInv, NEW t \in Tasks, NEW x \in Tasks,
         pc[t] \in EndPCs, pc[x] \in EndPCs, req[x].ride = req[t].ride
  PROVE  x = t
<1>1. req[x].user = req[t].user
  BY DEF BookInv, LookupsStillHold, LookupHolds, EndPCs
<1>2. Holds(t, userLock[req[t].user])
  BY OwnerHolds DEF BookInv, EndPCs, UserOwnerPCs
<1> QED  BY <1>1, <1>2, SoleOwner DEF BookInv, EndPCs, UserOwnerPCs

LEMMA ReturnBooks ==
  ASSUME BookInv, NEW t \in Tasks, OthersKeep(t), NEW r \in Rides, NEW u \in Users,
         pc[t] \in EndPCs, req[t].ride = r, req[t].user = u, UNCHANGED ride,
         charged' = IF pc[t] = "end.charge" THEN [charged EXCEPT ![r] = @ + 1] ELSE charged,
         \/ /\ pc'[t] = "idle"
            /\ activeRide' = activeRide \/ activeRide' = [activeRide EXCEPT ![u] = None]
         \/ /\ pc[t] = "end.charge" /\ pc'[t] = "end.dock"
            /\ req'[t] = req[t] /\ activeRide' = activeRide
  PROVE  RideIndexConsistent' /\ LookupsStillHold' /\ ChargedOnce'
<1>0. /\ ride[r].status = "completed" /\ ride[r].fee = RideFee /\ ride[r].user = u
      /\ charged[r] = IF pc[t] = "end.charge" THEN 0 ELSE 1
  BY DEF BookInv, LookupsStillHold, LookupHolds, EndPCs
<1>1. charged'[r] = 1 /\ \A q \in Rides \ {r} : charged'[q] = charged[q]
  BY <1>0, BookTypes DEF EndPCs
<1>2. ASSUME NEW q \in OpenRides' PROVE q \in OpenRides
  <2>1. Returning(q)' => Returning(q)
    BY DEF Returning, OthersKeep, EndPCs
  <2> QED  BY <1>2, <2>1 DEF OpenRides
<1>3. pc'[t] = "idle" => r \notin OpenRides'
  <2> SUFFICES ASSUME pc'[t] = "idle", Returning(r)' PROVE FALSE
    BY <1>0 DEF OpenRides
  <2>1. PICK x \in Tasks : pc'[x] \in EndPCs /\ req'[x].ride = r
    BY DEF Returning, EndPCs
  <2>2. x # t /\ pc[x] \in EndPCs /\ req[x].ride = r
    BY <2>1 DEF OthersKeep, EndPCs
  <2> QED  BY <2>2, SoleReturn
<1>4. RideIndexConsistent'
  <2>1. ASSUME NEW q \in OpenRides' PROVE activeRide'[ride[q].user] = q
    <3>1. q \in OpenRides /\ ride[q].user \in Users /\ activeRide[ride[q].user] = q
      BY <1>2, BookTypes
    <3>2. CASE activeRide' = activeRide
      BY <3>1, <3>2
    <3>3. CASE activeRide' = [activeRide EXCEPT ![u] = None] /\ pc'[t] = "idle"
      <4>1. r \in OpenRides
        BY DEF OpenRides, Returning, EndPCs
      <4>2. activeRide[u] = r /\ q # r
        BY <1>0, <1>3, <3>3, <4>1, BookTypes
      <4>3. ride[q].user # u
        BY <3>1, <4>2
      <4> QED  BY <3>1, <3>3, <4>3, BookTypes
    <3> QED  BY <3>2, <3>3
  <2>2. \A w \in Users : activeRide'[w] # None => activeRide'[w] = activeRide[w]
    BY BookTypes
  <2> QED  BY <2>1, <2>2 DEF BookInv, RideIndexConsistent
<1>5. LookupsStillHold'
  <2>1. LookupHolds(t)'
    BY <1>0, <1>1 DEF LookupHolds
  <2>2. ASSUME NEW x \in Tasks \ {t} PROVE LookupHolds(x)'
    <3>1. pc'[x] = pc[x] /\ req'[x] = req[x] /\ LookupHolds(x)
      BY DEF OthersKeep, BookInv, LookupsStillHold
    <3>2. pc[x] \in EndPCs => req[x].ride \in Rides \ {r}
      BY SoleReturn, EndedRide DEF BookInv, SafeLocks, EndPCs
    <3>3. pc[x] = "start.station" => req[x].user \in Users
      BY RequestFields DEF UserPCs, BookInv, SafeLocks, TypeOK
    <3>4. pc[x] = "start.station" => activeRide'[req[x].user] = None
      BY <3>1, <3>3, BookTypes DEF LookupHolds
    <3> QED  BY <1>1, <3>1, <3>2, <3>4 DEF LookupHolds, EndPCs
  <2> QED  BY <2>1, <2>2 DEF LookupsStillHold
<1>6. ChargedOnce'
  BY <1>0, <1>1 DEF BookInv, ChargedOnce
<1> QED  BY <1>4, <1>5, <1>6

-----------------------------------------------------------------------------
(* Every step keeps the books.                                              *)

LEMMA BooksStep ==
  ASSUME BookInv, [Next]_vars
  PROVE  RideIndexConsistent' /\ LookupsStillHold' /\ ChargedOnce'
<1> DEFINE Goal == RideIndexConsistent' /\ LookupsStillHold' /\ ChargedOnce'
<1>0. TypeOK /\ RequestsTyped
  BY DEF BookInv, SafeLocks, TypeOK
<1>1. ASSUME NEW t \in Tasks, Arrival(t) PROVE Goal
  <2>1. UNCHANGED books
    BY <1>1 DEF Arrival, AcceptStart, AcceptByStation, AcceptByVehicle, AcceptEnd, AcceptReport
  <2>2. ASSUME NEW e, NEW w, NEW q, Accept(t, e, w, q), LookupHolds(t)', w \notin EndPCs
        PROVE  Goal
    BY <1>0, <2>1, <2>2, AcceptFacts, QuietBooks DEF EndPCs
  <2>3. ASSUME NEW e, NEW w, NEW q, Accept(t, e, w, q),
               w \in {"start.user", "station.station", "vehicle.station", "report.user"}
        PROVE  Goal
    BY <1>0, <2>2, <2>3, AcceptFacts DEF LookupHolds, EndPCs
  <2>4. ASSUME NEW r \in Rides, NEW l \in Locations, AcceptEnd(t, r, l) PROVE Goal
    <3>1. /\ pc'[t] = "end.user"
          /\ req'[t] = [NoReq EXCEPT !.user = ride[r].user, !.ride = r, !.loc = l]
      BY <1>0, <2>4, AcceptFacts DEF AcceptEnd
    <3>2. req'[t].ride = r /\ req'[t].user = ride[r].user
      BY <3>1 DEF NoReq
    <3>3. LookupHolds(t)'
      BY <2>1, <3>1, <3>2 DEF LookupHolds, books
    <3> QED  BY <2>2, <2>4, <3>3 DEF AcceptEnd, EndPCs
  <2> QED
    BY <1>1, <2>3, <2>4 DEF Arrival, AcceptStart, AcceptByStation, AcceptByVehicle, AcceptReport
<1>2. ASSUME NEW t \in Tasks, pc[t] \notin EndPCs, Reply(t), UNCHANGED books PROVE Goal
  <2>1. OthersKeep(t) /\ pc'[t] = "idle"
    BY <1>0, <1>2, ReplyFacts
  <2> QED  BY <1>2, <2>1, QuietBooks DEF LookupHolds, EndPCs
<1>3. ASSUME NEW t \in Tasks, pc[t] \notin EndPCs, Reply(t), NEW u \in Users,
             NEW v \in Vehicles, Holds(t, userLock[u]), activeRide[u] = None, BeginRide(u, v)
      PROVE  Goal
  BY <1>0, <1>3, ReplyFacts, BeginBooks
<1>4. ASSUME NEW t \in Tasks, StartChooseStation(t) PROVE Goal
  <2>1. CASE Reply(t)
    BY <1>2, <1>4, <2>1 DEF StartChooseStation, EndPCs
  <2>2. ASSUME NEW s, req' = [req EXCEPT ![t].station = s], GoTo(t, "start.station"),
               activeRide[req[t].user] = None
        PROVE  Goal
    <3>1. OthersKeep(t) /\ pc'[t] = "start.station" /\ req'[t].user = req[t].user
      BY <1>0, <2>2, GoToFacts DEF RequestsTyped
    <3>2. LookupHolds(t)'
      BY <1>4, <2>2, <3>1 DEF LookupHolds, StartChooseStation, books
    <3> QED  BY <1>4, <3>1, <3>2, QuietBooks DEF StartChooseStation, EndPCs
  <2> QED  BY <1>4, <2>1, <2>2 DEF StartChooseStation
<1>5. ASSUME NEW t \in Tasks, StartCheckout(t) PROVE Goal
  <2>1. CASE UNCHANGED books
    BY <1>2, <1>5, <2>1 DEF StartCheckout, EndPCs
  <2>2. ASSUME NEW v \in Preferred(req[t].station), BeginRide(req[t].user, v) PROVE Goal
    <3>1. /\ req[t].user \in Users /\ v \in Vehicles
          /\ activeRide[req[t].user] = None /\ Holds(t, userLock[req[t].user])
      <4>1. pc[t] = "start.station"
        BY <1>5 DEF StartCheckout
      <4>2. req[t].user \in Users /\ req[t].station \in Stations
        BY <1>0, <4>1, RequestFields DEF UserPCs, StationPCs
      <4>3. v \in Vehicles
        BY <1>0, <2>2, <4>2 DEF Preferred, Eligible, TypeOK, FleetTyped
      <4>4. activeRide[req[t].user] = None
        BY <4>1 DEF BookInv, LookupsStillHold, LookupHolds
      <4> QED  BY <4>1, <4>2, <4>3, <4>4, OwnerHolds DEF BookInv, UserOwnerPCs
    <3> QED  BY <1>3, <1>5, <2>2, <3>1 DEF StartCheckout, EndPCs
  <2> QED  BY <1>5, <2>1, <2>2 DEF StartCheckout
<1>6. ASSUME NEW t \in Tasks, AwaitUser(t) PROVE Goal
  <2>1. /\ OthersKeep(t) /\ pc'[t] \in {"station.user", "vehicle.user"}
        /\ pc[t] \notin EndPCs /\ UNCHANGED books
    BY <1>0, <1>6, GoToFacts DEF AwaitUser, EndPCs
  <2> QED  BY <2>1, QuietBooks DEF LookupHolds, EndPCs
<1>7. ASSUME NEW t \in Tasks, ByStationRide(t) PROVE Goal
  <2>1. CASE UNCHANGED books
    BY <1>2, <1>7, <2>1 DEF ByStationRide, EndPCs
  <2>2. ASSUME NEW v \in docked[req[t].station], activeRide[req[t].user] = None,
               BeginRide(req[t].user, v)
        PROVE  Goal
    <3>1. req[t].user \in Users /\ v \in Vehicles
      BY <1>0, <1>7, <2>2, RequestFields
         DEF ByStationRide, UserPCs, StationPCs, TypeOK, FleetTyped
    <3> QED  BY <1>3, <1>7, <2>2, <3>1 DEF ByStationRide, EndPCs
  <2> QED  BY <1>7, <2>1, <2>2 DEF ByStationRide
<1>8. ASSUME NEW t \in Tasks, ByVehicleRide(t) PROVE Goal
  <2>1. CASE UNCHANGED books
    BY <1>2, <1>8, <2>1 DEF ByVehicleRide, EndPCs
  <2>2. CASE activeRide[req[t].user] = None /\ BeginRide(req[t].user, req[t].vehicle)
    <3>1. req[t].user \in Users /\ req[t].vehicle \in Vehicles
      BY <1>0, <1>8 DEF ByVehicleRide, RequestsTyped, RequestTyped
    <3> QED  BY <1>3, <1>8, <2>2, <3>1 DEF ByVehicleRide, EndPCs
  <2> QED  BY <1>8, <2>1, <2>2 DEF ByVehicleRide, ByVehicleAllowed
<1>9. ASSUME NEW t \in Tasks, EndRide(t) PROVE Goal
  <2>1. CASE Reply(t) /\ UNCHANGED books
    BY <1>2, <1>9, <2>1 DEF EndRide, EndPCs
  <2>2. ASSUME NEW s, req' = [req EXCEPT ![t].station = s], GoTo(t, "end.charge"),
               ride[req[t].ride].status = "active", CompleteRide(req[t].ride, RideFee),
               UNCHANGED <<activeRide, charged>>
        PROVE  Goal
    <3>1. /\ OthersKeep(t) /\ pc'[t] = "end.charge"
          /\ req'[t].user = req[t].user /\ req'[t].ride = req[t].ride
      BY <1>0, <2>2, GoToFacts DEF RequestsTyped
    <3>2. pc[t] = "end.user" /\ req[t].ride \in Rides /\ Holds(t, userLock[req[t].user])
      BY <1>0, <1>9, EndedRide DEF EndRide
    <3> QED  BY <2>2, <3>1, <3>2, EndBooks
  <2> QED  BY <1>9, <2>1, <2>2 DEF EndRide
<1>10. ASSUME NEW t \in Tasks, EndCharged(t) PROVE Goal
  <2>1. pc[t] = "end.charge" /\ req[t].ride \in Rides /\ req[t].user \in Users
    BY <1>0, <1>10, EndedRide, RequestFields DEF EndCharged, UserPCs
  <2>2. CASE Reply(t) /\ activeRide' = [activeRide EXCEPT ![req[t].user] = None]
    BY <1>0, <1>10, <2>1, <2>2, ReplyFacts, ReturnBooks DEF EndCharged, EndPCs
  <2>3. CASE GoTo(t, "end.dock") /\ UNCHANGED <<activeRide, req>>
    BY <1>0, <1>10, <2>1, <2>3, GoToFacts, ReturnBooks DEF EndCharged, EndPCs
  <2> QED  BY <1>10, <2>2, <2>3 DEF EndCharged
<1>11. ASSUME NEW t \in Tasks, EndDock(t) PROVE Goal
  <2>1. pc[t] = "end.dock" /\ req[t].ride \in Rides /\ req[t].user \in Users
    BY <1>0, <1>11, EndedRide, RequestFields DEF EndDock, UserPCs
  <2> QED  BY <1>0, <1>11, <2>1, ReplyFacts, ReturnBooks DEF EndDock, EndPCs
<1>12. ASSUME NEW t \in Tasks, ReportDegraded(t) PROVE Goal
  <2>1. /\ pc[t] = "report.user" /\ req[t].user \in Users
        /\ Holds(t, userLock[req[t].user]) /\ Reply(t)
    BY <1>0, <1>12, RequestFields DEF ReportDegraded, UserPCs
  <2>2. CASE UNCHANGED books
    BY <1>2, <2>1, <2>2 DEF EndPCs
  <2>3. ASSUME NEW r \in ActiveRides(req[t].user), CompleteRide(r, 0),
               activeRide' = [activeRide EXCEPT ![req[t].user] = None], UNCHANGED charged
        PROVE  Goal
    BY <1>0, <2>1, <2>3, ReplyFacts, ReportBooks DEF EndPCs
  <2> QED  BY <1>12, <2>2, <2>3 DEF ReportDegraded
<1>13. TreatBegin \/ (\E v \in Vehicles : TreatOne(v)) \/ (\E u \in Users : UpgradeUser(u))
         \/ UNCHANGED vars => UNCHANGED <<books, tasks>>
  BY DEF TreatBegin, TreatOne, UpgradeUser, vars
<1> QED
  BY <1>1, <1>4, <1>5, <1>6, <1>7, <1>8, <1>9, <1>10, <1>11, <1>12, <1>13, SameBooks
     DEF Next, Step

LEMMA InitBooks == Init => BookInv
<1> SUFFICES ASSUME Init PROVE BookInv
  OBVIOUS
<1>1. SafeLocks
  BY InitTyped, InitLocks DEF SafeLocks
<1>2. LookupsStillHold
  BY DEF Init, LookupsStillHold, LookupHolds
<1>3. RideIndexConsistent
  BY DEF Init, RideIndexConsistent, OpenRides, Returning, NoRide
<1>4. ChargedOnce
  BY DEF Init, ChargedOnce
<1> QED  BY <1>1, <1>2, <1>3, <1>4 DEF BookInv

\* The books are right in every reachable state.
THEOREM BooksSafe == Spec => []BookInv
<1>1. BookInv /\ [Next]_vars /\ SafeLocks' => BookInv'
  BY BooksStep DEF BookInv
<1> QED  BY <1>1, InitBooks, LocksSafe, PTL DEF Spec

\* The rides and the active users repositories agree, whatever the
\* interleaving of starts, ends and reports.
THEOREM RideIndexCorrect == Spec => []RideIndexConsistent
<1>1. BookInv => RideIndexConsistent
  BY DEF BookInv
<1> QED  BY <1>1, BooksSafe, PTL

\* No ride is charged twice, and a reported ride is never charged.
THEOREM ChargedOnceCorrect == Spec => []ChargedOnce
<1>1. BookInv => ChargedOnce
  BY DEF BookInv
<1> QED  BY <1>1, BooksSafe, PTL

\* What a handler looked up before an await is still true after it.
THEOREM LookupsCorrect == Spec => []LookupsStillHold
<1>1. BookInv => LookupsStillHold
  BY DEF BookInv
<1> QED  BY <1>1, BooksSafe, PTL

-----------------------------------------------------------------------------
(* History.                                                                 *)

LEMMA HistoryStep ==
  ASSUME TypeOK, [Next]_vars
  PROVE  KeepsHistory \/ UNCHANGED vars
<1>0. ride \in [Rides -> [status : {"none", "active", "completed"},
                         user : Users \cup {None},
                         vehicle : Vehicles \cup {None}, fee : Nat]]
  BY DEF TypeOK, BooksTyped
<1>1. ASSUME UNCHANGED ride PROVE KeepsHistory
  BY <1>1 DEF KeepsHistory
<1>2. ASSUME NEW u, NEW v, BeginRide(u, v) PROVE KeepsHistory
  BY <1>0, <1>2 DEF BeginRide, KeepsHistory
<1>3. ASSUME NEW r \in Rides, NEW fee, CompleteRide(r, fee), ride[r].status = "active"
      PROVE  KeepsHistory
  <2>1. \A q \in Rides \ {r} : ride'[q] = ride[q]
    BY <1>0, <1>3 DEF CompleteRide
  <2>2. /\ ride'[r].user = ride[r].user /\ ride'[r].vehicle = ride[r].vehicle
        /\ ride'[r].status = "completed"
    BY <1>0, <1>3 DEF CompleteRide
  <2> QED  BY <1>3, <2>1, <2>2 DEF KeepsHistory
<1>4. ASSUME NEW t \in Tasks, EndRide(t) PROVE KeepsHistory
  <2>1. req[t].ride \in Rides
    BY <1>4, EndedRide DEF EndRide
  <2> QED  BY <1>1, <1>3, <1>4, <2>1 DEF EndRide, books
<1>5. ASSUME NEW t \in Tasks, ReportDegraded(t) PROVE KeepsHistory
  BY <1>1, <1>3, <1>5 DEF ReportDegraded, ActiveRides, books
<1>6. ASSUME NEW t \in Tasks, Step(t), ~EndRide(t), ~ReportDegraded(t) PROVE KeepsHistory
  BY <1>1, <1>2, <1>6 DEF Step, StartChooseStation, StartCheckout, AwaitUser,
                          ByStationRide, ByVehicleRide, EndCharged, EndDock, books
<1>7. (\E t \in Tasks : Arrival(t)) \/ TreatBegin \/ (\E v \in Vehicles : TreatOne(v))
        \/ (\E u \in Users : UpgradeUser(u)) => UNCHANGED ride
  BY DEF Arrival, AcceptStart, AcceptByStation, AcceptByVehicle, AcceptEnd,
         AcceptReport, TreatBegin, TreatOne, UpgradeUser, books
<1> QED  BY <1>1, <1>4, <1>5, <1>6, <1>7 DEF Next

\* A stored ride keeps its user and vehicle and never reopens.
THEOREM HistoryCorrect == Spec => HistoryImmutable
<1>1. TypeOK /\ [Next]_vars => [KeepsHistory]_vars
  BY HistoryStep
<1> QED  BY <1>1, TypeCorrect, PTL DEF Spec, HistoryImmutable

=============================================================================
