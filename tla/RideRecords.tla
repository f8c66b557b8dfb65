------------------------------ MODULE RideRecords ------------------------------
(***************************************************************************)
(* The records of TLVFlow together: user accounts, rides and active users, *)
(* which refer to one another and go into one state.json.  Vehicles,       *)
(* stations and the locks of the ride endpoints are left to RideService;   *)
(* what matters here is the order of the records, their indexes, and the   *)
(* charge, which needs the account of a ride started long before.          *)
(*                                                                         *)
(* No handler calls Ride.cancel; the repository stores and restores the    *)
(* rides it is called on.                                                  *)
(***************************************************************************)
EXTENDS UserAccounts, Lists

CONSTANT RideIds   \* BOUND: the uuid4 ride ids that can ever be drawn

ASSUME RideIdAssumption == None \notin RideIds

VARIABLES
  ride,       \* RidesRepository._rides_by_id: id -> ride, a partial function
  rideOrder,  \* the insertion order of that dictionary
  ridesOf,    \* _ride_ids_by_user_id: user id -> ride ids, a partial function
  active,     \* ActiveUsersRepository: user id -> ride id, a partial function
  stored      \* the rides and active users in state.json

records == <<ride, rideOrder, ridesOf, active>>
rvars == <<vars, records, stored>>

RideFee == 15

-----------------------------------------------------------------------------
(* Rides.                                                                   *)

RidesOfUser(u) == {r \in DOMAIN ride : ride[r].user = u}
ActiveRides == {r \in DOMAIN ride : ride[r].status = "active"}

\* is_active(), first ride of get_by_user_id that is.
ActiveRideOf(u) ==
  LET found == Kept(Listed(ridesOf, u), ActiveRides)
  IN  IF found = <<>> THEN None ELSE Head(found)

\* end() and the fee; end() raises for a ride that has an end time.
Ended(r, fee) == [r EXCEPT !.status = "completed", !.ended = TRUE, !.fee = fee]

MayStart_Again(u) == u \in DOMAIN users

\* The account is looked up, and a user with an entry in active_users is refused.
MayStart(u) == u \in DOMAIN users /\ u \notin DOMAIN active

\* The three start endpoints.
StartRide(u) ==
  /\ MayStart(u)
  /\ \E r \in RideIds \ DOMAIN ride :
       /\ ride' = Put(ride, r, [user |-> u, status |-> "active", ended |-> FALSE, fee |-> 0])
       /\ rideOrder' = Append(rideOrder, r)
       /\ ridesOf' = Filed(ridesOf, u, r)
       /\ active' = Put(active, u, r)
  /\ UNCHANGED <<vars, stored>>

\* What end_ride and _validate_common want of the user before the charge.
Chargeable(u) == u \in DOMAIN users /\ users[u].card \notin BlankCards

\* POST /end.  The ride is completed first.  A charge that is refused raises,
\* and so does a station that has filled up after the charge: the user then
\* stays among the active users.
EndRide(r) ==
  /\ r \in DOMAIN ride /\ ride[r].status = "active"
  /\ ride' = [ride EXCEPT ![r] = Ended(@, RideFee)]
  /\ LET u == ride[r].user
     IN  IF Chargeable(u)
         THEN active' \in {active, Without(active, u)}
         ELSE UNCHANGED active
  /\ UNCHANGED <<vars, rideOrder, ridesOf, stored>>

\* POST /vehicle/report-degraded, for the active ride of u.
ReportDegraded(u) ==
  /\ ActiveRideOf(u) # None
  /\ ride' = [ride EXCEPT ![ActiveRideOf(u)] = Ended(@, 0)]
  /\ active' = Without(active, u)
  /\ UNCHANGED <<vars, rideOrder, ridesOf, stored>>

\* Ride.cancel() raises for a ride that is over.
CancelRide(r) ==
  /\ r \in DOMAIN ride /\ ride[r].status = "active"
  /\ ride' = [ride EXCEPT ![r].status = "cancelled"]
  /\ UNCHANGED <<vars, rideOrder, ridesOf, active, stored>>

-----------------------------------------------------------------------------
(* Restarts.                                                                *)

RideFromDict_ByEndTime(d) ==
  [d EXCEPT !.status = IF d.ended THEN "completed" ELSE "active"]

\* The constructor derives the status from the end time; a stored status of
\* cancelled makes the restored ride cancel() itself again.
RideFromDict(d) ==
  [d EXCEPT !.status = CASE d.ended -> "completed"
                         [] ~d.ended /\ d.status = "cancelled" -> "cancelled"
                         [] OTHER -> "active"]

Snapshot == [ride |-> ride, rideOrder |-> rideOrder, active |-> active]

RestoreRecords(d) ==
  /\ ride' = [r \in DOMAIN d.ride |-> RideFromDict(d.ride[r])]
  /\ rideOrder' = d.rideOrder
  /\ ridesOf' = Grouped(d.rideOrder, [r \in DOMAIN d.ride |-> d.ride[r].user],
                         [r \in DOMAIN d.ride |-> r])
  /\ active' = d.active

\* Shutdown writes everything out and the next startup reads it back.
RestartAll ==
  /\ Restart
  /\ stored' = Snapshot
  /\ RestoreRecords(Snapshot)

CrashAll ==
  /\ Crash
  /\ RestoreRecords(stored)
  /\ UNCHANGED stored

RecordsInit ==
  /\ Init
  /\ ride = EmptyDict /\ rideOrder = <<>> /\ ridesOf = EmptyDict /\ active = EmptyDict
  /\ stored = [ride |-> EmptyDict, rideOrder |-> <<>>, active |-> EmptyDict]

RecordsNext ==
  \/ Request /\ UNCHANGED <<records, stored>>
  \/ \E u \in Uids : StartRide(u) \/ ReportDegraded(u)
  \/ \E r \in RideIds : EndRide(r) \/ CancelRide(r)
  \/ RestartAll
  \/ CrashAll

RecordsSpec == RecordsInit /\ [][RecordsNext]_rvars

-----------------------------------------------------------------------------
(* Properties.                                                              *)

\* The charge comes after ride.end(), so one that raised would leave a
\* completed ride unpaid for good.  It never does: the account of every active
\* ride is still there, through upgrades, card changes, restarts and crashes,
\* and has a payment method that _validate_common accepts
\* (rides_service.py:220-232, payment_service.py:14).
ChargeNeverRefused ==
  \A r \in DOMAIN ride : ride[r].status = "active" => Chargeable(ride[r].user)

\* The two maps of RidesRepository agree: a user's list has the rides of that
\* user, all of them, once each and in the order they were started, across
\* restarts too (rides_repository.py:28, :41-46).
RideListsAgree ==
  \A u \in Uids :
    LET own == Listed(ridesOf, u)
    IN  /\ own = Kept(rideOrder, RidesOfUser(u))
        /\ \A i, j \in DOMAIN own : own[i] = own[j] => i = j

\* A graceful restart gives back the rides as they were, cancelled ones
\* included, in the same order, and the same active users (README.md:331).
RestartKeepsRides == [][RestartAll => UNCHANGED records]_rvars

\* The ride that report_degraded_vehicle finds in the ride list is the one that
\* active_users names, and end_ride's: a user has one active ride at most, and
\* its entry in active_users stands as long as it is active
\* (vehicles_service.py:93, active_users_repository.py:28).
ActiveRideNamed ==
  \A r \in DOMAIN ride :
    LET u == ride[r].user
    IN  ride[r].status = "active" => /\ u \in DOMAIN active /\ active[u] = r
                                     /\ ActiveRideOf(u) = r
=============================================================================
