------------------------------- MODULE RideLedger -------------------------------
(***************************************************************************)
(* What the ride endpoints of TLVFlow promise of rides and vehicles: every *)
(* ride goes once through riding, owed, paid and closed (or is forgiven    *)
(* after a degradation report), and while it is open nobody else has its   *)
(* vehicle and its user has no other ride.  There are no requests, locks   *)
(* or stations here: RideRefinement shows that RideService implements it.  *)
(***************************************************************************)
CONSTANTS Users, Vehicles, Rides, None

VARIABLES
  ledger,   \* ride -> [state, user, vehicle]
  parked    \* vehicles docked at some station

vars == <<ledger, parked>>

NoEntry == [state |-> "new", user |-> None, vehicle |-> None]

Open == {r \in Rides : ledger[r].state \in {"riding", "owed", "paid"}}

Init == ledger = [r \in Rides |-> NoEntry] /\ parked \in SUBSET Vehicles

Move(r, from, to) ==
  /\ ledger[r].state = from
  /\ ledger' = [ledger EXCEPT ![r].state = to]

\* A parked vehicle goes out with a user who has no open ride.
Begin(r, u, v) ==
  /\ ledger[r].state = "new"
  /\ v \in parked
  /\ \A q \in Open : ledger[q].user # u /\ ledger[q].vehicle # v
  /\ ledger' = [ledger EXCEPT ![r] = [state |-> "riding", user |-> u, vehicle |-> v]]
  /\ parked' = parked \ {v}

\* The ride is over and its fee is due.
Return(r) == Move(r, "riding", "owed") /\ UNCHANGED parked

\* The charge; without a vehicle to dock it is the end of the ride.
Pay(r) == (Move(r, "owed", "paid") \/ Move(r, "owed", "closed")) /\ UNCHANGED parked

\* The vehicle is docked, unless the station filled up.
Close(r) ==
  /\ Move(r, "paid", "closed")
  /\ parked' = parked \cup {ledger[r].vehicle} \/ UNCHANGED parked

\* A degradation report ends the ride free of charge.
Forgive(r) == Move(r, "riding", "free") /\ UNCHANGED parked

\* A treated vehicle that is out with nobody is docked.
Repark(v) ==
  /\ \A q \in Open : ledger[q].vehicle # v
  /\ parked' = parked \cup {v}
  /\ UNCHANGED ledger

Next ==
  \/ \E r \in Rides, u \in Users, v \in Vehicles : Begin(r, u, v)
  \/ \E r \in Rides : Return(r) \/ Pay(r) \/ Close(r) \/ Forgive(r)
  \/ \E v \in Vehicles : Repark(v)

Spec == Init /\ [][Next]_vars
=============================================================================
