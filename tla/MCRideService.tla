---------------------------- MODULE MCRideService ----------------------------
(* Small instances of RideService for TLC.                                  *)
EXTENDS RideService, TLC

CONSTANTS u1, u2, bike, ebike, east, west, r1, r2, r3, t1, t2, t3

TwoUsers == {u1, u2}
OneUser == {u1}
OneVehicle == {bike}
TwoVehicles == {bike, ebike}
TwoStations == {east, west}
OneStation == {east}
TwoTasks == {t1, t2}
ThreeTasks == {t1, t2, t3}
TwoRides == {r1, r2}
ThreeRides == {r1, r2, r3}

\* One place beside each station.
TwoPlaces == {"at east", "at west"}
OnePlace == {"at east"}
PlaceDist == [l \in Locations |->
               [s \in Stations |-> IF (l = "at east") = (s = east) THEN 0 ELSE 1]]
PlaceWithin == [l \in Locations |-> IF l = "at east" THEN {east} ELSE {west}]

OneSlot == [s \in Stations |-> 1]
TwoSlots == [s \in Stations |-> 2]

BikeFirst == [v \in Vehicles |-> IF v = bike THEN 0 ELSE 1]

Symmetric == Permutations(Users) \cup Permutations(Rides) \cup Permutations(Tasks)
=============================================================================
