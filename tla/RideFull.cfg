\* One station with one slot and two vehicles: the station is full whenever the other
\* vehicle is returned or treated.  Three rides, every endpoint.
SPECIFICATION Spec
CONSTANTS
  u1 = u1
  u2 = u2
  bike = bike
  ebike = ebike
  east = east
  west = west
  r1 = r1
  r2 = r2
  r3 = r3
  t1 = t1
  t2 = t2
  t3 = t3
  None = None
  Users <- TwoUsers
  Vehicles <- TwoVehicles
  Stations <- OneStation
  Locations <- OnePlace
  Rides <- ThreeRides
  Tasks <- TwoTasks
  Capacity <- OneSlot
  Dist <- PlaceDist
  Within5m <- PlaceWithin
  Electric = {ebike}
  Rank <- BikeFirst
  TreatAt = 1
  RentLimit = 1
  InitialRides = {1}
  Endpoints <- AllEndpoints
SYMMETRY Symmetric
CHECK_DEADLOCK FALSE
INVARIANTS
  LookupsStillHold
PROPERTIES
  StrandedOnlyWhenFull
  KnownVehicleReleased
  TreatedStaysOutOnlyWhenFull
