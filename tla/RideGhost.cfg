\* A reported vehicle is treated, rented and returned.
SPECIFICATION Spec
CONSTANTS
  u1 = u1
  u2 = u2
  bike = bike
  ebike = ebike
  east = east
  west = west
  r1 = r1
  r2 = r2
  r3 = r3
  t1 = t1
  t2 = t2
  t3 = t3
  None = None
  Users <- TwoUsers
  Vehicles <- TwoVehicles
  Stations <- TwoStations
  Locations <- TwoPlaces
  Rides <- TwoRides
  Tasks <- TwoTasks
  Capacity <- TwoSlots
  Dist <- PlaceDist
  Within5m <- PlaceWithin
  Electric = {ebike}
  Rank <- BikeFirst
  TreatAt = 1
  RentLimit = 1
  InitialRides = {1}
  Endpoints <- AllEndpoints
SYMMETRY Symmetric
CHECK_DEADLOCK FALSE
PROPERTIES
  EndReleasesVehicle
