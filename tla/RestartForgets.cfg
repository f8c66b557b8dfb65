\* A reported vehicle, then a graceful restart.
SPECIFICATION RSpec
CONSTANTS
  u1 = u1
  u2 = u2
  bike = bike
  ebike = ebike
  east = east
  west = west
  r1 = r1
  r2 = r2
  r3 = r3
  t1 = t1
  t2 = t2
  t3 = t3
  None = None
  Users <- OneUser
  Vehicles <- TwoVehicles
  Stations <- TwoStations
  Locations <- TwoPlaces
  Rides <- TwoRides
  Tasks <- OneTask
  Capacity <- OneSlot
  Dist <- PlaceDist
  Within5m <- PlaceWithin
  Electric = {ebike}
  Rank <- BikeFirst
  TreatAt = 1
  RentLimit = 1
  InitialRides = {1}
  MaxCrashes = 0
  Endpoints <- AllEndpoints
SYMMETRY Symmetric
PROPERTIES
  NoVehicleForgotten
