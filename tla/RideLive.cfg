\* No endpoint takes a station lock before a user lock; three requests of one
\* user queue up; the vehicle may be unrentable.
SPECIFICATION FairSpec
CONSTANTS
  u1 = u1
  u2 = u2
  bike = bike
  ebike = ebike
  east = east
  west = west
  r1 = r1
  r2 = r2
  r3 = r3
  t1 = t1
  t2 = t2
  t3 = t3
  None = None
  Users <- OneUser
  Vehicles <- OneVehicle
  Stations <- TwoStations
  Locations <- OnePlace
  Rides <- TwoRides
  Tasks <- ThreeTasks
  Capacity <- OneSlot
  Dist <- PlaceDist
  Within5m <- PlaceWithin
  Electric = {}
  Rank <- BikeFirst
  TreatAt = 1
  RentLimit = 1
  InitialRides = {0, 2}
  Endpoints = {"start", "end", "report-degraded"}
PROPERTIES
  UnrentableStaysDocked
  RequestsFinish
