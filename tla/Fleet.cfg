\* The cold start from every small pair of files, and the fleet that serves after
\* it, with graceful restarts and crashes.
SPECIFICATION Spec
CONSTANTS
  a = a
  b = b
  c = c
  Blank = Blank
  Junk = Junk
  Missing = Missing
  None = None
  VehicleIds <- SomeVehicles
  Dates <- SomeDates
  VehicleFiles <- SomeVehicleFiles
  StationFiles <- SomeStationFiles
  PlainCapacity <- OneSlot
  Today = "today"
  TreatAt = 1
  RentLimit = 1
  MaxEvents = 2
  MaxRides = 1
CHECK_DEADLOCK FALSE
INVARIANTS
  TypeOK
  CapacityRespected
  DockedOnce
  EveryVehiclePlaced
  LastRowWins
  FailsOnlyOnShortRow
  EventIndexConsistent
  EventsFitVehicles
  LinkingGivesInit
PROPERTIES
  OnlyDueTreated
  PoolLeavesDocked
  GracefulRestartKeepsFleet
