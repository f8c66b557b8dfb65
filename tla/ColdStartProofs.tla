---------------------------- MODULE ColdStartProofs ----------------------------
(***************************************************************************)
(* Theorems about ColdStart, for files of any length and any content.      *)
(***************************************************************************)
EXTENDS ColdStart, ListProofs

\* The rows of vehicles.csv before row n that make a vehicle.
GoodBefore(n) == {i \in DOMAIN files.vehicles : i < n /\ RowLoads(files.vehicles[i])}

SameButStation(v, row) ==
  [v EXCEPT !.station = None] = [VehicleOf(row) EXCEPT !.station = None]

\* What the rows before row n leave in the vehicle repository.
LoadedBefore(n) ==
  /\ DOMAIN vehicle = {files.vehicles[i].id : i \in GoodBefore(n)}
  /\ \A i \in GoodBefore(n) :
       (\A j \in GoodBefore(n) : files.vehicles[j].id = files.vehicles[i].id => j <= i)
       => SameButStation(vehicle[files.vehicles[i].id], files.vehicles[i])

RowsRead == IF phase = "vehicles" THEN cursor ELSE Len(files.vehicles) + 1

Loaded == LoadedBefore(RowsRead)

\* The linking loop has passed vehicle v.
Passed(v) == \E i \in DOMAIN order : i < cursor /\ order[i] = v

FilesTyped == files.vehicles \in Seq(VehicleRows) /\ files.stations \in Seq(StationRows)

OrderInv == Elements(order) = DOMAIN vehicle /\ Distinct(order)

\* Until linking starts nothing is docked or pooled; while it runs, only
\* vehicles that it has passed are.
PlaceInv ==
  /\ phase \in {"vehicles", "stations"} =>
       pool = <<>> /\ \A s \in DOMAIN docked : docked[s] = <<>>
  /\ phase = "link" =>
       /\ \A i \in DOMAIN pool : Passed(pool[i])
       /\ \A s \in DOMAIN docked : \A i \in DOMAIN docked[s] : Passed(docked[s][i])

ColdInv ==
  /\ FilesTyped /\ TypeOK /\ OrderInv /\ PlaceInv
  /\ phase # "failed" => Loaded
  /\ CapacityRespected /\ DockedOnce /\ EveryVehiclePlaced /\ FailsOnlyOnShortRow

-----------------------------------------------------------------------------
(* Sequences.                                                               *)

LEMMA Appended ==
  ASSUME NEW S, NEW seq \in Seq(S), NEW x \in S
  PROVE  /\ Append(seq, x) \in Seq(S)
         /\ Len(seq) \in Nat /\ DOMAIN seq = 1..Len(seq)
         /\ Len(Append(seq, x)) = Len(seq) + 1
         /\ DOMAIN Append(seq, x) = 1..(Len(seq) + 1)
         /\ \A i \in DOMAIN seq : Append(seq, x)[i] = seq[i]
         /\ Append(seq, x)[Len(seq) + 1] = x
         /\ Elements(Append(seq, x)) = Elements(seq) \cup {x}
<1>1. /\ Append(seq, x) \in Seq(S)
      /\ Len(seq) \in Nat /\ DOMAIN seq = 1..Len(seq)
      /\ Len(Append(seq, x)) = Len(seq) + 1
      /\ \A i \in DOMAIN seq : Append(seq, x)[i] = seq[i]
      /\ Append(seq, x)[Len(seq) + 1] = x
  OBVIOUS
<1>2. DOMAIN Append(seq, x) = 1..(Len(seq) + 1)
  BY <1>1, LenProperties
<1>3. \A i \in 1..(Len(seq) + 1) : i \in 1..Len(seq) \/ i = Len(seq) + 1
  BY <1>1
<1>4. Elements(Append(seq, x)) = Elements(seq) \cup {x}
  BY <1>1, <1>2, <1>3 DEF Elements
<1> QED  BY <1>1, <1>2, <1>4

-----------------------------------------------------------------------------
(* Rows.                                                                    *)

\* The vehicle made of a row satisfies the constructors.
LEMMA RowMakesVehicle ==
  ASSUME NEW row \in VehicleRows, RowLoads(row)
  PROVE  row.id \in VehicleIds /\ VehicleTyped(VehicleOf(row))
<1>1. /\ HeadRead(row) /\ HeadGood(row) /\ ExtraGood(row)
      /\ row.extra # Missing /\ row.date # Missing
      /\ row.station # Missing /\ row.station # Junk
  BY DEF RowLoads, RowAborts
<1>2. row.id \in VehicleIds
  BY <1>1 DEF VehicleRows, HeadRead, HeadGood
<1>3. VehicleType(row.type) \in Types /\ ParseStatus(row.status) \in Statuses
  BY <1>1 DEF HeadGood
<1>4. ParseInt(row.rides, 0) \in Int
  BY <1>1 DEF VehicleRows, HeadRead, HeadGood, ParseInt, Marks
<1>5. Extra(row) \in IF VehicleType(row.type) = "bike" THEN {0, 1} ELSE 0..100
  <2>1. CASE VehicleType(row.type) = "bike"
    BY <2>1 DEF Extra, ParseBool
  <2>2. CASE VehicleType(row.type) # "bike"
    <3>1. ParseInt(row.extra, 100) \in Int
      BY <1>1, <2>2 DEF VehicleRows, ExtraGood, ParseInt, Marks
    <3>2. \A n \in Int : Clamp(n) \in 0..100
      BY DEF Clamp
    <3> QED  BY <2>2, <3>1, <3>2 DEF Extra
  <2> QED  BY <2>1, <2>2
<1>6. ParseDate(row.date) \in Dates \cup {None}
  BY <1>1 DEF VehicleRows, ParseDate, Marks
<1>7. (IF row.station = Blank THEN None ELSE row.station) \in Int \cup {None}
  BY <1>1 DEF VehicleRows, Marks
<1> QED  BY <1>2, <1>3, <1>4, <1>5, <1>6, <1>7 DEF VehicleOf, VehicleTyped

\* A startup that aborts has met a row with a field missing.
LEMMA AbortNeedsShortRow ==
  ASSUME NEW row, RowAborts(row)
  PROVE  Missing \in {row.id, row.frame, row.type, row.status, row.rides, row.extra, row.date,
                      row.station}
BY DEF RowAborts, HeadRead

-----------------------------------------------------------------------------
(* Reading.                                                                 *)

LEMMA NoRowLeft ==
  ASSUME FilesTyped, TypeOK, UNCHANGED files,
         phase = "vehicles", cursor \in DOMAIN files.vehicles, cursor' = cursor + 1
  PROVE  GoodBefore(cursor)' = GoodBefore(cursor)
           \cup {i \in {cursor} : RowLoads(files.vehicles[i])}
<1>1. cursor \in Nat \ {0} /\ DOMAIN files.vehicles = 1..Len(files.vehicles)
      /\ Len(files.vehicles) \in Nat
  BY LenProperties DEF TypeOK, FilesTyped
<1>2. \A i \in DOMAIN files.vehicles : i < cursor + 1 <=> i < cursor \/ i = cursor
  BY <1>1
<1> QED  BY <1>2 DEF GoodBefore

\* A good row makes or replaces one vehicle.
LEMMA LoadKeeps ==
  ASSUME ColdInv, phase = "vehicles", cursor \in DOMAIN files.vehicles,
         NEW row, row = files.vehicles[cursor], RowLoads(row),
         AddVehicle(row.id, VehicleOf(row)), cursor' = cursor + 1,
         UNCHANGED <<files, phase, capacity, docked, pool>>
  PROVE  ColdInv'
<1>0. /\ FilesTyped /\ TypeOK /\ OrderInv /\ PlaceInv /\ LoadedBefore(cursor)
      /\ CapacityRespected /\ DockedOnce /\ EveryVehiclePlaced /\ FailsOnlyOnShortRow
  BY DEF ColdInv, Loaded, RowsRead
<1>1. /\ DOMAIN files.vehicles = 1..Len(files.vehicles) /\ Len(files.vehicles) \in Nat
      /\ row \in VehicleRows /\ cursor \in Nat \ {0}
  BY <1>0, LenProperties, ElementOfSeq DEF FilesTyped, TypeOK
<1> DEFINE id == row.id
<1> DEFINE new == VehicleOf(row)
<1>2. id \in VehicleIds /\ VehicleTyped(new)
  BY <1>1, RowMakesVehicle
<1>3. /\ DOMAIN vehicle' = DOMAIN vehicle \cup {id} /\ vehicle'[id] = new
      /\ \A v \in DOMAIN vehicle \ {id} : vehicle'[v] = vehicle[v]
  BY DEF AddVehicle, Put
<1>4. order \in Seq(DOMAIN vehicle) /\ order \in Seq(DOMAIN vehicle')
  BY <1>0, <1>3, SeqMonotonic DEF TypeOK
<1>5. order' \in Seq(DOMAIN vehicle') /\ OrderInv'
  <2>1. CASE id \in DOMAIN vehicle
    BY <1>0, <1>3, <1>4, <2>1 DEF AddVehicle, OrderInv, Distinct, Elements
  <2>2. CASE id \notin DOMAIN vehicle
    <3>1. order' = Append(order, id) /\ id \in DOMAIN vehicle' /\ id \notin Elements(order)
      BY <1>0, <1>3, <2>2 DEF AddVehicle, OrderInv
    <3>2. order' \in Seq(DOMAIN vehicle') /\ Elements(order') = Elements(order) \cup {id}
      BY <1>4, <3>1, Appended
    <3>3. Distinct(order')
      BY <1>0, <1>4, <3>1, ElementsAppend DEF OrderInv
    <3> QED  BY <1>0, <1>3, <3>2, <3>3 DEF OrderInv, Elements, Distinct
  <2> QED  BY <2>1, <2>2
<1>6. TypeOK'
  <2>1. cursor' \in Nat \ {0}
    BY <1>1
  <2>2. DOMAIN vehicle' \subseteq VehicleIds /\ \A v \in DOMAIN vehicle' : VehicleTyped(vehicle'[v])
    BY <1>0, <1>2, <1>3 DEF TypeOK
  <2>3. docked' \in [DOMAIN capacity' -> Seq(DOMAIN vehicle')] /\ pool' \in Seq(DOMAIN vehicle')
    BY <1>0, <1>3, SeqMonotonic DEF TypeOK
  <2> QED  BY <1>0, <1>5, <2>1, <2>2, <2>3 DEF TypeOK
<1>7. Loaded'
  <2> DEFINE rows == files.vehicles
  <2> DEFINE G == GoodBefore(cursor)
  <2>1. GoodBefore(cursor)' = G \cup {cursor}
    BY <1>0, NoRowLeft
  <2>2. \A i \in G : i < cursor /\ i \in Nat
    BY <1>1 DEF GoodBefore
  <2>3. DOMAIN vehicle' = {rows[i].id : i \in G \cup {cursor}}
    BY <1>0, <1>3 DEF LoadedBefore
  <2>4. ASSUME NEW i \in G \cup {cursor},
               \A j \in G \cup {cursor} : rows[j].id = rows[i].id => j <= i
        PROVE  SameButStation(vehicle'[rows[i].id], rows[i])
    <3>1. CASE i = cursor
      BY <1>3, <3>1 DEF SameButStation
    <3>2. CASE i \in G
      <4>1. rows[i].id # id
        BY <1>1, <2>2, <2>4, <3>2
      <4>2. rows[i].id \in DOMAIN vehicle
        BY <1>0, <3>2 DEF LoadedBefore
      <4>3. SameButStation(vehicle[rows[i].id], rows[i])
        BY <1>0, <2>4, <3>2 DEF LoadedBefore
      <4> QED  BY <1>3, <4>1, <4>2, <4>3
    <3> QED  BY <3>1, <3>2
  <2>5. RowsRead' = cursor'
    BY DEF RowsRead
  <2> QED  BY <2>1, <2>3, <2>4, <2>5 DEF Loaded, LoadedBefore
<1>8. PlaceInv' /\ CapacityRespected' /\ EveryVehiclePlaced' /\ FailsOnlyOnShortRow'
  BY <1>0 DEF PlaceInv, CapacityRespected, EveryVehiclePlaced, FailsOnlyOnShortRow, Full
\* Nothing is docked yet.
<1>9. DockedOnce'
  <2>1. pool' = <<>> /\ \A s \in DOMAIN docked' : docked'[s] = <<>>
    BY <1>0 DEF PlaceInv
  <2> QED  BY <2>1 DEF DockedOnce
<1> QED  BY <1>0, <1>5, <1>6, <1>7, <1>8, <1>9 DEF ColdInv, FilesTyped

\* A step that leaves the repositories alone and reads no good row.
LEMMA QuietKeeps ==
  ASSUME ColdInv, UNCHANGED <<files, repositories>>, cursor' \in Nat \ {0},
         phase' \in {"vehicles", "stations", "link", "serving", "failed"},
         phase' = "link" => cursor' = 1 /\ phase = "stations",
         phase' \in {"vehicles", "stations"} => phase \in {"vehicles", "stations"},
         phase' # "failed" => Loaded',
         FailsOnlyOnShortRow'
  PROVE  ColdInv'
<1>0. /\ FilesTyped /\ TypeOK /\ OrderInv /\ PlaceInv
      /\ CapacityRespected /\ DockedOnce
  BY DEF ColdInv
<1>1. FilesTyped' /\ TypeOK' /\ OrderInv' /\ CapacityRespected' /\ DockedOnce'
  BY <1>0 DEF FilesTyped, TypeOK, OrderInv, CapacityRespected, DockedOnce, repositories
<1>2. PlaceInv'
  BY <1>0 DEF PlaceInv, repositories
<1>3. EveryVehiclePlaced'
  <2>1. \A i \in DOMAIN order' : i \in Nat \ {0}
    BY <1>1, LenProperties DEF TypeOK
  <2> QED  BY <2>1 DEF EveryVehiclePlaced
<1> QED  BY <1>1, <1>2, <1>3 DEF ColdInv

LEMMA ReadVehicleKeeps ==
  ASSUME ColdInv, ReadVehicle
  PROVE  ColdInv'
<1>0. FilesTyped /\ TypeOK /\ LoadedBefore(cursor) /\ RowsRead = cursor
      /\ phase = "vehicles" /\ cursor \in DOMAIN files.vehicles /\ UNCHANGED files
  BY DEF ColdInv, ReadVehicle, Loaded, RowsRead
<1> DEFINE row == files.vehicles[cursor]
<1>1. CASE RowAborts(row) /\ Abort
  <2>1. FailsOnlyOnShortRow'
    BY <1>0, <1>1, AbortNeedsShortRow DEF FailsOnlyOnShortRow
  <2>2. UNCHANGED <<files, repositories>> /\ phase' = "failed" /\ cursor' \in Nat \ {0}
    BY <1>0, <1>1 DEF Abort, TypeOK
  <2> QED  BY <2>1, <2>2, QuietKeeps
<1>2. CASE ~RowAborts(row) /\ ~RowLoads(row) /\ Skip
  <2>1. GoodBefore(cursor)' = GoodBefore(cursor)
    BY <1>0, <1>2, NoRowLeft DEF Skip
  <2>2. Loaded'
    BY <1>0, <1>2, <2>1 DEF LoadedBefore, Skip, repositories, Loaded, RowsRead
  <2>3. /\ UNCHANGED <<files, repositories>> /\ phase' = "vehicles"
        /\ cursor' \in Nat \ {0}
    BY <1>0, <1>2 DEF Skip, TypeOK
  <2>4. FailsOnlyOnShortRow'
    BY <2>3 DEF FailsOnlyOnShortRow
  <2> QED  BY <1>0, <2>2, <2>3, <2>4, QuietKeeps
<1>3. CASE /\ RowLoads(row) /\ AddVehicle(row.id, VehicleOf(row))
           /\ cursor' = cursor + 1 /\ UNCHANGED <<phase, capacity, docked, pool>>
  BY <1>0, <1>3, LoadKeeps
<1> QED  BY <1>1, <1>2, <1>3 DEF ReadVehicle

LEMMA ReadStationKeeps ==
  ASSUME ColdInv, ReadStation
  PROVE  ColdInv'
<1>0. /\ FilesTyped /\ TypeOK /\ OrderInv /\ PlaceInv /\ Loaded
      /\ CapacityRespected /\ DockedOnce
      /\ phase = "stations" /\ cursor \in DOMAIN files.stations /\ UNCHANGED files
  BY DEF ColdInv, ReadStation
<1> DEFINE row == files.stations[cursor]
<1>1. CASE StationAborts(row) /\ Abort
  <2>1. FailsOnlyOnShortRow'
    BY <1>0, <1>1 DEF FailsOnlyOnShortRow
  <2>2. UNCHANGED <<files, repositories>> /\ phase' = "failed" /\ cursor' \in Nat \ {0}
    BY <1>0, <1>1 DEF Abort, TypeOK
  <2> QED  BY <2>1, <2>2, QuietKeeps
<1>2. CASE ~StationAborts(row) /\ ~StationLoads(row) /\ Skip
  <2>1. /\ UNCHANGED <<files, repositories>> /\ phase' = "stations"
        /\ cursor' \in Nat \ {0}
    BY <1>0, <1>2 DEF Skip, TypeOK
  <2>2. Loaded'
    BY <1>0, <2>1 DEF LoadedBefore, GoodBefore, Loaded, RowsRead, repositories
  <2>3. FailsOnlyOnShortRow'
    BY <2>1 DEF FailsOnlyOnShortRow
  <2> QED  BY <1>0, <2>1, <2>2, <2>3, QuietKeeps
<1>3. CASE /\ StationLoads(row)
           /\ capacity' = Put(capacity, row.id, row.capacity)
           /\ docked' = Put(docked, row.id, <<>>)
           /\ cursor' = cursor + 1
           /\ UNCHANGED <<phase, vehicle, order, pool>>
  <2>1. row.id \in Nat /\ row.capacity \in Nat \ {0} /\ cursor' \in Nat \ {0}
    BY <1>0, <1>3 DEF StationLoads, TypeOK
  <2>2. DOMAIN docked = DOMAIN capacity
    BY <1>0 DEF TypeOK
  <2>3. \A s \in DOMAIN docked' :
          /\ docked'[s] = <<>>
          /\ capacity'[s] = IF s = row.id THEN row.capacity ELSE capacity[s]
    BY <1>0, <1>3, <2>2 DEF Put, PlaceInv
  <2>4. docked' = [s \in DOMAIN capacity' |-> <<>>] /\ DOMAIN capacity' = DOMAIN capacity \cup {row.id}
    BY <1>0, <1>3, <2>2 DEF Put, PlaceInv
  <2>5. \A s \in DOMAIN capacity' : capacity'[s] \in Nat \ {0}
    BY <1>0, <2>1, <2>3, <2>4 DEF TypeOK
  <2>6. TypeOK'
    <3>1. docked' \in [DOMAIN capacity' -> Seq(DOMAIN vehicle)]
      <4>1. <<>> \in Seq(DOMAIN vehicle)
        BY EmptySeq
      <4> QED  BY <2>4, <4>1
    <3>2. DOMAIN capacity' \subseteq Nat
      BY <1>0, <2>1, <2>4 DEF TypeOK
    <3> QED  BY <1>0, <1>3, <2>1, <2>5, <3>1, <3>2 DEF TypeOK
  <2>7. CapacityRespected'
    BY <2>3, <2>4, <2>5 DEF CapacityRespected
  <2>8. PlaceInv' /\ OrderInv' /\ FilesTyped' /\ DockedOnce'
    BY <1>0, <1>3, <2>3 DEF PlaceInv, OrderInv, FilesTyped, DockedOnce
  <2>9. Loaded'
    BY <1>0, <1>3 DEF LoadedBefore, GoodBefore, Loaded, RowsRead
  <2>10. EveryVehiclePlaced' /\ FailsOnlyOnShortRow'
    BY <1>0, <1>3 DEF EveryVehiclePlaced, FailsOnlyOnShortRow
  <2> QED  BY <2>6, <2>7, <2>8, <2>9, <2>10 DEF ColdInv
<1> QED  BY <1>1, <1>2, <1>3 DEF ReadStation

\* The end of a loop: the next one starts with its first row or vehicle.
LEMMA NextPhaseKeeps ==
  ASSUME ColdInv,
         \/ NextPhase("vehicles", Len(files.vehicles), "stations")
         \/ NextPhase("stations", Len(files.stations), "link")
         \/ NextPhase("link", Len(order), "serving")
  PROVE  ColdInv'
<1>1. /\ UNCHANGED <<files, repositories>> /\ cursor' = 1
      /\ \/ phase = "vehicles" /\ phase' = "stations" /\ cursor = Len(files.vehicles) + 1
         \/ phase = "stations" /\ phase' = "link"
         \/ phase = "link" /\ phase' = "serving"
  BY DEF NextPhase
<1>2. Loaded
  BY <1>1 DEF ColdInv
<1>3. Loaded'
  BY <1>1, <1>2 DEF LoadedBefore, GoodBefore, Loaded, RowsRead, repositories
<1>4. FailsOnlyOnShortRow'
  BY <1>1 DEF FailsOnlyOnShortRow
<1> QED  BY <1>1, <1>3, <1>4, QuietKeeps

-----------------------------------------------------------------------------
(* Linking.                                                                 *)

\* What linking changes of a vehicle is no more than its station.
LEMMA RestationKeeps ==
  ASSUME ColdInv, phase = "link", UNCHANGED <<files, phase, order>>,
         NEW v \in DOMAIN vehicle, NEW t \in Int \cup {None},
         vehicle' = [vehicle EXCEPT ![v].station = t]
  PROVE  /\ DOMAIN vehicle' = DOMAIN vehicle /\ vehicle'[v].station = t
         /\ \A x \in DOMAIN vehicle \ {v} : vehicle'[x] = vehicle[x]
         /\ \A x \in DOMAIN vehicle : VehicleTyped(vehicle'[x])
         /\ Loaded'
<1>1. /\ VehicleTyped(vehicle[v]) /\ Loaded
      /\ \A x \in DOMAIN vehicle : VehicleTyped(vehicle[x])
  BY DEF ColdInv, TypeOK
<1>2. /\ DOMAIN vehicle' = DOMAIN vehicle
      /\ vehicle'[v] = [vehicle[v] EXCEPT !.station = t]
      /\ \A x \in DOMAIN vehicle \ {v} : vehicle'[x] = vehicle[x]
  OBVIOUS
<1>3. VehicleTyped(vehicle'[v]) /\ vehicle'[v].station = t
  BY <1>1, <1>2 DEF VehicleTyped
<1>4. [vehicle'[v] EXCEPT !.station = None] = [vehicle[v] EXCEPT !.station = None]
  BY <1>1, <1>2 DEF VehicleTyped
<1>5. \A row : \A x \in DOMAIN vehicle : SameButStation(vehicle[x], row) => SameButStation(vehicle'[x], row)
  BY <1>2, <1>4 DEF SameButStation
<1>6. LoadedBefore(RowsRead)'
  <2> DEFINE rows == files.vehicles
  <2> DEFINE G == GoodBefore(RowsRead)
  <2>1. G' = G
    BY DEF GoodBefore, RowsRead
  <2>2. DOMAIN vehicle = {rows[i].id : i \in G}
    BY <1>1 DEF Loaded, LoadedBefore
  <2>3. ASSUME NEW i \in G, \A j \in G : rows[j].id = rows[i].id => j <= i
        PROVE  SameButStation(vehicle'[rows[i].id], rows[i])
    <3>1. SameButStation(vehicle[rows[i].id], rows[i]) /\ rows[i].id \in DOMAIN vehicle
      BY <1>1, <2>2, <2>3 DEF Loaded, LoadedBefore
    <3> QED  BY <1>5, <3>1
  <2> HIDE DEF G
  <2>4. (GoodBefore(RowsRead))' = G
    BY <2>1 DEF G
  <2> QED  BY <1>2, <2>2, <2>3, <2>4 DEF LoadedBefore
<1> QED  BY <1>1, <1>2, <1>3, <1>6 DEF Loaded

\* The vehicle to link next is nowhere yet, and the loop has not passed it.
LEMMA NextIsNowhere ==
  ASSUME ColdInv, phase = "link", cursor \in DOMAIN order, NEW v, v = order[cursor]
  PROVE  /\ v \in DOMAIN vehicle /\ ~Passed(v)
         /\ v \notin Elements(pool) /\ \A s \in DOMAIN docked : v \notin Elements(docked[s])
         /\ \A i \in DOMAIN order : i < cursor => order[i] # v
<1>1. OrderInv /\ PlaceInv /\ DOMAIN order \subseteq Nat /\ cursor \in Nat
  BY LenProperties DEF ColdInv, TypeOK
<1>2. v \in DOMAIN vehicle
  BY <1>1 DEF OrderInv, Elements
<1>3. \A i \in DOMAIN order : i < cursor => order[i] # v
  BY <1>1 DEF OrderInv, Distinct
<1>4. ~Passed(v)
  BY <1>3 DEF Passed
<1> QED  BY <1>1, <1>2, <1>3, <1>4 DEF PlaceInv, Elements

LEMMA PassedGrows ==
  ASSUME TypeOK, cursor \in DOMAIN order, cursor' = cursor + 1, UNCHANGED order
  PROVE  /\ \A v : Passed(v)' <=> Passed(v) \/ v = order[cursor]
         /\ \A i \in DOMAIN order : i < cursor' <=> i < cursor \/ i = cursor
<1>1. DOMAIN order \subseteq Nat /\ cursor \in Nat /\ cursor' \in Nat
  BY LenProperties DEF TypeOK
<1>2. \A i \in DOMAIN order : i < cursor' <=> i < cursor \/ i = cursor
  BY <1>1
<1> QED  BY <1>2 DEF Passed

LEMMA LinkKeeps ==
  ASSUME ColdInv, LinkVehicle
  PROVE  ColdInv'
<1> DEFINE v == order[cursor]
<1> DEFINE s == vehicle[v].station
<1>0. /\ FilesTyped /\ TypeOK /\ OrderInv /\ PlaceInv /\ Loaded
      /\ CapacityRespected /\ DockedOnce /\ EveryVehiclePlaced
      /\ phase = "link" /\ cursor \in DOMAIN order /\ cursor' = cursor + 1
      /\ UNCHANGED <<files, order, capacity>>
  BY DEF ColdInv, LinkVehicle
<1>1. /\ v \in DOMAIN vehicle /\ ~Passed(v)
      /\ v \notin Elements(pool) /\ \A t \in DOMAIN docked : v \notin Elements(docked[t])
      /\ \A i \in DOMAIN order : i < cursor => order[i] # v
  BY <1>0, NextIsNowhere
<1>2. /\ \A x : Passed(x)' <=> Passed(x) \/ x = v
      /\ \A i \in DOMAIN order : i < cursor' <=> i < cursor \/ i = cursor
  BY <1>0, PassedGrows
<1>3. /\ cursor' \in Nat \ {0} /\ DOMAIN docked = DOMAIN capacity
      /\ s \in Int \cup {None} /\ None \notin Nat
      /\ \A t \in DOMAIN docked : docked[t] \in Seq(DOMAIN vehicle)
      /\ DOMAIN docked \subseteq Nat
  BY <1>0, <1>1, MarkAssumption DEF TypeOK, VehicleTyped
<1> HIDE DEF v, s
<1>4. CASE UNCHANGED <<phase, vehicle, docked, pool>> /\ ~Linkable(s)
  <2>1. TypeOK' /\ OrderInv' /\ FilesTyped' /\ CapacityRespected' /\ DockedOnce'
    BY <1>0, <1>3, <1>4 DEF TypeOK, OrderInv, FilesTyped, CapacityRespected, DockedOnce
  <2>2. PlaceInv' /\ FailsOnlyOnShortRow'
    BY <1>0, <1>2, <1>4 DEF PlaceInv, FailsOnlyOnShortRow
  <2>3. Loaded'
    BY <1>0, <1>4 DEF Loaded, LoadedBefore, GoodBefore, RowsRead
  <2>4. EveryVehiclePlaced'
    <3>1. NowhereToDock(v)
      BY <1>3, <1>4 DEF Linkable, NowhereToDock, s
    <3>2. \A x : NowhereToDock(x)' <=> NowhereToDock(x)
      BY <1>0, <1>4 DEF NowhereToDock, Full
    <3> QED  BY <1>0, <1>2, <1>4, <3>1, <3>2 DEF EveryVehiclePlaced, v
  <2> QED  BY <2>1, <2>2, <2>3, <2>4 DEF ColdInv
<1>5. CASE PoolVehicle(v) /\ UNCHANGED <<phase, docked>>
  <2>1. /\ DOMAIN vehicle' = DOMAIN vehicle /\ vehicle'[v].station = None
        /\ \A x \in DOMAIN vehicle \ {v} : vehicle'[x] = vehicle[x]
        /\ \A x \in DOMAIN vehicle : VehicleTyped(vehicle'[x])
        /\ Loaded'
    BY <1>0, <1>1, <1>5, RestationKeeps DEF PoolVehicle
  <2>2. /\ pool' \in Seq(DOMAIN vehicle) /\ Elements(pool') = Elements(pool) \cup {v}
        /\ DOMAIN pool' = 1..(Len(pool) + 1) /\ DOMAIN pool = 1..Len(pool) /\ Len(pool) \in Nat
        /\ \A i \in DOMAIN pool : pool'[i] = pool[i]
        /\ pool'[Len(pool) + 1] = v
    BY <1>0, <1>1, <1>5, Appended DEF PoolVehicle, TypeOK
  <2>3. TypeOK' /\ OrderInv' /\ FilesTyped' /\ CapacityRespected'
    BY <1>0, <1>3, <1>5, <2>1, <2>2 DEF TypeOK, OrderInv, FilesTyped, CapacityRespected
  <2>4. \A i \in DOMAIN pool' : i \in DOMAIN pool \/ i = Len(pool) + 1
    BY <2>2
  <2>5. PlaceInv'
    BY <1>0, <1>2, <1>5, <2>2, <2>4 DEF PlaceInv
  <2>6. DockedOnce'
    <3>1. ASSUME NEW t \in DOMAIN docked, NEW i \in DOMAIN docked[t]
          PROVE  docked[t][i] \in DOMAIN vehicle \ {v}
      BY <1>1, <1>3, <3>1 DEF Elements
    <3>2. ASSUME NEW i \in DOMAIN pool PROVE pool[i] \in DOMAIN vehicle \ {v}
      BY <1>0, <1>1, <3>2 DEF Elements, TypeOK
    <3> QED  BY <1>0, <1>5, <2>1, <2>2, <2>4, <3>1, <3>2 DEF DockedOnce
  <2>7. EveryVehiclePlaced'
    <3>1. \A i \in DOMAIN order : order[i] \in DOMAIN vehicle
      BY <1>0 DEF OrderInv, Elements
    <3>2. \A x \in DOMAIN vehicle \ {v} : NowhereToDock(x)' <=> NowhereToDock(x)
      BY <1>0, <1>5, <2>1 DEF NowhereToDock, Full
    <3> QED  BY <1>0, <1>1, <1>2, <1>5, <2>2, <3>1, <3>2 DEF EveryVehiclePlaced, v
  <2>8. FailsOnlyOnShortRow'
    BY <1>0, <1>5 DEF FailsOnlyOnShortRow
  <2> QED  BY <2>1, <2>3, <2>5, <2>6, <2>7, <2>8 DEF ColdInv
<1>6. CASE ~Full(s) /\ Linkable(s) /\ DockAt(s, v) /\ UNCHANGED <<phase, pool>>
  <2>0. s \in DOMAIN capacity /\ s \in DOMAIN docked /\ Len(docked[s]) # capacity[s]
    BY <1>3, <1>6 DEF Linkable, Full
  <2>1. /\ DOMAIN vehicle' = DOMAIN vehicle /\ vehicle'[v].station = s
        /\ \A x \in DOMAIN vehicle \ {v} : vehicle'[x] = vehicle[x]
        /\ \A x \in DOMAIN vehicle : VehicleTyped(vehicle'[x])
        /\ Loaded'
    BY <1>0, <1>1, <1>3, <1>6, RestationKeeps DEF DockAt
  <2> DEFINE n == Len(docked[s]) + 1
  <2>2. /\ docked' = [docked EXCEPT ![s] = Append(docked[s], v)]
        /\ docked[s] \in Seq(DOMAIN vehicle)
    BY <1>3, <1>6, <2>0 DEF DockAt
  <2>3. /\ docked'[s] \in Seq(DOMAIN vehicle) /\ Elements(docked'[s]) = Elements(docked[s]) \cup {v}
        /\ DOMAIN docked'[s] = 1..n /\ DOMAIN docked[s] = 1..Len(docked[s]) /\ Len(docked[s]) \in Nat
        /\ \A i \in DOMAIN docked[s] : docked'[s][i] = docked[s][i]
        /\ docked'[s][n] = v /\ Len(docked'[s]) = n
    BY <1>1, <2>0, <2>2, Appended
  <2>4. DOMAIN docked' = DOMAIN docked /\ \A t \in DOMAIN docked \ {s} : docked'[t] = docked[t]
    BY <2>2
  <2>5. TypeOK' /\ OrderInv' /\ FilesTyped'
    <3>1. docked' \in [DOMAIN capacity -> Seq(DOMAIN vehicle)]
      BY <1>0, <2>2, <2>3, <2>0 DEF TypeOK
    <3> QED  BY <1>0, <1>3, <1>6, <2>1, <3>1 DEF TypeOK, OrderInv, FilesTyped
  <2>6. CapacityRespected'
    <3>1. capacity[s] \in Nat /\ Len(docked[s]) <= capacity[s]
      BY <1>0, <2>0 DEF TypeOK, CapacityRespected
    <3>2. Len(docked'[s]) <= capacity[s]
      BY <2>0, <2>3, <3>1
    <3> QED  BY <1>0, <2>4, <3>2 DEF CapacityRespected
  <2>7. \A i \in DOMAIN docked'[s] : i \in DOMAIN docked[s] \/ i = n
    BY <2>3
  <2> HIDE DEF n
  <2>8. PlaceInv'
    BY <1>0, <1>2, <1>6, <2>3, <2>4, <2>7 DEF PlaceInv
  <2>9. DockedOnce'
    <3>1. ASSUME NEW t \in DOMAIN docked, NEW i \in DOMAIN docked[t]
          PROVE  docked[t][i] \in DOMAIN vehicle \ {v}
      BY <1>1, <1>3, <3>1 DEF Elements
    <3>2. ASSUME NEW i \in DOMAIN pool PROVE pool[i] \in DOMAIN vehicle \ {v}
      BY <1>0, <1>1, <3>2 DEF Elements, TypeOK
    <3>3. ASSUME NEW t \in DOMAIN docked', NEW i \in DOMAIN docked'[t]
          PROVE  /\ vehicle'[docked'[t][i]].station = t
                 /\ \A j \in DOMAIN docked'[t] : docked'[t][i] = docked'[t][j] => i = j
      <4>1. CASE t # s
        BY <1>0, <2>1, <2>4, <3>1, <3>3, <4>1 DEF DockedOnce
      <4>2. CASE t = s
        BY <1>0, <2>0, <2>1, <2>3, <2>7, <3>1, <3>3, <4>2 DEF DockedOnce
      <4> QED  BY <4>1, <4>2
    <3>4. ASSUME NEW i \in DOMAIN pool'
          PROVE  /\ vehicle'[pool'[i]].station = None
                 /\ \A j \in DOMAIN pool' : pool'[i] = pool'[j] => i = j
      BY <1>0, <1>6, <2>1, <3>2 DEF DockedOnce
    <3> QED  BY <3>3, <3>4 DEF DockedOnce
  <2>10. EveryVehiclePlaced'
    <3>1. \A i \in DOMAIN order : order[i] \in DOMAIN vehicle
      BY <1>0 DEF OrderInv, Elements
    <3>2. \A x \in DOMAIN vehicle \ {v} : NowhereToDock(x) => NowhereToDock(x)'
      BY <1>0, <1>3, <2>0, <2>1, <2>4 DEF NowhereToDock, Full
    <3>3. \A t \in DOMAIN docked : Elements(docked[t]) \subseteq Elements(docked'[t])
      BY <2>3, <2>4
    <3>4. v \in Elements(docked'[s])
      BY <2>3
    <3> QED  BY <1>0, <1>1, <1>2, <1>6, <2>0, <2>4, <3>1, <3>2, <3>3, <3>4 DEF EveryVehiclePlaced, v
  <2>11. FailsOnlyOnShortRow'
    BY <1>0, <1>6 DEF FailsOnlyOnShortRow
  <2> QED  BY <2>1, <2>5, <2>6, <2>8, <2>9, <2>10, <2>11 DEF ColdInv
<1>7. \/ UNCHANGED <<phase, vehicle, docked, pool>> /\ ~Linkable(s)
      \/ PoolVehicle(v) /\ UNCHANGED <<phase, docked>>
      \/ ~Full(s) /\ Linkable(s) /\ DockAt(s, v) /\ UNCHANGED <<phase, pool>>
  BY DEF LinkVehicle, Linkable, v, s
<1> QED  BY <1>4, <1>5, <1>6, <1>7

-----------------------------------------------------------------------------
LEMMA ColdStep ==
  ASSUME ColdInv, [ColdNext]_cvars
  PROVE  ColdInv'
<1>1. CASE UNCHANGED cvars
  BY <1>1 DEF cvars, repositories, ColdInv, FilesTyped, TypeOK, OrderInv, PlaceInv, Passed,
              Loaded, LoadedBefore, GoodBefore, RowsRead, CapacityRespected, DockedOnce,
              EveryVehiclePlaced, NowhereToDock, Full, FailsOnlyOnShortRow
<1> QED  BY <1>1, ReadVehicleKeeps, ReadStationKeeps, LinkKeeps, NextPhaseKeeps DEF ColdNext

LEMMA ColdInitially == ColdInit => ColdInv
<1> SUFFICES ASSUME ColdInit PROVE ColdInv
  OBVIOUS
<1>1. FilesTyped /\ phase = "vehicles" /\ cursor = 1 /\ order = <<>> /\ pool = <<>>
  BY FileAssumption DEF ColdInit, FilesTyped
<1>2. DOMAIN vehicle = {} /\ DOMAIN capacity = {} /\ DOMAIN docked = {} /\ docked = [x \in {} |-> None]
  BY DEF ColdInit, EmptyDict
<1>3. GoodBefore(1) = {}
  BY <1>1, LenProperties DEF GoodBefore, FilesTyped
<1>4. Loaded
  BY <1>1, <1>2, <1>3 DEF Loaded, LoadedBefore, RowsRead
<1>5. TypeOK
  <2>1. order \in Seq(DOMAIN vehicle) /\ pool \in Seq(DOMAIN vehicle)
    BY <1>1, EmptySeq
  <2>2. docked \in [DOMAIN capacity -> Seq(DOMAIN vehicle)]
    BY <1>2
  <2> QED  BY <1>1, <1>2, <2>1, <2>2 DEF TypeOK
<1>6. OrderInv /\ PlaceInv /\ CapacityRespected /\ DockedOnce
  BY <1>1, <1>2 DEF OrderInv, Elements, Distinct, PlaceInv, CapacityRespected, DockedOnce
<1>7. EveryVehiclePlaced /\ FailsOnlyOnShortRow
  BY <1>1 DEF EveryVehiclePlaced, FailsOnlyOnShortRow
<1> QED  BY <1>1, <1>4, <1>5, <1>6, <1>7 DEF ColdInv

\* The invariant of the cold start, from which the six theorems below follow.
THEOREM ColdSafe == ColdSpec => []ColdInv
<1>1. ColdInv /\ [ColdNext]_cvars => ColdInv'
  BY ColdStep
<1> QED  BY <1>1, ColdInitially, PTL DEF ColdSpec

\* Whatever the files hold, what is in memory satisfies the constructors.
THEOREM ColdTyped == ColdSpec => []TypeOK
<1>1. ColdInv => TypeOK
  BY DEF ColdInv
<1> QED  BY <1>1, ColdSafe, PTL

\* No file makes a station hold more than its capacity.
THEOREM ColdCapacity == ColdSpec => []CapacityRespected
<1>1. ColdInv => CapacityRespected
  BY DEF ColdInv
<1> QED  BY <1>1, ColdSafe, PTL

\* A vehicle is docked or pooled once at most, at the station it names.
THEOREM ColdDockedOnce == ColdSpec => []DockedOnce
<1>1. ColdInv => DockedOnce
  BY DEF ColdInv
<1> QED  BY <1>1, ColdSafe, PTL

\* Linking forgets no vehicle.
THEOREM ColdPlaced == ColdSpec => []EveryVehiclePlaced
<1>1. ColdInv => EveryVehiclePlaced
  BY DEF ColdInv
<1> QED  BY <1>1, ColdSafe, PTL

\* Only a row that is too short stops the service from starting.
THEOREM ColdFails == ColdSpec => []FailsOnlyOnShortRow
<1>1. ColdInv => FailsOnlyOnShortRow
  BY DEF ColdInv
<1> QED  BY <1>1, ColdSafe, PTL

LEMMA LastRow == ASSUME ColdInv PROVE LastRowWins
<1> SUFFICES ASSUME phase \in {"stations", "link"} PROVE LastRowWins
  BY DEF LastRowWins
<1> DEFINE rows == files.vehicles
           good == {i \in DOMAIN rows : RowLoads(rows[i])}
<1>1. LoadedBefore(Len(rows) + 1) /\ OrderInv
  BY DEF ColdInv, Loaded, RowsRead
<1>2. GoodBefore(Len(rows) + 1) = good
  <2>1. DOMAIN rows = 1..Len(rows) /\ Len(rows) \in Nat
    BY LenProperties DEF ColdInv, FilesTyped
  <2>2. \A i \in DOMAIN rows : i < Len(rows) + 1
    BY <2>1
  <2> QED  BY <2>2 DEF GoodBefore
<1> QED  BY <1>1, <1>2 DEF LastRowWins, LoadedBefore, OrderInv, Distinct, SameButStation

\* The repository holds one vehicle per id with a good row, made of the last one.
THEOREM ColdLastRow == ColdSpec => []LastRowWins
<1>1. ColdInv => LastRowWins
  BY LastRow
<1> QED  BY <1>1, ColdSafe, PTL
=============================================================================
