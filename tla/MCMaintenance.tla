----------------------------- MODULE MCMaintenance -----------------------------
(* Small instances of Maintenance for TLC.                                  *)
EXTENDS Maintenance

CONSTANTS a, b, c   \* vehicle ids

SomeVehicles == {a, b, c}
SomeStations == {1, 2}
SomeDates == {"today", "earlier"}

Row(id, type, status, rides, extra, station) ==
  [id |-> id, frame |-> Blank, type |-> type, status |-> status, rides |-> rides, extra |-> extra,
   date |-> "earlier", station |-> station]

Docks == Row(a, "bicycle", "available", 0, 1, 1)
Waits == Row(b, "scooter", Blank, 1, Blank, 1)
Pools == Row(c, "electric_bicycle", "degraded", 2, 150, 2)
Stray == Row(b, "bike", "in_use", 1, Junk, 3)                 \* no such station

OddRows == {Row(a, "ebike", "available", Blank, -1, Blank),   \* at no station
            [Row(a, "bike", "available", 0, 0, 1) EXCEPT !.date = Junk],
            Row(a, "scooter", "available", 0, Junk, 1),       \* skipped
            Row(Blank, "bike", "available", 0, 0, 1),         \* skipped
            Row(b, Junk, "available", 0, 0, 1),               \* skipped
            Row(c, "bike", Junk, 0, 0, 1),                    \* skipped
            Row(c, "bike", "available", 0, 0, Junk),          \* skipped
            Row(c, "bike", "available", 0, 0, Missing),
            [Row(c, "bike", "available", 0, 0, 1) EXCEPT !.date = Missing],
            [Row(c, "bike", "available", 0, 0, 1) EXCEPT !.frame = Missing],
            Row(b, "bicycle", "available", 0, Missing, 1),
            Row(Missing, Missing, Missing, Missing, Missing, Missing)}

\* Every file of one row, every row after a good one, a row that a good one
\* replaces, and a file of three vehicles.
SomeVehicleFiles ==
  LET rows == {Docks, Waits, Pools, Stray} \cup OddRows
  IN  {<<>>, <<Docks, Pools, Waits>>} \cup {<<x>> : x \in rows}
      \cup {<<Docks, x>> : x \in rows} \cup {<<x, Docks>> : x \in {row \in rows : row.id = a}}

StationRow(id, capac) == [id |-> id, place |-> "good", capacity |-> capac]

SomeStationFiles ==
  {<<StationRow(1, 2), StationRow(2, 1), StationRow(1, 1)>>,
   <<StationRow(2, 0), StationRow(1, 2), StationRow(1, -1), StationRow(-1, 1)>>,
   <<StationRow(1, 1), [StationRow(2, 1) EXCEPT !.place = Blank]>>,
   <<StationRow(1, 1), StationRow(2, Missing)>>}

OneSlot == [s \in SomeStations |-> 1]
=============================================================================
