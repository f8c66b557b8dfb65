--------------------------- MODULE MaintenanceProofs ---------------------------
(***************************************************************************)
(* Theorems about Maintenance, for every fleet, files of any length, and   *)
(* any number of rides, reports, treatments, restarts and crashes.         *)
(***************************************************************************)
EXTENDS Maintenance, ColdStartProofs, FiniteSetTheorems

-----------------------------------------------------------------------------
(* Lists of vehicles.                                                       *)

\* list.remove(x) on a list that has x once, or not at all.
LEMMA RemovedFirst ==
  ASSUME NEW A, NEW seq \in Seq(A), Distinct(seq), NEW x
  PROVE  /\ RemoveFirst(seq, x) \in Seq(A)
         /\ Elements(RemoveFirst(seq, x)) = Elements(seq) \ {x}
         /\ Distinct(RemoveFirst(seq, x))
         /\ Len(RemoveFirst(seq, x)) <= Len(seq)
         /\ x \notin Elements(seq) => RemoveFirst(seq, x) = seq
<1>1. /\ Len(seq) \in Nat /\ DOMAIN seq = 1..Len(seq)
      /\ \A i \in 1..Len(seq) : seq[i] \in A
  BY LenProperties
<1>2. CASE x \notin Elements(seq)
  <2>1. ~ \E i \in 1..Len(seq) : seq[i] = x
    BY <1>1, <1>2 DEF Elements
  <2> QED  BY <1>2, <2>1 DEF RemoveFirst
<1>3. CASE x \in Elements(seq)
  <2> DEFINE I == {i \in 1..Len(seq) : seq[i] = x}
  <2>1. PICK k \in I : \A i \in I : i = k
    BY <1>1, <1>3 DEF Elements, Distinct
  <2>2. Min(I) = k
    BY <1>1, <2>1 DEF Min
  <2>3. RemoveFirst(seq, x) = SubSeq(seq, 1, k - 1) \o SubSeq(seq, k + 1, Len(seq))
    BY <2>1, <2>2 DEF RemoveFirst, SelectInSeq, RemoveAt
  <2>4. k \in 1..Len(seq) /\ seq[k] = x /\ \A i \in 1..Len(seq) : i # k => seq[i] # x
    BY <2>1
  <2> HIDE DEF I
  <2> DEFINE left == SubSeq(seq, 1, k - 1)
             right == SubSeq(seq, k + 1, Len(seq))
             rest == left \o right
  <2>5. /\ left \in Seq(A) /\ Len(left) = k - 1
        /\ \A i \in 1..(k - 1) : left[i] = seq[i]
    <3>1. 1 \in Int /\ k - 1 \in Int /\ \A i \in 1..(k - 1) : seq[i] \in A
      BY <1>1, <2>4
    <3>2. /\ left \in Seq(A) /\ Len(left) = IF 1 <= k - 1 THEN (k - 1) - 1 + 1 ELSE 0
          /\ \A i \in 1..((k - 1) - 1 + 1) : left[i] = seq[1 + i - 1]
      BY <3>1, SubSeqProperties
    <3> QED  BY <1>1, <2>4, <3>2
  <2>6. /\ right \in Seq(A) /\ Len(right) = Len(seq) - k
        /\ \A i \in 1..(Len(seq) - k) : right[i] = seq[k + i]
    <3>1. k + 1 \in Int /\ Len(seq) \in Int /\ \A i \in (k + 1)..Len(seq) : seq[i] \in A
      BY <1>1, <2>4
    <3>2. /\ right \in Seq(A)
          /\ Len(right) = IF k + 1 <= Len(seq) THEN Len(seq) - (k + 1) + 1 ELSE 0
          /\ \A i \in 1..(Len(seq) - (k + 1) + 1) : right[i] = seq[(k + 1) + i - 1]
      BY <3>1, SubSeqProperties
    <3>0. k \in Int /\ Len(seq) \in Int /\ k <= Len(seq)
      BY <1>1, <2>4
    <3>3. Len(seq) - (k + 1) + 1 = Len(seq) - k /\ (k + 1 <= Len(seq) \/ Len(seq) - k = 0)
      BY <3>0
    <3>4. \A i \in 1..(Len(seq) - k) : (k + 1) + i - 1 = k + i
      BY <3>0
    <3> HIDE DEF right
    <3>5. Len(right) = Len(seq) - k
      BY <1>1, <2>4, <3>2, <3>3
    <3>6. ASSUME NEW i \in 1..(Len(seq) - k) PROVE right[i] = seq[k + i]
      <4>1. i \in 1..(Len(seq) - (k + 1) + 1)
        BY <3>3
      <4>2. right[i] = seq[(k + 1) + i - 1]
        BY <3>2, <4>1
      <4> QED  BY <3>4, <4>2
    <3> QED  BY <3>2, <3>5, <3>6
  <2> HIDE DEF left, right
  <2>7. /\ rest \in Seq(A) /\ Len(rest) = Len(seq) - 1
        /\ \A i \in 1..(Len(seq) - 1) : rest[i] = IF i < k THEN seq[i] ELSE seq[i + 1]
    <3>1. /\ rest \in Seq(A) /\ Len(rest) = Len(left) + Len(right)
          /\ \A i \in 1..(Len(left) + Len(right)) :
               rest[i] = IF i <= Len(left) THEN left[i] ELSE right[i - Len(left)]
      BY <2>5, <2>6, ConcatProperties
    <3>2. Len(left) + Len(right) = Len(seq) - 1
      BY <1>1, <2>4, <2>5, <2>6
    <3>3. ASSUME NEW i \in 1..(Len(seq) - 1)
          PROVE  rest[i] = IF i < k THEN seq[i] ELSE seq[i + 1]
      <4>1. CASE i < k
        BY <1>1, <2>4, <2>5, <3>1, <3>2, <4>1
      <4>2. CASE ~(i < k)
        <5>1. i - (k - 1) \in 1..(Len(seq) - k) /\ k + (i - (k - 1)) = i + 1
          BY <1>1, <2>4, <4>2
        <5>2. rest[i] = right[i - (k - 1)]
          BY <1>1, <2>4, <2>5, <3>1, <3>2, <4>2
        <5> QED  BY <2>6, <4>2, <5>1, <5>2
      <4> QED  BY <4>1, <4>2
    <3> QED  BY <3>1, <3>2, <3>3
  <2> HIDE DEF rest
  <2>8. DOMAIN rest = 1..(Len(seq) - 1)
    BY <2>7, LenProperties
  <2>9. Elements(rest) = Elements(seq) \ {x}
    <3>1. ASSUME NEW i \in DOMAIN rest PROVE rest[i] \in Elements(seq) \ {x}
      <4>1. i \in 1..Len(seq) /\ i + 1 \in 1..Len(seq) /\ (i < k => i # k) /\ (~(i < k) => i + 1 # k)
        BY <1>1, <2>4, <2>8
      <4>2. rest[i] = IF i < k THEN seq[i] ELSE seq[i + 1]
        BY <2>7, <2>8
      <4> QED  BY <1>1, <2>4, <4>1, <4>2 DEF Elements
    <3>2. ASSUME NEW i \in DOMAIN seq, seq[i] # x PROVE seq[i] \in Elements(rest)
      <4>1. i # k
        BY <2>4, <3>2
      <4>2. CASE i < k
        <5>1. i \in 1..(Len(seq) - 1) /\ rest[i] = seq[i]
          BY <1>1, <2>4, <2>7, <4>2
        <5> QED  BY <2>8, <5>1 DEF Elements
      <4>3. CASE i > k
        <5>1. i - 1 \in 1..(Len(seq) - 1) /\ ~(i - 1 < k) /\ (i - 1) + 1 = i
          BY <1>1, <2>4, <4>3
        <5>2. rest[i - 1] = seq[i]
          BY <2>7, <5>1
        <5> QED  BY <2>8, <5>1, <5>2 DEF Elements
      <4> QED  BY <1>1, <2>4, <4>1, <4>2, <4>3
    <3> QED  BY <3>1, <3>2 DEF Elements
  <2>10. Distinct(rest)
    <3> DEFINE at(i) == IF i < k THEN i ELSE i + 1
    <3>1. \A i \in DOMAIN rest : at(i) \in DOMAIN seq /\ rest[i] = seq[at(i)]
      BY <1>1, <2>4, <2>7, <2>8
    <3>2. \A i, j \in DOMAIN rest : at(i) = at(j) => i = j
      BY <1>1, <2>4, <2>8
    <3> HIDE DEF at
    <3> QED  BY <3>1, <3>2 DEF Distinct
  <2>11. Len(rest) <= Len(seq)
    BY <1>1, <2>7
  <2> QED  BY <1>3, <2>3, <2>7, <2>9, <2>10, <2>11 DEF rest, left, right
<1> QED  BY <1>2, <1>3

-----------------------------------------------------------------------------
(* A fleet in which every vehicle stands in one place at most, and the      *)
(* events that are about it.  The parts are parameters: they are the        *)
(* variables, or what a snapshot says.                                      *)

EventRecords ==
  [id : Nat, vehicle : VehicleIds, treatments : {RequiredTreatments[t] : t \in Types}]

VehiclesGood(V) ==
  /\ DOMAIN V \subseteq VehicleIds /\ V = [v \in DOMAIN V |-> V[v]]
  /\ \A v \in DOMAIN V : VehicleTyped(V[v])

\* The repository lists vehicles in memory, the reported ones no more.
OrderGood(V, O) == O \in Seq(DOMAIN V) /\ Distinct(O)

StationsGood(V, C, D) ==
  /\ DOMAIN C \subseteq Nat /\ \A s \in DOMAIN C : C[s] \in Nat \ {0}
  /\ D \in [DOMAIN C -> Seq(DOMAIN V)]
  /\ \A s \in DOMAIN C : /\ Len(D[s]) <= C[s] /\ Distinct(D[s])
                         /\ \A v \in Elements(D[s]) : V[v].station = s

PoolGood(V, P) ==
  P \in Seq(DOMAIN V) /\ Distinct(P) /\ \A v \in Elements(P) : V[v].station = None

LogGood(V, L) ==
  /\ L \in Seq(EventRecords) /\ \A i \in DOMAIN L : L[i].id = i
  /\ \A e \in Elements(L) :
       e.vehicle \in DOMAIN V => e.treatments = RequiredTreatments[V[e.vehicle].type]

FleetGood(V, O, C, D, P, L) ==
  /\ VehiclesGood(V) /\ OrderGood(V, O) /\ StationsGood(V, C, D)
  /\ PoolGood(V, P) /\ LogGood(V, L)

\* A ridden vehicle, if it is in memory, is at no station and not in the pool.
RidesGood(V, C, P, R) ==
  /\ DOMAIN R \subseteq VehicleIds /\ R = [v \in DOMAIN R |-> R[v]]
  /\ \A v \in DOMAIN R : R[v] \in DOMAIN C \cup {None}
  /\ \A v \in DOMAIN R \cap DOMAIN V : V[v].station = None /\ v \notin Elements(P)

\* W is V after vehicle v became r.
Changed(V, W, v, r) ==
  /\ v \in DOMAIN V /\ DOMAIN W = DOMAIN V /\ W[v] = r
  /\ \A x \in DOMAIN V \ {v} : W[x] = V[x]

LEMMA VehicleChanged ==
  ASSUME NEW V, VehiclesGood(V), NEW v \in DOMAIN V, NEW r, VehicleTyped(r)
  PROVE  VehiclesGood([V EXCEPT ![v] = r]) /\ Changed(V, [V EXCEPT ![v] = r], v, r)
<1> DEFINE W == [V EXCEPT ![v] = r]
<1>1. /\ DOMAIN W = DOMAIN V /\ W[v] = r /\ W = [x \in DOMAIN V |-> W[x]]
      /\ \A x \in DOMAIN V \ {v} : W[x] = V[x]
  OBVIOUS
<1> HIDE DEF W
<1>2. \A x \in DOMAIN V : VehicleTyped(W[x])
  BY <1>1 DEF VehiclesGood
<1>3. VehiclesGood(W) /\ Changed(V, W, v, r)
  BY <1>1, <1>2 DEF VehiclesGood, Changed
<1> QED  BY <1>3 DEF W

LEMMA OrderChanged ==
  ASSUME NEW V, NEW W, NEW v, NEW r, Changed(V, W, v, r), NEW O, OrderGood(V, O)
  PROVE  OrderGood(W, O)
BY DEF Changed, OrderGood

\* No vehicle changes its type.
LEMMA LogChanged ==
  ASSUME NEW V, NEW W, NEW v, NEW r, Changed(V, W, v, r), r.type = V[v].type,
         NEW L, LogGood(V, L)
  PROVE  LogGood(W, L)
BY DEF Changed, LogGood

LEMMA PoolChanged ==
  ASSUME NEW V, NEW W, NEW v, NEW r, Changed(V, W, v, r), NEW P, PoolGood(V, P)
  PROVE  /\ PoolGood(W, Dropped(P, v)) /\ Elements(Dropped(P, v)) = Elements(P) \ {v}
         /\ r.station = V[v].station => PoolGood(W, P)
         /\ r.station = None => PoolGood(W, Append(Dropped(P, v), v))
<1>1. P \in Seq(DOMAIN V) /\ Distinct(P) /\ DOMAIN W = DOMAIN V /\ v \in DOMAIN V
  BY DEF Changed, PoolGood
<1>2. /\ Dropped(P, v) \in Seq(DOMAIN V) /\ Distinct(Dropped(P, v))
      /\ Elements(Dropped(P, v)) = Elements(P) \ {v}
  BY <1>1, DroppedList
<1>3. Elements(P) \subseteq DOMAIN V
  BY <1>1, ElementsOfList
<1>4. \A x \in Elements(P) \ {v} : W[x].station = None
  BY <1>3 DEF Changed, PoolGood
<1>5. PoolGood(W, Dropped(P, v))
  BY <1>1, <1>2, <1>4 DEF PoolGood
<1>6. r.station = V[v].station => PoolGood(W, P)
  BY <1>1, <1>4 DEF PoolGood, Changed
<1>7. ASSUME r.station = None PROVE PoolGood(W, Append(Dropped(P, v), v))
  <2> PICK rest : rest = Dropped(P, v)
    OBVIOUS
  <2>1. rest \in Seq(DOMAIN V) /\ v \in DOMAIN V /\ Distinct(rest) /\ v \notin Elements(rest)
    BY <1>1, <1>2
  <2>2. /\ Append(rest, v) \in Seq(DOMAIN V) /\ Elements(Append(rest, v)) = Elements(rest) \cup {v}
        /\ Distinct(Append(rest, v))
    BY <2>1, ElementsAppend, AppendProperties
  <2>3. W[v].station = None
    BY <1>7 DEF Changed
  <2> QED  BY <1>1, <1>2, <1>4, <2>2, <2>3 DEF PoolGood
<1> QED  BY <1>2, <1>5, <1>6, <1>7

\* v was not in the pool.
LEMMA PoolKept ==
  ASSUME NEW V, NEW W, NEW v, NEW r, Changed(V, W, v, r), NEW P, PoolGood(V, P), v \notin Elements(P)
  PROVE  PoolGood(W, P) /\ Dropped(P, v) = P
<1>1. P \in Seq(DOMAIN V) /\ DOMAIN W = DOMAIN V /\ Elements(P) \subseteq DOMAIN V \ {v}
  BY ElementsOfList DEF Changed, PoolGood
<1>2. Elements(P) \subseteq Elements(P) \ {v}
  OBVIOUS
<1> QED  BY <1>1, <1>2, KeptAll DEF Dropped, PoolGood, Changed

\* v joins the pool.
LEMMA PoolJoined ==
  ASSUME NEW V, NEW W, NEW v, NEW r, Changed(V, W, v, r), PoolGood(V, pool),
         v \notin Elements(pool), r.station = None
  PROVE  PoolGood(W, Pooled(v)) /\ Elements(Pooled(v)) = Elements(pool) \cup {v}
<1>1. pool \in Seq(DOMAIN V) /\ v \in DOMAIN V /\ Pooled(v) = Append(pool, v)
  BY DEF Changed, PoolGood, Pooled
<1>2. PoolGood(W, Append(Dropped(pool, v), v)) /\ Dropped(pool, v) = pool
  BY PoolChanged, PoolKept
<1> QED  BY <1>1, <1>2, ElementsAppend

\* The rides on the other vehicles go on.
LEMMA RidesKept ==
  ASSUME NEW V, NEW W, NEW v, NEW r, Changed(V, W, v, r), NEW C, NEW P, NEW R,
         RidesGood(V, C, P, R), NEW Q, Elements(Q) \subseteq Elements(P) \cup {v},
         v \in DOMAIN R => r.station = None /\ v \notin Elements(Q)
  PROVE  RidesGood(W, C, Q, R)
BY DEF RidesGood, Changed

LEMMA RideStarted ==
  ASSUME NEW V, NEW C, NEW P, NEW R, RidesGood(V, C, P, R), NEW v \in VehicleIds,
         v \in DOMAIN V => V[v].station = None /\ v \notin Elements(P)
  PROVE  RidesGood(V, C, P, Put(R, v, None))
BY DEF RidesGood, Put

LEMMA RideOver ==
  ASSUME NEW V, NEW C, NEW P, NEW R, RidesGood(V, C, P, R), NEW v,
         NEW W, NEW r, Changed(V, W, v, r) \/ W = V,
         NEW Q, Elements(Q) \subseteq Elements(P) \cup {v}
  PROVE  RidesGood(W, C, Q, Without(R, v))
<1>1. /\ DOMAIN Without(R, v) = DOMAIN R \ {v}
      /\ \A x \in DOMAIN R \ {v} : Without(R, v)[x] = R[x]
      /\ Without(R, v) = [x \in DOMAIN Without(R, v) |-> Without(R, v)[x]]
  BY DEF Without
<1>2. DOMAIN W = DOMAIN V /\ \A x \in DOMAIN V \ {v} : W[x] = V[x]
  BY DEF Changed
<1> QED  BY <1>1, <1>2 DEF RidesGood

\* v has not moved, or was in no station.
LEMMA StationsKept ==
  ASSUME NEW V, NEW W, NEW v, NEW r, Changed(V, W, v, r), NEW C, NEW D, StationsGood(V, C, D),
         r.station = V[v].station \/ \A s \in DOMAIN C : v \notin Elements(D[s])
  PROVE  StationsGood(W, C, D)
<1>1. \A s \in DOMAIN C : Elements(D[s]) \subseteq DOMAIN V
  BY ElementsOfList DEF StationsGood
<1> QED  BY <1>1 DEF StationsGood, Changed

\* v goes to a station with a free slot.
LEMMA StationsDocked ==
  ASSUME NEW V, NEW W, NEW v, NEW r, Changed(V, W, v, r), NEW C, NEW D, StationsGood(V, C, D),
         \A s \in DOMAIN C : v \notin Elements(D[s]),
         NEW s \in DOMAIN C, Len(D[s]) # C[s], r.station = s
  PROVE  /\ StationsGood(W, C, [D EXCEPT ![s] = Append(D[s], v)])
         /\ v \in Elements([D EXCEPT ![s] = Append(D[s], v)][s])
<1> PICK E : E = [D EXCEPT ![s] = Append(D[s], v)]
  OBVIOUS
<1>1. /\ v \in DOMAIN V /\ DOMAIN W = DOMAIN V /\ D \in [DOMAIN C -> Seq(DOMAIN V)]
      /\ D[s] \in Seq(DOMAIN V) /\ Distinct(D[s]) /\ v \notin Elements(D[s])
      /\ C[s] \in Nat /\ Len(D[s]) <= C[s]
  BY DEF StationsGood, Changed
<1>2. PICK long : long = Append(D[s], v)
  OBVIOUS
<1>3. /\ long \in Seq(DOMAIN V) /\ Len(long) = Len(D[s]) + 1
      /\ Elements(long) = Elements(D[s]) \cup {v} /\ Distinct(long) /\ Len(D[s]) \in Nat
  BY <1>1, <1>2, AppendProperties, ElementsAppend, LenProperties
<1>4. E \in [DOMAIN C -> Seq(DOMAIN V)] /\ E[s] = long /\ \A t \in DOMAIN C \ {s} : E[t] = D[t]
  BY <1>1, <1>2, <1>3
<1>5. Len(E[s]) <= C[s]
  BY <1>1, <1>3, <1>4
<1>6. \A t \in DOMAIN C : Elements(D[t]) \subseteq DOMAIN V \ {v}
  BY ElementsOfList DEF StationsGood
<1>7. \A t \in DOMAIN C : \A x \in Elements(D[t]) : W[x].station = t
  BY <1>6 DEF StationsGood, Changed
<1>8. W[v].station = s
  BY DEF Changed
<1>9. ASSUME NEW t \in DOMAIN C
      PROVE  Len(E[t]) <= C[t] /\ Distinct(E[t]) /\ \A x \in Elements(E[t]) : W[x].station = t
  BY <1>3, <1>4, <1>5, <1>7, <1>8 DEF StationsGood
<1> QED  BY <1>1, <1>3, <1>4, <1>9 DEF StationsGood

\* v leaves the station it is in.
LEMMA StationsLeft ==
  ASSUME NEW V, NEW W, NEW v, NEW r, Changed(V, W, v, r), NEW C, NEW D, StationsGood(V, C, D),
         NEW s \in DOMAIN C, V[v].station = s
  PROVE  StationsGood(W, C, [D EXCEPT ![s] = RemoveFirst(D[s], v)])
<1> PICK E : E = [D EXCEPT ![s] = RemoveFirst(D[s], v)]
  OBVIOUS
<1>1. /\ v \in DOMAIN V /\ DOMAIN W = DOMAIN V /\ D \in [DOMAIN C -> Seq(DOMAIN V)]
      /\ D[s] \in Seq(DOMAIN V) /\ Distinct(D[s])
      /\ C[s] \in Nat /\ Len(D[s]) <= C[s]
  BY DEF StationsGood, Changed
<1>2. PICK short : short = RemoveFirst(D[s], v)
  OBVIOUS
<1>3. /\ short \in Seq(DOMAIN V) /\ Elements(short) = Elements(D[s]) \ {v} /\ Distinct(short)
      /\ Len(short) <= Len(D[s])
  BY <1>1, <1>2, RemovedFirst
<1>4. E \in [DOMAIN C -> Seq(DOMAIN V)] /\ E[s] = short /\ \A t \in DOMAIN C \ {s} : E[t] = D[t]
  BY <1>1, <1>2, <1>3
<1>5. Len(E[s]) <= C[s]
  <2>1. Len(E[s]) \in Nat /\ Len(D[s]) \in Nat
    BY <1>1, <1>3, <1>4, LenProperties
  <2> QED  BY <1>1, <1>3, <1>4, <2>1
<1>6. \A t \in DOMAIN C : Elements(E[t]) \subseteq DOMAIN V \ {v}
  <2>1. \A t \in DOMAIN C : Elements(D[t]) \subseteq DOMAIN V
    BY ElementsOfList DEF StationsGood
  <2> QED  BY <1>3, <1>4, <2>1 DEF StationsGood
<1>7. \A t \in DOMAIN C : \A x \in Elements(E[t]) : W[x].station = t
  <2>1. \A t \in DOMAIN C : Elements(E[t]) \subseteq Elements(D[t])
    BY <1>3, <1>4
  <2> QED  BY <1>6, <2>1 DEF StationsGood, Changed
<1>9. ASSUME NEW t \in DOMAIN C
      PROVE  Len(E[t]) <= C[t] /\ Distinct(E[t]) /\ \A x \in Elements(E[t]) : W[x].station = t
  BY <1>3, <1>4, <1>5, <1>7 DEF StationsGood
<1> QED  BY <1>1, <1>4, <1>9 DEF StationsGood

\* A pooled vehicle is in no station, and a docked one is not in the pool.
LEMMA OnePlace ==
  ASSUME NEW V, NEW C, NEW D, StationsGood(V, C, D), NEW P, PoolGood(V, P)
  PROVE  \A v \in Elements(P) : V[v].station \notin DOMAIN C
                               /\ \A s \in DOMAIN C : v \notin Elements(D[s])
<1>1. None \notin Nat
  BY MarkAssumption
<1> QED  BY <1>1 DEF StationsGood, PoolGood

-----------------------------------------------------------------------------
(* The events and their index.                                              *)

KeyOf == [e \in EventRecords |-> e.vehicle]
IdOf == [e \in EventRecords |-> e.id]

\* The index I is what adding the events of L one after the other leaves.
Indexed(I, L) == I = Grouped(L, KeyOf, IdOf)

LEMMA EventsKeyed == Keyed(EventRecords, VehicleIds, Nat, KeyOf, IdOf)
BY DEF Keyed, KeyOf, IdOf, EventRecords

LEMMA EventAdded ==
  ASSUME NEW V, VehiclesGood(V), NEW L, LogGood(V, L), NEW I, Indexed(I, L),
         NEW v \in DOMAIN V, NEW e, e.id = Len(L) + 1, e.vehicle = v,
         e = [id |-> e.id, vehicle |-> e.vehicle, treatments |-> e.treatments],
         e.treatments = RequiredTreatments[V[v].type]
  PROVE  /\ LogGood(V, Append(L, e)) /\ Indexed(Filed(I, v, e.id), Append(L, e))
         /\ Append(L, e)[Len(Append(L, e))] = e
<1>1. e \in EventRecords /\ L \in Seq(EventRecords) /\ Len(L) \in Nat
  BY LenProperties DEF EventRecords, VehiclesGood, VehicleTyped, LogGood
<1>2. /\ Append(L, e) \in Seq(EventRecords) /\ Elements(Append(L, e)) = Elements(L) \cup {e}
      /\ Append(L, e)[Len(Append(L, e))] = e
  BY <1>1, AppendProperties, ElementsAppend, LenProperties
<1>3. LogGood(V, Append(L, e))
  <2>1. ASSUME NEW i \in DOMAIN Append(L, e) PROVE Append(L, e)[i].id = i
    <3>1. /\ DOMAIN Append(L, e) = 1..(Len(L) + 1) /\ DOMAIN L = 1..Len(L)
          /\ Append(L, e)[Len(L) + 1] = e /\ \A k \in 1..Len(L) : Append(L, e)[k] = L[k]
      BY <1>1, AppendProperties, LenProperties
    <3>2. i = Len(L) + 1 \/ i \in DOMAIN L
      BY <1>1, <2>1, <3>1
    <3> QED  BY <3>1, <3>2 DEF LogGood
  <2> QED  BY <1>2, <2>1 DEF LogGood
<1>4. Grouped(Append(L, e), KeyOf, IdOf) = Filed(Grouped(L, KeyOf, IdOf), KeyOf[e], IdOf[e])
  BY <1>1, EventsKeyed, GroupedAppend
<1>5. KeyOf[e] = v /\ IdOf[e] = e.id
  BY <1>1 DEF KeyOf, IdOf
<1> QED  BY <1>2, <1>3, <1>4, <1>5 DEF Indexed

\* The events of a snapshot are filed again as they were.
LEMMA EventsRestored ==
  ASSUME NEW L \in Seq(EventRecords)
  PROVE  Indexed(Grouped(L, [e \in Elements(L) |-> e.vehicle], [e \in Elements(L) |-> e.id]), L)
<1> PICK key : key = [e \in Elements(L) |-> e.vehicle]
  OBVIOUS
<1> PICK value : value = [e \in Elements(L) |-> e.id]
  OBVIOUS
<1>1. Elements(L) \subseteq EventRecords /\ L \in Seq(Elements(L))
  <2>1. DOMAIN L = 1..Len(L) /\ Len(L) \in Nat /\ L = [i \in 1..Len(L) |-> L[i]]
    BY LenProperties
  <2>2. \A i \in 1..Len(L) : L[i] \in Elements(L)
    BY <2>1 DEF Elements
  <2>3. L \in Seq(Elements(L))
    BY <2>1, <2>2
  <2> QED  BY <2>3, ElementsOfList
<1>2. Keyed(Elements(L), VehicleIds, Nat, key, value) /\ Keyed(Elements(L), VehicleIds, Nat, KeyOf, IdOf)
  BY <1>1 DEF Keyed, KeyOf, IdOf, EventRecords
<1>3. \A e \in Elements(L) : key[e] = KeyOf[e] /\ value[e] = IdOf[e]
  BY <1>1 DEF KeyOf, IdOf
<1>4. Grouped(L, key, value) = Grouped(L, KeyOf, IdOf)
  BY <1>1, <1>2, <1>3, GroupedSame
<1> QED  BY <1>4 DEF Indexed

-----------------------------------------------------------------------------
(* The batch.                                                               *)

BatchRecords == [id : VehicleIds, pooled : BOOLEAN]

\* The vehicles that are still to be treated are due, each of them once.
BatchGood(B, V, P) ==
  /\ B \in Seq(BatchRecords)
  /\ \A i, j \in DOMAIN B : B[i].id = B[j].id => i = j
  /\ \A i \in DOMAIN B :
       /\ B[i].id \in DOMAIN V
       /\ IF B[i].pooled THEN B[i].id \in Elements(P) ELSE V[B[i].id].rides >= TreatAt

LEMMA BatchEmpty == ASSUME NEW V, NEW P PROVE BatchGood(<<>>, V, P)
BY EmptySeq DEF BatchGood

\* Treating a vehicle leaves the others due.
LEMMA BatchRest ==
  ASSUME NEW B, NEW V, NEW P, BatchGood(B, V, P), B # <<>>,
         NEW W, NEW r, Changed(V, W, Head(B).id, r),
         NEW Q, Elements(P) \ {Head(B).id} \subseteq Elements(Q)
  PROVE  BatchGood(Tail(B), W, Q)
<1> PICK rest : rest = Tail(B)
  OBVIOUS
<1>1. B \in Seq(BatchRecords)
  BY DEF BatchGood
<1>2. /\ rest \in Seq(BatchRecords) /\ Len(rest) = Len(B) - 1
      /\ \A i \in 1..(Len(B) - 1) : rest[i] = B[i + 1]
      /\ Head(B) = B[1]
      /\ DOMAIN B = 1..Len(B) /\ Len(B) \in Nat
  BY <1>1, HeadTailProperties, LenProperties
<1>3. DOMAIN rest = 1..(Len(B) - 1) /\ Len(B) # 0
  BY <1>1, <1>2, LenProperties, EmptySeq
<1>4. \A i \in DOMAIN rest : i + 1 \in DOMAIN B /\ 1 \in DOMAIN B /\ i + 1 # 1 /\ rest[i] = B[i + 1]
  BY <1>2, <1>3
<1>5. \A i \in DOMAIN rest : B[i + 1].id # B[1].id
  BY <1>4 DEF BatchGood
<1>6. ASSUME NEW i \in DOMAIN rest, NEW j \in DOMAIN rest, rest[i].id = rest[j].id PROVE i = j
  <2>1. i + 1 = j + 1
    BY <1>4, <1>6 DEF BatchGood
  <2> QED  BY <1>2, <1>3, <2>1
<1>7. ASSUME NEW i \in DOMAIN rest
      PROVE  /\ rest[i].id \in DOMAIN W
             /\ IF rest[i].pooled THEN rest[i].id \in Elements(Q) ELSE W[rest[i].id].rides >= TreatAt
  <2> PICK x : x = B[i + 1]
    OBVIOUS
  <2>1. /\ x.id \in DOMAIN V /\ x.id # Head(B).id /\ rest[i] = x
        /\ IF x.pooled THEN x.id \in Elements(P) ELSE V[x.id].rides >= TreatAt
    BY <1>2, <1>4, <1>5 DEF BatchGood
  <2> QED  BY <2>1 DEF Changed
<1> QED  BY <1>2, <1>6, <1>7 DEF BatchGood

\* The pool, and then the vehicles outside it with TreatAt rides or more.
LEMMA BatchDrawn ==
  ASSUME NEW V, VehiclesGood(V), NEW P, PoolGood(V, P), NEW H \in Seq(DOMAIN V), Distinct(H),
         \A v \in Elements(H) : v \notin Elements(P) /\ V[v].rides >= TreatAt
  PROVE  BatchGood([i \in DOMAIN P |-> [id |-> P[i], pooled |-> TRUE]]
                   \o [i \in DOMAIN H |-> [id |-> H[i], pooled |-> H[i] \in Elements(P)]], V, P)
<1>left. PICK left : left = [i \in DOMAIN P |-> [id |-> P[i], pooled |-> TRUE]]
  OBVIOUS
<1>right. PICK right : right = [i \in DOMAIN H |-> [id |-> H[i], pooled |-> H[i] \in Elements(P)]]
  OBVIOUS
<1>both. PICK B : B = left \o right
  OBVIOUS
<1>1. /\ P \in Seq(DOMAIN V) /\ DOMAIN P = 1..Len(P) /\ Len(P) \in Nat
      /\ \A i \in DOMAIN P : P[i] \in DOMAIN V /\ P[i] \in VehicleIds
  <2>1. P \in Seq(DOMAIN V) /\ DOMAIN V \subseteq VehicleIds
    BY DEF PoolGood, VehiclesGood
  <2>2. DOMAIN P = 1..Len(P) /\ Len(P) \in Nat /\ \A i \in 1..Len(P) : P[i] \in DOMAIN V
    BY <2>1, LenProperties
  <2> QED  BY <2>1, <2>2
<1>2. /\ DOMAIN H = 1..Len(H) /\ Len(H) \in Nat
      /\ \A i \in DOMAIN H : H[i] \in DOMAIN V /\ H[i] \in VehicleIds /\ H[i] \in Elements(H)
  <2>1. DOMAIN V \subseteq VehicleIds
    BY DEF VehiclesGood
  <2>2. DOMAIN H = 1..Len(H) /\ Len(H) \in Nat /\ \A i \in 1..Len(H) : H[i] \in DOMAIN V
    BY LenProperties
  <2> QED  BY <2>1, <2>2 DEF Elements
<1>3. /\ left \in Seq(BatchRecords) /\ Len(left) = Len(P)
      /\ \A i \in 1..Len(P) : left[i] = [id |-> P[i], pooled |-> TRUE]
  <2>1. \A i \in 1..Len(P) : [id |-> P[i], pooled |-> TRUE] \in BatchRecords
    BY <1>1 DEF BatchRecords
  <2>2. left \in [1..Len(P) -> BatchRecords] /\ DOMAIN left = 1..Len(P)
    BY <1>1, <1>left, <2>1
  <2>3. left \in Seq(BatchRecords)
    BY <1>1, <2>2
  <2>4. Len(left) = Len(P)
    BY <1>1, <2>2, <2>3, LenProperties
  <2> QED  BY <1>1, <1>left, <2>3, <2>4
<1>4. /\ right \in Seq(BatchRecords) /\ Len(right) = Len(H)
      /\ \A i \in 1..Len(H) : right[i] = [id |-> H[i], pooled |-> FALSE]
  <2>0. \A i \in 1..Len(H) : (H[i] \in Elements(P)) = FALSE
    <3>1. ASSUME NEW i \in 1..Len(H) PROVE (H[i] \in Elements(P)) = FALSE
      <4>1. H[i] \notin Elements(P)
        BY <1>2
      <4> QED  BY <4>1, SMT
    <3> QED  BY <3>1
  <2>1. \A i \in 1..Len(H) : [id |-> H[i], pooled |-> FALSE] \in BatchRecords
    BY <1>2 DEF BatchRecords
  <2>2. right = [i \in 1..Len(H) |-> [id |-> H[i], pooled |-> FALSE]]
    BY <1>2, <1>right, <2>0
  <2>3. right \in [1..Len(H) -> BatchRecords] /\ DOMAIN right = 1..Len(H)
    BY <2>1, <2>2
  <2>4. right \in Seq(BatchRecords)
    BY <1>2, <2>3
  <2>5. Len(right) = Len(H)
    BY <1>2, <2>3, <2>4, LenProperties
  <2> QED  BY <2>2, <2>4, <2>5
<1>5. /\ B \in Seq(BatchRecords)
      /\ \A i \in DOMAIN B :
           \/ i \in DOMAIN P /\ B[i].id = P[i] /\ B[i].pooled = TRUE
           \/ i \notin DOMAIN P /\ i - Len(P) \in DOMAIN H /\ B[i].id = H[i - Len(P)] /\ B[i].pooled = FALSE
      /\ DOMAIN B \subseteq Int
  <2>1. /\ B \in Seq(BatchRecords) /\ Len(B) = Len(left) + Len(right)
        /\ \A i \in 1..(Len(left) + Len(right)) : B[i] = IF i <= Len(left) THEN left[i] ELSE right[i - Len(left)]
    BY <1>3, <1>4, <1>both, ConcatProperties
  <2>2. DOMAIN B = 1..(Len(P) + Len(H))
    BY <1>3, <1>4, <2>1, LenProperties
  <2>3. ASSUME NEW i \in 1..(Len(P) + Len(H))
        PROVE  \/ i \in DOMAIN P /\ B[i].id = P[i] /\ B[i].pooled = TRUE
               \/ i \notin DOMAIN P /\ i - Len(P) \in DOMAIN H /\ B[i].id = H[i - Len(P)] /\ B[i].pooled = FALSE
    <3>1. CASE i <= Len(P)
      <4>1. i \in 1..Len(P)
        BY <1>1, <1>2, <3>1
      <4>2. B[i] = left[i]
        BY <1>3, <1>4, <2>1, <3>1
      <4>3. B[i] = [id |-> P[i], pooled |-> TRUE]
        BY <1>3, <4>1, <4>2
      <4>4. B[i].id = P[i] /\ B[i].pooled = TRUE
        BY <4>3
      <4> QED  BY <1>1, <4>1, <4>4
    <3>2. CASE ~(i <= Len(P))
      <4>1. i - Len(P) \in 1..Len(H) /\ i \notin 1..Len(P)
        BY <1>1, <1>2, <3>2
      <4>2. B[i] = right[i - Len(P)]
        BY <1>3, <1>4, <2>1, <3>2
      <4>3. B[i] = [id |-> H[i - Len(P)], pooled |-> FALSE]
        BY <1>4, <4>1, <4>2
      <4> QED  BY <1>1, <1>2, <4>1, <4>3
    <3> QED  BY <3>1, <3>2
  <2>4. 1..(Len(P) + Len(H)) \subseteq Int
    BY <1>1, <1>2
  <2> QED  BY <2>1, <2>2, <2>3, <2>4
<1>6. ASSUME NEW i \in DOMAIN B, NEW j \in DOMAIN B, B[i].id = B[j].id PROVE i = j
  <2>1. CASE i \in DOMAIN P /\ j \in DOMAIN P
    BY <1>5, <1>6, <2>1 DEF PoolGood, Distinct
  <2>2. CASE i \notin DOMAIN P /\ j \notin DOMAIN P
    <3>1. i - Len(P) = j - Len(P)
      BY <1>5, <1>6, <2>2 DEF Distinct
    <3> QED  BY <1>1, <1>5, <3>1
  <2>3. \A x \in DOMAIN P : \A y \in DOMAIN H : P[x] # H[y]
    BY <1>2 DEF Elements
  <2> QED  BY <1>5, <1>6, <2>1, <2>2, <2>3
<1>7. ASSUME NEW i \in DOMAIN B
      PROVE  /\ B[i].id \in DOMAIN V
             /\ IF B[i].pooled THEN B[i].id \in Elements(P) ELSE V[B[i].id].rides >= TreatAt
  <2>1. CASE i \in DOMAIN P
    BY <1>1, <1>5, <2>1 DEF Elements
  <2>2. CASE i \notin DOMAIN P
    <3>1. H[i - Len(P)] \in Elements(H) /\ H[i - Len(P)] \in DOMAIN V
      BY <1>2, <1>5, <2>2
    <3> QED  BY <1>5, <2>2, <3>1
  <2> QED  BY <2>1, <2>2
<1>8. BatchGood(B, V, P)
  BY <1>5, <1>6, <1>7 DEF BatchGood
<1> QED  BY <1>8, <1>left, <1>right, <1>both

-----------------------------------------------------------------------------
(* The operations of the serving fleet.                                     *)

ServingInv ==
  /\ FleetGood(vehicle, order, capacity, docked, pool, log)
  /\ Indexed(index, log) /\ BatchGood(batch, vehicle, pool)
  /\ RidesGood(vehicle, capacity, pool, ridden)

\* A vehicle in a station is not ridden, and nor is a pooled one.
LEMMA PlacedNotRidden ==
  ASSUME ServingInv
  PROVE  /\ \A s \in DOMAIN capacity : \A v \in Elements(docked[s]) :
              v \in DOMAIN vehicle /\ vehicle[v].station = s /\ v \notin DOMAIN ridden
         /\ \A v \in Elements(pool) : v \in DOMAIN vehicle /\ v \notin DOMAIN ridden
<1>1. /\ StationsGood(vehicle, capacity, docked) /\ PoolGood(vehicle, pool)
      /\ RidesGood(vehicle, capacity, pool, ridden)
  BY DEF ServingInv, FleetGood
<1>2. None \notin Nat /\ DOMAIN capacity \subseteq Nat
  BY <1>1, MarkAssumption DEF StationsGood
<1>3. /\ \A s \in DOMAIN capacity : Elements(docked[s]) \subseteq DOMAIN vehicle
      /\ Elements(pool) \subseteq DOMAIN vehicle
  BY <1>1, ElementsOfList DEF StationsGood, PoolGood
<1> QED  BY <1>1, <1>2, <1>3 DEF StationsGood, RidesGood

LEMMA TypedChange ==
  ASSUME NEW v, VehicleTyped(v), NEW t \in Int \cup {None}
  PROVE  /\ VehicleTyped([v EXCEPT !.station = t])
         /\ [v EXCEPT !.station = t].station = t /\ [v EXCEPT !.station = t].type = v.type
         /\ [v EXCEPT !.station = t].rides = v.rides
BY DEF VehicleTyped

LEMMA TypedTreated ==
  ASSUME NEW v, VehicleTyped(v)
  PROVE  /\ VehicleTyped(Treated(v))
         /\ Treated(v).station = v.station /\ Treated(v).type = v.type
<1> DEFINE R == [type : Types, status : Statuses, rides : Int, extra : 0..100,
                 date : Dates \cup {None}, station : Int \cup {None}]
<1>1. v \in R /\ "available" \in Statuses /\ 0 \in Int /\ Today \in Dates \cup {None}
  BY TodayAssumption DEF VehicleTyped, Statuses
<1>2. /\ Treated(v) \in R
      /\ Treated(v).station = v.station /\ Treated(v).type = v.type /\ Treated(v).extra = v.extra
  BY <1>1 DEF Treated
<1> QED  BY <1>2 DEF VehicleTyped

LEMMA TypedReturned ==
  ASSUME NEW v, VehicleTyped(v), NEW s \in Int
  PROVE  /\ VehicleTyped(Returned(v, s))
         /\ Returned(v, s).station = s /\ Returned(v, s).type = v.type
<1> DEFINE R == [type : Types, status : Statuses, rides : Int, extra : 0..100,
                 date : Dates \cup {None}, station : Int \cup {None}]
<1>1. v \in R /\ "available" \in Statuses /\ v.rides + 1 \in Int /\ s \in Int \cup {None}
  BY DEF VehicleTyped, Statuses
<1>2. Returned(v, s) = [v EXCEPT !.station = s, !.status = "available", !.rides = v.rides + 1]
  BY DEF Returned
<1>3. /\ Returned(v, s) \in R
      /\ Returned(v, s).station = s /\ Returned(v, s).type = v.type /\ Returned(v, s).extra = v.extra
  BY <1>1, <1>2
<1> QED  BY <1>3 DEF VehicleTyped

LEMMA MarkKeeps ==
  ASSUME ServingInv, NEW v, MarkDegraded(v)
  PROVE  ServingInv' /\ phase' = "serving" /\ Elements(pool) \subseteq Elements(pool')
<1>1. /\ VehiclesGood(vehicle) /\ OrderGood(vehicle, order) /\ StationsGood(vehicle, capacity, docked)
      /\ PoolGood(vehicle, pool) /\ LogGood(vehicle, log) /\ Indexed(index, log)
      /\ DOMAIN docked = DOMAIN capacity /\ Elements(order) \subseteq DOMAIN vehicle
      /\ RidesGood(vehicle, capacity, pool, ridden)
  BY ElementsOfList DEF ServingInv, FleetGood, StationsGood, OrderGood
<1>s. PICK s : s = vehicle[v].station
  OBVIOUS
<1>r. PICK r : r = [vehicle[v] EXCEPT !.station = None]
  OBVIOUS
<1>2. /\ phase = "serving" /\ batch = <<>> /\ v \in DOMAIN vehicle
      /\ s \in DOMAIN capacity /\ v \in Elements(docked[s])
      /\ docked' = [docked EXCEPT ![s] = RemoveFirst(docked[s], v)]
      /\ vehicle' = [vehicle EXCEPT ![v] = r]
      /\ pool' = Pooled(v)
      /\ UNCHANGED <<phase, order, capacity, batch, log, index, ridden>>
  BY <1>1, <1>s, <1>r DEF MarkDegraded, Idle, events, Repository
<1>3. VehicleTyped(r) /\ r.station = None /\ r.type = vehicle[v].type
  BY <1>1, <1>2, <1>r, TypedChange DEF VehiclesGood
<1>4. VehiclesGood(vehicle') /\ Changed(vehicle, vehicle', v, r)
  BY <1>1, <1>2, <1>3, VehicleChanged
<1>5. StationsGood(vehicle', capacity, docked')
  BY <1>1, <1>2, <1>4, <1>s, StationsLeft
<1>6. v \notin Elements(pool) /\ v \notin DOMAIN ridden
  BY <1>1, <1>2, <1>s, OnePlace, PlacedNotRidden
<1>7. PoolGood(vehicle', pool') /\ Elements(pool') = Elements(pool) \cup {v}
  BY <1>1, <1>2, <1>3, <1>4, <1>6, PoolJoined
<1>8. RidesGood(vehicle', capacity, pool', ridden)
  BY <1>1, <1>4, <1>6, <1>7, RidesKept
<1>9. OrderGood(vehicle', order) /\ LogGood(vehicle', log)
  BY <1>1, <1>3, <1>4, OrderChanged, LogChanged
<1>10. BatchGood(batch', vehicle', pool')
  BY <1>2, BatchEmpty
<1> QED  BY <1>1, <1>2, <1>4, <1>5, <1>7, <1>8, <1>9, <1>10 DEF ServingInv, FleetGood

LEMMA UnmarkKeeps ==
  ASSUME ServingInv, NEW v, UnmarkDegraded(v)
  PROVE  /\ ServingInv' /\ phase' = "serving"
         /\ \A x \in Elements(pool) :
              \/ x \in Elements(pool')
              \/ \E s \in DOMAIN docked : x \in Elements(docked'[s]) /\ ~Full(s)
<1>1. /\ VehiclesGood(vehicle) /\ OrderGood(vehicle, order) /\ StationsGood(vehicle, capacity, docked)
      /\ PoolGood(vehicle, pool) /\ LogGood(vehicle, log) /\ Indexed(index, log)
      /\ DOMAIN docked = DOMAIN capacity /\ DOMAIN capacity \subseteq Nat
      /\ RidesGood(vehicle, capacity, pool, ridden)
  BY DEF ServingInv, FleetGood, StationsGood
<1>2. /\ phase = "serving" /\ batch = <<>> /\ v \in Elements(pool) /\ v \notin DOMAIN ridden
      /\ UNCHANGED <<phase, order, capacity, batch, log, index, ridden>>
  BY PlacedNotRidden DEF UnmarkDegraded, Idle, events
<1>3. /\ v \in DOMAIN vehicle /\ VehicleTyped(vehicle[v]) /\ vehicle[v].station = None
      /\ \A s \in DOMAIN capacity : v \notin Elements(docked[s])
  <2>1. v \in DOMAIN vehicle
    BY <1>1, <1>2, ElementsOfList DEF PoolGood
  <2> QED  BY <1>1, <1>2, <2>1, OnePlace DEF PoolGood, VehiclesGood
<1>4. BatchGood(batch', vehicle', pool')
  BY <1>2, BatchEmpty
<1>5. ASSUME NEW s \in DOMAIN docked, ~Full(s), DockAt(s, v), pool' = Dropped(pool, v)
      PROVE  /\ FleetGood(vehicle', order, capacity, docked', pool', log)
             /\ RidesGood(vehicle', capacity, pool', ridden)
             /\ v \in Elements(docked'[s]) /\ Elements(pool') = Elements(pool) \ {v}
  <2>r. PICK r : r = [vehicle[v] EXCEPT !.station = s]
    OBVIOUS
  <2>1. /\ s \in DOMAIN capacity /\ s \in Int /\ Len(docked[s]) # capacity[s]
        /\ docked' = [docked EXCEPT ![s] = Append(docked[s], v)]
        /\ vehicle' = [vehicle EXCEPT ![v] = r]
    BY <1>1, <1>5, <2>r DEF Full, DockAt
  <2>2. VehicleTyped(r) /\ r.station = s /\ r.type = vehicle[v].type
    BY <1>3, <2>1, <2>r, TypedChange
  <2>3. VehiclesGood(vehicle') /\ Changed(vehicle, vehicle', v, r)
    BY <1>1, <1>3, <2>1, <2>2, VehicleChanged
  <2>4. StationsGood(vehicle', capacity, docked') /\ v \in Elements(docked'[s])
    BY <1>1, <1>3, <2>1, <2>2, <2>3, StationsDocked
  <2>5. PoolGood(vehicle', pool') /\ Elements(pool') = Elements(pool) \ {v}
    BY <1>1, <1>5, <2>3, PoolChanged
  <2>6. OrderGood(vehicle', order) /\ LogGood(vehicle', log)
    BY <1>1, <2>2, <2>3, OrderChanged, LogChanged
  <2>7. RidesGood(vehicle', capacity, pool', ridden)
    BY <1>1, <1>2, <2>3, <2>5, RidesKept
  <2> QED  BY <2>3, <2>4, <2>5, <2>6, <2>7 DEF FleetGood
<1>6. ASSUME BackToPool(v), UNCHANGED <<docked, vehicle>>
      PROVE  /\ FleetGood(vehicle', order, capacity, docked', pool', log)
             /\ RidesGood(vehicle', capacity, pool', ridden)
             /\ Elements(pool') = Elements(pool)
  <2>1. Changed(vehicle, vehicle, v, vehicle[v])
    BY <1>3 DEF Changed
  <2>2. PoolGood(vehicle, Append(Dropped(pool, v), v)) /\ Elements(Dropped(pool, v)) = Elements(pool) \ {v}
        /\ PoolGood(vehicle, Dropped(pool, v))
    BY <1>1, <1>3, <2>1, PoolChanged
  <2>3. Elements(Append(Dropped(pool, v), v)) = Elements(Dropped(pool, v)) \cup {v}
    BY <1>3, <2>2, ElementsAppend DEF PoolGood
  <2>4. Elements(pool') = Elements(pool)
    BY <1>2, <1>6, <2>2, <2>3 DEF BackToPool
  <2> QED  BY <1>1, <1>2, <1>6, <2>2, <2>4 DEF BackToPool, FleetGood, RidesGood
<1>7. \/ \E s \in DOMAIN docked : ~Full(s) /\ DockAt(s, v) /\ pool' = Dropped(pool, v)
      \/ BackToPool(v) /\ UNCHANGED <<docked, vehicle>>
  BY DEF UnmarkDegraded
<1>8. ServingInv'
  <2>1. /\ FleetGood(vehicle', order, capacity, docked', pool', log)
        /\ RidesGood(vehicle', capacity, pool', ridden)
    BY <1>5, <1>6, <1>7
  <2> QED  BY <1>1, <1>2, <1>4, <2>1 DEF ServingInv
<1>9. ASSUME NEW x \in Elements(pool)
      PROVE  \/ x \in Elements(pool')
             \/ \E s \in DOMAIN docked : x \in Elements(docked'[s]) /\ ~Full(s)
  BY <1>5, <1>6, <1>7
<1> QED  BY <1>2, <1>8, <1>9

LEMMA StartTreatingKeeps ==
  ASSUME ServingInv, StartTreating
  PROVE  ServingInv' /\ phase' = "serving" /\ pool' = pool
<1>1. /\ VehiclesGood(vehicle) /\ OrderGood(vehicle, order) /\ PoolGood(vehicle, pool)
  BY DEF ServingInv, FleetGood
<1>2. /\ phase = "serving" /\ UNCHANGED <<phase, vehicle, order, capacity, docked, pool, log, index, ridden>>
  BY DEF StartTreating, Idle, cvars, repositories, events
<1>3. PICK H : H = HighRide
  OBVIOUS
<1>4. /\ H \in Seq(DOMAIN vehicle) /\ Distinct(H)
      /\ \A v \in Elements(H) : v \notin Elements(pool) /\ vehicle[v].rides >= TreatAt
  <2> DEFINE S == {v \in Repository : TreatmentEligible(v)} \ Elements(pool)
  <2>1. /\ order \in Seq(DOMAIN vehicle) /\ Distinct(order) /\ H = Kept(order, S)
    BY <1>1, <1>3 DEF OrderGood, HighRide
  <2>2. H \in Seq(DOMAIN vehicle) /\ Distinct(H) /\ Elements(H) = Elements(order) \cap S
    <3> HIDE DEF S
    <3> QED  BY <2>1, KeptList
  <2> QED  BY <2>2 DEF TreatmentEligible
<1>5. BatchGood([i \in DOMAIN pool |-> [id |-> pool[i], pooled |-> TRUE]]
                \o [i \in DOMAIN H |-> [id |-> H[i], pooled |-> H[i] \in Elements(pool)]], vehicle, pool)
  BY <1>1, <1>4, BatchDrawn
<1>6. BatchGood(batch', vehicle, pool)
  BY <1>3, <1>5 DEF StartTreating
<1> QED  BY <1>2, <1>6 DEF ServingInv

\* A pooled vehicle that is treated goes to a free slot, if there is one.
LEMMA RelocateKeeps ==
  ASSUME NEW L, FleetGood(vehicle, order, capacity, docked, pool, L),
         NEW v \in Elements(pool), Relocate(v), pool' = Dropped(pool, v)
  PROVE  /\ FleetGood(vehicle', order, capacity, docked', pool', L)
         /\ \E r : Changed(vehicle, vehicle', v, r) /\ r.type = vehicle[v].type
         /\ Elements(pool') = Elements(pool) \ {v}
         /\ \/ \E s \in DOMAIN docked : v \in Elements(docked'[s]) /\ ~Full(s)
            \/ \A s \in DOMAIN docked : Full(s)
<1>1. /\ VehiclesGood(vehicle) /\ OrderGood(vehicle, order) /\ StationsGood(vehicle, capacity, docked)
      /\ PoolGood(vehicle, pool) /\ LogGood(vehicle, L)
      /\ DOMAIN docked = DOMAIN capacity /\ DOMAIN capacity \subseteq Nat
  BY DEF FleetGood, StationsGood
<1>2. /\ v \in DOMAIN vehicle /\ VehicleTyped(vehicle[v]) /\ vehicle[v].station = None
      /\ \A s \in DOMAIN capacity : v \notin Elements(docked[s])
  <2>1. v \in DOMAIN vehicle
    BY <1>1, ElementsOfList DEF PoolGood
  <2> QED  BY <1>1, <2>1, OnePlace DEF PoolGood, VehiclesGood
<1>3. PICK t : t = Treated(vehicle[v])
  OBVIOUS
<1>4. VehicleTyped(t) /\ t.station = None /\ t.type = vehicle[v].type
  BY <1>2, <1>3, TypedTreated
<1>5. DockedAt(v) = {}
  BY <1>1, <1>2 DEF DockedAt
<1>6. ASSUME NEW s \in DOMAIN docked, ~Full(s), docked' = Relocated(v, s),
             vehicle' = [vehicle EXCEPT ![v] = [Treated(@) EXCEPT !.station = s]]
      PROVE  /\ FleetGood(vehicle', order, capacity, docked', pool', L)
             /\ \E r : Changed(vehicle, vehicle', v, r) /\ r.type = vehicle[v].type
             /\ v \in Elements(docked'[s])
  <2>r. PICK r : r = [t EXCEPT !.station = s]
    OBVIOUS
  <2>1. /\ s \in DOMAIN capacity /\ s \in Int /\ Len(docked[s]) # capacity[s]
        /\ vehicle' = [vehicle EXCEPT ![v] = r]
    BY <1>1, <1>3, <1>6, <2>r DEF Full
  <2>2. VehicleTyped(r) /\ r.station = s /\ r.type = vehicle[v].type
    BY <1>4, <2>1, <2>r, TypedChange
  <2>3. VehiclesGood(vehicle') /\ Changed(vehicle, vehicle', v, r)
    BY <1>1, <1>2, <2>1, <2>2, VehicleChanged
  <2>4. docked' = [docked EXCEPT ![s] = Append(docked[s], v)]
    <3>1. \A x \in DOMAIN docked : RemoveFirst(docked[x], v) = docked[x]
      <4>1. \A x \in DOMAIN capacity : docked[x] \in Seq(DOMAIN vehicle) /\ Distinct(docked[x])
        BY <1>1 DEF StationsGood
      <4> QED  BY <1>1, <1>2, <4>1, RemovedFirst
    <3>2. docked = [x \in DOMAIN docked |-> docked[x]]
      BY <1>1 DEF StationsGood
    <3> QED  BY <1>6, <3>1, <3>2 DEF Relocated
  <2>5. StationsGood(vehicle', capacity, docked') /\ v \in Elements(docked'[s])
    BY <1>1, <1>2, <2>1, <2>2, <2>3, <2>4, StationsDocked
  <2>6. PoolGood(vehicle', pool')
    BY <1>1, <2>3, PoolChanged
  <2>7. OrderGood(vehicle', order) /\ LogGood(vehicle', L)
    BY <1>1, <2>2, <2>3, OrderChanged, LogChanged
  <2> QED  BY <2>2, <2>3, <2>5, <2>6, <2>7 DEF FleetGood
<1>7. ASSUME UNCHANGED docked, vehicle' = [vehicle EXCEPT ![v] = Treated(@)]
      PROVE  /\ FleetGood(vehicle', order, capacity, docked', pool', L)
             /\ \E r : Changed(vehicle, vehicle', v, r) /\ r.type = vehicle[v].type
  <2>1. VehiclesGood(vehicle') /\ Changed(vehicle, vehicle', v, t)
    BY <1>1, <1>2, <1>3, <1>4, <1>7, VehicleChanged
  <2>2. StationsGood(vehicle', capacity, docked)
    BY <1>1, <1>2, <2>1, StationsKept
  <2>3. PoolGood(vehicle', pool')
    BY <1>1, <2>1, PoolChanged
  <2>4. OrderGood(vehicle', order) /\ LogGood(vehicle', L)
    BY <1>1, <1>4, <2>1, OrderChanged, LogChanged
  <2> QED  BY <1>4, <1>7, <2>1, <2>2, <2>3, <2>4 DEF FleetGood
<1>8. \/ \E s \in DOMAIN docked :
           /\ ~Full(s) /\ docked' = Relocated(v, s)
           /\ vehicle' = [vehicle EXCEPT ![v] = [Treated(@) EXCEPT !.station = s]]
      \/ /\ \A s \in DOMAIN docked : Full(s)
         /\ vehicle' = [vehicle EXCEPT ![v] = Treated(@)] /\ UNCHANGED docked
  BY <1>5 DEF Relocate
<1>9. Elements(pool') = Elements(pool) \ {v}
  <2>1. Changed(vehicle, vehicle, v, vehicle[v])
    BY <1>2 DEF Changed
  <2> QED  BY <1>1, <2>1, PoolChanged
<1> QED  BY <1>6, <1>7, <1>8, <1>9

LEMMA TreatKeeps ==
  ASSUME ServingInv, TreatNext
  PROVE  /\ ServingInv' /\ phase' = "serving"
         /\ LET v == log'[Len(log')].vehicle IN v \in Elements(pool) \/ TreatmentEligible(v)
         /\ \A x \in Elements(pool) :
              \/ x \in Elements(pool')
              \/ \E s \in DOMAIN docked : x \in Elements(docked'[s]) /\ ~Full(s)
              \/ \A s \in DOMAIN docked : Full(s)
<1>1. /\ VehiclesGood(vehicle) /\ OrderGood(vehicle, order) /\ StationsGood(vehicle, capacity, docked)
      /\ PoolGood(vehicle, pool) /\ LogGood(vehicle, log) /\ Indexed(index, log)
      /\ FleetGood(vehicle, order, capacity, docked, pool, log)
      /\ BatchGood(batch, vehicle, pool) /\ RidesGood(vehicle, capacity, pool, ridden)
  BY DEF ServingInv, FleetGood
<1>v. PICK v : v = Head(batch).id
  OBVIOUS
<1>e. PICK e : e = Event(Len(log) + 1, v)
  OBVIOUS
<1>2. /\ phase = "serving" /\ batch # <<>> /\ batch' = Tail(batch)
      /\ log' = Append(log, e) /\ index' = Filed(index, e.vehicle, e.id)
      /\ UNCHANGED <<phase, order, capacity, ridden>>
  BY <1>v, <1>e DEF TreatNext, AddEvent
<1>3. /\ v \in DOMAIN vehicle /\ VehicleTyped(vehicle[v])
      /\ IF Head(batch).pooled THEN v \in Elements(pool) ELSE vehicle[v].rides >= TreatAt
  <2>1. batch \in Seq(BatchRecords)
    BY <1>1 DEF BatchGood
  <2>2. 1 \in DOMAIN batch /\ Head(batch) = batch[1]
    BY <1>2, <2>1, HeadTailProperties, LenProperties, EmptySeq
  <2> QED  BY <1>1, <1>v, <2>2 DEF BatchGood, VehiclesGood
<1>4. /\ e.id = Len(log) + 1 /\ e.vehicle = v /\ e.treatments = RequiredTreatments[vehicle[v].type]
      /\ e = [id |-> e.id, vehicle |-> e.vehicle, treatments |-> e.treatments] /\ e.id \in Nat
  <2>1. Len(log) + 1 \in Nat
    BY <1>1, LenProperties DEF LogGood
  <2> QED  BY <1>e, <2>1 DEF Event
<1>5. LogGood(vehicle, log') /\ Indexed(index', log') /\ log'[Len(log')] = e
  BY <1>1, <1>2, <1>3, <1>4, EventAdded
<1>6. FleetGood(vehicle, order, capacity, docked, pool, log')
  BY <1>1, <1>5 DEF FleetGood
<1>7. ASSUME Head(batch).pooled
      PROVE  /\ FleetGood(vehicle', order, capacity, docked', pool', log')
             /\ \E r : Changed(vehicle, vehicle', v, r)
             /\ RidesGood(vehicle', capacity, pool', ridden)
             /\ Elements(pool') = Elements(pool) \ {v}
             /\ \/ \E s \in DOMAIN docked : v \in Elements(docked'[s]) /\ ~Full(s)
                \/ \A s \in DOMAIN docked : Full(s)
  <2>1. v \in Elements(pool) /\ Relocate(v) /\ pool' = Dropped(pool, v)
    BY <1>3, <1>7, <1>v DEF TreatNext
  <2>2. /\ FleetGood(vehicle', order, capacity, docked', pool', log')
        /\ \E r : Changed(vehicle, vehicle', v, r)
        /\ Elements(pool') = Elements(pool) \ {v}
        /\ \/ \E s \in DOMAIN docked : v \in Elements(docked'[s]) /\ ~Full(s)
           \/ \A s \in DOMAIN docked : Full(s)
    BY <1>6, <2>1, RelocateKeeps
  <2>3. RidesGood(vehicle', capacity, pool', ridden)
    BY <1>1, <2>1, <2>2, PlacedNotRidden, RidesKept
  <2> QED  BY <2>2, <2>3
<1>8. ASSUME ~Head(batch).pooled
      PROVE  /\ FleetGood(vehicle', order, capacity, docked', pool', log')
             /\ \E r : Changed(vehicle, vehicle', v, r)
             /\ RidesGood(vehicle', capacity, pool', ridden)
             /\ pool' = pool
  <2>1. vehicle' = [vehicle EXCEPT ![v] = Treated(vehicle[v])] /\ UNCHANGED <<docked, pool>>
    BY <1>8, <1>v DEF TreatNext
  <2>2. PICK r : r = Treated(vehicle[v])
    OBVIOUS
  <2>3. VehicleTyped(r) /\ r.station = vehicle[v].station /\ r.type = vehicle[v].type
    BY <1>3, <2>2, TypedTreated
  <2>4. VehiclesGood(vehicle') /\ Changed(vehicle, vehicle', v, r)
    BY <1>1, <1>3, <2>1, <2>2, <2>3, VehicleChanged
  <2>5. StationsGood(vehicle', capacity, docked) /\ PoolGood(vehicle', pool)
    BY <1>1, <2>3, <2>4, StationsKept, PoolChanged
  <2>6. OrderGood(vehicle', order) /\ LogGood(vehicle', log')
    BY <1>1, <1>5, <2>3, <2>4, OrderChanged, LogChanged
  <2>7. RidesGood(vehicle', capacity, pool', ridden)
    <3>1. v \in DOMAIN ridden => r.station = None /\ v \notin Elements(pool)
      BY <1>1, <1>3, <2>3 DEF RidesGood
    <3>2. RidesGood(vehicle', capacity, pool, ridden)
      BY <1>1, <2>4, <3>1, RidesKept
    <3> QED  BY <2>1, <3>2
  <2> QED  BY <2>1, <2>4, <2>5, <2>6, <2>7 DEF FleetGood
<1>9. BatchGood(batch', vehicle', pool')
  <2>1. PICK r : Changed(vehicle, vehicle', v, r)
    BY <1>7, <1>8
  <2>2. Elements(pool) \ {v} \subseteq Elements(pool')
    BY <1>7, <1>8
  <2> QED  BY <1>1, <1>2, <1>v, <2>1, <2>2, BatchRest
<1>10. ServingInv'
  <2>1. FleetGood(vehicle', order, capacity, docked', pool', log') /\ RidesGood(vehicle', capacity, pool', ridden)
    BY <1>7, <1>8
  <2> QED  BY <1>2, <1>5, <1>9, <2>1 DEF ServingInv
<1>11. v \in Elements(pool) \/ TreatmentEligible(v)
  BY <1>3 DEF TreatmentEligible
<1> QED  BY <1>2, <1>4, <1>5, <1>7, <1>8, <1>10, <1>11

-----------------------------------------------------------------------------
(* Rides and reports.                                                       *)

\* The part of Next that Report and the rides take.
RideNext ==
  \/ \E v \in DOMAIN vehicle : StartByVehicle(v)
  \/ \E v \in DOMAIN vehicle, s \in DOMAIN docked : StartByLocation(s, v)
  \/ \E s \in DOMAIN docked : StartAtStation(s)
  \/ \E v \in VehicleIds : BeginEnd(v) \/ FinishEnd(v) \/ Report(v)

\* A vehicle leaves its station, and a ride on it starts.
LEMMA StartRideKeeps ==
  ASSUME ServingInv, NEW s \in DOMAIN docked, NEW v, NEW st \in Statuses, StartRide(s, v, st)
  PROVE  ServingInv' /\ phase' = "serving" /\ pool' = pool
<1>1. /\ VehiclesGood(vehicle) /\ OrderGood(vehicle, order) /\ StationsGood(vehicle, capacity, docked)
      /\ PoolGood(vehicle, pool) /\ LogGood(vehicle, log) /\ Indexed(index, log)
      /\ DOMAIN docked = DOMAIN capacity /\ RidesGood(vehicle, capacity, pool, ridden)
  BY DEF ServingInv, FleetGood, StationsGood
<1>2. /\ v \in DOMAIN vehicle /\ vehicle[v].station = s /\ v \notin DOMAIN ridden
      /\ v \notin Elements(pool) /\ VehicleTyped(vehicle[v]) /\ v \in VehicleIds
  BY <1>1, PlacedNotRidden, OnePlace DEF StartRide, VehiclesGood
<1>r. PICK r : r = [vehicle[v] EXCEPT !.station = None, !.status = st]
  OBVIOUS
<1>3. /\ phase = "serving" /\ batch = <<>>
      /\ docked' = [docked EXCEPT ![s] = RemoveFirst(docked[s], v)]
      /\ vehicle' = [vehicle EXCEPT ![v] = r] /\ ridden' = Put(ridden, v, None)
      /\ UNCHANGED <<phase, order, capacity, pool, batch, log, index>>
  BY <1>r DEF StartRide, CheckOut, Idle, events
<1>4. VehicleTyped(r) /\ r.station = None /\ r.type = vehicle[v].type
  BY <1>2, <1>r DEF VehicleTyped
<1>5. VehiclesGood(vehicle') /\ Changed(vehicle, vehicle', v, r)
  BY <1>1, <1>2, <1>3, <1>4, VehicleChanged
<1>6. StationsGood(vehicle', capacity, docked')
  BY <1>1, <1>2, <1>3, <1>5, StationsLeft
<1>7. PoolGood(vehicle', pool) /\ OrderGood(vehicle', order) /\ LogGood(vehicle', log)
  BY <1>1, <1>2, <1>4, <1>5, PoolKept, OrderChanged, LogChanged
<1>8. RidesGood(vehicle', capacity, pool, ridden')
  <2>1. RidesGood(vehicle', capacity, pool, ridden)
    BY <1>1, <1>2, <1>5, RidesKept
  <2>2. vehicle'[v].station = None
    BY <1>4, <1>5 DEF Changed
  <2> QED  BY <1>2, <1>3, <2>1, <2>2, RideStarted
<1>9. BatchGood(batch', vehicle', pool')
  BY <1>3, BatchEmpty
<1> QED  BY <1>1, <1>3, <1>5, <1>6, <1>7, <1>8, <1>9 DEF ServingInv, FleetGood

LEMMA BeginEndKeeps ==
  ASSUME ServingInv, NEW v, BeginEnd(v)
  PROVE  ServingInv' /\ phase' = "serving" /\ pool' = pool
<1>1. RidesGood(vehicle, capacity, pool, ridden) /\ DOMAIN docked = DOMAIN capacity
  BY DEF ServingInv, FleetGood, StationsGood
<1>2. /\ phase = "serving" /\ v \in DOMAIN ridden
      /\ UNCHANGED <<phase, vehicle, order, capacity, docked, pool, batch, log, index>>
  BY DEF BeginEnd, Idle, cvars, repositories, events
<1>3. PICK s \in DOMAIN docked : ridden' = [ridden EXCEPT ![v] = s]
  BY DEF BeginEnd
<1>4. RidesGood(vehicle, capacity, pool, ridden')
  BY <1>1, <1>2, <1>3 DEF RidesGood
<1> QED  BY <1>2, <1>4 DEF ServingInv

\* The vehicle is docked where there is a slot, or stays out.
LEMMA FinishEndKeeps ==
  ASSUME ServingInv, NEW v, FinishEnd(v)
  PROVE  ServingInv' /\ phase' = "serving" /\ pool' = pool
<1>1. /\ VehiclesGood(vehicle) /\ OrderGood(vehicle, order) /\ StationsGood(vehicle, capacity, docked)
      /\ PoolGood(vehicle, pool) /\ LogGood(vehicle, log) /\ Indexed(index, log)
      /\ FleetGood(vehicle, order, capacity, docked, pool, log)
      /\ DOMAIN docked = DOMAIN capacity /\ DOMAIN capacity \subseteq Nat
      /\ RidesGood(vehicle, capacity, pool, ridden)
  BY DEF ServingInv, FleetGood, StationsGood
<1>2. /\ phase = "serving" /\ batch = <<>> /\ v \in DOMAIN ridden /\ ridden[v] # None
      /\ ridden' = Without(ridden, v)
      /\ UNCHANGED <<phase, order, capacity, pool, batch, log, index>>
  BY DEF FinishEnd, Idle, events
<1>s. PICK s : s = ridden[v]
  OBVIOUS
<1>3. BatchGood(batch', vehicle', pool')
  BY <1>2, BatchEmpty
<1>4. CASE UNCHANGED <<docked, vehicle>>
  <2>1. RidesGood(vehicle', capacity, pool, ridden')
    BY <1>1, <1>2, <1>4, RideOver
  <2> QED  BY <1>1, <1>2, <1>3, <1>4, <2>1 DEF ServingInv
<1>5. ASSUME v \in Repository, ~Full(s), docked' = [docked EXCEPT ![s] = Append(docked[s], v)],
             vehicle' = [vehicle EXCEPT ![v] = Returned(vehicle[v], s)]
      PROVE  ServingInv'
  <2>1. /\ s \in DOMAIN capacity /\ s \in Int /\ Len(docked[s]) # capacity[s]
    BY <1>1, <1>2, <1>5, <1>s DEF RidesGood, Full
  <2>2. /\ v \in DOMAIN vehicle /\ VehicleTyped(vehicle[v]) /\ vehicle[v].station = None
        /\ v \notin Elements(pool) /\ \A t \in DOMAIN capacity : v \notin Elements(docked[t])
    <3>1. v \in DOMAIN vehicle
      BY <1>1, <1>5, ElementsOfList DEF OrderGood, Repository
    <3> QED  BY <1>1, <1>2, <3>1, PlacedNotRidden DEF RidesGood, VehiclesGood
  <2>r. PICK r : r = Returned(vehicle[v], s)
    OBVIOUS
  <2>3. VehicleTyped(r) /\ r.station = s /\ r.type = vehicle[v].type
    BY <2>1, <2>2, <2>r, TypedReturned
  <2>4. VehiclesGood(vehicle') /\ Changed(vehicle, vehicle', v, r)
    BY <1>1, <1>5, <2>2, <2>3, <2>r, VehicleChanged
  <2>5. StationsGood(vehicle', capacity, docked')
    <3>1. docked' = [docked EXCEPT ![s] = Append(docked[s], v)]
      BY <1>5
    <3>2. StationsGood(vehicle', capacity, [docked EXCEPT ![s] = Append(docked[s], v)])
      BY <1>1, <2>1, <2>2, <2>3, <2>4, StationsDocked
    <3> QED  BY <3>1, <3>2
  <2>6. PoolGood(vehicle', pool) /\ OrderGood(vehicle', order) /\ LogGood(vehicle', log)
    BY <1>1, <2>2, <2>3, <2>4, PoolKept, OrderChanged, LogChanged
  <2>7. RidesGood(vehicle', capacity, pool, ridden')
    BY <1>1, <1>2, <2>4, RideOver
  <2> QED  BY <1>1, <1>2, <1>3, <2>4, <2>5, <2>6, <2>7 DEF ServingInv, FleetGood
<1>6. ServingInv'
  BY <1>4, <1>5, <1>s DEF FinishEnd
<1> QED  BY <1>2, <1>6

\* The reported vehicle goes from the repository to the pool.
LEMMA ReportKeeps ==
  ASSUME ServingInv, NEW v, Report(v)
  PROVE  ServingInv' /\ phase' = "serving" /\ Elements(pool) \subseteq Elements(pool')
<1>1. /\ VehiclesGood(vehicle) /\ OrderGood(vehicle, order) /\ StationsGood(vehicle, capacity, docked)
      /\ PoolGood(vehicle, pool) /\ LogGood(vehicle, log) /\ Indexed(index, log)
      /\ RidesGood(vehicle, capacity, pool, ridden)
  BY DEF ServingInv, FleetGood
<1>r. PICK r : r = [vehicle[v] EXCEPT !.status = "degraded"]
  OBVIOUS
<1>2. /\ phase = "serving" /\ batch = <<>> /\ v \in DOMAIN ridden /\ v \in Elements(order)
      /\ vehicle' = [vehicle EXCEPT ![v] = r] /\ order' = Dropped(order, v)
      /\ pool' = Pooled(v) /\ ridden' = Without(ridden, v)
      /\ UNCHANGED <<phase, capacity, docked, batch, log, index>>
  BY <1>r DEF Report, Idle, events, Repository
<1>3. /\ v \in DOMAIN vehicle /\ VehicleTyped(vehicle[v]) /\ vehicle[v].station = None
      /\ v \notin Elements(pool)
  <2>1. v \in DOMAIN vehicle
    BY <1>1, <1>2, ElementsOfList DEF OrderGood
  <2> QED  BY <1>1, <1>2, <2>1 DEF RidesGood, VehiclesGood
<1>4. VehicleTyped(r) /\ r.station = vehicle[v].station /\ r.type = vehicle[v].type
  BY <1>3, <1>r DEF VehicleTyped, Statuses
<1>5. VehiclesGood(vehicle') /\ Changed(vehicle, vehicle', v, r)
  BY <1>1, <1>2, <1>3, <1>4, VehicleChanged
<1>6. StationsGood(vehicle', capacity, docked)
  BY <1>1, <1>4, <1>5, StationsKept
<1>7. PoolGood(vehicle', pool') /\ Elements(pool') = Elements(pool) \cup {v}
  BY <1>1, <1>2, <1>3, <1>4, <1>5, PoolJoined
<1>8. OrderGood(vehicle', order') /\ LogGood(vehicle', log)
  <2>1. OrderGood(vehicle', order) /\ LogGood(vehicle', log)
    BY <1>1, <1>4, <1>5, OrderChanged, LogChanged
  <2> QED  BY <1>2, <2>1, DroppedList DEF OrderGood
<1>9. RidesGood(vehicle', capacity, pool', ridden')
  BY <1>1, <1>2, <1>5, <1>7, RideOver
<1>10. BatchGood(batch', vehicle', pool')
  BY <1>2, BatchEmpty
<1> QED  BY <1>1, <1>2, <1>5, <1>6, <1>7, <1>8, <1>9, <1>10 DEF ServingInv, FleetGood

LEMMA RideKeeps ==
  ASSUME ServingInv, RideNext
  PROVE  ServingInv' /\ phase' = "serving" /\ Elements(pool) \subseteq Elements(pool')
<1>1. /\ "in_use" \in Statuses /\ \A v \in DOMAIN vehicle : vehicle[v].status \in Statuses
  BY DEF ServingInv, FleetGood, VehiclesGood, VehicleTyped, Statuses
<1>2. ASSUME NEW v \in DOMAIN vehicle, StartByVehicle(v) PROVE ServingInv' /\ phase' = "serving" /\ pool' = pool
  <2>1. PICK s : s = vehicle[v].station
    OBVIOUS
  <2>2. s \in DOMAIN docked /\ StartRide(s, v, vehicle[v].status)
    BY <1>2, <2>1 DEF StartByVehicle
  <2> QED  BY <1>1, <2>2, StartRideKeeps
<1>3. ASSUME NEW v, NEW s \in DOMAIN docked, StartByLocation(s, v) PROVE ServingInv' /\ phase' = "serving" /\ pool' = pool
  BY <1>1, <1>3, StartRideKeeps DEF StartByLocation
<1>4. ASSUME NEW s \in DOMAIN docked, StartAtStation(s) PROVE ServingInv' /\ phase' = "serving" /\ pool' = pool
  <2>1. StartRide(s, Last(docked[s]), "in_use")
    BY <1>4 DEF StartAtStation
  <2>2. PICK v : v = Last(docked[s])
    OBVIOUS
  <2> QED  BY <1>1, <2>1, <2>2, StartRideKeeps
<1> QED  BY <1>2, <1>3, <1>4, BeginEndKeeps, FinishEndKeeps, ReportKeeps DEF RideNext

-----------------------------------------------------------------------------
(* Restarts.                                                                *)

\* d was written when the vehicles in memory were V.
SnapshotOf(d, V) ==
  /\ FleetGood(V, d.order, d.capacity, d.vehicleIds, d.degraded, d.maintenance)
  /\ RidesGood(V, d.capacity, d.degraded, [v \in d.rides |-> None])
  /\ DOMAIN d.vehicles = Elements(d.order)
  /\ \A v \in Elements(d.order) : VehicleFromDict(d.vehicles[v]) = V[v]

GoodSnapshot(d) == \E V : SnapshotOf(d, V)

\* What is written of a vehicle is enough to build it again.
LEMMA RoundTrip ==
  ASSUME NEW v, VehicleTyped(v)
  PROVE  VehicleFromDict(VehicleToDict(v)) = v
<1>1. /\ v.extra \in Int /\ v.extra # None /\ v.type \in Types
      /\ v = [type |-> v.type, status |-> v.status, rides |-> v.rides, extra |-> v.extra,
              date |-> v.date, station |-> v.station]
  BY MarkAssumption DEF VehicleTyped
<1>2. PICK d : d = VehicleToDict(v)
  OBVIOUS
<1>3. /\ d.type = v.type /\ d.status = v.status /\ d.rides = v.rides /\ d.date = v.date
      /\ d.station = v.station
      /\ d.childSeat = IF v.type = "bike" THEN v.extra ELSE None
      /\ d.battery = IF v.type # "bike" THEN v.extra ELSE None
  BY <1>2 DEF VehicleToDict
<1>4. VehicleFromDict(d) = v
  BY <1>1, <1>3 DEF VehicleFromDict
<1> QED  BY <1>2, <1>4

LEMMA SnapshotIsGood ==
  ASSUME ServingInv
  PROVE  SnapshotOf(Snapshot, vehicle)
<1>1. PICK d : d = Snapshot
  OBVIOUS
<1>2. /\ d.vehicles = [v \in Repository |-> VehicleToDict(vehicle[v])]
      /\ d.order = order /\ d.capacity = capacity /\ d.vehicleIds = docked
      /\ d.degraded = pool /\ d.maintenance = log
      /\ d.rides = {v \in DOMAIN ridden : ridden[v] = None}
  BY <1>1 DEF Snapshot
<1>3. FleetGood(vehicle, order, capacity, docked, pool, log) /\ Elements(order) \subseteq DOMAIN vehicle
  BY ElementsOfList DEF ServingInv, FleetGood, OrderGood
<1>4. \A v \in Elements(order) : VehicleFromDict(VehicleToDict(vehicle[v])) = vehicle[v]
  BY <1>3, RoundTrip DEF FleetGood, VehiclesGood
<1>5. RidesGood(vehicle, capacity, pool, [v \in d.rides |-> None])
  BY <1>2 DEF ServingInv, RidesGood
<1>6. DOMAIN d.vehicles = Elements(d.order) /\ \A v \in Elements(d.order) : VehicleFromDict(d.vehicles[v]) = vehicle[v]
  BY <1>2, <1>4 DEF Repository
<1> QED  BY <1>1, <1>2, <1>3, <1>5, <1>6 DEF SnapshotOf

LEMMA OwnList ==
  ASSUME NEW A, NEW seq \in Seq(A), NEW B, Elements(seq) \subseteq B
  PROVE  seq \in Seq(B)
<1>1. DOMAIN seq = 1..Len(seq) /\ Len(seq) \in Nat /\ seq = [i \in 1..Len(seq) |-> seq[i]]
  BY LenProperties
<1>2. \A i \in 1..Len(seq) : seq[i] \in B
  BY <1>1 DEF Elements
<1> QED  BY <1>1, <1>2

\* What is left of a list of vehicles when only those of K are known.
LEMMA ListLeft ==
  ASSUME NEW A, NEW seq \in Seq(A), NEW K
  PROVE  /\ Kept(seq, K) \in Seq(K) /\ Elements(Kept(seq, K)) = Elements(seq) \cap K
         /\ Len(Kept(seq, K)) <= Len(seq)
         /\ Distinct(seq) => Distinct(Kept(seq, K))
<1> PICK rest : rest = Kept(seq, K)
  OBVIOUS
<1>1. /\ rest \in Seq(A) /\ Elements(rest) = Elements(seq) \cap K /\ Len(rest) <= Len(seq)
      /\ Distinct(seq) => Distinct(rest)
  BY KeptList
<1>2. rest \in Seq(K)
  BY <1>1, OwnList
<1> QED  BY <1>1, <1>2

\* A good fleet without the vehicles that are not in its repository is good.
LEMMA FleetLeft ==
  ASSUME NEW V, NEW O, NEW C, NEW D, NEW P, NEW L, NEW R,
         FleetGood(V, O, C, D, P, L), RidesGood(V, C, P, R),
         NEW K, K = Elements(O),
         NEW W, W = [v \in K |-> V[v]],
         NEW E, E = [s \in DOMAIN D |-> Kept(D[s], K)],
         NEW Q, Q = Kept(P, K)
  PROVE  FleetGood(W, O, C, E, Q, L) /\ RidesGood(W, C, Q, R) /\ K \subseteq DOMAIN V
<1>1. /\ VehiclesGood(V) /\ OrderGood(V, O) /\ StationsGood(V, C, D) /\ PoolGood(V, P) /\ LogGood(V, L)
      /\ K \subseteq DOMAIN V /\ DOMAIN W = K /\ \A v \in K : W[v] = V[v]
  BY ElementsOfList DEF FleetGood, OrderGood
<1>2. VehiclesGood(W)
  BY <1>1 DEF VehiclesGood
<1>3. OrderGood(W, O)
  BY <1>1, OwnList DEF OrderGood
<1>4. StationsGood(W, C, E)
  <2>1. /\ DOMAIN C \subseteq Nat /\ \A s \in DOMAIN C : C[s] \in Nat \ {0}
        /\ D \in [DOMAIN C -> Seq(DOMAIN V)] /\ DOMAIN E = DOMAIN C
    BY <1>1 DEF StationsGood
  <2>2. ASSUME NEW s \in DOMAIN C
        PROVE  /\ E[s] \in Seq(K) /\ Len(E[s]) <= C[s] /\ Distinct(E[s])
               /\ \A v \in Elements(E[s]) : W[v].station = s
    <3>1. /\ D[s] \in Seq(DOMAIN V) /\ E[s] = Kept(D[s], K)
          /\ Len(D[s]) <= C[s] /\ Distinct(D[s]) /\ C[s] \in Nat
      BY <1>1, <2>1 DEF StationsGood
    <3>2. /\ E[s] \in Seq(K) /\ Elements(E[s]) = Elements(D[s]) \cap K
          /\ Len(E[s]) <= Len(D[s]) /\ Distinct(E[s])
      <4>full. PICK full : full = D[s]
        OBVIOUS
      <4>1. full \in Seq(DOMAIN V) /\ Distinct(full) /\ E[s] = Kept(full, K)
        BY <3>1, <4>full
      <4>2. /\ Kept(full, K) \in Seq(K) /\ Elements(Kept(full, K)) = Elements(full) \cap K
            /\ Len(Kept(full, K)) <= Len(full) /\ Distinct(Kept(full, K))
        BY <4>1, ListLeft
      <4> QED  BY <4>1, <4>2, <4>full
    <3>3. Len(E[s]) \in Nat /\ Len(D[s]) \in Nat
      BY <3>1, <3>2, LenProperties
    <3>4. \A v \in Elements(E[s]) : W[v].station = s
      BY <1>1, <3>2 DEF StationsGood
    <3>5. Len(E[s]) <= C[s]
      <4>1. \A a, b, c \in Nat : a <= b /\ b <= c => a <= c
        OBVIOUS
      <4>2. Len(E[s]) <= Len(D[s]) /\ Len(D[s]) <= C[s] /\ C[s] \in Nat
        BY <3>1, <3>2
      <4> QED  BY <3>3, <4>1, <4>2
    <3> QED  BY <3>2, <3>4, <3>5
  <2>3. E \in [DOMAIN C -> Seq(DOMAIN W)]
    BY <1>1, <2>1, <2>2
  <2> QED  BY <2>1, <2>2, <2>3 DEF StationsGood
<1>5. Q \in Seq(K) /\ Elements(Q) = Elements(P) \cap K /\ Distinct(Q)
  BY <1>1, ListLeft DEF PoolGood
<1>6. PoolGood(W, Q)
  BY <1>1, <1>5 DEF PoolGood
<1>7. LogGood(W, L)
  BY <1>1 DEF LogGood
<1>8. RidesGood(W, C, Q, R)
  BY <1>1, <1>5 DEF RidesGood
<1> QED  BY <1>1, <1>2, <1>3, <1>4, <1>6, <1>7, <1>8 DEF FleetGood

\* A startup with the snapshot of a good fleet gives back what of that fleet is in
\* the repository.
LEMMA StartupKeeps ==
  ASSUME NEW d, NEW V, SnapshotOf(d, V), Startup(d)
  PROVE  /\ ServingInv'
         /\ phase' = "serving" /\ batch' = <<>> /\ order' = d.order /\ capacity' = d.capacity
         /\ vehicle' = [v \in Elements(d.order) |-> V[v]]
         /\ docked' = [s \in DOMAIN d.vehicleIds |-> Kept(d.vehicleIds[s], Elements(d.order))]
         /\ pool' = Kept(d.degraded, Elements(d.order))
         /\ log' = d.maintenance /\ ridden' = [v \in d.rides |-> None]
<1> DEFINE known == DOMAIN d.vehicles
           relisted == [s \in DOMAIN d.vehicleIds |-> Kept(d.vehicleIds[s], known)]
           back == Kept(d.degraded, known)
<1>W. PICK W : W = [v \in known |-> V[v]]
  OBVIOUS
<1>0. known = Elements(d.order) /\ \A v \in known : VehicleFromDict(d.vehicles[v]) = V[v]
  BY DEF SnapshotOf
<1>1. /\ FleetGood(W, d.order, d.capacity, relisted, back, d.maintenance)
      /\ RidesGood(W, d.capacity, back, [v \in d.rides |-> None])
  BY <1>0, <1>W, FleetLeft DEF SnapshotOf
<1>2. /\ RestoreVehicles(d, relisted, back)
      /\ order' = d.order /\ capacity' = d.capacity
      /\ docked' = [s \in DOMAIN relisted |-> Kept(relisted[s], known \ Elements(back))]
      /\ pool' = back
      /\ phase' = IF \E s \in DOMAIN relisted : Len(relisted[s]) > d.capacity[s]
                  THEN "failed" ELSE "serving"
      /\ batch' = <<>> /\ RestoreEvents(d) /\ ridden' = [v \in d.rides |-> None]
  BY DEF Startup
<1>3. DOMAIN relisted = DOMAIN d.vehicleIds
  OBVIOUS
<1> HIDE DEF known, relisted, back
<1>4. /\ VehiclesGood(W) /\ StationsGood(W, d.capacity, relisted) /\ PoolGood(W, back)
      /\ DOMAIN W = known /\ \A v \in known : VehicleFromDict(d.vehicles[v]) = W[v]
      /\ LogGood(W, d.maintenance)
  BY <1>0, <1>1, <1>W DEF FleetGood
<1>5. /\ relisted \in [DOMAIN d.capacity -> Seq(known)] /\ back \in Seq(known)
      /\ DOMAIN d.capacity \subseteq Nat
  BY <1>4 DEF StationsGood, PoolGood
<1>6. docked' = relisted
  <2>1. ASSUME NEW s \in DOMAIN d.capacity
        PROVE  Kept(relisted[s], known \ Elements(back)) = relisted[s]
    <3>1. /\ relisted[s] \in Seq(known) /\ Elements(relisted[s]) \subseteq known
          /\ \A v \in Elements(back) : v \notin Elements(relisted[s])
      BY <1>4, <1>5, OnePlace, ElementsOfList
    <3>2. Elements(relisted[s]) \subseteq known \ Elements(back)
      BY <3>1
    <3> QED  BY <3>1, <3>2, KeptAll
  <2> QED  BY <1>2, <1>5, <2>1
<1>7. phase' = "serving"
  <2>1. ASSUME NEW s \in DOMAIN d.capacity PROVE ~(Len(relisted[s]) > d.capacity[s])
    <3>1. Len(relisted[s]) <= d.capacity[s] /\ d.capacity[s] \in Nat /\ Len(relisted[s]) \in Nat
      BY <1>4, <1>5, LenProperties DEF StationsGood
    <3> QED  BY <3>1
  <2> QED  BY <1>2, <1>5, <2>1
<1>8. vehicle' = W
  <2> DEFINE at(v) == {s \in DOMAIN relisted : v \in Elements(relisted[s])}
             restored(v) == VehicleFromDict(d.vehicles[v])
             found(v) == CASE at(v) = {} -> restored(v)
                           [] at(v) # {} /\ v \in Elements(back) -> [restored(v) EXCEPT !.station = None]
                           [] OTHER -> [restored(v) EXCEPT !.station = CHOOSE s \in at(v) : TRUE]
  <2>1. vehicle' = [v \in known |-> found(v)]
    BY <1>2 DEF RestoreVehicles, known
  <2>2. ASSUME NEW v \in known PROVE found(v) = W[v]
    <3>1. restored(v) = W[v] /\ VehicleTyped(W[v])
      BY <1>4 DEF VehiclesGood
    <3>2. \A s \in at(v) : W[v].station = s
      BY <1>4, <1>5 DEF StationsGood
    <3>3. v \in Elements(back) => at(v) = {}
      BY <1>4, <1>5, OnePlace
    <3>4. \A r : VehicleTyped(r) => [r EXCEPT !.station = r.station] = r
      BY DEF VehicleTyped
    <3> HIDE DEF at, restored
    <3>5. CASE at(v) = {}
      BY <3>1, <3>5
    <3>6. CASE at(v) # {}
      <4>1. (CHOOSE s \in at(v) : TRUE) = W[v].station
        <5>1. (CHOOSE s \in at(v) : TRUE) \in at(v)
          BY <3>6
        <5> QED  BY <3>2, <5>1
      <4>2. v \notin Elements(back)
        BY <3>3, <3>6
      <4>3. found(v) = [restored(v) EXCEPT !.station = CHOOSE s \in at(v) : TRUE]
        BY <3>6, <4>2
      <4> QED  BY <3>1, <3>4, <4>1, <4>3
    <3> QED  BY <3>5, <3>6
  <2> HIDE DEF found
  <2> QED  BY <1>W, <2>1, <2>2
<1>9. log' = d.maintenance /\ Indexed(index', log')
  BY <1>2, <1>4, EventsRestored DEF RestoreEvents, LogGood
<1>10. ServingInv'
  <2>1. FleetGood(vehicle', order', capacity', docked', pool', log')
    BY <1>1, <1>2, <1>6, <1>8, <1>9
  <2>2. BatchGood(batch', vehicle', pool')
    BY <1>2, BatchEmpty
  <2>3. RidesGood(vehicle', capacity', pool', ridden')
    BY <1>1, <1>2, <1>8
  <2> QED  BY <1>9, <2>1, <2>2, <2>3 DEF ServingInv
<1>11. /\ docked' = [s \in DOMAIN d.vehicleIds |-> Kept(d.vehicleIds[s], Elements(d.order))]
       /\ pool' = Kept(d.degraded, Elements(d.order)) /\ vehicle' = [v \in Elements(d.order) |-> V[v]]
  BY <1>0, <1>2, <1>6, <1>8, <1>W DEF relisted, back
<1> QED  BY <1>2, <1>7, <1>9, <1>10, <1>11

-----------------------------------------------------------------------------
(* The invariant.                                                           *)

VehicleFunction == vehicle = [v \in DOMAIN vehicle |-> vehicle[v]]

NoEvents == batch = <<>> /\ log = <<>> /\ index = EmptyDict /\ ridden = EmptyDict

MInv ==
  /\ files \in [vehicles : VehicleFiles, stations : StationFiles]
  /\ phase # "serving" => ColdInv /\ VehicleFunction /\ NoEvents
  /\ phase = "serving" => ServingInv /\ cursor \in Nat \ {0}
  /\ disk # None => GoodSnapshot(disk)

\* The cold start leaves a good fleet behind.
LEMMA ColdIsGood == ColdInv /\ VehicleFunction /\ NoEvents => ServingInv /\ cursor \in Nat \ {0}
<1> SUFFICES ASSUME ColdInv, VehicleFunction, NoEvents PROVE ServingInv /\ cursor \in Nat \ {0}
  OBVIOUS
<1>1. TypeOK /\ OrderInv /\ CapacityRespected /\ DockedOnce
  BY DEF ColdInv
<1>2. VehiclesGood(vehicle) /\ OrderGood(vehicle, order)
  BY <1>1 DEF VehiclesGood, OrderGood, TypeOK, OrderInv, VehicleFunction
<1>3. StationsGood(vehicle, capacity, docked)
  <2>1. /\ DOMAIN capacity \subseteq Nat /\ \A s \in DOMAIN capacity : capacity[s] \in Nat \ {0}
        /\ docked \in [DOMAIN capacity -> Seq(DOMAIN vehicle)]
    BY <1>1 DEF TypeOK
  <2>2. ASSUME NEW s \in DOMAIN capacity
        PROVE  /\ Len(docked[s]) <= capacity[s] /\ Distinct(docked[s])
               /\ \A v \in Elements(docked[s]) : vehicle[v].station = s
    BY <1>1, <2>1 DEF CapacityRespected, DockedOnce, Distinct, Elements
  <2> QED  BY <2>1, <2>2 DEF StationsGood
<1>4. PoolGood(vehicle, pool)
  BY <1>1 DEF PoolGood, TypeOK, DockedOnce, Distinct, Elements
<1>5. LogGood(vehicle, log) /\ Indexed(index, log)
  BY ElementsEmpty, EmptySeq, GroupedNothing DEF LogGood, Indexed, NoEvents
<1>6. BatchGood(batch, vehicle, pool)
  BY BatchEmpty DEF NoEvents
<1>7. RidesGood(vehicle, capacity, pool, ridden)
  BY DEF RidesGood, NoEvents, EmptyDict
<1> QED  BY <1>1, <1>2, <1>3, <1>4, <1>5, <1>6, <1>7 DEF ServingInv, FleetGood, TypeOK

LEMMA ColdKeepsFunction ==
  ASSUME VehicleFunction, ColdNext
  PROVE  VehicleFunction'
<1>1. ASSUME NEW k, NEW v, vehicle' = Put(vehicle, k, v) PROVE VehicleFunction'
  BY <1>1 DEF Put, VehicleFunction
<1>2. ASSUME NEW v, NEW r, vehicle' = [vehicle EXCEPT ![v] = r] PROVE VehicleFunction'
  BY <1>2 DEF VehicleFunction
<1>3. CASE UNCHANGED vehicle
  BY <1>3 DEF VehicleFunction
<1>4. CASE ReadVehicle
  BY <1>1, <1>3, <1>4 DEF ReadVehicle, Skip, Abort, AddVehicle, repositories
<1>5. CASE ReadStation
  BY <1>3, <1>5 DEF ReadStation, Skip, Abort, repositories
<1>6. CASE LinkVehicle
  <2>1. \/ UNCHANGED vehicle
        \/ \E v, t : vehicle' = [vehicle EXCEPT ![v] = [vehicle[v] EXCEPT !.station = t]]
    BY <1>6 DEF LinkVehicle, PoolVehicle, DockAt
  <2> QED  BY <1>2, <1>3, <2>1
<1>7. ASSUME NEW from, NEW length, NEW to, NextPhase(from, length, to) PROVE VehicleFunction'
  BY <1>3, <1>7 DEF NextPhase, repositories
<1> QED  BY <1>4, <1>5, <1>6, <1>7 DEF ColdNext

\* During a cold start nothing leaves the pool.
LEMMA ColdKeepsPool ==
  ASSUME ColdInv, ColdNext
  PROVE  Elements(pool) \subseteq Elements(pool')
<1>1. CASE ReadVehicle
  BY <1>1 DEF ReadVehicle, Skip, Abort, AddVehicle, repositories
<1>2. CASE ReadStation
  BY <1>2 DEF ReadStation, Skip, Abort, repositories
<1>3. CASE LinkVehicle
  <2>1. pool' = pool \/ pool' = Append(pool, order[cursor])
    BY <1>3 DEF LinkVehicle, PoolVehicle
  <2>v. PICK v : v = order[cursor]
    OBVIOUS
  <2>2. pool \in Seq(DOMAIN vehicle) /\ order[cursor] \in DOMAIN vehicle
    BY <1>3, NextIsNowhere DEF LinkVehicle, ColdInv, TypeOK
  <2>3. Elements(Append(pool, v)) = Elements(pool) \cup {v}
    BY <2>2, <2>v, ElementsAppend
  <2> QED  BY <2>1, <2>3, <2>v
<1>4. ASSUME NEW from, NEW length, NEW to, NextPhase(from, length, to) PROVE pool' = pool
  BY <1>4 DEF NextPhase, repositories
<1> QED  BY <1>1, <1>2, <1>3, <1>4 DEF ColdNext

LEMMA ColdNextKeeps ==
  ASSUME MInv, ColdNext, UNCHANGED <<batch, events, ridden, disk>>
  PROVE  MInv' /\ Elements(pool) \subseteq Elements(pool')
<1>1. phase # "serving" /\ UNCHANGED files
  BY DEF ColdNext, ReadVehicle, ReadStation, LinkVehicle, NextPhase
<1>2. ColdInv /\ VehicleFunction /\ NoEvents
  BY <1>1 DEF MInv
<1>3. ColdInv' /\ VehicleFunction' /\ NoEvents'
  BY <1>2, ColdStep, ColdKeepsFunction DEF NoEvents, events
<1>4. (ColdInv /\ VehicleFunction /\ NoEvents => ServingInv /\ cursor \in Nat \ {0})'
  BY ColdIsGood, PTL
<1>5. ServingInv' /\ cursor' \in Nat \ {0}
  BY <1>3, <1>4
<1> QED  BY <1>1, <1>2, <1>3, <1>5, ColdKeepsPool DEF MInv

LEMMA RestartKeeps ==
  ASSUME MInv, Restart
  PROVE  /\ MInv'
         /\ UNCHANGED <<phase, order, capacity, events, ridden>>
         /\ vehicle' = [v \in Repository |-> vehicle[v]]
         /\ docked' = [s \in DOMAIN docked |-> Kept(docked[s], Repository)]
         /\ pool' = Kept(pool, Repository)
<1>1. /\ ServingInv /\ cursor \in Nat \ {0} /\ phase = "serving" /\ disk' = Snapshot
      /\ Indexed(index, log) /\ \A v \in DOMAIN ridden : ridden[v] = None
  BY DEF Restart, Idle, MInv, ServingInv
<1>2. SnapshotOf(Snapshot, vehicle)
  BY <1>1, SnapshotIsGood
<1>3. PICK d : d = Snapshot
  OBVIOUS
<1>4. /\ d.order = order /\ d.capacity = capacity /\ d.vehicleIds = docked
      /\ d.degraded = pool /\ d.maintenance = log
      /\ d.rides = {v \in DOMAIN ridden : ridden[v] = None}
  BY <1>3 DEF Snapshot
<1>5. Startup(d) /\ SnapshotOf(d, vehicle)
  BY <1>2, <1>3 DEF Restart
<1>6. /\ ServingInv' /\ phase' = "serving" /\ order' = order /\ capacity' = capacity
      /\ vehicle' = [v \in Repository |-> vehicle[v]]
      /\ docked' = [s \in DOMAIN docked |-> Kept(docked[s], Repository)]
      /\ pool' = Kept(pool, Repository) /\ log' = log
      /\ ridden' = [v \in d.rides |-> None]
  <2>1. /\ ServingInv' /\ phase' = "serving" /\ order' = d.order /\ capacity' = d.capacity
        /\ vehicle' = [v \in Elements(d.order) |-> vehicle[v]]
        /\ docked' = [s \in DOMAIN d.vehicleIds |-> Kept(d.vehicleIds[s], Elements(d.order))]
        /\ pool' = Kept(d.degraded, Elements(d.order)) /\ log' = d.maintenance
        /\ ridden' = [v \in d.rides |-> None]
    BY <1>5, StartupKeeps
  <2> QED  BY <1>4, <2>1 DEF Repository
<1>7. index' = index
  BY <1>1, <1>6 DEF ServingInv, Indexed
<1>8. ridden' = ridden
  <2>1. d.rides = DOMAIN ridden /\ ridden = [v \in DOMAIN ridden |-> ridden[v]]
    BY <1>1, <1>4 DEF ServingInv, RidesGood
  <2> QED  BY <1>1, <1>6, <2>1
<1>9. UNCHANGED <<files, cursor>>
  BY <1>5 DEF Startup
<1>10. MInv'
  BY <1>1, <1>2, <1>6, <1>9 DEF MInv, GoodSnapshot
<1> QED  BY <1>1, <1>6, <1>7, <1>8, <1>10 DEF events

LEMMA CrashKeeps ==
  ASSUME MInv, Crash
  PROVE  MInv'
<1>1. phase = "serving" /\ disk' = disk /\ cursor \in Nat \ {0}
      /\ files \in [vehicles : VehicleFiles, stations : StationFiles]
  BY DEF Crash, MInv
<1>2. CASE disk = None
  <2>1. /\ UNCHANGED files /\ phase' = "vehicles" /\ vehicle' = EmptyDict
        /\ batch' = <<>> /\ log' = <<>> /\ index' = EmptyDict /\ ridden' = EmptyDict
    BY <1>2 DEF Crash, ColdStartAgain
  <2>2. ColdInit'
    BY <1>1, <1>2 DEF Crash, ColdStartAgain, ColdInit
  <2>3. (ColdInit => ColdInv)'
    BY ColdInitially, PTL
  <2>4. VehicleFunction'
    BY <2>1 DEF VehicleFunction, EmptyDict
  <2> QED  BY <1>1, <1>2, <2>1, <2>2, <2>3, <2>4 DEF MInv, NoEvents
<1>3. CASE disk # None
  <2>1. Startup(disk) /\ GoodSnapshot(disk)
    BY <1>3 DEF Crash, MInv
  <2>2. PICK d : d = disk
    OBVIOUS
  <2>3. ServingInv' /\ phase' = "serving"
    BY <2>1, <2>2, StartupKeeps DEF GoodSnapshot
  <2>4. UNCHANGED <<files, cursor>>
    BY <2>1 DEF Startup
  <2> QED  BY <1>1, <2>1, <2>3, <2>4 DEF MInv
<1> QED  BY <1>2, <1>3

LEMMA ServingKeeps ==
  ASSUME MInv, \/ \E v \in VehicleIds : MarkDegraded(v) \/ UnmarkDegraded(v)
               \/ StartTreating \/ TreatNext \/ RideNext
  PROVE  MInv'
<1>1. phase = "serving" /\ UNCHANGED <<files, cursor, disk>>
  BY DEF MarkDegraded, UnmarkDegraded, StartTreating, TreatNext, Idle, cvars, RideNext,
         StartByVehicle, StartByLocation, StartAtStation, StartRide, BeginEnd, FinishEnd, Report
<1>2. ServingInv
  BY <1>1 DEF MInv
<1>3. ServingInv' /\ phase' = "serving"
  BY <1>2, MarkKeeps, UnmarkKeeps, StartTreatingKeeps, TreatKeeps, RideKeeps
<1> QED  BY <1>1, <1>3 DEF MInv

LEMMA MStep ==
  ASSUME MInv, [Next]_mvars
  PROVE  MInv'
<1>1. CASE UNCHANGED mvars
  <2>1. UNCHANGED <<files, phase, cursor, vehicle, order, capacity, docked, pool, batch, log, index,
                    ridden, disk>>
    BY <1>1 DEF mvars, cvars, repositories, events
  <2>2. ColdInv => ColdInv'
    BY <2>1, ColdStep DEF cvars, repositories
  <2>3. ServingInv' <=> ServingInv
    BY <2>1 DEF ServingInv
  <2> QED  BY <2>1, <2>2, <2>3 DEF MInv, VehicleFunction, NoEvents
<1> QED  BY <1>1, ColdNextKeeps, ServingKeeps, RestartKeeps, CrashKeeps DEF Next, RideNext

LEMMA MInitially == Init => MInv
<1> SUFFICES ASSUME Init PROVE MInv
  OBVIOUS
<1>1. ColdInv
  BY ColdInitially DEF Init
<1> QED  BY <1>1 DEF Init, ColdInit, MInv, NoEvents, VehicleFunction, EmptyDict

\* The invariant of the fleet holds from the cold start on.
THEOREM MaintenanceSafe == Spec => []MInv
<1>1. MInv /\ [Next]_mvars => MInv'
  BY MStep
<1> QED  BY <1>1, MInitially, PTL DEF Spec

-----------------------------------------------------------------------------
(* What follows.                                                            *)

LEMMA ServingIsGood ==
  ASSUME ServingInv, cursor \in Nat \ {0}, phase = "serving"
  PROVE  TypeOK /\ CapacityRespected /\ DockedOnce
<1>1. /\ VehiclesGood(vehicle) /\ OrderGood(vehicle, order) /\ StationsGood(vehicle, capacity, docked)
      /\ PoolGood(vehicle, pool)
  BY DEF ServingInv, FleetGood
<1>2. TypeOK
  BY <1>1 DEF VehiclesGood, OrderGood, StationsGood, PoolGood, TypeOK
<1>3. CapacityRespected
  BY <1>1 DEF CapacityRespected, StationsGood
<1>4. DockedOnce
  <2>1. ASSUME NEW s \in DOMAIN docked, NEW i \in DOMAIN docked[s]
        PROVE  /\ vehicle[docked[s][i]].station = s
               /\ \A j \in DOMAIN docked[s] : docked[s][i] = docked[s][j] => i = j
    BY <1>1 DEF StationsGood, Distinct, Elements
  <2>2. ASSUME NEW i \in DOMAIN pool
        PROVE  /\ vehicle[pool[i]].station = None
               /\ \A j \in DOMAIN pool : pool[i] = pool[j] => i = j
    BY <1>1 DEF PoolGood, Distinct, Elements
  <2> QED  BY <2>1, <2>2 DEF DockedOnce
<1> QED  BY <1>2, <1>3, <1>4

LEMMA AlwaysGood ==
  MInv => TypeOK /\ CapacityRespected /\ DockedOnce /\ EveryVehiclePlaced /\ FailsOnlyOnShortRow
<1>1. CASE phase = "serving"
  BY <1>1, ServingIsGood DEF MInv, EveryVehiclePlaced, FailsOnlyOnShortRow
<1>2. CASE phase # "serving"
  BY <1>2 DEF MInv, ColdInv
<1> QED  BY <1>1, <1>2

\* The constructors' bounds hold for the fleet that serves as well, through
\* treatments, restarts and crashes.
THEOREM FleetTyped == Spec => []TypeOK
BY MaintenanceSafe, AlwaysGood, PTL

\* Neither linking, nor repair, nor treatment, nor a restart overfills a station.
THEOREM FleetCapacity == Spec => []CapacityRespected
BY MaintenanceSafe, AlwaysGood, PTL

\* A vehicle stands in one place at most, whatever is done to the fleet.
THEOREM FleetDockedOnce == Spec => []DockedOnce
BY MaintenanceSafe, AlwaysGood, PTL

\* The events fit the vehicles in memory: whatever restarts and crashes come after
\* the treatment, the type the vehicle comes back with is the one it was treated
\* as.  It need not come back: a vehicle reported before does not.
THEOREM FleetEvents == Spec => []EventsFitVehicles
<1>1. ASSUME MInv PROVE EventsFitVehicles
  <2>1. CASE phase = "serving"
    <3>1. LogGood(vehicle, log)
      BY <1>1, <2>1 DEF MInv, ServingInv, FleetGood
    <3> QED  BY <3>1 DEF LogGood, EventsFitVehicles, Elements
  <2>2. CASE phase # "serving"
    BY <1>1, <2>2, EmptySeq DEF MInv, NoEvents, EventsFitVehicles
  <2> QED  BY <2>1, <2>2
<1> QED  BY <1>1, MaintenanceSafe, PTL

\* The index by vehicle lists exactly the events of each vehicle, once each, in order,
\* however often the log was saved and read back.
THEOREM FleetIndex == Spec => []EventIndexConsistent
<1>1. ASSUME MInv PROVE EventIndexConsistent
  <2>1. /\ log \in Seq(EventRecords) /\ Indexed(index, log)
        /\ \A i \in DOMAIN log : log[i].id = i
    <3>1. CASE phase = "serving"
      BY <1>1, <3>1 DEF MInv, ServingInv, FleetGood, LogGood
    <3>2. CASE phase # "serving"
      BY <1>1, <3>2, EmptySeq, GroupedNothing DEF MInv, NoEvents, Indexed
    <3> QED  BY <3>1, <3>2
  <2>2. FiledBy(index, EventRecords, log, KeyOf, IdOf)
    BY <2>1, EventsKeyed, GroupedLists DEF Indexed
  <2>3. ASSUME NEW v
        PROVE  LET own == Kept(log, {e \in Elements(log) : e.vehicle = v})
                   ids == Listed(index, v)
               IN  /\ ids = [i \in DOMAIN own |-> own[i].id]
                   /\ \A i, j \in DOMAIN ids : ids[i] = ids[j] => i = j
    <3> DEFINE S == {e \in Elements(log) : e.vehicle = v}
               R == {e \in EventRecords : KeyOf[e] = v}
    <3>1. Elements(log) \cap S = Elements(log) \cap R
      BY <2>1, ElementsOfList DEF KeyOf
    <3>own. PICK own : own = Kept(log, R)
      OBVIOUS
    <3>2. Kept(log, S) = own
      <4> HIDE DEF S, R
      <4> QED  BY <2>1, <3>1, <3>own, KeptSame
    <3>3. own \in Seq(EventRecords) /\ Elements(own) \subseteq Elements(log) /\ Distinct(own)
      <4>1. Distinct(log)
        BY <2>1 DEF Distinct
      <4> HIDE DEF R
      <4> QED  BY <2>1, <4>1, <3>own, KeptList
    <3>4. Listed(index, v) = [i \in DOMAIN own |-> IdOf[own[i]]]
      BY <2>2, <3>own DEF FiledBy
    <3>5. \A i \in DOMAIN own : IdOf[own[i]] = own[i].id
      BY <3>3, ElementOfSeq, LenProperties DEF IdOf
    <3> HIDE DEF S, R
    <3>6. Listed(index, v) = [i \in DOMAIN own |-> own[i].id]
      BY <3>4, <3>5
    <3>7. \A i, j \in DOMAIN own : own[i].id = own[j].id => i = j
      <4>1. \A d, e \in Elements(log) : d.id = e.id => d = e
        BY <2>1 DEF Elements
      <4>2. \A i \in DOMAIN own : own[i] \in Elements(log)
        BY <3>3 DEF Elements
      <4> QED  BY <3>3, <4>1, <4>2 DEF Distinct
    <3>8. \A i, j \in DOMAIN Listed(index, v) : Listed(index, v)[i] = Listed(index, v)[j] => i = j
      BY <3>6, <3>7
    <3> QED  BY <3>2, <3>6, <3>8 DEF S
  <2> QED  BY <2>3 DEF EventIndexConsistent
<1> QED  BY <1>1, MaintenanceSafe, PTL

\* Only a vehicle that is due at that moment gets an event.
THEOREM FleetTreatsTheDue == Spec => OnlyDueTreated
<1>1. ASSUME MInv, TreatNext
      PROVE  LET v == log'[Len(log')].vehicle IN v \in Elements(pool) \/ TreatmentEligible(v)
  <2>1. ServingInv
    BY <1>1 DEF MInv, TreatNext
  <2> QED  BY <1>1, <2>1, TreatKeeps
<1>2. MInv => [TreatNext => LET v == log'[Len(log')].vehicle
                            IN  v \in Elements(pool) \/ TreatmentEligible(v)]_mvars
  BY <1>1
<1> QED  BY <1>2, MaintenanceSafe, PTL DEF OnlyDueTreated

\* A vehicle leaves the pool into a free slot, or in a treatment that finds none, or
\* with the repository's memory of it in a restart.
THEOREM FleetPool == Spec => PoolLeavesDocked
<1> DEFINE Followed == \A v \in Elements(pool) :
                \/ v \in Elements(pool')
                \/ \E s \in DOMAIN docked : v \in Elements(docked'[s]) /\ ~Full(s)
                \/ TreatNext /\ \A s \in DOMAIN docked : Full(s)
                \/ Restart /\ v \notin Repository
<1>1. ASSUME MInv, [Next]_mvars PROVE Crash \/ Followed \/ UNCHANGED mvars
  <2>1. CASE ColdNext /\ UNCHANGED <<batch, events, ridden, disk>>
    BY <1>1, <2>1, ColdNextKeeps
  <2>2. ASSUME phase = "serving" PROVE ServingInv
    BY <1>1, <2>2 DEF MInv
  <2>3. ASSUME NEW v, MarkDegraded(v) PROVE Followed
    BY <2>2, <2>3, MarkKeeps DEF MarkDegraded, Idle
  <2>4. ASSUME NEW v, UnmarkDegraded(v) PROVE Followed
    BY <2>2, <2>4, UnmarkKeeps DEF UnmarkDegraded, Idle
  <2>5. CASE StartTreating
    BY <2>2, <2>5, StartTreatingKeeps DEF StartTreating, Idle
  <2>6. CASE TreatNext
    BY <2>2, <2>6, TreatKeeps DEF TreatNext
  <2>7. CASE Restart
    <3>1. pool \in Seq(DOMAIN vehicle) /\ pool' = Kept(pool, Repository)
      BY <1>1, <2>2, <2>7, RestartKeeps DEF Restart, Idle, ServingInv, FleetGood, PoolGood
    <3>2. Elements(pool') = Elements(pool) \cap Repository
      BY <3>1, KeptList
    <3> QED  BY <2>7, <3>2
  <2>8. CASE RideNext
    <3>1. ServingInv
      BY <2>2, <2>8 DEF RideNext, StartByVehicle, StartByLocation, StartAtStation, StartRide,
                        BeginEnd, FinishEnd, Report, Idle
    <3>2. Elements(pool) \subseteq Elements(pool')
      BY <2>8, <3>1, RideKeeps
    <3> QED  BY <3>2
  <2> HIDE DEF Followed
  <2> QED  BY <1>1, <2>1, <2>3, <2>4, <2>5, <2>6, <2>7, <2>8 DEF Next, RideNext
<1>2. MInv /\ [Next]_mvars => [Crash \/ Followed]_mvars
  BY <1>1
<1> QED  BY <1>2, MaintenanceSafe, PTL DEF Spec, PoolLeavesDocked

\* A graceful restart gives back the vehicles of the repository, where they were, and
\* the active rides and the events.
THEOREM FleetRestart == Spec => GracefulRestartKeepsFleet
<1>1. MInv => [Restart => /\ UNCHANGED <<phase, order, capacity, events, ridden>>
                          /\ vehicle' = [v \in Repository |-> vehicle[v]]
                          /\ docked' = [s \in DOMAIN docked |-> Kept(docked[s], Repository)]
                          /\ pool' = Kept(pool, Repository)]_mvars
  BY RestartKeeps
<1> QED  BY <1>1, MaintenanceSafe, PTL DEF GracefulRestartKeepsFleet

\* When linking is over every vehicle is in the pool, docked, or left out for a
\* station that is unknown or full: also in the cold start that follows a crash
\* before the first save, which reads the files again.
THEOREM FleetPlaced == Spec => []EveryVehiclePlaced
BY MaintenanceSafe, AlwaysGood, PTL

\* Only a short row aborts any of these cold starts.
THEOREM FleetFails == Spec => []FailsOnlyOnShortRow
BY MaintenanceSafe, AlwaysGood, PTL

\* In each of them the last good row of an id is the vehicle.
THEOREM FleetLastRow == Spec => []LastRowWins
<1>1. MInv => LastRowWins
  BY LastRow DEF MInv, LastRowWins
<1> QED  BY <1>1, MaintenanceSafe, PTL

-----------------------------------------------------------------------------
(* Linking and RideService.                                                 *)

LEMMA ElementsCounted ==
  ASSUME NEW A, NEW seq \in Seq(A), Distinct(seq)
  PROVE  IsFiniteSet(Elements(seq)) /\ Cardinality(Elements(seq)) = Len(seq)
<1> DEFINE T == {s \in Seq(A) : Distinct(s) =>
                   IsFiniteSet(Elements(s)) /\ Cardinality(Elements(s)) = Len(s)}
<1>1. <<>> \in T
  BY ElementsEmpty, EmptySeq, FS_EmptySet
<1>2. ASSUME NEW s \in T, NEW x \in A PROVE Append(s, x) \in T
  <2>1. /\ Append(s, x) \in Seq(A) /\ Len(Append(s, x)) = Len(s) + 1
        /\ Elements(Append(s, x)) = Elements(s) \cup {x}
        /\ Distinct(Append(s, x)) <=> Distinct(s) /\ x \notin Elements(s)
    BY <1>2, AppendProperties, ElementsAppend
  <2>2. ASSUME Distinct(s), x \notin Elements(s)
        PROVE  /\ IsFiniteSet(Elements(s) \cup {x})
               /\ Cardinality(Elements(s) \cup {x}) = Len(s) + 1
    BY <1>2, <2>2, FS_AddElement
  <2> QED  BY <2>1, <2>2
<1>3. Seq(A) \subseteq T
  <2> HIDE DEF T
  <2> QED  BY <1>1, <1>2, ListInduction
<1> QED  BY <1>3

LEMMA CardinalityService == ASSUME NEW S PROVE Service!Cardinality(S) = Cardinality(S)
BY Zenon DEF Cardinality, Service!Cardinality

\* The linking loop has pooled every degraded vehicle that it has passed.
LinkInv ==
  phase = "link" =>
    \A i \in DOMAIN order :
      i < cursor /\ vehicle[order[i]].status = "degraded" => order[i] \in Elements(pool)

LEMMA LinkInvKept ==
  ASSUME MInv, LinkInv, [Next]_mvars
  PROVE  LinkInv'
<1>1. CASE UNCHANGED mvars
  BY <1>1 DEF mvars, cvars, repositories, LinkInv
<1>2. CASE LinkVehicle
  <2>1. /\ ColdInv /\ phase = "link" /\ cursor \in DOMAIN order /\ cursor' = cursor + 1
        /\ UNCHANGED order
    BY <1>2 DEF LinkVehicle, MInv
  <2>v. PICK v : v = order[cursor]
    OBVIOUS
  <2>2. v \in DOMAIN vehicle /\ \A i \in DOMAIN order : order[i] \in DOMAIN vehicle
    BY <2>1, <2>v DEF ColdInv, OrderInv, Elements
  <2>3. \A i \in DOMAIN order : i < cursor' <=> i < cursor \/ i = cursor
    BY <2>1, PassedGrows DEF ColdInv
  <2>4. \A x \in DOMAIN vehicle : vehicle'[x].status = vehicle[x].status
    <3>1. \A x \in DOMAIN vehicle : VehicleTyped(vehicle[x])
      BY <2>1 DEF ColdInv, TypeOK
    <3>2. ASSUME NEW t, vehicle' = [vehicle EXCEPT ![v].station = t]
          PROVE  \A x \in DOMAIN vehicle : vehicle'[x].status = vehicle[x].status
      BY <2>2, <3>1, <3>2 DEF VehicleTyped
    <3>3. UNCHANGED vehicle \/ \E t : vehicle' = [vehicle EXCEPT ![v].station = t]
      BY <1>2, <2>v DEF LinkVehicle, PoolVehicle, DockAt
    <3> QED  BY <3>2, <3>3
  <2>5. /\ Elements(pool) \subseteq Elements(pool')
        /\ vehicle[v].status = "degraded" => v \in Elements(pool')
    <3>1. Elements(Append(pool, v)) = Elements(pool) \cup {v}
      BY <2>1, <2>2, ElementsAppend DEF ColdInv, TypeOK
    <3>2. \/ pool' = Append(pool, v)
          \/ vehicle[v].status # "degraded" /\ pool' = pool
      BY <1>2, <2>v DEF LinkVehicle, PoolVehicle
    <3> QED  BY <3>1, <3>2
  <2> QED  BY <2>1, <2>2, <2>3, <2>4, <2>5, <2>v DEF LinkInv
<1>3. CASE NextPhase("stations", Len(files.stations), "link")
  <2>1. phase = "stations" /\ cursor' = 1 /\ order' = order /\ ColdInv
    BY <1>3 DEF NextPhase, MInv, repositories
  <2>2. DOMAIN order = 1..Len(order) /\ Len(order) \in Nat
    BY <2>1, LenProperties DEF ColdInv, TypeOK
  <2> QED  BY <2>1, <2>2 DEF LinkInv
<1>4. CASE ReadVehicle \/ ReadStation
  BY <1>4 DEF ReadVehicle, ReadStation, Skip, Abort, LinkInv
<1>5. CASE NextPhase("vehicles", Len(files.vehicles), "stations") \/ NextPhase("link", Len(order), "serving")
  BY <1>5 DEF NextPhase, LinkInv
<1>6. CASE \/ \E v \in VehicleIds : MarkDegraded(v) \/ UnmarkDegraded(v)
           \/ StartTreating \/ TreatNext \/ RideNext
  BY <1>6 DEF MarkDegraded, UnmarkDegraded, StartTreating, TreatNext, Idle, cvars, LinkInv, RideNext,
              StartByVehicle, StartByLocation, StartAtStation, StartRide, BeginEnd, FinishEnd, Report
<1>7. CASE Restart \/ Crash
  <2>1. phase' # "link"
    BY <1>7 DEF Restart, Crash, Startup, ColdStartAgain
  <2> QED  BY <2>1 DEF LinkInv
<1> QED  BY <1>1, <1>2, <1>3, <1>4, <1>5, <1>6, <1>7 DEF Next, ColdNext, RideNext

LEMMA LinkedIsInit ==
  ASSUME MInv, LinkInv, phase = "link", cursor = Len(order) + 1, PlainFleet
  PROVE  Service!Init
<1> DEFINE S == DOMAIN PlainCapacity
           stationOf(v) == vehicle[v].station
           assigned(s) == {v \in VehicleIds : stationOf(v) = s}
<1>1. /\ TypeOK /\ OrderInv /\ CapacityRespected /\ DockedOnce /\ EveryVehiclePlaced
      /\ DOMAIN vehicle = VehicleIds /\ capacity = PlainCapacity
      /\ Elements(order) = VehicleIds
      /\ \A v \in VehicleIds : vehicle[v].rides >= 0
      /\ \A v \in VehicleIds : vehicle[v].status = "degraded" \/
                             (vehicle[v].status = "available" /\ stationOf(v) \in S)
  BY DEF MInv, ColdInv, PlainFleet, OrderInv
<1>2. /\ S \subseteq Nat /\ None \notin Nat /\ docked \in [S -> Seq(VehicleIds)]
      /\ pool \in Seq(VehicleIds)
      /\ \A v \in VehicleIds : vehicle[v].rides \in Nat
  BY <1>1, PlainAssumption, MarkAssumption DEF TypeOK, VehicleTyped
<1>3. \A v \in VehicleIds : \E i \in DOMAIN order : i < cursor /\ order[i] = v
  <2>1. DOMAIN order = 1..Len(order) /\ Len(order) \in Nat
    BY <1>1, LenProperties DEF TypeOK
  <2>2. \A i \in DOMAIN order : i < cursor
    BY <2>1
  <2> QED  BY <1>1, <2>2 DEF OrderInv, Elements
<1>4. /\ Elements(pool) \subseteq VehicleIds /\ \A v \in Elements(pool) : stationOf(v) = None
      /\ \A s \in S : Elements(docked[s]) \subseteq assigned(s)
      /\ \A s \in S : Distinct(docked[s])
  <2>1. Elements(pool) \subseteq VehicleIds /\ \A v \in Elements(pool) : stationOf(v) = None
    BY <1>1, <1>2, ElementsOfList DEF DockedOnce, Elements
  <2>2. \A s \in S : Elements(docked[s]) \subseteq VehicleIds
    BY <1>2, ElementsOfList
  <2>3. \A s \in S : \A v \in Elements(docked[s]) : stationOf(v) = s
    BY <1>1, <1>2 DEF DockedOnce, Elements
  <2>4. \A s \in S : Distinct(docked[s])
    BY <1>1, <1>2 DEF DockedOnce, Distinct
  <2> QED  BY <2>1, <2>2, <2>3, <2>4
<1>5. \A v \in VehicleIds : vehicle[v].status = "degraded" => v \in Elements(pool)
  BY <1>3 DEF LinkInv
<1>6. /\ \A v \in VehicleIds : stationOf(v) \in S \cup {None}
      /\ Elements(pool) = {v \in VehicleIds : stationOf(v) = None}
      /\ \A v \in VehicleIds : vehicle[v].status = IF v \in Elements(pool) THEN "degraded" ELSE "available"
  <2>1. ASSUME NEW v \in VehicleIds
        PROVE  \/ v \in Elements(pool) /\ stationOf(v) = None /\ vehicle[v].status = "degraded"
               \/ v \notin Elements(pool) /\ stationOf(v) \in S /\ vehicle[v].status = "available"
    <3>1. CASE v \in Elements(pool)
      <4>1. stationOf(v) = None /\ stationOf(v) \notin S
        BY <1>2, <1>4, <3>1
      <4> QED  BY <1>1, <3>1, <4>1
    <3>2. CASE v \notin Elements(pool)
      BY <1>1, <1>5, <3>2
    <3> QED  BY <3>1, <3>2
  <2> HIDE DEF S, stationOf
  <2>2. \A v \in VehicleIds : stationOf(v) \in S \cup {None}
    BY <2>1
  <2>3. Elements(pool) = {v \in VehicleIds : stationOf(v) = None}
    <3>1. None \notin S
      BY <1>2
    <3> QED  BY <1>4, <2>1, <3>1
  <2>4. \A v \in VehicleIds : vehicle[v].status = IF v \in Elements(pool) THEN "degraded" ELSE "available"
    BY <2>1
  <2> QED  BY <2>2, <2>3, <2>4
<1>7. ASSUME NEW s \in S
      PROVE  /\ Cardinality(Elements(docked[s])) <= PlainCapacity[s]
             /\ \/ Cardinality(Elements(docked[s])) = PlainCapacity[s]
                \/ Elements(docked[s]) = assigned(s)
  <2>1. Cardinality(Elements(docked[s])) = Len(docked[s])
    BY <1>2, <1>4, ElementsCounted
  <2>2. Len(docked[s]) <= PlainCapacity[s]
    BY <1>1, <1>2 DEF CapacityRespected
  <2>3. ASSUME NEW v \in assigned(s), v \notin Elements(docked[s]) PROVE Len(docked[s]) = PlainCapacity[s]
    <3>1. \/ v \in Elements(pool)
          \/ \E t \in S : v \in Elements(docked[t])
          \/ NowhereToDock(v)
      BY <1>1, <1>2, <1>3 DEF EveryVehiclePlaced
    <3>2. v \notin Elements(pool)
      BY <1>2, <1>4
    <3>3. ~ \E t \in S : v \in Elements(docked[t])
      BY <1>4, <2>3
    <3> QED  BY <1>1, <1>2, <3>1, <3>2, <3>3 DEF NowhereToDock, Full
  <2>4. \/ Len(docked[s]) = PlainCapacity[s] \/ assigned(s) \subseteq Elements(docked[s])
    BY <2>3
  <2> QED  BY <1>4, <2>1, <2>2, <2>4
<1> QED  BY <1>1, <1>2, <1>4, <1>6, <1>7, CardinalityService
         DEF Service!Init, Service!Full, EmptyDict, Repository

\* Linking files like the shipped ones leads to an initial state of RideService:
\* what is proved of the rides applies to the fleet that the cold start leaves.
THEOREM LinkingInitial == Spec => []LinkingGivesInit
<1>1. Init => LinkInv
  BY DEF Init, ColdInit, LinkInv
<1>2. MInv /\ LinkInv /\ [Next]_mvars => LinkInv'
  BY LinkInvKept
<1>3. MInv /\ LinkInv => LinkingGivesInit
  BY LinkedIsInit DEF LinkingGivesInit
<1> QED  BY <1>1, <1>2, <1>3, MaintenanceSafe, PTL DEF Spec
=============================================================================
