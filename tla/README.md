# TLA+ models of TLVFlow

TLVFlow is a bike- and scooter-sharing backend: a FastAPI application in one
process, with all state in memory and one asyncio event loop. This directory
holds TLA+ models of it, the TLC configurations that check them on small
instances, and machine-checked proofs. Paths below are relative to
`src/src/tlvflow/` unless they start with `src/`.

Contents: [inventory](#1-inventory) · [modules](#2-modules-and-how-they-correspond-to-the-code) ·
[runs](#3-runs) · [bounds](#4-bounds-and-why-they-are-enough) · [fairness](#5-fairness-and-deadlock) ·
[proofs](#6-proofs) · [only model-checked](#7-only-model-checked) · [not modelled](#8-not-modelled) · [plan](#9-plan)

## 1. Inventory

### Components, state, operations

| Component | Code | State | Operations |
|---|---|---|---|
| Ride endpoints and service | `api/routers/rides_router.py`, `services/rides_service.py`, `domain/rides.py` | rides; lock tables `user_rides_locks`, `station_locks` | start, start-by-station, start-by-vehicle, end; read-only: active users, active ride, history |
| Vehicle endpoints and service | `api/routers/vehicles_router.py`, `services/vehicles_service.py` | `treat_vehicles_lock` | report-degraded, treat |
| Stations | `domain/stations.py`, `services/stations_service.py` | vehicles docked at each station, capacity | dock, undock, three kinds of checkout, nearest searches |
| Vehicles | `domain/vehicles.py` | status, station id, rides since last treated | set_status, complete_maintenance, eligibility tests |
| Payment service | `domain/payment_service.py` | none (a mock; each charge sleeps 0.5 s) | process_charge; issue_receipt and issue_refund are never called |
| Ride, active-user, maintenance and degraded-vehicle repositories | `persistence/*_repository.py` | rides by id; user → ride id; events; degraded pool | add, get, set/clear, snapshot, restore |
| Vehicle and station repositories, state store, lifespan | `persistence/in_memory.py`, `persistence/state_store.py`, `api/app.py` | fleet; `state.json` | cold start, save, restore |
| User accounts | `domain/users.py`, `services/users_service.py`, `persistence/users_repository.py`, `api/routers/users_router.py` | users by id, e-mail index | register, login, payment method, upgrade, snapshot, restore |
| Loaders and linking | `persistence/loaders.py`, `services/link_vehicles.py` | none | build the fleet from the rows of two CSV files, then dock it |
| Maintenance events | `domain/maintenance_event.py` | id, vehicle, treatments | open and close, in one step |
| Degraded-vehicles service | `services/degraded_vehicles_service.py` | none | restore_degraded; mark_degraded and unmark_degraded, which only tests call |
| Payments repository, vehicle reports | `persistence/payments_repository.py`, `domain/reports.py` | none that the program ever writes | |
| Station router, schemas, wiring, logging | | none | read-only |

### Interactions

Handlers call services, services call domain objects and repositories, and all
of them share the objects held in `app.state`. There are no messages, no
threads and no database. Handlers affect each other in three ways only: through
those shared objects, through the per-user and per-station `asyncio.Lock`s, and
through the event loop that decides who runs.

### What is hard

* **Interleaving at awaits.** An `async def` handler runs uninterrupted except
  where it really suspends: on a lock that is taken, and in the 0.5 s sleep of
  the charge. All other awaits are of coroutines that run straight through. So
  races exist at a few places only, and there they are subtle: a station is
  chosen before its lock is held, and a slot is found half a second before it is used.
* **Two lock orders.** `start` and `end` take the user's lock and then a
  station's; `start-by-station` and `start-by-vehicle` take them the other way round.
* **Partial failure.** `end` completes the ride, charges for it, and may then
  find no slot; nothing is undone.
* **Input that is not good.** The CSV loaders skip bad rows one by one, but only
  for the exceptions they name; repeated ids, unknown stations and stations with
  more vehicles than slots have to come out right.
* **Lists drawn up first and used later.** A treatment batch is drawn up before
  the first vehicle is treated, from the pool and the counts that treating changes.
* **Second indexes.** Rides by user, events by vehicle, users by e-mail: each is
  kept beside the records and built again by restore.
* **State in several places.** "The user is riding" is a ride's status *and* an
  entry of the active users; "the vehicle is here" is a station's list *and* the
  vehicle's station id *and* its absence from the pool; the e-mail of an account
  is in the user *and* in an index.
* **Restarts.** State is written at a graceful shutdown only, by eight
  repositories that refer to each other by id; a crash falls back to the previous
  snapshot, though the charges made since cannot be taken back.

### What makes each part correct

| Part | Properties |
|---|---|
| Rides and users | at most one open ride per user, both repositories agree; each ride charged at most once; history never rewritten; every request answered; nobody stranded |
| Fleet | no vehicle in two places or on two rides; no station over capacity; unrentable vehicles stay docked; returned and treated vehicles are docked |
| Locks | every lock released on every path; the owner is unique |
| Cold start | whatever the files hold, what is loaded is well formed; nothing is docked twice or beyond a capacity; no vehicle is forgotten; only a short row aborts |
| Maintenance | events fit the vehicles; only due vehicles are treated, reported ones included; nothing leaves the pool to nowhere while a slot is free |
| Records | indexes agree; the three views of "the active ride" agree; no charge is refused |
| Accounts | one account per address; owner logs in with any spelling; nothing lost by an upgrade or a restart; licenses verified |
| Restart | a graceful one loses nothing; a crash leaves a consistent older state |

`PROJECT.json` lists the hazards at their lines, each with the properties that would catch it.

## 2. Modules and how they correspond to the code

| Module | Models | Role |
|---|---|---|
| `RideService` | ride, vehicle and upgrade endpoints, stations, vehicles, the in-memory repositories, locks and event loop | core |
| `RideLedger` | what the endpoints promise of rides and vehicles, without requests, locks or stations | abstract specification |
| `RideRefinement` | the refinement mapping from `RideService` to `RideLedger` | composition |
| `Restart` | lifespan handler, snapshot/restore of all repositories, state store, crashes; EXTENDS `RideService` | composition |
| `UserAccounts` | users repository, registration, login, payment method, upgrade, restarts | component |
| `Lists` | Python lists as sequences and dictionaries as partial functions: filtering, grouping, `setdefault(...).append` | helper |
| `RideRecords` | users, rides and active users with the order of their records, their indexes, and restarts; EXTENDS `UserAccounts` | composition |
| `ColdStart` | loaders and linking, row by row and vehicle by vehicle | component |
| `Maintenance` | the fleet after the cold start: rides, reports, pool, batch treatments, events, restarts; EXTENDS `ColdStart`, and instantiates `RideService` to compare with its `Init` | composition |
| `MCRideService`, `MCRideRefinement`, `MCRestart`, `MCUserAccounts`, `MCRideRecords`, `MCMaintenance` | small instances | TLC |
| `RideServiceProofs` → `RideFleetProofs` → `RideRefinementProofs` | each EXTENDS the one before | proofs |
| `RestartProofs` | instantiates `RideFleetProofs` | proofs |
| `ListProofs` | the facts about `Lists` that the next three rest on | proofs |
| `RideRecordsProofs` | `UserAccounts`, then `RideRecords`; EXTENDS `ListProofs` | proofs |
| `ColdStartProofs` → `MaintenanceProofs` | the first EXTENDS `ListProofs`, the second the first | proofs |

An operator named `X_Suffix` is a plausible bug in `X`; no specification uses
it. Replacing `X` by it makes the property it is listed for fail.

### RideService

A *task* is a request in flight. `pc[t]` is the place where it is suspended and
`req[t]` the values its local variables hold there. `loop` is the task that has
the event loop. A handler that takes a free lock does not suspend, so it keeps
the loop (`KeepLoopIf`) and no other action can come between; one that has to
wait gives it up. Each action is one stretch of a handler between two such points:

| Handler | Actions |
|---|---|
| `POST /ride/start` | `AcceptStart`, `StartChooseStation` (under the user's lock), `StartCheckout` (under both) |
| `POST /ride/start-by-station` | `AcceptByStation`, `AwaitUser`, `ByStationRide` |
| `POST /ride/start-by-vehicle` | `AcceptByVehicle` (reads the station id before any lock), `AwaitUser`, `ByVehicleRide` |
| `POST /ride/end` | `AcceptEnd`, `EndRide` (completes the ride, starts the charge), `EndCharged`, `EndDock` |
| `POST /vehicle/report-degraded` | `AcceptReport`, `ReportDegraded` |
| `POST /vehicle/treat` | `TreatBegin`, then `TreatOne` for each vehicle; while `toTreat` is not empty nobody else runs |
| `POST /user/upgrade` | `UpgradeUser` (only the permission; the account is in `UserAccounts`) |

A lock is the queue of the tasks that called `acquire()`. Its head owns the lock
or has been woken by `release()` and not run yet; `asyncio.Lock` lets no
newcomer overtake it, which is why these two cases need not be told apart.
Error replies release what they hold and answer in the same step, like the
`async with` they leave.

Abstractions: a position is a member of `Locations`, with a ranking of stations
(`Dist`, for `_distance_sq`) and the set of stations within 5 m (`Within5m`, for
`distance_meters`); the two are computed by different formulas in the code and
are independent here. A station's list is a set, so `checkout_vehicle`, which
pops the last vehicle, may take any. The vehicle type and id order is `Rank`.
`random.choice` is a choice. The time of a ride and the money of the constant
fee are not distinguished. `Init` is what `link_vehicles_to_stations` leaves: a
degraded vehicle is in the pool and names no station; another is docked at the
station it names unless that was full.

### RideLedger and RideRefinement

In the ledger a ride is `new`, `riding`, `owed`, `paid` and `closed`, or `free`
after a report, and while it is open nobody else has its vehicle and its user has
no other ride. The mapping reads the state off the stored ride and the request
that is returning it (`end.charge`: owed; `end.dock`: paid).

### Restart

Adds `disk` (`state.json`), `phase` (up, saving, down), `csv` (what the
unchanging CSV files describe) and `crashes`. `Shutdown` waits until no request
is in flight, as the server does; `Save` is the write and rename of
`StateStore.save`; `Crash` leaves the file as it was. `Startup` follows the
restore calls of `lifespan` in their order: the vehicles from their dictionaries,
the stations re-dock the listed vehicles they can resolve, the pool is resolved
through the vehicle repository and taken out of the stations. `charged` survives
everything: it counts what the payment provider did.

### UserAccounts

No handler here suspends, so each is one action. An e-mail is an element of a
set with a normalisation function (strip and lower-case); a password hash is
verified by its password only; validation is membership in sets of malformed
inputs. `told` records what clients were told at registration, so that "the
owner can log in" can be stated; a crash forgets the accounts opened since the
snapshot, and `told` is rolled back with them.

### RideRecords

Every handler is one action here: the suspension in the charge is the matter of
`RideService`. A repository is a partial function and the insertion order of its
dictionary; an index is a partial function to a sequence of ids, filled by `Filed`
one record at a time, by the handlers and again by `RestoreRecords`. `EndRide`
completes the ride, asks whether the charge is refused (`Chargeable`), and may
leave the user filed as active, as a full station does. `CancelRide` is
`Ride.cancel` on a stored ride; no handler calls it, but the repository writes
and restores such rides.

### ColdStart

`files` is the pair of files found, `cursor` the row or vehicle that comes next.
Each step reads one row (`ReadVehicle`, `ReadStation`) or links one vehicle
(`LinkVehicle`). A field is a value or one of the marks `Blank`, `Junk` (text its
parser raises ValueError for) and `Missing` (the row is too short); so the
parsers are modelled by what they accept, default, clamp and raise, and no text
is taken apart. `RowAborts` follows the order in which the loop reads the fields,
because a row that is skipped early does not get to the field that is missing; the
frame number, which nothing else uses, is among them for that reason.
`vehicle` and `order` are the dictionary of the vehicle repository: a repeated id
replaces the value and keeps its place. A station id is any integer: the stations
of one file need not be those the vehicles of the other name, and treatments and
repairs dock a vehicle at whichever has a slot.

### Maintenance

Goes on where the cold start ends. The station lists and the pool keep their
order. Vehicles leave the stations through the three start endpoints
(`StartByVehicle`, `StartByLocation`, `StartAtStation`) and come back in two steps,
because the charge lies between the choice of the station (`BeginEnd`) and the
docking (`FinishEnd`); of a ride only the vehicle, and the station found for it, is
kept (`ridden`). `Report` is `report_degraded_vehicle`, the way into the pool that
the running program has; `MarkDegraded` and `UnmarkDegraded` are the functions of
`degraded_vehicles_service.py`, which only tests call. `vehicle` holds every vehicle
object since the last startup and `Repository` the ids that the vehicle repository
still has: a reported vehicle leaves it, goes on in the pool and at stations, is
treated and ridden, and is gone after the next startup.

`StartTreating` draws the batch up and `TreatNext` treats one vehicle of it:
opens and closes an event, moves a pooled vehicle (`Relocate`) and resets the
vehicle. `Restart` is a graceful shutdown and startup, and waits for the charges in
flight; `Crash` is a startup from the last `state.json`, or a cold start without one.
The vehicles of the repository are written as dictionaries by type (`VehicleToDict`,
`VehicleFromDict`). `LinkingGivesInit`
ties it to `RideService`: from files like the shipped ones the cold start ends in
a state that satisfies `RideService!Init`, which the ride models only state.

## 3. Runs

| Run | Result | Shows |
|---|---|---|
| `ride_all` | holds | With every endpoint interleaved and one slot per station: types, docking, capacity, no double booking, agreement of rides and active users, one charge per ride, lock queues, immutable history; and the whole implements `RideLedger` |
| `ride_full` | holds | One slot for two vehicles, three rides, every endpoint: what a handler looked up before it was suspended still holds when it resumes; and the damage of `ride_stranded` and `ride_ghost` has no other cause: only a station that filled up during the charge strands a user, an answered `end` docks every vehicle the repository knows, and a treated vehicle stays out only while no station has a slot |
| `ride_live` | holds | Without the endpoints that lock the station first, every request is answered; also with three requests of one user queued; rides started by location never take an unrentable vehicle |
| `restart` | holds | Shutdowns, startups and a crash at any point: a graceful restart keeps rides, active users, permissions, maintenance counts and the vehicles of the repository; after a crash the state is older but consistent, and each crash costs a ride at most one more charge |
| `accounts` | holds | With rides going on, across upgrades, card changes, restarts and a crash: accounts stay unique, reachable by their owner, and complete; the ride records, their index and the active users agree; the charge of an active ride would never be refused |
| `fleet` | holds | From every small pair of CSV files: the cold start loads well-formed objects, docks nothing twice or beyond capacity, forgets no vehicle and fails over short rows only; then, through rides, reports, the degraded pool, batches, restarts and crashes: the events fit the vehicles and their index, only due vehicles are treated, the pool loses a vehicle in the two known ways only, and a graceful restart changes nothing of the vehicles of the repository |
| `ride_stranded` | violated | A station fills up during the charge: the ride is paid and completed, the vehicle docked nowhere, the user active for ever (`rides_service.py:242`) |
| `ride_ghost` | violated | A vehicle that was reported, treated and rented again is not in the vehicle repository, so ending that ride does not dock it (`rides_service.py:235`) |
| `ride_unrentable` | violated | start-by-station and start-by-vehicle hand out unrentable vehicles (`stations.py:96`), although `src/README.md:257` keeps them docked |
| `ride_deadlock` | violated | `end` and `start-by-station` of one user wait for each other's lock for ever (`rides_router.py:137`) |
| `restart_forgets` | violated | A vehicle reported degraded is in no repository after a graceful restart (`degraded_vehicles_repository.py:66`) |
| `accounts_license` | violated | An expired license makes a Pro user (`users.py:364`), although `users.py:354` says it was verified |

The violations are disagreements of the code with its own documents or comments;
`PROJECT.json` quotes them under "findings". One more behaviour met while
modelling is not a run: a pooled vehicle treated while every station is full
leaves the pool without being docked (`vehicles_service.py:66`).
`TreatedStaysOutOnlyWhenFull` and `PoolLeavesDocked` check that only full stations
cause it. Another is that a vehicle left out by linking goes on naming the unknown or full station,
though `domain/vehicles.py:134` says a vehicle not at a station names none;
`EveryVehiclePlaced` describes what the code does.

## 4. Bounds and why they are enough

* `Tasks` bounds the requests in flight: two nearly everywhere, three in
  `ride_live`, where they are of one user. Most races in this code are between two
  handlers around one suspension, and a deadlock needs two.
* `Rides` bounds the ride ids ever drawn; a start is accepted only while one is
  left for it (`RideIdLeft`). With two (three in `ride_full`), a vehicle or a user
  can go through a second ride after, or beside, the first. The ids can be used up,
  but users, treatments and reports go on.
* Two users, two vehicles (one electric), two stations. With one slot each the
  stations are full at once, which is where the code is delicate; `ride_ghost` has
  two slots, and `ride_full` one station with one slot for both vehicles: while one
  stands there, the other is returned or treated at a full station. Cold starts with a degraded vehicle, with an
  empty station and with a vehicle that found its station full are initial states.
* `TreatAt = RentLimit = 1` stand for 7 and 10: a vehicle with `InitialRides = 1`
  is eligible for treatment, still rentable, and one ride from unrentable. In the
  code the thresholds are 7 and 10, and only the order of the comparisons matters.
* `MaxCrashes = 1`: every crash restarts from a snapshot and an initial loop, so
  a second one meets the same states. `restart` has one request at a time and one
  user: the races of requests are the matter of `ride_all`, and shutdown waits for
  requests anyway.
* `accounts`: two ids and two rides, two spellings of one address, another address
  and a malformed one, two valid passwords and a short one, a card and a blank one,
  one crash. Two accounts can clash in every index, and a user can have a second ride.
  `accounts_license` has one id more and no rides.
* `fleet`: three vehicles, two stations, a third station that only vehicles name.
  There are sixteen rows, four good ones and one for each way a row goes wrong.
  `VehicleFiles` has the empty file, each row alone, each row behind a good one, each
  row that a later good one replaces, and one file of three vehicles; `StationFiles`
  has repeated ids, capacities of zero and below, a bad row and a short one. A row acts
  on the rows before it only through the dictionary entry of its id, so two rows show
  every interaction; the third vehicle is there for a full station and a pool together.
  `TreatAt` and `RentLimit` are 1, `MaxEvents` is 2: one batch of two, or two of one;
  `MaxRides = 1`: no ride starts on a vehicle that has one since it was last treated,
  so that a vehicle can be ridden up to the threshold, reported, treated, and ridden
  again. The thresholds themselves are the matter of the ride runs.
* `Users`, `Rides` and `Tasks` (and `Uids`) are symmetric: the specification compares
  them for equality only. Liveness runs use no symmetry.

The proofs of section 6 have none of these bounds.

## 5. Fairness and deadlock

`FairSpec` assumes strong fairness of each task's `Step` and weak fairness of the
treatment loop. asyncio runs ready callbacks first in, first out, so a task that
is ready again and again does run, whatever else is ready; strong fairness is
needed because other tasks take the loop in between. The timer of the charge
fires. Nothing is assumed of clients: no request need ever arrive. The invariants
and refinement are checked and proved without fairness.

`CHECK_DEADLOCK FALSE` is set where both lock orders are present: there the
system really stops, as `ride_deadlock` shows, and in `fleet`, where a startup
that fails is the end of the process. `ride_live`, `restart` and `accounts` are
checked with deadlock detection.

## 6. Proofs

All theorems hold for every value of the constants that satisfies the named
assumptions of the module (`None` differs from everything else, the fleet is
finite, capacities are positive, `Normal` is idempotent, and so on): any number of
users, vehicles, stations, rides and requests in flight.

The argument for `RideService` goes in layers, one module each:

1. `RideServiceProofs`, first half: `SafeLocks == TypeOK /\ LocksMatchRequests` is
   inductive. Neither part is on its own: a release is `Tail` of a queue, which is a
   sequence of tasks only because the queue is not empty, and that follows from the
   owner being in it; the owner is found through the typed request. Theorems
   `TypeCorrect`, `LocksCorrect`.
2. `RideServiceProofs`, second half: `BookInv` adds `RideIndexConsistent`,
   `ChargedOnce` and `LookupsStillHold`. The last is the strengthening: the
   repositories agree after `StartCheckout` only because the test "no active ride",
   made before the handler suspended, still holds, and it does because the user's lock
   is held (lemma `SoleOwner`). Likewise a ride is charged once because the request
   that completed it is the only one past the lock. Theorems `RideIndexCorrect`,
   `ChargedOnceCorrect`, `LookupsCorrect`, `HistoryCorrect` (an action property).
3. `RideFleetProofs`: `FleetInv` adds `DockingConsistent`, `VehicleExclusive` and
   `CapacityRespected`, which need each other: a vehicle that is docked by `EndDock`
   is in one place because it was on an open ride, and one that is checked out is on
   no open ride because it was docked. No station lock is used: all moves of
   vehicles re-check and act within one step of the event loop. Capacity rests on
   `Full` being an equality, hence on the invariant itself. Theorems
   `NoDoubleBooking`, `DockingCorrect`, `CapacityCorrect`.
4. `RideFleetProofs`, last part: how far the violations of section 3 reach. Three
   theorems have no hypothesis beside the named assumptions: they hold with every
   endpoint in use and with stations of any size, full ones included.

   | Theorem | Property | Argument |
   |---|---|---|
   | `StrandedAtFullStations` | `StrandedOnlyWhenFull` | a ride stops being open when a report ends it or when its end request answers; each clears the entry of the active user, but for the answer at line 242 |
   | `KnownVehiclesReleased` | `KnownVehicleReleased` | a charged ride is taken off the books by the end request alone; the vehicle it looked up in the repository is docked in the same step |
   | `TreatmentRelocates` | `TreatedStaysOutOnlyWhenFull` | a pooled vehicle is docked nowhere, so a station with a slot is not its own and is a candidate |
   | `UnrentableIsKept` | `UnrentableStaysDocked` | the start by location tests eligibility in the step that checks out |

   The last one has a hypothesis, that no client calls start-by-station or
   start-by-vehicle; `ride_unrentable` shows that it is needed.
5. `RideRefinementProofs`: under `FleetInv` each action is a ledger step or leaves
   the ledger alone; theorem `ServiceImplementsLedger`.

`RestartProofs`: a crash takes rides back but not their charges, so `ChargedOnce`, and
with it `FleetInv`, fails after one. They do hold of the charges that the rides in
memory account for, `ChargedHere` (completed for the fee, and not just being charged).
So the module instantiates `RideFleetProofs` with `ChargedHere` in the place of
`charged`: each step of a serving process is a step of that instance, which keeps its
invariant by a lemma already proved. `RInv` adds that `state.json` is good
(`DiskGood`: its parts refer to one another as those in memory do), because a snapshot
is taken with no request in flight, and that a ride was charged no more often than it
accounts for, plus once per crash. A startup leads from a good file to the invariant
(`RestoreGood`), from the CSV files to an initial state of the instance
(`ColdStartGood`). Theorems `ChargesCorrect`, `RestartIndexCorrect`,
`RestartExclusive`, `GracefulRestartCorrect`.

`RideRecordsProofs`, first the accounts alone: `AccountInv` adds to `TypeOK` and `EmailIndexConsistent`
that the accounts clients were told of are the stored ones, in memory *and* in
the snapshot, and that the snapshot has one account per address. Without the part
about the snapshot a crash could bring back anything; it is also what makes the
`CHOOSE` of `Restore` harmless. Theorems `EmailIndexCorrect`, `LoginCorrect`,
`AccountsTyped`, and `AccountsAreKept`, the action property: restore gives back what
the snapshot has, and at a graceful restart the snapshot is what is in memory.

Then the records around them: first the refinement `RecordsImplementAccounts`: every step of
`RideRecords` is a step of `UserAccounts` or leaves the accounts alone, so the
theorems above hold here without being proved again (`RecordsLoginCorrect` and
others). Then `ChargeCorrect`. That the user of each active ride has an account
with a card that is not blank is inductive only together with the same fact of the
snapshot, and with the facts that upgrades and card changes keep both: a crash
brings back rides and accounts of the same moment.

Last come the lists. `RidersInv` adds that the index matches the records, that the
order lists them once each, and that an active ride is the one its user is filed with,
of memory and of the snapshot alike. An index that is filled by appending is the
grouping of the longer list (`GroupedAppend`), so `add` keeps it and `restore` builds
it again; the index of a user is then the records filtered by user (`GroupedLists`),
and the first active ride in it is the only one. Theorems `RideListsCorrect`,
`ActiveRideCorrect`, `RestartCorrect`.

`ListProofs`: what a loop over a list computes is proved by induction. The library
states induction for an operator, which the provers here cannot instantiate; but a
property of the elements of a known set is a set, and for sets the principle follows
from `<` being well founded (`Induction`, `ListInduction`). A loop is a recursive
function, so that `Recursion` gives its existence and its equations, and `KeptAppend` and
`GroupedAppend` say how it goes on by one element.

`ColdStartProofs`: one invariant, `ColdInv`, for all six properties, for files of
any length. `order` lists the keys of the dictionary without repetition, which is
why a vehicle is linked once; before linking nothing is docked; during linking what is
docked or pooled has been passed by the cursor, so the vehicle at the cursor is in
neither place; and no station is beyond its capacity, so that the equality in
`is_full` is as good as an inequality. `LastRowWins` needs that the rows behind the
cursor and the dictionary agree, stated for the last good row of each id. Theorems
`ColdTyped`, `ColdCapacity`, `ColdDockedOnce`, `ColdPlaced`, `ColdFails`, `ColdLastRow`.

`MaintenanceProofs`: the cold start and what follows it, rides, reports and crashes
included. The invariant `MInv` depends on the phase. Before serving it is `ColdInv`,
with no events yet. While serving, `ServingInv`: the vehicles, the repository, the
stations, the pool and the log are each well formed and fit one another (`FleetGood`),
a vehicle that is ridden is neither docked nor pooled (`RidesGood`), the events are
numbered and the index is the one grouped from them, and every vehicle of the batch
that is still to come is in it once and is due.
The last part is what makes `OnlyDueTreated` inductive: treating one vehicle changes
the pool and the count of that vehicle only, so the others stay due. An event fits its
vehicle while the vehicle is in memory; a restart forgets reported vehicles and keeps
their events, and nothing is said of those. `RidesGood` is why a returned or reported
vehicle may be appended to a list without a search: it is in none.

Of `state.json`, once there is one, the invariant says that some fleet was written
out (`SnapshotOf`): one that satisfies the same conditions, reported vehicles included,
of which the file has the vehicles of the repository and only the ids of the others.
A startup keeps `FleetGood` and `RidesGood` for what is left when the lists are reduced
to the known ids, and gives every known vehicle back, because the child seat of a bike
and the battery of the others are written under the field that `_vehicle_from_dict`
reads for that type. Thirteen theorems, one for each property of the run `fleet` and
one for the invariant itself. `LinkingInitial` needs one more invariant, that no vehicle the cursor has
passed is degraded and outside the pool, and the count of a station's list: without
repetition it is the cardinality that `RideService` speaks of (`ElementsCounted`).

One proof failed for a good reason and changed the model. The station a vehicle names
used to range over the ids that occur in `vehicles.csv`; typing does not follow,
since repairs and treatments dock a vehicle at any station of `stations.csv`. The
run had not shown it, as every station of its files is named by some row. The set is
gone: a station id is an integer, as in the code.

## 7. Only model-checked

* Liveness (`RequestsFinish`): fairness and ENABLED are out of the prover's reach. It
  is the only property of a passing run without a theorem.
* The violations, which are single behaviours.

There are no recursive operators; the recursive functions of `Lists` are proved about
for lists of any length.

## 8. Not modelled

* The payments repository, `domain/payment.py` and `VehicleReport`: nothing in the
  program creates a payment or a report. `issue_receipt`, `issue_refund`,
  `VehicleFactory`, `check_maintenance_needed` and the ride history inside `User` are
  called by nothing but tests.
* The characters of CSV fields and JSON (which texts a parser accepts is modelled,
  how it takes them apart is not), request validation, routing, logging, timestamps:
  no property is about them. A corrupt or hand-edited `state.json` is not considered.
* Read-only endpoints: they change nothing and, not suspending, read one state.
* Cancellation of a handler when its client disconnects: the framework runs these
  handlers to completion.
* The ride models start from fleets like the shipped one: every vehicle degraded, or
  available and at a known station. What other files lead to is in `ColdStart` and
  `Maintenance` only.

## 9. Plan

Order of work, the most important behaviour first:

1. Done: `RideService`, its runs and proofs; `RideLedger` and the refinement, checked
   and proved; `Restart` and its runs; `UserAccounts`, its runs and proofs.
2. Done: `ColdStart`, checked and proved, from which the `Init` of `RideService` is
   derived instead of stated; `Maintenance` with events, their index and the pool;
   `RideRecords`, checked, with the accounts part and the charge proved; the theorems
   about `Restart`.
3. Done: theorems about every property of the passing runs except the liveness one:
   `ListProofs`, `MaintenanceProofs`, the lists of `RideRecordsProofs`, the causes of
   the violations in `RideFleetProofs`; rides and reports in `Maintenance`.
4. Open: a lock-order specification, the two-lock discipline under which
   `RequestsFinish` holds, as an abstraction of the lock queues; that no two requests
   wait for each other is a safety property and can be proved.
5. Open: that `Restart` implements `RideLedger` between crashes, and that the fleet of
   `Maintenance` and that of `Restart` agree across a graceful restart.
6. Open: the two distance formulas against each other, on a grid of coordinates.
