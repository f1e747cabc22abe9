# Verification of EV Trip Logger

TLA+ models of the Home Assistant integration in
`src/custom_components/ev_trip_logger`, their model-checking configurations and
machine-checked proofs. Line numbers refer to `coordinator.py` unless a file is
named.

## The system

The integration turns the sensors of an electric car into a log of trips and
charges in an SQLite file. One `EvTripLoggerCoordinator` per config entry runs
on Home Assistant's event loop.

**Concurrency.** One thread. A state-change callback and the part of a coroutine
before its first suspension run to the end; every `storage.async_*` call
suspends (an executor job), and then any other callback, timer or coroutine may
run. `hass.async_create_task` starts the coroutine eagerly. There is no lock:
a coroutine that resumes must re-read what it decided on. Unloading the entry
cancels timers and listeners, not coroutines. Only the database survives a
restart; open sessions are re-created from the sensors.

### Components

| Component | State | Operations | Correct when |
|---|---|---|---|
| Live trip lifecycle (2611-2965, 3722-3739, 4099-4110, 5120-6163) | `current`, `_pending_close_unsub`, `_pending_open_unsub`, live tick | on/off edge, retry, metric, speed, live tick, stuck-trip watchdog, `start_trip`, `end_trip`, the close coroutine | one trip at a time, each stored or dropped once, every kilometre in one row, no timer of one trip acts on another, every trip ends |
| Live charge sessions (3792-3883, 4112-4471, 8166-8214) | `current_charge` | charge edge, close, discard, the three close-then-open chains | exclusive with trips, each session written once, a live session is not taken over |
| Startup, unload, reload (`__init__.py`, 2331-2609) | listeners | `async_start`, resume, `async_stop` | nothing of the old coordinator acts on the new one; resuming overwrites nothing |
| Odometer ledger (3067-3536, 4680-5118, 6151) | `_last_idle_odo`, `_synth_baseline` | odo jump, synthetic trip, orphan, disconnect orphan | a kilometre is in at most one row |
| Journeys (3323, 3513, 5781-5807, 6136-6140; `storage.py` 1645, 1823-1960) | `current_journey_id` | mint, absorb, close at home, resolve after restart | ids unique, one journey open, closed once |
| Charge log (4112-4533, 6165-6415, 7801-7866; `storage.py` 2552-3684) | `last_charge`, rows | insert, merge, dedup, edit, delete | a session's energy is in the log once; the cache is the last row |
| Cost pool (`storage.py` 221-256, 3168-3571) | derived | replay over charges and trips | energy and cost conserved, replay idempotent |
| SoC anchor (4535-4678) | SoC ring buffer | choose the SoC a trip starts at | never a value older than the last session |
| Trip energy (5575-6068, 7603-7799; `storage.py` 259-283, 1397-1553, 3901-4123) | rows' energy, label, lock | close, charge credit, vehicle heal, `set_trip`, `heal_history` | a charge is credited once, a label is borne out, a heal agrees with the close |
| Deferred writers (1465-1830, 3036-3065, 4473-4516, 7603-7799) | timers | EVSE backfill, vehicle heal, arrival relabel | patch the row they were armed for, or nothing |
| Recovery and manual log (6871-7435) | none | `recover_missing_trips`, `log_manual_trip`, purge, delete | never duplicates a logged drive |
| Capacity and SoH (1188-1280, 2020-2296) | calibrated capacity | calibration | bounded |
| ABRP (`abrp.py`, 3885-4020) | last send, task | throttled telemetry | one request at a time |
| Entities (`sensor.py`, `calendar.py`, `switch.py`), `config_flow.py`, `calc.py`, `cohort.py`, `elevation.py`, schema | none of their own | views, forms, formulas | not state machines |

Interactions: sensors call the coordinator through callbacks; the coordinator
calls storage (awaited), fires events and notifies listeners (synchronous);
services call coroutines of the coordinator. A charge and a trip share
`current`/`current_charge`, the close of one opening the other across an await;
trips, synthetic trips and orphans share the odometer baseline; all rows share
journeys and the cost pool.

Hard behaviours are listed with their lines as `hazards` in `PROJECT.json`.

## Plan

1. *(done)* `TripLifecycle`, `TripLiveness`, `TripLifecycleProofs`: live trips,
   live charges, timers, suspended coroutines, unload and restart.
2. *(done, except conservation of distance)* `OdometerLedger`,
   `OdometerLedgerProofs`: idle baseline, synthetic trip and its coalescing window,
   orphans and disconnect orphans beside a live trip.
3. *(done)* `Journey`, `JourneyContract`, `JourneyProofs`. What overlapping
   coroutines do to the memory is modelled and outside the properties.
4. *(done)* `ChargeLog` and its proofs: merge, dedup, the charge services
   against the close, `last_charge` against the rows, the EVSE backfill,
   coroutines that outlive their coordinator.
5. *(done)* `CostPool`, `CostPoolProofs`: the replay with exact fractions and what
   runs it.
6. *(done)* `TripEnergy`, `FiniteSums`, `TripEnergyProofs`: the energy of a row
   from its close to its last heal.
7. *(done, without database errors)* `TripRecovery`, `TripRecoveryProofs`: recovery
   over the edges and the odometer, orphans, manual rows, deletions and
   `self.last_trip`.
8. Left: an unload that lets coroutines finish in `Journey`; kilometres that end in
   no row (an opening trip drops the synthetic baseline at 5126, and only an orphan
   can take its place); ABRP's throttle.

## Modules

### TripLifecycle

One action per callback, timer or resumed coroutine.

| Model | Code |
|---|---|
| `vehicleOn`, `charging`, `odo`, `odoSeen` | what `hass.states` shows: on/off/neither, the last numeric odometer, and whether it is fresher than 90 s, older, or not a number |
| `trip`, `charge` | `self.current`, `self.current_charge`, with `idle` and `old` for the age tests of the two watchdogs |
| `pendingClose` | `_pending_close_unsub` with the closure's `defer` and the number of deferrals |
| `pendingOpen`, `liveTick` | the retry chain's next attempt; `_unsub_live_tick` |
| `tasks` | coroutines suspended in storage: what they hold in locals (`of`, `start`, `stop`, `end`), where they are (`pc`) and what they do next (`then`) |
| `phase` | entry loaded, loaded while Home Assistant boots, or unloaded |
| `tripRows`, `chargeRows` | the database |
| `opened`, `sessions`, `dropped` | bookkeeping: numbers of trips and sessions, and the trips that ended without a row for a stated reason (too short, entry unloaded) |
| `repeated` | bookkeeping: trips asked to close while a close of them was suspended, and trips a failed close left open with their row in |
| `cleared` | bookkeeping: trips that the end of another trip's close took out of `self.current` |

`CloseTrip` is `_async_close_trip` up to its first await: it stops the
heartbeat, discards a trip under the minimum distance on the spot, and otherwise
suspends with the odometer it read. `InsertTrip` writes; `FinishTrip` clears
`self.current` *without looking at whose it is*, as the code does. `CloseCharge`
is `_async_close_auto_charge`: the session leaves `current_charge` before any
await, and is either discarded at once (the caller continues synchronously) or
written later. `AfterCharge` is the tail of the two chains that close a charge
and then open a trip, and `WantsCharge` the one that closes a trip and then opens
a session.

Data left out: SoC (a discarded session is a nondeterministic choice), power (it
vetoes the odometer's escape hatch in `_charge_still_delivering`: a choice),
locations, energy, statistics, the refresh of cloud sensors (its effect is a
sensor report). Distances are half kilometres. Time stamps are the number of
trips opened when they were taken: that is all `EndsAfterStart` compares. Whether
a saved session becomes a row or extends the previous one is left to the charge
log: `chargeRows` is the set of sessions whose energy is in the log.

Continuations of a coroutine whose coordinator was unloaded are modelled as far
as the database; what they do to the memory of that coordinator (they may open a
trip nobody watches) is not. `async_stop` drops the open
sessions; the distance driven since is for the odometer ledger.

### TripLiveness

`TripLifecycle` with the fairness of its scheduling and one bit more: `reports` flips
with every report that `vehicle_on` is off, since each cancels and restarts the
debounce (2665).

### OdometerLedger, OdometerLedgerProofs

The rows for kilometres no live trip saw, beside those of live trips. A row is a
record of its kind and its intervals of kilometres and time.

| Model | Code |
|---|---|
| `odo`, `readable`, `vehicleOn` | the sensors |
| `trip` | `self.current`: `odometer_start`, `last_seen_odometer`, `started_at` |
| `idle`, `synth`, `finalizeAt` | `_last_idle_odo`, `_synth_baseline`, when the finalize timer is due |
| `lastTrip` | `self.last_trip`: where orphans start |
| `tasks` | coroutines suspended before the insert of their row (`stored = 0`) or after it (`stored` is the row's place) |
| `rows` | the trips table |
| `crossed` | bookkeeping: a coroutine that writes a row started while another was suspended, or the entry was unloaded with one suspended |
| `half` | bookkeeping: rows whose coroutine failed after the insert |

`CheckOdoJump` is `_async_check_odo_jump`: its alternatives are the early returns
in their order. A disconnect orphan moves the baseline only when its row is in
(`AfterDisconnect`), or when the insert fails, since the code catches the error.
`InsertFails` is an error of the insert or before it; `FinishFails` one of the awaits
after it (6080-6101 of a live close, 3487-3495 of a synthetic row, 4972 of an orphan,
5099 of a disconnect orphan), which leaves the row in and `self.current`, `last_trip`
and the baseline as they were. A live trip opens and closes at any time, which is what
the ledger has to withstand. Here a trip being closed is not closed again: that is in
`TripLifecycle`. The clock counts units longer than a database call and
shorter than the coalescing window, so it does not move while a coroutine is
suspended. An orphan can be rejected (`OrphanRejected`): the battery does not fit
the distance, or the recorder had the drive. Rows recovered from the recorder,
GPS, SoC, journeys and costs are left out.

Everything may interleave in the model. The code has no lock, and does count
kilometres twice once two rows are in the making at once; the properties name that
(`crossed`), and say what holds until then.

### Journey, JourneyContract, JourneyProofs

| Model | Code |
|---|---|
| `rows` | the trips table: whether a row ends at any home, its `journey_id`, whether it ended before the others (`old`), whether it was deleted (`gone`; ids are never reused) |
| `current`, `completed` | `current_journey_id`, `last_completed_journey_id` |
| `lastTrip` | `self.last_trip`: id and destination, which late arrivals can change |
| `driving` | `self.current` is set |
| `tasks` | a coroutine between two database calls: `decide`, `mint`, `insert`, `absorb`, `finish`, or `amend`, `finish` |
| `disturbed` | bookkeeping: memory and log may differ, because the log was changed without deriving the journey from it again, coroutines overlapped, or a drive was logged behind newer ones |

`OpenInLog` is `_resolve_open_journey_id`. The four writers differ as in the code:
a synthetic trip that arrives home with no journey open gets none, an orphan gets
one but absorbs nothing, a live or manual trip absorbs. `FinishLate` closes the
journey in memory whatever trip it amended. `disturbed` is set by `delete`,
`purge`, `recover`, by a correction of a home arrival to another place, by a database
error after an insert, by a coroutine that starts while another is suspended (two
may mint the same id, 5793), and by a row older than the newest: a manual trip
logged late that ends at home closes the open journey, and one that does not makes a
late arrival lose against the later id. `set_trip` and a restart clear it, since they
derive the journey again, unless other coroutines are still suspended or the log holds
old rows. Where a trip starts and ends is free, since the tracker may be wrong.
An unload is a crash here: that suspended coroutines still write is left out.

`JourneyContract` is the abstract log: a journey departs, ends once, and never
goes on. The refinement maps it to the log alone (`OpenInLog` and the other ids
in it), so it holds through crashes that separate a row from `current`.

### ChargeLog

What becomes of a charge session once it ends. `TripLifecycle` says when that is.

| Model | Code |
|---|---|
| `session` | `self.current_charge` |
| `lastCharge` | `self.last_charge`, one per coordinator: `gen` is the one loaded, and coroutines of an unloaded one keep writing to theirs |
| `pending` | `_pending_evse_backfills`: timers by row id |
| `tasks` | suspended coroutines: `pc` is the database or recorder call each waits for |
| `rows`, `nextId` | the charges table; `energy` is the set of sessions whose kWh a row holds |
| `gone` | bookkeeping: sessions that ended without a row, or whose row was deleted |
| `disturbed` | bookkeeping: two coroutines overlapped, `set_last_charge_price` made an old row `last_charge`, or `set_charge` moved the end of the row that is `last_charge` behind another's, or of any row past the present |

`SessionEnds` is `_async_close_auto_charge` up to its first await, and takes the
session out of `current_charge` before anything is decided. `PlugAnswers` resumes
after the recorder has said whether the plug stayed in, and reads
`self.last_charge` again, but not whether the battery had fallen. `Outcome` is
the decision. `Extend` is the read and write of `_extend_last_charge`, one SQLite
transaction, and falls back to an insert; `Adopt` is the code that runs when the
call has returned. `Price`, `Patch`, `Delete`, `Refresh` and `Read` are the
services' calls. A correction by `set_charge` (`Corrections`) may move a row's start
and end and change its SoC, and the coordinator then keeps the corrected row or
reads the newest, as 6515-6518 do. `TaskFails` raises any of them. `Reload` leaves coroutines
running beside the new coordinator; `Crash` ends them.

Data left out: kWh (a row holds sessions, which is what can be booked twice),
money and prices (`CostPool`), power. What the plug sensor reads and what the
recorder answers is arbitrary. A clock step is a fraction of two hours, so no
coroutine spans one (`Tick`). A battery notch is more than 1 %, the least rise a
session is kept for.

### ChargeLogProofs

The proofs about `ChargeLog`: types, energies and backfills, the cached last charge
and what a close decides on it; described below.

### CostPool, CostPoolProofs

`_recompute_trip_costs_from_charges` as operators, in the order of its steps, and
as actions the operations that run it or change what it reads.

| Model | Code |
|---|---|
| `charges`, `trips` | the two tables, by the instant that orders a row |
| `Unpoisoned`, `FilledIn` | steps 0 and 1: impossible integrals forgotten, missing energies estimated |
| `Charged`, `Withdrawn`, `PoolAt` | step 2: the pool, its one price, and the stack of lots beside it |
| `Anchored` | `_anchor_lots`: trim the oldest, pad below them |
| `Replayed` | the whole replay, with the locks it honours |
| `hint`, `tariff` | `storage.capacity_hint_kwh`, what `_current_energy_price` returns |
| `heals` | capacities for which a calibration started a task that has not run yet |
| `settled` | bookkeeping: nothing but charges has moved since the last replay |

kWh and money are exact fractions, each written with its least denominator so that
equal figures are equal values: the rounding of stored figures is left out, and a
conservation law then is an equation and not a tolerance.
`Calibrate` publishes a capacity, which a replay reads from then on, and `HealEnergies`
is the task it starts: whatever the capacity is by then, it rescales the rows to the one
it was started for and replays. `LogTrip` of a trip without energy, `DeleteTrip` and a
`HealEnergies` that finds no row to rescale do not replay, as in the code, and
`settled` is false after the first two and after `Calibrate`.

### TripEnergy, FiniteSums, TripEnergyProofs

| Model | Code |
|---|---|
| `Measured`, `Corrected`, `Published` | `_async_close_trip`: the ladder of measurements, the mid-trip charge, whether a consumption is published |
| `Credited`, `Apportioned` | `_charges_attributable_to_trip` and `_apportion_straddling_charge` |
| `sensor`, `CarReports`, `CarReturns` | the car's last-trip sensors and when they last changed; published again, with the old figure and a new change time, after a drop-out or a restart |
| `figure` (of a row) | bookkeeping: which drive a vehicle energy was about |
| `RefersTo` | the guards of the vehicle heal; the distance counts only where a distance sensor shows one (7722-7742) |
| `HealFires`, `HealWrites` | the vehicle heal: the read of the row and the sensor, then the write |
| `pending` | its timer, or the sweep at start |
| `SetTripEnergy`, `SetTripSoc` | `set_trip`: an energy locks the row, a reading does not |
| `HealCredited`, `Reanchors`, `Rederived`, `HealHistory` | `_heal_history`, which has its own copy of the close's rules |
| `asClosed`, `byHand` | bookkeeping: rows nothing has touched, rows `set_trip` has |

One notch of the battery is one kWh and at least 3 %, above the threshold below
which a drop is not a measurement. The marginal rung of the ladder (1 to 3 %),
the sanity checks of the power integral and the display fields of the mid-trip
correction are left out. The energies that a replay of the costs fills into rows
without one are in `CostPool` and not here: a row without energy stays without until it
is healed or corrected.

### TripRecovery, TripRecoveryProofs

| Model | Code |
|---|---|
| `driven`, `reported` | what happened, and what the recorder kept of it: the edges of `vehicle_on`, and the odometer only where it was sampled |
| `EdgeSegments`, `Walked`, `Segments` | `_recover_segments_via_vehicle_on`, the odometer walker, and the choice between them |
| `tasks` | the coroutine of each kind in flight: `check` (overlap), `insert`, `assign`/`adopt` (`self.last_trip`), `look`, `store`, `orphan` |
| `rows`, `nextId`, `lastTrip`, `current` | the trips table, its counter, `self.last_trip`, `self.current` |
| `raced` | bookkeeping: a coroutine started beside another, or a recovery was asked to look into the open trip |
| `stale` | bookkeeping: `last_trip` was assigned from a look the table has outrun |
| `swept` | bookkeeping: the window of the last recovery that ran alone |

A step is five minutes and no coroutine spans one. A car that drives moves one
kilometre per step. An opening trip starts a recovery over the gap and, when that
finds nothing, an orphan row, shortened where the gap is long. `Adopted` is
`_adopt_last_trip`, which a live close bypasses.

### TripLifecycleProofs

The theorems, described below.

## Runs

Two trips and two slots for suspended coroutines are enough for every race of a
late close with the next trip, because a step involves at most the open trip, the
trip a coroutine holds and one more coroutine. The odometer range gives a trip
too short to keep, one long enough, and the two distance tests (`OffMoved`, `GuardMoved`)
both answers. `MaxTrips`, `MaxCharges`, `MaxOdo`, `MaxFailures`, `MaxReloads`
are bounds of the model in guards; a report of charging past `MaxCharges` is not
explored. `Retries` and `MaxDefers` are smaller than in the code (4 attempts,
20 checks in an hour). `Slots` are interchangeable, so symmetry is used in the
safety runs and not in the liveness run.

| Run | Question |
|---|---|
| `lifecycle_faults` | every edge, timer and await interleaved, with an unload, crash or database error anywhere, a start during boot, drop-outs, and close requests during a close: timers and sessions do not leak into one another, a session is written once, kilometres once; a trip is stored twice, or forgotten, only in the ways named |
| `lifecycle_live` | every open trip ends, with dropouts and a lost close, once reports that the car is off stop restarting the debounce |
| `ledger` | kilometres of live trips and orphans are in one row, and the idle baseline is never behind the log, with coroutines suspended as long as they like, a restart or crash, and an error before or after an insert |
| `journey` | a restart finds the open journey, the one shown as completed is over, and the log fulfils `JourneyContract`, with a crash, a database error, overlapping coroutines and one rewriting service or late manual trip anywhere |
| `charge_log` | a session's energy is accounted for once, the cached last charge is the last, a deferred backfill finds its own row, a merge joins one session and only what the log covers is discarded |
| `cost_pool` | trips are priced within what was charged before them, pool and lots agree, the replay is idempotent, a later charge leaves earlier trips alone, hand figures stay |
| `trip_energy` | a charge is credited for no more than it delivered, a label is borne out, the car's figure fits the drive, `heal_history` repeats the close |
| `trip_recovery` | no stretch of the odometer is in two rows, `last_trip` is the newest row, a recovery over the edges leaves no drive it can see without a row |
| `ledger_double_count`, `heal_lock`, `recovery_orphan`, `vehicle_stale` | disagreements between the code and its documentation, below |

`lifecycle_faults` has two trips and one charge: a charge and the trips on either
side of it. It follows one database error, unload or crash, and sensors that drop
out before that and before the second trip (`FewFaults`); `lifecycle_live` has them
drop out at any time. That two sessions do not meet is proved for every number of them
(`ChargesNeverOverwritten`, `SessionsStoredOnce`).

In the ledger three kilometres and four time units hold two rows and a gap, and
put a baseline on either side of each age limit (`SynthAge` < `OrphanAge` <
`DisconnectAge`, the order of 2 h, 12 h and 24 h). Once two rows have been in the
making at once (`crossed`) the properties say nothing more, and `CrossedEarly` follows
such a log to time 1 only. The same is proved for any distances, ages and number of
coroutines, restarts and failures.

Three rows are a departure, an arrival and the trip after it, or a journey with an
amended arrival and a drive logged behind it; one service call is enough to disturb the
log before, between and after them. `journey` has two slots, so a coroutine may start,
mint and write beside another, but only while the log has at most one row
(`CrowdedEarly`): what follows is disturbed until a restart or `set_trip`. The three
properties are proved for any number of slots, rows, edits, failures and crashes.

`charge_log` has two sessions, two slots, one service call, and one database
error, reload or crash. `SomeCorrections` lets `set_charge` change a SoC, put a row's
end before another's, and put a row past the present. `DedupWindow = 1` makes a charge of the same instant
recent and one a step back not; three states of the battery let it rise, rise
again and fall between. Two sessions are the one a row holds and the one being
decided on. All six properties of the run are proved for every bound.

`cost_pool` has two instants with a charge and a trip at each, which is one
charge before, at and after a trip, one pack that grows from 2 to 4 kWh and back, with
the heals of both calibrations late, charges paid nothing, the home price of one, or
two per kWh, a tariff above all of them, and a charge with and
without its readings. A charge of 3 kWh is more than the declared pack holds, so
lots are trimmed, padded and run out.

`trip_energy` has two trips on three units of time and one charge before, inside or
across the start of a trip, with a battery that fell, rose or was not read; that two
charges add up is proved. One
edit is a report of the car, a correction or a deletion; restarts, drop-outs,
`heal_history` and the close are unlimited.

`trip_recovery` has four steps: a drive, a pause and a drive, or one long drive
that begins before the window `<<1, 4>>`; every subset of instants may carry an
odometer sample, and `wired` says whether the edges exist. Three rows are two of
those and a third that should not be there. `recovery_orphan` has six steps and one
call: a trip, a drive nobody noticed, a late trip over its gap, and a recovery of
the window `<<2, 4>>` inside that gap; with fewer steps the orphan's row leaves no
room beside it for a drive.

### Fairness

`FairSpec` assumes that time passes, that timers that stay due fire and that
suspended coroutines resume; the event loop guarantees these. Nothing is assumed
of the car, the sensors or the user. The deferred close is fair only if the reports
that the car is off end (`ReportsEnd`), because each of them, attribute changes
included, restarts its 180 s: while they keep coming the loop owes it nothing.
`TripEnds` has that as its premise, and fails without it: the live tick and the
stuck-trip watchdog yield to a deferred close that never fires.

### Disagreements found

Each has a run that TLC finds violated:

- `ledger_double_count`: 3068 promises one synthetic trip for consecutive growth.
  Growth seen shortly before the baseline is two hours old arms the timer; a tick
  after that records a disconnect orphan for the same kilometres and leaves the
  timer its baseline. Nothing has to interleave.
- `heal_lock`: `storage.py:1528` says a hand correction is locked so that the
  bulk heals leave it alone; `_heal_history` does not read `energy_locked`.
- `recovery_orphan`: `README.md:159` and `README.md:315` of the repository say
  `recover_missing_trips` inserts the growth no trip covers. An orphan row carries
  the kilometres of the whole gap but only its end (4863-4894), and the overlap test
  (7178) compares times. Without `vehicle_on` the recovery of the opening trip begins
  at the last trip's end, so that trip overlaps its segment and the orphan is written;
  a later call from inside the gap inserts the same kilometres. Nothing has to
  interleave. `RecoveredKilometresOnce` has this as its one exception.
- `vehicle_stale`: 7692-7694 and 7613-7616 say the guards of the vehicle heal keep a
  stale figure of the previous trip out. They go by the sensor's `last_changed` (7709),
  which moves when the sensor is published again, after a drop-out or a restart, and by
  the distance, which is compared only where a sensor shows one (7722-7742). The figure
  of the drive before is then taken for this one's. `VehicleFigureFits` has this as its
  exception.

### Known disagreements

Properties stated in the modules that the code does not have. They have no run of
their own; naming one in the cfg of the module reproduces it, with the change of a
constant where one is given.

- `TripLifecycle!MutualExclusion`: 2770 says a charge is closed before a trip
  opens; the metric path (2921-2935) opens the trip and leaves the session open.
- `TripLifecycle!NothingTakesOverLiveSession`: `CHANGELOG.md:509` says nothing takes
  over from a live session; the coroutine that closes a charge and resumes the
  trip (3853) does not re-read the charge sensor after its await.
- `TripLifecycle!EndsAfterStart`: 2660-2662 say a trip ends at its off-edge; the
  debounce survives `end_trip` and closes the next trip at the earlier off-edge.
- `Journey!ReloadKeepsJourney`: `README.md:120` says a reload never loses the open
  journey; the query orders by id, and `recover_missing_trips` gives an earlier
  arrival home the highest id.
- `CostPool!TomorrowNeverReprices`: `storage.py:3508-3516` and 1914-1916 say a
  later charge never re-prices earlier driving; trips before the first charge take
  the tariff of the moment the replay runs.

- `TripRecovery!SparseDriveRecovered`: 7050-7053 and 7142-7146 say a drive without
  an odometer sample while the car was on is recovered from the next one. The
  fallback at 7148 is never reached, since a sample precedes every drive the start
  is read for.

Exceptions that properties name, since the code does what they exclude. Dropping the
exception from the property makes TLC show it:

- `TripStoredOnce` without `repeated`: a second close request while a close is
  suspended (watchdog, `end_trip`, charge pulse), or an error after the insert and
  before 6143, has the trip stored twice.
- `TripsAccountedFor` without `cleared`: the end of a close clears `self.current`
  (6143) whatever trip it holds by then. It takes a trip closed twice before.
- `LiveKilometresOnce` and `BaselineAhead` without `crossed`: a second tick while a
  disconnect orphan is awaited (3128, before the baseline moves at 3133) writes it
  again; a trip that opens while a synthetic row or an orphan is being written, or a
  reload in the middle of a close, finds `last_trip` behind and counts its
  kilometres in an orphan. Without `half`: a row whose coroutine failed after its
  insert is written again.
- `ResumeFindsJourney`, `CompletedIsOver`, `FulfilsContract` without `disturbed`: a
  live close and a manual trip mint one id (5793), and the cases listed there.
- `LastChargeIsNewest` and `MergesOneSession` without `disturbed`: `set_charge` on the
  row that is `last_charge` keeps it (6515-6516), although its new end lies before
  another row's; `set_last_charge_price` with the id of an old row makes that row
  `last_charge` (6311). A pulse whose battery had fallen is then compared with one row
  and merged into another. So is, in an overlap, a pulse when the log changes while
  the recorder is asked: 4182 calls a fall of the battery unambiguously a new session,
  but it is looked for before that await (4150-4165) and not after it.

Read in the code while modelling it, and within the models' behaviour unless
noted:

- A session that reopens while the previous close asks the recorder is later
  discarded as logged by hand (4178-4181), although nobody logged it.
- A session that ends after `delete_last_charge` has deleted the row it overlaps
  and before `last_charge` is read again (6397-6411) is discarded for the deleted
  row. `DiscardsOnlyCovered` leaves a close beside another coroutine out.
- A pool whose first charge was free takes its zero price for "no price yet"
  (`pool_avg_price <= 0`), and the next opening inventory takes the next charge's.
- `delete_last_trip` and `purge_trips` do not replay the costs, deleting a charge
  does; a calibration that finds nothing to rescale leaves costs of the old pack.
- `heal_history` replaces the pack meter's figures (compare `storage.py:3893-3896`),
  a second heal may differ from the first after a re-anchor, and the vehicle heal
  sets `energy_locked` as a hand correction does.
- A recovery pointed at the open trip stores that drive twice when the trip closes
  (6913; `README.md:159`, `README.md:315` of the repository); so may a recovery by
  the user that overlaps the one an opening trip runs.
- One recovered drive hides a second missed one from the orphan (4749-4769). A
  trip that was deleted is recovered again by the next opening trip.
- The odometer walker skips a stretch when any row overlaps it, and wants strictly
  more than the minimum distance, where the edges want at least that.
- A live close installs its row as `last_trip` unseen (6142) and displaces a newer
  manual row written during its awaits.
- `log_manual_trip` of an old trip that ended at home completes the open journey
  (7343-7422).

## Proofs

For every value of the constants satisfying each module's assumption (naturals, and
non-zero distances): no bound on trips, coroutines, reloads or failures is used.

- `TypeInvariant`: one lemma per helper, then one per group of actions.
- `TripsNeverOverwritten`, `ChargesNeverOverwritten`: action properties. They
  need only the types: every path re-reads the session in the step that opens it.
- `TimersInvariant`: `TimerInvariant` is inductive. `RetryOnlyWhileWaiting` and
  `NoCloseWhileOn` are not, by themselves: an off report that reaches an unloaded
  entry cancels nothing, so the proof needs `StoppedClear` (an unloaded entry has
  no timer, and a resumed one starts from that).
- `SessionsStoredOnce`: `ChargeInvariant` says a session is in one place: open,
  held by exactly one coroutine that has not written it, or behind it.
- `KilometresCountedOnce`: `KmInvariant` adds to the rows the intervals that
  suspended coroutines still have to write, and orders them before the open trip.

- `LedgerTypes`: what stands for no point or no trip is recognised by one field
  (`Marked`), so a row starts and ends at readings. That the newest row exists is
  the least-number principle applied twice, to the ends and then to the ids.
- `LedgerLiveKilometresOnce`, `LedgerBaselineAhead`: of every behaviour, with crashes,
  reloads and errors before and after an insert. `LedgerInvariant` says that until two
  rows are in the making at once at most one row is being written and fits behind the
  others (`OneRowAtATime`), that the log grows at its end in kilometres and in time
  (`LogGrows`), and where the next row may start: a live trip, an orphan and the
  idle baseline past every row, the synthetic baseline past every row that is not a
  guess, since a disconnect orphan may have overtaken it (the disagreement of
  `ledger_double_count`). A discarded trip is why a live trip's last reading, and
  not only its first, has to be past every row.

- `ChargeLogTypes`: `TypeInvariant` adds to the types that the ends of rows have a
  bound (a corrected row may end in the future), that ids stay below the counter, and that a suspended close carries a
  pulse that ended by now. Without it the newest row need not exist: it is the
  maximum of a set whose end times have a bound, which `NewestExists` shows from
  the least number principle.
- `ChargeEnergyBookedOnce`: `EnergyInvariant` says the sessions opened are
  partitioned among the open one, those coroutines hold, those in rows and those
  given up (`Accounts`). Sessions move between these by five steps, each a lemma
  (`KeepsHolding`, `Releases`, `Takes`, `RowReplaced`, `RowAdded`, `RowRemoved`),
  and every action is one of them. `EnergyBookedOnce` alone is not inductive: it
  does not say that only a close waits to merge, nor that what is held, booked or
  given up was ever opened.
- `ChargeBackfillsOwnRow`: `BackfillInvariant` adds that an id names one row and
  that every timer, every backfill and every close that is to arm one names a row
  of its session or none (`Names`). Actions keep that because the next table
  `Continues` this one: its rows are new, or rows of this one with what they held.
- `ChargeLastIsNewest`: copy and log differ while a coroutine is in flight, so
  `CopyInvariant` says, while nothing has disturbed them, that at most one
  is (`InStep`) and what adopting its copy, or reading the log again after a
  correction, will do (`Expects`). That the row a merge or an insert leaves is the
  newest needs that no row ends in the future, which is why a correction past the
  present disturbs, and that a coroutine's time is now (`Prompt`).
- `ChargeMergesOneSession`, `ChargeDiscardsOnlyCovered`: action properties. The
  second follows from `CopyInvariant`; the first adds that a close that may still
  merge has found the battery not fallen against the copy there is now (`Fits`).

- `TripsWatched`: a step is one of a few kinds (`StepClassified`: it leaves the trip,
  opens, discards, hands it over, or is about a coroutine's end), and each keeps the
  heartbeat with the trip. Its exception is in the property: a close that a database
  error ended has stopped the heartbeat and leaves the trip to the watchdog.
- `TripsStoredOnce`: `OnceInvariant` says where each trip that was closed once is:
  open, with one coroutine that has not written it, or in one row. It holds through
  errors, reloads and crashes; what a second close request or an error after the insert
  does to a trip is what puts it among `repeated`.
- `TripsAreAccountedFor`: `AccountedInvariant` adds that a close at its end has its row
  in, and that a close in flight is the open trip's, or that of a trip as late as one
  that was closed twice: only so can it find another trip to clear.

- `JourneysTyped`: for any number of slots. That the log has room for the rows of
  suspended writers counts them (`BoundInvariant`, a cardinality).
- `RestartFindsJourney`, `CompletedJourneyIsOver`, `JourneysFulfilContract`: of every
  behaviour, as far as the properties go (until `disturbed`, and after it is cleared).
  `AloneInvariant` says that an undisturbed coordinator has at most one coroutine in
  flight (`Lone`) and a log in the order its drives ended (`InOrder`), which is why
  deriving the journey anew clears `disturbed` only where no other coroutine is
  suspended and no old row is left: with one, a `set_trip` that moves a late recovered
  row into the open journey leaves a later arrival behind it, and the restart resumes
  the wrong journey. `MemoryInvariant` says what a restart at each point of the coroutine
  would find (`Halfway`): a journey minted and in no row, a row without its absorption, a
  row whose arrival was amended.

- `RecoveryTyped`: the recorder's drives have different starts (`DrivesApart`), so
  putting their segments in order, by repeated choice of the least, gives a sequence
  of all of them (`InOrderIs`). The walker is a recursive function: that it exists and
  that what it has found at each instant lies in order before it (`Walking`) is shown
  by the first instant at which it would not.
- `LastTripFollowsTable`: `FreshInvariant` says what the coroutines in flight will do
  to `self.last_trip`. An adoption that nothing has overtaken holds the row with the
  greatest id (two of them, the same row), and the memory is then the newest row, or
  the newest but for that row; a look that nothing has overtaken holds the newest.
- `RecoveryLeavesNoGap`: `CoverInvariant` says each drive of the window is covered by
  a row or by a segment still on the list. It needs that the past stays
  (`DrivesStay`, `ReadingStays`): the recorder only learns of instants after now.

- `RecoveredKilometresAreApart`: `KmInvariant` says each row carries the readings at
  its ends (`Gauged`; an orphan the reading at the end of the row before it, a manual
  row none), and what a coroutine with the table to itself knows (`Foresees`): an
  orphan and a live trip start past every row, and the segment to be inserted
  overlaps none, so that by the growth of readings (`ReadingGrows`) it lies beside
  every row but an orphan (`BesideOverlap`). That an orphan starts past every row
  rests on `FreshInvariant`: the memory it starts from is the newest row.

`TripEnergyProofs` shows one inductive invariant, `IInv`, from which all five
theorems about `TripEnergy` follow. Sums are the community modules' recursive
function over subsets; `FiniteSums` shows that it exists, that any element may be
taken out (`SumTakes`) and that equal terms have equal sums (`SumSame`), each by a
least subset for which it would not hold. That a charge divides into whole kWh
(`Whole`), which the run assumes, is not used.

- `EnergyTyped`: what a close and a heal compute is a row. That what a row is
  credited is a natural number needs the charges to be finitely many.
- `ChargesCreditedOnce`: `Windows` says trips are driven one after another, so at
  most one holds the instant a charge ended; every other share is nothing.
- `LabelsNeedCharge` is not inductive: a heal that finds the charge gone takes the
  label away only where the row was not already explained by the battery. `Labelled`
  adds that a row claiming a charge has readings and more energy than the battery
  lost.
- `VehicleFiguresFit`: a heal in flight carries its figure across a gap in which the
  car may report again, so `Figures` bounds what it holds (`Fits`), and what the sensor
  shows (`Shows`): a figure of an earlier trip changed before every later one ended, or
  has been published again.
- `HealsRepeatCloses`: an action property. `AsClosed` says that a row nothing has
  disturbed holds what the charges there are now would credit it, before it and
  during it, and satisfies each rule of the heal already (`Settled`).

`CostPoolProofs` shows all six properties of `CostPool`, for any number of instants
and any readings, energies, prices, capacities and tariffs. None of the figures may
be treated as numbers by the prover, so the module begins with what they share with
numbers. `Frac` gives the same pair for equal quotients (`FracSame`), hence sums
commute and associate, products distribute, differences keep the order, and each such
law is one equation over two or three denominators. Totals are the folds of the
community modules (`TotalTakes`, along the argument of `FiniteSums`). That the
recursive functions of the replay exist (the pool along the instants, the lots
that are left) is shown once, for a function of one argument from a base by a step
(`Recursion`), and every induction along the instants or the lots is `Climb`.

- `Types`: a replay never divides by nothing: the average that fills a missing
  energy is over some trip, and a blend is of a charge that has kWh.
- `Idempotent`: what a replay leaves is `Clean`, with nothing to reset and nothing to
  fill: a row that was filled has a figure from then on, and where no trip has an
  energy there is none to fill from. The pool reads only energies, so the two
  replays price alike (`ReplayedTwice`).
- `PastPriced`: an action property. `FixedPoint` is the invariant: while nothing but
  charges has moved since the last replay, the stored trips are what a replay would
  write now. The pool at a trip reads no later row (`PoolSame`), so a replay with
  one charge changed writes the earlier trips as they are. `FixedPoint` rests on
  `Idempotent`; TLC has checked it on the instance of `cost_pool`.
- `HandKept`: an action property, from the types alone: the reset, the fill, the
  rescaling and the write each leave a locked figure.
- `LotsKeepUp`: through each operation on the lots their total moves as the pool
  does: what is taken, oldest or newest first, is the lesser of what is asked and
  what there is (`TakenOlder`, `TakenNewer`), an anchor leaves the target, or less
  where the padding would be free (`AnchoredSum`), and a charge and a withdrawal keep
  the order of the two accounts and their equality (`ChargedFollows`,
  `WithdrawnFollows`).
- `PricedWithin`: from `FixedPoint`, and an induction over the instants before the
  trip: the price of the pool and that of every lot lie between the cheapest
  and the dearest charge so far, and without a charge the pool is empty
  (`PoolBounded`). A free charge is why the bound has to admit the tariff: a
  pool at the price zero falls back to it.

Not proved, and model-checked only: `TripEnds`, since `tlapm` proves neither liveness
nor `ENABLED`.

## Not modelled

- ABRP (`abrp.py`, 3885-4020): one throttled post whose answer changes only its own
  time stamps.
- The SoC anchor (4535-4678): it chooses among the session just closed, the
  previous trip and the sensor by numeric thresholds and keeps no state.
  `LastChargeIsNewest` and `LastTripIsNewest` say that what it reads is current.
- Background fills: coordinates, driver, reverse geocoding, elevation. Each patches
  columns nothing else reads.
- What a session measures while it runs (pack energy, EVSE integral, sign of the
  power) and where the calibrated capacity comes from: floating-point statistics.
- Configuration flow, sensor, calendar and switch entities: forms and views. Schema
  and migrations: SQL over a file; each call is one step of a model.
- Database errors in `TripRecovery`, among them a recovery that raises after it
  inserted rows and is taken for one that found nothing (4754), and time passing
  while a coroutine of `ChargeLog` or `TripRecovery` is suspended.
