------------------------------ MODULE CostPool ------------------------------
(***************************************************************************)
(* What a drive cost: the replay that prices every stored trip from the    *)
(* charges stored before it, and the operations that run it.               *)
(*                                                                         *)
(* The battery is one pool with one price per kWh.  A charge is blended    *)
(* in, a trip withdraws at the blend, and the state of charge a charge     *)
(* reports re-anchors how much the pool holds.  A stack of lots is         *)
(* replayed beside it and gives the trip's cost_lifo.                      *)
(*                                                                         *)
(* A row sits at the instant that orders it (a charge where it ended, a    *)
(* trip where it started), one row of a kind per instant; any instant may  *)
(* be logged at any moment, since the services log rows of the past.       *)
(* kWh, money and prices are exact fractions: the rounding of the stored   *)
(* figures is left out.  The state of charge is in notches of the pack.    *)
(***************************************************************************)
EXTENDS Integers, Sequences, FiniteSets, Functions

CONSTANTS
  MaxTime,     \* bound: instants at which rows may sit
  MaxCharges,  \* bound: charge rows stored at a time
  MaxTrips,    \* bound: trip rows stored at a time
  MaxChanges,  \* bound: rows edited or deleted, moves of the tariff
  MaxCalibrations,  \* bound: new capacities
  FullSoc,     \* notches of a full pack
  Declared,    \* CONF_BATTERY_CAPACITY, in kWh
  Capacities,  \* kWh of the pack the calibration may settle on
  HomePrice,   \* CONF_ENERGY_PRICE, per kWh
  Tariffs,     \* prices per kWh the price entity may read
  Kwh,         \* kWh a charge may deliver or a measured trip may use
  Paid,        \* money a charge may have cost
  Readings,    \* soc_start and soc_end a charge may report
  MaxRate      \* the 50 kWh/100km above which an integral is impossible

Socs == 0..FullSoc
Unknown == -1

ASSUME ConstantsAssumption ==
  /\ MaxTime \in Nat /\ MaxCharges \in Nat /\ MaxTrips \in Nat
  /\ MaxChanges \in Nat /\ MaxCalibrations \in Nat
  /\ FullSoc \in Nat \ {0} /\ MaxRate \in Nat
  /\ Declared \in Nat \ {0} /\ Capacities \subseteq Nat \ {0}
  /\ HomePrice \in Nat \ {0} /\ Tariffs \subseteq Nat \ {0}
  /\ Kwh \subseteq Nat \ {0} /\ Paid \subseteq Nat
  /\ Readings \subseteq (Socs \cup {Unknown}) \X (Socs \cup {Unknown})

VARIABLES
  charges,   \* the charges table, by the instant a row ended
  trips,     \* the trips table, by the instant a row started
  hint,      \* storage.capacity_hint_kwh
  tariff,    \* what _current_energy_price() would return now
  heals,     \* capacities that heal tasks still have to bring the rows to
  settled,   \* nothing but charges has changed since the last replay
  changes, calibrations   \* changes, calibrations made so far

calibrating == <<heals, calibrations>>
vars == <<charges, trips, hint, tariff, calibrating, settled, changes>>
-----------------------------------------------------------------------------
(* Fractions, kept in lowest terms.                                        *)
\* n / d, with the least denominator there is.
Frac(n, d) ==
  LET q == CHOOSE q \in 1..d : /\ (n * q) % d = 0
                               /\ \A r \in 1..(q - 1) : (n * r) % d # 0
  IN <<(n * q) \div d, q>>
Zero == <<0, 1>>
Plus(x, y) == Frac(x[1] * y[2] + y[1] * x[2], x[2] * y[2])
Times(x, y) == Frac(x[1] * y[1], x[2] * y[2])
Over(x, y) == Frac(x[1] * y[2], x[2] * y[1])
AtMost(x, y) == x[1] * y[2] <= y[1] * x[2]
Lesser(x, y) == IF AtMost(x, y) THEN x ELSE y
\* x - y, or zero where that is negative.
Minus(x, y) ==
  IF AtMost(x, y) THEN Zero
  ELSE Frac(x[1] * y[2] - y[1] * x[2], x[2] * y[2])
Total(f, S) == FoldFunctionOnSet(Plus, Zero, f, S)
-----------------------------------------------------------------------------
(* The two tables.                                                         *)
Instants == 1..MaxTime
Absent == [kind |-> "absent"]

\* A charge row: socs is <<soc_start, soc_end>>, either of them maybe unknown.
Charge == [kind : {"charge"}, kwh : Kwh, paid : Paid, socs : Readings]

\* The price of a charge: the money paid over the kWh that arrived.
Price(c) == Frac(c.paid, c.kwh)
Content(soc, cap) == Frac(soc * cap, FullSoc)

NoFigure == <<>>
Sources == {"soc", "power_integration", "estimated", "orphan_odo_only"}

\* A trip row over one unit of distance: used is its soc_used_pct, energy its
\* energy_kwh, cost and lifo the two figures the replay writes.
TripRow(source, used, energy) ==
  [kind |-> "trip", source |-> source, used |-> used, energy |-> energy,
   cost |-> NoFigure, lifo |-> NoFigure,
   energyLocked |-> FALSE, costLocked |-> FALSE]

HasEnergy(r) == r # Absent /\ r.energy # NoFigure
Held(rows) == {t \in Instants : rows[t] # Absent}
-----------------------------------------------------------------------------
(* Step 0 of the replay: an integral no car can have used is forgotten,    *)
(* unless a human wrote it.                                                *)
Poisoned(r) ==
  /\ HasEnergy(r)
  /\ r.source = "power_integration"
  /\ ~AtMost(r.energy, <<MaxRate, 1>>)
  /\ ~r.energyLocked

\* Slip: the reset clears the source with the energy.
UnpoisonedSourceless(tr) ==
  [t \in Instants |->
     IF Poisoned(tr[t])
     THEN [tr[t] EXCEPT !.energy = NoFigure, !.source = "none"]
     ELSE tr[t]]

Unpoisoned(tr) ==
  [t \in Instants |->
     IF Poisoned(tr[t])
     THEN [tr[t] EXCEPT !.energy = NoFigure, !.source = "estimated"]
     ELSE tr[t]]

(* Step 1: a trip without energy gets the average of those that have one,  *)
(* unless its energy is missing on purpose.                                *)
\* Slip: estimates are estimated again.
FillableToo(r) ==
  /\ r # Absent
  /\ r.energy = NoFigure \/ r.source = "estimated"
  /\ ~r.energyLocked
  /\ r.source \in {"soc", "estimated"}

Fillable(r) ==
  /\ r # Absent
  /\ r.energy = NoFigure
  /\ ~r.energyLocked
  /\ r.source \in {"soc", "estimated"}

FilledIn(tr) ==
  LET known == {t \in Instants : HasEnergy(tr[t])}
      average == Over(Total([t \in known |-> tr[t].energy], known),
                      <<Cardinality(known), 1>>)
  IN [t \in Instants |->
        IF known # {} /\ Fillable(tr[t])
        THEN [tr[t] EXCEPT !.energy = average, !.source = "estimated"]
        ELSE tr[t]]
-----------------------------------------------------------------------------
(* Step 2: the pool and the lots.  A lot is [kwh, price], oldest first.    *)
EmptyPool == [kwh |-> Zero, price |-> Zero, lots |-> <<>>,
              cost |-> Zero, lifo |-> Zero]

InLots(lots) == Total([i \in DOMAIN lots |-> lots[i].kwh], DOMAIN lots)

\* What each lot gives when amount is taken lot by lot, those of ahead[i]
\* before lot i.
Taken(lots, amount, ahead) ==
  [i \in DOMAIN lots |->
     Lesser(lots[i].kwh,
            Minus(amount, Total([j \in ahead[i] |-> lots[j].kwh], ahead[i])))]

Older(lots) == [i \in DOMAIN lots |-> 1..(i - 1)]
Newer(lots) == [i \in DOMAIN lots |-> (i + 1)..Len(lots)]

\* The lots taken leaves; one that is used up goes.
Without(lots, taken) ==
  LET left(i) == Minus(lots[i].kwh, taken[i])
      kept[i \in 0..Len(lots)] ==
        IF i = 0 THEN <<>>
        ELSE IF left(i) = Zero THEN kept[i - 1]
        ELSE Append(kept[i - 1], [lots[i] EXCEPT !.kwh = left(i)])
  IN kept[Len(lots)]

\* Slip: a surplus is left in the lots.
AnchoredBelow(lots, target, pad) ==
  IF AtMost(target, InLots(lots)) THEN lots
  ELSE <<[kwh |-> Minus(target, InLots(lots)), price |-> pad]>> \o lots

\* _anchor_lots: a surplus is trimmed off the oldest lots, a shortfall is
\* padded before them at the price given, unless that price is nothing.
Anchored(lots, target, pad) ==
  LET held == InLots(lots)
  IN CASE AtMost(target, held) ->
            Without(lots, Taken(lots, Minus(held, target), Older(lots)))
       [] ~AtMost(target, held) /\ pad = Zero -> lots
       [] OTHER -> <<[kwh |-> Minus(target, held), price |-> pad]>> \o lots

\* Slip: the blend is not weighted by what the pool held.
BlendedBySum(held, p, c) ==
  Over(Plus(Times(held, p), Times(<<c.kwh, 1>>, Price(c))), <<c.kwh, 1>>)

\* The pool's price once c is blended into held kWh at price p.
Blended(held, p, c) ==
  Over(Plus(Times(held, p), Times(<<c.kwh, 1>>, Price(c))),
       Plus(held, <<c.kwh, 1>>))

\* soc_start says what the pool held before c, soc_end what it held after.
Charged(pool, c, cap) ==
  LET from == c.socs[1]
      to == c.socs[2]
      price == Price(c)
      before == IF from = Unknown THEN pool.kwh ELSE Content(from, cap)
      \* The opening inventory of a pool without a price takes that of c.
      opening == IF from # Unknown /\ pool.price = Zero THEN price
                 ELSE pool.price
      lots == Append(IF from = Unknown THEN pool.lots
                     ELSE Anchored(pool.lots, Content(from, cap), price),
                     [kwh |-> <<c.kwh, 1>>, price |-> price])
      after(held) == IF to = Unknown THEN Lesser(held, <<cap, 1>>)
                     ELSE Content(to, cap)
  IN [pool EXCEPT !.kwh = after(Plus(before, <<c.kwh, 1>>)),
                  !.price = Blended(before, opening, c),
                  !.lots = Anchored(lots, after(InLots(lots)), price)]

\* A trip takes energy out of the pool and, newest first, out of the lots;
\* what they lack is priced at the blend, or at the tariff while there is none.
Withdrawn(pool, energy, rate) ==
  LET lack == Minus(energy, pool.kwh)
      fallback == IF pool.price = Zero THEN rate ELSE pool.price
      taken == Taken(pool.lots, energy, Newer(pool.lots))
      worth == [i \in DOMAIN taken |-> Times(taken[i], pool.lots[i].price)]
      found == Total(taken, DOMAIN taken)
  IN [pool EXCEPT
        !.kwh = Minus(@, energy),
        !.lots = Without(@, taken),
        !.cost = Plus(Times(Lesser(energy, pool.kwh), pool.price),
                      Times(lack, fallback)),
        !.lifo = Plus(Total(worth, DOMAIN worth),
                      Times(Minus(energy, found), fallback))]

\* Slip: the charge that ends next is taken for due.
DueLate(ch, t) == IF t < MaxTime THEN ch[t + 1] ELSE Absent

\* Charges that ended by the instant a trip starts are in its pool.
Due(ch, t) == ch[t]

\* The pool after every charge and trip up to each instant.
PoolAt(ch, tr, cap, rate) ==
  LET at[t \in 0..MaxTime] ==
        IF t = 0 THEN EmptyPool
        ELSE LET full == IF Due(ch, t) = Absent THEN at[t - 1]
                         ELSE Charged(at[t - 1], Due(ch, t), cap)
             IN IF HasEnergy(tr[t]) THEN Withdrawn(full, tr[t].energy, rate)
                ELSE full
  IN at

\* The row a priced trip is written back as.
Written(r, pool) ==
  [r EXCEPT !.cost = IF r.costLocked THEN @ ELSE pool.cost,
            !.lifo = pool.lifo]

\* _recompute_trip_costs_from_charges
Replayed(ch, tr, cap, rate) ==
  LET ready == FilledIn(Unpoisoned(tr))
      pool == PoolAt(ch, ready, cap, <<rate, 1>>)
  IN [t \in Instants |->
        IF HasEnergy(ready[t]) THEN Written(ready[t], pool[t]) ELSE ready[t]]
-----------------------------------------------------------------------------
(* The operations.                                                         *)
Changes ==
  changes < MaxChanges /\ changes' = changes + 1 /\ UNCHANGED calibrating

Replays(ch, tr) ==
  /\ charges' = ch
  /\ trips' = Replayed(ch, tr, hint, tariff)
  /\ settled' = TRUE
  /\ UNCHANGED <<hint, tariff>>

\* A charge is logged, live or by hand (async_log_charge_service).
LogCharge(t, c) ==
  /\ charges[t] = Absent
  /\ Cardinality(Held(charges)) < MaxCharges
  /\ Replays([charges EXCEPT ![t] = c], trips)
  /\ UNCHANGED <<calibrating, changes>>

\* A charge is merged into, re-priced or patched.
EditCharge(t, c) ==
  /\ Changes
  /\ charges[t] # Absent /\ charges[t] # c
  /\ Replays([charges EXCEPT ![t] = c], trips)

\* The newest charge is deleted.
DeleteLastCharge ==
  \E t \in Held(charges) :
    /\ Changes
    /\ \A s \in Held(charges) : s <= t
    /\ Replays([charges EXCEPT ![t] = Absent], trips)

\* A trip is stored; one without energy is not priced until a later replay.
LogTrip(t, r) ==
  /\ trips[t] = Absent
  /\ Cardinality(Held(trips)) < MaxTrips
  /\ \/ /\ HasEnergy(r)
        /\ Replays(charges, [trips EXCEPT ![t] = r])
     \/ /\ ~HasEnergy(r)
        /\ trips' = [trips EXCEPT ![t] = r]
        /\ settled' = FALSE
        /\ UNCHANGED <<charges, hint, tariff>>
  /\ UNCHANGED <<calibrating, changes>>

\* set_trip with a new energy or cost locks what it corrected.
SetTripEnergy(t, e) ==
  /\ Changes
  /\ trips[t] # Absent
  /\ Replays(charges,
             [trips EXCEPT ![t].energy = <<e, 1>>, ![t].energyLocked = TRUE])

SetTripCost(t, paid) ==
  /\ Changes
  /\ trips[t] # Absent
  /\ Replays(charges,
             [trips EXCEPT ![t].cost = <<paid, 1>>, ![t].costLocked = TRUE])

\* delete_last_trip takes the highest id, purge_trips a range: any row may go.
\* Neither replays.
DeleteTrip(t) ==
  /\ Changes
  /\ trips[t] # Absent
  /\ trips' = [trips EXCEPT ![t] = Absent]
  /\ settled' = FALSE
  /\ UNCHANGED <<charges, hint, tariff>>

\* Slip: the lock of a hand correction is not looked at.
RescalableLocked(r) ==
  /\ r # Absent
  /\ r.used > 0
  /\ r.source \in {"soc", "estimated"}

\* _recompute_energy_from_capacity: energy that came from the state of charge
\* follows the pack, unless a human wrote it.
Rescalable(r) ==
  /\ r # Absent
  /\ r.used > 0
  /\ r.source \in {"soc", "estimated"}
  /\ ~r.energyLocked

Rescaled(tr, cap) ==
  [t \in Instants |->
     IF Rescalable(tr[t])
     THEN [tr[t] EXCEPT !.energy = Content(tr[t].used, cap)] ELSE tr[t]]

\* _async_refresh_battery_capacity publishes the new capacity and starts a task
\* that will heal the energies to it.
Calibrate(cap) ==
  /\ calibrations < MaxCalibrations /\ calibrations' = calibrations + 1
  /\ cap # hint
  /\ hint' = cap
  /\ heals' = heals \cup {cap}
  /\ settled' = FALSE
  /\ UNCHANGED <<charges, trips, tariff, changes>>

\* _async_heal_energy_after_calibration, which replays only when the heal found
\* a row; by then the capacity may have moved on.
HealEnergies(cap) ==
  /\ cap \in heals
  /\ heals' = heals \ {cap}
  /\ \/ /\ \E t \in Instants : Rescalable(trips[t])
        /\ Replays(charges, Rescaled(trips, cap))
     \/ /\ \A t \in Instants : ~Rescalable(trips[t])
        /\ UNCHANGED <<charges, trips, hint, tariff, settled>>
  /\ UNCHANGED <<calibrations, changes>>

\* The price entity moves.
MoveTariff(rate) ==
  /\ Changes
  /\ rate # tariff
  /\ tariff' = rate
  /\ settled' = FALSE
  /\ UNCHANGED <<charges, trips, hint>>

\* The heal of async_start.
StartupHeal == Replays(charges, trips) /\ UNCHANGED <<calibrating, changes>>

\* Rows the close paths store: measured by the state of charge or by the
\* power integral, unmeasured, or an odometer snapshot.
Stored ==
  {TripRow("soc", 1, Content(1, cap)) : cap \in {hint}}
    \cup {TripRow("power_integration", 0, <<e, 1>>) : e \in Kwh}
    \cup {TripRow(source, 0, NoFigure) : source \in {"soc", "orphan_odo_only"}}

Init ==
  /\ charges = [t \in Instants |-> Absent]
  /\ trips = [t \in Instants |-> Absent]
  /\ hint = Declared
  /\ tariff = HomePrice
  /\ heals = {}
  /\ settled = TRUE
  /\ changes = 0 /\ calibrations = 0

Next ==
  \/ \E t \in Instants, c \in Charge : LogCharge(t, c) \/ EditCharge(t, c)
  \/ DeleteLastCharge
  \/ \E t \in Instants, r \in Stored : LogTrip(t, r)
  \/ \E t \in Instants :
       \/ \E e \in Kwh : SetTripEnergy(t, e)
       \/ \E paid \in Paid : SetTripCost(t, paid)
       \/ DeleteTrip(t)
  \/ \E cap \in Capacities \cup {Declared} : Calibrate(cap) \/ HealEnergies(cap)
  \/ \E rate \in Tariffs \cup {HomePrice} : MoveTariff(rate)
  \/ StartupHeal

Spec == Init /\ [][Next]_vars
-----------------------------------------------------------------------------
Figure == {NoFigure} \cup ((Nat) \X (Nat \ {0}))

Trip == [kind : {"trip"}, source : Sources, used : Socs, energy : Figure,
         cost : Figure, lifo : Figure,
         energyLocked : BOOLEAN, costLocked : BOOLEAN]

TypeOK ==
  /\ \A t \in Instants : charges[t] \in Charge \cup {Absent}
  /\ \A t \in Instants : trips[t] \in Trip \cup {Absent}
  /\ hint \in Capacities \cup {Declared} /\ tariff \in Tariffs \cup {HomePrice}
  /\ heals \subseteq Capacities \cup {Declared}
  /\ settled \in BOOLEAN /\ changes \in 0..MaxChanges
  /\ calibrations \in 0..MaxCalibrations

\* The prices a trip started at t can have been driven at: those of the charges
\* before it, and the tariff while they left the pool without a price.
PricesBefore(t) ==
  LET paid == {Price(charges[s]) : s \in Held(charges) \cap 1..t}
  IN IF paid = {} \/ Zero \in paid THEN paid \cup {<<tariff, 1>>} ELSE paid

WithinPrices(figure, energy, prices) ==
  /\ \E low \in prices : AtMost(Times(low, energy), figure)
  /\ \E high \in prices : AtMost(figure, Times(high, energy))

(***************************************************************************)
(* A trip is priced, by the blend and by the lots alike, between the       *)
(* cheapest and the dearest kWh that was charged before it: no re-anchor,  *)
(* no padding and no shortfall invents a price, and the home tariff plays  *)
(* no part once what was charged had a price (the replay's docstring:      *)
(* only energy before any charge, or beyond it, falls back).               *)
(***************************************************************************)
PricedWithinCharges ==
  settled =>
    \A t \in Held(trips) :
      HasEnergy(trips[t]) =>
        /\ WithinPrices(trips[t].lifo, trips[t].energy, PricesBefore(t))
        /\ ~trips[t].costLocked =>
             WithinPrices(trips[t].cost, trips[t].energy, PricesBefore(t))

(***************************************************************************)
(* The lots and the pool hold the same energy, whatever was anchored,      *)
(* charged and withdrawn, as _anchor_lots promises (it exists because the  *)
(* two figures would drift apart).  Where a charge was free its shortfall  *)
(* is not padded, and the lots hold at most what the pool does.            *)
(***************************************************************************)
LotsFollowPool ==
  LET pool == PoolAt(charges, trips, hint, <<tariff, 1>>)[MaxTime]
  IN /\ AtMost(InLots(pool.lots), pool.kwh)
     /\ (\A t \in Held(charges) : charges[t].paid > 0)
          => InLots(pool.lots) = pool.kwh

(***************************************************************************)
(* Replaying what was just replayed changes nothing: the estimates step 1  *)
(* writes do not feed the average they came from (the docstring's          *)
(* "Idempotent", which the startup heal relies on).                        *)
(***************************************************************************)
ReplayIdempotent ==
  LET once == Replayed(charges, trips, hint, tariff)
  IN Replayed(charges, once, hint, tariff) = once

(***************************************************************************)
(* A charge logged, edited or deleted prices only the trips that start     *)
(* after it: as long as neither the tariff, the capacity nor a trip row    *)
(* has moved since the last replay, every earlier trip keeps its cost.     *)
(***************************************************************************)
PricedByPast ==
  [][ \A s \in Instants :
        (settled /\ charges'[s] # charges[s]) =>
          \A t \in 1..(s - 1) : trips'[t] = trips[t] ]_vars

(***************************************************************************)
(* A figure the user corrected survives the poison reset, the fill, the    *)
(* calibration heal and every replay, until the user corrects it again.    *)
(***************************************************************************)
HandFiguresKept ==
  [][ \A t \in Instants :
        (trips[t] # Absent /\ trips'[t] # Absent) =>
          /\ trips[t].energyLocked =>
               \/ trips'[t].energy = trips[t].energy
               \/ \E e \in Kwh : SetTripEnergy(t, e)
          /\ trips[t].costLocked =>
               \/ trips'[t].cost = trips[t].cost
               \/ \E paid \in Paid : SetTripCost(t, paid) ]_vars

(***************************************************************************)
(* What the replay says of itself: a charge logged tomorrow can never      *)
(* re-price yesterday's driving.  It does: the replay reads the tariff of  *)
(* the moment it runs for every trip that precedes the first charge.       *)
(***************************************************************************)
TomorrowNeverReprices ==
  [][ \A s \in Instants :
        (charges[s] = Absent /\ charges'[s] # Absent) =>
          \A t \in 1..(s - 1) :
            (trips[t] # Absent /\ trips[t].cost # NoFigure)
              => trips'[t].cost = trips[t].cost ]_vars
=============================================================================
