------------------------------ MODULE Signals ------------------------------
(***************************************************************************)
(* What the ops agents read of a store and what they conclude from it: the *)
(* pricing signal, taken from two separate reads of the orders while the   *)
(* kitchen keeps working, the daily series behind a forecast, the churn    *)
(* segment, the kitchen brief, the items worth a discount and the roster.  *)
(* One store is modelled, and of the others the closed orders of its       *)
(* guests.  In demo mode the orders are those of the seeded database and   *)
(* every read of them re-dates the live tickets.                           *)
(*                                                                         *)
(* A unit of time is half an hour, and the reading window is one unit.     *)
(***************************************************************************)
EXTENDS Integers, Sequences, FiniteSetsExt

CONSTANTS
    Guests,      \* customers whose store this is
    Items,       \* menu items
    Overload,    \* OVERLOAD_ACTIVE_ORDERS
    Underload,   \* UNDERLOAD_ORDERS_30MIN
    CloseHour,   \* the hour the store closes
    MinLead,     \* MIN_HOURS_BEFORE_CLOSE
    PerDay,      \* units in a day
    Fit,         \* live tickets a refresh dates inside the window
    Inactive,    \* CHURN_INACTIVE_DAYS, in units
    Lookback,    \* CHURN_LOOKBACK_DAYS, in units
    MinOrders,   \* CHURN_MIN_ORDERS
    SqlLimit,    \* guests the demo backend lists with churnRisk
    Days,        \* days of the daily series
    MaxWeight,   \* bound on the weights a caller gives a forecast
    TopLimit,    \* rows of the top-products report
    SlowLimit,   \* items a discount covers
    Start, MaxTime,      \* the clock runs from Start to MaxTime
    Past,                \* when the orders on file at first were made
    Sites,               \* whether an order was made at this store
    Paths,               \* what evaluates the pricing: its rules, the gate
    MaxSeed, MaxOrders,  \* orders on file at first, and at most
    MaxSold,     \* bound on an item's sales
    MaxStaff, MaxSlots   \* bounds of the rosters looked at

ASSUME ThresholdAssumption ==
    /\ Overload \in Nat /\ Underload \in Nat
    /\ CloseHour \in Nat /\ MinLead \in Nat
ASSUME TimeAssumption ==
    /\ PerDay \in Nat \ {0} /\ Start \in Nat /\ MaxTime \in Nat
    /\ Fit \in Nat /\ MinOrders \in Nat \ {0} /\ Past \subseteq 0..Start
    /\ Inactive \in Nat /\ Lookback \in Nat /\ Inactive <= Lookback
ASSUME BoundAssumption ==
    /\ Days \in Nat \ {0} /\ TopLimit \in Nat /\ SlowLimit \in Nat /\ SqlLimit \in Nat
    /\ MaxWeight \in Nat
    /\ Sites \subseteq BOOLEAN /\ Paths \subseteq {"rules", "gate"}
    /\ MaxSeed \in Nat /\ MaxOrders \in Nat /\ MaxSold \in Nat
    /\ MaxStaff \in Nat /\ MaxSlots \in Nat

VARIABLES
    demo,      \* DEMO_MODE is on
    now,       \* the clock
    orders,    \* orders, oldest first
    run,       \* the pricing evaluation in progress
    decided    \* what the last evaluation concluded, and the live tickets then

vars == <<demo, now, orders, run, decided>>

----------------------------------------------------------------------------
(* Orders *)

\* A status in LIVE_KITCHEN_STATUSES, in CLOSED_ORDER_STATUSES, or neither
\* (cancelled, out for delivery).
Statuses == {"live", "closed", "other"}
Orders == [guest : Guests, at : Int, status : Statuses, here : BOOLEAN]

DayOf(t) == t \div PerDay
HourOf(t) == (t % PerDay) \div 2

\* A read of the store's orders names the store.
With(os, status) == {i \in DOMAIN os : os[i].here /\ os[i].status = status}
Since(os, t) == {i \in DOMAIN os : os[i].here /\ os[i].at >= t}

Newer(os, i, j) == \/ os[i].at > os[j].at
                   \/ os[i].at = os[j].at /\ i > j

\* refresh_live_kitchen_timestamps: the live tickets, newest first, are dated
\* three minutes apart back from now, so that the first Fit of them fall in
\* the window.  Within a unit a second refresh changes nothing, as does one
\* within the 90 seconds the code waits.
Refreshed ==
    IF ~demo THEN orders
    ELSE LET live == With(orders, "live")
             before(i) == Cardinality({j \in live : Newer(orders, j, i)})
         IN [i \in DOMAIN orders |->
               IF i \notin live THEN orders[i]
               ELSE [orders[i] EXCEPT !.at = IF before(i) < Fit THEN now
                                                                ELSE now - 2]]

----------------------------------------------------------------------------
(* The pricing signal *)

\* Mutant: A store is quiet when either count is low.
PricingSignalEither(active, recent, hour) ==
    CASE active > Overload -> "overload"
      [] /\ active <= Overload
         /\ recent < Underload \/ active < Underload
         /\ CloseHour - hour >= MinLead -> "underload"
      [] OTHER -> "none"

\* compute_pricing_signal, and the test of _rule_run_dynamic_pricing.
PricingSignal(active, recent, hour) ==
    CASE active > Overload -> "overload"
      [] /\ active <= Overload
         /\ recent < Underload
         /\ active < Underload
         /\ CloseHour - hour >= MinLead -> "underload"
      [] OTHER -> "none"

NoRun == [stage |-> "idle", path |-> "gate", hour |-> 0,
          active |-> 0, failed |-> FALSE, since |-> 0]
NoDecision == [signal |-> "none", failed |-> FALSE, tickets |-> 0]

\* The rule fallback notes the hour before it reads anything, and the tool
\* notes it after both reads.
StartPricing(path) ==
    /\ run.stage = "idle"
    /\ run' = [NoRun EXCEPT !.stage = "started", !.path = path, !.hour = HourOf(now)]
    /\ decided' = NoDecision
    /\ UNCHANGED <<demo, now, orders>>

\* A read that is not answered with 200 counts no orders.  The demo backend
\* always answers.
ReadFails == IF demo THEN {FALSE} ELSE BOOLEAN

\* count_active_orders, _count_active_orders
ActiveCount == Cardinality(With(orders, "live"))

\* count_recent_orders, _count_recent_orders: every order since the window
\* opened, whatever its status.
RecentCount == Cardinality(Since(Refreshed, now - 1))

CountActive ==
    /\ run.stage = "started"
    /\ orders' = Refreshed
    /\ \E fails \in ReadFails :
         run' = [run EXCEPT !.stage = "counted", !.since = now, !.failed = fails,
                            !.active = IF fails THEN 0 ELSE ActiveCount]
    /\ UNCHANGED <<demo, now, decided>>

\* The second read, and the signal.
CountRecent ==
    /\ run.stage = "counted"
    /\ orders' = Refreshed
    /\ \E fails \in ReadFails :
         LET recent == IF fails THEN 0 ELSE RecentCount
             hour == IF run.path = "rules" THEN run.hour ELSE HourOf(now)
         IN decided' = [signal |-> PricingSignal(run.active, recent, hour),
                        failed |-> run.failed \/ fails,
                        tickets |-> ActiveCount]
    /\ run' = NoRun
    /\ UNCHANGED <<demo, now>>

\* The agent's run is cancelled, times out or dies between two reads.
Abort ==
    /\ run.stage /= "idle"
    /\ run' = NoRun
    /\ UNCHANGED <<demo, now, orders, decided>>

----------------------------------------------------------------------------
(* The store *)

\* A guest orders.  Orders of the demo database are not added to.
Arrive ==
    /\ ~demo
    /\ Len(orders) < MaxOrders
    /\ \E g \in Guests :
         orders' = Append(orders, [guest |-> g, at |-> now, status |-> "live", here |-> TRUE])
    /\ UNCHANGED <<demo, now, run, decided>>

\* A guest of this store has an order at another one, which counts once it is
\* closed.
ArriveElsewhere ==
    /\ ~demo /\ FALSE \in Sites
    /\ Len(orders) < MaxOrders
    /\ \E g \in Guests :
         orders' = Append(orders, [guest |-> g, at |-> now, status |-> "closed", here |-> FALSE])
    /\ UNCHANGED <<demo, now, run, decided>>

\* A live order is delivered, or cancelled or sent out.
Leave(i, status) ==
    /\ ~demo
    /\ orders[i].status = "live"
    /\ orders' = [orders EXCEPT ![i].status = status]
    /\ UNCHANGED <<demo, now, run, decided>>

\* Anyone reads the orders or the kitchen metrics.
LookAround ==
    /\ demo
    /\ orders' = Refreshed
    /\ UNCHANGED <<demo, now, run, decided>>

\* A read is given up after twenty seconds, so that the clock passes at most
\* one half-hour mark between the two reads.
Tick ==
    /\ now < MaxTime
    /\ run.stage = "counted" => now = run.since
    /\ now' = now + 1
    /\ UNCHANGED <<demo, orders, run, decided>>

\* Orders already on file, oldest first.
History(n) ==
    {os \in [1..n -> {o \in [guest : Guests, at : Past, status : Statuses, here : Sites] :
                        o.here \/ o.status = "closed"}] :
        \A i \in 1..(n - 1) : os[i].at <= os[i + 1].at}

Init ==
    /\ demo \in BOOLEAN
    /\ now = Start
    /\ \E n \in 0..MaxSeed : orders \in History(n)
    /\ run = NoRun
    /\ decided = NoDecision

Next ==
    \/ \E path \in Paths : StartPricing(path)
    \/ CountActive
    \/ CountRecent
    \/ Abort
    \/ Arrive
    \/ ArriveElsewhere
    \/ \E i \in DOMAIN orders, status \in {"closed", "other"} : Leave(i, status)
    \/ LookAround
    \/ Tick

Spec == Init /\ [][Next]_vars

----------------------------------------------------------------------------
(* The daily series, and the forecast made of it *)

Left == {i \in DOMAIN orders : orders[i].here /\ orders[i].status /= "live"}
LeftOn(day) == {i \in Left : DayOf(orders[i].at) = day}
LastDay == LET days == {DayOf(orders[i].at) : i \in Left}
           IN CHOOSE d \in days : \A e \in days : e <= d

\* Mutant: The series starts a day too early and ends a day too early.
DailyCountsShifted ==
    IF Left = {} THEN << >>
    ELSE [k \in 1..Days |-> Cardinality(LeftOn(LastDay - Days + k - 1))]

\* _daily_order_counts: the orders that left the kitchen, per day, for the
\* Days days that end with the last one that has any, gaps filled with zero.
\* (A backend without it has its pages counted by the tool; not modelled.)
DailyCounts == IF Left = {} THEN << >>
               ELSE [k \in 1..Days |-> Cardinality(LeftOn(LastDay - Days + k))]

\* compute_wma_forecast: the weights are the caller's, or else the newest day
\* weighs most.  A series without days has no forecast.  (The forecast of the
\* demo backend raises this mean to ten and adds DEMAND_BUFFER.)
WeightsFor(series, weights) ==
    IF DOMAIN weights = DOMAIN series THEN weights ELSE [k \in DOMAIN series |-> k]
Mean(series, w) ==
    LET total == MapThenSumSet(LAMBDA k : w[k], DOMAIN series)
    IN MapThenSumSet(LAMBDA k : w[k] * series[k], DOMAIN series)
         \div (IF total = 0 THEN 1 ELSE total)
Wma(series, weights) == Mean(series, WeightsFor(series, weights))

----------------------------------------------------------------------------
(* The churn segment *)

Closed(g) == {i \in DOMAIN orders : orders[i].guest = g /\ orders[i].status = "closed"}
ClosedHere(g) == {i \in Closed(g) : orders[i].here}
Stale(is) == \A i \in is : orders[i].at < now - Inactive

\* Mutant: The query forgets the status and joins every order.
QualifiedAnyStatus ==
    LET all(g) == {i \in DOMAIN orders : orders[i].here /\ orders[i].guest = g}
    IN {g \in Guests : Cardinality(all(g)) >= MinOrders /\ Stale(all(g))}

\* The customers the demo backend answers with churnRisk: of those the query
\* finds among the orders of the store, the SqlLimit who spent most (what a
\* guest spent is not modelled).
Qualified == {g \in Guests : /\ Cardinality(ClosedHere(g)) >= MinOrders
                             /\ Stale(ClosedHere(g))}
SqlSegments ==
    {segment \in SUBSET Qualified :
        Cardinality(segment) = IF Cardinality(Qualified) < SqlLimit
                               THEN Cardinality(Qualified) ELSE SqlLimit}

\* The customers read_churn_segment picks itself from their orders of the
\* last 60 days: the request names the customer and not the store, and who
\* cannot be asked about is left out.
InLookback(g) == {i \in Closed(g) : orders[i].at >= now - Lookback}
PagedSegment(unread) ==
    {g \in Guests \ unread : /\ Cardinality(InLookback(g)) >= MinOrders
                             /\ InLookback(g) /= {}
                             /\ Stale(InLookback(g))}

----------------------------------------------------------------------------
(* The kitchen brief *)

\* Mutant: The brief is always about today.
PeriodDayToday == DayOf(now)

\* The day of the kitchen metrics: today once an order left the kitchen, or
\* else the last day one did.
PeriodDay == IF Left = {} \/ LeftOn(DayOf(now)) /= {} THEN DayOf(now) ELSE LastDay
Tickets == Cardinality({i \in DOMAIN orders :
                           orders[i].here /\ DayOf(orders[i].at) = PeriodDay})

----------------------------------------------------------------------------
(* The items worth a discount *)

\* Mutant: The report is cut to its limit before it is sorted.
TopSetsUnsorted(sold) ==
    LET any == {i \in Items : sold[i] > 0}
    IN {top \in SUBSET any : Cardinality(top) = IF Cardinality(any) < TopLimit
                                                THEN Cardinality(any) ELSE TopLimit}

\* The sets of items the top-products report may list: of the items sold, the
\* TopLimit best, ties broken either way.
TopSets(sold) ==
    LET any == {i \in Items : sold[i] > 0}
    IN {top \in SUBSET any :
          /\ Cardinality(top) = IF Cardinality(any) < TopLimit
                                THEN Cardinality(any) ELSE TopLimit
          /\ \A i \in top, j \in any \ top : sold[j] <= sold[i]}

\* The sales get_slow_items sees: an item the report does not list sold none.
SeenSold(sold, top, i) == IF i \in top THEN sold[i] ELSE 0

\* The sets get_slow_items may return: the SlowLimit items of least sales, or
\* any when the report is empty.
SlowSets(sold, top) ==
    {slow \in SUBSET Items :
        /\ Cardinality(slow) = IF Cardinality(Items) < SlowLimit
                               THEN Cardinality(Items) ELSE SlowLimit
        /\ \A i \in slow, j \in Items \ slow :
              SeenSold(sold, top, i) <= SeenSold(sold, top, j)}

----------------------------------------------------------------------------
(* The roster *)

Slots == 0..(MaxSlots - 1)

\* The slots _get_weekly_forecast may make busy.  The entries of the demo
\* backend name no day, hour or predicted quantity: none of its slots is busy.
BusySlots == IF demo THEN {{}} ELSE SUBSET Slots

\* _build_draft_shifts: slots in order, three to a day (morning, mid and
\* evening, each overlapping the next), two people in a slot of high demand
\* and one in the others, taken from the pool in turn.
Cover(busy, s) == IF s \in busy THEN 2 ELSE 1
\* Mutant: Every day starts again with the first of the pool.
TurnsBeforeDaily(busy, s) ==
    (s % 3) + Cardinality({r \in busy : r < s /\ r >= s - (s % 3)})

TurnsBefore(busy, s) == s + Cardinality({r \in busy : r < s})
OnShift(staff, busy, s) ==
    [k \in 1..Cover(busy, s) |-> (TurnsBefore(busy, s) + k - 1) % staff]
ShiftsOf(staff, busy, e) ==
    {w \in Slots \X (1..2) : /\ w[2] <= Cover(busy, w[1])
                             /\ OnShift(staff, busy, w[1])[w[2]] = e}

----------------------------------------------------------------------------
(* Properties *)

\* A discount is suggested to a quiet kitchen only.  The orders that were live
\* at the first read are fewer than the threshold and so are those placed
\* since, so that whatever arrived, left or was re-dated between the reads,
\* a discount never meets more than twice that many live tickets.  A failed
\* read counts zero orders and is excepted.
DiscountMeansQuiet ==
    decided.signal = "underload" /\ ~decided.failed
        => decided.tickets <= 2 * (Underload - 1)

\* The two ways of read_churn_segment pick nobody with a closed order here
\* within the time of inactivity.  Whom one of them picks and the other leaves
\* out was cut by the limit or not asked about, has too few closed orders at
\* this store or in the lookback, or was active at another store meanwhile.
\* (The rules of the churn agent use neither way.)
SegmentsAgree ==
    \A sql \in SqlSegments, unread \in SUBSET Guests :
        LET paged == PagedSegment(unread) IN
        /\ \A g \in sql \cup paged : Stale(ClosedHere(g))
        /\ \A g \in paged \ sql : \/ Cardinality(ClosedHere(g)) < MinOrders
                                  \/ g \in Qualified /\ Cardinality(sql) = SqlLimit
        /\ \A g \in sql \ paged : \/ g \in unread
                                  \/ Cardinality(InLookback(g)) < MinOrders
                                  \/ ~Stale(InLookback(g) \ ClosedHere(g))

\* The backend's series accounts for every order that left the kitchen in its
\* days, and it ends with a day that has one.  The forecast lies between its
\* least and its greatest day, whatever weights the caller gives but for those
\* that are all zero.
Weights == {<< >>} \cup [1..Days -> 0..MaxWeight]
Weighing(weights) == DOMAIN weights = 1..Days => \E k \in 1..Days : weights[k] > 0
SeriesAccounts ==
    Left /= {} =>
      /\ MapThenSumSet(LAMBDA k : DailyCounts[k], 1..Days)
           = Cardinality({i \in Left : DayOf(orders[i].at) > LastDay - Days})
      /\ DailyCounts[Days] > 0
      /\ \A weights \in Weights : Weighing(weights) =>
           /\ \E k \in 1..Days : DailyCounts[k] <= Wma(DailyCounts, weights)
           /\ \E k \in 1..Days : DailyCounts[k] >= Wma(DailyCounts, weights)

\* A brief is about a day with tickets as soon as the store has had one leave
\* the kitchen, also on a day that is still young or a store that is closed.
BriefIsNeverBlank == Left /= {} => Tickets > 0

\* The report lists only the best sellers, and an item it leaves out counts
\* as unsold.  Still, whenever a discount is suggested, no discounted item
\* outsells a listed one that is not discounted.
Spares(sold) ==
    \A top \in TopSets(sold) : \A slow \in SlowSets(sold, top) :
        \A i \in slow, j \in top \ slow : sold[i] <= sold[j]
DiscountSparesSellers ==
    decided.signal = "underload" => \A sold \in [Items -> 0..MaxSold] : Spares(sold)

\* A roster shares the work evenly whatever slots are busy: two people differ
\* by one shift at most, and with a pool of four nobody is on two overlapping
\* shifts of a day or twice on the same one.  (The roster does not depend on
\* the orders, so it is looked at while there are none.)
SharedEvenly(staff, busy) ==
    \A e, f \in 0..(staff - 1) : Cardinality(ShiftsOf(staff, busy, e))
                                    <= Cardinality(ShiftsOf(staff, busy, f)) + 1
DoubleBooked(staff, busy) ==
    \E e \in 0..(staff - 1) : \E a, b \in ShiftsOf(staff, busy, e) :
        /\ a /= b
        /\ a[1] \div 3 = b[1] \div 3
        /\ a[1] - b[1] \in {-1, 0, 1}
RostersFair ==
    orders = << >> => \A busy \in BusySlots : \A staff \in 1..MaxStaff :
        /\ SharedEvenly(staff, busy)
        /\ staff >= 4 => ~DoubleBooked(staff, busy)
============================================================================
