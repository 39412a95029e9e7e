------------------------------ MODULE Estimate ------------------------------
(***************************************************************************)
(* A monthly bill spread over its days and projected past its last one:    *)
(* utilityDailyEstimateSeries, UtilityDailyEstimateRange and               *)
(* monitoredDailyKwh (internal/db/utility.go), billMonthlyRates and        *)
(* billDailyMonthMean (internal/db/daily.go).                              *)
(*                                                                         *)
(* Days are numbered; the calendar is a year of a few short months.  Values *)
(* are kept in 1/Scale kWh, Scale being divisible by every number of days  *)
(* or of kWh that is divided by, in place of floats rounded to 3 digits.   *)
(* The overlay of the published meters is DayDelta of Energy.              *)
(***************************************************************************)
EXTENDS Integers, Sequences, FiniteSets, FiniteSetsExt, Functions

CONSTANTS
    MonthDays,      \* the days of each month of the year
    Years,          \* bound on years
    Scale,
    UnitFactor,     \* kwhFactor of the statistic's unit
    Amounts,        \* what a bill may come to, in that unit
    DayKwhs,        \* what the monitored sensors may measure in a day
    MaxMonitored    \* bound on monitored days

-----------------------------------------------------------------------------
(* The calendar.  Months are counted through the years; none is billed      *)
(* before the second.                                                      *)

MonthCount == Years * Len(MonthDays)
Months == 1 .. MonthCount
Calendar(m) == ((m - 1) % Len(MonthDays)) + 1
DaysIn(m) == MonthDays[Calendar(m)]
MonthLength == [m \in Months |-> DaysIn(m)]
FirstDay == [m \in 1 .. MonthCount + 1 |-> 1 + SumFunctionOnSet(MonthLength, 1 .. m - 1)]
AllDays == 1 .. FirstDay[MonthCount + 1] - 1
MonthAt == [d \in AllDays |-> Max({m \in Months : FirstDay[m] <= d})]

ASSUME EstimateAssumption ==
    /\ MonthDays \in Seq(Nat \ {0}) /\ MonthDays # <<>> /\ Years \in Nat \ {0}
    /\ Scale \in Nat \ {0} /\ UnitFactor \in Nat \ {0}
    /\ Amounts \subseteq Nat /\ MaxMonitored \in Nat
    /\ DayKwhs \subseteq Nat /\ IsFiniteSet(DayKwhs) /\ DayKwhs # {}

\* What is divided by divides Scale: the days between two months, and what can
\* be measured in a month.
ASSUME ScaleAssumption ==
    /\ \A m, n \in Months \ {1} : m < n => Scale % (FirstDay[n] - FirstDay[m]) = 0
    /\ \A k \in 1 .. MaxMonitored * Max(DayKwhs) : Scale % k = 0

VARIABLES
    posted,         \* utility_energy's rows of period month: month to amount
    monitored,      \* day to kWh, over the span of reference_samples
    zone            \* Home Assistant's time zone is known

xvars == <<posted, monitored, zone>>

XInit == posted = <<>> /\ monitored = <<>> /\ zone = FALSE

\* The local date of a bucket's start.  Without a time zone UTC stands in, and
\* east of Greenwich midnight is still the day before.
BillDay(m) == FirstDay[m] - IF zone THEN 0 ELSE 1

-----------------------------------------------------------------------------
(* What changes the data: the worker's backfills and its look at Home      *)
(* Assistant's configuration, modelled in Bills, Feed and Worker.          *)

\* A bill posts, not always in order, or the newest is posted again for more.
PostBill(m, k) ==
    /\ \/ m \notin DOMAIN posted
       \/ m \in DOMAIN posted /\ (\A n \in DOMAIN posted : n <= m) /\ k > posted[m]
    /\ posted' = [n \in DOMAIN posted \cup {m} |-> IF n = m THEN k ELSE posted[n]]
    /\ UNCHANGED <<monitored, zone>>

MonitorDay(d, k) ==
    /\ Cardinality(DOMAIN monitored) < MaxMonitored
    /\ monitored # <<>> => d = Max(DOMAIN monitored) + 1
    /\ monitored' = [e \in DOMAIN monitored \cup {d} |-> IF e = d THEN k ELSE monitored[e]]
    /\ UNCHANGED <<posted, zone>>

ZoneLearned == ~zone /\ zone' = TRUE /\ UNCHANGED <<posted, monitored>>

XNext ==
    \/ \E m \in Months \ {1}, k \in Amounts : PostBill(m, k)
    \/ \E d \in AllDays, k \in DayKwhs : MonitorDay(d, k)
    \/ ZoneLearned

EstimateSpec == XInit /\ [][XNext]_xvars

-----------------------------------------------------------------------------
(* utilityDailyEstimateSeries.                                             *)

\* A bill lasts until the next one stored; the newest is still open.
Closed == {m \in DOMAIN posted : m # Max(DOMAIN posted)}
BillEnd(m) == BillDay(Min({n \in DOMAIN posted : n > m}))
BillDays(m) == BillDay(m) .. BillEnd(m) - 1

\* monitoredDailyKwh over lo .. hi - 1, cut to the span of the samples.
monitoredDailyKwh(lo, hi) == [d \in {e \in DOMAIN monitored : lo <= e /\ e < hi} |-> monitored[d]]

MonthMon(dayMon, d) ==
    SumFunctionOnSet(dayMon, {e \in DOMAIN dayMon : MonthAt[e] = MonthAt[d]})

NoValue == -1

\* The bill by the share of its month's monitored energy that fell on the day.
Shaped(bill, dayMon, d) ==
    LET month == MonthMon(dayMon, d)
        day == IF d \in DOMAIN dayMon THEN dayMon[d] ELSE 0
    IN  IF bill > 0 /\ month > 0 THEN (bill * UnitFactor * Scale * day) \div month ELSE NoValue

\* The days of the closed bills, and the bill of each.
EstimateDays == UNION {BillDays(m) : m \in Closed}
BillOf(d) == CHOOSE m \in Closed : d \in BillDays(m)
DayEstimate(d) ==
    LET m == BillOf(d)
        dayMon == monitoredDailyKwh(Min(EstimateDays), Max(EstimateDays) + 1)
    IN  [day |-> d, projected |-> FALSE,
         flat |-> (posted[m] * UnitFactor * Scale) \div Cardinality(BillDays(m)),
         shaped |-> Shaped(posted[m], dayMon, d)]
utilityDailyEstimateSeries ==
    IF EstimateDays = {} THEN <<>>
    ELSE [i \in 1 .. Cardinality(EstimateDays) |-> DayEstimate(Min(EstimateDays) + i - 1)]

-----------------------------------------------------------------------------
(* UtilityDailyEstimateRange.                                              *)

\* billMonthlyRates: the bills above zero, each under the month its start falls
\* in, by that month's days.
Rated == {m \in DOMAIN posted : posted[m] > 0}
RateMonth(m) == MonthAt[BillDay(m)]
Rate(m) == (posted[m] * UnitFactor * Scale) \div DaysIn(RateMonth(m))

\* monthRatesFor: every bill when the month was never billed.
monthRatesFor(d) ==
    LET same == {m \in Rated : Calendar(RateMonth(m)) = Calendar(MonthAt[d])}
    IN  IF same = {} THEN Rated ELSE same
billDailyMonthMean(d) ==
    LET rates == monthRatesFor(d)
    IN  SumFunction([m \in rates |-> Rate(m)]) \div Cardinality(rates)

\* Mutant of ProjectionStart: the last real day is projected as well.
ProjectionStartSame(from, lastReal) == IF lastReal >= from THEN lastReal ELSE from

ProjectionStart(from, lastReal) == IF lastReal >= from THEN lastReal + 1 ELSE from

\* The estimates of the days from .. to, in order.
Within(all, from, to) ==
    LET hits == {i \in 1 .. Len(all) : from <= all[i].day /\ all[i].day <= to}
    IN  [j \in 1 .. Cardinality(hits) |->
           all[CHOOSE i \in hits : Cardinality({k \in hits : k <= i}) = j]]

UtilityDailyEstimateRange(all, from, to) ==
    LET lastReal == IF all = <<>> THEN NoValue ELSE all[Len(all)].day
        start == ProjectionStart(from, lastReal)
        tail == IF to > lastReal /\ Rated # {} THEN start .. to ELSE {}
    IN  Within(all, from, to)
        \o [i \in 1 .. Cardinality(tail) |->
              [day |-> start + i - 1, projected |-> TRUE,
               flat |-> billDailyMonthMean(start + i - 1), shaped |-> NoValue]]

-----------------------------------------------------------------------------
(* Properties.                                                             *)

Whole(m) == posted[m] * UnitFactor * Scale

\* The days of a closed bill add up to it: the flat ones, whichever months are
\* missing and whatever the time zone, and the shaped ones when the zone is known,
\* the next month is stored and its own was monitored.
BillsAddUp ==
    \A m \in Closed :
        LET all == utilityDailyEstimateSeries
            own == {i \in 1 .. Len(all) : all[i].day \in BillDays(m)}
        IN  /\ SumFunction([i \in own |-> all[i].flat]) = Whole(m)
            /\ /\ zone /\ m + 1 \in DOMAIN posted /\ posted[m] > 0
               /\ \E d \in DOMAIN monitored : MonthAt[d] = m /\ monitored[d] > 0
               => SumFunction([i \in own |-> all[i].shaped]) = Whole(m)

\* In every window of the curve each day stands once, in order, from the first
\* bill on without a hole, and only days after the last one a closed bill covers
\* are projected, at a rate some bill of the same month of the year had.
WindowTiles(from, to) ==
    LET out == UtilityDailyEstimateRange(utilityDailyEstimateSeries, from, to)
        shown == {out[i].day : i \in 1 .. Len(out)}
        billed == {BillDay(m) : m \in DOMAIN posted}
    IN
    /\ shown \subseteq from .. to
    /\ \A i \in 1 .. Len(out) - 1 : out[i].day < out[i + 1].day
    /\ Rated # {} => {d \in from .. to : d >= Min(billed)} \subseteq shown
    /\ \A i \in 1 .. Len(out) :
          out[i].projected <=> ~ \E m \in Closed : out[i].day \in BillDays(m)
    /\ \A i \in 1 .. Len(out) : out[i].projected /\ zone =>
          LET year == {m \in Rated : Calendar(m) = Calendar(MonthAt[out[i].day])}
              Of(m) == Whole(m) \div DaysIn(m)
          IN  year # {} => /\ out[i].flat >= Min({Of(m) : m \in year})
                           /\ out[i].flat <= Max({Of(m) : m \in year})

\* The daily curve is the bills: it adds up to them and every window of it tiles.
EstimateTiles ==
    posted # <<>> =>
        BillsAddUp /\ \A from \in AllDays : \A to \in from .. Max(AllDays) : WindowTiles(from, to)
=============================================================================
