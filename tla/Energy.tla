------------------------------- MODULE Energy -------------------------------
(***************************************************************************)
(* From packets to pages of consumption: counterModulus and                *)
(* rolloverDeltaSQL (internal/db/helpers.go), hourlyDeltaCTEs, the         *)
(* calendar periods and Consumption (internal/db/consumption.go).          *)
(*                                                                         *)
(* The world is a meter whose counter wraps, heard in some hours and not   *)
(* in others, one packet of which may arrive with a flipped bit.  The page *)
(* is computed from the hourly maxima alone.  The calendar is reduced to   *)
(* days of DayLen hours and weeks of WeekLen days; unit, multiplier,       *)
(* rounding and the page's two overlays are left out.                      *)
(***************************************************************************)
EXTENDS Integers, Sequences, FiniteSets, FiniteSetsExt, Functions

CONSTANTS
    Width,          \* bits of the counter: 24 (SCM) or 32
    Floor,          \* the glitch rule's absolute floor: 1000
    Factor,         \* and its multiple of the median: 50
    Lookback,       \* consumptionLookback in hours: 48
    DayLen, WeekLen,
    FirstCounts,    \* counters the meter may start at
    Uses,           \* what an hour may consume
    MaxHours        \* bound on hours

ASSUME EnergyAssumption ==
    /\ Width \in Nat \ {0} /\ Floor \in Nat /\ Factor \in Nat /\ Lookback \in Nat
    /\ DayLen \in Nat \ {0} /\ WeekLen \in Nat \ {0} /\ MaxHours \in Nat
    /\ FirstCounts \subseteq 0 .. 2 ^ Width - 1 /\ Uses \subseteq Nat
    /\ 2 * Floor < 2 ^ Width

\* counterModulus.
Modulus == 2 ^ Width

Absent == -1            \* no bucket in readings_1h, no row, SQL NULL

VARIABLES
    count,              \* the meter's own counter
    hours               \* per hour: what was used, the maximum heard, a flip

evars == <<count, hours>>

EInit == count = Absent /\ hours = <<>>

-----------------------------------------------------------------------------
(* The meter (external).                                                   *)

Flip(c, bit) == IF (c \div bit) % 2 = 0 THEN c + bit ELSE c - bit
Bits == {2 ^ k : k \in 0 .. Width - 1}
Flipped == {h \in 1 .. Len(hours) : hours[h].flip}

Install(c) == count = Absent /\ count' = c /\ UNCHANGED hours

\* An hour passes: silent, heard, or heard through one corrupted packet.
Hour(u) ==
    LET c == (count + u) % Modulus
        Log(m, f) == hours' = Append(hours, [use |-> u, cmax |-> m, flip |-> f])
    IN
    /\ count # Absent /\ Len(hours) < MaxHours
    /\ count' = c
    /\ \/ Log(Absent, FALSE)
       \/ Log(c, FALSE)
       \/ /\ Flipped = {}
          /\ \E b \in Bits : Log(Flip(c, b), TRUE)

-----------------------------------------------------------------------------
(* hourlyDeltaCTEs, over the hours lo .. hi - 1.                           *)

\* hb: the hours with a bucket; lag: the one before.
HB(lo, hi) == {h \in lo .. hi - 1 : h \in 1 .. Len(hours) /\ hours[h].cmax # Absent}
Lag(lo, h) == IF HB(lo, h) = {} THEN Absent ELSE Max(HB(lo, h))

\* rolloverDeltaSQL: forward, wrapped by less than half the range, or a reset.
RolloverDelta(raw) ==
    CASE raw >= 0 -> raw
      [] raw < 0 /\ raw + Modulus >= 0 /\ 2 * (raw + Modulus) < Modulus -> raw + Modulus
      [] OTHER -> Absent

Delta(lo, h) ==
    LET p == Lag(lo, h) IN
    IF p = Absent THEN Absent ELSE RolloverDelta(hours[h].cmax - hours[p].cmax)

\* Twice the median (percentile_cont) of the positive deltas: the k-th in
\* increasing order, and the two in the middle.
Positive(lo, hi) == {h \in HB(lo, hi) : Delta(lo, h) > 0}
Nth(lo, hi, k) ==
    LET Below(d) == {h \in Positive(lo, hi) : Delta(lo, h) < d}
        UpTo(d) == {h \in Positive(lo, hi) : Delta(lo, h) <= d}
    IN  CHOOSE d \in {Delta(lo, h) : h \in Positive(lo, hi)} :
            Cardinality(Below(d)) < k /\ k <= Cardinality(UpTo(d))
TwiceMedian(lo, hi) ==
    LET n == Cardinality(Positive(lo, hi))
    IN  Nth(lo, hi, (n + 1) \div 2) + Nth(lo, hi, (n + 2) \div 2)

\* Mutant of TwiceLimit: a meter's own median is trusted from its first delta on.
TwiceLimitLone(lo, hi) ==
    IF Cardinality(Positive(lo, hi)) >= 1 THEN Max({Factor * TwiceMedian(lo, hi), 2 * Floor})
    ELSE 2 * Floor

\* Twice what one hour may add.
TwiceLimit(lo, hi) ==
    IF Cardinality(Positive(lo, hi)) >= 3 THEN Max({Factor * TwiceMedian(lo, hi), 2 * Floor})
    ELSE 2 * Floor

\* glitch_clean: the hours whose delta counts.
GlitchClean(lo, hi) ==
    LET limit == TwiceLimit(lo, hi)
    IN  {h \in HB(lo, hi) : Delta(lo, h) # Absent /\ 2 * Delta(lo, h) <= limit}

-----------------------------------------------------------------------------
(* The periods and the page.                                               *)

Views == {"day", "week"}
Length(view) == IF view = "day" THEN DayLen ELSE DayLen * WeekLen
periodStartAt(view, h) == h - ((h - 1) % Length(view))
periodNext(view, start) == start + Length(view)
periodPrev(view, start) == start - Length(view)

\* Sum of the deltas that count in the hours from start on, within lo .. hi - 1;
\* no row when there is none.
SumFrom(start, lo, hi) ==
    LET hs == {h \in GlitchClean(lo, hi) : h >= start}
    IN  IF hs = {} THEN Absent ELSE SumFunction([h \in hs |-> Delta(lo, h)])

\* consumptionSlots and the value of each: hours of a day, days of a week.
Slots(view, start) ==
    LET step == IF view = "day" THEN 1 ELSE DayLen
    IN  {start + i * step : i \in 0 .. (Length(view) \div step) - 1}
SlotValue(view, start, s) ==
    LET lo == start - Lookback
        hi == periodNext(view, start)
        next == IF view = "day" THEN s + 1 ELSE s + DayLen
        hs == {h \in GlitchClean(lo, hi) : s <= h /\ h < next}
    IN  IF hs = {} THEN Absent ELSE SumFunction([h \in hs |-> Delta(lo, h)])

\* Consumption's total: the sum of the slots with data.
Total(view, start) ==
    LET ss == {s \in Slots(view, start) : SlotValue(view, start, s) # Absent}
    IN  IF ss = {} THEN Absent ELSE SumFunction([s \in ss |-> SlotValue(view, start, s)])

\* Mutant of PrevTotal: the window of the previous period without its lookback.
PrevTotalBare(view, start) ==
    LET prev == periodPrev(view, start) IN SumFrom(prev, prev, start)

\* The "vs previous" tile.
PrevTotal(view, start) ==
    LET prev == periodPrev(view, start) IN SumFrom(prev, prev - Lookback, start)

\* The cursors: next once the next period has begun, prev unless the page
\* starts at or before the meter's first packet.
NextAnchor(view, start) == periodNext(view, start) <= Len(hours)
PrevAnchor(view, start) ==
    LET seen == HB(1, Len(hours) + 1)
    IN  seen = {} \/ start > Min(seen)

-----------------------------------------------------------------------------
(* The bill page's overlay (utilityDailyEstimateSeries): what the meter     *)
(* recorded by days, from the maxima of the days alone.                    *)

\* mday; mstep and mdelta: against the day before that was heard.
DayHB(d) == {h \in HB(1, Len(hours) + 1) : periodStartAt("day", h) = d}
DayMax(d) == Max({hours[h].cmax : h \in DayHB(d)})
HeardDays == {periodStartAt("day", h) : h \in HB(1, Len(hours) + 1)}
DayDelta(d) ==
    LET before == {e \in HeardDays : e < d}
    IN  IF before = {} THEN Absent ELSE RolloverDelta(DayMax(d) - DayMax(Max(before)))

ENext == (\E c \in FirstCounts : Install(c)) \/ (\E u \in Uses : Hour(u))

EnergySpec == EInit /\ [][ENext]_evars

-----------------------------------------------------------------------------
(* Properties.                                                             *)

Pages(view) == {periodStartAt(view, h) : h \in 1 .. Len(hours)}
UseOf == [h \in 1 .. Len(hours) |-> hours[h].use]
Consumed(a, b) == SumFunctionOnSet(UseOf, a + 1 .. b)

\* What was used since the packet before, and between the peaks of two days.
Real(lo, h) == Consumed(Max(HB(lo, h)), h)
Peak(d) == Max({h \in DayHB(d) : hours[h].cmax = DayMax(d)})
DayReal(d) == Consumed(Peak(Max({e \in HeardDays : e < d})), Peak(d))

\* A page's total against what was really used between the packet before its
\* period and its last packet: exactly that when every packet is sound and no
\* step is past the floor, across wraps and hours not heard; never more when
\* every packet is sound; and one corrupted packet adds at most the largest of
\* the floor and Factor times a step the meter really made.
PageFaithful ==
    \A view \in Views : \A start \in Pages(view) :
        LET lo == start - Lookback
            end == periodNext(view, start)
            all == HB(lo, end)
            page == HB(start, end)
            first == IF HB(lo, start) # {} THEN Max(HB(lo, start)) ELSE Min(page)
            steps == {Real(lo, h) : h \in {g \in all : HB(lo, g) # {}}}
            total == IF Total(view, start) = Absent THEN 0 ELSE Total(view, start)
            used == Consumed(first, Max(page))
        IN  page # {} =>
            IF all \cap Flipped = {}
            THEN IF \A u \in steps : u <= Floor THEN total = used ELSE total <= used
            ELSE total <= used + Max({Floor} \cup {Factor * u : u \in steps})

\* The overlay adds up: while every packet is sound and the days' peaks are less
\* than half the range apart, the days' deltas are what was used between the
\* peaks of the first day and of the last, also when the counter wrapped within
\* a day and the peak is not the day's last packet.
OverlayAddsUp ==
    LET first == Min(HeardDays)
        last == Max(HeardDays)
        later == HeardDays \ {first}
    IN  Flipped = {} /\ HeardDays # {} /\ (\A d \in later : 2 * DayReal(d) < Modulus) =>
            SumFunction([d \in later |-> DayDelta(d)]) = Consumed(Peak(first), Peak(last))

\* Neither way of reading the meter invents or loses energy.
MeterFaithful == PageFaithful /\ OverlayAddsUp

\* Paging is consistent: the "vs previous" tile shows the total the previous
\* page shows, and from the current page the cursor back reaches the page of
\* every packet and stops.
PagesTile ==
    \A view \in Views : \A start \in Pages(view) :
        /\ start > 1 => PrevTotal(view, start) = Total(view, periodPrev(view, start))
        /\ (\E h \in HB(1, start) : TRUE) => PrevAnchor(view, start)
        /\ NextAnchor(view, start) <=> \E h \in 1 .. Len(hours) : h >= periodNext(view, start)
=============================================================================
