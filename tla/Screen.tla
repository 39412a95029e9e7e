------------------------------- MODULE Screen -------------------------------
(***************************************************************************)
(* The daily physics screen: dailyReconciliation, evalDailyRow,            *)
(* billDailyBand and monthRatesFor, and the memo DailyReconciliation keeps *)
(* of its result (internal/db/daily.go).                                   *)
(*                                                                         *)
(* Energies are tenths of a kWh.  A meter counts whole units of 1, 0.1 or  *)
(* 0.01 kWh, which the screen has to infer.  Ratios are compared by cross  *)
(* multiplication; the score, labels and reasons are left out.             *)
(***************************************************************************)
EXTENDS Integers, Sequences, FiniteSets, FiniteSetsExt, Functions

CONSTANTS
    Monitored,      \* what the monitored sensors may use in a day
    Rests,          \* and the rest of the home
    BillSets,       \* monthly bills: month to the daily rates of its years
    Month,          \* the calendar month of the screen
    MinDays,        \* dailyMinDays
    MaxDays,        \* bound on days
    Requests,       \* concurrent requests that need the screen
    KWs,            \* settings of the HVAC estimate
    BillSettings,   \* settings of the utility bill
    NoScreen,
    MaxEdits, MaxErrors, MaxClock,
    TTL             \* memoTTL

ASSUME ScreenAssumption ==
    /\ Monitored \subseteq Nat /\ Rests \subseteq Nat /\ MinDays \in Nat \ {0}
    /\ MaxDays \in Nat /\ MaxEdits \in Nat /\ MaxErrors \in Nat /\ MaxClock \in Nat
    /\ TTL \in Nat
    /\ \A b \in BillSets :
          LET all == UNION {b[m] : m \in DOMAIN b}
          IN  Month \in DOMAIN b /\ all \subseteq Nat /\ IsFiniteSet(all)

Decades == 0 .. 2   \* kWh per count: 1, 0.1, 0.01

VARIABLES
    decade, bills,  \* the home's meter and its bills; -1 before they are chosen
    fraction,       \* energy not counted yet
    days            \* per day: monitored, the home's use, counts, feed and radio up

svars == <<decade, bills, fraction, days>>

SInit == decade = -1 /\ bills = <<>> /\ fraction = 0 /\ days = <<>>

-----------------------------------------------------------------------------
(* The home (external).                                                    *)

Home(j, b) ==
    /\ decade = -1 /\ decade' = j /\ bills' = b /\ UNCHANGED <<fraction, days>>

\* A day of the home, counted in whole units by its meter; the reference feed
\* covers it or not, the meter was heard or not.
HomeDay(mon, rest, covered, heardDay) ==
    LET energy == fraction + (mon + rest) * 10 ^ decade
    IN
    /\ decade # -1 /\ Len(days) < MaxDays
    /\ fraction' = energy % 10
    /\ days' = Append(days, [mon |-> mon, home |-> mon + rest, counts |-> energy \div 10,
                             covered |-> covered, heard |-> heardDay])
    /\ UNCHANGED <<decade, bills>>

-----------------------------------------------------------------------------
(* dailyReconciliation and evalDailyRow.                                   *)

\* Full days the feed covers (dailyCoverageMin) with monitored energy.
UsedDays == {d \in 1 .. Len(days) : days[d].covered /\ days[d].mon > 0}
SumMon == SumFunction([d \in UsedDays |-> days[d].mon])
SumCounts == SumFunction([d \in UsedDays |-> days[d].counts])

\* monthRatesFor and billDailyBand: the month's rates, else everybody's.
MonthRates(b) == IF b[Month] # {} THEN b[Month] ELSE UNION {b[m] : m \in DOMAIN b}

\* The magnitude band, times 10 and times the number of days: 0.9 to 3 times
\* the monitored average, tightened by 0.6 and 1.4 times the bill's extremes
\* unless nothing would be left.
Band ==
    LET n == Cardinality(UsedDays)
        lo == 9 * SumMon
        hi == 30 * SumMon
        rates == MonthRates(bills)
        blo == Max({lo, 6 * n * Min(rates)})
        bhi == Min({hi, 14 * n * Max(rates)})
    IN  IF rates # {} /\ blo < bhi THEN <<blo, bhi>> ELSE <<lo, hi>>

\* Unit inference: the decade that lands the meter in the band and closest, on
\* a log scale, to 1.25 times the monitored average; the first of equals.
Fits(j) == Band[1] * 10 ^ j <= SumCounts * 100 /\ SumCounts * 100 <= Band[2] * 10 ^ j
Closer(i, j) ==
    LET N(k) == Max({SumCounts * 8, SumMon * 10 ^ k})
        D(k) == Min({SumCounts * 8, SumMon * 10 ^ k})
    IN  N(i) * D(j) < N(j) * D(i)
Units == {j \in Decades : /\ Fits(j)
                          /\ \A i \in Decades \ {j} : Fits(i) =>
                               ~Closer(i, j) /\ (i < j => Closer(j, i))}

\* Mutant of Covers: five percent of slack and no floor under it.
CoversRelative(j, d) ==
    20 * 10 * days[d].counts + days[d].mon * 10 ^ j >= 20 * days[d].mon * 10 ^ j

\* The physics gate of a day: the meter reads at least the monitored energy,
\* with a slack of 1.5 kWh or five percent.
Covers(j, d) ==
    20 * 10 * days[d].counts + Max({300, days[d].mon}) * 10 ^ j >= 20 * days[d].mon * 10 ^ j

\* No verdict before MinDays days, or without a reading on one of them.
Verdict ==
    IF Cardinality(UsedDays) < MinDays \/ (\E d \in UsedDays : ~days[d].heard) THEN "none"
    ELSE IF Units # {} /\ (\A j \in Units : \A d \in UsedDays : Covers(j, d)) THEN "pass"
    ELSE "violation"

-----------------------------------------------------------------------------
(* The memo.  A screen is known by the settings it was computed with.      *)

VARIABLES
    kw, bill,       \* settings
    memo,           \* dailyMemo
    clock,
    qpc, key, val,  \* a request, the key it looked up, the screen it has
    crossed,        \* requests during which a setting was changed
    edits, errors

mvars == <<kw, bill, memo, clock, qpc, key, val, crossed, edits, errors>>

MInit ==
    /\ kw = (CHOOSE k \in KWs : TRUE) /\ bill = (CHOOSE b \in BillSettings : TRUE)
    /\ memo = NoScreen /\ clock = 0
    /\ qpc = [r \in Requests |-> "new"] /\ key = [r \in Requests |-> NoScreen]
    /\ val = [r \in Requests |-> NoScreen] /\ crossed = {} /\ edits = 0 /\ errors = 0

\* Mutant of MemoKey: the key without the HVAC estimate's inputs.
MemoKeyBare(k) == {}

\* The settings folded into the key; entities and timezone are constant here.
MemoKey(k) == {k}

\* LoadConfig; when it fails the key goes without them.
BuildKey(r) ==
    /\ qpc[r] = "new" /\ qpc' = [qpc EXCEPT ![r] = "lookup"]
    /\ \/ key' = [key EXCEPT ![r] = MemoKey(kw)] /\ UNCHANGED errors
       \/ errors < MaxErrors /\ errors' = errors + 1 /\ UNCHANGED key
    /\ UNCHANGED <<kw, bill, memo, clock, val, crossed, edits>>

\* Under the lock: a hit is the answer.
Lookup(r) ==
    /\ qpc[r] = "lookup"
    /\ IF memo # NoScreen /\ memo.key = key[r] /\ clock - memo.at < TTL
       THEN qpc' = [qpc EXCEPT ![r] = "served"] /\ val' = [val EXCEPT ![r] = memo]
       ELSE qpc' = [qpc EXCEPT ![r] = "compute"] /\ UNCHANGED val
    /\ UNCHANGED <<kw, bill, memo, clock, key, crossed, edits, errors>>

\* dailyReconciliation reads the settings again, in its queries.
Compute(r) ==
    /\ qpc[r] = "compute" /\ qpc' = [qpc EXCEPT ![r] = "store"]
    /\ val' = [val EXCEPT ![r] = [key |-> key[r], at |-> clock, kw |-> kw, bill |-> bill,
                                  crossed |-> FALSE]]
    /\ UNCHANGED <<kw, bill, memo, clock, key, crossed, edits, errors>>

\* Under the lock again, whoever stored in between; a failed screen is not kept.
Store(r) ==
    /\ qpc[r] = "store" /\ qpc' = [qpc EXCEPT ![r] = "served"]
    /\ \/ /\ memo' = [val[r] EXCEPT !.at = clock, !.crossed = r \in crossed]
          /\ val' = [val EXCEPT ![r] = memo'] /\ UNCHANGED errors
       \/ /\ errors < MaxErrors /\ errors' = errors + 1
          /\ val' = [val EXCEPT ![r] = NoScreen] /\ UNCHANGED memo
    /\ UNCHANGED <<kw, bill, clock, key, crossed, edits>>

\* The answer is used and forgotten.
Answer(r) ==
    /\ qpc[r] = "served" /\ qpc' = [qpc EXCEPT ![r] = "new"]
    /\ key' = [key EXCEPT ![r] = NoScreen] /\ val' = [val EXCEPT ![r] = NoScreen]
    /\ crossed' = crossed \ {r}
    /\ UNCHANGED <<kw, bill, memo, clock, edits, errors>>

\* PUT /api/settings.
Edit(k, b) ==
    /\ edits < MaxEdits /\ edits' = edits + 1
    /\ kw' = k /\ bill' = b
    /\ crossed' = {r \in Requests : qpc[r] # "new"}
    /\ UNCHANGED <<memo, clock, qpc, key, val, errors>>

Minute ==
    /\ clock < MaxClock /\ clock' = clock + 1
    /\ UNCHANGED <<kw, bill, memo, qpc, key, val, crossed, edits, errors>>

-----------------------------------------------------------------------------
SNext ==
    \/ \E j \in Decades, b \in BillSets : Home(j, b)
    \/ \E mon \in Monitored, rest \in Rests, c, h \in BOOLEAN : HomeDay(mon, rest, c, h)
MNext ==
    \/ \E r \in Requests : BuildKey(r) \/ Lookup(r) \/ Compute(r) \/ Store(r) \/ Answer(r)
    \/ \E k \in KWs, b \in BillSettings : Edit(k, b)
    \/ Minute

ScreenSpec == SInit /\ [][SNext]_svars
MemoSpec == MInit /\ [][MNext]_mvars

-----------------------------------------------------------------------------
(* Properties.                                                             *)

\* The screen never rejects the home's own meter: with at least 10 kWh a day
\* monitored, a home of at most three times that, less a count, and a rate the
\* bills' band contains, it passes at its real unit, although it counts whole
\* units only and the days in between may be missing.  No other unit fits.
OwnMeterSurvives ==
    LET n == Cardinality(UsedDays)
        home == SumFunction([d \in UsedDays |-> days[d].home])
        rates == MonthRates(bills)
    IN  /\ decade # -1 /\ Verdict # "none"
        /\ SumMon >= 100 * n /\ home <= 3 * SumMon - 10 * n
        /\ rates # {} => n * Min(rates) <= home /\ home <= n * Max(rates)
        => Verdict = "pass" /\ {j \in Decades : Fits(j)} = {decade}

\* A request that starts after a change of the HVAC estimate gets a screen
\* computed with it ("a kW edit ... must miss the memo too"), unless the
\* screen was being computed while a setting was changed, or its own
\* LoadConfig failed.  The bill's settings are not in the key and have no such
\* promise.
EditSeen ==
    \A r \in Requests :
        qpc[r] = "served" /\ val[r] # NoScreen /\ key[r] # NoScreen /\ r \notin crossed
            /\ ~val[r].crossed
        => val[r].kw = kw
=============================================================================
