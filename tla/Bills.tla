------------------------------- MODULE Bills -------------------------------
(***************************************************************************)
(* The utility bill: backfillUtility (cmd/worker/main.go), ResolvePeriod   *)
(* and BucketDeltas (internal/ha/stats.go), UpsertUtilityEnergy,           *)
(* KeepOnlyUtility and what the dashboard reads back, resolvedPeriod and   *)
(* UtilitySeries (internal/db/utility.go).                                 *)
(*                                                                         *)
(* Home Assistant's recorder and the home's use of energy are external.    *)
(* The stored value is in the statistic's own unit.                        *)
(***************************************************************************)
EXTENDS Integers, Sequences, FiniteSets, FiniteSetsExt, Functions

CONSTANTS
    Stats,          \* statistics the user may pick
    Exposes,        \* statistic to the periods its utility has data for
    Periods,        \* the periods a probe tries, finest first
    PeriodLen,      \* period to its length in hours
    NoRun,
    MaxTime,        \* bound on hours
    MaxSwitches,    \* bound on changes of the settings
    MaxFailures     \* bound on failing calls and crashes

ASSUME BillsAssumption ==
    /\ Periods \in Seq(STRING) /\ Periods # <<>>
    /\ PeriodLen \in [{Periods[i] : i \in 1 .. Len(Periods)} -> Nat \ {0}]
    /\ MaxTime \in Nat /\ MaxSwitches \in Nat /\ MaxFailures \in Nat

Names == {Periods[i] : i \in 1 .. Len(Periods)}
Coarsest == Periods[Len(Periods)]

VARIABLES
    use,            \* what each hour used
    reset,          \* hour at which the recorder's sum restarted, or 0
    conf,           \* settings: statistic and period, or auto
    rows,           \* table utility_energy
    upc, run,       \* backfillUtility, its configuration and what it fetched
    clean,          \* the last run since the last change went through
    switches, failures

uvars == <<use, reset, conf, rows, upc, run, clean, switches, failures>>

Confs == [stat : Stats, period : Names \cup {"auto"}]

UInit ==
    /\ use = <<>> /\ reset = 0
    /\ conf = [stat |-> CHOOSE s \in Stats : TRUE, period |-> "auto"]
    /\ rows = {} /\ upc = "wait" /\ run = NoRun /\ clean = NoRun
    /\ switches = 0 /\ failures = 0

Failing == failures < MaxFailures /\ failures' = failures + 1

-----------------------------------------------------------------------------
(* Home Assistant's statistics (external).                                 *)

UseHour(u) ==
    /\ Len(use) < MaxTime /\ use' = Append(use, u)
    /\ UNCHANGED <<reset, conf, rows, upc, run, clean, switches, failures>>

\* The recorder starts its sum again.
SumRestarts ==
    /\ reset = 0 /\ use # <<>> /\ Failing /\ reset' = Len(use)
    /\ UNCHANGED <<use, conf, rows, upc, run, clean, switches>>

Hours(p, ts) == {h \in ts .. ts + PeriodLen[p] - 1 : h <= Len(use)}
Billed(p, ts) == SumFunctionOnSet(use, Hours(p, ts))

\* The points of a period, oldest first, with their sum at the bucket's end and
\* their change; older cores send the sum only.
Starts(p) == {ts \in 1 .. Len(use) : (ts - 1) % PeriodLen[p] = 0}
SumAt(p, ts) ==
    LET last == Max(Hours(p, ts))
    IN  SumFunctionOnSet(use, {h \in 1 .. last : last <= reset \/ h > reset})
Points(s, p) == IF p \in Exposes[s] THEN Starts(p) ELSE {}

\* BucketDeltas.  Of sums the first point has no predecessor and is dropped; a
\* negative step is 0.
BucketDeltas(s, p, change) ==
    IF change THEN {[stat |-> s, period |-> p, ts |-> ts, kwh |-> Billed(p, ts)] : ts \in Points(s, p)}
    ELSE {[stat |-> s, period |-> p, ts |-> ts,
           kwh |-> Max({0, SumAt(p, ts) - SumAt(p, ts - PeriodLen[p])})]
             : ts \in {t \in Points(s, p) : t > PeriodLen[p]}}

-----------------------------------------------------------------------------
(* backfillUtility.                                                        *)

\* ResolvePeriod, given the probes that failed: the finest period with more
\* than one point, else the coarsest.
ResolvePeriod(s, failed) ==
    LET good == {i \in 1 .. Len(Periods) :
                    Periods[i] \notin failed /\ Cardinality(Points(s, Periods[i])) > 1}
    IN  IF good = {} THEN Coarsest ELSE Periods[Min(good)]

\* A round of utilityLoop: it fetches with the configuration it took.  Some
\* probes may fail, the coarsest twice (ResolvePeriod falls back to it with a
\* second call); then, or when nothing comes back, the round is over.
Fetch(change, failed, again) ==
    LET p == IF conf.period = "auto" THEN ResolvePeriod(conf.stat, failed) ELSE conf.period
        got == BucketDeltas(conf.stat, p, change)
    IN
    /\ upc = "wait"
    /\ IF failed # {} THEN Failing ELSE UNCHANGED failures
    /\ IF got = {} \/ (p \in failed /\ ~(again /\ conf.period = "auto"))
       THEN UNCHANGED <<upc, run>>
       ELSE upc' = "upsert" /\ run' = [conf |-> conf, period |-> p, got |-> got,
                                       hours |-> Len(use), exact |-> change, sound |-> failed = {}]
    /\ clean' = NoRun
    /\ UNCHANGED <<use, reset, conf, rows, switches>>

\* One statement for all buckets; an error ends the round.
UpsertUtilityEnergy ==
    /\ upc = "upsert"
    /\ \/ /\ rows' = run.got \cup {r \in rows : \A q \in run.got :
                                     <<r.stat, r.period, r.ts>> # <<q.stat, q.period, q.ts>>}
          /\ upc' = "keep" /\ UNCHANGED <<run, failures>>
       \/ Failing /\ upc' = "wait" /\ run' = NoRun /\ UNCHANGED rows
    /\ UNCHANGED <<use, reset, conf, clean, switches>>

\* Mutant of Kept: only the rows of other statistics go.
KeptStatistic(s, p) == {r \in rows : r.stat = s}

\* The rows KeepOnlyUtility leaves.
Kept(s, p) == {r \in rows : r.stat = s /\ r.period = p}

\* Its error is dropped.
KeepOnlyUtility ==
    /\ upc = "keep" /\ upc' = "wait" /\ run' = NoRun
    /\ \/ /\ rows' = Kept(run.conf.stat, run.period) /\ UNCHANGED failures
          /\ clean' = IF run.conf = conf /\ run.sound THEN run ELSE NoRun
       \/ Failing /\ clean' = NoRun /\ UNCHANGED rows
    /\ UNCHANGED <<use, reset, conf, switches>>

\* The user picks another statistic or period.
Switch(c) ==
    /\ c # conf /\ switches < MaxSwitches /\ switches' = switches + 1
    /\ conf' = c /\ clean' = NoRun
    /\ UNCHANGED <<use, reset, rows, upc, run, failures>>

\* The worker dies with a round under way.
WorkerDies ==
    /\ upc # "wait" /\ Failing /\ upc' = "wait" /\ run' = NoRun
    /\ UNCHANGED <<use, reset, conf, rows, clean, switches>>

UNext ==
    \/ \E u \in 1 .. 2 : UseHour(u)
    \/ SumRestarts
    \/ \E change, again \in BOOLEAN, failed \in SUBSET Names : Fetch(change, failed, again)
    \/ UpsertUtilityEnergy \/ KeepOnlyUtility
    \/ \E c \in Confs : Switch(c)
    \/ WorkerDies

BillsSpec == UInit /\ [][UNext]_uvars

-----------------------------------------------------------------------------
(* What the dashboard reads.                                               *)

\* resolvedPeriod: the period of a newest row of the statistic.
Resolved(s) ==
    LET mine == {r \in rows : r.stat = s}
    IN  IF mine = {} THEN {Coarsest}
        ELSE {r.period : r \in {q \in mine : \A o \in mine : o.ts <= q.ts}}

\* UtilitySeries' points.
Series(s, p) == {r \in rows : r.stat = s /\ r.period = p}

-----------------------------------------------------------------------------
(* Properties.                                                             *)

\* The buckets of the series shown follow each other without a hole, whatever
\* rounds failed, died between their two statements or ran with another setting.
SeriesUnbroken ==
    \A p \in Resolved(conf.stat) :
        LET series == Series(conf.stat, p) IN
        \A r \in series : \A ts \in Starts(p) :
            ts < r.ts /\ (\E q \in series : q.ts < ts) => \E q \in series : q.ts = ts

\* After a round that went through, every bucket there was then is stored with
\* the value it had, at the period asked for, and no other period is shown.
RoundStored ==
    clean # NoRun =>
        /\ Resolved(conf.stat) = {clean.period}
        /\ conf.period \in {"auto", clean.period}
        /\ clean.got \subseteq rows

\* No bucket of the series shown holds more than was used in it.
SeriesBounded ==
    \A p \in Resolved(conf.stat) : \A r \in Series(conf.stat, p) : r.kwh <= Billed(p, r.ts)

\* What a round that went through stored adds up to what was used until then.
RoundAddsUp ==
    clean # NoRun /\ clean.exact =>
        SumFunction([r \in Series(conf.stat, clean.period) |-> r.kwh])
            = SumFunctionOnSet(use, 1 .. clean.hours)

\* The series shown for the configured statistic is one bill: its buckets are
\* of one period, follow each other without a hole and none holds more than was
\* used; and after a round that went through it is all of the bill.
BillHonest == SeriesUnbroken /\ SeriesBounded /\ RoundStored /\ RoundAddsUp
=============================================================================
