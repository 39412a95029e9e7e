--------------------------- MODULE AnalyticsProofs ---------------------------
(***************************************************************************)
(* Proofs about what the analytics keep and what they add up, for every    *)
(* set of requests, settings, statistics, periods and amounts, every       *)
(* calendar and every bound: the memo of the daily screen and its choice   *)
(* of a meter, the rows of the utility bill and their sums, the pages of   *)
(* a wrapping counter, and the daily curve of the bills.                   *)
(***************************************************************************)
EXTENDS Energy, Screen, Bills, Estimate, SumTheorems

-----------------------------------------------------------------------------
(* Screen: a stored screen is never served to a request that came after a  *)
(* change of the HVAC estimate.                                            *)

\* The maps of the model are functions on the requests, and a request that
\* has not begun has no key.
ShapeInv ==
    /\ qpc = [r \in Requests |-> qpc[r]]
    /\ key = [r \in Requests |-> key[r]]
    /\ val = [r \in Requests |-> val[r]]
    /\ \A r \in Requests : qpc[r] = "new" => key[r] = NoScreen

\* A request that no change of a setting has crossed looks the memo up with
\* the key of today's settings, or without one when its LoadConfig failed.
KeyInv ==
    \A r \in Requests : r \notin crossed => key[r] \in {NoScreen, MemoKey(kw)}

\* The record dailyReconciliation's caller stores, under the key y.
ScreenOf(v, y) ==
    \E a, k, b : v = [key |-> y, at |-> a, kw |-> k, bill |-> b, crossed |-> FALSE]

\* A screen to be stored has the request's key and, unless a setting was
\* changed since the request began, today's settings.
StoreInv ==
    \A r \in Requests : qpc[r] = "store" =>
        ScreenOf(val[r], key[r]) /\ (r \notin crossed => val[r].kw = kw)

\* The memo's key is the key of the settings its screen was computed with,
\* unless they changed between the two reads.
MemoInv ==
    memo # NoScreen /\ ~memo.crossed /\ memo.key # NoScreen => memo.key = MemoKey(memo.kw)

ScreenInv == ShapeInv /\ KeyInv /\ StoreInv /\ MemoInv /\ EditSeen

\* A request's first step: it has its key and no screen yet.
LEMMA BuildKeyInv ==
    ASSUME ScreenInv, NEW r \in Requests, BuildKey(r) PROVE ScreenInv'
<1> USE DEF ScreenInv, BuildKey
<1>1. ShapeInv'
    BY DEF ShapeInv
<1>2. KeyInv'
    BY DEF ShapeInv, KeyInv
<1>3. \A q \in Requests : q # r => qpc'[q] = qpc[q] /\ key'[q] = key[q] /\ val'[q] = val[q]
    BY DEF ShapeInv
<1>4. qpc'[r] = "lookup"
    BY DEF ShapeInv
<1>5. StoreInv'
    BY <1>3, <1>4 DEF StoreInv
<1>6. MemoInv'
    BY DEF MemoInv
<1>7. EditSeen'
    BY <1>3, <1>4 DEF EditSeen
<1>8. QED
    BY <1>1, <1>2, <1>5, <1>6, <1>7

\* The lookup: a hit has the request's own key, which is that of its settings.
LEMMA LookupInv ==
    ASSUME ScreenInv, NEW r \in Requests, Lookup(r) PROVE ScreenInv'
<1> USE DEF ScreenInv
<1>1. ShapeInv'
    BY DEF ShapeInv, Lookup
<1>2. KeyInv' /\ MemoInv'
    BY DEF KeyInv, MemoInv, Lookup
<1>3. \A q \in Requests : q # r => qpc'[q] = qpc[q] /\ val'[q] = val[q]
    BY DEF ShapeInv, Lookup
<1>4. qpc'[r] \in {"served", "compute"}
    BY DEF ShapeInv, Lookup
<1>5. StoreInv'
    BY <1>3, <1>4 DEF StoreInv, Lookup
<1>6. ASSUME qpc'[r] = "served", key[r] # NoScreen, r \notin crossed, ~memo.crossed
      PROVE  val'[r].kw = kw
    <2>1. memo # NoScreen /\ memo.key = key[r] /\ val'[r] = memo
        BY <1>6 DEF Lookup, ShapeInv
    <2>2. key[r] = MemoKey(kw)
        BY <1>6 DEF KeyInv
    <2>3. memo.key = MemoKey(memo.kw)
        BY <1>6, <2>1 DEF MemoInv
    <2>4. QED
        BY <2>1, <2>2, <2>3 DEF MemoKey
<1>7. qpc'[r] = "served" => val'[r] = memo
    BY DEF Lookup, ShapeInv
<1>8. EditSeen'
    BY <1>3, <1>6, <1>7 DEF EditSeen, Lookup
<1>9. QED
    BY <1>1, <1>2, <1>5, <1>8

\* The computation reads the settings of its own moment.
LEMMA ComputeInv ==
    ASSUME ScreenInv, NEW r \in Requests, Compute(r) PROVE ScreenInv'
<1> USE DEF ScreenInv, Compute
<1>1. ShapeInv'
    BY DEF ShapeInv
<1>2. KeyInv' /\ MemoInv'
    BY DEF KeyInv, MemoInv
<1>3. \A q \in Requests : q # r => qpc'[q] = qpc[q] /\ val'[q] = val[q]
    BY DEF ShapeInv
<1>4. /\ qpc'[r] = "store"
      /\ val'[r] = [key |-> key[r], at |-> clock, kw |-> kw, bill |-> bill, crossed |-> FALSE]
    BY DEF ShapeInv
<1>5. ScreenOf(val'[r], key[r]) /\ val'[r].kw = kw
    <2>1. val'[r].kw = kw
        BY <1>4
    <2>2. ScreenOf(val'[r], key[r])
        BY <1>4, Zenon DEF ScreenOf
    <2>3. QED
        BY <2>1, <2>2
<1>6. StoreInv'
    BY <1>3, <1>5 DEF StoreInv
<1>7. EditSeen'
    BY <1>3, <1>4 DEF EditSeen
<1>8. QED
    BY <1>1, <1>2, <1>6, <1>7

\* The store, which overwrites what another request stored in between.
LEMMA StoreStepInv ==
    ASSUME ScreenInv, NEW r \in Requests, Store(r) PROVE ScreenInv'
<1> USE DEF ScreenInv
<1>1. ShapeInv'
    BY DEF ShapeInv, Store
<1>2. KeyInv'
    BY DEF KeyInv, Store
<1>3. /\ \A q \in Requests : q # r => qpc'[q] = qpc[q] /\ val'[q] = val[q]
      /\ qpc'[r] = "served"
    BY DEF ShapeInv, Store
<1>4. StoreInv'
    BY <1>3 DEF StoreInv, Store
<1>5. CASE memo' = memo /\ val' = [val EXCEPT ![r] = NoScreen]
    <2>1. val'[r] = NoScreen
        BY <1>5 DEF ShapeInv
    <2>2. EditSeen'
        BY <1>3, <2>1 DEF EditSeen, Store
    <2>3. MemoInv'
        BY <1>5 DEF MemoInv
    <2>4. QED
        BY <1>1, <1>2, <1>4, <2>2, <2>3
<1>6. CASE /\ memo' = [val[r] EXCEPT !.at = clock, !.crossed = r \in crossed]
           /\ val' = [val EXCEPT ![r] = memo']
    <2>1. PICK a, k, b :
            val[r] = [key |-> key[r], at |-> a, kw |-> k, bill |-> b, crossed |-> FALSE]
        BY DEF StoreInv, Store, ScreenOf
    <2>2. r \notin crossed => k = kw
        BY <2>1 DEF StoreInv, Store
    <2>3. memo' = [[key |-> key[r], at |-> a, kw |-> k, bill |-> b, crossed |-> FALSE]
                    EXCEPT !.at = clock, !.crossed = r \in crossed]
        BY <1>6, <2>1, Zenon
    <2>4. memo'.key = key[r] /\ memo'.kw = k /\ memo'.crossed = (r \in crossed)
        BY <2>3
    <2>5. MemoInv'
        BY <2>2, <2>4 DEF MemoInv, KeyInv
    <2>6. val'[r] = memo'
        BY <1>6 DEF ShapeInv
    <2>7. EditSeen'
        BY <1>3, <2>2, <2>4, <2>6 DEF EditSeen, Store
    <2>8. QED
        BY <1>1, <1>2, <1>4, <2>5, <2>7
<1>7. QED
    BY <1>5, <1>6 DEF Store

\* The answer is used and forgotten.
LEMMA AnswerInv ==
    ASSUME ScreenInv, NEW r \in Requests, Answer(r) PROVE ScreenInv'
<1> USE DEF ScreenInv, Answer
<1>1. ShapeInv'
    BY DEF ShapeInv
<1>2. /\ \A q \in Requests : q # r => /\ qpc'[q] = qpc[q] /\ key'[q] = key[q]
                                      /\ val'[q] = val[q]
                                      /\ q \in crossed' <=> q \in crossed
      /\ qpc'[r] = "new" /\ key'[r] = NoScreen
    BY DEF ShapeInv
<1>3. KeyInv' /\ MemoInv'
    BY <1>2 DEF KeyInv, MemoInv
<1>4. StoreInv'
    BY <1>2 DEF StoreInv
<1>5. EditSeen'
    BY <1>2 DEF EditSeen
<1>6. QED
    BY <1>1, <1>3, <1>4, <1>5

\* A change of the settings crosses every request that has begun; the others
\* have no key, and the memo keeps the settings it was computed with.
LEMMA EditInv ==
    ASSUME ScreenInv, NEW k, NEW b, Edit(k, b) PROVE ScreenInv'
<1> USE DEF ScreenInv, Edit
<1>1. ShapeInv'
    BY DEF ShapeInv
<1>2. KeyInv'
    BY DEF KeyInv, ShapeInv
<1>3. StoreInv' /\ MemoInv'
    BY DEF StoreInv, MemoInv
<1>4. EditSeen'
    BY DEF EditSeen
<1>5. QED
    BY <1>1, <1>2, <1>3, <1>4

\* The memo's inductive invariant: what the two reads of the settings, before
\* and after the unlock in DailyReconciliation, leave in the memo.
THEOREM ScreenInvariant == MemoSpec => []ScreenInv
<1>1. MInit => ScreenInv
    BY DEF MInit, ScreenInv, ShapeInv, KeyInv, StoreInv, MemoInv, EditSeen
<1>2. ScreenInv /\ [MNext]_mvars => ScreenInv'
    <2> SUFFICES ASSUME ScreenInv, [MNext]_mvars PROVE ScreenInv'
        OBVIOUS
    <2>1. ASSUME NEW r \in Requests,
                 BuildKey(r) \/ Lookup(r) \/ Compute(r) \/ Store(r) \/ Answer(r)
          PROVE  ScreenInv'
        BY <2>1, BuildKeyInv, LookupInv, ComputeInv, StoreStepInv, AnswerInv
    <2>2. ASSUME NEW k \in KWs, NEW b \in BillSettings, Edit(k, b) PROVE ScreenInv'
        BY <2>2, EditInv
    <2>3. CASE Minute
        BY <2>3 DEF Minute, ScreenInv, ShapeInv, KeyInv, StoreInv, MemoInv, EditSeen
    <2>4. CASE UNCHANGED mvars
        BY <2>4 DEF mvars, ScreenInv, ShapeInv, KeyInv, StoreInv, MemoInv, EditSeen
    <2>5. QED
        BY <2>1, <2>2, <2>3, <2>4 DEF MNext
<1>3. QED
    BY <1>1, <1>2, PTL DEF MemoSpec

\* A request that starts after a change of the HVAC estimate is never served
\* the screen of the old one, whoever computes or stores a screen meanwhile:
\* the stored screen was computed with the settings of the key it is kept
\* under, or the change fell between the key and the computation.
THEOREM ScreenEditSeen == MemoSpec => []EditSeen
<1>1. ScreenInv => EditSeen
    BY DEF ScreenInv
<1>2. QED
    BY <1>1, ScreenInvariant, PTL

-----------------------------------------------------------------------------
(* Bills: whatever rounds of backfillUtility failed or died, the stored    *)
(* series has no hole, and a round that went through is stored.            *)

\* Rows of utility_energy: of a period there is, at an hour there was.
RowsOK(G) == \A r \in G : r.period \in Names /\ r.ts \in 1 .. Len(use)

\* Between two rows of a statistic and a period there is one for every bucket;
\* only the first bucket of all, which has no sum before it, may be missing.
Unbroken(G) ==
    \A r \in G : \A ts \in Nat :
        /\ PeriodLen[r.period] < ts /\ ts < r.ts
        /\ (ts - 1) % PeriodLen[r.period] = 0
        => \E q \in G : q.stat = r.stat /\ q.period = r.period /\ q.ts = ts

\* Rows of one statistic and one period, as one round fetches them.
OneSeries(G, s, p) == \A r \in G : r.stat = s /\ r.period = p

\* A round that has fetched: with its own configuration, all of one series.
RunInv ==
    /\ upc \in {"wait", "upsert", "keep"}
    /\ upc # "wait" =>
          /\ run.got # {} /\ RowsOK(run.got) /\ Unbroken(run.got)
          /\ OneSeries(run.got, run.conf.stat, run.period)
          /\ run.conf.period \in {"auto", run.period}
    /\ upc = "keep" => run.got \subseteq rows

\* A round that went through left its own series alone in the table, and
\* nothing has touched the table since.
CleanInv ==
    clean # NoRun =>
        /\ upc = "wait"
        /\ clean.got # {} /\ clean.got \subseteq rows
        /\ OneSeries(rows, conf.stat, clean.period)
        /\ conf.period \in {"auto", clean.period}

BillsInv ==
    /\ use \in Seq(Nat) /\ conf.period \in Names \cup {"auto"}
    /\ RowsOK(rows) /\ Unbroken(rows)
    /\ RunInv /\ CleanInv

\* Every period that backfillUtility can resolve to is one of the probed ones.
LEMMA ResolvedName ==
    ASSUME NEW s, NEW failed PROVE ResolvePeriod(s, failed) \in Names
<1> DEFINE good == {i \in 1 .. Len(Periods) :
                      Periods[i] \notin failed /\ Cardinality(Points(s, Periods[i])) > 1}
<1>1. Len(Periods) \in Nat /\ Len(Periods) \in 1 .. Len(Periods)
    BY BillsAssumption
<1>2. good # {} => Min(good) \in 1 .. Len(Periods)
    <2>1. good \in SUBSET Nat
        BY <1>1
    <2>2. good # {} => Min(good) \in good
        BY <2>1, LeastNatural
    <2>3. QED
        BY <2>2
<1>3. \A i \in 1 .. Len(Periods) : Periods[i] \in Names
    BY DEF Names
<1>4. Coarsest \in Names
    BY <1>1, <1>3 DEF Coarsest
<1>5. ResolvePeriod(s, failed) = IF good = {} THEN Coarsest ELSE Periods[Min(good)]
    BY DEF ResolvePeriod
<1>6. QED
    BY <1>2, <1>3, <1>4, <1>5

\* What BucketDeltas makes of a statistic's points: rows of one series without
\* a hole, from changes and from sums alike.
LEMMA Bucketed ==
    ASSUME use \in Seq(Nat), NEW s, NEW p \in Names, NEW change \in BOOLEAN
    PROVE  LET got == BucketDeltas(s, p, change)
           IN  RowsOK(got) /\ Unbroken(got) /\ OneSeries(got, s, p)
<1> DEFINE got == BucketDeltas(s, p, change)
           times == IF change THEN Points(s, p) ELSE {t \in Points(s, p) : t > PeriodLen[p]}
           Kwh(t) == IF change THEN Billed(p, t)
                     ELSE Max({0, SumAt(p, t) - SumAt(p, t - PeriodLen[p])})
           row(t) == [stat |-> s, period |-> p, ts |-> t, kwh |-> Kwh(t)]
<1>1. got = {row(t) : t \in times}
    BY DEF BucketDeltas
<1>2. \A t : row(t).stat = s /\ row(t).period = p /\ row(t).ts = t
    OBVIOUS
<1> HIDE DEF got, row, Kwh
<1>3. times \subseteq 1 .. Len(use) /\ Len(use) \in Nat
    BY DEF Points, Starts
<1>4. \A r \in got : \E t \in times : r.ts = t /\ r.stat = s /\ r.period = p
    BY <1>1, <1>2
<1>5. \A t \in times : \E q \in got : q.ts = t /\ q.stat = s /\ q.period = p
    BY <1>1, <1>2
<1>6. ASSUME NEW r \in got, NEW ts \in Nat, PeriodLen[r.period] < ts, ts < r.ts,
             (ts - 1) % PeriodLen[r.period] = 0
      PROVE  ts \in times
    <2>1. PeriodLen[p] \in Nat \ {0}
        BY BillsAssumption DEF Names
    <2>2. PICK t \in times : r.ts = t /\ r.period = p
        BY <1>4, <1>6
    <2>3. t \in Points(s, p) /\ t \in 1 .. Len(use)
        BY <1>3
    <2>4. Points(s, p) = Starts(p)
        BY <2>3 DEF Points
    <2>5. ts \in 1 .. Len(use)
        BY <1>3, <1>6, <2>1, <2>2, <2>3
    <2>6. ts \in Starts(p)
        BY <1>6, <2>2, <2>5 DEF Starts
    <2>7. QED
        BY <1>6, <2>2, <2>4, <2>6
<1>7. RowsOK(got) /\ OneSeries(got, s, p)
    BY <1>3, <1>4 DEF RowsOK, OneSeries
<1>8. Unbroken(got)
    <2> HIDE DEF times
    <2> SUFFICES ASSUME NEW r \in got, NEW ts \in Nat,
                        PeriodLen[r.period] < ts, ts < r.ts, (ts - 1) % PeriodLen[r.period] = 0
                 PROVE  \E q \in got : q.stat = r.stat /\ q.period = r.period /\ q.ts = ts
        BY DEF Unbroken
    <2>1. ts \in times
        BY <1>6
    <2>2. r.stat = s /\ r.period = p
        BY <1>4
    <2>3. QED
        BY <1>5, <2>1, <2>2
<1>9. QED
    BY <1>7, <1>8 DEF got

\* The hours that pass only add to those there were.
LEMMA RowsStay ==
    ASSUME NEW G, RowsOK(G), Len(use) \in Nat, Len(use') \in Nat, Len(use) <= Len(use')
    PROVE  \A r \in G : r.period \in Names /\ r.ts \in 1 .. Len(use')
BY DEF RowsOK

\* A round fetches what BillsInv says of it.
LEMMA FetchInv ==
    ASSUME BillsInv, NEW change \in BOOLEAN, NEW again \in BOOLEAN, NEW failed,
           Fetch(change, failed, again)
    PROVE  BillsInv'
<1> DEFINE p == IF conf.period = "auto" THEN ResolvePeriod(conf.stat, failed) ELSE conf.period
           got == BucketDeltas(conf.stat, p, change)
<1>1. p \in Names
    BY ResolvedName DEF BillsInv
<1>2. RowsOK(got) /\ Unbroken(got) /\ OneSeries(got, conf.stat, p)
    BY <1>1, Bucketed DEF BillsInv
<1>3. conf.period \in {"auto", p}
    OBVIOUS
<1> HIDE DEF p, got
<1>4. /\ upc = "wait" /\ clean' = NoRun
      /\ UNCHANGED <<use, conf, rows>>
      /\ \/ UNCHANGED <<upc, run>>
         \/ /\ got # {} /\ upc' = "upsert"
            /\ run' = [conf |-> conf, period |-> p, got |-> got, hours |-> Len(use),
                       exact |-> change, sound |-> failed = {}]
    BY Zenon DEF Fetch, p, got
<1>5. (RowsOK(rows) /\ Unbroken(rows))'
    BY <1>4 DEF BillsInv, RowsOK, Unbroken
<1>6. CleanInv'
    BY <1>4 DEF CleanInv
<1>7. RunInv'
    <2>1. CASE UNCHANGED <<upc, run>>
        BY <1>4, <2>1 DEF BillsInv, RunInv
    <2>2. CASE /\ got # {} /\ upc' = "upsert"
               /\ run' = [conf |-> conf, period |-> p, got |-> got, hours |-> Len(use),
                          exact |-> change, sound |-> failed = {}]
        <3>1. run'.conf = conf /\ run'.period = p /\ run'.got = got
            BY <2>2
        <3>2. RowsOK(run.got)' /\ Unbroken(run.got)'
            BY <1>2, <1>4, <3>1 DEF RowsOK, Unbroken
        <3>3. OneSeries(run.got, run.conf.stat, run.period)'
            BY <1>2, <3>1 DEF OneSeries
        <3>4. QED
            BY <1>3, <2>2, <3>1, <3>2, <3>3 DEF RunInv
    <2>3. QED
        BY <1>4, <2>1, <2>2
<1>8. QED
    BY <1>4, <1>5, <1>6, <1>7 DEF BillsInv

\* The upsert keeps the table unbroken: a row it replaces has the same key.
LEMMA UpsertInv ==
    ASSUME BillsInv, UpsertUtilityEnergy PROVE BillsInv'
<1>1. /\ UNCHANGED <<use, conf, clean>> /\ upc = "upsert"
    BY DEF UpsertUtilityEnergy
<1>2. CASE upc' = "wait" /\ rows' = rows
    BY <1>1, <1>2 DEF BillsInv, RowsOK, Unbroken, RunInv, CleanInv, OneSeries
<1>3. CASE /\ rows' = run.got \cup {r \in rows : \A q \in run.got :
                                     <<r.stat, r.period, r.ts>> # <<q.stat, q.period, q.ts>>}
           /\ upc' = "keep" /\ run' = run
    <2> DEFINE Same(q, r) == q.stat = r.stat /\ q.period = r.period /\ q.ts = r.ts
    <2>1. /\ run.got \subseteq rows' /\ rows' \subseteq run.got \cup rows
          /\ \A r \in rows : r \in rows' \/ \E q \in run.got : Same(q, r)
        BY <1>3
    <2>2. run.got # {} /\ RowsOK(run.got) /\ Unbroken(run.got)
        BY <1>1 DEF BillsInv, RunInv
    <2>3. RowsOK(rows)'
        BY <1>1, <2>1, <2>2 DEF BillsInv, RowsOK
    <2>4. Unbroken(rows)'
        <3> SUFFICES ASSUME NEW r \in rows', NEW ts \in Nat,
                            PeriodLen[r.period] < ts, ts < r.ts, (ts - 1) % PeriodLen[r.period] = 0
                     PROVE  \E q \in rows' : q.stat = r.stat /\ q.period = r.period /\ q.ts = ts
            BY DEF Unbroken
        <3>1. CASE r \in run.got
            BY <2>1, <2>2, <3>1 DEF Unbroken
        <3>2. CASE r \in rows
            <4>1. PICK q \in rows : q.stat = r.stat /\ q.period = r.period /\ q.ts = ts
                BY <3>2 DEF BillsInv, Unbroken
            <4>2. QED
                BY <2>1, <4>1
        <3>3. QED
            BY <2>1, <3>1, <3>2
    <2>5. RunInv'
        <3>1. RowsOK(run.got)' /\ Unbroken(run.got)'
            BY <1>1, <1>3, <2>2 DEF RowsOK, Unbroken
        <3>2. /\ OneSeries(run.got, run.conf.stat, run.period)
              /\ run.conf.period \in {"auto", run.period}
            BY <1>1 DEF BillsInv, RunInv
        <3>3. OneSeries(run.got, run.conf.stat, run.period)'
            BY <1>3, <3>2 DEF OneSeries
        <3>4. QED
            BY <1>3, <2>1, <2>2, <3>1, <3>2, <3>3 DEF RunInv
    <2>6. CleanInv'
        BY <1>1 DEF BillsInv, CleanInv
    <2>7. QED
        BY <1>1, <2>3, <2>4, <2>5, <2>6 DEF BillsInv
<1>4. QED
    BY <1>2, <1>3 DEF UpsertUtilityEnergy

\* KeepOnlyUtility leaves the round's series, which is all that it fetched.
LEMMA KeepInv ==
    ASSUME BillsInv, KeepOnlyUtility PROVE BillsInv'
<1>1. upc = "keep" /\ upc' = "wait" /\ UNCHANGED <<use, conf>>
    BY DEF KeepOnlyUtility
<1>2. RunInv'
    BY <1>1 DEF RunInv
<1>3. CASE rows' = rows /\ clean' = NoRun
    BY <1>1, <1>2, <1>3 DEF BillsInv, RowsOK, Unbroken, CleanInv
<1>4. CASE /\ rows' = Kept(run.conf.stat, run.period)
           /\ clean' = IF run.conf = conf /\ run.sound THEN run ELSE NoRun
    <2>1. /\ rows' \subseteq rows
          /\ \A r \in rows : r \in rows' <=> r.stat = run.conf.stat /\ r.period = run.period
        BY <1>4 DEF Kept
    <2>2. RowsOK(rows)'
        BY <1>1, <2>1 DEF BillsInv, RowsOK
    <2>3. Unbroken(rows)'
        <3> SUFFICES ASSUME NEW r \in rows', NEW ts \in Nat,
                            PeriodLen[r.period] < ts, ts < r.ts, (ts - 1) % PeriodLen[r.period] = 0
                     PROVE  \E q \in rows' : q.stat = r.stat /\ q.period = r.period /\ q.ts = ts
            BY DEF Unbroken
        <3>1. PICK q \in rows : q.stat = r.stat /\ q.period = r.period /\ q.ts = ts
            BY <2>1 DEF BillsInv, Unbroken
        <3>2. QED
            BY <2>1, <3>1
    <2>4. ASSUME clean' # NoRun PROVE CleanInv'
        <3>1. clean' = run /\ run.conf = conf
            BY <1>4, <2>4
        <3>2. /\ run.got # {} /\ run.got \subseteq rows
              /\ OneSeries(run.got, run.conf.stat, run.period)
              /\ run.conf.period \in {"auto", run.period}
            BY <1>1 DEF BillsInv, RunInv
        <3>3. run.got \subseteq rows'
            BY <2>1, <3>2 DEF OneSeries
        <3>4. OneSeries(rows, conf.stat, clean.period)'
            BY <1>1, <2>1, <3>1 DEF OneSeries
        <3>5. QED
            BY <1>1, <3>1, <3>2, <3>3, <3>4 DEF CleanInv
    <2>5. CleanInv'
        BY <2>4 DEF CleanInv
    <2>6. QED
        BY <1>1, <1>2, <2>2, <2>3, <2>5 DEF BillsInv
<1>5. QED
    BY <1>3, <1>4 DEF KeepOnlyUtility

\* The rest: hours of the recorder, other settings, a worker that dies.
LEMMA OtherInv ==
    ASSUME BillsInv,
           \/ \E u \in 1 .. 2 : UseHour(u)
           \/ SumRestarts \/ WorkerDies \/ UNCHANGED uvars
           \/ \E c \in Confs : Switch(c)
    PROVE  BillsInv'
<1>1. CASE \E u \in 1 .. 2 : UseHour(u)
    <2>1. PICK u \in 1 .. 2 : use' = Append(use, u)
        BY <1>1 DEF UseHour
    <2>2. UNCHANGED <<conf, rows, upc, run, clean>>
        BY <1>1 DEF UseHour
    <2>3. use' \in Seq(Nat) /\ Len(use') = Len(use) + 1 /\ Len(use) \in Nat
        BY <2>1 DEF BillsInv
    <2>4. RowsOK(rows)' /\ Unbroken(rows)'
        BY <2>2, <2>3, RowsStay DEF BillsInv, RowsOK, Unbroken
    <2>5. CleanInv'
        BY <2>2 DEF BillsInv, CleanInv, OneSeries
    <2>6. upc # "wait" => RowsOK(run.got)' /\ Unbroken(run.got)'
        BY <2>2, <2>3 DEF BillsInv, RunInv, RowsOK, Unbroken
    <2>7. RunInv'
        BY <2>2, <2>6 DEF BillsInv, RunInv, OneSeries
    <2>8. QED
        BY <2>2, <2>3, <2>4, <2>5, <2>7 DEF BillsInv
<1>2. CASE SumRestarts \/ UNCHANGED uvars
    BY <1>2 DEF SumRestarts, uvars, BillsInv, RunInv, CleanInv, RowsOK, Unbroken, OneSeries
<1>3. CASE WorkerDies
    BY <1>3 DEF WorkerDies, BillsInv, RunInv, CleanInv, RowsOK, Unbroken, OneSeries
<1>4. CASE \E c \in Confs : Switch(c)
    <2>1. UNCHANGED <<use, rows, upc, run>> /\ clean' = NoRun
        BY <1>4 DEF Switch
    <2>2. conf'.period \in Names \cup {"auto"}
        BY <1>4 DEF Switch, Confs
    <2>3. QED
        BY <2>1, <2>2 DEF BillsInv, RunInv, CleanInv, RowsOK, Unbroken, OneSeries
<1>5. QED
    BY <1>1, <1>2, <1>3, <1>4

\* The table of the bill at every step of every round: each series in it is
\* unbroken, and after a clean round it is the only one.
THEOREM BillsInvariant == BillsSpec => []BillsInv
<1>1. UInit => BillsInv
    <2> SUFFICES ASSUME UInit PROVE BillsInv
        OBVIOUS
    <2>1. use \in Seq(Nat) /\ conf.period \in Names \cup {"auto"} /\ rows = {} /\ upc = "wait"
        BY DEF UInit
    <2>2. QED
        BY <2>1 DEF UInit, BillsInv, RunInv, CleanInv, RowsOK, Unbroken
<1>2. BillsInv /\ [UNext]_uvars => BillsInv'
    BY FetchInv, UpsertInv, KeepInv, OtherInv DEF UNext
<1>3. QED
    BY <1>1, <1>2, PTL DEF BillsSpec

\* A bucket after the first begins a whole period after it.
LEMMA AfterFirst ==
    ASSUME NEW n \in Nat \ {0}, NEW t \in Nat, 1 < t, (t - 1) % n = 0
    PROVE  n < t
<1>1. SUFFICES ASSUME t - 1 < n PROVE FALSE
    OBVIOUS
<1>2. (t - 1) % n = t - 1
    BY <1>1
<1>3. QED
    BY <1>2

\* The series shown has no hole, whatever rounds failed, died between the
\* upsert and KeepOnlyUtility or ran with a configuration that was changed.
THEOREM BillsSeriesUnbroken == BillsSpec => []SeriesUnbroken
<1>1. BillsInv => SeriesUnbroken
    <2> SUFFICES ASSUME BillsInv, NEW p, NEW r \in Series(conf.stat, p), NEW ts \in Starts(p),
                        ts < r.ts, NEW o \in Series(conf.stat, p), o.ts < ts
                 PROVE  \E q \in Series(conf.stat, p) : q.ts = ts
        BY DEF SeriesUnbroken
    <2>1. /\ r \in rows /\ r.stat = conf.stat /\ r.period = p
          /\ o \in rows /\ o.ts \in 1 .. Len(use) /\ p \in Names /\ Len(use) \in Nat
        BY DEF Series, BillsInv, RowsOK
    <2>2. PeriodLen[p] \in Nat \ {0}
        BY <2>1, BillsAssumption DEF Names
    <2>3. ts \in Nat /\ 1 < ts /\ (ts - 1) % PeriodLen[p] = 0
        BY <2>1 DEF Starts
    <2>4. PeriodLen[p] < ts
        BY <2>2, <2>3, AfterFirst
    <2>5. PICK q \in rows : q.stat = r.stat /\ q.period = r.period /\ q.ts = ts
        BY <2>1, <2>3, <2>4 DEF BillsInv, Unbroken
    <2>6. QED
        BY <2>1, <2>5 DEF Series
<1>2. QED
    BY <1>1, BillsInvariant, PTL

\* After a round that went through, what it fetched is stored at the period
\* asked for and no other period is shown, until the settings change or the
\* next round begins: a round with an older configuration is never taken for it.
THEOREM BillsRoundStored == BillsSpec => []RoundStored
<1>1. BillsInv => RoundStored
    <2> SUFFICES ASSUME BillsInv, clean # NoRun PROVE Resolved(conf.stat) = {clean.period}
        BY DEF BillsInv, CleanInv, RoundStored
    <2>1. /\ rows # {} /\ OneSeries(rows, conf.stat, clean.period)
          /\ RowsOK(rows) /\ Len(use) \in Nat
        BY DEF BillsInv, CleanInv
    <2> DEFINE ages == {Len(use) - r.ts : r \in rows}
               newest == {q \in rows : \A o \in rows : o.ts <= q.ts}
    <2>2. ages # {} /\ ages \subseteq Nat
        BY <2>1 DEF RowsOK
    <2>3. PICK r \in rows : \A o \in rows : Len(use) - r.ts <= Len(use) - o.ts
        <3>1. PICK x \in ages : \A y \in ages : x <= y
            BY <2>2, LeastNatural
        <3>2. QED
            BY <3>1
    <2>4. r \in newest
        BY <2>1, <2>3 DEF RowsOK
    <2>5. {q \in rows : q.stat = conf.stat} = rows
        BY <2>1 DEF OneSeries
    <2>6. Resolved(conf.stat) = {q.period : q \in newest}
        BY <2>1, <2>5 DEF Resolved
    <2>7. \A q \in newest : q.period = clean.period
        BY <2>1 DEF OneSeries
    <2>8. QED
        BY <2>4, <2>6, <2>7
<1>2. QED
    BY <1>1, BillsInvariant, PTL

-----------------------------------------------------------------------------
(* Energy: the pages of a meter tile its history.                          *)

\* counterModulus is a positive number.
LEMMA ModulusPositive == Modulus \in Nat \ {0}
BY EnergyAssumption, PowerOfTwo DEF Modulus

HourType == [use : Nat, cmax : Int, flip : BOOLEAN]
EnergyType == count \in Int /\ hours \in Seq(HourType)

\* The counter and the maxima heard are integers, the flipped ones too.
LEMMA EnergyTypeInv == EnergySpec => []EnergyType
<1>1. EInit => EnergyType
    BY DEF EInit, EnergyType, Absent
<1>2. EnergyType /\ [ENext]_evars => EnergyType'
    <2> SUFFICES ASSUME EnergyType, [ENext]_evars PROVE EnergyType'
        OBVIOUS
    <2>1. ASSUME NEW c \in FirstCounts, Install(c) PROVE EnergyType'
        <3>1. c \in Int
            BY EnergyAssumption
        <3>2. QED
            BY <2>1, <3>1 DEF Install, EnergyType
    <2>2. ASSUME NEW u \in Uses, Hour(u) PROVE EnergyType'
        <3> DEFINE c == (count + u) % Modulus
        <3>1. u \in Nat /\ Modulus \in Nat \ {0} /\ Absent \in Int
            BY EnergyAssumption, ModulusPositive DEF Absent
        <3>2. c \in Int
            BY <3>1 DEF EnergyType
        <3>3. count' = c
            BY <2>2 DEF Hour
        <3> HIDE DEF c
        <3>4. \A b \in Bits : Flip(c, b) \in Int
            <4>1. \A b \in Bits : b \in Int
                BY EnergyAssumption DEF Bits
            <4>2. QED
                BY <3>2, <4>1 DEF Flip
        <3>5. \E m \in Int : \E f \in BOOLEAN :
                 hours' = Append(hours, [use |-> u, cmax |-> m, flip |-> f])
            BY <2>2, <3>1, <3>2, <3>4 DEF Hour, c
        <3>6. PICK m \in Int, f \in BOOLEAN :
                 hours' = Append(hours, [use |-> u, cmax |-> m, flip |-> f])
            BY <3>5
        <3>7. [use |-> u, cmax |-> m, flip |-> f] \in HourType
            BY <3>1 DEF HourType
        <3>8. QED
            BY <3>2, <3>3, <3>6, <3>7 DEF EnergyType
    <2>3. CASE UNCHANGED evars
        BY <2>3 DEF evars, EnergyType
    <2>4. QED
        BY <2>1, <2>2, <2>3 DEF ENext
<1>3. QED
    BY <1>1, <1>2, PTL DEF EnergySpec

\* The hours with a bucket are finitely many, and the one before is one.
LEMMA Buckets ==
    ASSUME EnergyType, NEW lo \in Int, NEW hi \in Int
    PROVE  /\ HB(lo, hi) \in SUBSET (1 .. Len(hours)) /\ HB(lo, hi) \in SUBSET (lo .. hi - 1)
           /\ IsFiniteSet(HB(lo, hi))
           /\ HB(lo, hi) # {} => /\ Max(HB(lo, hi)) \in HB(lo, hi)
                                 /\ \A h \in HB(lo, hi) : h <= Max(HB(lo, hi))
                                 /\ Min(HB(lo, hi)) \in HB(lo, hi)
                                 /\ \A h \in HB(lo, hi) : Min(HB(lo, hi)) <= h
<1> DEFINE B == HB(lo, hi)
<1>1. B \in SUBSET (1 .. Len(hours)) /\ B \in SUBSET (lo .. hi - 1)
    BY DEF HB
<1>2. Len(hours) \in Nat
    BY DEF EnergyType
<1>3. B \in SUBSET Int /\ B \in SUBSET Nat /\ \A h \in B : h <= Len(hours)
    BY <1>1, <1>2
<1>4. IsFiniteSet(1 .. Len(hours))
    BY <1>2, FS_Interval
<1> HIDE DEF B
<1>5. IsFiniteSet(B)
    BY <1>1, <1>4, FS_Subset
<1>6. B # {} => Max(B) \in B /\ \A h \in B : h <= Max(B)
    <2> DEFINE n == Len(hours)
    <2>1. n \in Int /\ \A h \in B : h <= n
        BY <1>2, <1>3
    <2> HIDE DEF n
    <2>2. QED
        BY <1>3, <2>1, GreatestInteger
<1>7. B # {} => Min(B) \in B /\ \A h \in B : Min(B) <= h
    BY <1>3, LeastNatural
<1>8. QED
    BY <1>1, <1>5, <1>6, <1>7 DEF B

\* rolloverDeltaSQL: a delta is no less than zero, or NULL.
LEMMA DeltaType ==
    ASSUME EnergyType, NEW lo \in Int, NEW hi \in Int, NEW h \in HB(lo, hi)
    PROVE  Delta(lo, h) \in Nat \cup {Absent}
<1>1. h \in 1 .. Len(hours) /\ h \in Int /\ Len(hours) \in Nat
    BY Buckets DEF EnergyType
<1> DEFINE p == Lag(lo, h)
<1>2. p # Absent => p \in 1 .. Len(hours)
    BY <1>1, Buckets DEF Lag
<1>3. \A i \in 1 .. Len(hours) : hours[i].cmax \in Int
    <2>1. \A i \in 1 .. Len(hours) : hours[i] \in HourType
        BY DEF EnergyType
    <2>2. QED
        BY <2>1 DEF HourType
<1>4. \A raw \in Int : RolloverDelta(raw) \in Nat \cup {Absent}
    BY ModulusPositive DEF RolloverDelta
<1>5. Delta(lo, h) = IF p = Absent THEN Absent ELSE RolloverDelta(hours[h].cmax - hours[p].cmax)
    BY DEF Delta
<1> HIDE DEF p
<1>6. p # Absent => hours[h].cmax - hours[p].cmax \in Int
    BY <1>1, <1>2, <1>3
<1>7. QED
    BY <1>4, <1>5, <1>6

\* The deltas that count are naturals.
LEMMA CleanDelta ==
    ASSUME EnergyType, NEW lo \in Int, NEW hi \in Int
    PROVE  /\ GlitchClean(lo, hi) \in SUBSET HB(lo, hi)
           /\ \A h \in GlitchClean(lo, hi) : Delta(lo, h) \in Nat
<1>1. GlitchClean(lo, hi) \in SUBSET HB(lo, hi)
    BY DEF GlitchClean
<1>2. \A h \in GlitchClean(lo, hi) : Delta(lo, h) # Absent
    BY DEF GlitchClean
<1>3. QED
    BY <1>1, <1>2, DeltaType

\* The slot of width n that holds a, counted from 0, and that it is the only one.
LEMMA SlotOf ==
    ASSUME NEW n \in Nat \ {0}, NEW a \in Nat
    PROVE  /\ a \div n \in Nat /\ (a \div n) * n <= a /\ a < (a \div n) * n + n
           /\ \A i \in Nat : i * n <= a /\ a < i * n + n => i = a \div n
<1> DEFINE q == a \div n
<1>1. q \in Nat /\ q * n <= a /\ a < q * n + n
    OBVIOUS
<1> HIDE DEF q
<1>2. ASSUME NEW i \in Nat, i * n <= a, a < i * n + n PROVE i = q
    <2>1. CASE i < q
        <3>1. (i + 1) * n <= q * n
            BY <1>1, <2>1
        <3>2. (i + 1) * n = i * n + n
            OBVIOUS
        <3>3. QED
            BY <1>1, <1>2, <3>1, <3>2
    <2>2. CASE q < i
        <3>1. (q + 1) * n <= i * n
            BY <1>1, <2>2
        <3>2. (q + 1) * n = q * n + n
            BY <1>1
        <3>3. QED
            BY <1>1, <1>2, <3>1, <3>2
    <2>3. QED
        BY <1>1, <2>1, <2>2
<1>3. QED
    BY <1>1, <1>2 DEF q

\* The hours of a slot.
Step(view) == IF view = "day" THEN 1 ELSE DayLen

\* A period is a whole number of slots.
LEMMA PeriodShape ==
    ASSUME NEW view \in Views
    PROVE  /\ Step(view) \in Nat \ {0} /\ Length(view) \in Nat \ {0}
           /\ Length(view) \div Step(view) \in Nat
           /\ (Length(view) \div Step(view)) * Step(view) = Length(view)
<1>1. CASE view = "day"
    BY <1>1, EnergyAssumption DEF Step, Length
<1>2. CASE view = "week"
    <2>1. Step(view) = DayLen /\ Length(view) = DayLen * WeekLen
        BY <1>2 DEF Step, Length
    <2>2. DayLen \in Nat \ {0} /\ WeekLen \in Nat \ {0}
        BY EnergyAssumption
    <2>3. DayLen * WeekLen \in Nat \ {0} /\ WeekLen * DayLen = DayLen * WeekLen
        BY <2>2
    <2>4. WeekLen = (DayLen * WeekLen) \div DayLen
        <3> DEFINE a == DayLen * WeekLen
        <3>1. WeekLen * DayLen <= a /\ a < WeekLen * DayLen + DayLen /\ a \in Nat
            BY <2>2, <2>3
        <3> HIDE DEF a
        <3>2. WeekLen = a \div DayLen
            BY <2>2, <3>1, SlotOf
        <3>3. QED
            BY <3>2 DEF a
    <2>5. QED
        BY <2>1, <2>2, <2>3, <2>4
<1>3. QED
    BY <1>1, <1>2 DEF Views

\* The slots of a page share the page's hours out among them: its total is the
\* sum over its period at once.
LEMMA TotalIsSum ==
    ASSUME EnergyType, NEW view \in Views, NEW start \in Int
    PROVE  Total(view, start) = SumFrom(start, start - Lookback, periodNext(view, start))
<1> DEFINE lo == start - Lookback
           hi == periodNext(view, start)
           kept == GlitchClean(lo, hi)
           hs == {h \in kept : h >= start}
           In(s) == {h \in kept : s <= h /\ h < s + Step(view)}
           D(h) == Delta(lo, h)
           f == [h \in hs |-> D(h)]
           n == Step(view)
           Value(s) == SlotValue(view, start, s)
           ss == {s \in Slots(view, start) : Value(s) # Absent}
           k == [h \in hs |-> start + ((h - start) \div n) * n]
           g == [s \in ss |-> Value(s)]
<1>1. lo \in Int /\ hi \in Int /\ hi = start + Length(view)
    BY EnergyAssumption, PeriodShape DEF periodNext
<1>2. /\ kept \in SUBSET HB(lo, hi) /\ IsFiniteSet(HB(lo, hi))
      /\ HB(lo, hi) \in SUBSET (lo .. hi - 1)
      /\ \A h \in kept : D(h) \in Nat
    BY <1>1, CleanDelta, Buckets
<1>3. n \in Nat \ {0} /\ Length(view) \in Nat \ {0}
    BY PeriodShape
<1>4. \A s : Value(s) = IF In(s) = {} THEN Absent ELSE SumFunction([h \in In(s) |-> D(h)])
    BY Zenon DEF SlotValue, Step
<1>5. SumFrom(start, lo, hi) = IF hs = {} THEN Absent ELSE SumFunction(f)
    BY Zenon DEF SumFrom
<1>6. Total(view, start) = IF ss = {} THEN Absent ELSE SumFunction(g)
    BY Zenon DEF Total
<1>7. Slots(view, start) = {start + i * n : i \in 0 .. (Length(view) \div n) - 1}
    BY Zenon DEF Slots, Step
<1> HIDE DEF lo, hi, kept, D, Value, n
<1>8. IsFiniteSet(kept) /\ kept \in SUBSET Int /\ \A h \in kept : h < hi
    <2>1. IsFiniteSet(kept)
        BY <1>2, FS_Subset
    <2>2. QED
        BY <1>1, <1>2, <2>1
<1>9. IsFiniteSet(hs) /\ \A s : IsFiniteSet(In(s))
    BY <1>8, FS_Subset
<1>10. ASSUME NEW s, In(s) # {} PROVE Value(s) = SumFunctionOnSet([h \in In(s) |-> D(h)], In(s)) /\ Value(s) # Absent
    <2> DEFINE d == [h \in In(s) |-> D(h)]
    <2>1. Value(s) = SumFunctionOnSet(d, In(s))
        BY <1>4, <1>10 DEF SumFunction
    <2>2. \A h \in In(s) : d[h] \in Nat
        BY <1>2
    <2> HIDE DEF d
    <2>3. IsFiniteSet(In(s))
        BY <1>9
    <2> HIDE DEF In
    <2>4. SumFunctionOnSet(d, In(s)) \in Nat
        BY <2>2, <2>3, SumNat
    <2>5. SumFunctionOnSet(d, In(s)) # Absent
        BY <2>4 DEF Absent
    <2>6. QED
        BY <2>1, <2>5, Zenon DEF d
<1>11. ASSUME NEW s \in Slots(view, start) PROVE s \in ss <=> In(s) # {}
    BY <1>4, <1>10, <1>11
<1>12. \A s \in Slots(view, start) : s \in Int /\ s >= start
    BY <1>3, <1>7
<1>13. ASSUME NEW h \in hs
       PROVE  /\ k[h] \in Slots(view, start) /\ h \in In(k[h])
              /\ \A s \in Slots(view, start) : h \in In(s) => s = k[h]
    <2> DEFINE a == h - start
               q == a \div n
    <2>1. a \in Nat /\ a < Length(view) /\ h \in Int
        BY <1>1, <1>8, <1>3
    <2>2. /\ q \in Nat /\ q * n <= a /\ a < q * n + n
          /\ \A i \in Nat : i * n <= a /\ a < i * n + n => i = q
        BY <1>3, <2>1, SlotOf
    <2> DEFINE m == Length(view) \div n
    <2>3. m \in Nat /\ m * n = Length(view)
        BY PeriodShape DEF n
    <2>4. q < m
        <3> SUFFICES ASSUME m <= q PROVE FALSE
            BY <2>2, <2>3
        <3> HIDE DEF q, m, a
        <3>1. m * n <= q * n
            BY <1>3, <2>2, <2>3
        <3>2. QED
            BY <1>3, <2>1, <2>2, <2>3, <3>1
    <2>5. k[h] = start + q * n
        OBVIOUS
    <2> HIDE DEF q, m, k
    <2>6. k[h] \in Slots(view, start)
        BY <1>7, <2>2, <2>3, <2>4, <2>5 DEF m
    <2>7. h \in In(k[h])
        BY <1>3, <1>12, <2>1, <2>2, <2>5 DEF n
    <2>8. ASSUME NEW s \in Slots(view, start), h \in In(s) PROVE s = k[h]
        <3>1. PICK i \in 0 .. m - 1 : s = start + i * n
            BY <1>7, Zenon DEF m
        <3>2. i \in Nat /\ i * n \in Int
            BY <1>3, <2>3, <3>1
        <3>3. s <= h /\ h < s + n
            BY <2>8 DEF n
        <3>4. i * n <= a /\ a < i * n + n
            BY <1>3, <2>1, <3>1, <3>2, <3>3
        <3>5. i = q
            BY <2>2, <3>2, <3>4
        <3>6. QED
            BY <2>5, <3>1, <3>5
    <2>9. QED
        BY <2>6, <2>7, <2>8
<1> HIDE DEF k
<1>14. \A h \in hs : k[h] \in ss
    BY <1>11, <1>13
<1>15. ASSUME NEW s \in ss PROVE Fiber(k, hs, s) = In(s)
    <2>1. s \in Slots(view, start) /\ s \in Int /\ s >= start
        BY <1>12
    <2>2. ASSUME NEW h \in In(s) PROVE h \in hs
        <3>1. h \in kept /\ h \in Int /\ s <= h
            BY <1>8
        <3>2. h >= start
            BY <2>1, <3>1
        <3>3. QED
            BY <3>1, <3>2
    <2> HIDE DEF hs, In, ss
    <2>3. QED
        BY <1>13, <2>1, <2>2 DEF Fiber
<1>16. ASSUME NEW s \in ss PROVE g[s] = SumFunctionOnSet(f, Fiber(k, hs, s))
    <2> DEFINE d == [h \in In(s) |-> D(h)]
    <2>1. In(s) # {} /\ s \in Slots(view, start)
        BY <1>11
    <2>2. g[s] = SumFunctionOnSet(d, In(s))
        BY <1>10, <2>1
    <2>3. \A h \in In(s) : h \in hs
        BY <1>15 DEF Fiber
    <2>4. \A h \in In(s) : d[h] = f[h]
        BY <2>3
    <2>5. IsFiniteSet(In(s))
        BY <1>9
    <2> HIDE DEF d, f, In
    <2>6. SumFunctionOnSet(d, In(s)) = SumFunctionOnSet(f, In(s))
        BY <2>4, <2>5, SumSame
    <2>7. QED
        BY <1>15, <2>2, <2>6, Zenon
<1>17. IsFiniteSet(ss)
    <2>1. ASSUME NEW s \in ss PROVE s \in start .. hi
        <3>1. s \in Int /\ s >= start /\ In(s) # {}
            BY <1>11, <1>12
        <3>2. PICK h \in In(s) : TRUE
            BY <3>1
        <3>3. h \in kept /\ s <= h
            BY <3>2
        <3>4. h \in Int /\ h < hi
            BY <1>8, <3>3
        <3>5. QED
            BY <1>1, <3>1, <3>3, <3>4
    <2>2. IsFiniteSet(start .. hi)
        BY <1>1, FS_Interval
    <2> HIDE DEF ss
    <2>3. ss \in SUBSET (start .. hi)
        BY <2>1
    <2>4. QED
        BY <2>2, <2>3, FS_Subset
<1>18. \A h \in hs : f[h] \in Int
    BY <1>2
<1>19. DOMAIN f = hs /\ DOMAIN g = ss
    OBVIOUS
<1>20. SumFunctionOnSet(f, hs) = SumFunctionOnSet(g, ss)
    <2>1. \A s \in ss : g[s] = SumFunctionOnSet(f, Fiber(k, hs, s))
        BY <1>16
    <2>2. IsFiniteSet(hs)
        BY <1>9
    <2> HIDE DEF f, g, hs, ss
    <2>3. QED
        BY <1>14, <1>17, <1>18, <2>1, <2>2, SumPartition
<1>21. hs = {} <=> ss = {}
    <2>1. hs = {} => ss = {}
        BY <1>11, <1>15 DEF Fiber
    <2>2. hs # {} => ss # {}
        BY <1>14
    <2>3. QED
        BY <2>1, <2>2
<1>22. SumFrom(start, lo, hi) = Total(view, start)
    <2> HIDE DEF hs, ss, f, g
    <2>1. SumFunction(f) = SumFunctionOnSet(f, hs) /\ SumFunction(g) = SumFunctionOnSet(g, ss)
        BY <1>19, Zenon DEF SumFunction
    <2>2. SumFunction(f) = SumFunction(g)
        BY <1>20, <2>1, Zenon
    <2>3. CASE hs = {}
        BY <1>5, <1>6, <1>21, <2>3, Zenon
    <2>4. CASE hs # {}
        BY <1>5, <1>6, <1>21, <2>2, <2>4, Zenon
    <2>5. QED
        BY <2>3, <2>4
<1>23. QED
    BY <1>22 DEF lo, hi

\* The first hour of the period an hour falls in.
LEMMA PageStart ==
    ASSUME NEW view \in Views, NEW h \in Nat \ {0}
    PROVE  periodStartAt(view, h) \in Nat \ {0}
<1> DEFINE r == (h - 1) % Length(view)
<1>1. Length(view) \in Nat \ {0}
    BY PeriodShape
<1>2. r \in Nat /\ r <= h - 1
    BY <1>1
<1>3. QED
    BY <1>2 DEF periodStartAt

\* Paging is consistent for every meter, calendar, lookback and history of
\* packets: the "vs previous" tile is the total of the previous page, which is
\* computed from the same window (Consumption's start.Add(-consumptionLookback)
\* for both), no packet lies before a page without a cursor back, and the cursor
\* forward is there when a later period has begun.
THEOREM EnergyPagesTile == EnergySpec => []PagesTile
<1>1. EnergyType => PagesTile
    <2> SUFFICES ASSUME EnergyType, NEW view \in Views, NEW start \in Pages(view)
                 PROVE  /\ PrevTotal(view, start) = Total(view, periodPrev(view, start))
                        /\ (\E h \in HB(1, start) : TRUE) => PrevAnchor(view, start)
                        /\ NextAnchor(view, start)
                             <=> \E h \in 1 .. Len(hours) : h >= periodNext(view, start)
        BY DEF PagesTile
    <2>1. start \in Nat \ {0} /\ Len(hours) \in Nat /\ Length(view) \in Nat \ {0}
        BY PageStart, PeriodShape DEF Pages, EnergyType
    <2>2. PrevTotal(view, start) = Total(view, periodPrev(view, start))
        <3> DEFINE prev == periodPrev(view, start)
        <3>1. prev \in Int /\ periodNext(view, prev) = start
            BY <2>1 DEF periodPrev, periodNext
        <3>2. PrevTotal(view, start) = SumFrom(prev, prev - Lookback, start)
            BY DEF PrevTotal
        <3> HIDE DEF prev
        <3>3. Total(view, prev) = SumFrom(prev, prev - Lookback, periodNext(view, prev))
            BY <3>1, TotalIsSum
        <3>4. QED
            BY <3>1, <3>2, <3>3, Zenon DEF prev
    <2>3. ASSUME NEW h \in HB(1, start) PROVE PrevAnchor(view, start)
        <3> DEFINE seen == HB(1, Len(hours) + 1)
        <3>1. h \in 1 .. Len(hours) /\ h < start /\ h \in Nat
            BY <2>1 DEF HB
        <3>2. h \in seen
            BY <2>1, <2>3, <3>1 DEF HB
        <3>3. Min(seen) \in Int /\ Min(seen) <= h
            BY <2>1, <3>2, Buckets
        <3> HIDE DEF seen
        <3>4. start > Min(seen)
            BY <2>1, <3>1, <3>3
        <3>5. QED
            BY <3>4 DEF PrevAnchor, seen
    <2>4. NextAnchor(view, start) <=> \E h \in 1 .. Len(hours) : h >= periodNext(view, start)
        BY <2>1 DEF NextAnchor, periodNext
    <2>5. QED
        BY <2>2, <2>3, <2>4
<1>2. QED
    BY <1>1, EnergyTypeInv, PTL

-----------------------------------------------------------------------------
(* Energy: what the pages and the overlay show is what was used.           *)

\* A counter in the modulus: what can be read off two of its values of what
\* was used between them.
LEMMA Wraps ==
    ASSUME NEW M \in Nat \ {0}, NEW x \in 0 .. M - 1, NEW R \in Nat
    PROVE  LET y == (x + R) % M IN
           /\ y \in 0 .. M - 1
           /\ y >= x => y - x <= R
           /\ y < x => y - x + M <= R
           /\ R < M => (y >= x /\ y - x = R) \/ (y < x /\ y - x + M = R)
<1> DEFINE a == x + R
           q == a \div M
           y == a % M
<1>1. a \in Nat /\ x <= a
    OBVIOUS
<1> HIDE DEF a
<1>2. y \in 0 .. M - 1 /\ q \in Nat /\ y = a - q * M
    BY <1>1
<1> HIDE DEF y, q
<1>3. q * M \in Nat /\ (q = 0 => q * M = 0) /\ (q >= 1 => q * M >= M)
      /\ (q = 1 => q * M = M) /\ (q >= 2 => q * M >= 2 * M)
    <2>1. q >= 1 => q * M >= 1 * M
        BY <1>2
    <2>2. q >= 2 => q * M >= 2 * M
        BY <1>2
    <2>3. QED
        BY <1>2, <2>1, <2>2
<1> DEFINE b == q * M
<1> HIDE DEF b
<1>4. y = a - b /\ b \in Nat /\ (q = 0 => b = 0) /\ (q >= 1 => b >= M)
      /\ (q = 1 => b = M) /\ (q >= 2 => b >= 2 * M)
    BY <1>2, <1>3 DEF b
<1>5. q = 0 \/ q = 1 \/ q >= 2
    BY <1>2
<1>6. y >= x => y - x <= R
    BY <1>1, <1>2, <1>4 DEF a
<1>7. y < x => y - x + M <= R
    BY <1>1, <1>2, <1>4, <1>5 DEF a
<1>8. R < M => (y >= x /\ y - x = R) \/ (y < x /\ y - x + M = R)
    BY <1>1, <1>2, <1>4, <1>5 DEF a
<1>9. QED
    BY <1>2, <1>6, <1>7, <1>8 DEF y, a

\* What is left of a number after whole turns.
LEMMA Residue ==
    ASSUME NEW M \in Nat \ {0}, NEW k \in Nat, NEW t \in 0 .. M - 1 PROVE (k * M + t) % M = t
<1> DEFINE w == k * M + t
<1>1. w \in Nat /\ w = k * M + t
    OBVIOUS
<1> HIDE DEF w
<1>2. w % M = t
    BY <1>1
<1>3. QED
    BY <1>2 DEF w

\* Whole turns of the counter do not show.
LEMMA Turns ==
    ASSUME NEW M \in Nat \ {0}, NEW a \in Nat, NEW r \in Nat
    PROVE  (a + r) % M = ((a % M) + r) % M
<1> DEFINE q == a \div M
           x == a % M
           s == x + r
           p == s \div M
           t == s % M
<1>1. x \in Nat /\ q \in Nat /\ x = a - q * M
    OBVIOUS
<1> HIDE DEF q, x
<1>2. s \in Nat
    BY <1>1
<1> HIDE DEF s
<1>3. p \in Nat /\ t \in 0 .. M - 1 /\ t = s - p * M
    BY <1>2
<1> HIDE DEF p, t
<1>4. a + r = (q + p) * M + t
    <2>1. (q + p) * M = q * M + p * M
        BY <1>1, <1>3
    <2>2. q * M \in Int /\ p * M \in Int
        BY <1>1, <1>3
    <2>3. QED
        BY <1>1, <1>2, <1>3, <2>1, <2>2 DEF s
<1> DEFINE k == q + p
<1>5. k \in Nat
    BY <1>1, <1>3
<1> HIDE DEF k
<1>6. (k * M + t) % M = t
    <2>1. t \in 0 .. M - 1
        BY <1>3
    <2>2. QED
        BY <1>5, <2>1, Residue
<1>7. QED
    BY <1>4, <1>6 DEF k, t, x, s

\* The hours' uses, what was used between two hours and the meter's counter,
\* of any sequence of hours.
UseIn(s) == [h \in 1 .. Len(s) |-> s[h].use]
UsedIn(s, a, b) == SumFunctionOnSet(UseIn(s), a + 1 .. b)
TruthIn(s, c, h) == (c + UsedIn(s, 0, h)) % Modulus

\* What was used is a natural number, and adds up.
LEMMA UsedAdds ==
    ASSUME NEW s \in Seq(HourType), NEW a \in Nat, NEW b \in a .. Len(s), NEW d \in b .. Len(s)
    PROVE  /\ UsedIn(s, a, b) \in Nat /\ UsedIn(s, b, d) \in Nat /\ UsedIn(s, a, d) \in Nat
           /\ UsedIn(s, a, d) = UsedIn(s, a, b) + UsedIn(s, b, d)
<1> DEFINE u == UseIn(s)
           n == Len(s)
<1>1. n \in Nat /\ \A h \in 1 .. n : u[h] \in Nat
    <2>1. n \in Nat /\ \A h \in 1 .. n : s[h] \in HourType
        OBVIOUS
    <2>2. QED
        BY <2>1 DEF UseIn, HourType
<1> HIDE DEF u, n
<1>2. a \in Int /\ b \in Int /\ d \in Int /\ a <= b /\ b <= d /\ d <= n /\ 0 <= a
    BY <1>1 DEF n
<1> DEFINE S == a + 1 .. b
           T == b + 1 .. d
<1>3. IsFiniteSet(S) /\ IsFiniteSet(T)
    BY <1>2, FS_Interval
<1>4. S \cap T = {} /\ S \cup T = a + 1 .. d
    BY <1>2
<1>5. \A h \in S \cup T : u[h] \in Nat
    BY <1>1, <1>2
<1> HIDE DEF S, T
<1>6. /\ SumFunctionOnSet(u, S \cup T) = SumFunctionOnSet(u, S) + SumFunctionOnSet(u, T)
    <2>1. \A h \in S \cup T : u[h] \in Int
        BY <1>5
    <2>2. QED
        BY <1>3, <1>4, <2>1, SumUnion
<1>7. SumFunctionOnSet(u, S) \in Nat /\ SumFunctionOnSet(u, T) \in Nat
    <2>1. (\A h \in S : u[h] \in Nat) /\ (\A h \in T : u[h] \in Nat)
        BY <1>5
    <2>2. QED
        BY <1>3, <2>1, SumNat
<1>8. /\ UsedIn(s, a, b) = SumFunctionOnSet(u, S) /\ UsedIn(s, b, d) = SumFunctionOnSet(u, T)
      /\ UsedIn(s, a, d) = SumFunctionOnSet(u, S \cup T)
    BY <1>4, Zenon DEF UsedIn, u, S, T
<1>9. QED
    BY <1>6, <1>7, <1>8

\* One hour more.
LEMMA UsedAppend ==
    ASSUME NEW s \in Seq(HourType), NEW e \in HourType, NEW a \in Nat
    PROVE  /\ \A b \in a .. Len(s) : UsedIn(Append(s, e), a, b) = UsedIn(s, a, b)
           /\ UsedIn(Append(s, e), Len(s), Len(s) + 1) = e.use
<1> DEFINE t == Append(s, e)
           n == Len(s)
<1>1. /\ n \in Nat /\ t \in Seq(HourType) /\ Len(t) = n + 1
      /\ t[n + 1] = e /\ \A h \in 1 .. n : t[h] = s[h]
    OBVIOUS
<1> HIDE DEF t
<1>2. ASSUME NEW b \in a .. n PROVE UsedIn(t, a, b) = UsedIn(s, a, b)
    <2> DEFINE S == a + 1 .. b
    <2>1. IsFiniteSet(S)
        BY <1>1, FS_Interval
    <2>2. \A h \in S : UseIn(t)[h] = UseIn(s)[h]
        BY <1>1 DEF UseIn
    <2> HIDE DEF S
    <2>3. SumFunctionOnSet(UseIn(t), S) = SumFunctionOnSet(UseIn(s), S)
        BY <2>1, <2>2, SumSame
    <2>4. QED
        BY <2>3 DEF UsedIn, S
<1>3. UsedIn(t, n, n + 1) = e.use
    <2>1. n + 1 .. n + 1 = {n + 1}
        BY <1>1
    <2>2. UseIn(t)[n + 1] = e.use /\ e.use \in Int
        BY <1>1 DEF UseIn, HourType
    <2> DEFINE x == n + 1
    <2>3. SumFunctionOnSet(UseIn(t), {x}) = e.use
        <3>1. UseIn(t)[x] = e.use /\ UseIn(t)[x] \in Int
            BY <2>2
        <3> HIDE DEF x
        <3>2. QED
            BY <3>1, SumOne
    <2>4. QED
        BY <2>1, <2>3, Zenon DEF UsedIn
<1>4. QED
    BY <1>2, <1>3 DEF t

\* What an hour's packet says of the meter that started at c: nothing, its
\* counter, or its counter with one bit flipped.
HeardIn(s, c, h) ==
    \/ ~s[h].flip /\ s[h].cmax = Absent
    \/ ~s[h].flip /\ s[h].cmax = TruthIn(s, c, h)
    \/ s[h].flip /\ \E b \in Bits : s[h].cmax = Flip(TruthIn(s, c, h), b)

\* The world's invariant: the meter counts what is used, and all packets but
\* one say so.
TruthInv ==
    /\ count = Absent => hours = <<>>
    /\ count # Absent => \E c \in 0 .. Modulus - 1 :
          /\ count = TruthIn(hours, c, Len(hours))
          /\ \A h \in 1 .. Len(hours) : HeardIn(hours, c, h)
    /\ \A g, h \in Flipped : g = h

\* An hour passes.
LEMMA TruthHour ==
    ASSUME EnergyType, TruthInv, NEW u \in Uses, Hour(u) PROVE TruthInv'
<1> DEFINE n == Len(hours)
<1>1. u \in Nat /\ Modulus \in Nat \ {0} /\ n \in Nat
    BY EnergyAssumption, ModulusPositive DEF EnergyType
<1>2. count # Absent /\ count' = (count + u) % Modulus
    BY DEF Hour
<1>3. PICK c \in 0 .. Modulus - 1 :
          /\ count = TruthIn(hours, c, n)
          /\ \A h \in 1 .. n : HeardIn(hours, c, h)
    BY <1>2 DEF TruthInv
<1> DEFINE x == (count + u) % Modulus
<1>4. x \in 0 .. Modulus - 1 /\ count \in Int
    <2>1. count \in Int
        BY DEF EnergyType
    <2>2. QED
        BY <1>1, <2>1
<1>5. \A b \in Bits : Flip(x, b) \in Int
    <2>1. \A b \in Bits : b \in Int
        BY EnergyAssumption DEF Bits
    <2> HIDE DEF x
    <2>2. QED
        BY <1>4, <2>1 DEF Flip
<1>6. PICK m \in Int, f \in BOOLEAN :
          /\ hours' = Append(hours, [use |-> u, cmax |-> m, flip |-> f])
          /\ \/ ~f /\ m = Absent
             \/ ~f /\ m = x
             \/ f /\ Flipped = {} /\ \E b \in Bits : m = Flip(x, b)
    <2> DEFINE Log(a, b) == hours' = Append(hours, [use |-> u, cmax |-> a, flip |-> b])
    <2>1. \/ Log(Absent, FALSE)
          \/ Log(x, FALSE)
          \/ Flipped = {} /\ \E b \in Bits : Log(Flip(x, b), TRUE)
        BY Zenon DEF Hour
    <2>2. x \in Int /\ Absent \in Int
        BY <1>4 DEF Absent
    <2> HIDE DEF x, Log
    <2>3. \E m \in Int, f \in BOOLEAN :
              /\ Log(m, f)
              /\ \/ ~f /\ m = Absent
                 \/ ~f /\ m = x
                 \/ f /\ Flipped = {} /\ \E b \in Bits : m = Flip(x, b)
        BY <1>5, <2>1, <2>2
    <2>4. QED
        BY <2>3 DEF Log
<1> HIDE DEF x
<1> DEFINE e == [use |-> u, cmax |-> m, flip |-> f]
           t == Append(hours, e)
<1>7. e \in HourType /\ e.use = u /\ e.cmax = m /\ e.flip = f
    BY <1>1, <1>6 DEF HourType
<1> HIDE DEF e
<1>8. /\ hours \in Seq(HourType) /\ hours' = t /\ t \in Seq(HourType) /\ Len(t) = n + 1
      /\ t[n + 1] = e /\ \A h \in 1 .. n : t[h] = hours[h]
    BY <1>6, <1>7 DEF EnergyType, e
<1>9. \A h \in 0 .. n : TruthIn(t, c, h) = TruthIn(hours, c, h)
    <2>1. \A h \in 0 .. n : UsedIn(t, 0, h) = UsedIn(hours, 0, h)
        BY <1>7, <1>8, UsedAppend
    <2>2. QED
        BY <2>1, Zenon DEF TruthIn
<1>10. TruthIn(t, c, n + 1) = x
    <2> DEFINE A == UsedIn(hours, 0, n)
    <2>1. UsedIn(t, 0, n) = A /\ UsedIn(t, n, n + 1) = u
        BY <1>1, <1>7, <1>8, UsedAppend
    <2>2. /\ UsedIn(t, 0, n) \in Nat
          /\ UsedIn(t, 0, n + 1) = UsedIn(t, 0, n) + UsedIn(t, n, n + 1)
        <3>1. n \in 0 .. Len(t) /\ n + 1 \in n .. Len(t) /\ 0 \in Nat
            BY <1>1, <1>8
        <3>2. QED
            BY <1>8, <3>1, UsedAdds
    <2> HIDE DEF A
    <2>3. TruthIn(t, c, n + 1) = (c + (A + u)) % Modulus
        BY <2>1, <2>2 DEF TruthIn
    <2>4. c + A \in Nat /\ c + (A + u) = (c + A) + u
        BY <1>1, <2>1, <2>2
    <2>5. ((c + A) + u) % Modulus = (((c + A) % Modulus) + u) % Modulus
        BY <1>1, <2>4, Turns
    <2>6. count = (c + A) % Modulus
        BY <1>3 DEF TruthIn, A
    <2>7. QED
        BY <2>3, <2>4, <2>5, <2>6, Zenon DEF x
<1>11. \A h \in 1 .. n + 1 : HeardIn(t, c, h)
    <2>1. ASSUME NEW h \in 1 .. n PROVE HeardIn(t, c, h)
        <3>1. TruthIn(t, c, h) = TruthIn(hours, c, h) /\ t[h] = hours[h] /\ HeardIn(hours, c, h)
            BY <1>1, <1>3, <1>8, <1>9
        <3>2. QED
            BY <3>1, Zenon DEF HeardIn
    <2>2. HeardIn(t, c, n + 1)
        <3>1. t[n + 1] = e
            BY <1>8
        <3>2. QED
            BY <1>6, <1>7, <1>10, <3>1, Zenon DEF HeardIn
    <2>3. QED
        BY <1>1, <2>1, <2>2
<1>12. count' = x /\ count' # Absent
    BY <1>2, <1>4 DEF x, Absent
<1>13. \E d \in 0 .. Modulus - 1 :
          /\ count' = TruthIn(hours', d, Len(hours'))
          /\ \A h \in 1 .. Len(hours') : HeardIn(hours', d, h)
    <2>1. /\ count' = TruthIn(t, c, Len(t))
          /\ \A h \in 1 .. Len(t) : HeardIn(t, c, h)
        BY <1>8, <1>10, <1>11, <1>12
    <2>2. QED
        BY <1>8, <2>1, Zenon
<1>14. \A g, h \in Flipped' : g = h
    <2>1. Flipped' = {h \in 1 .. n + 1 : t[h].flip} /\ Flipped = {h \in 1 .. n : hours[h].flip}
        BY <1>8 DEF Flipped
    <2>2. CASE f
        <3>1. Flipped = {}
            BY <1>6, <2>2
        <3>2. Flipped' \subseteq {n + 1}
            BY <1>1, <1>8, <2>1, <3>1
        <3>3. QED
            BY <3>2
    <2>3. CASE ~f
        <3>1. Flipped' \subseteq Flipped
            BY <1>1, <1>7, <1>8, <2>1, <2>3
        <3>2. QED
            BY <3>1 DEF TruthInv
    <2>4. QED
        BY <2>2, <2>3
<1>15. QED
    BY <1>12, <1>13, <1>14 DEF TruthInv

\* The counter and the packets follow what is used, for any meter, any uses
\* and any hours heard.
LEMMA EnergyTruth == EnergySpec => [](EnergyType /\ TruthInv)
<1>1. EInit => TruthInv
    BY DEF EInit, TruthInv, Flipped, Absent
<1>2. EnergyType /\ TruthInv /\ [ENext]_evars => TruthInv'
    <2> SUFFICES ASSUME EnergyType, TruthInv, [ENext]_evars PROVE TruthInv'
        OBVIOUS
    <2>1. ASSUME NEW c \in FirstCounts, Install(c) PROVE TruthInv'
        <3>1. c \in 0 .. Modulus - 1 /\ Modulus \in Nat \ {0} /\ c \in Nat /\ c < Modulus
            BY EnergyAssumption, ModulusPositive DEF Modulus
        <3>2. count' = c /\ count' # Absent /\ hours = <<>> /\ hours' = hours /\ Len(hours) = 0
            BY <2>1, <3>1 DEF Install, TruthInv, Absent
        <3>3. UsedIn(hours, 0, 0) = 0
            <4>1. 0 + 1 .. 0 = {}
                OBVIOUS
            <4>2. QED
                BY <4>1, SumEmpty, Zenon DEF UsedIn
        <3>4. TruthIn(hours, c, 0) = c
            <4>1. c + 0 = c /\ c % Modulus = c
                BY <3>1
            <4>2. QED
                BY <3>3, <4>1 DEF TruthIn
        <3>5. \E d \in 0 .. Modulus - 1 :
                  /\ count' = TruthIn(hours', d, Len(hours'))
                  /\ \A h \in 1 .. Len(hours') : HeardIn(hours', d, h)
            <4>1. /\ count' = TruthIn(hours, c, Len(hours))
                  /\ \A h \in 1 .. Len(hours) : HeardIn(hours, c, h)
                BY <3>2, <3>4
            <4>2. QED
                BY <3>1, <3>2, <4>1, Zenon
        <3>6. \A g, h \in Flipped' : g = h
            BY <3>2 DEF Flipped
        <3>7. QED
            BY <3>2, <3>5, <3>6 DEF TruthInv
    <2>2. ASSUME NEW u \in Uses, Hour(u) PROVE TruthInv'
        BY <2>2, TruthHour
    <2>3. CASE UNCHANGED evars
        <3>1. count' = count /\ hours' = hours
            BY <2>3 DEF evars
        <3>2. Flipped' = Flipped
            BY <3>1 DEF Flipped
        <3>3. QED
            BY <3>1, <3>2, Zenon DEF TruthInv
    <2>4. QED
        BY <2>1, <2>2, <2>3 DEF ENext
<1>3. QED
    BY <1>1, <1>2, EnergyTypeInv, PTL DEF EnergySpec

\* rolloverDeltaSQL on two sound packets: never more than was used between
\* them, and exactly that if it is less than half the range.
LEMMA RollSound ==
    ASSUME NEW x \in 0 .. Modulus - 1, NEW R \in Nat
    PROVE  LET y == (x + R) % Modulus IN
           /\ RolloverDelta(y - x) <= R
           /\ 2 * R < Modulus => RolloverDelta(y - x) = R
<1> DEFINE y == (x + R) % Modulus
           M == Modulus
<1>1. M \in Nat \ {0}
    BY ModulusPositive
<1>2. /\ y \in 0 .. M - 1
      /\ y >= x => y - x <= R
      /\ y < x => y - x + M <= R
      /\ R < M => (y >= x /\ y - x = R) \/ (y < x /\ y - x + M = R)
    BY <1>1, Wraps
<1>3. \A raw : RolloverDelta(raw) =
          CASE raw >= 0 -> raw
            [] raw < 0 /\ raw + M >= 0 /\ 2 * (raw + M) < M -> raw + M
            [] OTHER -> -1
    BY DEF RolloverDelta, Absent
<1> HIDE DEF y, M
<1>4. RolloverDelta(y - x) =
          CASE y - x >= 0 -> y - x
            [] y - x < 0 /\ (y - x) + M >= 0 /\ 2 * ((y - x) + M) < M -> (y - x) + M
            [] OTHER -> -1
    BY <1>3
<1>5. x \in 0 .. M - 1
    BY DEF M
<1>6. RolloverDelta(y - x) <= R
    BY <1>1, <1>2, <1>4, <1>5
<1>7. 2 * R < M => RolloverDelta(y - x) = R
    BY <1>1, <1>2, <1>4, <1>5
<1>8. QED
    BY <1>6, <1>7 DEF y, M

\* A packet with a bit flipped, between two sound ones: of the deltas to it and
\* from it at most one is more than was used.
LEMMA RollFlip ==
    ASSUME NEW x \in 0 .. Modulus - 1, NEW R \in Nat, NEW Q \in Nat,
           NEW b \in Nat, 2 * b <= Modulus, NEW F \in Nat,
           NEW y, y = (x + R) % Modulus, NEW z, z = (y + Q) % Modulus,
           F = y + b \/ F = y - b
    PROVE  RolloverDelta(F - x) <= R \/ RolloverDelta(z - F) <= Q
<1> DEFINE M == Modulus
<1>1. M \in Nat \ {0}
    BY ModulusPositive
<1>2. /\ y \in 0 .. M - 1
      /\ y >= x => y - x <= R
      /\ y < x => y - x + M <= R
    BY <1>1, Wraps
<1>3. /\ z \in 0 .. M - 1
      /\ z >= y => z - y <= Q
      /\ z < y => z - y + M <= Q
    BY <1>1, <1>2, Wraps
<1>4. \A raw : RolloverDelta(raw) =
          CASE raw >= 0 -> raw
            [] raw < 0 /\ raw + M >= 0 /\ 2 * (raw + M) < M -> raw + M
            [] OTHER -> -1
    BY DEF RolloverDelta, Absent
<1>5. x \in 0 .. M - 1 /\ 2 * b <= M
    BY DEF M
<1> HIDE DEF M
<1> DEFINE d == RolloverDelta(F - x)
           g == RolloverDelta(z - F)
<1>6. d = CASE F - x >= 0 -> F - x
            [] F - x < 0 /\ (F - x) + M >= 0 /\ 2 * ((F - x) + M) < M -> (F - x) + M
            [] OTHER -> -1
    BY <1>4
<1>7. g = CASE z - F >= 0 -> z - F
            [] z - F < 0 /\ (z - F) + M >= 0 /\ 2 * ((z - F) + M) < M -> (z - F) + M
            [] OTHER -> -1
    BY <1>4
<1> HIDE DEF d, g
<1>8. /\ d \in Int /\ g \in Int
      /\ d = F - x \/ (d = F - x + M /\ F < x /\ 2 * d < M) \/ d = -1
      /\ g = z - F \/ (g = z - F + M /\ z < F /\ 2 * g < M) \/ g = -1
    BY <1>1, <1>2, <1>3, <1>5, <1>6, <1>7
<1>9. d <= R \/ g <= Q
    BY <1>1, <1>2, <1>3, <1>5, <1>8
<1>10. QED
    BY <1>9 DEF d, g

\* A flipped bit is worth at most half the range and leaves the counter a number.
LEMMA FlipBounds ==
    ASSUME NEW x \in Nat, NEW bit \in Bits
    PROVE  /\ bit \in Nat /\ 2 * bit <= Modulus /\ Flip(x, bit) \in Nat
           /\ Flip(x, bit) = x + bit \/ Flip(x, bit) = x - bit
<1>1. PICK k \in 0 .. Width - 1 : bit = 2 ^ k
    BY DEF Bits
<1>2. Width \in Nat /\ k \in Nat
    BY EnergyAssumption
<1>3. 2 * bit <= Modulus
    BY <1>1, <1>2, Doubling DEF Modulus
<1>4. bit \in Nat \ {0}
    BY <1>1, <1>2, PowerOfTwo
<1>5. (x \div bit) % 2 # 0 => x - bit \in Nat
    <2> SUFFICES ASSUME x < bit PROVE (x \div bit) % 2 = 0
        BY <1>4
    <2>1. x \div bit = 0
        BY <1>4
    <2>2. QED
        BY <2>1
<1>6. QED
    BY <1>3, <1>4, <1>5 DEF Flip

\* The greatest of a set, when it is known.
LEMMA MaxIs ==
    ASSUME NEW S \in SUBSET Int, NEW m \in S, \A x \in S : x <= m PROVE Max(S) = m
<1>1. m \in Int /\ S # {}
    OBVIOUS
<1>2. Max(S) \in S /\ \A x \in S : x <= Max(S)
    BY <1>1, GreatestInteger
<1>3. Max(S) \in Int /\ Max(S) <= m /\ m <= Max(S)
    BY <1>2
<1>4. QED
    BY <1>1, <1>3

\* Consumed is the sum over the hours' uses.
LEMMA ConsumedIs == \A a, b : Consumed(a, b) = UsedIn(hours, a, b)
BY Zenon DEF Consumed, UsedIn, UseIn, UseOf

\* What was used between two hours, and what it makes of the counter.
LEMMA TruthStep ==
    ASSUME EnergyType, NEW c \in 0 .. Modulus - 1, NEW g \in 0 .. Len(hours), NEW h \in g .. Len(hours)
    PROVE  /\ Consumed(g, h) \in Nat
           /\ TruthIn(hours, c, g) \in 0 .. Modulus - 1
           /\ TruthIn(hours, c, h) = (TruthIn(hours, c, g) + Consumed(g, h)) % Modulus
<1> DEFINE A == UsedIn(hours, 0, g)
           R == UsedIn(hours, g, h)
<1>1. Modulus \in Nat \ {0} /\ Len(hours) \in Nat /\ hours \in Seq(HourType) /\ c \in Nat
    BY ModulusPositive DEF EnergyType
<1>2. A \in Nat /\ R \in Nat /\ UsedIn(hours, 0, h) = A + R
    <2>1. 0 \in Nat /\ g \in 0 .. Len(hours) /\ h \in g .. Len(hours)
        OBVIOUS
    <2>2. QED
        BY <1>1, <2>1, UsedAdds
<1>3. Consumed(g, h) = R
    BY ConsumedIs, Zenon
<1> HIDE DEF A, R
<1>4. c + A \in Nat /\ c + (A + R) = (c + A) + R
    BY <1>1, <1>2
<1>5. ((c + A) + R) % Modulus = (((c + A) % Modulus) + R) % Modulus
    BY <1>1, <1>2, <1>4, Turns
<1>6. TruthIn(hours, c, g) = (c + A) % Modulus /\ TruthIn(hours, c, h) = (c + (A + R)) % Modulus
    BY <1>2, Zenon DEF TruthIn, A
<1>7. (c + A) % Modulus \in 0 .. Modulus - 1
    BY <1>1, <1>4
<1>8. QED
    BY <1>2, <1>3, <1>4, <1>5, <1>6, <1>7, Zenon

\* The packet before h in the window.
LEMMA Before ==
    ASSUME EnergyType, NEW lo \in Int, NEW hi \in Int, NEW h \in HB(lo, hi)
    PROVE  /\ h \in 1 .. Len(hours) /\ hours[h].cmax # Absent
           /\ HB(lo, h) = {} => Delta(lo, h) = Absent
           /\ HB(lo, h) # {} =>
                LET p == Max(HB(lo, h)) IN
                /\ p \in HB(lo, h) /\ p \in HB(lo, hi) /\ p \in 1 .. Len(hours) /\ p < h
                /\ \A g \in HB(lo, hi) : g < h => g <= p
                /\ hours[p].cmax # Absent
                /\ Real(lo, h) = Consumed(p, h) /\ Real(lo, h) \in Nat
                /\ Delta(lo, h) = RolloverDelta(hours[h].cmax - hours[p].cmax)
<1>1. h \in 1 .. Len(hours) /\ hours[h].cmax # Absent /\ h \in lo .. hi - 1 /\ Len(hours) \in Nat
    BY DEF HB, EnergyType
<1>2. HB(lo, h) = {} => Delta(lo, h) = Absent
    BY DEF Delta, Lag
<1>3. ASSUME HB(lo, h) # {}
      PROVE  LET p == Max(HB(lo, h)) IN
             /\ p \in HB(lo, h) /\ p \in HB(lo, hi) /\ p \in 1 .. Len(hours) /\ p < h
             /\ \A g \in HB(lo, hi) : g < h => g <= p
             /\ hours[p].cmax # Absent
             /\ Real(lo, h) = Consumed(p, h) /\ Real(lo, h) \in Nat
             /\ Delta(lo, h) = RolloverDelta(hours[h].cmax - hours[p].cmax)
    <2> DEFINE p == Max(HB(lo, h))
    <2>1. p \in HB(lo, h) /\ \A g \in HB(lo, h) : g <= p
        BY <1>1, <1>3, Buckets
    <2>2. Lag(lo, h) = p /\ Real(lo, h) = Consumed(p, h)
        BY <1>3, Zenon DEF Lag, Real
    <2> HIDE DEF p
    <2>3. p \in 1 .. Len(hours) /\ p < h /\ hours[p].cmax # Absent /\ p \in HB(lo, hi)
        BY <1>1, <2>1 DEF HB
    <2>4. \A g \in HB(lo, hi) : g < h => g <= p
        <3>1. \A g \in HB(lo, hi) : g < h => g \in HB(lo, h)
            BY <1>1 DEF HB
        <3>2. QED
            BY <2>1, <3>1
    <2>5. p # Absent
        BY <1>1, <2>3 DEF Absent
    <2>6. Delta(lo, h) = RolloverDelta(hours[h].cmax - hours[p].cmax)
        BY <2>2, <2>5, Zenon DEF Delta
    <2>7. Consumed(p, h) \in Nat
        <3>1. p \in 0 .. Len(hours) /\ h \in p .. Len(hours) /\ 0 \in 0 .. Modulus - 1
            BY <1>1, <2>3, ModulusPositive
        <3>2. QED
            BY <3>1, TruthStep
    <2>8. QED
        BY <2>1, <2>2, <2>3, <2>4, <2>6, <2>7 DEF p
<1>4. QED
    BY <1>1, <1>2, <1>3

\* A step between two sound packets.
LEMMA SoundStep ==
    ASSUME EnergyType, TruthInv, NEW lo \in Int, NEW hi \in Int, NEW h \in HB(lo, hi),
           HB(lo, h) # {}, h \notin Flipped, Max(HB(lo, h)) \notin Flipped
    PROVE  /\ Delta(lo, h) <= Real(lo, h)
           /\ 2 * Real(lo, h) < Modulus => Delta(lo, h) = Real(lo, h)
<1> DEFINE p == Max(HB(lo, h))
<1>1. /\ h \in 1 .. Len(hours) /\ hours[h].cmax # Absent
      /\ p \in 1 .. Len(hours) /\ p < h /\ hours[p].cmax # Absent
      /\ Real(lo, h) = Consumed(p, h) /\ Real(lo, h) \in Nat
      /\ Delta(lo, h) = RolloverDelta(hours[h].cmax - hours[p].cmax)
    BY Before
<1>2. p \notin Flipped /\ Len(hours) \in Nat
    BY DEF EnergyType
<1> HIDE DEF p
<1>3. count # Absent
    BY <1>1 DEF TruthInv
<1>4. PICK c \in 0 .. Modulus - 1 : \A g \in 1 .. Len(hours) : HeardIn(hours, c, g)
    BY <1>3 DEF TruthInv
<1>5. hours[h].cmax = TruthIn(hours, c, h) /\ hours[p].cmax = TruthIn(hours, c, p)
    BY <1>1, <1>2, <1>4 DEF HeardIn, Flipped
<1>6. p \in 0 .. Len(hours) /\ h \in p .. Len(hours)
    BY <1>1, <1>2
<1> DEFINE x == hours[p].cmax
           R == Consumed(p, h)
<1>7. R \in Nat /\ x \in 0 .. Modulus - 1 /\ hours[h].cmax = (x + R) % Modulus
    BY <1>5, <1>6, TruthStep
<1> HIDE DEF x, R
<1>8. /\ RolloverDelta(((x + R) % Modulus) - x) <= R
      /\ 2 * R < Modulus => RolloverDelta(((x + R) % Modulus) - x) = R
    BY <1>7, RollSound
<1>9. Delta(lo, h) = RolloverDelta(((x + R) % Modulus) - x) /\ Real(lo, h) = R
    BY <1>1, <1>7 DEF x, R
<1>10. QED
    BY <1>8, <1>9, Zenon

\* With one packet corrupted at most one step of a window claims more than was
\* used; with none, none does.
LEMMA OneExceeds ==
    ASSUME EnergyType, TruthInv, NEW lo \in Int, NEW hi \in Int
    PROVE  /\ \E e \in Int : \A h \in HB(lo, hi) : h # e /\ HB(lo, h) # {} => Delta(lo, h) <= Real(lo, h)
           /\ HB(lo, hi) \cap Flipped = {} =>
                 \A h \in HB(lo, hi) : HB(lo, h) # {} => Delta(lo, h) <= Real(lo, h)
<1> DEFINE B == HB(lo, hi)
           Good(h) == HB(lo, h) # {} => Delta(lo, h) <= Real(lo, h)
<1>0. B \in SUBSET Int
    BY Buckets
<1>1. ASSUME NEW h \in B, h \notin Flipped, HB(lo, h) # {} => Max(HB(lo, h)) \notin Flipped
      PROVE  Good(h)
    BY <1>1, SoundStep
<1>2. ASSUME B \cap Flipped = {} PROVE \A h \in B : Good(h)
    <2> SUFFICES ASSUME NEW h \in B, HB(lo, h) # {} PROVE h \notin Flipped /\ Max(HB(lo, h)) \notin Flipped
        BY <1>1
    <2>1. Max(HB(lo, h)) \in B
        BY Before
    <2>2. QED
        BY <1>2, <2>1
<1>3. ASSUME NEW f \in B, f \in Flipped PROVE \E e \in Int : \A h \in B : h # e => Good(h)
    <2>1. \A h \in Flipped : h = f
        BY <1>3 DEF TruthInv
    <2> DEFINE Next(h) == HB(lo, h) # {} /\ Max(HB(lo, h)) = f
    <2>2. ASSUME NEW h \in B, h # f, ~Next(h) PROVE Good(h)
        BY <1>1, <2>1, <2>2
    <2>3. ASSUME NEW g \in B, NEW h \in B, Next(g), Next(h) PROVE g = h
        <3>1. g \in Int /\ h \in Int /\ f \in Int
            BY <1>0
        <3>2. f < g /\ f < h /\ (g < h => g <= f) /\ (h < g => h <= f)
            BY <2>3, Before
        <3>3. QED
            BY <3>1, <3>2
    <2>4. CASE \A h \in B : ~Next(h)
        BY <1>0, <2>2, <2>4
    <2>5. CASE HB(lo, f) = {}
        <3>1. Good(f)
            BY <2>5
        <3>2. \A h \in B : ~Next(h) => Good(h)
            BY <2>2, <3>1
        <3> HIDE DEF Good, Next
        <3>3. QED
            BY <1>0, <2>3, <3>2
    <2>6. ASSUME NEW n \in B, Next(n), HB(lo, f) # {} PROVE \E e \in Int : \A h \in B : h # e => Good(h)
        <3> DEFINE p == Max(HB(lo, f))
        <3>1. /\ f \in 1 .. Len(hours) /\ n \in 1 .. Len(hours) /\ p \in 1 .. Len(hours)
              /\ p < f /\ f < n /\ p # f /\ n # f
              /\ hours[n].cmax # Absent /\ hours[p].cmax # Absent
              /\ Real(lo, f) = Consumed(p, f) /\ Real(lo, n) = Consumed(f, n)
              /\ Delta(lo, f) = RolloverDelta(hours[f].cmax - hours[p].cmax)
              /\ Delta(lo, n) = RolloverDelta(hours[n].cmax - hours[f].cmax)
            <4>1. /\ f \in 1 .. Len(hours) /\ p \in 1 .. Len(hours) /\ p < f /\ hours[p].cmax # Absent
                  /\ Real(lo, f) = Consumed(p, f)
                  /\ Delta(lo, f) = RolloverDelta(hours[f].cmax - hours[p].cmax)
                BY <2>6, Before
            <4>2. /\ n \in 1 .. Len(hours) /\ f < n /\ hours[n].cmax # Absent
                  /\ Real(lo, n) = Consumed(f, n)
                  /\ Delta(lo, n) = RolloverDelta(hours[n].cmax - hours[f].cmax)
                BY <2>6, Before
            <4> HIDE DEF p
            <4>3. p # f /\ n # f
                BY <4>1, <4>2
            <4>4. QED
                BY <4>1, <4>2, <4>3
        <3> HIDE DEF p
        <3>2. count # Absent /\ Len(hours) \in Nat
            BY <3>1 DEF TruthInv, EnergyType
        <3>3. PICK c \in 0 .. Modulus - 1 : \A g \in 1 .. Len(hours) : HeardIn(hours, c, g)
            BY <3>2 DEF TruthInv
        <3> DEFINE y == TruthIn(hours, c, f)
                   x == hours[p].cmax
                   z == hours[n].cmax
                   F == hours[f].cmax
                   R == Consumed(p, f)
                   Q == Consumed(f, n)
        <3>4. p \notin Flipped /\ n \notin Flipped
            BY <2>1, <3>1
        <3>5. x = TruthIn(hours, c, p) /\ z = TruthIn(hours, c, n)
            BY <3>1, <3>3, <3>4 DEF HeardIn, Flipped
        <3>6. PICK bit \in Bits : F = Flip(y, bit)
            <4>1. hours[f].flip
                BY <1>3 DEF Flipped
            <4>2. QED
                BY <3>1, <3>3, <4>1 DEF HeardIn
        <3>7. R \in Nat /\ x \in 0 .. Modulus - 1 /\ y = (x + R) % Modulus
            <4>1. p \in 0 .. Len(hours) /\ f \in p .. Len(hours)
                BY <3>1, <3>2
            <4>2. QED
                BY <3>5, <4>1, TruthStep
        <3>8. Q \in Nat /\ y \in 0 .. Modulus - 1 /\ z = (y + Q) % Modulus
            <4>1. f \in 0 .. Len(hours) /\ n \in f .. Len(hours)
                BY <3>1, <3>2
            <4>2. QED
                BY <3>5, <4>1, TruthStep
        <3>9. y \in Nat
            BY <3>8
        <3>10. Delta(lo, f) = RolloverDelta(F - x) /\ Delta(lo, n) = RolloverDelta(z - F)
               /\ Real(lo, f) = R /\ Real(lo, n) = Q
            BY <3>1
        <3> HIDE DEF x, y, z, F, R, Q
        <3>11. /\ bit \in Nat /\ 2 * bit <= Modulus /\ F \in Nat
               /\ F = y + bit \/ F = y - bit
            BY <3>6, <3>9, FlipBounds
        <3>12. RolloverDelta(F - x) <= R \/ RolloverDelta(z - F) <= Q
            BY <3>7, <3>8, <3>11, RollFlip
        <3>13. Good(f) \/ Good(n)
            BY <3>10, <3>12
        <3>14. \A h \in B : h # f /\ h # n => Good(h)
            BY <2>2, <2>3, <2>6
        <3> HIDE DEF Good
        <3>15. QED
            BY <1>0, <1>3, <2>6, <3>13, <3>14
    <2>7. QED
        BY <2>4, <2>5, <2>6
<1>4. \E e \in Int : \A h \in B : h # e => Good(h)
    <2>1. CASE B \cap Flipped = {}
        BY <1>2, <2>1
    <2>2. CASE B \cap Flipped # {}
        BY <1>3, <2>2
    <2>3. QED
        BY <2>1, <2>2
<1>5. QED
    BY <1>2, <1>4

\* The two counts an order statistic is chosen by.
Below(lo, hi, d) == {h \in Positive(lo, hi) : Delta(lo, h) < d}
UpTo(lo, hi, d) == {h \in Positive(lo, hi) : Delta(lo, h) <= d}

\* The k-th of the positive deltas is one of them, and less than k are smaller.
LEMMA NthIs ==
    ASSUME EnergyType, NEW lo \in Int, NEW hi \in Int, NEW k \in 1 .. Cardinality(Positive(lo, hi))
    PROVE  /\ Nth(lo, hi, k) \in Nat
           /\ Cardinality(Below(lo, hi, Nth(lo, hi, k))) < k
<1> DEFINE P == Positive(lo, hi)
           D(h) == Delta(lo, h)
           E == {D(h) : h \in P}
           B(d) == Below(lo, hi, d)
           U(d) == UpTo(lo, hi, d)
           Is(d) == Cardinality(B(d)) < k /\ k <= Cardinality(U(d))
           Big == {d \in E : k <= Cardinality(U(d))}
<1>1. IsFiniteSet(P) /\ \A h \in P : D(h) \in Nat
    <2>1. P \in SUBSET HB(lo, hi) /\ \A h \in P : D(h) > 0
        BY DEF Positive
    <2>2. \A h \in P : D(h) \in Nat
        BY <2>1, DeltaType DEF Absent
    <2>3. QED
        BY <2>1, <2>2, Buckets, FS_Subset
<1>2. Nth(lo, hi, k) = CHOOSE d \in E : Is(d)
    BY Zenon DEF Nth, Below, UpTo
<1>3. \A d : B(d) = {h \in P : D(h) < d} /\ U(d) = {h \in P : D(h) <= d}
    BY DEF Below, UpTo
<1>4. k \in Nat /\ 1 <= k /\ k <= Cardinality(P) /\ Cardinality(P) \in Nat
    BY <1>1, FS_CardinalityType
<1> HIDE DEF P, D, B, U
<1>5. \A d : IsFiniteSet(B(d)) /\ IsFiniteSet(U(d)) /\ Cardinality(B(d)) \in Nat /\ Cardinality(U(d)) \in Nat
    <2>1. \A d : B(d) \in SUBSET P /\ U(d) \in SUBSET P
        BY <1>3
    <2>2. QED
        BY <1>1, <2>1, FS_Subset, FS_CardinalityType
<1>6. E \in SUBSET Nat /\ E # {}
    <2>1. P # {}
        BY <1>4, FS_EmptySet
    <2>2. QED
        BY <1>1, <2>1
<1>7. PICK b \in Nat : \A h \in P : D(h) <= b
    <2> DEFINE f == [h \in P |-> D(h)]
    <2>1. \A h \in P : f[h] \in Nat
        BY <1>1
    <2>2. SumFunctionOnSet(f, P) \in Nat
        <3> HIDE DEF f
        <3>1. QED
            BY <1>1, <2>1, SumNat
    <2>3. ASSUME NEW h \in P PROVE D(h) <= SumFunctionOnSet(f, P)
        <3>1. {h} \in SUBSET P /\ f[h] = D(h) /\ f[h] \in Int
            BY <1>1
        <3> HIDE DEF f
        <3>2. SumFunctionOnSet(f, {h}) <= SumFunctionOnSet(f, P)
            BY <1>1, <2>1, <3>1, SumSubset
        <3>3. SumFunctionOnSet(f, {h}) = f[h]
            BY <3>1, SumOne
        <3>4. QED
            BY <3>1, <3>2, <3>3
    <2>4. QED
        BY <2>2, <2>3
<1>8. Big # {} /\ Big \in SUBSET Nat
    <2>1. E \in SUBSET Int /\ b \in Int /\ \A d \in E : d <= b
        BY <1>6, <1>7
    <2> DEFINE m == Max(E)
    <2> HIDE DEF E
    <2>2. m \in E /\ \A d \in E : d <= m
        BY <1>6, <2>1, GreatestInteger
    <2> HIDE DEF m
    <2>3. \A h \in P : D(h) <= m
        BY <2>2 DEF E
    <2>4. U(m) = P
        BY <1>3, <2>3
    <2>5. m \in Big
        BY <1>4, <2>2, <2>4
    <2>6. QED
        BY <1>6, <2>5
<1> DEFINE v == Min(Big)
<1>9. v \in Big /\ \A d \in Big : v <= d
    <2> HIDE DEF Big
    <2>1. QED
        BY <1>8, LeastNatural
<1> HIDE DEF v
<1>10. v \in E /\ k <= Cardinality(U(v)) /\ v \in Nat
    BY <1>6, <1>9
<1>11. Cardinality(B(v)) < k
    <2>1. CASE B(v) = {}
        BY <1>4, <2>1, FS_EmptySet
    <2>2. CASE B(v) # {}
        <3> DEFINE L == {d \in E : d < v}
        <3>1. L # {}
            BY <1>3, <2>2
        <3>2. L \in SUBSET Int /\ v \in Int /\ \A d \in L : d <= v
            BY <1>6, <1>10
        <3> DEFINE w == Max(L)
        <3> HIDE DEF L
        <3>3. w \in L /\ \A d \in L : d <= w
            BY <3>1, <3>2, GreatestInteger
        <3> HIDE DEF w
        <3>4. w \in E /\ w < v /\ w \in Nat
            BY <1>6, <3>3 DEF L
        <3>5. B(v) = U(w)
            <4>1. ASSUME NEW h \in P PROVE D(h) < v <=> D(h) <= w
                <5>1. D(h) \in Nat /\ D(h) \in E
                    BY <1>1
                <5>2. D(h) < v => D(h) <= w
                    BY <3>3, <5>1 DEF L
                <5>3. QED
                    BY <1>10, <3>4, <5>1, <5>2
            <4>2. QED
                BY <1>3, <4>1
        <3>6. ~(k <= Cardinality(U(w)))
            <4>1. w \notin Big
                BY <1>9, <1>10, <3>4
            <4>2. QED
                BY <3>4, <4>1
        <3>7. QED
            BY <1>4, <1>5, <3>5, <3>6
    <2>3. QED
        BY <2>1, <2>2
<1>12. Nth(lo, hi, k) \in E /\ Is(Nth(lo, hi, k))
    <2> HIDE DEF E
    <2>1. \E d \in E : Is(d)
        BY <1>10, <1>11
    <2> HIDE DEF Is
    <2>2. QED
        BY <1>2, <2>1
<1>13. QED
    BY <1>6, <1>12 DEF B

\* The glitch rule's limit: at least the floor, and with at most one step that
\* exceeds what was used no more than Factor times the largest real step.
LEMMA LimitBounds ==
    ASSUME EnergyType, NEW lo \in Int, NEW hi \in Int
    PROVE  /\ TwiceLimit(lo, hi) \in Int /\ 2 * Floor <= TwiceLimit(lo, hi)
           /\ \A e \in Int : \A K \in Nat :
                (\A h \in HB(lo, hi) : h # e /\ HB(lo, h) # {} => Delta(lo, h) <= K)
                => TwiceLimit(lo, hi) <= 2 * Floor \/ TwiceLimit(lo, hi) <= 2 * (Factor * K)
<1> DEFINE P == Positive(lo, hi)
           n == Cardinality(P)
           T == TwiceMedian(lo, hi)
           i == (n + 1) \div 2
           j == (n + 2) \div 2
           a == Nth(lo, hi, i)
           b == Nth(lo, hi, j)
<1>1. Floor \in Nat /\ Factor \in Nat
    BY EnergyAssumption
<1>2. P \in SUBSET HB(lo, hi) /\ IsFiniteSet(P) /\ n \in Nat
      /\ \A h \in P : HB(lo, h) # {} /\ Delta(lo, h) \in Nat
    <2>1. P \in SUBSET HB(lo, hi) /\ \A h \in P : Delta(lo, h) > 0
        BY DEF Positive
    <2>2. IsFiniteSet(P)
        BY <2>1, Buckets, FS_Subset
    <2>3. \A h \in P : HB(lo, h) # {} /\ Delta(lo, h) \in Nat
        BY <2>1, Before, DeltaType DEF Absent
    <2>4. QED
        BY <2>1, <2>2, <2>3, FS_CardinalityType
<1>3. T = a + b
    BY Zenon DEF TwiceMedian
<1>4. TwiceLimit(lo, hi) = IF n >= 3 THEN Max({Factor * T, 2 * Floor}) ELSE 2 * Floor
    BY Zenon DEF TwiceLimit
<1> HIDE DEF T, n
<1>5. ASSUME n >= 3 PROVE i \in 1 .. n - 1 /\ j \in 1 .. n - 1 /\ i \in 1 .. n /\ j \in 1 .. n
    BY <1>2, <1>5
<1> HIDE DEF i, j
<1>6. ASSUME n >= 3 PROVE /\ a \in Nat /\ Cardinality(Below(lo, hi, a)) < i
                          /\ b \in Nat /\ Cardinality(Below(lo, hi, b)) < j
    BY <1>5, <1>6, NthIs DEF n
<1> HIDE DEF a, b
<1>7. ASSUME n >= 3 PROVE /\ T \in Nat /\ Factor * T \in Nat
                          /\ TwiceLimit(lo, hi) \in Int /\ 2 * Floor <= TwiceLimit(lo, hi)
                          /\ TwiceLimit(lo, hi) = 2 * Floor \/ TwiceLimit(lo, hi) = Factor * T
    <2>1. T \in Nat
        BY <1>3, <1>6, <1>7
    <2> DEFINE x == Factor * T
               y == 2 * Floor
    <2>2. x \in Nat /\ y \in Nat
        BY <1>1, <2>1
    <2>3. TwiceLimit(lo, hi) = Max({x, y})
        BY <1>4, <1>7
    <2> HIDE DEF x, y
    <2>4. Max({x, y}) \in {x, y} /\ y <= Max({x, y})
        <3> DEFINE S == {x, y}
        <3>1. S \in SUBSET Int /\ S # {} /\ y \in S /\ x + y \in Int /\ \A s \in S : s <= x + y
            BY <2>2
        <3> HIDE DEF S
        <3>2. Max(S) \in S /\ \A s \in S : s <= Max(S)
            <4> DEFINE u == x + y
            <4>1. u \in Int /\ \A s \in S : s <= u
                BY <3>1
            <4> HIDE DEF u
            <4>2. QED
                BY <3>1, <4>1, GreatestInteger
        <3>3. QED
            BY <3>1, <3>2 DEF S
    <2>5. TwiceLimit(lo, hi) \in {x, y} /\ y <= TwiceLimit(lo, hi)
        BY <2>3, <2>4, Zenon
    <2>6. QED
        BY <2>1, <2>2, <2>5 DEF x, y
<1>8. ASSUME NEW e \in Int, NEW K \in Nat, n >= 3,
             \A h \in HB(lo, hi) : h # e /\ HB(lo, h) # {} => Delta(lo, h) <= K
      PROVE  Factor * T <= 2 * (Factor * K)
    <2>1. ASSUME NEW v \in Nat, v > K PROVE n - 1 <= Cardinality(Below(lo, hi, v))
        <3>1. P \ {e} \in SUBSET Below(lo, hi, v)
            BY <1>2, <1>8, <2>1 DEF Below
        <3>2. IsFiniteSet(Below(lo, hi, v))
            BY <1>2, FS_Subset DEF Below
        <3>3. n - 1 <= Cardinality(P \ {e})
            <4>1. Cardinality(P \ {e}) = IF e \in P THEN n - 1 ELSE n
                BY <1>2, FS_RemoveElement DEF n
            <4>2. QED
                BY <1>2, <4>1
        <3>4. Cardinality(P \ {e}) <= Cardinality(Below(lo, hi, v))
            BY <3>1, <3>2, FS_Subset
        <3>5. Cardinality(P \ {e}) \in Nat /\ Cardinality(Below(lo, hi, v)) \in Nat
            <4>1. IsFiniteSet(P \ {e})
                BY <1>2, FS_RemoveElement
            <4>2. QED
                BY <3>2, <4>1, FS_CardinalityType
        <3>6. QED
            BY <1>2, <3>3, <3>4, <3>5
    <2>2. ASSUME NEW v \in Nat, NEW m \in 1 .. n - 1, Cardinality(Below(lo, hi, v)) < m PROVE v <= K
        <3>1. IsFiniteSet(Below(lo, hi, v))
            BY <1>2, FS_Subset DEF Below
        <3>2. Cardinality(Below(lo, hi, v)) \in Nat
            BY <3>1, FS_CardinalityType
        <3>3. ~(v > K)
            BY <1>2, <2>1, <2>2, <3>2
        <3>4. QED
            BY <3>3
    <2>3. a <= K /\ b <= K /\ a \in Nat /\ b \in Nat
        BY <1>5, <1>6, <1>8, <2>2
    <2>4. T \in Nat /\ T <= 2 * K
        BY <1>3, <2>3
    <2>5. Factor * T <= Factor * (2 * K)
        BY <1>1, <2>4
    <2>6. Factor * (2 * K) = 2 * (Factor * K)
        BY <1>1
    <2>7. QED
        BY <2>5, <2>6
<1>9. CASE n >= 3
    <2>1. /\ Factor * T \in Nat
          /\ TwiceLimit(lo, hi) \in Int /\ 2 * Floor <= TwiceLimit(lo, hi)
          /\ TwiceLimit(lo, hi) = 2 * Floor \/ TwiceLimit(lo, hi) = Factor * T
        BY <1>7, <1>9
    <2>2. ASSUME NEW e \in Int, NEW K \in Nat,
                 \A h \in HB(lo, hi) : h # e /\ HB(lo, h) # {} => Delta(lo, h) <= K
          PROVE  TwiceLimit(lo, hi) <= 2 * Floor \/ TwiceLimit(lo, hi) <= 2 * (Factor * K)
        <3>1. Factor * T <= 2 * (Factor * K)
            BY <1>8, <1>9, <2>2
        <3>2. CASE TwiceLimit(lo, hi) = 2 * Floor
            BY <1>1, <3>2
        <3>3. CASE TwiceLimit(lo, hi) = Factor * T
            BY <3>1, <3>3, Zenon
        <3>4. QED
            BY <2>1, <3>2, <3>3
    <2>3. QED
        BY <2>1, <2>2
<1>10. CASE ~(n >= 3)
    <2>1. TwiceLimit(lo, hi) = 2 * Floor
        BY <1>4, <1>10
    <2>2. QED
        BY <1>1, <2>1
<1>11. QED
    BY <1>9, <1>10

\* A step is part of all that was used.
LEMMA StepsBounded ==
    ASSUME EnergyType, NEW lo \in Int, NEW hi \in Int, NEW h \in HB(lo, hi), HB(lo, h) # {}
    PROVE  Consumed(0, Len(hours)) \in Nat /\ Real(lo, h) \in Nat /\ Real(lo, h) <= Consumed(0, Len(hours))
<1> DEFINE p == Max(HB(lo, h))
           n == Len(hours)
<1>1. h \in 1 .. n /\ p \in 1 .. n /\ p < h /\ Real(lo, h) = Consumed(p, h) /\ n \in Nat
      /\ hours \in Seq(HourType)
    BY Before DEF EnergyType
<1> HIDE DEF p
<1>2. 0 \in Nat /\ p \in Nat /\ p \in 0 .. n /\ h \in p .. n /\ n \in h .. n /\ n \in p .. n
    BY <1>1
<1>3. /\ UsedIn(hours, 0, p) \in Nat /\ UsedIn(hours, 0, n) \in Nat
      /\ UsedIn(hours, 0, n) = UsedIn(hours, 0, p) + UsedIn(hours, p, n)
    BY <1>1, <1>2, UsedAdds
<1>4. /\ UsedIn(hours, p, h) \in Nat /\ UsedIn(hours, h, n) \in Nat
      /\ UsedIn(hours, p, n) = UsedIn(hours, p, h) + UsedIn(hours, h, n)
    BY <1>1, <1>2, UsedAdds
<1>5. Consumed(0, n) = UsedIn(hours, 0, n) /\ Real(lo, h) = UsedIn(hours, p, h)
    BY <1>1, ConsumedIs
<1>6. QED
    BY <1>3, <1>4, <1>5

\* The packet before a page's first, or its first.
PageFirst(start, hi) ==
    IF HB(start - Lookback, start) # {} THEN Max(HB(start - Lookback, start)) ELSE Min(HB(start, hi))
Stepped(start, hi) == {h \in HB(start, hi) : HB(start - Lookback, h) # {}}

\* The steps of a page add up to what was used over it.
LEMMA PageStretches ==
    ASSUME EnergyType, NEW start \in Int, NEW hi \in Int, HB(start, hi) # {},
           NEW r, \A h \in Stepped(start, hi) : r[h] = Real(start - Lookback, h)
    PROVE  SumFunctionOnSet(r, Stepped(start, hi)) = Consumed(PageFirst(start, hi), Max(HB(start, hi)))
<1> DEFINE lo == start - Lookback
           A == HB(lo, start)
           page == HB(start, hi)
           D == IF A # {} THEN page \cup {Max(A)} ELSE page
           pos == [d \in D |-> d]
           u == UseIn(hours)
           a == PageFirst(start, hi)
           z == Max(page)
           P == Stepped(start, hi)
<1>1. lo \in Int /\ lo <= start /\ Len(hours) \in Nat /\ hours \in Seq(HourType)
    BY EnergyAssumption DEF EnergyType
<1> HIDE DEF lo
<1>2. /\ page \in SUBSET (1 .. Len(hours)) /\ page \in SUBSET (start .. hi - 1) /\ IsFiniteSet(page)
      /\ z \in page /\ \A h \in page : h <= z
      /\ Min(page) \in page /\ \A h \in page : Min(page) <= h
    BY Buckets
<1>3. A # {} => Max(A) \in A /\ \A h \in A : h <= Max(A)
    BY <1>1, Buckets
<1>4. A \in SUBSET (1 .. Len(hours)) /\ A \in SUBSET (lo .. start - 1)
    BY <1>1, Buckets
<1>5. a = IF A # {} THEN Max(A) ELSE Min(page)
    BY Zenon DEF PageFirst, lo
<1>6. P = {h \in page : HB(lo, h) # {}}
    BY Zenon DEF Stepped, lo
<1>7. \A h \in page : HB(lo, h) = A \cup {g \in page : g < h}
    <2> SUFFICES ASSUME NEW h \in page PROVE HB(lo, h) = A \cup {g \in page : g < h}
        OBVIOUS
    <2>1. h \in start .. hi - 1 /\ h \in Int
        BY <1>2
    <2>2. QED
        BY <1>1, <2>1 DEF HB
<1> HIDE DEF A, page, a, z, P
<1>8. D \in SUBSET (1 .. Len(hours)) /\ D \in SUBSET Nat /\ D # {} /\ IsFiniteSet(D)
    <2>1. IsFiniteSet(page \cup {Max(A)})
        BY <1>2, FS_AddElement
    <2>2. D \in SUBSET (1 .. Len(hours))
        BY <1>2, <1>3, <1>4
    <2>3. IsFiniteSet(D)
        BY <1>2, <2>1
    <2>4. 1 .. Len(hours) \in SUBSET Nat /\ D # {}
        BY <1>1, <1>2
    <2> HIDE DEF D
    <2>5. QED
        BY <2>2, <2>3, <2>4
<1>9. a \in D /\ z \in D /\ \A d \in D : a <= d /\ d <= z
    <2>1. CASE A # {}
        <3>1. a = Max(A) /\ D = page \cup {a} /\ a \in A
            BY <1>3, <1>5, <2>1
        <3>2. a \in Int /\ \A d \in page : d \in Int /\ a <= d /\ d <= z
            BY <1>1, <1>2, <1>4, <3>1
        <3>3. a <= a /\ a <= z
            BY <1>2, <3>2
        <3> HIDE DEF D
        <3>4. QED
            BY <1>2, <3>1, <3>2, <3>3
    <2>2. CASE A = {}
        BY <1>2, <1>5, <2>2
    <2>3. QED
        BY <2>1, <2>2
<1>10. D \ {a} = P
    <2>1. CASE A # {}
        <3>1. a = Max(A) /\ D = page \cup {a} /\ a \in A
            BY <1>3, <1>5, <2>1
        <3>2. a \notin page
            BY <1>1, <1>2, <1>4, <3>1
        <3>3. P = page
            BY <1>6, <1>7, <2>1
        <3> HIDE DEF D
        <3>4. QED
            BY <3>1, <3>2, <3>3
    <2>2. CASE A = {}
        <3>1. a = Min(page) /\ D = page
            BY <1>5, <2>2
        <3>2. \A h \in page : HB(lo, h) # {} <=> \E g \in page : g < h
            BY <1>7, <2>2
        <3>3. \A h \in page : (\E g \in page : g < h) <=> h # a
            <4>1. \A h \in page : h \in Int
                BY <1>2
            <4>2. a \in page /\ \A h \in page : a <= h
                BY <1>2, <3>1
            <4>3. ASSUME NEW h \in page, h # a PROVE a < h
                BY <4>1, <4>2, <4>3
            <4>4. ASSUME NEW g \in page, NEW h \in page, g < h PROVE h # a
                BY <4>1, <4>2, <4>4
            <4>5. QED
                BY <4>2, <4>3, <4>4
        <3> HIDE DEF D
        <3>4. QED
            BY <1>6, <3>1, <3>2, <3>3
    <2>3. QED
        BY <2>1, <2>2
<1>11. ASSUME NEW h \in P PROVE Prev(D, h) = Max(HB(lo, h)) /\ Max(HB(lo, h)) \in D
    <2> DEFINE m == Max(HB(lo, h))
               S == {e \in D : e < h}
    <2>1. h \in page /\ HB(lo, h) # {} /\ h \in Int
        BY <1>2, <1>6
    <2>2. m \in HB(lo, h) /\ \A g \in HB(lo, h) : g <= m
        BY <1>1, <2>1, Buckets
    <2> HIDE DEF m
    <2>3. m \in D /\ m < h
        <3>1. m \in A \/ (m \in page /\ m < h)
            BY <1>7, <2>1, <2>2
        <3>2. CASE m \in A
            <4>1. Max(A) \in HB(lo, h) /\ Max(A) \in A /\ m <= Max(A)
                BY <1>3, <1>7, <2>1, <3>2
            <4>2. \A g \in A : g \in Int
                BY <1>4
            <4>3. Max(A) <= m /\ m \in Int /\ Max(A) \in Int
                BY <2>2, <3>2, <4>1, <4>2
            <4>4. m = Max(A)
                BY <4>1, <4>3
            <4>5. m < h
                BY <1>1, <1>2, <1>4, <2>1, <3>2
            <4>6. QED
                BY <3>2, <4>4, <4>5
        <3>3. CASE m \in page /\ m < h
            BY <3>3
        <3>4. QED
            BY <3>1, <3>2, <3>3
    <2>4. \A e \in S : e <= m
        <3>1. \A e \in S : e \in HB(lo, h)
            BY <1>3, <1>7, <2>1
        <3> HIDE DEF S
        <3>2. QED
            BY <2>2, <3>1
    <2>5. S \in SUBSET Int /\ m \in S
        <3> HIDE DEF D
        <3>1. \A e \in D : e \in Int
            BY <1>8
        <3>2. QED
            BY <2>3, <3>1
    <2> HIDE DEF S, D
    <2>6. Max(S) = m
        BY <2>4, <2>5, MaxIs
    <2>7. QED
        BY <2>3, <2>6, Zenon DEF Prev, S, m
<1> HIDE DEF D
<1>12. Min(D) = a /\ Max(D) = z
    <2>1. Min(D) \in D /\ (\A d \in D : Min(D) <= d) /\ D \in SUBSET Int
        BY <1>8, LeastNatural
    <2>2. Max(D) = z
        BY <1>9, <2>1, MaxIs
    <2>3. Min(D) = a
        <3>1. Min(D) \in Int /\ a \in Int /\ a <= Min(D) /\ Min(D) <= a
            BY <1>9, <2>1
        <3>2. QED
            BY <3>1
    <2>4. QED
        BY <2>2, <2>3
<1>13. \A d \in D : pos[d] \in Nat /\ pos[d] = d
    BY <1>8
<1> HIDE DEF pos
<1>14. \A d, e \in D : d < e => pos[d] < pos[e]
    BY <1>13
<1>15. \A x \in pos[Min(D)] + 1 .. pos[Max(D)] : u[x] \in Int
    <2>1. pos[Min(D)] = a /\ pos[Max(D)] = z
        BY <1>9, <1>12, <1>13
    <2>2. a \in 1 .. Len(hours) /\ z \in 1 .. Len(hours)
        BY <1>8, <1>9
    <2>3. \A x \in 1 .. Len(hours) : u[x] \in Int
        <3>1. \A x \in 1 .. Len(hours) : hours[x] \in HourType
            BY <1>1
        <3>2. QED
            BY <3>1 DEF UseIn, HourType
    <2> HIDE DEF u
    <2>4. QED
        BY <1>1, <2>1, <2>2, <2>3
<1>16. \A d \in D \ {Min(D)} : r[d] = SumFunctionOnSet(u, pos[Prev(D, d)] + 1 .. pos[d])
    <2> SUFFICES ASSUME NEW d \in P PROVE r[d] = SumFunctionOnSet(u, pos[Prev(D, d)] + 1 .. pos[d])
        BY <1>10, <1>12
    <2> DEFINE m == Max(HB(lo, d))
    <2>1. Prev(D, d) = m /\ m \in D /\ d \in D
        BY <1>10, <1>11
    <2>2. r[d] = Real(lo, d)
        BY DEF P, lo
    <2>3. Real(lo, d) = UsedIn(hours, m, d)
        BY ConsumedIs, Zenon DEF Real
    <2> HIDE DEF m
    <2>4. pos[Prev(D, d)] = m /\ pos[d] = d
        BY <1>13, <2>1
    <2>5. QED
        BY <2>2, <2>3, <2>4, Zenon DEF UsedIn
<1>17. SumFunctionOnSet(r, D \ {Min(D)}) = SumFunctionOnSet(u, pos[Min(D)] + 1 .. pos[Max(D)])
    <2> HIDE DEF u
    <2>1. \A d \in D : pos[d] \in Nat
        BY <1>13
    <2>2. QED
        BY <1>8, <1>14, <1>15, <1>16, <2>1, Telescope
<1>18. pos[Min(D)] = a /\ pos[Max(D)] = z /\ D \ {Min(D)} = P
    BY <1>9, <1>10, <1>12, <1>13
<1>19. SumFunctionOnSet(r, P) = UsedIn(hours, a, z)
    BY <1>17, <1>18, Zenon DEF UsedIn
<1>20. QED
    BY <1>19, ConsumedIs, Zenon DEF P, a, z, page

\* What PageFaithful says of one page, part by part.
PageTotal(start, hi) ==
    LET t == SumFrom(start, start - Lookback, hi) IN IF t = Absent THEN 0 ELSE t
PageSteps(start, hi) ==
    {Real(start - Lookback, h) : h \in {g \in HB(start - Lookback, hi) : HB(start - Lookback, g) # {}}}

\* A page's total as the sum of the deltas that count.
LEMMA PageSum ==
    ASSUME EnergyType, NEW start \in Int, NEW hi \in Int
    PROVE  \E C \in SUBSET Stepped(start, hi) :
              /\ IsFiniteSet(C) /\ C = {h \in GlitchClean(start - Lookback, hi) : h >= start}
              /\ \A h \in C : Delta(start - Lookback, h) \in Nat
              /\ PageTotal(start, hi) = SumFunctionOnSet([h \in C |-> Delta(start - Lookback, h)], C)
<1> DEFINE lo == start - Lookback
           C == {h \in GlitchClean(lo, hi) : h >= start}
           D(h) == Delta(lo, h)
           f == [h \in C |-> D(h)]
<1>1. lo \in Int /\ lo <= start
    BY EnergyAssumption
<1> HIDE DEF lo
<1>2. /\ GlitchClean(lo, hi) \in SUBSET HB(lo, hi) /\ \A h \in C : D(h) \in Nat /\ D(h) # Absent
    BY <1>1, CleanDelta DEF Absent
<1>3. IsFiniteSet(C)
    <2>1. C \in SUBSET HB(lo, hi)
        BY <1>2
    <2> HIDE DEF C
    <2>2. QED
        BY <1>1, <2>1, Buckets, FS_Subset
<1>4. C \in SUBSET Stepped(start, hi)
    <2> SUFFICES ASSUME NEW h \in C PROVE h \in Stepped(start, hi)
        OBVIOUS
    <2>1. h \in HB(lo, hi) /\ h >= start /\ D(h) # Absent
        BY <1>2
    <2>2. HB(lo, h) # {}
        BY <1>1, <2>1, Before
    <2>3. h \in HB(start, hi)
        BY <1>1, <2>1 DEF HB
    <2>4. QED
        BY <2>2, <2>3 DEF Stepped, lo
<1>5. SumFrom(start, lo, hi) = IF C = {} THEN Absent ELSE SumFunction(f)
    BY Zenon DEF SumFrom
<1>6. SumFunction(f) = SumFunctionOnSet(f, C)
    <2>1. DOMAIN f = C
        OBVIOUS
    <2> HIDE DEF f, C
    <2>2. QED
        BY <2>1, Zenon DEF SumFunction
<1>7. SumFunctionOnSet(f, C) \in Nat
    <2>1. \A h \in C : f[h] \in Nat
        BY <1>2
    <2> HIDE DEF f, C
    <2>2. QED
        BY <1>3, <2>1, SumNat
<1>8. PageTotal(start, hi) = IF SumFrom(start, lo, hi) = Absent THEN 0 ELSE SumFrom(start, lo, hi)
    BY Zenon DEF PageTotal, lo
<1>9. PageTotal(start, hi) = SumFunctionOnSet(f, C)
    <2> HIDE DEF f
    <2>1. CASE C = {}
        <3>1. SumFunctionOnSet(f, C) = 0
            <4> HIDE DEF C
            <4>1. QED
                BY <2>1, SumEmpty
        <3>2. QED
            BY <1>5, <1>8, <2>1, <3>1
    <2>2. CASE C # {}
        <3> HIDE DEF C
        <3>1. SumFrom(start, lo, hi) = SumFunctionOnSet(f, C)
            BY <1>5, <1>6, <2>2, Zenon
        <3>2. SumFrom(start, lo, hi) # Absent
            BY <1>7, <3>1 DEF Absent
        <3>3. QED
            BY <1>8, <3>1, <3>2, Zenon
    <2>3. QED
        BY <2>1, <2>2
<1>10. QED
    BY <1>2, <1>3, <1>4, <1>9 DEF lo

\* No packet corrupted.
LEMMA PageSound ==
    ASSUME EnergyType, TruthInv, NEW start \in Int, NEW hi \in Int, HB(start, hi) # {},
           HB(start - Lookback, hi) \cap Flipped = {}
    PROVE  LET used == Consumed(PageFirst(start, hi), Max(HB(start, hi)))
           IN  /\ PageTotal(start, hi) <= used
               /\ (\A u \in PageSteps(start, hi) : u <= Floor) => PageTotal(start, hi) = used
<1> DEFINE lo == start - Lookback
           P == Stepped(start, hi)
           r == [h \in P |-> Real(lo, h)]
           D(h) == Delta(lo, h)
           used == Consumed(PageFirst(start, hi), Max(HB(start, hi)))
<1>1. lo \in Int /\ lo <= start
    BY EnergyAssumption
<1>2. PICK C \in SUBSET P :
          /\ IsFiniteSet(C) /\ C = {h \in GlitchClean(lo, hi) : h >= start}
          /\ \A h \in C : D(h) \in Nat
          /\ PageTotal(start, hi) = SumFunctionOnSet([h \in C |-> D(h)], C)
    BY PageSum, Zenon
<1> DEFINE f == [h \in C |-> D(h)]
<1>3. SumFunctionOnSet(r, P) = used
    <2>1. \A h \in P : r[h] = Real(start - Lookback, h)
        OBVIOUS
    <2> HIDE DEF r
    <2>2. QED
        BY <2>1, PageStretches
<1>4. \A h \in P : h \in HB(lo, hi) /\ HB(lo, h) # {} /\ h >= start
    BY <1>1 DEF Stepped, HB
<1>5. IsFiniteSet(P)
    <2>1. P \in SUBSET HB(lo, hi)
        BY <1>4
    <2> HIDE DEF P
    <2>2. QED
        BY <1>1, <2>1, Buckets, FS_Subset
<1>6. \A h \in P : Real(lo, h) \in Nat /\ D(h) <= Real(lo, h)
    <2>1. \A h \in P : D(h) <= Real(lo, h)
        BY <1>1, <1>4, OneExceeds
    <2>2. \A h \in P : Real(lo, h) \in Nat
        BY <1>1, <1>4, Before
    <2>3. QED
        BY <2>1, <2>2
<1>7. \A h \in P : r[h] \in Nat /\ r[h] = Real(lo, h)
    BY <1>6
<1>8. \A h \in C : f[h] = D(h) /\ f[h] \in Int /\ r[h] \in Int /\ f[h] <= r[h]
    BY <1>2, <1>6, <1>7
<1> HIDE DEF f, r, P
<1>9. PageTotal(start, hi) <= used
    <2>1. SumFunctionOnSet(f, C) <= SumFunctionOnSet(r, C)
        BY <1>2, <1>8, SumMono
    <2>2. SumFunctionOnSet(r, C) <= SumFunctionOnSet(r, P)
        BY <1>2, <1>5, <1>7, SumSubset
    <2>3. SumFunctionOnSet(f, C) \in Int /\ SumFunctionOnSet(r, C) \in Int /\ SumFunctionOnSet(r, P) \in Int
        <3>1. \A h \in P : r[h] \in Int
            BY <1>7
        <3>2. QED
            BY <1>2, <1>5, <1>8, <3>1, SumOrder
    <2>4. PageTotal(start, hi) = SumFunctionOnSet(f, C)
        BY <1>2 DEF f
    <2>5. QED
        BY <1>3, <2>1, <2>2, <2>3, <2>4
<1>10. ASSUME \A u \in PageSteps(start, hi) : u <= Floor PROVE PageTotal(start, hi) = used
    <2>1. ASSUME NEW h \in P PROVE h \in C /\ D(h) = Real(lo, h)
        <3>1. Real(lo, h) \in Nat /\ Real(lo, h) <= Floor
            <4>1. Real(lo, h) \in PageSteps(start, hi)
                BY <1>4 DEF PageSteps
            <4>2. QED
                BY <1>6, <1>10, <4>1
        <3>2. 2 * Real(lo, h) <= 2 * Floor /\ 2 * Real(lo, h) < Modulus
            BY <3>1, EnergyAssumption, ModulusPositive DEF Modulus
        <3>3. D(h) = Real(lo, h)
            <4>1. h \in HB(lo, hi) /\ HB(lo, h) # {} /\ h \notin Flipped
                BY <1>4
            <4>2. Max(HB(lo, h)) \in HB(lo, hi)
                BY <1>1, <4>1, Before
            <4>3. Max(HB(lo, h)) \notin Flipped
                BY <4>2
            <4>4. QED
                BY <1>1, <3>2, <4>1, <4>3, SoundStep
        <3>4. TwiceLimit(lo, hi) \in Int /\ 2 * Floor <= TwiceLimit(lo, hi) /\ Floor \in Nat
            BY <1>1, LimitBounds, EnergyAssumption
        <3>5. D(h) # Absent /\ 2 * D(h) <= TwiceLimit(lo, hi)
            BY <3>1, <3>2, <3>3, <3>4 DEF Absent
        <3>6. h \in GlitchClean(lo, hi)
            BY <1>4, <3>5 DEF GlitchClean
        <3>7. QED
            BY <1>2, <1>4, <3>3, <3>6
    <2>2. C = P /\ \A h \in C : f[h] = r[h]
        BY <1>2, <1>7, <1>8, <2>1
    <2>3. SumFunctionOnSet(f, C) = SumFunctionOnSet(r, C)
        BY <1>2, <2>2, SumSame
    <2>4. PageTotal(start, hi) = SumFunctionOnSet(f, C)
        BY <1>2 DEF f
    <2>5. QED
        BY <1>3, <2>2, <2>3, <2>4, Zenon
<1>11. QED
    BY <1>9, <1>10

\* One packet corrupted.
LEMMA PageGlitch ==
    ASSUME EnergyType, TruthInv, NEW start \in Int, NEW hi \in Int, HB(start, hi) # {}
    PROVE  PageTotal(start, hi) <= Consumed(PageFirst(start, hi), Max(HB(start, hi)))
                                    + Max({Floor} \cup {Factor * u : u \in PageSteps(start, hi)})
<1> DEFINE lo == start - Lookback
           P == Stepped(start, hi)
           r == [h \in P |-> Real(lo, h)]
           D(h) == Delta(lo, h)
           used == Consumed(PageFirst(start, hi), Max(HB(start, hi)))
           S == PageSteps(start, hi)
           G == {Floor} \cup {Factor * u : u \in S}
           B == HB(lo, hi)
<1>1. lo \in Int /\ lo <= start /\ Floor \in Nat /\ Factor \in Nat
    BY EnergyAssumption
<1>2. PICK C \in SUBSET P :
          /\ IsFiniteSet(C) /\ C = {h \in GlitchClean(lo, hi) : h >= start}
          /\ \A h \in C : D(h) \in Nat
          /\ PageTotal(start, hi) = SumFunctionOnSet([h \in C |-> D(h)], C)
    BY PageSum, Zenon
<1> DEFINE f == [h \in C |-> D(h)]
<1>3. SumFunctionOnSet(r, P) = used
    <2>1. \A h \in P : r[h] = Real(start - Lookback, h)
        OBVIOUS
    <2> HIDE DEF r
    <2>2. QED
        BY <2>1, PageStretches
<1>4. \A h \in P : h \in B /\ HB(lo, h) # {} /\ h >= start
    BY <1>1 DEF Stepped, HB
<1>5. IsFiniteSet(P)
    <2>1. P \in SUBSET B
        BY <1>4
    <2> HIDE DEF P
    <2>2. QED
        BY <1>1, <2>1, Buckets, FS_Subset
<1>6. PICK e \in Int : \A h \in B : h # e /\ HB(lo, h) # {} => D(h) <= Real(lo, h)
    BY <1>1, OneExceeds
<1>7. \A h \in P : Real(lo, h) \in Nat
    BY <1>1, <1>4, Before
<1>8. \A h \in P : r[h] \in Nat /\ r[h] = Real(lo, h)
    BY <1>7
<1>9. \A h \in C : f[h] = D(h) /\ f[h] \in Nat /\ f[h] \in Int
    BY <1>2
<1>10. PICK K \in Nat : /\ \A h \in B : HB(lo, h) # {} => Real(lo, h) \in Nat /\ Real(lo, h) <= K
                        /\ K = 0 \/ K \in S
    <2> DEFINE b == Consumed(0, Len(hours))
    <2>1. ASSUME NEW h \in B, HB(lo, h) # {} PROVE Real(lo, h) \in S /\ Real(lo, h) \in Nat /\ Real(lo, h) <= b /\ b \in Int
        BY <1>1, <2>1, StepsBounded DEF PageSteps
    <2>2. CASE S = {}
        <3>1. \A h \in B : ~(HB(lo, h) # {})
            BY <2>1, <2>2
        <3>2. QED
            BY <3>1
    <2>3. CASE S # {}
        <3>1. \A u \in S : u \in Nat /\ u <= b
            BY <2>1 DEF PageSteps
        <3>2. b \in Int
            BY <2>1, <2>3 DEF PageSteps
        <3> HIDE DEF S, b
        <3>3. S \in SUBSET Int
            BY <3>1
        <3>4. Max(S) \in S /\ \A u \in S : u <= Max(S)
            BY <2>3, <3>1, <3>2, <3>3, GreatestInteger
        <3>5. QED
            BY <2>1, <3>1, <3>4
    <2>4. QED
        BY <2>2, <2>3
<1>11. \A h \in B : h # e /\ HB(lo, h) # {} => D(h) <= K
    <2> SUFFICES ASSUME NEW h \in B, h # e, HB(lo, h) # {} PROVE D(h) <= K
        OBVIOUS
    <2>1. D(h) \in Int /\ D(h) <= Real(lo, h) /\ Real(lo, h) \in Nat /\ Real(lo, h) <= K
        BY <1>1, <1>6, <1>10, DeltaType DEF Absent
    <2>2. QED
        BY <2>1
<1>12. /\ Max(G) \in Int /\ Floor <= Max(G) /\ Factor * K \in Nat /\ Factor * K <= Max(G)
    <2>1. \A u \in S : u \in Nat /\ u <= K
        BY <1>10 DEF PageSteps
    <2>2. Factor * K \in Nat /\ \A u \in S : Factor * u \in Nat /\ Factor * u <= Factor * K
        BY <1>1, <2>1
    <2> DEFINE b == Floor + Factor * K
    <2>3. b \in Int /\ Floor <= b /\ Factor * K <= b
        BY <1>1, <2>2
    <2> HIDE DEF b, S
    <2>4. G \in SUBSET Int /\ Floor \in G
        BY <1>1, <2>2
    <2>5. \A g \in G : g <= b
        <3>1. \A u \in S : Factor * u <= b
            BY <2>2, <2>3
        <3>2. QED
            BY <2>3, <3>1
    <2>6. K = 0 \/ Factor * K \in G
        BY <1>10
    <2> HIDE DEF G
    <2>7. Max(G) \in G /\ \A g \in G : g <= Max(G)
        BY <2>3, <2>4, <2>5, GreatestInteger
    <2>8. Max(G) \in Int /\ Floor <= Max(G)
        BY <2>4, <2>7
    <2>9. Factor * K <= Max(G)
        <3>1. CASE K = 0
            <4>1. Factor * K = 0
                BY <1>1, <3>1
            <4>2. QED
                BY <1>1, <2>8, <4>1
        <3>2. CASE Factor * K \in G
            BY <2>7, <3>2
        <3>3. QED
            BY <2>6, <3>1, <3>2
    <2>10. QED
        BY <2>2, <2>8, <2>9
<1>13. TwiceLimit(lo, hi) \in Int /\ TwiceLimit(lo, hi) <= 2 * Max(G)
    <2>1. /\ TwiceLimit(lo, hi) \in Int
          /\ TwiceLimit(lo, hi) <= 2 * Floor \/ TwiceLimit(lo, hi) <= 2 * (Factor * K)
        BY <1>1, <1>11, LimitBounds
    <2> DEFINE m == Max(G)
               k == Factor * K
    <2>2. m \in Int /\ Floor <= m /\ k \in Nat /\ k <= m /\ (TwiceLimit(lo, hi) <= 2 * Floor \/ TwiceLimit(lo, hi) <= 2 * k)
        BY <1>12, <2>1
    <2> HIDE DEF m, k
    <2>3. TwiceLimit(lo, hi) <= 2 * m
        BY <1>1, <2>1, <2>2
    <2>4. QED
        BY <2>1, <2>3 DEF m
<1>14. \A h \in C : D(h) <= Max(G)
    <2> SUFFICES ASSUME NEW h \in C PROVE D(h) <= Max(G)
        OBVIOUS
    <2>1. 2 * D(h) <= TwiceLimit(lo, hi) /\ D(h) \in Nat
        BY <1>2 DEF GlitchClean
    <2> DEFINE m == Max(G)
    <2>2. m \in Int /\ TwiceLimit(lo, hi) <= 2 * m
        BY <1>12, <1>13
    <2> HIDE DEF m
    <2>3. D(h) <= m
        BY <1>13, <2>1, <2>2
    <2>4. QED
        BY <2>3 DEF m
<1>15. \A h \in C : h # e => f[h] <= r[h]
    BY <1>2, <1>4, <1>6, <1>8, <1>9
<1> HIDE DEF f, r, P
<1> DEFINE E == C \ {e}
           m == Max(G)
<1>16. IsFiniteSet(E) /\ E \in SUBSET P
    BY <1>2, FS_RemoveElement
<1>17. SumFunctionOnSet(f, E) \in Int /\ SumFunctionOnSet(r, P) \in Int /\ SumFunctionOnSet(f, E) <= SumFunctionOnSet(r, P)
    <2>1. \A h \in E : f[h] \in Int /\ r[h] \in Int /\ f[h] <= r[h]
        BY <1>2, <1>8, <1>9, <1>15
    <2>2. \A h \in P : r[h] \in Int
        BY <1>8
    <2> HIDE DEF E
    <2>3. SumFunctionOnSet(f, E) <= SumFunctionOnSet(r, E)
        BY <1>16, <2>1, SumMono
    <2>4. SumFunctionOnSet(r, E) <= SumFunctionOnSet(r, P)
        BY <1>5, <1>8, <1>16, SumSubset
    <2>5. SumFunctionOnSet(f, E) \in Int /\ SumFunctionOnSet(r, E) \in Int /\ SumFunctionOnSet(r, P) \in Int
        BY <1>5, <1>16, <2>1, <2>2, SumOrder
    <2>6. QED
        BY <2>3, <2>4, <2>5
<1>18. m \in Int /\ m >= 0 /\ SumFunctionOnSet(f, C) <= SumFunctionOnSet(f, E) + m
    <2>1. m \in Int /\ m >= 0
        BY <1>1, <1>12
    <2>2. CASE e \in C
        <3>1. SumFunctionOnSet(f, C) = f[e] + SumFunctionOnSet(f, E)
            <4>1. IsFiniteSet(C) /\ \A h \in C : f[h] \in Int
                BY <1>2, <1>9
            <4> HIDE DEF m
            <4>2. QED
                BY <2>2, <4>1, SumOrder
        <3>2. f[e] \in Int /\ f[e] <= m
            BY <1>9, <1>14, <2>2
        <3> HIDE DEF m, E
        <3>3. QED
            BY <1>17, <2>1, <3>1, <3>2
    <2>3. CASE e \notin C
        <3>1. E = C
            BY <2>3
        <3> HIDE DEF m, E
        <3>2. QED
            BY <1>17, <2>1, <3>1
    <2>4. QED
        BY <2>2, <2>3
<1>19. PageTotal(start, hi) = SumFunctionOnSet(f, C)
    BY <1>2 DEF f
<1>20. PageTotal(start, hi) <= used + m
    <2>0. SumFunctionOnSet(f, C) \in Int
        BY <1>2, <1>9, SumOrder
    <2> HIDE DEF used, m, E
    <2>1. QED
        BY <1>3, <1>17, <1>18, <1>19, <2>0
<1>21. QED
    BY <1>20

\* A day is a stretch of hours, and later hours fall in no earlier day.
LEMMA DayOf ==
    ASSUME NEW g \in Nat \ {0}, NEW h \in Nat \ {0}, g <= h
    PROVE  /\ periodStartAt("day", h) \in Nat \ {0} /\ periodStartAt("day", h) <= h
           /\ periodStartAt("day", g) <= periodStartAt("day", h)
<1> DEFINE n == DayLen
           a == g - 1
           b == h - 1
           q == a \div n
           p == b \div n
<1>1. n \in Nat \ {0} /\ a \in Nat /\ b \in Nat /\ a <= b
    BY EnergyAssumption
<1>2. periodStartAt("day", g) = g - (a % n) /\ periodStartAt("day", h) = h - (b % n)
    BY DEF periodStartAt, Length
<1> HIDE DEF n, a, b
<1>3. a % n = a - q * n /\ b % n = b - p * n
    BY <1>1
<1>4. q \in Nat /\ q * n <= a /\ a < q * n + n /\ p \in Nat /\ p * n <= b /\ b < p * n + n
    BY <1>1, SlotOf
<1> HIDE DEF q, p
<1>5. q * n \in Nat /\ p * n \in Nat
    BY <1>1, <1>4
<1>6. q * n <= p * n
    <2>1. CASE q <= p
        BY <1>1, <1>4, <2>1
    <2>2. CASE p < q
        <3>1. (p + 1) * n <= q * n
            BY <1>1, <1>4, <2>2
        <3>2. (p + 1) * n = p * n + n
            BY <1>1, <1>4
        <3>3. QED
            BY <1>1, <1>4, <1>5, <3>1, <3>2
    <2>3. QED
        BY <1>4, <2>1, <2>2
<1> DEFINE x == q * n
           y == p * n
<1> HIDE DEF x, y
<1>7. periodStartAt("day", g) = g - (a - x) /\ periodStartAt("day", h) = h - (b - y)
      /\ x \in Nat /\ y \in Nat /\ x <= y /\ y <= b
    BY <1>2, <1>3, <1>4, <1>5, <1>6 DEF x, y
<1>8. QED
    BY <1>1, <1>7 DEF a, b

\* A day's peak: a packet of the day, with the day's maximum.
LEMMA PeakIs ==
    ASSUME EnergyType, TruthInv, Flipped = {}, NEW d \in HeardDays
    PROVE  /\ Peak(d) \in HB(1, Len(hours) + 1) /\ Peak(d) \in 1 .. Len(hours)
           /\ periodStartAt("day", Peak(d)) = d
           /\ hours[Peak(d)].cmax = DayMax(d) /\ d \in 1 .. Len(hours)
<1> DEFINE H == HB(1, Len(hours) + 1)
           Y == DayHB(d)
           V == {hours[h].cmax : h \in Y}
           T == {h \in Y : hours[h].cmax = DayMax(d)}
<1>1. Len(hours) \in Nat /\ H \in SUBSET (1 .. Len(hours)) /\ Len(hours) + 1 \in Int
    <2>1. Len(hours) \in Nat
        BY DEF EnergyType
    <2> DEFINE k == Len(hours) + 1
    <2>2. k \in Int
        BY <2>1
    <2> HIDE DEF k
    <2>3. HB(1, k) \in SUBSET (1 .. Len(hours))
        BY <2>2, Buckets
    <2>4. QED
        BY <2>1, <2>2, <2>3 DEF k
<1>2. Y = {h \in H : periodStartAt("day", h) = d} /\ Y # {}
    BY DEF DayHB, HeardDays
<1>3. \A h \in H : hours[h].cmax # Absent
    BY DEF HB
<1> HIDE DEF H, Y
<1>4. \A h \in Y : hours[h].cmax \in 0 .. Modulus - 1
    <2> SUFFICES ASSUME NEW h \in Y PROVE hours[h].cmax \in 0 .. Modulus - 1
        OBVIOUS
    <2>1. h \in 1 .. Len(hours) /\ hours[h].cmax # Absent
        BY <1>1, <1>2, <1>3
    <2>2. count # Absent
        BY <1>1, <2>1 DEF TruthInv
    <2>3. PICK c \in 0 .. Modulus - 1 : \A g \in 1 .. Len(hours) : HeardIn(hours, c, g)
        BY <2>2 DEF TruthInv
    <2>4. hours[h].cmax = TruthIn(hours, c, h)
        BY <2>1, <2>3 DEF HeardIn, Flipped
    <2>5. h \in 0 .. Len(hours) /\ h \in h .. Len(hours)
        BY <1>1, <2>1
    <2>6. QED
        BY <2>4, <2>5, TruthStep
<1>5. DayMax(d) \in V
    <2>1. V \in SUBSET Int /\ V # {} /\ \A v \in V : v <= Modulus
        BY <1>2, <1>4, ModulusPositive
    <2>2. DayMax(d) = Max(V)
        BY DEF DayMax, Y
    <2>3. Modulus \in Int
        BY ModulusPositive
    <2> HIDE DEF V
    <2>4. Max(V) \in V
        BY <2>1, <2>3, GreatestInteger
    <2>5. QED
        BY <2>2, <2>4, Zenon
<1>6. T # {} /\ T \in SUBSET Int /\ \A h \in T : h <= Len(hours)
    <2>1. T # {}
        BY <1>5
    <2>2. \A h \in T : h \in 1 .. Len(hours)
        BY <1>1, <1>2
    <2> HIDE DEF T
    <2>3. QED
        BY <1>1, <2>1, <2>2
<1>7. Peak(d) = Max(T)
    BY DEF Peak, Y
<1>8. Max(T) \in T
    <2> DEFINE n == Len(hours)
    <2>1. n \in Int /\ \A h \in T : h <= n
        BY <1>1, <1>6
    <2> HIDE DEF T, n
    <2>2. QED
        BY <1>6, <2>1, GreatestInteger
<1>9. Peak(d) \in H /\ periodStartAt("day", Peak(d)) = d /\ hours[Peak(d)].cmax = DayMax(d)
    <2> DEFINE k == Peak(d)
    <2>1. k \in T
        BY <1>7, <1>8, Zenon
    <2> HIDE DEF k
    <2>2. k \in H /\ periodStartAt("day", k) = d /\ hours[k].cmax = DayMax(d)
        BY <1>2, <2>1
    <2>3. QED
        BY <2>2 DEF k
<1>10. d \in 1 .. Len(hours)
    <2> DEFINE k == Peak(d)
    <2>1. k \in 1 .. Len(hours) /\ periodStartAt("day", k) = d
        BY <1>1, <1>9
    <2> HIDE DEF k
    <2>2. d \in Nat \ {0} /\ d <= k
        BY <1>1, <2>1, DayOf
    <2>3. QED
        BY <1>1, <2>1, <2>2
<1>11. QED
    BY <1>1, <1>9, <1>10 DEF H

\* The overlay of the bill page.
LEMMA OverlayHolds == ASSUME EnergyType, TruthInv PROVE OverlayAddsUp
<1> DEFINE D == HeardDays
           a == Min(D)
           z == Max(D)
           I == D \ {a}
           pos == [d \in D |-> Peak(d)]
           g == [d \in I |-> DayDelta(d)]
           u == UseIn(hours)
<1> SUFFICES ASSUME Flipped = {}, D # {}, \A d \in I : 2 * DayReal(d) < Modulus
             PROVE  SumFunction(g) = Consumed(Peak(a), Peak(z))
    BY Zenon DEF OverlayAddsUp
<1>1. Len(hours) \in Nat /\ hours \in Seq(HourType)
    BY DEF EnergyType
<1>2. \A d \in D : Peak(d) \in 1 .. Len(hours) /\ d \in 1 .. Len(hours)
                   /\ periodStartAt("day", Peak(d)) = d /\ hours[Peak(d)].cmax = DayMax(d)
                   /\ Peak(d) \in HB(1, Len(hours) + 1)
    BY PeakIs
<1> HIDE DEF D
<1>3. D \in SUBSET Nat /\ D \in SUBSET Int /\ IsFiniteSet(D)
    <2>1. D \in SUBSET (1 .. Len(hours))
        BY <1>2
    <2>2. IsFiniteSet(1 .. Len(hours))
        BY <1>1, FS_Interval
    <2>3. IsFiniteSet(D)
        BY <2>1, <2>2, FS_Subset
    <2>4. QED
        BY <1>1, <2>1, <2>3
<1>4. a \in D /\ \A d \in D : a <= d
    BY <1>3, LeastNatural
<1>5. z \in D /\ \A d \in D : d <= z
    BY <1>3, FiniteMax
<1> HIDE DEF a, z
<1>6. ASSUME NEW d \in D, NEW e \in D, d < e PROVE Peak(d) < Peak(e)
    <2>1. Peak(d) \in Nat \ {0} /\ Peak(e) \in Nat \ {0}
        BY <1>1, <1>2
    <2>2. d \in Nat /\ e \in Nat
        BY <1>3
    <2>3. periodStartAt("day", Peak(d)) = d /\ periodStartAt("day", Peak(e)) = e
        BY <1>2
    <2>4. Peak(e) <= Peak(d) => e <= d
        BY <2>1, <2>3, DayOf
    <2>5. QED
        BY <1>6, <2>1, <2>2, <2>4
<1>7. ASSUME NEW d \in I
      PROVE  /\ Prev(D, d) \in D /\ Prev(D, d) < d
             /\ DayReal(d) = Consumed(Peak(Prev(D, d)), Peak(d))
             /\ DayDelta(d) = RolloverDelta(DayMax(d) - DayMax(Prev(D, d)))
    <2> DEFINE S == {e \in D : e < d}
    <2>1. d \in Int /\ a \in S
        BY <1>3, <1>4
    <2>2. S \in SUBSET Int /\ S # {} /\ \A e \in S : e <= d
        <3>1. \A e \in D : e \in Int
            BY <1>3
        <3>2. \A e \in S : e \in D /\ e < d
            OBVIOUS
        <3>3. S # {}
            BY <2>1
        <3> HIDE DEF S
        <3>4. ASSUME NEW e \in S PROVE e \in Int /\ e <= d
            <4>1. e \in Int /\ e < d
                BY <3>1, <3>2
            <4>2. QED
                BY <2>1, <4>1
        <3>5. QED
            BY <3>3, <3>4
    <2>3. DayReal(d) = Consumed(Peak(Max(S)), Peak(d))
        BY Zenon DEF DayReal, D
    <2>4. DayDelta(d) = IF S = {} THEN Absent ELSE RolloverDelta(DayMax(d) - DayMax(Max(S)))
        BY Zenon DEF DayDelta, D
    <2>5. Prev(D, d) = Max(S)
        BY Zenon DEF Prev
    <2>6. Max(S) \in S
        <3> HIDE DEF S
        <3>1. QED
            BY <2>1, <2>2, GreatestInteger
    <2>7. QED
        BY <2>2, <2>3, <2>4, <2>5, <2>6, Zenon
<1>8. ASSUME NEW d \in I PROVE DayDelta(d) = DayReal(d)
    <2> DEFINE e == Prev(D, d)
               p == Peak(e)
               h == Peak(d)
    <2>1. /\ e \in D /\ e < d /\ d \in D /\ DayReal(d) = Consumed(p, h)
          /\ DayDelta(d) = RolloverDelta(DayMax(d) - DayMax(e))
        BY <1>7
    <2> HIDE DEF e
    <2>2. /\ p \in 1 .. Len(hours) /\ h \in 1 .. Len(hours) /\ p < h
          /\ hours[p].cmax = DayMax(e) /\ hours[h].cmax = DayMax(d)
          /\ hours[p].cmax # Absent /\ hours[h].cmax # Absent
        <3>1. p \in HB(1, Len(hours) + 1) /\ h \in HB(1, Len(hours) + 1)
            BY <1>2, <2>1
        <3>2. hours[p].cmax # Absent /\ hours[h].cmax # Absent
            BY <3>1 DEF HB
        <3>3. QED
            BY <1>2, <1>6, <2>1, <3>2
    <2> HIDE DEF p, h
    <2>3. count # Absent
        BY <1>1, <2>2 DEF TruthInv
    <2>4. PICK c \in 0 .. Modulus - 1 : \A i \in 1 .. Len(hours) : HeardIn(hours, c, i)
        BY <2>3 DEF TruthInv
    <2>5. hours[h].cmax = TruthIn(hours, c, h) /\ hours[p].cmax = TruthIn(hours, c, p)
        BY <2>2, <2>4 DEF HeardIn, Flipped
    <2>6. p \in 0 .. Len(hours) /\ h \in p .. Len(hours)
        BY <1>1, <2>2
    <2> DEFINE x == hours[p].cmax
               R == Consumed(p, h)
    <2>7. R \in Nat /\ x \in 0 .. Modulus - 1 /\ hours[h].cmax = (x + R) % Modulus
        BY <2>5, <2>6, TruthStep
    <2>8. 2 * R < Modulus
        BY <2>1
    <2>9. DayDelta(d) = RolloverDelta(hours[h].cmax - x)
        BY <2>1, <2>2
    <2> HIDE DEF x, R
    <2>10. RolloverDelta(((x + R) % Modulus) - x) = R
        BY <2>7, <2>8, RollSound
    <2>11. QED
        BY <2>1, <2>7, <2>9, <2>10, Zenon DEF R
<1>9. \A d \in D : pos[d] \in Nat /\ pos[d] = Peak(d)
    BY <1>1, <1>2
<1>10. \A d \in I : g[d] = SumFunctionOnSet(u, pos[Prev(D, d)] + 1 .. pos[d])
    <2> SUFFICES ASSUME NEW d \in I PROVE g[d] = SumFunctionOnSet(u, pos[Prev(D, d)] + 1 .. pos[d])
        OBVIOUS
    <2>1. g[d] = DayReal(d)
        BY <1>8
    <2>2. DayReal(d) = Consumed(Peak(Prev(D, d)), Peak(d)) /\ Prev(D, d) \in D /\ d \in D
        BY <1>7
    <2>3. pos[Prev(D, d)] = Peak(Prev(D, d)) /\ pos[d] = Peak(d)
        BY <1>9, <2>2
    <2> HIDE DEF g, pos
    <2>4. QED
        BY <2>1, <2>2, <2>3, ConsumedIs, Zenon DEF UsedIn
<1>11. DOMAIN g = I
    OBVIOUS
<1> HIDE DEF pos, g
<1>12. \A d, e \in D : d < e => pos[d] < pos[e]
    BY <1>6, <1>9
<1>13. \A x \in pos[a] + 1 .. pos[z] : u[x] \in Int
    <2>1. pos[a] \in 1 .. Len(hours) /\ pos[z] \in 1 .. Len(hours)
        BY <1>2, <1>4, <1>5, <1>9
    <2>2. \A x \in 1 .. Len(hours) : u[x] \in Int
        <3>1. \A x \in 1 .. Len(hours) : hours[x] \in HourType
            BY <1>1
        <3>2. QED
            BY <3>1 DEF UseIn, HourType
    <2> HIDE DEF u
    <2>3. QED
        BY <1>1, <2>1, <2>2
<1>14. SumFunctionOnSet(g, I) = SumFunctionOnSet(u, pos[a] + 1 .. pos[z])
    <2>1. \A d \in D : pos[d] \in Nat
        BY <1>9
    <2> HIDE DEF u
    <2>2. QED
        BY <1>3, <1>10, <1>12, <1>13, <2>1, Telescope DEF a, z
<1>15. pos[a] = Peak(a) /\ pos[z] = Peak(z)
    BY <1>4, <1>5, <1>9
<1>16. QED
    BY <1>11, <1>14, <1>15, ConsumedIs, Zenon DEF SumFunction, UsedIn

\* A page's total and the overlay against what the meter really counted, for
\* every width of the counter, floor, factor, calendar, history of packets and
\* uses, one packet corrupted or none.
THEOREM EnergyMeterFaithful == EnergySpec => []MeterFaithful
<1>1. EnergyType /\ TruthInv => MeterFaithful
    <2> SUFFICES ASSUME EnergyType, TruthInv PROVE PageFaithful /\ OverlayAddsUp
        BY DEF MeterFaithful
    <2>1. ASSUME NEW view \in Views, NEW start \in Pages(view),
                 HB(start, periodNext(view, start)) # {}
          PROVE  LET hi == periodNext(view, start)
                     total == IF Total(view, start) = Absent THEN 0 ELSE Total(view, start)
                     used == Consumed(PageFirst(start, hi), Max(HB(start, hi)))
                     steps == PageSteps(start, hi)
                 IN  IF HB(start - Lookback, hi) \cap Flipped = {}
                     THEN IF \A u \in steps : u <= Floor THEN total = used ELSE total <= used
                     ELSE total <= used + Max({Floor} \cup {Factor * u : u \in steps})
        <3> DEFINE hi == periodNext(view, start)
        <3>1. start \in Int
            BY PageStart DEF Pages, EnergyType
        <3>2. hi \in Int
            BY <3>1, PeriodShape DEF periodNext
        <3>3. Total(view, start) = SumFrom(start, start - Lookback, hi)
            BY <3>1, TotalIsSum
        <3> HIDE DEF hi
        <3>4. PageTotal(start, hi) = IF Total(view, start) = Absent THEN 0 ELSE Total(view, start)
            BY <3>3, Zenon DEF PageTotal
        <3>5. HB(start, hi) # {}
            BY <2>1 DEF hi
        <3>6. HB(start - Lookback, hi) \cap Flipped = {} =>
                 LET used == Consumed(PageFirst(start, hi), Max(HB(start, hi)))
                 IN  /\ PageTotal(start, hi) <= used
                     /\ (\A u \in PageSteps(start, hi) : u <= Floor) => PageTotal(start, hi) = used
            BY <3>1, <3>2, <3>5, PageSound
        <3>7. PageTotal(start, hi) <= Consumed(PageFirst(start, hi), Max(HB(start, hi)))
                                    + Max({Floor} \cup {Factor * u : u \in PageSteps(start, hi)})
            BY <3>1, <3>2, <3>5, PageGlitch
        <3>8. QED
            BY <3>4, <3>6, <3>7, Zenon DEF hi
    <2>2. PageFaithful
        BY <2>1, Zenon DEF PageFaithful, PageFirst, PageSteps
    <2>3. QED
        BY <2>2, OverlayHolds
<1>2. QED
    BY <1>1, EnergyTruth, PTL

-----------------------------------------------------------------------------
(* Bills: what the rows hold is what was used.                             *)

\* The energy of a bucket in the hours u, as the recorder had it when they
\* were n.
BucketHours(p, ts, n) == {h \in ts .. ts + PeriodLen[p] - 1 : h <= n}
BilledOf(u, p, ts, n) == SumFunctionOnSet(u, BucketHours(p, ts, n))

\* No row holds more than its bucket used, and each begins a bucket.
Bounded(G, u) ==
    \A r \in G : r.kwh \in Nat /\ r.kwh <= BilledOf(u, r.period, r.ts, Len(u))
Aligned(G, n) ==
    \A r \in G : r.ts \in 1 .. n /\ (r.ts - 1) % PeriodLen[r.period] = 0

\* One row for each bucket of the first n hours, with what was used in them.
Exact(G, p, n, u) ==
    /\ \A r \in G : /\ r.ts \in 1 .. n /\ (r.ts - 1) % PeriodLen[p] = 0
                    /\ r.kwh = BilledOf(u, p, r.ts, n)
    /\ \A ts \in 1 .. n : (ts - 1) % PeriodLen[p] = 0 => \E r \in G : r.ts = ts
    /\ \A r, q \in G : r.ts = q.ts => r = q

\* Sums of hours that have passed.
LEMMA UseSums ==
    ASSUME NEW u \in Seq(Nat), NEW S \in SUBSET (1 .. Len(u))
    PROVE  /\ IsFiniteSet(S) /\ \A h \in S : u[h] \in Nat /\ u[h] \in Int
           /\ SumFunctionOnSet(u, S) \in Nat
<1>1. Len(u) \in Nat
    OBVIOUS
<1>2. IsFiniteSet(1 .. Len(u))
    BY <1>1, FS_Interval
<1>3. IsFiniteSet(S)
    BY <1>2, FS_Subset
<1>4. \A h \in S : u[h] \in Nat
    OBVIOUS
<1>5. SumFunctionOnSet(u, S) \in Nat
    BY <1>3, <1>4, SumNat
<1>6. QED
    BY <1>3, <1>4, <1>5

\* The hours of a bucket are hours that have passed, and what they used is a
\* natural number.
LEMMA BilledType ==
    ASSUME NEW u \in Seq(Nat), NEW p \in Names, NEW ts \in Nat \ {0}, NEW n \in 0 .. Len(u)
    PROVE  /\ BucketHours(p, ts, n) \in SUBSET (1 .. n)
           /\ BucketHours(p, ts, n) \in SUBSET (1 .. Len(u))
           /\ BilledOf(u, p, ts, n) \in Nat
<1>1. PeriodLen[p] \in Nat \ {0}
    BY BillsAssumption DEF Names
<1>2. Len(u) \in Nat
    OBVIOUS
<1>3. /\ BucketHours(p, ts, n) \in SUBSET (1 .. n)
      /\ BucketHours(p, ts, n) \in SUBSET (1 .. Len(u))
    BY <1>1, <1>2 DEF BucketHours
<1>4. QED
    BY <1>3, UseSums DEF BilledOf

\* An hour more changes nothing in the hours before it: a bucket only grows,
\* and as of then it is what it was.
LEMMA BilledGrows ==
    ASSUME NEW u \in Seq(Nat), NEW x \in Nat, NEW p \in Names, NEW ts \in Nat \ {0}
    PROVE  LET v == Append(u, x) IN
           /\ BilledOf(u, p, ts, Len(u)) <= BilledOf(v, p, ts, Len(v))
           /\ \A n \in 0 .. Len(u) : BilledOf(v, p, ts, n) = BilledOf(u, p, ts, n)
<1> DEFINE v == Append(u, x)
<1>1. /\ v \in Seq(Nat) /\ Len(v) = Len(u) + 1 /\ Len(u) \in Nat
      /\ \A h \in 1 .. Len(u) : v[h] = u[h]
    OBVIOUS
<1> HIDE DEF v
<1>2. ASSUME NEW n \in 0 .. Len(u) PROVE BilledOf(v, p, ts, n) = BilledOf(u, p, ts, n)
    <2> DEFINE S == BucketHours(p, ts, n)
    <2>1. S \in SUBSET (1 .. Len(u))
        BY BilledType
    <2>2. IsFiniteSet(S) /\ \A h \in S : v[h] = u[h]
        BY <1>1, <2>1, UseSums
    <2> HIDE DEF S
    <2>3. SumFunctionOnSet(v, S) = SumFunctionOnSet(u, S)
        BY <2>2, SumSame
    <2>4. QED
        BY <2>3 DEF BilledOf, S
<1>3. BilledOf(u, p, ts, Len(u)) <= BilledOf(v, p, ts, Len(v))
    <2> DEFINE S == BucketHours(p, ts, Len(u))
               T == BucketHours(p, ts, Len(v))
    <2>1. Len(u) \in 0 .. Len(u) /\ Len(v) \in 0 .. Len(v)
        BY <1>1
    <2>2. T \in SUBSET (1 .. Len(v))
        BY <1>1, <2>1, BilledType
    <2>3. PeriodLen[p] \in Nat \ {0}
        BY BillsAssumption DEF Names
    <2>4. S \in SUBSET T
        BY <1>1, <2>3 DEF BucketHours
    <2>5. IsFiniteSet(T) /\ \A h \in T : v[h] \in Nat
        BY <1>1, <2>2, UseSums
    <2>6. BilledOf(v, p, ts, Len(u)) = BilledOf(u, p, ts, Len(u))
        BY <1>2, <2>1
    <2> HIDE DEF S, T
    <2>7. SumFunctionOnSet(v, S) <= SumFunctionOnSet(v, T)
        BY <2>4, <2>5, SumSubset
    <2>8. QED
        BY <2>6, <2>7 DEF BilledOf, S, T
<1>4. QED
    BY <1>2, <1>3 DEF v

\* The larger of two integers.
LEMMA LargerOf ==
    ASSUME NEW a \in Int, NEW b \in Int
    PROVE  Max({a, b}) = IF a >= b THEN a ELSE b
<1>1. \E c \in Int : a <= c /\ b <= c
    BY a <= b \/ b <= a
<1>2. PICK c \in Int : a <= c /\ b <= c
    BY <1>1
<1> DEFINE S == {a, b}
<1>3. S \in SUBSET Int /\ S # {} /\ (\A x \in S : x <= c) /\ \A x : x \in S <=> x = a \/ x = b
    BY <1>2
<1> HIDE DEF S
<1>4. Max(S) \in S /\ \A x \in S : x <= Max(S)
    BY <1>3, GreatestInteger
<1>5. Max(S) = IF a >= b THEN a ELSE b
    BY <1>3, <1>4
<1>6. QED
    BY <1>5 DEF S

\* The last hour of a bucket that has begun.
LEMMA LastHour ==
    ASSUME use \in Seq(Nat), NEW p \in Names, NEW ts \in 1 .. Len(use)
    PROVE  LET last == Max(Hours(p, ts)) IN
           /\ last \in ts .. Len(use)
           /\ Hours(p, ts) = ts .. last
           /\ ts + PeriodLen[p] - 1 <= Len(use) => last = ts + PeriodLen[p] - 1
<1> DEFINE H == Hours(p, ts)
           last == Max(H)
<1>1. PeriodLen[p] \in Nat \ {0} /\ Len(use) \in Nat /\ ts \in Nat
    BY BillsAssumption DEF Names
<1> DEFINE n == Len(use)
           e == ts + PeriodLen[p] - 1
<1>2. \A h : h \in H <=> h \in Int /\ ts <= h /\ h <= e /\ h <= n
    BY <1>1 DEF Hours
<1>3. n \in Int /\ e \in Int /\ ts \in Int /\ ts <= e /\ ts <= n
    BY <1>1
<1> HIDE DEF n, e, H
<1>4. H \in SUBSET Int /\ ts \in H /\ \A h \in H : h <= n
    BY <1>2, <1>3
<1>5. last \in H /\ \A h \in H : h <= last
    BY <1>3, <1>4, GreatestInteger
<1> HIDE DEF last
<1>6. last \in Int /\ ts <= last /\ last <= n /\ last <= e
    BY <1>2, <1>5
<1>7. H = ts .. last
    <2>1. \A h \in H : h \in ts .. last
        BY <1>2, <1>3, <1>5, <1>6
    <2>2. \A h \in ts .. last : h \in H
        BY <1>2, <1>3, <1>6
    <2>3. QED
        BY <2>1, <2>2
<1>8. e <= n => last = e
    <2>1. e <= n => e \in H
        BY <1>2, <1>3
    <2>2. QED
        BY <1>3, <1>5, <1>6, <2>1
<1>9. QED
    BY <1>3, <1>6, <1>7, <1>8 DEF n, e, last, H

\* The recorder's sum grows from bucket to bucket by no more than the bucket
\* used, wherever it restarted.
LEMMA SumStepBounded ==
    ASSUME use \in Seq(Nat), reset \in Nat, NEW p \in Names, NEW ts \in 1 .. Len(use),
           PeriodLen[p] < ts
    PROVE  LET step == Max({0, SumAt(p, ts) - SumAt(p, ts - PeriodLen[p])}) IN
           step \in Nat /\ step <= Billed(p, ts)
<1> DEFINE before == ts - PeriodLen[p]
           last == Max(Hours(p, ts))
           A(m) == {h \in 1 .. m : m <= reset \/ h > reset}
           B == Hours(p, ts)
           Sum(S) == SumFunctionOnSet(use, S)
<1>1. PeriodLen[p] \in Nat \ {0} /\ Len(use) \in Nat /\ ts \in Nat
    BY BillsAssumption DEF Names
<1>2. before \in 1 .. Len(use) /\ before + PeriodLen[p] - 1 = ts - 1 /\ ts - 1 <= Len(use)
    BY <1>1
<1>3. last \in ts .. Len(use) /\ B = ts .. last
    BY LastHour
<1> HIDE DEF before
<1>4. Max(Hours(p, before)) = ts - 1
    BY <1>2, LastHour
<1>5. SumAt(p, ts) = Sum(A(last)) /\ SumAt(p, before) = Sum(A(ts - 1)) /\ Billed(p, ts) = Sum(B)
    BY <1>4, Zenon DEF SumAt, Billed
<1>6. /\ A(last) \in SUBSET (1 .. Len(use)) /\ A(ts - 1) \in SUBSET (1 .. Len(use))
      /\ B \in SUBSET (1 .. Len(use)) /\ A(ts - 1) \cap B = {}
      /\ A(last) \in SUBSET (A(ts - 1) \cup B)
    BY <1>1, <1>3
<1> DEFINE U == A(ts - 1) \cup B
<1>7. U \in SUBSET (1 .. Len(use))
    BY <1>6
<1> HIDE DEF A, B
<1>8. /\ IsFiniteSet(A(ts - 1)) /\ IsFiniteSet(B) /\ IsFiniteSet(U)
      /\ \A h \in U : use[h] \in Nat /\ use[h] \in Int
      /\ Sum(A(last)) \in Nat /\ Sum(A(ts - 1)) \in Nat /\ Sum(B) \in Nat
    BY <1>6, <1>7, UseSums
<1>9. Sum(U) = Sum(A(ts - 1)) + Sum(B)
    BY <1>6, <1>8, SumUnion
<1> HIDE DEF U
<1>10. Sum(A(last)) <= Sum(U)
    <2>1. A(last) \in SUBSET U
        BY <1>6 DEF U
    <2>2. QED
        BY <1>8, <2>1, SumSubset
<1> DEFINE d == SumAt(p, ts) - SumAt(p, before)
<1> HIDE DEF Sum
<1>11. d \in Int /\ d <= Billed(p, ts) /\ Billed(p, ts) \in Nat
    BY <1>5, <1>8, <1>9, <1>10
<1> HIDE DEF d
<1>12. Max({0, d}) = IF 0 >= d THEN 0 ELSE d
    BY <1>11, LargerOf
<1>13. Max({0, d}) \in Nat /\ Max({0, d}) <= Billed(p, ts)
    BY <1>11, <1>12
<1>14. QED
    BY <1>13 DEF d, before

\* What BucketDeltas makes of a statistic's points: no bucket holds more than
\* was used in it, and from changes each holds exactly that.
LEMMA BucketSums ==
    ASSUME use \in Seq(Nat), reset \in Nat, NEW s, NEW p \in Names, NEW change \in BOOLEAN
    PROVE  LET got == BucketDeltas(s, p, change) IN
           /\ Bounded(got, use) /\ Aligned(got, Len(use))
           /\ change /\ got # {} => Exact(got, p, Len(use), use)
<1> DEFINE got == BucketDeltas(s, p, change)
           times == IF change THEN Points(s, p) ELSE {t \in Points(s, p) : t > PeriodLen[p]}
           Kwh(t) == IF change THEN Billed(p, t)
                     ELSE Max({0, SumAt(p, t) - SumAt(p, t - PeriodLen[p])})
           row(t) == [stat |-> s, period |-> p, ts |-> t, kwh |-> Kwh(t)]
<1>1. got = {row(t) : t \in times}
    BY DEF BucketDeltas
<1>2. \A t : row(t).stat = s /\ row(t).period = p /\ row(t).ts = t /\ row(t).kwh = Kwh(t)
    OBVIOUS
<1>3. times \subseteq Starts(p) /\ (change /\ times # {} => times = Starts(p))
    BY DEF Points
<1>4. \A t \in times : Kwh(t) \in Nat /\ Kwh(t) <= Billed(p, t)
    <2> SUFFICES ASSUME NEW t \in times PROVE Kwh(t) \in Nat /\ Kwh(t) <= Billed(p, t)
        OBVIOUS
    <2>1. t \in 1 .. Len(use) /\ t \in Nat \ {0} /\ Len(use) \in 0 .. Len(use)
        BY <1>3 DEF Starts
    <2>2. CASE change
        <3>1. BilledOf(use, p, t, Len(use)) \in Nat
            BY <2>1, BilledType
        <3>2. Billed(p, t) \in Nat
            BY <3>1, Zenon DEF Billed, BilledOf, Hours, BucketHours
        <3>3. QED
            BY <2>2, <3>2
    <2>3. CASE ~change
        <3>1. t > PeriodLen[p]
            BY <2>3
        <3>2. PeriodLen[p] < t
            BY <3>1, <2>1, BillsAssumption DEF Names
        <3>3. QED
            BY <2>1, <2>3, <3>2, SumStepBounded
    <2>4. QED
        BY <2>2, <2>3
<1>5. \A t : Billed(p, t) = BilledOf(use, p, t, Len(use))
    BY Zenon DEF Billed, BilledOf, Hours, BucketHours
<1>6. change => \A t : Kwh(t) = Billed(p, t)
    OBVIOUS
<1> HIDE DEF got, row, Kwh, times
<1>7. \A r \in got : \E t \in times : r = row(t)
    BY <1>1
<1>8. \A t \in times : row(t) \in got
    BY <1>1
<1>9. Bounded(got, use)
    BY <1>2, <1>4, <1>5, <1>7 DEF Bounded
<1>10. Aligned(got, Len(use))
    BY <1>2, <1>3, <1>7 DEF Aligned, Starts
<1>11. ASSUME change, got # {} PROVE Exact(got, p, Len(use), use)
    <2>1. times = Starts(p)
        BY <1>1, <1>3, <1>11
    <2>2. \A r \in got : /\ r.ts \in 1 .. Len(use) /\ (r.ts - 1) % PeriodLen[p] = 0
                         /\ r.kwh = BilledOf(use, p, r.ts, Len(use))
        BY <1>2, <1>5, <1>6, <1>7, <1>11, <2>1 DEF Starts
    <2>3. \A ts \in 1 .. Len(use) : (ts - 1) % PeriodLen[p] = 0 => \E r \in got : r.ts = ts
        BY <1>2, <1>8, <2>1 DEF Starts
    <2>4. \A r, q \in got : r.ts = q.ts => r = q
        BY <1>2, <1>7
    <2>5. QED
        BY <2>2, <2>3, <2>4 DEF Exact
<1>12. QED
    BY <1>9, <1>10, <1>11 DEF got

\* A round that has fetched: no row is newer than what it saw, its buckets
\* hold no more than was used, and from changes they hold all of it; once
\* upserted, they have replaced every row of their series.
RunSums ==
    upc # "wait" =>
        /\ run.hours \in 0 .. Len(use) /\ run.period \in Names
        /\ Bounded(run.got, use) /\ Aligned(run.got, run.hours) /\ Aligned(rows, run.hours)
        /\ run.exact =>
              /\ Exact(run.got, run.period, run.hours, use)
              /\ upc = "keep" => \A r \in rows :
                    r.stat = run.conf.stat /\ r.period = run.period => r \in run.got

\* A round that went through: the table is what it fetched.
CleanSums ==
    clean # NoRun /\ clean.exact =>
        /\ rows = clean.got /\ clean.hours \in 0 .. Len(use) /\ clean.period \in Names
        /\ Exact(clean.got, clean.period, clean.hours, use)

SumsInv ==
    /\ reset \in Nat /\ Bounded(rows, use) /\ Aligned(rows, Len(use))
    /\ RunSums /\ CleanSums

\* A fetch: the rows stored so far are no newer than the hours it saw.
LEMMA FetchSums ==
    ASSUME BillsInv, SumsInv, NEW change \in BOOLEAN, NEW again \in BOOLEAN, NEW failed,
           Fetch(change, failed, again)
    PROVE  SumsInv'
<1> DEFINE p == IF conf.period = "auto" THEN ResolvePeriod(conf.stat, failed) ELSE conf.period
           got == BucketDeltas(conf.stat, p, change)
<1>1. p \in Names
    BY ResolvedName DEF BillsInv
<1>2. /\ Bounded(got, use) /\ Aligned(got, Len(use))
      /\ change /\ got # {} => Exact(got, p, Len(use), use)
    BY <1>1, BucketSums DEF BillsInv, SumsInv
<1>3. Len(use) \in Nat
    BY DEF BillsInv
<1>4. /\ upc = "wait" /\ clean' = NoRun /\ UNCHANGED <<use, reset, conf, rows>>
      /\ \/ UNCHANGED <<upc, run>>
         \/ /\ got # {} /\ upc' = "upsert"
            /\ run' = [conf |-> conf, period |-> p, got |-> got, hours |-> Len(use),
                       exact |-> change, sound |-> failed = {}]
    BY Zenon DEF Fetch, p, got
<1> HIDE DEF p, got
<1>5. RunSums'
    <2>1. CASE UNCHANGED <<upc, run>>
        BY <1>4, <2>1 DEF RunSums
    <2>2. CASE /\ got # {} /\ upc' = "upsert"
               /\ run' = [conf |-> conf, period |-> p, got |-> got, hours |-> Len(use),
                          exact |-> change, sound |-> failed = {}]
        <3>1. /\ run'.period = p /\ run'.got = got /\ run'.hours = Len(use)
              /\ run'.exact = change
            BY <2>2
        <3>2. Aligned(rows, Len(use))
            BY DEF SumsInv
        <3>3. QED
            BY <1>1, <1>2, <1>3, <1>4, <2>2, <3>1, <3>2 DEF RunSums
    <2>3. QED
        BY <1>4, <2>1, <2>2
<1>6. QED
    BY <1>4, <1>5 DEF SumsInv, CleanSums

\* The upsert: of its series it replaces every row, since it has all buckets.
LEMMA UpsertSums ==
    ASSUME BillsInv, SumsInv, UpsertUtilityEnergy PROVE SumsInv'
<1>1. UNCHANGED <<use, reset, conf, clean>> /\ upc = "upsert" /\ Len(use) \in Nat
    BY DEF UpsertUtilityEnergy, BillsInv
<1>2. clean = NoRun
    BY <1>1 DEF BillsInv, CleanInv
<1>3. CASE upc' = "wait" /\ rows' = rows
    BY <1>1, <1>2, <1>3 DEF SumsInv, RunSums, CleanSums
<1>4. CASE /\ rows' = run.got \cup {r \in rows : \A q \in run.got :
                                     <<r.stat, r.period, r.ts>> # <<q.stat, q.period, q.ts>>}
           /\ upc' = "keep" /\ run' = run
    <2>1. /\ rows' \subseteq run.got \cup rows
          /\ \A r \in rows' : r \in run.got \/ (r \in rows /\ \A q \in run.got :
                ~(r.stat = q.stat /\ r.period = q.period /\ r.ts = q.ts))
        BY <1>4
    <2>2. /\ run.hours \in 0 .. Len(use) /\ run.period \in Names
          /\ Bounded(run.got, use) /\ Aligned(run.got, run.hours) /\ Aligned(rows, run.hours)
          /\ run.exact => Exact(run.got, run.period, run.hours, use)
        BY <1>1 DEF SumsInv, RunSums
    <2>3. OneSeries(run.got, run.conf.stat, run.period)
        BY <1>1 DEF BillsInv, RunInv
    <2>4. Bounded(rows', use)
        BY <2>1, <2>2 DEF SumsInv, Bounded
    <2>5. Aligned(rows', run.hours)
        BY <2>1, <2>2 DEF Aligned
    <2>6. Aligned(rows', Len(use))
        BY <1>1, <2>2, <2>5 DEF Aligned
    <2>7. ASSUME run.exact, NEW r \in rows', r.stat = run.conf.stat, r.period = run.period
          PROVE  r \in run.got
        <3> SUFFICES ASSUME r \notin run.got PROVE FALSE
            OBVIOUS
        <3>1. r.ts \in 1 .. run.hours /\ (r.ts - 1) % PeriodLen[run.period] = 0
            BY <2>5, <2>7 DEF Aligned
        <3>2. PICK q \in run.got : q.ts = r.ts
            BY <2>2, <2>7, <3>1 DEF Exact
        <3>3. QED
            BY <2>1, <2>3, <2>7, <3>2 DEF OneSeries
    <2>8. RunSums'
        BY <1>1, <1>4, <2>2, <2>5, <2>7 DEF RunSums
    <2>9. QED
        BY <1>1, <1>2, <2>4, <2>6, <2>8 DEF SumsInv, CleanSums
<1>5. QED
    BY <1>3, <1>4 DEF UpsertUtilityEnergy

\* KeepOnlyUtility leaves exactly what the round fetched.
LEMMA KeepSums ==
    ASSUME BillsInv, SumsInv, KeepOnlyUtility PROVE SumsInv'
<1>1. upc = "keep" /\ upc' = "wait" /\ UNCHANGED <<use, reset, conf>>
    BY DEF KeepOnlyUtility
<1>2. RunSums'
    BY <1>1 DEF RunSums
<1>3. CASE rows' = rows /\ clean' = NoRun
    BY <1>1, <1>2, <1>3 DEF SumsInv, CleanSums
<1>4. CASE /\ rows' = Kept(run.conf.stat, run.period)
           /\ clean' = IF run.conf = conf /\ run.sound THEN run ELSE NoRun
    <2>1. /\ rows' \subseteq rows
          /\ \A r \in rows : r \in rows' <=> r.stat = run.conf.stat /\ r.period = run.period
        BY <1>4 DEF Kept
    <2>2. Bounded(rows', use) /\ Aligned(rows', Len(use))
        BY <2>1 DEF SumsInv, Bounded, Aligned
    <2>3. /\ run.hours \in 0 .. Len(use) /\ run.period \in Names
          /\ run.exact => /\ Exact(run.got, run.period, run.hours, use)
                          /\ \A r \in rows :
                                r.stat = run.conf.stat /\ r.period = run.period => r \in run.got
        BY <1>1 DEF SumsInv, RunSums
    <2>4. run.got \subseteq rows /\ OneSeries(run.got, run.conf.stat, run.period)
        BY <1>1 DEF BillsInv, RunInv
    <2>5. run.got \subseteq rows'
        BY <2>1, <2>4 DEF OneSeries
    <2>6. run.exact => rows' = run.got
        BY <2>1, <2>3, <2>5
    <2>7. clean' # NoRun => clean' = run
        BY <1>4
    <2>8. CleanSums'
        BY <1>1, <2>3, <2>6, <2>7 DEF CleanSums
    <2>9. QED
        BY <1>1, <1>2, <2>2, <2>8 DEF SumsInv
<1>5. QED
    BY <1>3, <1>4 DEF KeepOnlyUtility

\* An hour more: what is stored holds no more than was used, and what was
\* exact as of its round still is.
LEMMA HourSums ==
    ASSUME BillsInv, SumsInv, NEW x \in 1 .. 2, UseHour(x) PROVE SumsInv'
<1>1. /\ use \in Seq(Nat) /\ x \in Nat /\ use' = Append(use, x)
      /\ UNCHANGED <<reset, conf, rows, upc, run, clean>>
    BY DEF UseHour, BillsInv
<1>2. use' \in Seq(Nat) /\ Len(use') = Len(use) + 1 /\ Len(use) \in Nat
    BY <1>1
<1>3. ASSUME NEW G, RowsOK(G), Bounded(G, use) PROVE Bounded(G, use')
    <2> SUFFICES ASSUME NEW r \in G
                 PROVE  r.kwh \in Nat /\ r.kwh <= BilledOf(use', r.period, r.ts, Len(use'))
        BY DEF Bounded
    <2>1. r.period \in Names /\ r.ts \in Nat \ {0}
        BY <1>2, <1>3 DEF RowsOK
    <2>2. BilledOf(use, r.period, r.ts, Len(use)) <= BilledOf(use', r.period, r.ts, Len(use'))
        BY <1>1, <2>1, BilledGrows
    <2>3. r.kwh \in Nat /\ r.kwh <= BilledOf(use, r.period, r.ts, Len(use))
        BY <1>3 DEF Bounded
    <2>4. /\ BilledOf(use, r.period, r.ts, Len(use)) \in Nat
          /\ BilledOf(use', r.period, r.ts, Len(use')) \in Nat
        <3>1. Len(use) \in 0 .. Len(use) /\ Len(use') \in 0 .. Len(use')
            BY <1>2
        <3>2. QED
            BY <1>1, <1>2, <2>1, <3>1, BilledType
    <2>5. QED
        BY <2>2, <2>3, <2>4
<1>4. ASSUME NEW G, NEW p \in Names, NEW n \in 0 .. Len(use), Exact(G, p, n, use)
      PROVE  Exact(G, p, n, use')
    <2>1. \A r \in G : r.ts \in Nat \ {0}
        BY <1>2, <1>4 DEF Exact
    <2>2. \A r \in G : BilledOf(use', p, r.ts, n) = BilledOf(use, p, r.ts, n)
        BY <1>1, <1>4, <2>1, BilledGrows
    <2>3. QED
        BY <1>4, <2>2 DEF Exact
<1>5. Bounded(rows, use')
    BY <1>3 DEF BillsInv, SumsInv
<1>6. Aligned(rows, Len(use'))
    BY <1>2 DEF SumsInv, Aligned
<1>7. RunSums'
    <2> SUFFICES ASSUME upc # "wait" PROVE RunSums'
        BY <1>1 DEF RunSums
    <2>1. /\ run.hours \in 0 .. Len(use) /\ run.period \in Names
          /\ Bounded(run.got, use) /\ Aligned(run.got, run.hours) /\ Aligned(rows, run.hours)
          /\ run.exact => /\ Exact(run.got, run.period, run.hours, use)
                          /\ upc = "keep" => \A r \in rows :
                                r.stat = run.conf.stat /\ r.period = run.period => r \in run.got
        BY DEF SumsInv, RunSums
    <2>2. RowsOK(run.got)
        BY DEF BillsInv, RunInv
    <2>3. Bounded(run.got, use')
        BY <1>3, <2>1, <2>2
    <2>4. run.exact => Exact(run.got, run.period, run.hours, use')
        BY <1>4, <2>1
    <2>5. run.hours \in 0 .. Len(use')
        BY <1>2, <2>1
    <2>6. QED
        BY <1>1, <2>1, <2>3, <2>4, <2>5 DEF RunSums
<1>8. CleanSums'
    <2> SUFFICES ASSUME clean # NoRun, clean.exact PROVE CleanSums'
        BY <1>1 DEF CleanSums
    <2>1. /\ rows = clean.got /\ clean.hours \in 0 .. Len(use) /\ clean.period \in Names
          /\ Exact(clean.got, clean.period, clean.hours, use)
        BY DEF SumsInv, CleanSums
    <2>2. Exact(clean.got, clean.period, clean.hours, use')
        BY <1>4, <2>1
    <2>3. clean.hours \in 0 .. Len(use')
        BY <1>2, <2>1
    <2>4. QED
        BY <1>1, <2>1, <2>2, <2>3 DEF CleanSums
<1>9. QED
    BY <1>1, <1>5, <1>6, <1>7, <1>8 DEF SumsInv

\* What the rows hold at every step of every round, next to BillsInv.
THEOREM BillsSums == BillsSpec => []SumsInv
<1>1. UInit => SumsInv
    BY DEF UInit, SumsInv, RunSums, CleanSums, Bounded, Aligned
<1>2. BillsInv /\ SumsInv /\ [UNext]_uvars => SumsInv'
    <2> SUFFICES ASSUME BillsInv, SumsInv, [UNext]_uvars PROVE SumsInv'
        OBVIOUS
    <2>1. ASSUME NEW x \in 1 .. 2, UseHour(x) PROVE SumsInv'
        BY <2>1, HourSums
    <2>2. CASE SumRestarts
        <3>1. Len(use) \in Nat
            BY DEF BillsInv
        <3>2. QED
            BY <2>2, <3>1 DEF SumRestarts, SumsInv, RunSums, CleanSums
    <2>3. ASSUME NEW change \in BOOLEAN, NEW again \in BOOLEAN, NEW failed \in SUBSET Names,
                 Fetch(change, failed, again)
          PROVE  SumsInv'
        BY <2>3, FetchSums
    <2>4. CASE UpsertUtilityEnergy
        BY <2>4, UpsertSums
    <2>5. CASE KeepOnlyUtility
        BY <2>5, KeepSums
    <2>6. CASE \E c \in Confs : Switch(c)
        BY <2>6 DEF Switch, SumsInv, RunSums, CleanSums
    <2>7. CASE WorkerDies
        BY <2>7 DEF WorkerDies, SumsInv, RunSums, CleanSums
    <2>8. CASE UNCHANGED uvars
        BY <2>8 DEF uvars, SumsInv, RunSums, CleanSums
    <2>9. QED
        BY <2>1, <2>2, <2>3, <2>4, <2>5, <2>6, <2>7, <2>8 DEF UNext
<1>3. QED
    BY <1>1, <1>2, BillsInvariant, PTL DEF BillsSpec

\* Multiples of L leave no remainder, and only they.
LEMMA Multiples ==
    ASSUME NEW L \in Nat \ {0}
    PROVE  /\ \A q \in Nat : (q * L) % L = 0
           /\ \A b \in Nat : b % L = 0 => b \div L \in Nat /\ b = (b \div L) * L
<1>1. ASSUME NEW q \in Nat PROVE (q * L) % L = 0
    OBVIOUS
<1>2. ASSUME NEW b \in Nat, b % L = 0 PROVE b \div L \in Nat /\ b = (b \div L) * L
    BY <1>2
<1>3. QED
    BY <1>1, <1>2

\* The bucket of length L that hour h falls in begins at an aligned hour, and
\* at no other.
LEMMA BucketOf ==
    ASSUME NEW L \in Nat \ {0}, NEW h \in Nat \ {0}
    PROVE  LET st == ((h - 1) \div L) * L + 1 IN
           /\ st \in 1 .. h /\ (st - 1) % L = 0 /\ h <= st + L - 1
           /\ \A ts \in Nat \ {0} : (ts - 1) % L = 0 /\ ts <= h /\ h <= ts + L - 1 => ts = st
<1> DEFINE a == h - 1
           q == a \div L
<1>1. a \in Nat /\ a = h - 1
    OBVIOUS
<1>2. /\ q \in Nat /\ q * L <= a /\ a < q * L + L
      /\ \A i \in Nat : i * L <= a /\ a < i * L + L => i = q
    BY <1>1, SlotOf
<1> HIDE DEF a, q
<1>3. (q * L) % L = 0
    BY <1>2, Multiples
<1>4. q * L \in Nat
    BY <1>2
<1>5. ASSUME NEW ts \in Nat \ {0}, (ts - 1) % L = 0, ts <= h, h <= ts + L - 1
      PROVE  ts = q * L + 1
    <2> DEFINE b == ts - 1
               i == b \div L
    <2>1. b \in Nat /\ b % L = 0
        BY <1>5
    <2> HIDE DEF b
    <2>2. i \in Nat /\ b = i * L
        BY <2>1, Multiples
    <2> HIDE DEF i
    <2>3. i * L <= a /\ a < i * L + L
        BY <1>1, <1>5, <2>1, <2>2 DEF b
    <2>4. i = q
        BY <1>2, <2>2, <2>3
    <2>5. QED
        BY <2>1, <2>2, <2>4 DEF b
<1>6. (q * L + 1) - 1 = q * L
    BY <1>4
<1>7. q * L + 1 \in 1 .. h /\ h <= (q * L + 1) + L - 1
    BY <1>1, <1>2, <1>4
<1>8. QED
    BY <1>3, <1>5, <1>6, <1>7 DEF a, q

\* One row for each bucket with what the bucket used: the buckets share the
\* hours out among them, so the rows add up to the hours.
LEMMA ExactAddsUp ==
    ASSUME NEW u \in Seq(Nat), NEW p \in Names, NEW n \in 0 .. Len(u), NEW G,
           Exact(G, p, n, u)
    PROVE  SumFunction([r \in G |-> r.kwh]) = SumFunctionOnSet(u, 1 .. n)
<1> DEFINE L == PeriodLen[p]
           S == 1 .. n
           st(h) == ((h - 1) \div L) * L + 1
           k == [h \in S |-> CHOOSE r \in G : r.ts = st(h)]
           g == [r \in G |-> r.kwh]
<1>1. L \in Nat \ {0} /\ n \in Nat /\ n <= Len(u) /\ Len(u) \in Nat
    BY BillsAssumption DEF Names
<1>2. S \in SUBSET (1 .. Len(u))
    BY <1>1
<1> HIDE DEF L
<1>3. IsFiniteSet(S) /\ \A h \in S : u[h] \in Int /\ h \in Nat \ {0}
    <2>1. \A h \in S : h \in Nat \ {0}
        BY <1>1
    <2> HIDE DEF S
    <2>2. QED
        BY <1>2, <2>1, UseSums
<1>4. \A h \in S : /\ st(h) \in 1 .. h /\ (st(h) - 1) % L = 0 /\ h <= st(h) + L - 1
                   /\ \A ts \in Nat \ {0} :
                         (ts - 1) % L = 0 /\ ts <= h /\ h <= ts + L - 1 => ts = st(h)
    BY <1>1, <1>3, BucketOf
<1> HIDE DEF st
<1>5. /\ \A r \in G : r.ts \in 1 .. n /\ (r.ts - 1) % L = 0 /\ r.kwh = BilledOf(u, p, r.ts, n)
      /\ \A ts \in 1 .. n : (ts - 1) % L = 0 => \E r \in G : r.ts = ts
      /\ \A r, q \in G : r.ts = q.ts => r = q
    BY DEF Exact, L
<1>6. \A h \in S : k[h] \in G /\ k[h].ts = st(h)
    <2> SUFFICES ASSUME NEW h \in S PROVE k[h] \in G /\ k[h].ts = st(h)
        OBVIOUS
    <2>1. st(h) \in 1 .. n
        BY <1>1, <1>3, <1>4
    <2>2. \E r \in G : r.ts = st(h)
        BY <1>4, <1>5, <2>1
    <2>3. k[h] = CHOOSE r \in G : r.ts = st(h)
        OBVIOUS
    <2>4. QED
        BY <2>2, <2>3
<1> HIDE DEF k
<1>7. ASSUME NEW r \in G PROVE Fiber(k, S, r) = BucketHours(p, r.ts, n)
    <2>1. r.ts \in 1 .. n /\ (r.ts - 1) % L = 0 /\ r.ts \in Nat \ {0}
        BY <1>1, <1>5
    <2>2. ASSUME NEW h \in Fiber(k, S, r) PROVE h \in BucketHours(p, r.ts, n)
        <3>1. h \in S /\ k[h] = r
            BY DEF Fiber
        <3>2. r.ts = st(h)
            BY <1>6, <3>1
        <3>3. r.ts <= h /\ h <= r.ts + L - 1 /\ h <= n /\ h \in Int
            BY <1>1, <1>3, <1>4, <3>1, <3>2
        <3>4. QED
            BY <1>1, <2>1, <3>3 DEF BucketHours, L
    <2>3. ASSUME NEW h \in BucketHours(p, r.ts, n) PROVE h \in Fiber(k, S, r)
        <3>1. h \in Int /\ r.ts <= h /\ h <= r.ts + L - 1 /\ h <= n
            BY <1>1, <2>1 DEF BucketHours, L
        <3>2. h \in S
            BY <1>1, <2>1, <3>1
        <3>3. r.ts = st(h)
            BY <1>4, <2>1, <3>1, <3>2
        <3>4. k[h] \in G /\ k[h].ts = r.ts
            BY <1>6, <3>2, <3>3
        <3>5. k[h] = r
            BY <1>5, <3>4
        <3>6. QED
            BY <3>2, <3>5 DEF Fiber
    <2>4. QED
        BY <2>2, <2>3
<1>8. \A r \in G : g[r] = SumFunctionOnSet(u, Fiber(k, S, r))
    <2> SUFFICES ASSUME NEW r \in G PROVE g[r] = SumFunctionOnSet(u, Fiber(k, S, r))
        OBVIOUS
    <2>1. g[r] = BilledOf(u, p, r.ts, n)
        BY <1>5
    <2>2. QED
        BY <1>7, <2>1, Zenon DEF BilledOf
<1>9. IsFiniteSet(G)
    <2> DEFINE i == [r \in G |-> r.ts]
    <2>1. i \in [G -> S] /\ \A r, q \in G : i[r] = i[q] => r = q
        BY <1>5
    <2>2. i \in Injection(G, S)
        BY <2>1 DEF Injection, IsInjective
    <2> HIDE DEF i, S
    <2>3. QED
        BY <1>3, <2>2, FS_Injection
<1>10. DOMAIN g = G
    OBVIOUS
<1>11. SumFunctionOnSet(u, S) = SumFunctionOnSet(g, G)
    <2> HIDE DEF g, S
    <2>1. (\A h \in S : u[h] \in Int) /\ \A h \in S : k[h] \in G
        BY <1>3, <1>6
    <2>2. QED
        BY <1>3, <1>8, <1>9, <2>1, SumPartition
<1>12. QED
    BY <1>10, <1>11, Zenon DEF SumFunction

\* The bill on the dashboard is honest, for every history of use, every
\* restart of the recorder's sum, every order of rounds, failures, deaths and
\* changes of the settings: one unbroken series of one period, no bucket of
\* which holds more than was used in it; and after a round that went through
\* from changes its buckets add up to all that had been used.
THEOREM BillsHonest == BillsSpec => []BillHonest
<1>1. BillsInv /\ SumsInv => SeriesBounded
    <2> SUFFICES ASSUME SumsInv, NEW p, NEW r \in Series(conf.stat, p)
                 PROVE  r.kwh <= Billed(p, r.ts)
        BY DEF SeriesBounded
    <2>1. r \in rows /\ r.period = p
        BY DEF Series
    <2>2. r.kwh <= BilledOf(use, p, r.ts, Len(use))
        BY <2>1 DEF SumsInv, Bounded
    <2>3. Billed(p, r.ts) = BilledOf(use, p, r.ts, Len(use))
        BY Zenon DEF Billed, BilledOf, Hours, BucketHours
    <2>4. QED
        BY <2>2, <2>3
<1>2. BillsInv /\ SumsInv => RoundAddsUp
    <2> SUFFICES ASSUME BillsInv, SumsInv, clean # NoRun, clean.exact
                 PROVE  SumFunction([r \in Series(conf.stat, clean.period) |-> r.kwh])
                          = SumFunctionOnSet(use, 1 .. clean.hours)
        BY DEF RoundAddsUp
    <2>1. /\ rows = clean.got /\ clean.hours \in 0 .. Len(use) /\ clean.period \in Names
          /\ Exact(clean.got, clean.period, clean.hours, use)
        BY DEF SumsInv, CleanSums
    <2>2. Series(conf.stat, clean.period) = clean.got
        BY <2>1 DEF Series, BillsInv, CleanInv, OneSeries
    <2>3. use \in Seq(Nat)
        BY DEF BillsInv
    <2>4. SumFunction([r \in clean.got |-> r.kwh]) = SumFunctionOnSet(use, 1 .. clean.hours)
        BY <2>1, <2>3, ExactAddsUp
    <2>5. QED
        BY <2>2, <2>4, Zenon
<1>3. QED
    BY <1>1, <1>2, BillsInvariant, BillsSums, BillsSeriesUnbroken, BillsRoundStored, PTL
       DEF BillHonest

-----------------------------------------------------------------------------
(* Screen: the physics screen passes the home's own meter.                 *)

DayType == [mon : Nat, home : Nat, counts : Int, covered : BOOLEAN, heard : BOOLEAN]

\* Of a day the meter has counted what was used but for less than one count,
\* whatever was left over from the days before.
Counted(d, t) ==
    /\ d.mon <= d.home
    /\ 10 * d.counts - d.home * t <= 9 /\ d.home * t - 10 * d.counts <= 9

HomeInv ==
    /\ decade \in {-1} \cup Decades /\ fraction \in 0 .. 9 /\ days \in Seq(DayType)
    /\ decade = -1 => days = <<>>
    /\ decade # -1 => bills \in BillSets
    /\ \A d \in 1 .. Len(days) : Counted(days[d], 10 ^ decade)

\* The counts per tenth of a kWh, times ten.
LEMMA TensOf ==
    ASSUME NEW j \in Decades
    PROVE  10 ^ j \in {1, 10, 100} /\ 10 ^ j \in Nat /\ (j = 0 => 10 ^ j = 1)
           /\ (j = 1 => 10 ^ j = 10) /\ (j = 2 => 10 ^ j = 100)
<1>1. CASE j = 0
    <2>1. 10 ^ j = 1
        BY <1>1
    <2>2. QED
        BY <1>1, <2>1
<1>2. CASE j = 1
    <2>1. 10 ^ j = 10
        BY <1>2
    <2>2. QED
        BY <1>2, <2>1
<1>3. CASE j = 2
    <2>1. 10 ^ j = 100
        BY <1>3
    <2>2. QED
        BY <1>3, <2>1
<1>4. QED
    BY <1>1, <1>2, <1>3 DEF Decades

\* What division by ten leaves.
LEMMA Remainder ==
    ASSUME NEW a \in Nat
    PROVE  a % 10 \in 0 .. 9 /\ a \div 10 \in Nat /\ a - (a \div 10) * 10 = a % 10
OBVIOUS

\* A day of the home keeps the account of the fraction.
LEMMA HomeDayInv ==
    ASSUME HomeInv, NEW mon \in Monitored, NEW rest \in Rests, NEW c \in BOOLEAN,
           NEW h \in BOOLEAN, HomeDay(mon, rest, c, h)
    PROVE  HomeInv'
<1> DEFINE t == 10 ^ decade
           x == (mon + rest) * t
           energy == fraction + x
           day == [mon |-> mon, home |-> mon + rest, counts |-> energy \div 10,
                   covered |-> c, heard |-> h]
<1>1. decade \in Decades /\ decade # -1
    BY DEF HomeInv, HomeDay, Decades
<1>2. t \in Nat
    BY <1>1, TensOf
<1>3. mon \in Nat /\ rest \in Nat /\ mon + rest \in Nat /\ mon <= mon + rest
    BY ScreenAssumption
<1>4. fraction' = energy % 10 /\ days' = Append(days, day) /\ UNCHANGED <<decade, bills>>
    BY DEF HomeDay
<1> HIDE DEF t
<1>5. x \in Nat /\ fraction \in 0 .. 9
    BY <1>2, <1>3 DEF HomeInv
<1> HIDE DEF x
<1>6. energy \in Nat
    BY <1>5
<1> HIDE DEF energy
<1>7. /\ energy % 10 \in 0 .. 9 /\ energy \div 10 \in Nat
      /\ energy - (energy \div 10) * 10 = energy % 10
    BY <1>6, Remainder
<1> DEFINE q == energy \div 10
<1>8. q \in Nat /\ 10 * q - x <= 9 /\ x - 10 * q <= 9
    BY <1>5, <1>7 DEF energy
<1>9. day \in DayType
    BY <1>3, <1>8 DEF DayType
<1>10. day.mon = mon /\ day.home = mon + rest /\ day.counts = q
    OBVIOUS
<1> HIDE DEF q, day
<1>11. Counted(day, t)
    BY <1>3, <1>8, <1>10 DEF Counted, x
<1>12. days' \in Seq(DayType) /\ Len(days') = Len(days) + 1 /\ Len(days) \in Nat
       /\ days'[Len(days) + 1] = day /\ \A d \in 1 .. Len(days) : days'[d] = days[d]
    BY <1>4, <1>9 DEF HomeInv
<1>13. \A d \in 1 .. Len(days) : Counted(days[d], t)
    BY DEF HomeInv, t
<1>14. \A d \in 1 .. Len(days') : Counted(days'[d], t)
    <2> SUFFICES ASSUME NEW d \in 1 .. Len(days') PROVE Counted(days'[d], t)
        OBVIOUS
    <2>1. CASE d = Len(days) + 1
        BY <1>11, <1>12, <2>1
    <2>2. CASE d # Len(days) + 1
        <3>1. d \in 1 .. Len(days)
            BY <1>12, <2>2
        <3>2. days'[d] = days[d]
            BY <1>12, <3>1
        <3>3. QED
            BY <1>13, <3>1, <3>2
    <2>3. QED
        BY <2>1, <2>2
<1>15. bills \in BillSets
    BY <1>1 DEF HomeInv
<1>16. QED
    BY <1>1, <1>4, <1>7, <1>12, <1>14, <1>15 DEF HomeInv, t

\* The home's inductive invariant: each day's counts are off by less than one.
THEOREM ScreenHomeInv == ScreenSpec => []HomeInv
<1>1. SInit => HomeInv
    BY DEF SInit, HomeInv
<1>2. HomeInv /\ [SNext]_svars => HomeInv'
    <2> SUFFICES ASSUME HomeInv, [SNext]_svars PROVE HomeInv'
        OBVIOUS
    <2>1. ASSUME NEW j \in Decades, NEW b \in BillSets, Home(j, b) PROVE HomeInv'
        <3>1. days = <<>> /\ days' = <<>> /\ decade' = j /\ bills' = b /\ fraction' = fraction
            BY <2>1 DEF Home, HomeInv
        <3>2. Len(days') = 0 /\ days' \in Seq(DayType) /\ j # -1
            BY <3>1 DEF Decades
        <3>3. QED
            BY <3>1, <3>2 DEF HomeInv
    <2>2. ASSUME NEW mon \in Monitored, NEW rest \in Rests, NEW c \in BOOLEAN, NEW h \in BOOLEAN,
                 HomeDay(mon, rest, c, h)
          PROVE  HomeInv'
        BY <2>2, HomeDayInv
    <2>3. CASE UNCHANGED svars
        BY <2>3 DEF svars, HomeInv
    <2>4. QED
        BY <2>1, <2>2, <2>3 DEF SNext
<1>3. QED
    BY <1>1, <1>2, PTL DEF ScreenSpec

\* The sums of the screen over the days it uses.
SumHome == SumFunction([d \in UsedDays |-> days[d].home])

\* Over those days, too, the meter is off by less than a count a day.
LEMMA UsedSums ==
    ASSUME HomeInv, decade # -1
    PROVE  LET n == Cardinality(UsedDays)
               t == 10 ^ decade
           IN  /\ n \in Nat /\ SumMon \in Nat /\ SumHome \in Nat /\ SumCounts \in Int
               /\ SumMon <= SumHome
               /\ 10 * SumCounts <= t * SumHome + 9 * n
               /\ t * SumHome <= 10 * SumCounts + 9 * n
<1> DEFINE S == UsedDays
           t == 10 ^ decade
           m == [d \in S |-> days[d].mon]
           h == [d \in S |-> days[d].home]
           c == [d \in S |-> days[d].counts]
           c10 == [d \in S |-> 10 * c[d]]
           ht == [d \in S |-> t * h[d]]
           Sum(f) == SumFunctionOnSet(f, S)
<1>1. t \in Nat
    BY TensOf DEF HomeInv
<1>2. S \in SUBSET (1 .. Len(days)) /\ Len(days) \in Nat
    BY DEF UsedDays, HomeInv
<1>3. IsFiniteSet(S) /\ Cardinality(S) \in Nat
    <2>1. IsFiniteSet(1 .. Len(days))
        BY <1>2, FS_Interval
    <2> HIDE DEF S
    <2>2. IsFiniteSet(S)
        BY <1>2, <2>1, FS_Subset
    <2>3. QED
        BY <2>2, FS_CardinalityType
<1>4. SumMon = Sum(m) /\ SumHome = Sum(h) /\ SumCounts = Sum(c)
    <2>1. DOMAIN m = S /\ DOMAIN h = S /\ DOMAIN c = S
        OBVIOUS
    <2>2. QED
        BY <2>1, Zenon DEF SumMon, SumHome, SumCounts, SumFunction
<1> HIDE DEF t
<1>5. \A d \in S : /\ m[d] \in Nat /\ h[d] \in Nat /\ c[d] \in Int /\ m[d] <= h[d]
                   /\ 10 * c[d] - h[d] * t <= 9 /\ h[d] * t - 10 * c[d] <= 9
    <2> SUFFICES ASSUME NEW d \in S
                 PROVE  /\ m[d] \in Nat /\ h[d] \in Nat /\ c[d] \in Int /\ m[d] <= h[d]
                        /\ 10 * c[d] - h[d] * t <= 9 /\ h[d] * t - 10 * c[d] <= 9
        OBVIOUS
    <2>1. days[d] \in DayType /\ Counted(days[d], t)
        BY <1>2 DEF HomeInv, t
    <2>2. QED
        BY <2>1 DEF DayType, Counted
<1> HIDE DEF m, h, c, S
<1>6. \A d \in S : /\ c10[d] = 10 * c[d] /\ ht[d] = t * h[d]
                   /\ c10[d] \in Int /\ ht[d] \in Int
                   /\ c10[d] <= ht[d] + 9 /\ ht[d] <= c10[d] + 9
    <2> SUFFICES ASSUME NEW d \in S
                 PROVE  /\ c10[d] = 10 * c[d] /\ ht[d] = t * h[d]
                        /\ c10[d] \in Int /\ ht[d] \in Int
                        /\ c10[d] <= ht[d] + 9 /\ ht[d] <= c10[d] + 9
        OBVIOUS
    <2>1. c10[d] = 10 * c[d] /\ ht[d] = t * h[d]
        OBVIOUS
    <2>2. t * h[d] = h[d] * t /\ t * h[d] \in Int /\ 10 * c[d] \in Int
        BY <1>1, <1>5
    <2>3. QED
        BY <1>5, <2>1, <2>2
<1> HIDE DEF c10, ht
<1>7. Sum(m) \in Nat /\ Sum(h) \in Nat /\ Sum(c) \in Int /\ Sum(m) <= Sum(h)
    <2>1. \A d \in S : m[d] \in Int /\ h[d] \in Int /\ m[d] <= h[d]
        BY <1>5
    <2>2. Sum(m) \in Nat /\ Sum(h) \in Nat
        BY <1>3, <1>5, SumNat
    <2>3. Sum(c) \in Int
        BY <1>3, <1>5, SumOrder
    <2>4. QED
        BY <1>3, <2>1, <2>2, <2>3, SumMono
<1>8. Sum(c10) = 10 * Sum(c) /\ Sum(ht) = t * Sum(h)
    <2>1. \A d \in S : c[d] \in Int /\ h[d] \in Int /\ c10[d] = 10 * c[d] /\ ht[d] = t * h[d]
        BY <1>5, <1>6
    <2>2. t \in Int /\ 10 \in Int
        BY <1>1
    <2>3. QED
        BY <1>3, <2>1, <2>2, SumScale
<1>9. Sum(c10) <= Sum(ht) + 9 * Cardinality(S) /\ Sum(ht) <= Sum(c10) + 9 * Cardinality(S)
    BY <1>3, <1>6, SumClose
<1>10. QED
    BY <1>3, <1>4, <1>7, <1>8, <1>9 DEF t, S

\* Arithmetic of the band: with at least 100 a day monitored, a home of at
\* most three times that less a count, and a meter off by less than a count a
\* day, the meter's total is in the band at its own unit, and past it on one
\* side at every other.
LEMMA BandArithmetic ==
    ASSUME NEW n \in Nat, NEW M \in Nat, NEW H \in Nat, NEW C \in Int,
           NEW t \in {1, 10, 100}, n >= 1, M <= H, M >= 100 * n, H <= 3 * M - 10 * n,
           10 * C <= t * H + 9 * n, t * H <= 10 * C + 9 * n
    PROVE  /\ (9 * M) * t <= C * 100 /\ C * 100 <= (30 * M) * t
           /\ (6 * H) * t <= C * 100 /\ C * 100 <= (14 * H) * t
           /\ \A s \in {1, 10, 100} : s # t => ~((9 * M) * s <= C * 100 /\ C * 100 <= (30 * M) * s)
<1>1. CASE t = 1
    BY <1>1
<1>2. CASE t = 10
    BY <1>2
<1>3. CASE t = 100
    BY <1>3
<1>4. QED
    BY <1>1, <1>2, <1>3

\* Scaling keeps the order.
LEMMA Scaled ==
    ASSUME NEW a \in Int, NEW b \in Int, a <= b, NEW t \in {1, 10, 100}
    PROVE  a * t <= b * t
BY t = 1 \/ t = 10 \/ t = 100

\* The smaller of two integers.
LEMMA SmallerOf ==
    ASSUME NEW a \in Int, NEW b \in Int
    PROVE  Min({a, b}) = IF a <= b THEN a ELSE b
<1> DEFINE m == IF a <= b THEN a ELSE b
           S == {a, b}
<1>1. m \in S /\ m \in Int /\ (\A x \in S : m <= x /\ x \in Int)
    OBVIOUS
<1> HIDE DEF m, S
<1>2. Min(S) \in S /\ \A x \in S : Min(S) <= x
    BY <1>1 DEF Min
<1>3. Min(S) \in Int /\ Min(S) <= m /\ m <= Min(S)
    BY <1>1, <1>2
<1>4. Min(S) = m
    BY <1>1, <1>3
<1>5. QED
    BY <1>4 DEF m, S

\* The band lies within 0.9 and 3 times the monitored energy, and each end is
\* one of these or the bills'.
LEMMA BandEnds ==
    ASSUME HomeInv, decade # -1
    PROVE  LET n == Cardinality(UsedDays)
               rates == MonthRates(bills)
           IN  /\ Band[1] \in Int /\ Band[2] \in Int
               /\ 9 * SumMon <= Band[1] /\ Band[2] <= 30 * SumMon
               /\ rates # {} => Min(rates) \in Int /\ Max(rates) \in Int
               /\ Band[1] = 9 * SumMon \/ (rates # {} /\ Band[1] = 6 * n * Min(rates))
               /\ Band[2] = 30 * SumMon \/ (rates # {} /\ Band[2] = 14 * n * Max(rates))
<1> DEFINE n == Cardinality(UsedDays)
           rates == MonthRates(bills)
           lo == 9 * SumMon
           hi == 30 * SumMon
           a == 6 * n * Min(rates)
           b == 14 * n * Max(rates)
           blo == Max({lo, a})
           bhi == Min({hi, b})
<1>1. n \in Nat /\ SumMon \in Nat
    BY UsedSums
<1>2. Band = IF rates # {} /\ blo < bhi THEN <<blo, bhi>> ELSE <<lo, hi>>
    BY DEF Band
<1>3. rates # {} => Min(rates) \in Int /\ Max(rates) \in Int
    <2> DEFINE all == UNION {bills[m] : m \in DOMAIN bills}
    <2>1. Month \in DOMAIN bills /\ all \in SUBSET Nat /\ IsFiniteSet(all)
        BY ScreenAssumption DEF HomeInv
    <2>2. rates \in SUBSET all
        BY <2>1 DEF MonthRates
    <2> HIDE DEF all, rates
    <2>3. IsFiniteSet(rates) /\ rates \in SUBSET Nat /\ rates \in SUBSET Int
        <3>1. IsFiniteSet(rates)
            BY <2>1, <2>2, FS_Subset
        <3>2. QED
            BY <2>1, <2>2, <3>1
    <2>4. rates # {} => Min(rates) \in rates
        BY <2>3, LeastNatural
    <2>5. rates # {} => Max(rates) \in rates
        BY <2>3, FiniteMax
    <2>6. QED
        BY <2>3, <2>4, <2>5
<1> HIDE DEF n, rates
<1>4. lo \in Int /\ hi \in Int
    BY <1>1
<1>5. rates # {} => a \in Int /\ b \in Int
    BY <1>1, <1>3
<1> HIDE DEF a, b, lo, hi
<1>6. rates # {} => /\ blo = (IF lo >= a THEN lo ELSE a)
                    /\ bhi = (IF hi <= b THEN hi ELSE b)
    BY <1>4, <1>5, LargerOf, SmallerOf
<1> HIDE DEF blo, bhi
<1>7. CASE rates # {} /\ blo < bhi
    <2>1. Band[1] = blo /\ Band[2] = bhi
        BY <1>2, <1>7
    <2>2. QED
        BY <1>3, <1>4, <1>5, <1>6, <1>7, <2>1 DEF n, rates, lo, hi, a, b
<1>8. CASE ~(rates # {} /\ blo < bhi)
    <2>1. Band[1] = lo /\ Band[2] = hi
        BY <1>2, <1>8
    <2>2. QED
        BY <1>3, <1>4, <2>1 DEF rates, lo, hi
<1>9. QED
    BY <1>7, <1>8

\* The screen never rejects the home's own meter, whatever it counts in, on
\* however many days the feed covers and whatever they used: its counts are
\* off by less than one a day (HomeInv), which the band's margins and the
\* slack of the physics gate absorb, and a factor of ten they do not.
THEOREM ScreenOwnMeter == ScreenSpec => []OwnMeterSurvives
<1>1. HomeInv => OwnMeterSurvives
    <2> DEFINE n == Cardinality(UsedDays)
               rates == MonthRates(bills)
               t == 10 ^ decade
               fitting == {j \in Decades : Fits(j)}
    <2> SUFFICES ASSUME HomeInv, decade # -1, Verdict # "none",
                        SumMon >= 100 * n, SumHome <= 3 * SumMon - 10 * n,
                        rates # {} => n * Min(rates) <= SumHome /\ SumHome <= n * Max(rates)
                 PROVE  Verdict = "pass" /\ fitting = {decade}
        BY DEF OwnMeterSurvives, SumHome
    <2>1. decade \in Decades /\ t \in {1, 10, 100} /\ t \in Nat
        BY TensOf DEF HomeInv
    <2>2. n >= MinDays /\ n >= 1 /\ n \in Nat
        BY UsedSums, ScreenAssumption DEF Verdict
    <2>3. /\ SumMon \in Nat /\ SumHome \in Nat /\ SumCounts \in Int /\ SumMon <= SumHome
          /\ 10 * SumCounts <= t * SumHome + 9 * n /\ t * SumHome <= 10 * SumCounts + 9 * n
        BY UsedSums
    <2>4. /\ Band[1] \in Int /\ Band[2] \in Int
          /\ 9 * SumMon <= Band[1] /\ Band[2] <= 30 * SumMon
          /\ rates # {} => Min(rates) \in Int /\ Max(rates) \in Int
          /\ Band[1] = 9 * SumMon \/ (rates # {} /\ Band[1] = 6 * n * Min(rates))
          /\ Band[2] = 30 * SumMon \/ (rates # {} /\ Band[2] = 14 * n * Max(rates))
        BY BandEnds
    <2> HIDE DEF n, rates, t
    <2>5. /\ (9 * SumMon) * t <= SumCounts * 100 /\ SumCounts * 100 <= (30 * SumMon) * t
          /\ (6 * SumHome) * t <= SumCounts * 100 /\ SumCounts * 100 <= (14 * SumHome) * t
          /\ \A s \in {1, 10, 100} : s # t =>
                ~((9 * SumMon) * s <= SumCounts * 100 /\ SumCounts * 100 <= (30 * SumMon) * s)
        BY <2>1, <2>2, <2>3, BandArithmetic
    <2>6. Fits(decade)
        <3>1. Band[1] * t <= SumCounts * 100
            <4>1. CASE Band[1] = 9 * SumMon
                BY <2>5, <4>1
            <4>2. CASE rates # {} /\ Band[1] = 6 * n * Min(rates)
                <5>1. Band[1] <= 6 * SumHome
                    BY <2>2, <2>3, <2>4, <4>2
                <5>2. Band[1] * t <= (6 * SumHome) * t
                    BY <2>1, <2>3, <2>4, <5>1, Scaled
                <5>3. QED
                    BY <2>1, <2>3, <2>4, <2>5, <5>2
            <4>3. QED
                BY <2>4, <4>1, <4>2
        <3>2. SumCounts * 100 <= Band[2] * t
            <4>1. CASE Band[2] = 30 * SumMon
                BY <2>5, <4>1
            <4>2. CASE rates # {} /\ Band[2] = 14 * n * Max(rates)
                <5>1. 14 * SumHome <= Band[2]
                    BY <2>2, <2>3, <2>4, <4>2
                <5>2. (14 * SumHome) * t <= Band[2] * t
                    BY <2>1, <2>3, <2>4, <5>1, Scaled
                <5>3. QED
                    BY <2>1, <2>3, <2>4, <2>5, <5>2
            <4>3. QED
                BY <2>4, <4>1, <4>2
        <3>3. QED
            BY <3>1, <3>2 DEF Fits, t
    <2>7. ASSUME NEW j \in Decades, j # decade PROVE ~Fits(j)
        <3> DEFINE s == 10 ^ j
        <3>1. s \in {1, 10, 100} /\ s # t /\ s \in Nat
            <4>1. s \in {1, 10, 100} /\ s \in Nat
                BY TensOf
            <4>2. j \in {0, 1, 2} /\ decade \in {0, 1, 2}
                BY <2>1 DEF Decades
            <4>3. (j = 0 => s = 1) /\ (j = 1 => s = 10) /\ (j = 2 => s = 100)
                BY TensOf
            <4>4. (decade = 0 => t = 1) /\ (decade = 1 => t = 10) /\ (decade = 2 => t = 100)
                BY <2>1, TensOf DEF t
            <4> HIDE DEF s
            <4>5. QED
                BY <2>7, <4>1, <4>2, <4>3, <4>4
        <3>2. Fits(j) => Band[1] * s <= SumCounts * 100 /\ SumCounts * 100 <= Band[2] * s
            BY DEF Fits
        <3> HIDE DEF s
        <3>3. (9 * SumMon) * s <= Band[1] * s /\ Band[2] * s <= (30 * SumMon) * s
            BY <2>3, <2>4, <3>1, Scaled
        <3>4. ~((9 * SumMon) * s <= SumCounts * 100 /\ SumCounts * 100 <= (30 * SumMon) * s)
            BY <2>5, <3>1
        <3>5. /\ (9 * SumMon) * s \in Int /\ Band[1] * s \in Int
              /\ (30 * SumMon) * s \in Int /\ Band[2] * s \in Int /\ SumCounts * 100 \in Int
            BY <2>3, <2>4, <3>1
        <3>6. QED
            BY <3>2, <3>3, <3>4, <3>5
    <2>8. fitting = {decade}
        BY <2>1, <2>6, <2>7
    <2>9. Units = {decade}
        BY <2>1, <2>6, <2>7 DEF Units
    <2>10. ASSUME NEW d \in UsedDays PROVE Covers(decade, d)
        <3>1. d \in 1 .. Len(days)
            BY DEF UsedDays
        <3>2. days[d] \in DayType /\ Counted(days[d], t)
            BY <3>1 DEF HomeInv, t
        <3> DEFINE m == days[d].mon
                   h == days[d].home
                   c == days[d].counts
        <3>3. /\ m \in Nat /\ h \in Nat /\ c \in Int /\ m <= h
              /\ 10 * c - h * t <= 9 /\ h * t - 10 * c <= 9
            BY <3>2 DEF DayType, Counted
        <3>4. Covers(decade, d) <=> 20 * 10 * c + Max({300, m}) * t >= 20 * m * t
            BY DEF Covers, t
        <3> HIDE DEF m, h, c
        <3>5. Max({300, m}) \in Int /\ 300 <= Max({300, m})
            <4>1. Max({300, m}) = IF 300 >= m THEN 300 ELSE m
                BY <3>3, LargerOf
            <4>2. QED
                BY <3>3, <4>1
        <3> DEFINE x == Max({300, m})
        <3>6. m * t <= h * t /\ 300 * t <= x * t
            BY <2>1, <3>3, <3>5, Scaled
        <3>7. x \in Int
            BY <3>5
        <3> HIDE DEF x
        <3>8. 20 * m * t = 20 * (m * t) /\ m * t \in Int /\ h * t \in Int /\ x * t \in Int
            BY <2>1, <3>3, <3>7
        <3>9. 300 * t >= 300
            BY <2>1
        <3>10. 20 * 10 * c + x * t >= 20 * m * t
            BY <2>1, <3>3, <3>6, <3>8, <3>9
        <3>11. QED
            BY <3>4, <3>10 DEF x
    <2>11. Verdict = "pass"
        BY <2>9, <2>10 DEF Verdict
    <2>12. QED
        BY <2>8, <2>11
<1>2. QED
    BY <1>1, ScreenHomeInv, PTL

-----------------------------------------------------------------------------
(* Estimate: the calendar, the bills' days, and what they add up to.       *)

\* There is a month, and every month has a day.
LEMMA MonthsHaveDays ==
    /\ MonthCount \in Nat \ {0}
    /\ \A m \in Months : DaysIn(m) \in Nat \ {0} /\ MonthLength[m] = DaysIn(m)
    /\ \A m \in Months : Calendar(m) \in 1 .. Len(MonthDays)
<1> DEFINE L == Len(MonthDays)
           Y == Years
<1>1. L \in Nat \ {0} /\ Y \in Nat \ {0}
    BY EstimateAssumption
<1>2. MonthCount = Y * L
    BY DEF MonthCount
<1> HIDE DEF L, Y
<1>3. Y * L \in Nat \ {0}
    BY <1>1
<1>4. ASSUME NEW m \in Months PROVE Calendar(m) \in 1 .. L
    <2>1. m - 1 \in Nat
        BY <1>2, <1>3, <1>4 DEF Months
    <2> DEFINE r == (m - 1) % L
    <2>2. r \in 0 .. L - 1
        BY <1>1, <2>1
    <2>3. Calendar(m) = r + 1
        BY DEF Calendar, L
    <2> HIDE DEF r
    <2>4. QED
        BY <1>1, <2>2, <2>3
<1>5. ASSUME NEW m \in Months PROVE DaysIn(m) \in Nat \ {0}
    BY <1>4, <1>5, EstimateAssumption DEF DaysIn, L
<1>6. ASSUME NEW m \in Months PROVE MonthLength[m] = DaysIn(m)
    BY DEF MonthLength
<1>7. QED
    BY <1>2, <1>3, <1>4, <1>5, <1>6 DEF L

\* A month's first day comes after the days of the months before it.
LEMMA FirstDays ==
    /\ FirstDay[1] = 1
    /\ \A m \in 1 .. MonthCount + 1 : FirstDay[m] \in Nat \ {0}
    /\ \A m \in Months : FirstDay[m + 1] = FirstDay[m] + DaysIn(m)
<1> DEFINE N == MonthCount
           Sum(m) == SumFunctionOnSet(MonthLength, 1 .. m - 1)
<1>1. N \in Nat \ {0} /\ Months = 1 .. N
    BY MonthsHaveDays DEF Months
<1>2. ASSUME NEW m \in 1 .. N + 1 PROVE FirstDay[m] = 1 + Sum(m)
    BY DEF FirstDay
<1> HIDE DEF N
<1>3. \A n \in Months : MonthLength[n] \in Nat
    BY MonthsHaveDays
<1>4. ASSUME NEW m \in 1 .. N + 1 PROVE Sum(m) \in Nat
    <2>1. m \in Int /\ 1 .. m - 1 \subseteq Months /\ IsFiniteSet(1 .. m - 1)
        BY <1>1, FS_Interval
    <2>2. QED
        BY <1>3, <2>1, SumNat
<1>5. Sum(1) = 0
    <2>1. 1 .. 1 - 1 = {}
        OBVIOUS
    <2>2. QED
        BY <2>1, SumEmpty
<1>6. ASSUME NEW m \in Months PROVE Sum(m + 1) = Sum(m) + DaysIn(m)
    <2> DEFINE S == 1 .. m - 1
    <2>1. m \in Int /\ IsFiniteSet(S) /\ S \cup {m} \subseteq Months /\ m \notin S
        BY <1>1, FS_Interval
    <2>2. 1 .. (m + 1) - 1 = S \cup {m}
        BY <1>1, <2>1
    <2>3. \A y \in S \cup {m} : MonthLength[y] \in Int
        BY <1>3, <2>1
    <2> HIDE DEF S
    <2>4. SumFunctionOnSet(MonthLength, S \cup {m}) = SumFunctionOnSet(MonthLength, S) + MonthLength[m]
        BY <2>1, <2>3, SumAdd
    <2>5. MonthLength[m] = DaysIn(m)
        BY MonthsHaveDays
    <2>6. QED
        BY <2>2, <2>4, <2>5 DEF S
<1> HIDE DEF Sum
<1>7. FirstDay[1] = 1
    BY <1>1, <1>2, <1>5
<1>8. ASSUME NEW m \in 1 .. N + 1 PROVE FirstDay[m] \in Nat \ {0}
    BY <1>2, <1>4
<1>9. ASSUME NEW m \in Months PROVE FirstDay[m + 1] = FirstDay[m] + DaysIn(m)
    <2>1. m \in 1 .. N + 1 /\ m + 1 \in 1 .. N + 1
        BY <1>1
    <2>2. DaysIn(m) \in Nat
        BY MonthsHaveDays
    <2>3. QED
        BY <1>2, <1>4, <1>6, <2>1, <2>2
<1>10. QED
    BY <1>7, <1>8, <1>9 DEF N

\* Of two months the earlier ends before the later begins.
LEMMA DaysIncrease ==
    ASSUME NEW m \in Months, NEW n \in 1 .. MonthCount + 1, m < n
    PROVE  FirstDay[m] + DaysIn(m) <= FirstDay[n]
<1> DEFINE N == MonthCount
           F == FirstDay
           bad == {k \in m + 1 .. N + 1 : ~(F[m + 1] <= F[k])}
<1>1. N \in Nat \ {0} /\ Months = 1 .. N /\ m \in Nat /\ n \in Nat
    BY MonthsHaveDays DEF Months
<1> HIDE DEF N
<1>2. SUFFICES ASSUME n \in bad PROVE FALSE
    <2>1. n \in m + 1 .. N + 1
        BY <1>1 DEF N
    <2>2. F[m + 1] = F[m] + DaysIn(m)
        BY FirstDays
    <2>3. QED
        BY <1>2, <2>1, <2>2
<1>3. bad \in SUBSET Nat
    BY <1>1
<1> DEFINE b == Min(bad)
<1>4. b \in bad /\ \A x \in bad : b <= x
    BY <1>2, <1>3, LeastNatural
<1>5. b \in m + 1 .. N + 1 /\ ~(F[m + 1] <= F[b]) /\ b - 1 \notin bad
    BY <1>1, <1>3, <1>4
<1> HIDE DEF b
<1>6. F[m + 1] \in Nat /\ F[b] \in Nat
    <2>1. m + 1 \in 1 .. MonthCount + 1 /\ b \in 1 .. MonthCount + 1
        BY <1>1, <1>5 DEF N
    <2>2. QED
        BY <2>1, FirstDays
<1>7. b # m + 1
    BY <1>5, <1>6
<1>8. b - 1 \in m + 1 .. N + 1 /\ b - 1 \in Months
    BY <1>1, <1>5, <1>7
<1>9. F[m + 1] <= F[b - 1]
    BY <1>5, <1>8
<1>10. F[(b - 1) + 1] = F[b - 1] + DaysIn(b - 1) /\ DaysIn(b - 1) \in Nat /\ F[b - 1] \in Nat
    <2>1. b - 1 \in 1 .. MonthCount + 1
        BY <1>1, <1>8 DEF N
    <2>2. QED
        BY <1>8, <2>1, FirstDays, MonthsHaveDays
<1>11. (b - 1) + 1 = b
    BY <1>1, <1>5
<1>12. QED
    BY <1>5, <1>6, <1>9, <1>10, <1>11

\* The month of a day is the one whose days hold it.
LEMMA MonthOfDay ==
    ASSUME NEW m \in Months, NEW d \in FirstDay[m] .. FirstDay[m + 1] - 1
    PROVE  d \in AllDays /\ MonthAt[d] = m
<1> DEFINE N == MonthCount
           F == FirstDay
           S == {k \in Months : F[k] <= d}
<1>1. N \in Nat \ {0} /\ Months = 1 .. N /\ m \in Nat
    BY MonthsHaveDays DEF Months
<1>2. F[m] \in Nat \ {0} /\ F[m + 1] \in Nat /\ F[N + 1] \in Nat
    <2>1. m \in 1 .. N + 1 /\ m + 1 \in 1 .. N + 1 /\ N + 1 \in 1 .. N + 1
        BY <1>1
    <2>2. QED
        BY <2>1, FirstDays
<1>3. F[m] <= d /\ d < F[m + 1] /\ d \in Nat \ {0}
    BY <1>2
<1>4. F[m + 1] <= F[N + 1]
    <2>1. m < N + 1 /\ N + 1 \in 1 .. MonthCount + 1
        BY <1>1
    <2>2. QED
        BY <2>1, DaysIncrease, FirstDays
<1>5. d \in AllDays
    BY <1>2, <1>3, <1>4 DEF AllDays
<1>6. m \in S /\ S \in SUBSET Int
    BY <1>1, <1>3
<1>7. ASSUME NEW k \in S PROVE k <= m
    <2>1. SUFFICES ASSUME m < k PROVE FALSE
        BY <1>1, <1>7
    <2>2. k \in 1 .. MonthCount + 1 /\ k \in Nat /\ F[k] <= d
        BY <1>1, <1>7
    <2>3. F[m] + DaysIn(m) <= F[k]
        BY <2>1, <2>2, DaysIncrease
    <2>4. F[m + 1] = F[m] + DaysIn(m) /\ F[k] \in Nat
        BY <2>2, FirstDays
    <2>5. QED
        BY <1>2, <1>3, <2>2, <2>3, <2>4
<1>8. Max(S) = m
    BY <1>6, <1>7, MaxIs
<1>9. MonthAt[d] = Max(S)
    BY <1>5 DEF MonthAt
<1>10. QED
    BY <1>5, <1>8, <1>9

\* Every day has its month.
LEMMA DayHasMonth ==
    ASSUME NEW d \in AllDays
    PROVE  /\ MonthAt[d] \in Months
           /\ d \in FirstDay[MonthAt[d]] .. FirstDay[MonthAt[d] + 1] - 1
<1> DEFINE N == MonthCount
           F == FirstDay
           S == {k \in Months : F[k] <= d}
           m == MonthAt[d]
<1>1. N \in Nat \ {0} /\ Months = 1 .. N
    BY MonthsHaveDays DEF Months
<1>2. \A k \in 1 .. N + 1 : F[k] \in Nat \ {0}
    BY FirstDays
<1>3. d \in Nat \ {0} /\ d < F[N + 1]
    BY <1>1, <1>2 DEF AllDays
<1>4. S \in SUBSET Int /\ 1 \in S /\ \A x \in S : x <= N
    BY <1>1, <1>3, FirstDays
<1>5. m = Max(S)
    <2>1. d \in AllDays
        OBVIOUS
    <2>2. QED
        BY <2>1, Zenon DEF MonthAt
<1> HIDE DEF m, S
<1>6. m \in S /\ \A x \in S : x <= m
    <2>1. S # {} /\ N \in Int
        BY <1>1, <1>4
    <2>2. Max(S) \in S /\ \A x \in S : x <= Max(S)
        BY <1>4, <2>1, GreatestInteger
    <2>3. QED
        BY <1>5, <2>2
<1> USE DEF S
<1>7. m \in Months /\ F[m] <= d
    BY <1>6
<1>8. d < F[m + 1]
    <2>1. CASE m = N
        BY <1>3, <2>1
    <2>2. CASE m # N
        <3>1. m + 1 \in Months /\ m + 1 > m
            BY <1>1, <1>7, <2>2
        <3>2. m + 1 \notin S
            BY <1>1, <1>6, <1>7, <3>1
        <3>3. F[m + 1] \in Nat
            BY <1>1, <1>2, <3>1
        <3>4. QED
            BY <1>3, <3>1, <3>2, <3>3
    <2>3. QED
        BY <2>1, <2>2
<1>9. F[m] \in Nat /\ F[m + 1] \in Nat
    BY <1>1, <1>2, <1>7
<1>10. QED
    BY <1>3, <1>7, <1>8, <1>9 DEF m

\* The bills are of months after the first, and a bounded number of days of
\* the calendar were monitored.
EstimateType ==
    /\ DOMAIN posted \in SUBSET (Months \ {1}) /\ \A m \in DOMAIN posted : posted[m] \in Nat
    /\ posted = <<>> \/ DOMAIN posted # {}
    /\ DOMAIN monitored \in SUBSET AllDays /\ \A d \in DOMAIN monitored : monitored[d] \in DayKwhs
    /\ Cardinality(DOMAIN monitored) <= MaxMonitored
    /\ zone \in BOOLEAN

\* The days are finitely many.
LEMMA DaysFinite ==
    /\ AllDays \in SUBSET (Nat \ {0}) /\ IsFiniteSet(AllDays) /\ IsFiniteSet(Months)
    /\ Max(AllDays) \in AllDays /\ \A d \in AllDays : d <= Max(AllDays)
    /\ Max(AllDays) = FirstDay[MonthCount + 1] - 1
<1>1. MonthCount \in Nat \ {0} /\ 1 \in Months /\ MonthCount + 1 \in 1 .. MonthCount + 1
    BY MonthsHaveDays DEF Months
<1> DEFINE z == FirstDay[MonthCount + 1]
<1>2. z \in Nat \ {0}
    BY <1>1, FirstDays
<1>3. FirstDay[1] + DaysIn(1) <= z /\ FirstDay[1] = 1 /\ DaysIn(1) \in Nat \ {0}
    BY <1>1, DaysIncrease, FirstDays, MonthsHaveDays
<1> HIDE DEF z
<1>4. AllDays = 1 .. z - 1
    BY DEF AllDays, z
<1>5. AllDays \in SUBSET Int /\ z - 1 \in AllDays /\ \A d \in AllDays : d <= z - 1
    BY <1>2, <1>3, <1>4
<1>6. Max(AllDays) = z - 1
    BY <1>5, MaxIs
<1>7. IsFiniteSet(AllDays)
    BY <1>2, <1>4, FS_Interval
<1>8. IsFiniteSet(Months)
    BY <1>1, FS_Interval DEF Months
<1>9. QED
    BY <1>2, <1>4, <1>5, <1>6, <1>7, <1>8 DEF z

\* The estimate's data are always well formed.
LEMMA EstimateTypeInv == EstimateSpec => []EstimateType
<1>1. XInit => EstimateType
    <2>1. DOMAIN << >> = {}
        OBVIOUS
    <2>2. Cardinality({}) = 0
        BY FS_EmptySet
    <2> HAVE XInit
    <2>3. DOMAIN posted = {} /\ DOMAIN monitored = {} /\ zone = FALSE /\ posted = << >>
        BY <2>1, Zenon DEF XInit
    <2>4. MaxMonitored \in Nat
        BY EstimateAssumption
    <2>5. Cardinality(DOMAIN monitored) <= MaxMonitored
        BY <2>2, <2>3, <2>4
    <2>6. QED
        BY <2>3, <2>5 DEF EstimateType
<1>2. EstimateType /\ [XNext]_xvars => EstimateType'
    <2> SUFFICES ASSUME EstimateType, [XNext]_xvars PROVE EstimateType'
        OBVIOUS
    <2>1. ASSUME NEW m \in Months \ {1}, NEW k \in Amounts, PostBill(m, k) PROVE EstimateType'
        <3>1. k \in Nat
            BY EstimateAssumption
        <3>2. DOMAIN posted' = DOMAIN posted \cup {m}
              /\ \A n \in DOMAIN posted' : posted'[n] = IF n = m THEN k ELSE posted[n]
            BY <2>1 DEF PostBill
        <3>3. monitored' = monitored /\ zone' = zone
            BY <2>1 DEF PostBill
        <3>4. QED
            BY <3>1, <3>2, <3>3 DEF EstimateType
    <2>2. ASSUME NEW d \in AllDays, NEW k \in DayKwhs, MonitorDay(d, k) PROVE EstimateType'
        <3>1. DOMAIN monitored' = DOMAIN monitored \cup {d}
              /\ \A e \in DOMAIN monitored' : monitored'[e] = IF e = d THEN k ELSE monitored[e]
            BY <2>2 DEF MonitorDay
        <3>2. posted' = posted /\ zone' = zone
            BY <2>2 DEF MonitorDay
        <3>3. IsFiniteSet(DOMAIN monitored)
            BY DaysFinite, FS_Subset DEF EstimateType
        <3>4. Cardinality(DOMAIN monitored) \in Nat
              /\ Cardinality(DOMAIN monitored') <= Cardinality(DOMAIN monitored) + 1
            <4> DEFINE S == DOMAIN monitored
            <4>1. DOMAIN monitored' = S \cup {d} /\ IsFiniteSet(S)
                BY <3>1, <3>3
            <4> HIDE DEF S
            <4>2. /\ Cardinality(S) \in Nat
                  /\ Cardinality(S \cup {d}) = IF d \in S THEN Cardinality(S) ELSE Cardinality(S) + 1
                BY <4>1, FS_AddElement, FS_CardinalityType
            <4>3. Cardinality(S \cup {d}) <= Cardinality(S) + 1
                BY <4>2
            <4>4. QED
                BY <4>1, <4>2, <4>3 DEF S
        <3>5. Cardinality(DOMAIN monitored) < MaxMonitored
            BY <2>2 DEF MonitorDay
        <3>6. Cardinality(DOMAIN monitored') <= MaxMonitored
            <4>1. IsFiniteSet(DOMAIN monitored')
                BY <3>1, <3>3, FS_AddElement
            <4>2. Cardinality(DOMAIN monitored') \in Nat
                BY <4>1, FS_CardinalityType
            <4>3. QED
                BY <3>4, <3>5, <4>2, EstimateAssumption
        <3>7. QED
            BY <3>1, <3>2, <3>6 DEF EstimateType
    <2>3. CASE ZoneLearned
        BY <2>3 DEF ZoneLearned, EstimateType
    <2>4. CASE UNCHANGED xvars
        BY <2>4 DEF xvars, EstimateType
    <2>5. QED
        BY <2>1, <2>2, <2>3, <2>4 DEF XNext
<1>3. QED
    BY <1>1, <1>2, PTL DEF EstimateSpec

\* The first day of a bill: a day of the calendar, later for later months.
LEMMA BillDayOrder ==
    ASSUME EstimateType
    PROVE  /\ \A m \in Months \ {1} : BillDay(m) \in AllDays
           /\ \A m, n \in Months \ {1} : m < n =>
                 BillDay(m) < BillDay(n) /\ BillDay(n) - BillDay(m) = FirstDay[n] - FirstDay[m]
<1> DEFINE o == IF zone THEN 0 ELSE 1
           F == FirstDay
<1>1. o \in {0, 1} /\ \A m : BillDay(m) = F[m] - o
    BY DEF BillDay
<1> HIDE DEF o
<1>2. MonthCount \in Nat \ {0} /\ Months = 1 .. MonthCount
    BY MonthsHaveDays DEF Months
<1>3. ASSUME NEW m \in Months \ {1}, NEW n \in Months \ {1}, m < n PROVE F[m] < F[n]
    <2>1. n \in 1 .. MonthCount + 1 /\ m \in 1 .. MonthCount + 1
        BY <1>2
    <2>2. F[m] + DaysIn(m) <= F[n] /\ DaysIn(m) \in Nat \ {0} /\ F[m] \in Nat /\ F[n] \in Nat
        BY <1>3, <2>1, DaysIncrease, FirstDays, MonthsHaveDays
    <2>3. QED
        BY <2>2
<1>4. \A m \in Months : F[m] \in Nat
    BY <1>2, FirstDays
<1>5. ASSUME NEW m \in Months \ {1} PROVE BillDay(m) \in AllDays
    <2>1. 1 \in Months /\ 1 < m /\ m \in 1 .. MonthCount + 1
        BY <1>2
    <2>2. F[1] + DaysIn(1) <= F[m] /\ F[1] = 1 /\ DaysIn(1) \in Nat \ {0}
        BY <2>1, DaysIncrease, FirstDays, MonthsHaveDays
    <2>3. MonthCount + 1 \in 1 .. MonthCount + 1 /\ m < MonthCount + 1
        BY <1>2
    <2>4. F[m] + DaysIn(m) <= F[MonthCount + 1] /\ DaysIn(m) \in Nat \ {0} /\ F[MonthCount + 1] \in Nat
        BY <2>3, DaysIncrease, FirstDays, MonthsHaveDays
    <2>5. F[m] \in Nat
        BY <1>4
    <2>6. QED
        BY <1>1, <2>2, <2>4, <2>5 DEF AllDays
<1>6. QED
    BY <1>1, <1>3, <1>4, <1>5

\* The month of the next bill stored, where m's bill ends.
NextBill(m) == Min({n \in DOMAIN posted : n > m})

\* The months billed, and the days their bills begin.
LEMMA BilledMonths ==
    ASSUME EstimateType, DOMAIN posted # {}
    PROVE  LET P == DOMAIN posted IN
           /\ P \in SUBSET Nat /\ IsFiniteSet(P) /\ P \in SUBSET (Months \ {1})
           /\ Max(P) \in P /\ \A n \in P : n <= Max(P)
           /\ Min(P) \in P /\ \A n \in P : Min(P) <= n
           /\ \A n \in P : BillDay(n) \in Nat \ {0} /\ BillDay(n) \in AllDays
           /\ \A m, n \in P : m < n => BillDay(m) < BillDay(n)
           /\ \A m, n \in P : m <= n => BillDay(m) <= BillDay(n)
<1> DEFINE P == DOMAIN posted
<1>1. P \in SUBSET (Months \ {1}) /\ P # {}
    BY DEF EstimateType
<1>2. Months \in SUBSET Nat
    BY MonthsHaveDays DEF Months
<1>3. IsFiniteSet(P)
    BY <1>1, DaysFinite, FS_Subset
<1> HIDE DEF P
<1>4. Max(P) \in P /\ \A n \in P : n <= Max(P)
    BY <1>1, <1>2, <1>3, FiniteMax
<1>5. Min(P) \in P /\ \A n \in P : Min(P) <= n
    BY <1>1, <1>2, LeastNatural
<1>6. \A n \in P : BillDay(n) \in AllDays /\ BillDay(n) \in Nat \ {0}
    BY <1>1, BillDayOrder, DaysFinite
<1>7. \A m, n \in P : m < n => BillDay(m) < BillDay(n)
    BY <1>1, BillDayOrder
<1>8. ASSUME NEW m \in P, NEW n \in P, m <= n PROVE BillDay(m) <= BillDay(n)
    <2>1. m \in Nat /\ n \in Nat /\ BillDay(m) \in Nat /\ BillDay(n) \in Nat
        BY <1>1, <1>2, <1>6
    <2>2. CASE m = n
        BY <2>1, <2>2
    <2>3. CASE m # n
        <3>1. m < n
            BY <1>8, <2>1, <2>3
        <3>2. QED
            BY <1>7, <2>1, <3>1
    <2>4. QED
        BY <2>2, <2>3
<1>9. P \in SUBSET Nat
    BY <1>1, <1>2
<1>10. QED
    BY <1>1, <1>3, <1>4, <1>5, <1>6, <1>7, <1>8, <1>9, Zenon DEF P

\* A closed bill lasts until the first day of the next.
LEMMA ClosedBill ==
    ASSUME EstimateType, NEW m \in Closed
    PROVE  /\ m \in DOMAIN posted /\ m < Max(DOMAIN posted) /\ m \in Nat
           /\ NextBill(m) \in DOMAIN posted /\ m < NextBill(m)
           /\ \A n \in DOMAIN posted : m < n => NextBill(m) <= n
           /\ BillEnd(m) = BillDay(NextBill(m)) /\ BillDay(m) < BillEnd(m) /\ BillEnd(m) \in Nat
           /\ IsFiniteSet(BillDays(m))
           /\ Cardinality(BillDays(m)) = FirstDay[NextBill(m)] - FirstDay[m]
           /\ Cardinality(BillDays(m)) \in Nat \ {0}
<1> DEFINE P == DOMAIN posted
           S == {n \in P : n > m}
           z == Max(P)
<1>1. m \in P /\ m # z
    BY DEF Closed
<1>2. P # {}
    BY <1>1
<1>3. P \in SUBSET Nat /\ z \in P /\ (\A n \in P : n <= z) /\ P \in SUBSET (Months \ {1})
    BY <1>2, BilledMonths
<1>4. m < z /\ m \in Nat /\ z \in S
    <2>1. m \in Nat /\ z \in Nat /\ m <= z
        BY <1>1, <1>3
    <2>2. QED
        BY <1>1, <1>3, <2>1
<1>5. S \in SUBSET Nat /\ S # {}
    BY <1>3, <1>4
<1>6. Min(S) \in S /\ \A x \in S : Min(S) <= x
    BY <1>5, LeastNatural
<1> DEFINE nb == NextBill(m)
<1>7. nb = Min(S)
    BY DEF NextBill
<1>8. nb \in P /\ m < nb /\ nb \in Nat /\ \A n \in P : m < n => nb <= n
    BY <1>3, <1>4, <1>5, <1>6, <1>7
<1>9. BillEnd(m) = BillDay(nb)
    BY <1>7 DEF BillEnd
<1> HIDE DEF P, S, z, nb
<1>10. BillDay(m) < BillDay(nb) /\ BillDay(nb) - BillDay(m) = FirstDay[nb] - FirstDay[m]
    BY <1>1, <1>3, <1>8, BillDayOrder
<1>11. BillDay(m) \in Nat /\ BillDay(nb) \in Nat
    BY <1>1, <1>2, <1>8, BilledMonths DEF P
<1>12. IsFiniteSet(BillDays(m)) /\ Cardinality(BillDays(m)) = BillDay(nb) - BillDay(m)
    <2> DEFINE a == BillDay(m)
               b == BillDay(nb)
    <2>1. BillDays(m) = a .. b - 1
        BY <1>9, Zenon DEF BillDays
    <2>2. a \in Nat /\ b \in Nat /\ a < b
        BY <1>10, <1>11
    <2> HIDE DEF a, b
    <2>3. IsFiniteSet(a .. b - 1) /\ Cardinality(a .. b - 1) = b - a
        BY <2>2, FS_Interval
    <2>4. QED
        BY <2>1, <2>3 DEF a, b
<1>13. Cardinality(BillDays(m)) = FirstDay[nb] - FirstDay[m] /\ Cardinality(BillDays(m)) \in Nat \ {0}
    BY <1>10, <1>11, <1>12
<1>14. QED
    BY <1>1, <1>4, <1>8, <1>9, <1>10, <1>11, <1>12, <1>13 DEF P, z, nb

\* No day is in two bills.
LEMMA BillsDisjoint ==
    ASSUME EstimateType, NEW m \in Closed, NEW n \in Closed, NEW d \in BillDays(m), d \in BillDays(n)
    PROVE  m = n
<1>1. ASSUME NEW a \in Closed, NEW b \in Closed, d \in BillDays(a), d \in BillDays(b), a < b PROVE FALSE
    <2>1. a \in DOMAIN posted /\ b \in DOMAIN posted /\ NextBill(a) \in DOMAIN posted
          /\ NextBill(a) <= b /\ BillEnd(a) = BillDay(NextBill(a)) /\ BillEnd(b) \in Nat
        BY <1>1, ClosedBill
    <2>2. DOMAIN posted # {}
        BY <2>1
    <2>3. BillDay(NextBill(a)) <= BillDay(b)
        BY <2>1, <2>2, BilledMonths
    <2>4. BillDay(a) \in Nat /\ BillDay(b) \in Nat /\ BillEnd(a) \in Nat
        BY <2>1, <2>2, BilledMonths
    <2>5. d \in Int /\ d < BillEnd(a) /\ BillDay(b) <= d
        BY <1>1, <2>1, <2>4 DEF BillDays
    <2>6. QED
        BY <2>1, <2>3, <2>4, <2>5
<1>2. m \in Nat /\ n \in Nat
    BY ClosedBill
<1>3. ~(m < n) /\ ~(n < m)
    BY <1>1
<1>4. QED
    BY <1>2, <1>3

\* The closed bills' days are all those from the first bill to the newest.
LEMMA BilledDays ==
    ASSUME EstimateType, DOMAIN posted # {}
    PROVE  EstimateDays = BillDay(Min(DOMAIN posted)) .. BillDay(Max(DOMAIN posted)) - 1
<1> DEFINE P == DOMAIN posted
           a == BillDay(Min(P))
           b == BillDay(Max(P))
<1>1. /\ P \in SUBSET Nat /\ Max(P) \in P /\ Min(P) \in P
      /\ \A n \in P : BillDay(n) \in Nat /\ a <= BillDay(n) /\ BillDay(n) <= b
    BY BilledMonths
<1>2. a \in Nat /\ b \in Nat
    BY <1>1
<1>3. ASSUME NEW d \in EstimateDays PROVE d \in a .. b - 1
    <2>1. PICK m \in Closed : d \in BillDays(m)
        BY DEF EstimateDays
    <2>2. m \in P /\ NextBill(m) \in P /\ BillEnd(m) = BillDay(NextBill(m))
        BY ClosedBill
    <2>3. BillDay(m) \in Nat /\ BillEnd(m) \in Nat /\ a <= BillDay(m) /\ BillEnd(m) <= b
        BY <1>1, <2>2
    <2>4. d \in BillDay(m) .. BillEnd(m) - 1
        BY <2>1 DEF BillDays
    <2> HIDE DEF a, b, P
    <2>5. QED
        BY <1>2, <2>3, <2>4
<1>4. ASSUME NEW d \in a .. b - 1 PROVE d \in EstimateDays
    <2> DEFINE S == {n \in P : BillDay(n) <= d}
               m == Max(S)
    <2>1. d \in Int /\ a <= d /\ d < b
        BY <1>2
    <2>2. S \in SUBSET Nat /\ Min(P) \in S
        BY <1>1, <2>1
    <2>3. IsFiniteSet(S)
        <3>1. IsFiniteSet(P)
            BY BilledMonths
        <3>2. QED
            BY <3>1, FS_Subset
    <2>4. m \in S /\ \A x \in S : x <= m
        <3> HIDE DEF S
        <3>1. S # {} /\ S \in SUBSET Int
            BY <2>2
        <3>2. QED
            BY <2>3, <3>1, FiniteMax
    <2> HIDE DEF m
    <2>5. m \in P /\ BillDay(m) <= d /\ m # Max(P) /\ BillDay(m) \in Nat
        BY <1>1, <1>2, <2>1, <2>4
    <2>6. m \in Closed
        BY <2>5 DEF Closed
    <2>7. NextBill(m) \in P /\ m < NextBill(m) /\ BillEnd(m) = BillDay(NextBill(m)) /\ m \in Nat
        BY <2>6, ClosedBill
    <2>8. ~(BillEnd(m) <= d) /\ BillEnd(m) \in Nat
        <3>1. NextBill(m) \notin S
            <4>1. NextBill(m) \in Nat
                BY <1>1, <2>7
            <4>2. QED
                BY <2>4, <2>7, <4>1
        <3>2. QED
            BY <1>1, <2>7, <3>1
    <2>9. d \in BillDays(m)
        BY <2>1, <2>5, <2>8 DEF BillDays
    <2>10. QED
        BY <2>6, <2>9 DEF EstimateDays
<1>5. QED
    BY <1>3, <1>4

\* The first day the estimate covers, and the day after its last.
From == BillDay(Min(DOMAIN posted))
Upto == BillDay(Max(DOMAIN posted))

\* They are days, and the closed bills' days are those between them.
LEMMA FromUpto ==
    ASSUME EstimateType, DOMAIN posted # {}
    PROVE  /\ From \in Nat \ {0} /\ Upto \in Nat \ {0} /\ From <= Upto
           /\ From \in AllDays /\ Upto \in AllDays
           /\ EstimateDays = From .. Upto - 1
           /\ EstimateDays # {} => Min(EstimateDays) = From /\ Max(EstimateDays) = Upto - 1
           /\ Cardinality(EstimateDays) = Upto - From
           /\ \A m \in Closed : From <= BillDay(m) /\ BillEnd(m) <= Upto
<1> DEFINE P == DOMAIN posted
           E == EstimateDays
<1>1. P \in SUBSET Nat /\ Max(P) \in P /\ Min(P) \in P /\ Min(P) <= Max(P)
    BY BilledMonths
<1>2. From \in Nat \ {0} /\ Upto \in Nat \ {0} /\ From <= Upto /\ From \in AllDays /\ Upto \in AllDays
    BY <1>1, BilledMonths DEF From, Upto
<1>3. E = From .. Upto - 1
    BY BilledDays DEF From, Upto
<1> HIDE DEF E
<1>4. ASSUME E # {} PROVE Min(E) = From /\ Max(E) = Upto - 1
    <2>1. From \in E /\ Upto - 1 \in E /\ E \in SUBSET Nat
        BY <1>2, <1>3, <1>4
    <2>2. Max(E) = Upto - 1
        <3>1. \A x \in E : x <= Upto - 1
            BY <1>2, <1>3
        <3>2. E \in SUBSET Int
            BY <2>1
        <3>3. QED
            BY <2>1, <3>1, <3>2, MaxIs
    <2>3. Min(E) \in E /\ \A x \in E : Min(E) <= x
        BY <1>4, <2>1, LeastNatural
    <2>4. Min(E) \in Nat /\ Min(E) <= From /\ From <= Min(E)
        BY <1>2, <1>3, <2>1, <2>3
    <2>5. QED
        BY <1>2, <2>2, <2>4
<1>5. Cardinality(E) = Upto - From
    BY <1>2, <1>3, FS_Interval
<1>6. ASSUME NEW m \in Closed PROVE From <= BillDay(m) /\ BillEnd(m) <= Upto
    <2>1. m \in P /\ NextBill(m) \in P /\ BillEnd(m) = BillDay(NextBill(m))
        BY ClosedBill
    <2>2. Min(P) <= m /\ NextBill(m) <= Max(P)
        BY <2>1, BilledMonths
    <2>3. From <= BillDay(m) /\ BillDay(NextBill(m)) <= Upto
        BY <1>1, <2>1, <2>2, BilledMonths DEF From, Upto
    <2>4. QED
        BY <2>1, <2>3
<1>7. QED
    BY <1>2, <1>3, <1>4, <1>5, <1>6 DEF E

\* The bill of a day is the closed one whose days hold it.
LEMMA TheBill ==
    ASSUME EstimateType, NEW m \in Closed, NEW d \in BillDays(m)
    PROVE  BillOf(d) = m
<1>1. BillOf(d) \in Closed /\ d \in BillDays(BillOf(d))
    BY DEF BillOf
<1>2. QED
    BY <1>1, BillsDisjoint

\* The series is one estimate for each of these days, in order.
LEMMA SeriesShape ==
    ASSUME EstimateType, DOMAIN posted # {}
    PROVE  LET all == utilityDailyEstimateSeries IN
           /\ Len(all) = Upto - From
           /\ \A i \in 1 .. Len(all) : all[i] = DayEstimate(From + i - 1)
           /\ \A i \in 1 .. Len(all) : all[i].day = From + i - 1 /\ all[i].projected = FALSE
           /\ all \in Seq({DayEstimate(d) : d \in Nat})
           /\ all = << >> <=> Upto = From
<1> DEFINE all == utilityDailyEstimateSeries
           n == Upto - From
           S == {DayEstimate(d) : d \in Nat}
<1>1. n \in Nat /\ From \in Nat /\ Upto \in Nat /\ From <= Upto
    BY FromUpto
<1>2. EstimateDays = From .. Upto - 1 /\ Cardinality(EstimateDays) = n
      /\ (EstimateDays # {} => Min(EstimateDays) = From)
    BY FromUpto
<1>3. EstimateDays = {} <=> n = 0
    BY <1>1, <1>2
<1>4. /\ Len(all) = n /\ all \in Seq(S) /\ (all = << >> <=> n = 0)
      /\ \A i \in 1 .. n : all[i] = DayEstimate(From + i - 1)
    <2>1. CASE EstimateDays = {}
        <3>1. all = << >> /\ n = 0
            BY <1>3, <2>1 DEF utilityDailyEstimateSeries
        <3>2. QED
            BY <3>1
    <2>2. CASE EstimateDays # {}
        <3>1. all = [i \in 1 .. n |-> DayEstimate(From + i - 1)]
            BY <1>2, <2>2, Zenon DEF utilityDailyEstimateSeries
        <3>2. \A i \in 1 .. n : From + i - 1 \in Nat
            BY <1>1
        <3>3. \A i \in 1 .. n : DayEstimate(From + i - 1) \in S
            BY <3>2
        <3> HIDE DEF S, all, n
        <3>4. all \in [1 .. n -> S]
            BY <3>1, <3>3
        <3>5. all \in Seq(S) /\ Len(all) = n
            BY <1>1, <3>4
        <3>6. all # << >> /\ n # 0
            BY <1>1, <1>3, <2>2, <3>5
        <3>7. QED
            BY <3>1, <3>5, <3>6
    <2>3. QED
        BY <2>1, <2>2
<1>5. \A d : DayEstimate(d).day = d /\ DayEstimate(d).projected = FALSE
    BY DEF DayEstimate
<1> HIDE DEF S
<1>6. \A i \in 1 .. n : all[i].day = From + i - 1 /\ all[i].projected = FALSE
    BY <1>4, <1>5, Zenon
<1> HIDE DEF all
<1>7. all = << >> <=> Upto = From
    BY <1>1, <1>4
<1>8. QED
    BY <1>4, <1>6, <1>7, Zenon DEF S, all, n

\* The places of a bill's days in the series.
LEMMA OwnPlaces ==
    ASSUME EstimateType, NEW m \in Closed
    PROVE  LET all == utilityDailyEstimateSeries
               own == {i \in 1 .. Len(all) : all[i].day \in BillDays(m)}
           IN  /\ own = BillDay(m) - From + 1 .. BillEnd(m) - From
               /\ IsFiniteSet(own) /\ Cardinality(own) = Cardinality(BillDays(m))
               /\ From \in Nat /\ \A i \in own : From + i - 1 \in BillDays(m)
<1> DEFINE all == utilityDailyEstimateSeries
           own == {i \in 1 .. Len(all) : all[i].day \in BillDays(m)}
           a == BillDay(m)
           b == BillEnd(m)
<1>1. DOMAIN posted # {} /\ m \in DOMAIN posted
    BY ClosedBill
<1>2. From \in Nat /\ Upto \in Nat /\ From <= a /\ b <= Upto
    BY <1>1, FromUpto
<1>3. a \in Nat /\ b \in Nat /\ a < b
    BY <1>1, ClosedBill, BilledMonths
<1>4. Len(all) = Upto - From /\ \A i \in 1 .. Len(all) : all[i].day = From + i - 1
    BY <1>1, SeriesShape
<1>5. BillDays(m) = a .. b - 1
    BY DEF BillDays
<1> HIDE DEF a, b, all
<1>6. own = a - From + 1 .. b - From
    <2>1. ASSUME NEW i \in own PROVE i \in a - From + 1 .. b - From
        <3>1. i \in 1 .. Len(all) /\ From + i - 1 \in a .. b - 1 /\ i \in Int
            BY <1>2, <1>4, <1>5
        <3>2. QED
            BY <1>2, <1>3, <3>1
    <2>2. ASSUME NEW i \in a - From + 1 .. b - From PROVE i \in own
        <3>1. i \in 1 .. Len(all) /\ From + i - 1 \in a .. b - 1
            BY <1>2, <1>3, <1>4
        <3>2. QED
            BY <1>4, <1>5, <3>1
    <2>3. QED
        BY <2>1, <2>2
<1>7. IsFiniteSet(own) /\ Cardinality(own) = b - a
    <2> HIDE DEF own
    <2> DEFINE x == a - From + 1
               y == b - From
    <2>1. x \in Int /\ y \in Int /\ y - x + 1 = b - a /\ x <= y
        BY <1>2, <1>3
    <2> HIDE DEF x, y
    <2>2. IsFiniteSet(x .. y) /\ Cardinality(x .. y) = y - x + 1
        BY <2>1, FS_Interval
    <2>3. QED
        BY <1>6, <2>1, <2>2 DEF x, y
<1>8. Cardinality(BillDays(m)) = b - a
    BY <1>3, <1>5, FS_Interval
<1>9. \A i \in own : From + i - 1 \in BillDays(m)
    BY <1>4, Zenon
<1>10. QED
    BY <1>2, <1>6, <1>7, <1>8, <1>9 DEF all, a, b

\* Division of a multiple of s by a divisor c of s is exact.
LEMMA ExactDivision ==
    ASSUME NEW x \in Nat, NEW s \in Nat, NEW c \in Nat \ {0}, s % c = 0
    PROVE  (x * s) \div c \in Nat /\ ((x * s) \div c) * c = x * s
<1> DEFINE r == s \div c
           p == x * r
<1>1. r \in Nat /\ s = r * c
    BY Multiples
<1> HIDE DEF r
<1>2. p \in Nat /\ x * s = p * c
    BY <1>1
<1> HIDE DEF p
<1>3. (p * c) \div c = p
    BY <1>2
<1>4. QED
    BY <1>2, <1>3

\* A multiple of a product of q and c, shared out in c, is one of q.
LEMMA ExactShare ==
    ASSUME NEW w \in Nat, NEW q \in Nat, NEW c \in Nat \ {0}, w = q * c, NEW y \in Nat
    PROVE  (w * y) \div c = q * y
<1> DEFINE p == q * y
<1>1. w * y = p * c /\ p \in Nat
    OBVIOUS
<1> HIDE DEF p
<1>2. (p * c) \div c = p
    BY <1>1
<1>3. QED
    BY <1>1, <1>2 DEF p

\* The flat days of a closed bill add up to it.
LEMMA FlatAddsUp ==
    ASSUME EstimateType, NEW m \in Closed
    PROVE  LET all == utilityDailyEstimateSeries
               own == {i \in 1 .. Len(all) : all[i].day \in BillDays(m)}
           IN  SumFunction([i \in own |-> all[i].flat]) = Whole(m)
<1> DEFINE all == utilityDailyEstimateSeries
           own == {i \in 1 .. Len(all) : all[i].day \in BillDays(m)}
           f == [i \in own |-> all[i].flat]
           c == Cardinality(BillDays(m))
           x == posted[m] * UnitFactor
           q == (x * Scale) \div c
<1>1. m \in DOMAIN posted /\ DOMAIN posted # {} /\ posted[m] \in Nat
    BY ClosedBill DEF EstimateType
<1>2. x \in Nat /\ Scale \in Nat
    BY <1>1, EstimateAssumption
<1>3. c \in Nat \ {0} /\ c = FirstDay[NextBill(m)] - FirstDay[m]
    BY ClosedBill
<1>4. Scale % c = 0
    <2>1. m \in Months \ {1} /\ NextBill(m) \in Months \ {1} /\ m < NextBill(m)
        BY ClosedBill DEF EstimateType
    <2>2. Scale % (FirstDay[NextBill(m)] - FirstDay[m]) = 0
        BY <2>1, ScaleAssumption
    <2>3. QED
        BY <1>3, <2>2
<1>5. Whole(m) = x * Scale
    BY DEF Whole
<1>6. ASSUME NEW i \in own PROVE f[i] = q
    <2>1. From + i - 1 \in BillDays(m)
        BY OwnPlaces
    <2>2. BillOf(From + i - 1) = m
        BY <2>1, TheBill
    <2>3. all[i] = DayEstimate(From + i - 1)
        BY <1>1, SeriesShape
    <2>4. DayEstimate(From + i - 1).flat = q
        BY <2>2 DEF DayEstimate
    <2>5. QED
        BY <2>3, <2>4
<1>7. IsFiniteSet(own) /\ Cardinality(own) = c
    BY OwnPlaces
<1>8. SumFunction(f) = SumFunctionOnSet(f, own)
    BY Zenon DEF SumFunction
<1> HIDE DEF own, f, c, x, all
<1>9. q \in Nat /\ q * c = x * Scale
    <2>1. x \in Nat
        BY <1>2
    <2>2. Scale \in Nat
        BY <1>2
    <2>3. c \in Nat \ {0}
        BY <1>3
    <2>4. q \in Nat /\ q * c = x * Scale
        BY <2>1, <2>2, <2>3, <1>4, ExactDivision
    <2>5. QED
        BY <2>4
<1> HIDE DEF q
<1>10. SumFunctionOnSet(f, own) = q * Cardinality(own)
    BY <1>6, <1>7, <1>9, SumConst
<1>11. QED
    BY <1>5, <1>7, <1>8, <1>9, <1>10 DEF f, own, all

\* What was measured in a month, M of its days, divides Scale.
LEMMA MonthDivides ==
    ASSUME EstimateType, NEW M \in SUBSET (DOMAIN monitored), NEW f,
           \A e \in M : f[e] = monitored[e], NEW z \in M, monitored[z] > 0
    PROVE  LET k == SumFunctionOnSet(f, M) IN
           k \in Nat \ {0} /\ Scale % k = 0 /\ IsFiniteSet(M)
<1> DEFINE k == SumFunctionOnSet(f, M)
           b == Max(DayKwhs)
           g == [e \in M |-> b]
           n == Cardinality(M)
<1>1. b \in DayKwhs /\ (\A x \in DayKwhs : x <= b) /\ DayKwhs \in SUBSET Nat
    <2>1. DayKwhs \in SUBSET Int /\ IsFiniteSet(DayKwhs) /\ DayKwhs # {} /\ DayKwhs \in SUBSET Nat
        BY EstimateAssumption
    <2>2. QED
        BY <2>1, FiniteMax
<1>2. \A e \in M : f[e] \in DayKwhs
    BY DEF EstimateType
<1>3. IsFiniteSet(M) /\ n <= MaxMonitored /\ n \in Nat /\ MaxMonitored \in Nat
    <2>1. IsFiniteSet(DOMAIN monitored)
        BY DaysFinite, FS_Subset DEF EstimateType
    <2>2. IsFiniteSet(M) /\ n <= Cardinality(DOMAIN monitored)
        BY <2>1, FS_Subset
    <2>3. Cardinality(DOMAIN monitored) <= MaxMonitored /\ MaxMonitored \in Nat
        BY EstimateAssumption DEF EstimateType
    <2>4. n \in Nat /\ Cardinality(DOMAIN monitored) \in Nat
        BY <2>1, <2>2, FS_CardinalityType
    <2>5. QED
        BY <2>2, <2>3, <2>4
<1>4. f[z] > 0
    OBVIOUS
<1> HIDE DEF b
<1>5. \A e \in M : f[e] \in Nat /\ g[e] = b /\ f[e] <= g[e] /\ b \in Nat
    BY <1>1, <1>2
<1> HIDE DEF g, n
<1>6. k \in Nat /\ k <= b * n
    <2>1. k \in Nat
        BY <1>3, <1>5, SumNat
    <2>2. b \in Int
        BY <1>1
    <2>3. \A e \in M : f[e] \in Int /\ g[e] \in Int /\ f[e] <= g[e]
        BY <1>5
    <2>4. k <= SumFunctionOnSet(g, M)
        BY <1>3, <2>3, SumMono
    <2>5. SumFunctionOnSet(g, M) = b * n
        BY <1>3, <1>5, <2>2, SumConst DEF n
    <2>6. QED
        BY <2>1, <2>4, <2>5
<1>7. b * n <= MaxMonitored * b
    BY <1>1, <1>3
<1>8. k >= 1
    <2>1. {z} \in SUBSET M
        OBVIOUS
    <2>2. SumFunctionOnSet(f, {z}) <= k
        BY <1>3, <1>5, <2>1, SumSubset
    <2>3. f[z] \in Int
        BY <1>5
    <2>4. SumFunctionOnSet(f, {z}) = f[z]
        BY <2>3, SumOne
    <2>5. QED
        BY <1>4, <1>6, <2>2, <2>3, <2>4
<1>9. k \in 1 .. MaxMonitored * b
    <2>1. b * n \in Int /\ MaxMonitored * b \in Int
        BY <1>1, <1>3
    <2>2. QED
        BY <1>6, <1>7, <1>8, <2>1
<1>10. Scale % k = 0
    BY <1>9, ScaleAssumption DEF b
<1>11. QED
    BY <1>3, <1>6, <1>8, <1>10

\* The shaped days of a closed bill add up to it when they are the days of its
\* month and something was measured in it.
LEMMA ShapedAddsUp ==
    ASSUME EstimateType, NEW m \in Closed, zone, m + 1 \in DOMAIN posted, posted[m] > 0,
           NEW z \in DOMAIN monitored, MonthAt[z] = m, monitored[z] > 0
    PROVE  LET all == utilityDailyEstimateSeries
               own == {i \in 1 .. Len(all) : all[i].day \in BillDays(m)}
           IN  SumFunction([i \in own |-> all[i].shaped]) = Whole(m)
<1> DEFINE all == utilityDailyEstimateSeries
           own == {i \in 1 .. Len(all) : all[i].day \in BillDays(m)}
           f == [i \in own |-> all[i].shaped]
           dm == monitoredDailyKwh(Min(EstimateDays), Max(EstimateDays) + 1)
           M == {e \in DOMAIN dm : MonthAt[e] = m}
           c == SumFunctionOnSet(dm, M)
           x == posted[m] * UnitFactor
           q == (x * Scale) \div c
           Day(d) == IF d \in DOMAIN dm THEN dm[d] ELSE 0
           v == [i \in own |-> Day(From + i - 1)]
           place == [e \in M |-> e - From + 1]
<1>1. m \in DOMAIN posted /\ DOMAIN posted # {} /\ posted[m] \in Nat /\ m \in Months /\ m \in Nat
      /\ m + 1 \in Months
    BY ClosedBill DEF EstimateType
<1>2. x \in Nat /\ Scale \in Nat
    BY <1>1, EstimateAssumption
<1>3. Whole(m) = x * Scale
    BY DEF Whole
<1>4. From \in Nat /\ Upto \in Nat /\ EstimateDays = From .. Upto - 1
      /\ From <= BillDay(m) /\ BillEnd(m) <= Upto
      /\ (EstimateDays # {} => Min(EstimateDays) = From /\ Max(EstimateDays) = Upto - 1)
    BY <1>1, FromUpto
<1>5. BillDay(m) = FirstDay[m] /\ BillEnd(m) = FirstDay[m + 1]
    <2>1. NextBill(m) = m + 1
        <3>1. NextBill(m) \in DOMAIN posted /\ m < NextBill(m) /\ NextBill(m) <= m + 1
            BY <1>1, ClosedBill
        <3>2. NextBill(m) \in Nat
            BY <1>1, <3>1, BilledMonths
        <3>3. QED
            BY <1>1, <3>1, <3>2
    <2>2. BillEnd(m) = BillDay(m + 1)
        BY <2>1, ClosedBill
    <2>3. FirstDay[m] \in Nat /\ FirstDay[m + 1] \in Nat
        BY <1>1, MonthsHaveDays, FirstDays DEF Months
    <2>4. QED
        BY <2>2, <2>3 DEF BillDay
<1>6. BillDays(m) = FirstDay[m] .. FirstDay[m + 1] - 1
    BY <1>5, Zenon DEF BillDays
<1>7. BillDays(m) \subseteq EstimateDays
    BY DEF EstimateDays
<1>8. \A d \in BillDays(m) : d \in AllDays /\ MonthAt[d] = m
    BY <1>1, <1>6, MonthOfDay
<1>9. \A d \in AllDays : MonthAt[d] = m => d \in BillDays(m)
    BY <1>6, DayHasMonth
<1>10. /\ DOMAIN dm = {e \in DOMAIN monitored : e \in EstimateDays}
       /\ \A d \in DOMAIN dm : dm[d] = monitored[d]
    <2>1. z \in BillDays(m)
        BY <1>9 DEF EstimateType
    <2>2. Min(EstimateDays) = From /\ Max(EstimateDays) + 1 = Upto
        BY <1>4, <1>7, <2>1
    <2>3. dm = [d \in {e \in DOMAIN monitored : From <= e /\ e < Upto} |-> monitored[d]]
        BY <2>2, Zenon DEF monitoredDailyKwh
    <2>4. DOMAIN monitored \subseteq Nat
        BY DaysFinite DEF EstimateType
    <2> HIDE DEF dm
    <2>5. \A e \in DOMAIN monitored : (From <= e /\ e < Upto) <=> e \in EstimateDays
        BY <1>4, <2>4
    <2>6. QED
        BY <2>3, <2>5
<1> HIDE DEF dm
<1>11. M \in SUBSET (DOMAIN monitored) /\ (\A e \in M : dm[e] = monitored[e] /\ e \in BillDays(m)) /\ z \in M
    BY <1>7, <1>9, <1>10 DEF EstimateType
<1>12. ASSUME NEW d \in BillDays(m) PROVE d \in DOMAIN dm => d \in M
    BY <1>8
<1> HIDE DEF M
<1>13. c \in Nat \ {0} /\ Scale % c = 0 /\ IsFiniteSet(M)
    BY <1>11, MonthDivides
<1>14. \A e \in M : dm[e] \in Nat
    BY <1>11, EstimateAssumption DEF EstimateType
<1>15. \A d \in BillDays(m) : Day(d) \in Nat
    BY <1>12, <1>14
<1>16. ASSUME NEW d \in BillDays(m) PROVE DayEstimate(d).shaped = (x * Scale * Day(d)) \div c
    <2>1. BillOf(d) = m
        BY TheBill
    <2>2. DayEstimate(d).shaped = Shaped(posted[m], dm, d)
        BY <2>1 DEF DayEstimate, dm
    <2>3. MonthAt[d] = m
        BY <1>8
    <2>4. MonthMon(dm, d) = c
        BY <2>3, Zenon DEF MonthMon, M
    <2>5. Shaped(posted[m], dm, d)
            = IF posted[m] > 0 /\ c > 0 THEN (x * Scale * Day(d)) \div c ELSE NoValue
        BY <2>4, Zenon DEF Shaped
    <2> HIDE DEF c, Day, x
    <2>6. c > 0
        BY <1>13
    <2>7. QED
        BY <2>2, <2>5, <2>6
<1> HIDE DEF c, x
<1>17. q \in Nat /\ q * c = x * Scale /\ \A y \in Nat : (x * Scale * y) \div c = q * y
    <2>1. x \in Nat
        BY <1>2
    <2>2. Scale \in Nat
        BY <1>2
    <2>3. c \in Nat \ {0}
        BY <1>13
    <2>4. Scale % c = 0
        BY <1>13
    <2>5. q \in Nat /\ q * c = x * Scale
        BY <2>1, <2>2, <2>3, <2>4, ExactDivision
    <2>6. ASSUME NEW y \in Nat PROVE (x * Scale * y) \div c = q * y
        <3> DEFINE w == x * Scale
        <3>1. w \in Nat /\ w = q * c
            BY <2>1, <2>2, <2>5
        <3> HIDE DEF w, q
        <3>2. (w * y) \div c = q * y
            BY <2>3, <2>5, <3>1, ExactShare
        <3>3. QED
            BY <3>2 DEF w
    <2>7. QED
        BY <2>5, <2>6
<1> HIDE DEF q
<1>18. IsFiniteSet(own) /\ own = BillDay(m) - From + 1 .. BillEnd(m) - From
       /\ \A i \in own : From + i - 1 \in BillDays(m)
    BY OwnPlaces
<1>19. ASSUME NEW i \in own PROVE v[i] \in Nat /\ f[i] = q * v[i] /\ v[i] = Day(From + i - 1)
    <2>1. From + i - 1 \in BillDays(m)
        BY <1>18
    <2>2. all[i] = DayEstimate(From + i - 1)
        BY <1>1, SeriesShape
    <2>3. v[i] = Day(From + i - 1) /\ f[i] = all[i].shaped
        OBVIOUS
    <2> DEFINE d == From + i - 1
    <2>4. f[i] = (x * Scale * Day(d)) \div c
        BY <1>16, <2>1, <2>2, <2>3
    <2> HIDE DEF d
    <2>5. Day(d) \in Nat
        BY <1>15, <2>1 DEF d
    <2> HIDE DEF Day
    <2>6. f[i] = q * Day(d)
        BY <1>17, <2>4, <2>5
    <2>7. QED
        BY <2>3, <2>5, <2>6 DEF d
<1>20. SumFunctionOnSet(v, own) = c
    <2>1. ASSUME NEW e \in M PROVE place[e] \in own /\ From + place[e] - 1 = e
        <3>1. e \in BillDays(m)
            BY <1>11
        <3>2. e \in BillDay(m) .. BillEnd(m) - 1
            BY <3>1 DEF BillDays
        <3>3. BillDay(m) \in Nat /\ BillEnd(m) \in Nat
            BY <1>1, ClosedBill, BilledMonths
        <3>4. place[e] = e - From + 1
            OBVIOUS
        <3> HIDE DEF place, own
        <3>5. QED
            BY <1>4, <1>18, <3>2, <3>3, <3>4
    <2>2. ASSUME NEW i \in own PROVE v[i] = SumFunctionOnSet(dm, Fiber(place, M, i))
        <3> DEFINE d == From + i - 1
        <3>1. d \in BillDays(m) /\ v[i] = Day(d)
            BY <1>18, <1>19
        <3>2. i \in Int
            BY <1>18
        <3>3. CASE d \in DOMAIN dm
            <4>1. d \in M /\ Day(d) = dm[d]
                BY <1>12, <3>1, <3>3
            <4>2. d \in Nat /\ d - From + 1 = i
                BY <1>4, <1>11, <3>2, <4>1, DaysFinite DEF EstimateType
            <4>3. place[d] = i
                BY <4>1, <4>2
            <4>4. ASSUME NEW e \in M, place[e] = i PROVE e = d
                BY <2>1, <4>4
            <4> HIDE DEF d, place
            <4>5. Fiber(place, M, i) = {d}
                BY <4>1, <4>3, <4>4 DEF Fiber
            <4>6. SumFunctionOnSet(dm, {d}) = dm[d]
                <5>1. dm[d] \in Int
                    BY <1>14, <4>1
                <5>2. QED
                    BY <5>1, SumOne
            <4>7. QED
                BY <3>1, <4>1, <4>5, <4>6
        <3>4. CASE d \notin DOMAIN dm
            <4>1. Day(d) = 0
                BY <3>4
            <4>2. ASSUME NEW e \in M PROVE place[e] # i
                <5>1. e \in DOMAIN dm
                    BY DEF M
                <5>2. From + place[e] - 1 = e
                    BY <2>1
                <5>3. QED
                    BY <3>4, <5>1, <5>2
            <4> HIDE DEF place
            <4>3. Fiber(place, M, i) = {}
                BY <4>2 DEF Fiber
            <4>4. QED
                BY <3>1, <4>1, <4>3, SumEmpty
        <3>5. QED
            BY <3>3, <3>4
    <2> HIDE DEF v, own, place
    <2>3. \A e \in M : dm[e] \in Int /\ place[e] \in own
        BY <1>14, <2>1
    <2>4. IsFiniteSet(own) /\ IsFiniteSet(M)
        BY <1>13, <1>18
    <2>5. SumFunctionOnSet(dm, M) = SumFunctionOnSet(v, own)
        BY <2>2, <2>3, <2>4, SumPartition
    <2>6. QED
        BY <2>5 DEF c
<1>21. SumFunction(f) = SumFunctionOnSet(f, own)
    BY Zenon DEF SumFunction
<1> HIDE DEF v, f, own, all
<1>22. SumFunctionOnSet(f, own) = q * SumFunctionOnSet(v, own)
    <2>1. \A i \in own : v[i] \in Int /\ f[i] = q * v[i]
        BY <1>19
    <2>2. q \in Int
        BY <1>17
    <2>3. IsFiniteSet(own)
        BY <1>18
    <2>4. QED
        BY <2>1, <2>2, <2>3, SumScale
<1>23. SumFunction(f) = Whole(m)
    BY <1>3, <1>17, <1>20, <1>21, <1>22
<1>24. QED
    BY <1>23 DEF f, own, all

\* The days of the closed bills add up to them.
LEMMA BillsAdd == ASSUME EstimateType PROVE BillsAddUp
BY FlatAddsUp, ShapedAddsUp, Zenon DEF BillsAddUp

\* The j-th of the numbers lo .. hi.
LEMMA Ranked ==
    ASSUME NEW lo \in Int, NEW hi \in Int, NEW j \in 1 .. Cardinality(lo .. hi)
    PROVE  /\ lo + j - 1 \in lo .. hi
           /\ (CHOOSE i \in lo .. hi : Cardinality({k \in lo .. hi : k <= i}) = j) = lo + j - 1
<1> DEFINE S == lo .. hi
           NotAbove(i) == {k \in S : k <= i}
           P(i) == Cardinality(NotAbove(i)) = j
           c == lo + j - 1
<1>1. Cardinality(S) = IF lo > hi THEN 0 ELSE hi - lo + 1
    BY FS_Interval
<1>2. j \in Nat /\ 1 <= j /\ lo <= hi /\ j <= hi - lo + 1
    BY <1>1
<1>3. c \in S
    BY <1>2
<1>4. ASSUME NEW i \in S PROVE Cardinality(NotAbove(i)) = i - lo + 1
    <2>1. NotAbove(i) = lo .. i /\ i \in Int /\ lo <= i
        BY <1>2
    <2> HIDE DEF NotAbove
    <2>2. QED
        BY <2>1, FS_Interval
<1> HIDE DEF NotAbove, S
<1>5. \A i \in S : P(i) <=> i = c
    <2>1. S \subseteq Int
        BY DEF S
    <2>2. QED
        BY <1>2, <1>4, <2>1
<1>6. (CHOOSE i \in S : P(i)) = c
    BY <1>3, <1>5, Zenon
<1>7. QED
    BY <1>3, <1>6 DEF S, NotAbove

\* Of the n days from the day a on, the first and the last from the day from up
\* to the day to, and how many they are.
FirstIn(a, from) == IF a <= from THEN from ELSE a
LastIn(a, n, to) == IF to < a + n THEN to ELSE a + n - 1
CountIn(a, n, from, to) ==
    IF FirstIn(a, from) > LastIn(a, n, to) THEN 0 ELSE LastIn(a, n, to) - FirstIn(a, from) + 1

\* The entries of a series of consecutive days that lie in a window.
LEMMA WithinIs ==
    ASSUME NEW all, NEW n \in Nat, Len(all) = n, NEW a \in Nat,
           \A i \in 1 .. n : all[i].day = a + i - 1,
           NEW from \in Nat, NEW to \in Nat
    PROVE  /\ Within(all, from, to)
                = [j \in 1 .. CountIn(a, n, from, to) |-> all[FirstIn(a, from) - a + j]]
           /\ \A j \in 1 .. CountIn(a, n, from, to) : FirstIn(a, from) - a + j \in 1 .. n
<1> DEFINE first == FirstIn(a, from)
           last == LastIn(a, n, to)
           w == CountIn(a, n, from, to)
           lo == first - a + 1
           hi == last - a + 1
           hits == {i \in 1 .. Len(all) : from <= all[i].day /\ all[i].day <= to}
           Place(j) == CHOOSE i \in hits : Cardinality({k \in hits : k <= i}) = j
<1>0. /\ first = (IF a <= from THEN from ELSE a)
      /\ last = (IF to < a + n THEN to ELSE a + n - 1)
      /\ w = (IF first > last THEN 0 ELSE last - first + 1)
    BY DEF FirstIn, LastIn, CountIn
<1> HIDE DEF first, last, w
<1>1. hits = lo .. hi
    <2>1. ASSUME NEW i \in 1 .. n PROVE i \in hits <=> from <= a + i - 1 /\ a + i - 1 <= to
        <3>1. all[i].day = a + i - 1
            OBVIOUS
        <3>2. QED
            BY <3>1
    <2>2. hits \subseteq 1 .. n
        OBVIOUS
    <2>3. lo .. hi \subseteq 1 .. n
        BY <1>0
    <2> HIDE DEF hits
    <2>4. ASSUME NEW i \in 1 .. n
          PROVE  i \in lo .. hi <=> from <= a + i - 1 /\ a + i - 1 <= to
        BY <1>0
    <2> HIDE DEF lo, hi
    <2>5. QED
        BY <2>1, <2>2, <2>3, <2>4
<1>2. lo \in Int /\ hi \in Int /\ first \in Int /\ last \in Int /\ w \in Nat
      /\ w = (IF lo > hi THEN 0 ELSE hi - lo + 1) /\ lo >= 1 /\ hi <= n
    BY <1>0
<1>3. Within(all, from, to) = [j \in 1 .. Cardinality(hits) |-> all[Place(j)]]
    BY Zenon DEF Within
<1>4. Cardinality(lo .. hi) = w
    <2> HIDE DEF lo, hi
    <2>1. QED
        BY <1>2, FS_Interval
<1>5. ASSUME NEW j \in 1 .. w PROVE Place(j) = first - a + j /\ first - a + j \in 1 .. n
    <2>1. j \in 1 .. Cardinality(lo .. hi)
        BY <1>4
    <2>2. lo + j - 1 \in lo .. hi
        BY <1>2, <2>1, Ranked
    <2>3. (CHOOSE i \in lo .. hi : Cardinality({k \in lo .. hi : k <= i}) = j) = lo + j - 1
        <3>1. lo \in Int /\ hi \in Int
            BY <1>2
        <3> HIDE DEF lo, hi
        <3>2. QED
            BY <2>1, <3>1, Ranked, Zenon
    <2>4. Place(j) = lo + j - 1
        BY <1>1, <2>3, Zenon
    <2>5. lo + j - 1 = first - a + j /\ j \in Int
        <3>1. j \in Int
            BY <1>2
        <3>2. QED
            BY <1>2, <3>1
    <2>6. lo + j - 1 \in 1 .. n
        <3> HIDE DEF lo, hi
        <3>1. QED
            BY <1>2, <2>2
    <2>7. QED
        BY <2>4, <2>5, <2>6
<1> HIDE DEF hits, lo, hi, Place
<1>6. Within(all, from, to) = [j \in 1 .. w |-> all[Place(j)]]
    BY <1>1, <1>3, <1>4
<1>7. Within(all, from, to) = [j \in 1 .. w |-> all[first - a + j]]
    BY <1>5, <1>6
<1>8. QED
    BY <1>5, <1>7 DEF first, w

\* The mean of numbers between a and b lies between them.
LEMMA MeanBetween ==
    ASSUME NEW a \in Nat, NEW b \in Nat, NEW s \in Nat, NEW c \in Nat \ {0}, a * c <= s, s <= b * c
    PROVE  a <= s \div c /\ s \div c <= b
<1> DEFINE q == s \div c
           r == s % c
<1>1. q \in Nat /\ r \in Nat /\ r < c /\ s = q * c + r
    OBVIOUS
<1> HIDE DEF q, r
<1>2. a <= q
    <2>1. SUFFICES ASSUME q + 1 <= a PROVE FALSE
        BY <1>1
    <2>2. (q + 1) * c <= a * c
        BY <1>1, <2>1
    <2>3. (q + 1) * c = q * c + c
        BY <1>1
    <2>4. q * c \in Nat /\ a * c \in Nat
        BY <1>1
    <2>5. QED
        BY <1>1, <2>2, <2>3, <2>4
<1>3. q <= b
    <2>1. SUFFICES ASSUME b + 1 <= q PROVE FALSE
        BY <1>1
    <2>2. (b + 1) * c <= q * c
        BY <1>1, <2>1
    <2>3. (b + 1) * c = b * c + c
        OBVIOUS
    <2>4. q * c \in Nat /\ b * c \in Nat
        BY <1>1
    <2>5. QED
        BY <1>1, <2>2, <2>3, <2>4
<1>4. QED
    BY <1>2, <1>3 DEF q

\* A projected day of the curve.
Projected(d) == [day |-> d, projected |-> TRUE, flat |-> billDailyMonthMean(d), shaped |-> NoValue]

\* A window of the curve: w days of the closed bills from the day f on, then t
\* projected ones from the day s on, and none that is due left out.
WindowOf(out, from, to, w, t, f, s) ==
    /\ Len(out) = w + t
    /\ \A i \in 1 .. w : /\ out[i].day = f + i - 1 /\ out[i].projected = FALSE
                         /\ out[i].day \in EstimateDays /\ out[i].day \in from .. to
    /\ \A d \in EstimateDays \cap (from .. to) : d - f + 1 \in 1 .. w
    /\ \A i \in 1 .. t : /\ out[w + i] = Projected(s + i - 1)
                         /\ s + i - 1 \notin EstimateDays /\ s + i - 1 \in from .. to
                         /\ \A d \in EstimateDays : d < s + i - 1
    /\ Rated # {} => \A d \in from .. to : d \notin EstimateDays /\ From <= d => d - s + 1 \in 1 .. t

\* Every window of the curve is of that form.
LEMMA WindowShape ==
    ASSUME EstimateType, DOMAIN posted # {}, NEW from \in Nat, NEW to \in Nat, from <= to
    PROVE  \E w, t \in Nat : \E f, s \in Nat :
              WindowOf(UtilityDailyEstimateRange(utilityDailyEstimateSeries, from, to), from, to, w, t, f, s)
<1> DEFINE all == utilityDailyEstimateSeries
           a == From
           n == Upto - From
           E == EstimateDays
           f == IF a <= from THEN from ELSE a
           last == IF to < a + n THEN to ELSE a + n - 1
           w == IF f > last THEN 0 ELSE last - f + 1
           W == Within(all, from, to)
           lr == IF all = << >> THEN NoValue ELSE all[Len(all)].day
           s == ProjectionStart(from, lr)
           tail == IF to > lr /\ Rated # {} THEN s .. to ELSE {}
           t == Cardinality(tail)
           T == [i \in 1 .. t |-> Projected(s + i - 1)]
           out == UtilityDailyEstimateRange(all, from, to)
           R == {DayEstimate(d) : d \in Nat} \cup {Projected(d) : d \in Int}
<1>1. a \in Nat /\ n \in Nat /\ Upto \in Nat /\ Upto = a + n /\ E = a .. a + n - 1
    <2>1. From \in Nat /\ Upto \in Nat /\ From <= Upto /\ E = From .. Upto - 1
        BY FromUpto
    <2>2. a + n = Upto
        BY <2>1
    <2>3. QED
        BY <2>1, <2>2
<1>2. /\ Len(all) = n /\ (all = << >> <=> n = 0)
      /\ \A i \in 1 .. n : all[i] \in {DayEstimate(d) : d \in Nat}
      /\ \A i \in 1 .. n : all[i].day = a + i - 1 /\ all[i].projected = FALSE
    <2>1. /\ Len(all) = n /\ all \in Seq({DayEstimate(d) : d \in Nat}) /\ (all = << >> <=> Upto = a)
          /\ \A i \in 1 .. Len(all) : all[i].day = a + i - 1 /\ all[i].projected = FALSE
        BY SeriesShape
    <2> HIDE DEF all
    <2>2. all = << >> <=> n = 0
        BY <1>1, <2>1
    <2>3. QED
        BY <2>1, <2>2
<1>3. out = W \o T
    BY Zenon DEF UtilityDailyEstimateRange, Projected
<1> HIDE DEF all, E, a, n
<1>4. /\ W = [j \in 1 .. w |-> all[f - a + j]]
      /\ \A j \in 1 .. w : f - a + j \in 1 .. n
    <2>1. \A i \in 1 .. n : all[i].day = a + i - 1
        BY <1>2
    <2>2. Len(all) = n
        BY <1>2
    <2>3. a \in Nat
        BY <1>1
    <2>4. n \in Nat
        BY <1>1
    <2> HIDE DEF f, last, w, W, lr, s, tail, t, T, out, R
    <2>5. /\ Within(all, from, to)
                = [j \in 1 .. CountIn(a, n, from, to) |-> all[FirstIn(a, from) - a + j]]
          /\ \A j \in 1 .. CountIn(a, n, from, to) : FirstIn(a, from) - a + j \in 1 .. n
        BY <2>1, <2>2, <2>3, <2>4, WithinIs
    <2>6. f = FirstIn(a, from) /\ w = CountIn(a, n, from, to)
        BY Zenon DEF f, w, last, FirstIn, CountIn, LastIn
    <2>7. QED
        BY <2>5, <2>6, Zenon DEF W
<1>5. lr = IF n = 0 THEN -1 ELSE a + n - 1
    <2>1. CASE n = 0
        BY <1>2, <2>1 DEF NoValue
    <2>2. CASE n # 0
        <3>1. n \in 1 .. n /\ all # << >>
            BY <1>1, <1>2, <2>2
        <3>2. all[Len(all)].day = a + n - 1
            BY <1>2, <3>1
        <3>3. QED
            BY <2>2, <3>1, <3>2
    <2>3. QED
        BY <2>1, <2>2
<1>6. s = IF n = 0 THEN from ELSE IF from <= a + n - 1 THEN a + n ELSE from
    <2>1. s = IF lr >= from THEN lr + 1 ELSE from
        BY DEF ProjectionStart
    <2> HIDE DEF lr, s
    <2>2. QED
        BY <1>1, <1>5, <2>1
<1>7. s \in Nat /\ f \in Nat /\ w \in Nat /\ lr \in Int
    <2> HIDE DEF s, lr
    <2>1. QED
        BY <1>1, <1>5, <1>6
<1> HIDE DEF s, lr
<1>8. t = IF to > lr /\ Rated # {} /\ s <= to THEN to - s + 1 ELSE 0
    <2>1. CASE to > lr /\ Rated # {}
        <3>1. tail = s .. to
            BY <2>1
        <3>2. Cardinality(s .. to) = IF s > to THEN 0 ELSE to - s + 1
            BY <1>7, FS_Interval
        <3> HIDE DEF tail
        <3>3. QED
            BY <1>7, <2>1, <3>1, <3>2
    <2>2. CASE ~(to > lr /\ Rated # {})
        <3>1. tail = {}
            BY <2>2
        <3> HIDE DEF tail
        <3>2. QED
            BY <2>2, <3>1, FS_EmptySet
    <2>3. QED
        BY <2>1, <2>2
<1> HIDE DEF t
<1>9. t \in Nat
    BY <1>7, <1>8
<1> HIDE DEF w
<1>10. W \in Seq(R) /\ Len(W) = w /\ \A j \in 1 .. w : W[j] = all[f - a + j]
    <2> HIDE DEF W
    <2>1. \A j \in 1 .. w : all[f - a + j] \in R
        BY <1>2, <1>4
    <2> HIDE DEF R, f
    <2>2. W \in [1 .. w -> R]
        BY <1>4, <2>1
    <2>3. QED
        BY <1>4, <1>7, <2>2
<1>11. T \in Seq(R) /\ Len(T) = t /\ \A i \in 1 .. t : T[i] = Projected(s + i - 1)
    <2>1. \A i \in 1 .. t : s + i - 1 \in Int
        BY <1>7, <1>9
    <2>2. \A i \in 1 .. t : Projected(s + i - 1) \in R
        BY <2>1
    <2> HIDE DEF R
    <2>3. T \in [1 .. t -> R]
        BY <2>2
    <2>4. \A i \in 1 .. t : T[i] = Projected(s + i - 1)
        OBVIOUS
    <2> HIDE DEF T
    <2>5. QED
        BY <1>9, <2>3, <2>4
<1> HIDE DEF R, W, T, out
<1>12. /\ Len(out) = w + t
       /\ \A i \in 1 .. w : out[i] = W[i]
       /\ \A i \in 1 .. t : out[w + i] = T[i]
    <2>1. W \in Seq(R) /\ T \in Seq(R) /\ Len(W) = w /\ Len(T) = t
        BY <1>10, <1>11
    <2>2. /\ Len(W \o T) = Len(W) + Len(T)
          /\ \A i \in 1 .. Len(W) : (W \o T)[i] = W[i]
          /\ \A i \in 1 .. Len(T) : (W \o T)[Len(W) + i] = T[i]
        <3> HIDE DEF f, last, tail
        <3>1. W \in Seq(R)
            BY <2>1
        <3>2. T \in Seq(R)
            BY <2>1
        <3>3. Len(W \o T) = Len(W) + Len(T)
            BY <3>1, <3>2
        <3>4. ASSUME NEW i \in 1 .. Len(W) PROVE (W \o T)[i] = W[i]
            BY <3>1, <3>2
        <3>5. ASSUME NEW i \in 1 .. Len(T) PROVE (W \o T)[Len(W) + i] = T[i]
            BY <3>1, <3>2
        <3>6. QED
            BY <3>3, <3>4, <3>5
    <2>3. QED
        BY <1>3, <2>1, <2>2, Zenon
<1>13. w = IF f > last THEN 0 ELSE last - f + 1
    BY DEF w
<1>14. ASSUME NEW i \in 1 .. w
       PROVE  /\ out[i].day = f + i - 1 /\ out[i].projected = FALSE
              /\ out[i].day \in E /\ out[i].day \in from .. to
    <2>1. out[i] = all[f - a + i] /\ f - a + i \in 1 .. n
        BY <1>4, <1>10, <1>12
    <2>2. out[i].day = a + (f - a + i) - 1 /\ out[i].projected = FALSE
        BY <1>2, <2>1, Zenon
    <2>3. a + (f - a + i) - 1 = f + i - 1
        BY <1>1, <1>7
    <2>4. f + i - 1 \in a .. a + n - 1 /\ f + i - 1 \in from .. to
        BY <1>1, <1>7, <1>13
    <2> HIDE DEF f
    <2>5. QED
        BY <1>1, <2>2, <2>3, <2>4
<1>15. ASSUME NEW d \in E \cap (from .. to) PROVE d - f + 1 \in 1 .. w
    <2>1. d \in a .. a + n - 1 /\ d \in from .. to /\ d \in Int
        BY <1>1
    <2>2. QED
        BY <1>1, <1>7, <1>13, <2>1
<1>16. ASSUME NEW i \in 1 .. t
       PROVE  /\ out[w + i] = Projected(s + i - 1)
              /\ s + i - 1 \notin E /\ s + i - 1 \in from .. to /\ \A d \in E : d < s + i - 1
    <2>1. out[w + i] = Projected(s + i - 1)
        BY <1>11, <1>12
    <2>2. i \in Nat /\ 1 <= i /\ i <= to - s + 1 /\ s <= to
        BY <1>7, <1>8, <1>9
    <2>3. s >= from /\ (n = 0 \/ s >= a + n)
        BY <1>1, <1>6
    <2>4. s + i - 1 \in from .. to
        BY <1>7, <2>2, <2>3
    <2>5. ASSUME NEW d \in E PROVE d < s + i - 1
        <3>1. d \in Int /\ a <= d /\ d <= a + n - 1
            BY <1>1
        <3>2. QED
            BY <1>1, <1>7, <2>2, <2>3, <3>1
    <2>6. s + i - 1 \notin E
        BY <1>7, <2>2, <2>5
    <2>7. QED
        BY <2>1, <2>4, <2>5, <2>6
<1>17. ASSUME Rated # {}, NEW d \in from .. to, d \notin E, a <= d PROVE d - s + 1 \in 1 .. t
    <2>1. d \in Int /\ from <= d /\ d <= to /\ a + n <= d
        BY <1>1, <1>17
    <2>2. s <= d /\ to > lr
        BY <1>1, <1>5, <1>6, <2>1
    <2>3. t = to - s + 1
        BY <1>7, <1>8, <1>17, <2>1, <2>2
    <2>4. QED
        BY <1>7, <2>1, <2>2, <2>3
<1>18. WindowOf(out, from, to, w, t, f, s)
    BY <1>12, <1>14, <1>15, <1>16, <1>17, Zenon DEF WindowOf, E, a
<1> HIDE DEF f
<1>19. QED
    BY <1>7, <1>9, <1>18, Zenon DEF out, all

\* With the time zone known the rate of a projected day lies between those of
\* the bills of the same month of the year.
LEMMA MeanOfYear ==
    ASSUME EstimateType, zone, NEW d, NEW year,
           year = {m \in Rated : Calendar(m) = Calendar(MonthAt[d])}, year # {}
    PROVE  LET S == {Whole(m) \div DaysIn(m) : m \in year} IN
           billDailyMonthMean(d) >= Min(S) /\ billDailyMonthMean(d) <= Max(S)
<1> DEFINE f == [m \in year |-> Rate(m)]
           S == {Whole(m) \div DaysIn(m) : m \in year}
           c == Cardinality(year)
           sum == SumFunctionOnSet(f, year)
<1>1. year \in SUBSET (Months \ {1}) /\ \A m \in year : m \in DOMAIN posted /\ posted[m] \in Nat
    BY DEF Rated, EstimateType
<1>2. ASSUME NEW m \in Rated PROVE RateMonth(m) = m
    <2>1. m \in Months /\ m \in Nat
        BY MonthsHaveDays DEF Rated, EstimateType, Months
    <2>2. FirstDay[m] \in Nat /\ FirstDay[m + 1] = FirstDay[m] + DaysIn(m) /\ DaysIn(m) \in Nat \ {0}
        BY <2>1, MonthsHaveDays, FirstDays DEF Months
    <2>3. BillDay(m) = FirstDay[m]
        BY <2>2 DEF BillDay
    <2>4. FirstDay[m] \in FirstDay[m] .. FirstDay[m + 1] - 1
        BY <2>2
    <2>5. MonthAt[FirstDay[m]] = m
        BY <2>1, <2>4, MonthOfDay
    <2>6. QED
        BY <2>3, <2>5 DEF RateMonth
<1>3. monthRatesFor(d) = year
    <2> DEFINE same == {m \in Rated : Calendar(RateMonth(m)) = Calendar(MonthAt[d])}
    <2>1. same = year
        BY <1>2, Zenon
    <2>2. monthRatesFor(d) = IF same = {} THEN Rated ELSE same
        BY Zenon DEF monthRatesFor
    <2> HIDE DEF same
    <2>3. QED
        BY <2>1, <2>2
<1>4. billDailyMonthMean(d) = sum \div c
    <2>1. billDailyMonthMean(d) = SumFunction([m \in year |-> Rate(m)]) \div Cardinality(year)
        BY <1>3, Zenon DEF billDailyMonthMean
    <2>2. SumFunction(f) = SumFunctionOnSet(f, year)
        BY Zenon DEF SumFunction
    <2>3. QED
        BY <2>1, <2>2
<1>5. ASSUME NEW m \in year PROVE f[m] = Whole(m) \div DaysIn(m) /\ f[m] \in Nat
    <2>1. m \in Rated /\ m \in Months /\ posted[m] \in Nat
        BY <1>1
    <2>2. Rate(m) = Whole(m) \div DaysIn(m)
        BY <1>2, <2>1, Zenon DEF Rate, Whole
    <2> DEFINE x == Whole(m)
               y == DaysIn(m)
    <2>3. x \in Nat
        BY <2>1, EstimateAssumption DEF Whole
    <2>4. y \in Nat \ {0}
        BY <2>1, MonthsHaveDays
    <2> HIDE DEF x, y
    <2>5. x \div y \in Nat
        BY <2>3, <2>4
    <2>6. f[m] = Rate(m)
        OBVIOUS
    <2>7. QED
        BY <2>2, <2>5, <2>6 DEF x, y
<1>6. IsFiniteSet(year) /\ c \in Nat \ {0}
    <2>1. IsFiniteSet(year)
        BY <1>1, DaysFinite, FS_Subset
    <2>2. c \in Nat /\ c # 0
        BY <2>1, FS_CardinalityType, FS_EmptySet
    <2>3. QED
        BY <2>1, <2>2
<1>7. S = {f[m] : m \in year}
    BY <1>5
<1> HIDE DEF f, S, c
<1>8. sum \in Nat /\ \A m \in year : f[m] <= sum
    <2>1. \A m \in year : f[m] \in Nat
        BY <1>5
    <2>2. sum \in Nat
        BY <1>6, <2>1, SumNat
    <2>3. ASSUME NEW m \in year PROVE f[m] <= sum
        <3>1. {m} \in SUBSET year /\ f[m] \in Int
            BY <2>1
        <3>2. SumFunctionOnSet(f, {m}) <= sum
            BY <1>6, <2>1, <3>1, SumSubset
        <3>3. SumFunctionOnSet(f, {m}) = f[m]
            BY <3>1, SumOne
        <3>4. QED
            BY <3>2, <3>3
    <2>4. QED
        BY <2>2, <2>3
<1> DEFINE a == Min(S)
           b == Max(S)
<1>9. S \in SUBSET Nat /\ S # {} /\ \A x \in S : x <= sum
    BY <1>5, <1>7, <1>8
<1>10. a \in S /\ \A x \in S : a <= x
    BY <1>9, LeastNatural
<1>11. b \in S /\ \A x \in S : x <= b
    <2> HIDE DEF sum
    <2>1. S \in SUBSET Int /\ sum \in Int
        BY <1>8, <1>9
    <2>2. QED
        BY <1>9, <2>1, GreatestInteger
<1> HIDE DEF a, b
<1>12. a \in Nat /\ b \in Nat /\ \A m \in year : f[m] \in Nat /\ a <= f[m] /\ f[m] <= b
    BY <1>5, <1>7, <1>9, <1>10, <1>11
<1> DEFINE g == [m \in year |-> a]
           h == [m \in year |-> b]
<1>13. a * c <= sum
    <2>1. \A m \in year : g[m] = a /\ g[m] \in Int /\ f[m] \in Int /\ g[m] <= f[m]
        BY <1>12
    <2> HIDE DEF g
    <2>2. a \in Int /\ IsFiniteSet(year)
        BY <1>6, <1>12
    <2>3. SumFunctionOnSet(g, year) = a * Cardinality(year)
        BY <2>1, <2>2, SumConst
    <2>4. SumFunctionOnSet(g, year) <= sum
        BY <2>1, <2>2, SumMono
    <2>5. QED
        BY <2>3, <2>4 DEF c
<1>14. sum <= b * c
    <2>1. \A m \in year : h[m] = b /\ h[m] \in Int /\ f[m] \in Int /\ f[m] <= h[m]
        BY <1>12
    <2> HIDE DEF h
    <2>2. b \in Int /\ IsFiniteSet(year)
        BY <1>6, <1>12
    <2>3. SumFunctionOnSet(h, year) = b * Cardinality(year)
        BY <2>1, <2>2, SumConst
    <2>4. sum <= SumFunctionOnSet(h, year)
        BY <2>1, <2>2, SumMono
    <2>5. QED
        BY <2>3, <2>4 DEF c
<1> HIDE DEF sum
<1>15. a <= sum \div c /\ sum \div c <= b
    BY <1>6, <1>8, <1>12, <1>13, <1>14, MeanBetween
<1>16. sum \div c \in Int
    BY <1>6, <1>8
<1>17. QED
    BY <1>4, <1>12, <1>15, <1>16 DEF a, b, S

\* Every window of the curve tiles.
LEMMA WindowsTile ==
    ASSUME EstimateType, DOMAIN posted # {}, NEW from \in Nat, NEW to \in Nat, from <= to
    PROVE  WindowTiles(from, to)
<1> DEFINE out == UtilityDailyEstimateRange(utilityDailyEstimateSeries, from, to)
           shown == {out[i].day : i \in 1 .. Len(out)}
           billed == {BillDay(m) : m \in DOMAIN posted}
           E == EstimateDays
<1>1. PICK w \in Nat, t \in Nat, f \in Nat, s \in Nat : WindowOf(out, from, to, w, t, f, s)
    BY WindowShape
<1> HIDE DEF out
<1>2. /\ Len(out) = w + t
      /\ \A i \in 1 .. w : out[i].day = f + i - 1 /\ out[i].projected = FALSE
                           /\ out[i].day \in E /\ out[i].day \in from .. to
      /\ \A d \in E \cap (from .. to) : d - f + 1 \in 1 .. w
    BY <1>1, Zenon DEF WindowOf
<1>3. \A i \in 1 .. t : /\ out[w + i].day = s + i - 1 /\ out[w + i].projected = TRUE
                        /\ out[w + i].flat = billDailyMonthMean(s + i - 1)
                        /\ s + i - 1 \notin E /\ s + i - 1 \in from .. to
                        /\ \A d \in E : d < s + i - 1
    <2>1. \A i \in 1 .. t : /\ out[w + i] = Projected(s + i - 1)
                            /\ s + i - 1 \notin E /\ s + i - 1 \in from .. to
                            /\ \A d \in E : d < s + i - 1
        BY <1>1, Zenon DEF WindowOf
    <2>2. \A d : /\ Projected(d).day = d /\ Projected(d).projected = TRUE
                 /\ Projected(d).flat = billDailyMonthMean(d)
        BY DEF Projected
    <2>3. QED
        BY <2>1, <2>2, Zenon
<1>4. Rated # {} => \A d \in from .. to : d \notin E /\ From <= d => d - s + 1 \in 1 .. t
    BY <1>1, Zenon DEF WindowOf
<1> HIDE DEF E
<1>5. ASSUME NEW i \in 1 .. Len(out) PROVE i \in 1 .. w \/ (\E j \in 1 .. t : i = w + j)
    <2>1. CASE i <= w
        BY <1>2, <2>1
    <2>2. CASE ~(i <= w)
        <3>1. i - w \in 1 .. t /\ i = w + (i - w)
            BY <1>2, <2>2
        <3>2. QED
            BY <3>1
    <2>3. QED
        BY <2>1, <2>2
<1>6. \A j \in 1 .. t : w + j \in 1 .. Len(out)
    BY <1>2
<1>7. \A i \in 1 .. w : i \in 1 .. Len(out)
    BY <1>2
<1>8. shown \subseteq from .. to
    <2>1. ASSUME NEW i \in 1 .. Len(out) PROVE out[i].day \in from .. to
        <3>1. CASE i \in 1 .. w
            BY <1>2, <3>1
        <3>2. CASE \E j \in 1 .. t : i = w + j
            BY <1>3, <3>2, Zenon
        <3>3. QED
            BY <1>5, <3>1, <3>2
    <2>2. QED
        BY <2>1
<1>9. ASSUME NEW i \in 1 .. Len(out) - 1 PROVE out[i].day < out[i + 1].day
    <2>1. i \in Nat /\ 1 <= i /\ i + 1 <= w + t
        BY <1>2
    <2>2. CASE i + 1 <= w
        <3>1. i \in 1 .. w /\ i + 1 \in 1 .. w
            BY <2>1, <2>2
        <3>2. out[i].day = f + i - 1 /\ out[i + 1].day = f + (i + 1) - 1
            BY <1>2, <3>1
        <3>3. QED
            BY <2>1, <3>2
    <2>3. CASE i = w
        <3>1. i \in 1 .. w /\ 1 \in 1 .. t
            BY <2>1, <2>3
        <3>2. out[i].day \in E
            BY <1>2, <3>1
        <3>3. out[w + 1].day = s + 1 - 1 /\ \A d \in E : d < s + 1 - 1
            BY <1>3, <3>1
        <3>4. out[i].day < s + 1 - 1
            BY <3>2, <3>3
        <3>5. QED
            BY <2>3, <3>3, <3>4
    <2>4. CASE i > w
        <3> DEFINE j == i - w
        <3>1. j \in 1 .. t /\ j + 1 \in 1 .. t /\ i = w + j /\ i + 1 = w + (j + 1)
            BY <2>1, <2>4
        <3> HIDE DEF j
        <3>2. out[w + j].day = s + j - 1 /\ out[w + (j + 1)].day = s + (j + 1) - 1
            BY <1>3, <3>1
        <3>3. j \in Int
            BY <3>1
        <3>4. s + j - 1 < s + (j + 1) - 1
            BY <3>3
        <3>5. QED
            BY <3>1, <3>2, <3>4
    <2>5. QED
        BY <2>1, <2>2, <2>3, <2>4
<1>10. Min(billed) = From
    <2>1. From \in billed
        <3>1. Min(DOMAIN posted) \in DOMAIN posted
            BY BilledMonths
        <3>2. QED
            BY <3>1 DEF From
    <2>2. billed \in SUBSET Nat
        BY BilledMonths
    <2>3. \A x \in billed : From <= x
        BY BilledMonths DEF From
    <2> HIDE DEF billed
    <2>4. Min(billed) \in billed /\ \A x \in billed : Min(billed) <= x
        BY <2>1, <2>2, LeastNatural
    <2>5. Min(billed) \in Nat /\ From \in Nat /\ Min(billed) <= From /\ From <= Min(billed)
        BY <2>1, <2>2, <2>3, <2>4
    <2>6. QED
        BY <2>5
<1>11. ASSUME Rated # {}, NEW d \in from .. to, d >= From PROVE d \in shown
    <2>1. CASE d \in E
        <3> DEFINE i == d - f + 1
        <3>1. i \in 1 .. w
            BY <1>2, <2>1
        <3>2. d = f + i - 1
            OBVIOUS
        <3> HIDE DEF i
        <3>3. out[i].day = d /\ i \in 1 .. Len(out)
            BY <1>2, <1>7, <3>1, <3>2
        <3>4. QED
            BY <3>3
    <2>2. CASE d \notin E
        <3> DEFINE j == d - s + 1
        <3>1. From <= d
            BY <1>11, FromUpto
        <3>2. j \in 1 .. t
            BY <1>4, <1>11, <2>2, <3>1
        <3>3. d = s + j - 1
            OBVIOUS
        <3> HIDE DEF j
        <3>4. out[w + j].day = d /\ w + j \in 1 .. Len(out)
            BY <1>3, <1>6, <3>2, <3>3
        <3>5. QED
            BY <3>4
    <2>3. QED
        BY <2>1, <2>2
<1>12. \A d : d \in E <=> \E m \in Closed : d \in BillDays(m)
    BY DEF E, EstimateDays
<1>13. ASSUME NEW i \in 1 .. Len(out)
       PROVE  out[i].projected <=> ~ \E m \in Closed : out[i].day \in BillDays(m)
    <2>1. CASE i \in 1 .. w
        <3>1. out[i].projected = FALSE /\ out[i].day \in E
            BY <1>2, <2>1
        <3>2. QED
            BY <1>12, <3>1
    <2>2. CASE \E j \in 1 .. t : i = w + j
        <3>1. out[i].projected = TRUE /\ out[i].day \notin E
            BY <1>3, <2>2, Zenon
        <3>2. QED
            BY <1>12, <3>1
    <2>3. QED
        BY <1>5, <2>1, <2>2
<1>14. ASSUME NEW i \in 1 .. Len(out), out[i].projected, zone, NEW year,
              year = {m \in Rated : Calendar(m) = Calendar(MonthAt[out[i].day])}, year # {}
       PROVE  /\ out[i].flat >= Min({Whole(m) \div DaysIn(m) : m \in year})
              /\ out[i].flat <= Max({Whole(m) \div DaysIn(m) : m \in year})
    <2>1. ~(i \in 1 .. w)
        BY <1>2, <1>14
    <2>2. PICK j \in 1 .. t : i = w + j
        BY <1>5, <2>1
    <2>3. out[i].flat = billDailyMonthMean(out[i].day)
        BY <1>3, <2>2
    <2>4. QED
        BY <1>14, <2>3, MeanOfYear
<1>15. QED
    BY <1>8, <1>9, <1>10, <1>11, <1>13, <1>14, Zenon DEF WindowTiles, out

\* The daily curve is the bills, for every calendar, every unit and amount, and
\* every set of what may be measured in a day.
THEOREM EstimateCurve == EstimateSpec => []EstimateTiles
<1>1. EstimateType => EstimateTiles
    <2> SUFFICES ASSUME EstimateType, posted # << >>
                 PROVE  BillsAddUp /\ \A from \in AllDays : \A to \in from .. Max(AllDays) : WindowTiles(from, to)
        BY DEF EstimateTiles
    <2>1. DOMAIN posted # {}
        BY DEF EstimateType
    <2>2. ASSUME NEW from \in AllDays, NEW to \in from .. Max(AllDays) PROVE WindowTiles(from, to)
        <3>1. from \in Nat /\ Max(AllDays) \in Nat
            BY DaysFinite
        <3>2. to \in Nat /\ from <= to
            BY <3>1
        <3>3. QED
            BY <2>1, <3>1, <3>2, WindowsTile
    <2>3. QED
        BY <2>2, BillsAdd
<1>2. QED
    BY <1>1, EstimateTypeInv, PTL
=============================================================================
