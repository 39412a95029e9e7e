-------------------------------- MODULE Feed --------------------------------
(***************************************************************************)
(* The samples the Home Assistant feed leaves in reference_samples and     *)
(* hvac_samples, and the healing of their holes: haLoop's inserts and      *)
(* keepalive, and utilityLoop with backfillReferenceGaps and               *)
(* backfillHVACHistory (cmd/worker/main.go, hvac.go; internal/db/reference.*)
(* go, hvac.go).                                                           *)
(*                                                                         *)
(* Time is cut into slots of two hours: the 2h cap of a backfill is one    *)
(* slot, an empty slot is longer than the 30 minutes a gap needs, and the  *)
(* keepalive fires in every slot.  A row is known by its slot.             *)
(***************************************************************************)
EXTENDS Integers, Sequences, FiniteSets, SequencesExt

CONSTANTS
    Entities,       \* the monitored entities
    Thermostat,     \* the HVAC entity
    None,
    MaxNow,         \* bound: slots
    MaxBreaks       \* bound: failed inserts, fetches and resolutions, crashes
                    \* and slots in which Home Assistant is down

ASSUME FeedAssumption ==
    /\ Thermostat \notin Entities /\ None \notin Entities \cup {Thermostat}
    /\ MaxNow \in Nat /\ MaxBreaks \in Nat

VARIABLES
    now,
    hist,           \* slots Home Assistant has recorded, in part at least
    up,             \* the subscription is healthy
    seen,           \* kaLast: entities with a value in this subscription
    live, fill,     \* slots with rows, by entity: src live, and backfilled
    upc,            \* utilityLoop
    job,            \* the table it is healing
    ranges,         \* what is left of its work-list
    info,           \* entities resolved for it
    got,            \* slots the statistics cover in the range in hand
    todo, cur,      \* entities of the range left to write, and in hand
    torn,           \* a range was left with some entities written and some not
    breaks

feedVars == <<hist, up, seen, live>>
jobVars == <<upc, job, ranges, info, got, todo, cur>>
vars == <<now, feedVars, fill, jobVars, torn, breaks>>

Slots == 0..MaxNow
Feeds == Entities \cup {Thermostat}

TypeOK ==
    /\ now \in Slots /\ hist \subseteq 0..now
    /\ up \in BOOLEAN /\ seen \subseteq Entities
    /\ live \in [Feeds -> SUBSET (0..now)] /\ fill \in [Feeds -> SUBSET Slots]
    /\ upc \in {"wait", "plan", "resolve", "fetch", "delete", "insert"}
    /\ job \in {"ref", "hvac"}
    /\ \A i \in 1..Len(ranges) : ranges[i][1] \in Slots /\ ranges[i][2] \in Slots
    /\ info \subseteq Feeds /\ got \subseteq Slots /\ todo \subseteq Feeds
    /\ cur \in Feeds \cup {None} /\ torn \in BOOLEAN
    /\ breaks \in 0..MaxBreaks

\* utilityLoop starts with a run.
Init ==
    /\ now = 0 /\ hist = {}
    /\ up = FALSE /\ seen = {}
    /\ live = [f \in Feeds |-> {}] /\ fill = [f \in Feeds |-> {}]
    /\ upc = "plan" /\ job = "ref" /\ ranges = <<>> /\ info = {} /\ got = {}
    /\ todo = {} /\ cur = None /\ torn = FALSE /\ breaks = 0

Breaks == breaks < MaxBreaks /\ breaks' = breaks + 1

-----------------------------------------------------------------------------
(* The live feed.                                                          *)

\* A subscription is made; the seed writes the thermostat's action.
FeedUp ==
    /\ ~up /\ up' = TRUE /\ seen' = {}
    /\ live' = [live EXCEPT ![Thermostat] = @ \cup {now}]
    /\ UNCHANGED <<now, hist, fill, jobVars, torn, breaks>>

\* The subscription ends, for any of the reasons haLoop knows.
FeedDown ==
    /\ up /\ up' = FALSE /\ seen' = {}
    /\ UNCHANGED <<now, hist, live, fill, jobVars, torn, breaks>>

\* onSample.  The token it leaves in utilRestart after an outage only shortens
\* utilityLoop's wait, which may end at any time here.
OnSample(e) ==
    /\ up /\ seen' = seen \cup {e}
    /\ \/ live' = [live EXCEPT ![e] = @ \cup {now}] /\ UNCHANGED breaks
       \/ Breaks /\ UNCHANGED live
    /\ UNCHANGED <<now, hist, up, fill, jobVars, torn>>

\* The keepalive ticker, which fires in every slot, re-inserts what has a value.
Keepalive ==
    live' = [f \in Feeds |-> IF up /\ f \in seen \cup {Thermostat} THEN live[f] \cup {now} ELSE live[f]]

\* Home Assistant compiles the first hour of the slot.
Record ==
    /\ now \notin hist /\ hist' = hist \cup {now}
    /\ UNCHANGED <<now, up, seen, live, fill, jobVars, torn, breaks>>

\* Home Assistant records every slot, unless it is down itself; all inserts of
\* a keepalive may fail.  A run of the backfills, bounded by 120 s for each
\* table, is over before the slot is.
Tick ==
    /\ now < MaxNow /\ now' = now + 1 /\ upc = "wait"
    /\ \/ Keepalive /\ hist' = hist \cup {now} /\ UNCHANGED breaks
       \/ up /\ Breaks /\ hist' = hist \cup {now} /\ UNCHANGED live
       \/ ~up /\ Breaks /\ UNCHANGED <<live, hist>>
    /\ UNCHANGED <<up, seen, fill, jobVars, torn>>

-----------------------------------------------------------------------------
(* The work-lists.                                                         *)

Rows(fs) == UNION {live[f] \cup fill[f] : f \in fs}

\* Mutant of CapEnd: everything up to now is healed.
CapEndNow == now

\* Two hours back.
CapEnd == now - 1

\* hi is clamped to capEnd; ranges that become empty are dropped.
Clamp(gaps) == {g \in {<<r[1], IF r[2] > CapEnd THEN CapEnd ELSE r[2]>> : r \in gaps} : g[1] < g[2]}

\* sampleGaps: the holes between rows, and the one from the last row to capEnd.
SampleGaps(rows) ==
    {r \in rows \X rows : r[1] < r[2] - 1 /\ \A s \in rows : s <= r[1] \/ s >= r[2]}
    \cup {r \in rows \X {CapEnd} : r[1] < CapEnd /\ \A s \in rows : s <= r[1]}

\* Mutant of PlanHVACBackfill: only the gaps between rows.
PlanHVACNoLead(rows) == Clamp(SampleGaps(rows))

\* planHVACBackfill: the whole lookback when there is no row yet, else what
\* comes before the first row, and the gaps.
PlanHVACBackfill(rows) ==
    IF rows = {} THEN {<<0, CapEnd>>}
    ELSE {r \in {0} \X rows : r[1] < r[2] /\ \A s \in rows : s >= r[2]} \cup Clamp(SampleGaps(rows))

\* The ranges in the order of their rows.
Ordered(gaps) ==
    {rs \in SetToSeqs(gaps) : \A i, j \in DOMAIN rs : i < j => rs[i][1] < rs[j][1]}

\* backfillReferenceGaps clamps in its own loop.
WorkList == IF job = "ref" THEN Clamp(SampleGaps(Rows(Entities)))
            ELSE PlanHVACBackfill(Rows({Thermostat}))

-----------------------------------------------------------------------------
(* utilityLoop.                                                            *)

\* waitOrRestart: twelve hours, or a token in utilRestart.
WaitOver ==
    /\ upc = "wait" /\ upc' = "plan" /\ job' = "ref"
    /\ UNCHANGED <<now, feedVars, fill, ranges, info, got, todo, cur, torn, breaks>>

\* The job is over, done or given up: the next one, or the wait.
JobOver ==
    /\ IF job = "ref" THEN upc' = "plan" /\ job' = "hvac" ELSE upc' = "wait" /\ UNCHANGED job
    /\ ranges' = <<>> /\ info' = {} /\ got' = {} /\ todo' = {} /\ cur' = None

Plan ==
    /\ upc = "plan"
    /\ IF CapEnd < 0 \/ WorkList = {} THEN JobOver
       ELSE /\ ranges' \in Ordered(WorkList)
            /\ upc' = IF job = "ref" THEN "resolve" ELSE "fetch"
            /\ info' = IF job = "ref" THEN {} ELSE {Thermostat}
            /\ UNCHANGED <<job, got, todo, cur>>
    /\ UNCHANGED <<now, feedVars, fill, torn, breaks>>

\* buildEntityInfo and the cache; with nothing resolved the job is skipped.
Resolve(es) ==
    /\ upc = "resolve"
    /\ IF es = Entities THEN UNCHANGED breaks ELSE Breaks
    /\ IF es = {} THEN JobOver
       ELSE upc' = "fetch" /\ info' = es /\ UNCHANGED <<job, ranges, got, todo, cur>>
    /\ torn' = (torn \/ es \notin {{}, Entities})
    /\ UNCHANGED <<now, feedVars, fill>>

\* Mutant of Written: the loop over the entities is left after the first.
WrittenFirst(rest) ==
    IF Len(ranges) > 1
    THEN /\ upc' = "fetch" /\ ranges' = Tail(ranges) /\ todo' = {} /\ cur' = None /\ got' = {}
         /\ UNCHANGED <<job, info>>
    ELSE JobOver

\* On to the next entity, the next range or the next job.
Written(rest) ==
    IF rest # {} THEN upc' = "delete" /\ todo' = rest /\ cur' = None /\ UNCHANGED <<job, ranges, info, got>>
    ELSE IF Len(ranges) > 1
         THEN /\ upc' = "fetch" /\ ranges' = Tail(ranges) /\ todo' = {} /\ cur' = None /\ got' = {}
              /\ UNCHANGED <<job, info>>
         ELSE JobOver

\* The slots the statistics have something of; a slot Home Assistant was down
\* for has nothing.
StatisticsMeanDuringPeriod(r) == {s \in hist : s >= r[1] /\ s <= r[2]}

\* The thermostat's events: the one in force at the start, and the later ones.
AttrHistory(r) == {s \in hist : s <= r[2]}

\* An event holds until the next, the last one to the end of the range: slots
\* Home Assistant was down for are filled too.
ExpandHVACHistory(events, r) == {s \in r[1] .. r[2] : \E h \in events : h <= s}

\* What a fetch brought is written next.
Write(rows) ==
    upc' = "delete" /\ got' = rows /\ todo' = info /\ UNCHANGED <<job, ranges, info, cur>>

\* Entities without statistics are not visited.
FetchMeans ==
    /\ upc = "fetch" /\ job = "ref"
    /\ \/ /\ LET means == StatisticsMeanDuringPeriod(ranges[1])
             IN  IF means = {} THEN Written({}) ELSE Write(means)
          /\ UNCHANGED breaks
       \/ Breaks /\ JobOver
    /\ UNCHANGED <<now, feedVars, fill, torn>>

\* backfillHVACHistory replaces whatever the history says, nothing included.
FetchHistory ==
    /\ upc = "fetch" /\ job = "hvac"
    /\ \/ /\ Write(ExpandHVACHistory(AttrHistory(ranges[1]), ranges[1]))
          /\ UNCHANGED breaks
       \/ Breaks /\ JobOver
    /\ UNCHANGED <<now, feedVars, fill, torn>>

\* Mutant of Replaced: rows of any src go.
ReplacedAll(f) ==
    /\ fill' = [fill EXCEPT ![f] = {s \in @ : s < ranges[1][1] \/ s > ranges[1][2]}]
    /\ live' = [live EXCEPT ![f] = {s \in @ : s < ranges[1][1] \/ s > ranges[1][2]}]

\* The backfill rows of the range, which a new backfill replaces.
Replaced(f) ==
    /\ fill' = [fill EXCEPT ![f] = {s \in @ : s < ranges[1][1] \/ s > ranges[1][2]}]
    /\ UNCHANGED live

\* ReplaceBackfillSamples and ReplaceHVACBackfill: DELETE, then INSERT, in no
\* transaction.  A failure of either goes on with the next entity or range.
Delete(f) ==
    /\ upc = "delete" /\ f \in todo
    /\ \/ /\ Replaced(f)
          /\ IF got = {} THEN Written(todo \ {f})
             ELSE upc' = "insert" /\ cur' = f /\ todo' = todo \ {f} /\ UNCHANGED <<job, ranges, info, got>>
          /\ UNCHANGED <<torn, breaks>>
       \/ Breaks /\ torn' = TRUE /\ Written(todo \ {f}) /\ UNCHANGED <<fill, live>>
    /\ UNCHANGED <<now, hist, up, seen>>

Insert ==
    /\ upc = "insert"
    /\ \/ fill' = [fill EXCEPT ![cur] = @ \cup got] /\ UNCHANGED <<torn, breaks>>
       \/ Breaks /\ torn' = TRUE /\ UNCHANGED fill
    /\ Written(todo)
    /\ UNCHANGED <<now, feedVars>>

Crash ==
    /\ Breaks
    /\ up' = FALSE /\ seen' = {}
    /\ upc' = "plan" /\ job' = "ref" /\ ranges' = <<>> /\ info' = {} /\ got' = {} /\ todo' = {} /\ cur' = None
    /\ torn' = (torn \/ (job = "ref" /\ upc \in {"delete", "insert"}))
    /\ UNCHANGED <<now, hist, live, fill>>

-----------------------------------------------------------------------------
Utility ==
    \/ Plan \/ (\E es \in SUBSET Entities : Resolve(es))
    \/ FetchMeans \/ FetchHistory \/ (\E f \in Feeds : Delete(f)) \/ Insert

Next ==
    \/ FeedUp \/ FeedDown \/ (\E e \in Entities : OnSample(e)) \/ Record \/ Tick
    \/ WaitOver \/ Utility \/ Crash

(* utilityLoop's goroutine runs and its twelve hours pass.                 *)
Spec == Init /\ [][Next]_vars /\ WF_vars(WaitOver) /\ WF_vars(Utility)

-----------------------------------------------------------------------------
(* Live rows are never touched by a backfill.                              *)
LiveRowsKept == [][\A f \in Feeds : live[f] \subseteq live'[f]]_vars

(* A backfill cannot hide a feed that is dead right now: a row of the last *)
(* two hours is live, or older than a live one (the range before the       *)
(* thermostat's first row is not capped).                                  *)
OutageVisible == \A f \in Feeds : \A s \in fill[f] : s <= now - 1 \/ \E r \in live[f] : r >= s

(* Slots without a row although Home Assistant knows them: for the monitored*)
(* entities after their first row, for the thermostat from the beginning.  *)
Holes ==
    {s \in hist : /\ s <= CapEnd /\ s \notin Rows(Entities)
                  /\ \E r \in Rows(Entities) : r < s}
    \cup {s \in hist : s <= CapEnd /\ s \notin Rows({Thermostat})}

(* A failed or interrupted backfill loses nothing for good: every hole that*)
(* Home Assistant can fill is filled in the end, as the comment on         *)
(* backfillReferenceGaps says, and is so whenever utilityLoop waits.       *)
HolesHeal == <>[](upc = "wait" => Holes = {})

(* A slot that was healed for one monitored entity was healed for all of   *)
(* them, unless one was unresolved or failed while the others were written:*)
(* the slot is no gap any more, so what is missing then stays missing.     *)
HealedTogether ==
    upc = "wait" /\ ~torn =>
        \A e, f \in Entities : fill[e] \ Rows({f}) = {}
=============================================================================
