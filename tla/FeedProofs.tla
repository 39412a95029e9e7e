----------------------------- MODULE FeedProofs -----------------------------
(***************************************************************************)
(* Proofs about Feed, for every set of entities, every number of slots and *)
(* every number of failures: what a backfill may touch and may not hide,   *)
(* and that the entities of a range are healed together.                   *)
(***************************************************************************)
EXTENDS Feed, FiniteSetTheorems, SequenceTheorems, TLAPS

\* What the steps need of the types: the samples, and the job in hand.
DataType ==
    /\ now \in Nat /\ hist \subseteq 0..now
    /\ live \in [Feeds -> SUBSET (0..now)] /\ fill \in [Feeds -> SUBSET Nat]
JobType ==
    /\ upc \in {"wait", "plan", "resolve", "fetch", "delete", "insert"} /\ job \in {"ref", "hvac"}
    /\ ranges \in Seq(Nat \X Nat)
    /\ info \subseteq Feeds /\ todo \subseteq info /\ got \subseteq Nat
    /\ upc \in {"resolve", "fetch", "delete", "insert"} => ranges # <<>>
    /\ upc \in {"wait", "plan"} => ranges = <<>>
    /\ upc \in {"wait", "plan", "resolve"} => info = {}
    /\ upc = "resolve" => job = "ref"
    /\ upc = "insert" => cur \in info

\* The thermostat's job works on the thermostat, the other on the entities.
InfoInv == info \subseteq IF job = "hvac" THEN {Thermostat} ELSE Entities

\* A slot the job in hand may write: it is two hours old, or the thermostat has
\* a live row at it or after it.
Old(s) == s <= now - 1 \/ (job = "hvac" /\ \E r \in live[Thermostat] : r >= s)
RangesOld == \A i \in 1..Len(ranges) : Old(ranges[i][2])

\* What a fetch brought lies in the range in hand, and for the monitored
\* entities it is all that Home Assistant has of it.
InRange == ranges[1][1] .. ranges[1][2]
GotInv ==
    upc \in {"delete", "insert"} =>
        /\ got \subseteq InRange
        /\ job = "ref" => got = hist \cap InRange

\* What is backfilled for the monitored entities, Home Assistant had.
FillKnown == \A e \in Entities : fill[e] \subseteq hist

\* Entities of the range in hand that are still to be written.
Unwritten == todo \cup IF upc = "insert" THEN {cur} ELSE {}

\* While nothing is torn, the entities agree, but in the range in hand, where
\* the ones that are written have all that was fetched.
Agree(S) == \A e, f \in Entities : fill[e] \ S \subseteq live[f] \cup fill[f]
Writing == job = "ref" /\ upc \in {"delete", "insert"}
Resolved == job = "ref" /\ upc \in {"fetch", "delete", "insert"} => info = Entities
TogetherInv ==
    ~torn => /\ Resolved
             /\ ~Writing => Agree({})
             /\ Writing => /\ Agree(InRange)
                           /\ \A f \in Entities \ Unwritten : got \subseteq fill[f]

FeedInv ==
    DataType /\ JobType /\ InfoInv /\ RangesOld /\ GotInv /\ OutageVisible /\ FillKnown /\ TogetherInv

-----------------------------------------------------------------------------
(* The feed's own steps.                                                   *)

Feeding == FeedUp \/ FeedDown \/ (\E e \in Entities : OnSample(e)) \/ Record \/ Tick
LiveGrows == \A f \in Feeds : live[f] \subseteq live'[f]

\* What the live feed, Home Assistant and the clock change: rows are added for
\* the slot that is now, and time goes on while utilityLoop waits.
LEMMA FeedingFrame ==
    ASSUME DataType, Feeding
    PROVE  /\ UNCHANGED <<fill, jobVars, torn>>
           /\ now' \in Nat /\ now <= now' /\ (upc # "wait" => now' = now)
           /\ hist \subseteq hist' /\ hist' \subseteq hist \cup {now}
           /\ live' \in [Feeds -> SUBSET (0..now')] /\ LiveGrows
<1> DEFINE G == /\ UNCHANGED <<fill, jobVars, torn>>
                /\ now' \in Nat /\ now <= now' /\ (upc # "wait" => now' = now)
                /\ hist \subseteq hist' /\ hist' \subseteq hist \cup {now}
                /\ live' \in [Feeds -> SUBSET (0..now')] /\ LiveGrows
<1> SUFFICES G OBVIOUS
<1> USE DEF DataType, LiveGrows
<1>1. Thermostat \in Feeds /\ Entities \subseteq Feeds BY DEF Feeds
<1>2. CASE FeedUp BY <1>1, <1>2 DEF FeedUp
<1>3. CASE FeedDown BY <1>3 DEF FeedDown
<1>4. ASSUME NEW e \in Entities, OnSample(e) PROVE G BY <1>1, <1>4 DEF OnSample
<1>5. CASE Record BY <1>5 DEF Record
<1>6. CASE Tick
    <2>1. now' = now + 1 /\ upc = "wait" /\ UNCHANGED <<fill, jobVars, torn>> /\ hist' \in {hist, hist \cup {now}}
        BY <1>6 DEF Tick
    <2>2. CASE Keepalive BY <2>1, <2>2 DEF Keepalive
    <2>3. CASE UNCHANGED live BY <2>1, <2>3
    <2> QED BY <1>6, <2>2, <2>3 DEF Tick
<1> QED BY <1>2, <1>3, <1>4, <1>5, <1>6 DEF Feeding

\* What was two hours ago stays so.
LEMMA StillOld == ASSUME NEW s \in Nat, NEW n \in Nat, NEW m \in Nat, s <= n - 1, n <= m PROVE s <= m - 1
OBVIOUS

\* A slot the job may write stays one while time goes on and live rows come.
LEMMA OldKept ==
    ASSUME DataType, now' \in Nat, now <= now', LiveGrows, UNCHANGED job, NEW s \in Nat, Old(s)
    PROVE  Old(s)'
<1>1. CASE s <= now - 1 BY <1>1 DEF DataType, Old
<1>2. CASE job = "hvac" /\ \E r \in live[Thermostat] : r >= s
    BY <1>2 DEF LiveGrows, Old, Feeds
<1> QED BY <1>1, <1>2 DEF Old

\* The end of a range of the work-list is a slot.
LEMMA RangeTypes ==
    ASSUME JobType, NEW i \in 1..Len(ranges)
    PROVE  ranges[i][1] \in Nat /\ ranges[i][2] \in Nat
<1>1. ranges[i] \in Nat \X Nat BY ElementOfSeq DEF JobType
<1> QED BY <1>1

\* The feed's own steps keep the invariant.
LEMMA FeedingStep == ASSUME FeedInv, Feeding PROVE FeedInv'
<1> USE DEF FeedInv
<1>1. /\ UNCHANGED <<fill, upc, job, ranges, info, got, todo, cur, torn>>
      /\ now' \in Nat /\ now <= now' /\ (upc # "wait" => now' = now)
      /\ hist \subseteq hist' /\ hist' \subseteq hist \cup {now}
      /\ live' \in [Feeds -> SUBSET (0..now')] /\ LiveGrows
    BY FeedingFrame DEF jobVars
<1>2. DataType'
    <2>1. hist' \subseteq 0..now' BY <1>1 DEF DataType
    <2> QED BY <1>1, <2>1 DEF DataType
<1>3. JobType' BY <1>1 DEF JobType
<1>4. InfoInv' BY <1>1 DEF InfoInv
<1>5. RangesOld'
    <2> SUFFICES ASSUME NEW i \in 1..Len(ranges) PROVE Old(ranges[i][2])' BY <1>1 DEF RangesOld
    <2> DEFINE s == ranges[i][2]
    <2>1. s \in Nat /\ Old(s) BY RangeTypes DEF RangesOld
    <2>2. UNCHANGED s BY <1>1
    <2> HIDE DEF s
    <2>3. s <= now' - 1 \/ (job' = "hvac" /\ \E r \in live'[Thermostat] : r >= s)
        BY <1>1, <2>1, OldKept DEF Old
    <2> QED BY <2>2, <2>3 DEF Old, s
<1>6. GotInv'
    <2> SUFFICES ASSUME upc \in {"delete", "insert"} PROVE GotInv' BY <1>1 DEF GotInv
    <2>1. now' = now /\ InRange' = InRange BY <1>1 DEF InRange
    <2>2. ASSUME job = "ref" PROVE hist' \cap InRange = hist \cap InRange
        <3>1. 1 \in 1..Len(ranges) BY DEF JobType
        <3>2. Old(ranges[1][2]) BY <3>1 DEF RangesOld
        <3>3. ranges[1][1] \in Nat /\ ranges[1][2] \in Nat BY <3>1, RangeTypes
        <3>4. now \notin InRange BY <2>2, <3>2, <3>3 DEF Old, InRange, DataType
        <3> QED BY <1>1, <3>4
    <2> QED BY <1>1, <2>1, <2>2 DEF GotInv
<1>7. OutageVisible'
    <2> SUFFICES ASSUME NEW f \in Feeds, NEW s \in fill[f] PROVE s <= now' - 1 \/ \E r \in live'[f] : r >= s
        BY <1>1 DEF OutageVisible
    <2>1. s \in Nat BY DEF DataType
    <2>2. CASE s <= now - 1
        <3>1. now \in Nat /\ now' \in Nat /\ now <= now' BY <1>1 DEF DataType
        <3>2. s <= now' - 1 BY <2>1, <2>2, <3>1, StillOld
        <3> QED BY <3>2
    <2>3. CASE \E r \in live[f] : r >= s BY <1>1, <2>3 DEF LiveGrows
    <2> QED BY <2>2, <2>3 DEF OutageVisible
<1>8. FillKnown' BY <1>1 DEF FillKnown
<1>9. TogetherInv'
    <2>1. UNCHANGED <<torn, Writing, Resolved, InRange, Unwritten, fill, got>>
        BY <1>1 DEF Writing, Resolved, InRange, Unwritten
    <2>2. ASSUME NEW S, Agree(S) PROVE \A e, f \in Entities : fill[e] \ S \subseteq live'[f] \cup fill[f]
        BY <1>1, <2>2 DEF Agree, LiveGrows, Feeds
    <2> QED BY <2>1, <2>2 DEF TogetherInv, Agree
<1> QED BY <1>2, <1>3, <1>4, <1>5, <1>6, <1>7, <1>8, <1>9

-----------------------------------------------------------------------------
(* The steps of a job.                                                     *)

\* A job that ends, done or given up, leaves the invariant if what it wrote does.
LEMMA JobOverStep ==
    ASSUME FeedInv, JobOver, UNCHANGED <<now, hist, live>>, DataType', OutageVisible', FillKnown',
           ~torn' => \A e, f \in Entities : fill'[e] \subseteq live'[f] \cup fill'[f]
    PROVE  FeedInv'
<1>1. /\ upc' \in {"plan", "wait"} /\ job' \in {"ref", "hvac"}
      /\ ranges' = <<>> /\ info' = {} /\ got' = {} /\ todo' = {} /\ cur' = None
    BY DEF JobOver, FeedInv, JobType
<1>2. JobType' BY <1>1 DEF JobType
<1>3. InfoInv' /\ RangesOld' /\ GotInv' BY <1>1 DEF InfoInv, RangesOld, GotInv
<1>4. TogetherInv'
    <2>1. ~Writing' /\ Resolved' BY <1>1 DEF Writing, Resolved
    <2> QED BY <2>1 DEF TogetherInv, Agree
<1> QED BY <1>2, <1>3, <1>4 DEF FeedInv

\* The work-list without its first range.
LEMMA TailOfRanges ==
    ASSUME NEW S, NEW q \in Seq(S), Len(q) > 1
    PROVE  /\ Tail(q) \in Seq(S) /\ Len(Tail(q)) = Len(q) - 1 /\ Tail(q) # <<>>
           /\ \A i \in 1..Len(Tail(q)) : Tail(q)[i] = q[i + 1]
<1> DEFINE t == Tail(q)
<1>1. q # <<>> BY EmptySeq
<1>2. t \in Seq(S) /\ Len(t) = Len(q) - 1 /\ \A i \in 1..Len(t) : t[i] = q[i + 1]
    BY <1>1, HeadTailProperties
<1> HIDE DEF t
<1>3. Len(t) # 0
    <2>1. Len(q) \in Nat BY LenProperties
    <2> QED BY <1>2, <2>1
<1>4. t # <<>> BY <1>3, EmptySeq
<1> QED BY <1>2, <1>4 DEF t

\* An entity is written: the next one, the next range or the next job.
LEMMA WrittenStep ==
    ASSUME FeedInv, NEW rest \in SUBSET todo, Written(rest),
           upc \in {"fetch", "delete", "insert"}, rest # {} => upc # "fetch",
           UNCHANGED <<now, hist, live>>, DataType', OutageVisible', FillKnown',
           torn => torn',
           ~torn' /\ (rest = {} \/ job = "hvac") =>
               \A e, f \in Entities : fill'[e] \subseteq live'[f] \cup fill'[f],
           ~torn' /\ rest # {} /\ job = "ref" =>
               /\ \A e, f \in Entities : fill'[e] \ InRange \subseteq live'[f] \cup fill'[f]
               /\ \A f \in Entities \ rest : got \subseteq fill'[f]
    PROVE  FeedInv'
<1>1. CASE rest # {}
    <2>1. upc' = "delete" /\ todo' = rest /\ cur' = None /\ UNCHANGED <<job, ranges, info, got>>
        BY <1>1 DEF Written
    <2>2. JobType' BY <1>1, <2>1 DEF FeedInv, JobType
    <2>3. InfoInv' BY <2>1 DEF FeedInv, InfoInv
    <2>4. RangesOld' BY <2>1 DEF FeedInv, RangesOld, Old
    <2>5. GotInv' BY <1>1, <2>1 DEF FeedInv, GotInv, InRange
    <2>6. TogetherInv'
        <3> SUFFICES ASSUME ~torn' PROVE TogetherInv' BY DEF TogetherInv
        <3>1. ~torn OBVIOUS
        <3>2. Resolved' BY <1>1, <2>1, <3>1 DEF FeedInv, TogetherInv, Resolved
        <3>3. CASE job = "ref"
            <4>1. Writing' /\ Unwritten' = rest /\ InRange' = InRange
                BY <2>1, <3>3 DEF Writing, Unwritten, InRange
            <4> QED BY <1>1, <2>1, <3>2, <3>3, <4>1 DEF TogetherInv, Agree
        <3>4. CASE job = "hvac"
            <4>1. ~Writing' BY <2>1, <3>4 DEF Writing
            <4> QED BY <3>2, <3>4, <4>1 DEF TogetherInv, Agree
        <3> QED BY <3>3, <3>4 DEF FeedInv, JobType
    <2> QED BY <2>2, <2>3, <2>4, <2>5, <2>6 DEF FeedInv
<1>2. CASE rest = {} /\ Len(ranges) > 1
    <2>1. /\ upc' = "fetch" /\ ranges' = Tail(ranges) /\ todo' = {} /\ cur' = None /\ got' = {}
          /\ UNCHANGED <<job, info>>
        BY <1>2 DEF Written
    <2>2. ranges \in Seq(Nat \X Nat) /\ ranges # <<>> BY DEF FeedInv, JobType
    <2>3. ranges' \in Seq(Nat \X Nat) /\ Len(ranges') = Len(ranges) - 1 /\ ranges' # <<>>
          /\ \A i \in 1..Len(ranges') : ranges'[i] = ranges[i + 1]
        <3>1. ranges' = Tail(ranges) BY <2>1
        <3>2. ranges \in Seq(Nat \X Nat) BY <2>2
        <3>3. Len(ranges) > 1 BY <1>2
        <3>4. /\ Tail(ranges) \in Seq(Nat \X Nat) /\ Len(Tail(ranges)) = Len(ranges) - 1 /\ Tail(ranges) # <<>>
              /\ \A i \in 1..Len(Tail(ranges)) : Tail(ranges)[i] = ranges[i + 1]
            BY <3>2, <3>3, TailOfRanges, Zenon
        <3> QED BY <3>1, <3>4, Zenon
    <2>4. JobType' BY <2>1, <2>3 DEF FeedInv, JobType
    <2>5. InfoInv' BY <2>1 DEF FeedInv, InfoInv
    <2>6. RangesOld'
        <3>1. \A i \in 1..Len(ranges') : i + 1 \in 1..Len(ranges) BY <2>2, <2>3
        <3> QED BY <2>1, <2>3, <3>1 DEF FeedInv, RangesOld, Old
    <2>7. GotInv' BY <2>1 DEF GotInv
    <2>8. TogetherInv'
        <3>1. ~Writing' BY <2>1 DEF Writing
        <3>2. ~torn => Resolved' BY <2>1 DEF FeedInv, TogetherInv, Resolved
        <3> QED BY <1>2, <3>1, <3>2 DEF TogetherInv, Agree
    <2> QED BY <2>4, <2>5, <2>6, <2>7, <2>8 DEF FeedInv
<1>3. CASE rest = {} /\ ~(Len(ranges) > 1)
    BY <1>3, JobOverStep DEF Written
<1> QED BY <1>1, <1>2, <1>3

-----------------------------------------------------------------------------
(* The work-lists.                                                         *)

\* No row lies after now: a backfilled one is old, or before a live one.
LEMMA RowsBounded ==
    ASSUME DataType, OutageVisible, NEW fs \in SUBSET Feeds
    PROVE  Rows(fs) \subseteq 0..now
<1> SUFFICES ASSUME NEW f \in fs, NEW s \in live[f] \cup fill[f] PROVE s \in 0..now
    BY DEF Rows
<1>1. CASE s \in live[f] BY <1>1 DEF DataType
<1>2. CASE s \in fill[f]
    <2>1. now \in Nat /\ s \in Nat /\ live[f] \subseteq 0..now BY <1>2 DEF DataType
    <2>2. CASE s <= now - 1 BY <2>1, <2>2
    <2>3. CASE \E r \in live[f] : r >= s BY <2>1, <2>3
    <2> QED BY <1>2, <2>2, <2>3 DEF OutageVisible
<1> QED BY <1>1, <1>2

\* A clamped range of slots is one of slots, and ends two hours ago.
LEMMA ClampRange ==
    ASSUME now \in Nat, CapEnd >= 0, NEW rows \in SUBSET (0..now), NEW g \in Clamp(SampleGaps(rows))
    PROVE  g \in (0..now) \X (0..now) /\ g[2] <= now - 1
<1>1. now - 1 \in 0..now BY DEF CapEnd
<1>2. SampleGaps(rows) \subseteq (0..now) \X (0..now) BY <1>1 DEF SampleGaps, CapEnd
<1>3. PICK r \in SampleGaps(rows) : g = <<r[1], IF r[2] > CapEnd THEN CapEnd ELSE r[2]>>
    BY DEF Clamp
<1>4. r \in (0..now) \X (0..now) BY <1>2
<1>5. r[1] \in 0..now /\ r[2] \in 0..now BY <1>4
<1>6. (IF r[2] > CapEnd THEN CapEnd ELSE r[2]) \in 0..(now - 1) BY <1>1, <1>5 DEF CapEnd
<1> QED BY <1>3, <1>5, <1>6

\* The work-list is a finite set of ranges the job may write.
LEMMA WorkListOld ==
    ASSUME DataType, JobType, OutageVisible, CapEnd >= 0
    PROVE  /\ WorkList \subseteq (0..now) \X (0..now)
           /\ \A g \in WorkList : Old(g[2])
<1>1. now \in Nat /\ now - 1 \in 0..now BY DEF DataType, CapEnd
<1>2. Rows(Entities) \subseteq 0..now /\ Rows({Thermostat}) \subseteq 0..now
    BY RowsBounded DEF Feeds
<1> SUFFICES ASSUME NEW g \in WorkList PROVE g \in (0..now) \X (0..now) /\ Old(g[2])
    OBVIOUS
<1>3. ASSUME NEW rows \in SUBSET (0..now), g \in Clamp(SampleGaps(rows))
      PROVE  g \in (0..now) \X (0..now) /\ Old(g[2])
    BY <1>1, <1>3, ClampRange DEF Old
<1>4. CASE job = "ref" BY <1>2, <1>3, <1>4 DEF WorkList
<1>5. CASE job = "hvac"
    <2> DEFINE rows == Rows({Thermostat})
    <2>1. g \in PlanHVACBackfill(rows) BY <1>5 DEF WorkList
    <2>2. CASE rows = {}
        <3>1. g = <<0, now - 1>> BY <2>1, <2>2 DEF PlanHVACBackfill, CapEnd
        <3> QED BY <1>1, <3>1 DEF Old
    <2>3. CASE rows # {} /\ g \in {0} \X rows
        <3>1. g[1] = 0 /\ g[2] \in rows /\ g = <<g[1], g[2]>> BY <2>3
        <3>2. g \in (0..now) \X (0..now) BY <1>1, <1>2, <3>1
        <3>3. g[2] \in live[Thermostat] \/ g[2] \in fill[Thermostat] BY <3>1 DEF Rows
        <3>4. g[2] \in 0..now BY <1>2, <3>1
        <3> DEFINE s == g[2]
        <3> HIDE DEF s
        <3>5. CASE s \in live[Thermostat]
            <4>1. s >= s BY <3>4 DEF s
            <4> QED BY <1>5, <3>2, <3>5, <4>1 DEF Old, s
        <3>6. CASE s \in fill[Thermostat]
            <4>1. Thermostat \in Feeds BY DEF Feeds
            <4>2. s <= now - 1 \/ \E r \in live[Thermostat] : r >= s BY <3>6, <4>1 DEF OutageVisible
            <4> QED BY <1>5, <3>2, <4>2 DEF Old, s
        <3> QED BY <3>2, <3>3, <3>5, <3>6 DEF s
    <2>4. CASE rows # {} /\ g \in Clamp(SampleGaps(rows)) BY <1>2, <1>3, <2>4
    <2> QED BY <2>1, <2>2, <2>3, <2>4 DEF PlanHVACBackfill
<1> QED BY <1>4, <1>5 DEF JobType

\* A list of a finite set of ranges, in their order, holds nothing else, and
\* something.
LEMMA OrderedRanges ==
    ASSUME NEW S, IsFiniteSet(S), S # {}, NEW rs \in Ordered(S)
    PROVE  rs \in Seq(S) /\ rs # <<>>
<1>1. Cardinality(S) \in Nat /\ Cardinality(S) # 0 BY FS_CardinalityType, FS_EmptySet
<1>2. rs \in [1..Cardinality(S) -> S] BY DEF Ordered, SetToSeqs
<1>3. rs \in Seq(S) BY <1>1, <1>2, SeqDef
<1>4. 1 \in DOMAIN rs BY <1>1, <1>2
<1> QED BY <1>3, <1>4

-----------------------------------------------------------------------------
(* One lemma for each step of utilityLoop.                                 *)

\* What a step keeps that neither the clock, the feed nor a write changes.
LEMMA DataKept ==
    ASSUME FeedInv, UNCHANGED <<now, hist, live, fill>>
    PROVE  DataType' /\ OutageVisible' /\ FillKnown'
BY DEF FeedInv, DataType, OutageVisible, FillKnown

LEMMA AgreeNow ==
    ASSUME FeedInv, ~torn, ~Writing, UNCHANGED <<live, fill>>
    PROVE  \A e, f \in Entities : fill'[e] \subseteq live'[f] \cup fill'[f]
BY DEF FeedInv, TogetherInv, Agree


LEMMA WaitOverStep == ASSUME FeedInv, WaitOver PROVE FeedInv'
<1>1. /\ upc = "wait" /\ upc' = "plan" /\ job' = "ref"
      /\ UNCHANGED <<now, hist, live, fill, ranges, info, got, todo, cur, torn>>
    BY DEF WaitOver, feedVars
<1>2. info = {} /\ ranges = <<>> BY <1>1 DEF FeedInv, JobType
<1>3. DataType' /\ OutageVisible' /\ FillKnown' BY <1>1, DataKept
<1>4. JobType' BY <1>1, <1>2 DEF FeedInv, JobType
<1>5. InfoInv' /\ RangesOld' /\ GotInv' BY <1>1, <1>2 DEF InfoInv, RangesOld, GotInv
<1>6. TogetherInv' BY <1>1 DEF FeedInv, TogetherInv, Writing, Resolved, Agree
<1> QED BY <1>3, <1>4, <1>5, <1>6 DEF FeedInv

LEMMA PlanStep == ASSUME FeedInv, Plan PROVE FeedInv'
<1>1. upc = "plan" /\ UNCHANGED <<now, hist, live, fill, torn>> BY DEF Plan, feedVars
<1>2. DataType' /\ OutageVisible' /\ FillKnown' BY <1>1, DataKept
<1>3. ~Writing BY <1>1 DEF Writing
<1>4. CASE JobOver
    <2>1. ~torn' => \A e, f \in Entities : fill'[e] \subseteq live'[f] \cup fill'[f]
        BY <1>1, <1>3, AgreeNow
    <2> QED BY <1>1, <1>2, <1>4, <2>1, JobOverStep
<1>5. CASE ~(CapEnd < 0 \/ WorkList = {})
    <2>1. /\ ranges' \in Ordered(WorkList)
          /\ upc' = IF job = "ref" THEN "resolve" ELSE "fetch"
          /\ info' = IF job = "ref" THEN {} ELSE {Thermostat}
          /\ UNCHANGED <<job, got, todo, cur>>
        BY <1>5 DEF Plan
    <2>2. now \in Nat /\ CapEnd >= 0 BY <1>5 DEF FeedInv, DataType, CapEnd
    <2>3. WorkList \subseteq (0..now) \X (0..now) /\ \A g \in WorkList : Old(g[2])
        BY <2>2, WorkListOld DEF FeedInv
    <2>4. IsFiniteSet(WorkList)
        <3>1. IsFiniteSet(0..now) BY <2>2, FS_Interval
        <3>2. IsFiniteSet((0..now) \X (0..now)) BY <3>1, FS_Product
        <3> QED BY <2>3, <3>2, FS_Subset
    <2>5. ranges' \in Seq(WorkList) /\ ranges' # <<>> BY <1>5, <2>1, <2>4, OrderedRanges
    <2>6. \A i \in 1..Len(ranges') : ranges'[i] \in WorkList BY <2>5, ElementOfSeq
    <2>7. ranges' \in Seq(Nat \X Nat)
        <3>1. WorkList \subseteq Nat \X Nat BY <2>2, <2>3
        <3> QED BY <2>5, <3>1, SeqMonotonic, Zenon
    <2>8. todo' = {} BY <1>1, <2>1 DEF FeedInv, JobType
    <2>9. JobType' BY <1>1, <2>1, <2>5, <2>7, <2>8 DEF FeedInv, JobType, Feeds
    <2>10. InfoInv' BY <2>1 DEF FeedInv, JobType, InfoInv
    <2>11. RangesOld' BY <1>1, <2>1, <2>3, <2>6 DEF RangesOld, Old
    <2>12. GotInv' BY <2>1 DEF GotInv
    <2>13. TogetherInv' BY <1>1, <1>3, <2>1 DEF FeedInv, TogetherInv, Writing, Resolved, Agree
    <2> QED BY <1>2, <2>9, <2>10, <2>11, <2>12, <2>13 DEF FeedInv
<1> QED BY <1>4, <1>5 DEF Plan

LEMMA ResolveStep == ASSUME FeedInv, NEW es \in SUBSET Entities, Resolve(es) PROVE FeedInv'
<1>1. upc = "resolve" /\ UNCHANGED <<now, hist, live, fill>> BY DEF Resolve, feedVars
<1>2. DataType' /\ OutageVisible' /\ FillKnown' BY <1>1, DataKept
<1>3. ~Writing BY <1>1 DEF Writing
<1>4. torn' = (torn \/ es \notin {{}, Entities}) BY DEF Resolve
<1>5. CASE es = {}
    <2>1. ~torn' => \A e, f \in Entities : fill'[e] \subseteq live'[f] \cup fill'[f]
        BY <1>1, <1>3, <1>4, AgreeNow
    <2> QED BY <1>1, <1>2, <1>5, <2>1, JobOverStep DEF Resolve
<1>6. CASE es # {}
    <2>1. upc' = "fetch" /\ info' = es /\ UNCHANGED <<job, ranges, got, todo, cur>>
        BY <1>6 DEF Resolve
    <2>2. todo = {} /\ job = "ref" BY <1>1 DEF FeedInv, JobType
    <2>3. JobType' BY <1>1, <2>1, <2>2 DEF FeedInv, JobType, Feeds
    <2>4. InfoInv' BY <2>1, <2>2 DEF InfoInv
    <2>5. RangesOld' BY <1>1, <2>1 DEF FeedInv, RangesOld, Old
    <2>6. GotInv' BY <2>1 DEF GotInv
    <2>7. TogetherInv' BY <1>1, <1>3, <1>4, <1>6, <2>1 DEF FeedInv, TogetherInv, Writing, Resolved, Agree
    <2> QED BY <1>2, <2>3, <2>4, <2>5, <2>6, <2>7 DEF FeedInv
<1> QED BY <1>5, <1>6

\* The range in hand.
LEMMA FirstRange ==
    ASSUME FeedInv, upc \in {"fetch", "delete", "insert"}
    PROVE  /\ 1 \in 1..Len(ranges) /\ ranges[1][1] \in Nat /\ ranges[1][2] \in Nat
           /\ Old(ranges[1][2])
<1>1. 1 \in 1..Len(ranges) BY DEF FeedInv, JobType
<1> QED BY <1>1, RangeTypes DEF FeedInv, RangesOld

\* What a fetch brought lies in the range in hand.
LEMMA WriteStep ==
    ASSUME FeedInv, upc = "fetch", NEW rows \in SUBSET InRange, Write(rows),
           job = "ref" => rows = hist \cap InRange, UNCHANGED <<now, hist, live, fill, torn>>
    PROVE  FeedInv'
<1>1. upc' = "delete" /\ got' = rows /\ todo' = info /\ UNCHANGED <<job, ranges, info, cur>>
    BY DEF Write
<1>2. DataType' /\ OutageVisible' /\ FillKnown' BY DataKept
<1>3. rows \subseteq Nat BY FirstRange DEF InRange
<1>4. JobType' BY <1>1, <1>3 DEF FeedInv, JobType
<1>5. InfoInv' /\ RangesOld' BY <1>1 DEF FeedInv, InfoInv, RangesOld, Old
<1>6. InRange' = InRange BY <1>1 DEF InRange
<1>7. GotInv' BY <1>1, <1>6 DEF GotInv
<1>8. TogetherInv'
    <2> SUFFICES ASSUME ~torn PROVE TogetherInv' BY DEF TogetherInv
    <2>1. Resolved' BY <1>1 DEF FeedInv, TogetherInv, Resolved
    <2>2. Agree({}) BY DEF FeedInv, TogetherInv, Writing
    <2>3. Agree(InRange)' BY <1>6, <2>2 DEF Agree
    <2>4. Agree({})' BY <2>2 DEF Agree
    <2>5. Writing' => Entities \ Unwritten' = {} BY <1>1, <2>1 DEF Writing, Resolved, Unwritten
    <2> QED BY <2>1, <2>3, <2>4, <2>5 DEF TogetherInv
<1> QED BY <1>2, <1>4, <1>5, <1>7, <1>8 DEF FeedInv

LEMMA FetchMeansStep == ASSUME FeedInv, FetchMeans PROVE FeedInv'
<1>1. upc = "fetch" /\ job = "ref" /\ UNCHANGED <<now, hist, live, fill, torn>>
    BY DEF FetchMeans, feedVars
<1>2. DataType' /\ OutageVisible' /\ FillKnown' BY <1>1, DataKept
<1>3. ~torn' => \A e, f \in Entities : fill'[e] \subseteq live'[f] \cup fill'[f]
    BY <1>1, AgreeNow DEF Writing
<1>4. CASE JobOver BY <1>1, <1>2, <1>3, <1>4, JobOverStep
<1>5. CASE Written({}) BY <1>1, <1>2, <1>3, <1>5, WrittenStep
<1> DEFINE means == StatisticsMeanDuringPeriod(ranges[1])
<1>6. CASE Write(means)
    <2>1. hist \subseteq Nat BY DEF FeedInv, DataType
    <2>2. means = hist \cap InRange
        <3>1. ranges[1][1] \in Nat /\ ranges[1][2] \in Nat BY <1>1, FirstRange
        <3>2. \A s \in hist : s \in InRange <=> s >= ranges[1][1] /\ s <= ranges[1][2]
            BY <2>1, <3>1 DEF InRange
        <3> QED BY <3>2, Zenon DEF StatisticsMeanDuringPeriod
    <2>3. means \in SUBSET InRange BY <2>2
    <2> HIDE DEF means
    <2> QED BY <1>1, <1>6, <2>2, <2>3, WriteStep
<1> QED BY <1>4, <1>5, <1>6 DEF FetchMeans

LEMMA FetchHistoryStep == ASSUME FeedInv, FetchHistory PROVE FeedInv'
<1>1. upc = "fetch" /\ job = "hvac" /\ UNCHANGED <<now, hist, live, fill, torn>>
    BY DEF FetchHistory, feedVars
<1>2. DataType' /\ OutageVisible' /\ FillKnown' BY <1>1, DataKept
<1>3. ~torn' => \A e, f \in Entities : fill'[e] \subseteq live'[f] \cup fill'[f]
    BY <1>1, AgreeNow DEF Writing
<1>4. CASE JobOver BY <1>1, <1>2, <1>3, <1>4, JobOverStep
<1> DEFINE rows == ExpandHVACHistory(AttrHistory(ranges[1]), ranges[1])
<1>5. CASE Write(rows)
    <2>1. rows \subseteq InRange BY DEF ExpandHVACHistory, InRange
    <2> HIDE DEF rows
    <2> QED BY <1>1, <1>5, <2>1, WriteStep
<1> QED BY <1>4, <1>5 DEF FetchHistory

\* A row of a monitored entity in the range in hand was fetched again.
LEMMA FilledInRange ==
    ASSUME FeedInv, Writing, NEW e \in Entities
    PROVE  fill[e] \cap InRange \subseteq got
BY DEF FeedInv, Writing, GotInv, FillKnown

LEMMA DeleteStep == ASSUME FeedInv, NEW f \in Feeds, Delete(f) PROVE FeedInv'
<1> DEFINE rest == todo \ {f}
<1>1. upc = "delete" /\ f \in todo /\ rest \in SUBSET todo /\ UNCHANGED <<now, hist, live>>
    BY DEF Delete, Replaced
<1>2. CASE torn' /\ Written(rest) /\ UNCHANGED fill
    <2>1. DataType' /\ OutageVisible' /\ FillKnown' BY <1>1, <1>2, DataKept
    <2> HIDE DEF rest
    <2> QED BY <1>1, <1>2, <2>1, WrittenStep
<1>3. CASE Replaced(f) /\ UNCHANGED torn
    <2>1. fill \in [Feeds -> SUBSET Nat] BY DEF FeedInv, DataType
    <2>2. ranges[1][1] \in Nat /\ ranges[1][2] \in Nat BY <1>1, FirstRange
    <2>3. fill' = [fill EXCEPT ![f] = @ \ InRange]
        <3>1. {s \in fill[f] : s < ranges[1][1] \/ s > ranges[1][2]} = fill[f] \ InRange
            BY <2>1, <2>2 DEF InRange
        <3> QED BY <1>3, <2>1, <3>1 DEF Replaced
    <2>4. DataType' BY <1>1, <2>1, <2>3 DEF FeedInv, DataType
    <2>5. \A g \in Feeds : fill'[g] \subseteq fill[g] /\ fill[g] \ InRange = fill'[g] \ InRange
        BY <2>1, <2>3
    <2>6. OutageVisible' BY <1>1, <2>5 DEF FeedInv, OutageVisible
    <2>7. FillKnown' BY <1>1, <2>5 DEF FeedInv, FillKnown, Feeds
    <2>8. job = "hvac" => \A e \in Entities : fill'[e] = fill[e]
        <3>1. job = "hvac" => f = Thermostat BY <1>1 DEF FeedInv, InfoInv, JobType
        <3> QED BY <2>1, <2>3, <3>1, FeedAssumption DEF Feeds
    <2>9. ASSUME ~torn PROVE \A e, g \in Entities : fill'[e] \ InRange \subseteq live[g] \cup fill'[g]
        <3>1. Agree(InRange) BY <1>1, <2>9 DEF FeedInv, TogetherInv, Writing, Agree
        <3> QED BY <2>5, <3>1 DEF Agree, Feeds
    <2>10. CASE got = {} /\ Written(rest)
        <3>1. ASSUME ~torn', job = "ref"
              PROVE  \A e, g \in Entities : fill'[e] \subseteq live[g] \cup fill'[g]
            <4>1. Writing BY <1>1, <3>1 DEF Writing
            <4>2. \A e \in Entities : fill'[e] \ InRange = fill'[e]
                BY <2>5, <2>10, <4>1, FilledInRange DEF Feeds
            <4> QED BY <1>3, <2>9, <3>1, <4>2
        <3>2. ASSUME ~torn', job = "hvac"
              PROVE  \A e, g \in Entities : fill'[e] \subseteq live[g] \cup fill'[g]
            <4>1. ~Writing BY <3>2 DEF Writing
            <4>2. Agree({}) BY <1>3, <3>2, <4>1 DEF FeedInv, TogetherInv
            <4> QED BY <2>8, <3>2, <4>2 DEF Agree
        <3>3. job \in {"ref", "hvac"} BY DEF FeedInv, JobType
        <3> HIDE DEF rest
        <3>4. ~torn' => \A e, g \in Entities : fill'[e] \subseteq live'[g] \cup fill'[g]
            BY <1>1, <3>1, <3>2, <3>3
        <3> QED BY <1>1, <1>3, <2>4, <2>6, <2>7, <2>10, <3>4, WrittenStep
    <2>11. CASE /\ upc' = "insert" /\ cur' = f /\ todo' = rest /\ UNCHANGED <<job, ranges, info, got>>
        <3>1. JobType' BY <1>1, <2>11 DEF FeedInv, JobType
        <3>2. InfoInv' /\ RangesOld' BY <1>1, <2>11 DEF FeedInv, InfoInv, RangesOld, Old
        <3>3. InRange' = InRange BY <2>11 DEF InRange
        <3>4. GotInv' BY <1>1, <2>11, <3>3 DEF FeedInv, GotInv
        <3>5. TogetherInv'
            <4> SUFFICES ASSUME ~torn PROVE TogetherInv' BY <1>3 DEF TogetherInv
            <4>1. Resolved' /\ Writing' = Writing
                BY <1>1, <2>11 DEF FeedInv, TogetherInv, Resolved, Writing
            <4>2. CASE Writing
                <5>1. Unwritten' = todo /\ Unwritten = todo BY <1>1, <2>11 DEF Unwritten
                <5>2. \A g \in Entities \ todo : got \subseteq fill[g] /\ fill'[g] = fill[g]
                    BY <1>1, <2>1, <2>3, <4>2, <5>1 DEF FeedInv, TogetherInv, Feeds
                <5>3. Agree(InRange)' BY <1>1, <2>9, <3>3 DEF Agree
                <5> QED BY <2>11, <4>1, <4>2, <5>1, <5>2, <5>3 DEF TogetherInv
            <4>3. CASE ~Writing
                <5>1. job = "hvac" BY <1>1, <4>3 DEF Writing, FeedInv, JobType
                <5>2. Agree({})' BY <1>1, <2>8, <4>3, <5>1 DEF FeedInv, TogetherInv, Agree
                <5> QED BY <4>1, <4>3, <5>2 DEF TogetherInv
            <4> QED BY <4>2, <4>3
        <3> QED BY <2>4, <2>6, <2>7, <3>1, <3>2, <3>4, <3>5 DEF FeedInv
    <2> QED BY <1>2, <1>3, <2>10, <2>11, Zenon DEF Delete
<1> QED BY <1>2, <1>3 DEF Delete

LEMMA InsertStep == ASSUME FeedInv, Insert PROVE FeedInv'
<1>1. upc = "insert" /\ Written(todo) /\ UNCHANGED <<now, hist, live>> /\ cur \in info
    BY DEF Insert, feedVars, FeedInv, JobType
<1>2. CASE torn' /\ UNCHANGED fill
    <2>1. DataType' /\ OutageVisible' /\ FillKnown' BY <1>1, <1>2, DataKept
    <2>2. todo \in SUBSET todo OBVIOUS
    <2> QED BY <1>1, <1>2, <2>1, <2>2, WrittenStep
<1>3. CASE fill' = [fill EXCEPT ![cur] = @ \cup got] /\ UNCHANGED torn
    <2>1. /\ fill \in [Feeds -> SUBSET Nat] /\ got \subseteq InRange /\ got \subseteq Nat
          /\ cur \in Feeds /\ job \in {"ref", "hvac"}
        BY <1>1 DEF FeedInv, DataType, GotInv, JobType
    <2>2. /\ fill' \in [Feeds -> SUBSET Nat] /\ fill'[cur] = fill[cur] \cup got
          /\ \A g \in Feeds \ {cur} : fill'[g] = fill[g]
        BY <1>3, <2>1
    <2>3. DataType' BY <1>1, <2>2 DEF FeedInv, DataType
    <2>4. OutageVisible'
        <3> SUFFICES ASSUME NEW g \in Feeds, NEW s \in fill'[g]
                     PROVE  s <= now - 1 \/ \E r \in live[g] : r >= s
            BY <1>1 DEF OutageVisible
        <3>1. CASE s \in fill[g] BY <3>1 DEF FeedInv, OutageVisible
        <3>2. CASE s \notin fill[g]
            <4> DEFINE hi == ranges[1][2]
            <4>1. g = cur /\ s \in got BY <2>2, <3>2
            <4>2. hi \in Nat /\ Old(hi) BY <1>1, FirstRange
            <4>3. s \in Nat /\ s <= hi BY <1>1, <2>1, <4>1, FirstRange DEF InRange
            <4>4. now \in Nat /\ live \in [Feeds -> SUBSET (0..now)] BY DEF FeedInv, DataType
            <4> HIDE DEF hi
            <4>5. CASE hi <= now - 1 BY <4>2, <4>3, <4>4, <4>5
            <4>6. CASE job = "hvac" /\ \E r \in live[Thermostat] : r >= hi
                <5>1. g = Thermostat BY <1>1, <4>1, <4>6 DEF FeedInv, InfoInv
                <5>2. PICK r \in live[Thermostat] : r >= hi BY <4>6
                <5>3. r \in Nat BY <4>4, <5>1, <5>2
                <5>4. r >= s BY <4>2, <4>3, <5>2, <5>3
                <5> QED BY <5>1, <5>2, <5>4
            <4> QED BY <4>2, <4>5, <4>6 DEF Old
        <3> QED BY <3>1, <3>2
    <2>5. FillKnown'
        <3>1. job = "ref" => got \subseteq hist BY <1>1 DEF FeedInv, GotInv
        <3>2. job = "hvac" => cur \notin Entities
            BY <1>1, FeedAssumption DEF FeedInv, InfoInv
        <3> QED BY <1>1, <2>1, <2>2, <3>1, <3>2 DEF FeedInv, FillKnown, Feeds
    <2>6. ASSUME ~torn', job = "ref"
          PROVE  /\ \A e, g \in Entities : fill'[e] \ InRange \subseteq live[g] \cup fill'[g]
                 /\ \A g \in Entities \ todo : got \subseteq fill'[g]
        <3>1. Writing BY <1>1, <2>6 DEF Writing
        <3>2. Agree(InRange) /\ \A g \in Entities \ Unwritten : got \subseteq fill[g]
            BY <1>3, <2>6, <3>1 DEF FeedInv, TogetherInv
        <3>3. Unwritten = todo \cup {cur} BY <1>1 DEF Unwritten
        <3>4. \A g \in Entities : fill[g] \subseteq fill'[g] /\ fill'[g] \ InRange \subseteq fill[g] \ InRange
            BY <2>1, <2>2 DEF Feeds
        <3>5. \A e, g \in Entities : fill'[e] \ InRange \subseteq live[g] \cup fill'[g]
            BY <3>2, <3>4 DEF Agree
        <3>6. \A g \in Entities \ todo : got \subseteq fill'[g] BY <2>2, <3>2, <3>3, <3>4
        <3> QED BY <3>5, <3>6
    <2>7. ASSUME ~torn', job = "ref", todo = {}
          PROVE  \A e, g \in Entities : fill'[e] \subseteq live[g] \cup fill'[g]
        <3>1. got = hist \cap InRange BY <1>1, <2>7 DEF FeedInv, GotInv
        <3>2. \A e \in Entities : fill'[e] \cap InRange \subseteq got BY <1>1, <2>5, <3>1 DEF FillKnown
        <3> QED BY <2>6, <2>7, <3>2
    <2>8. ASSUME ~torn', job = "hvac"
          PROVE  \A e, g \in Entities : fill'[e] \subseteq live[g] \cup fill'[g]
        <3>1. ~Writing BY <2>8 DEF Writing
        <3>2. Agree({}) BY <1>3, <2>8, <3>1 DEF FeedInv, TogetherInv
        <3>3. cur \notin Entities BY <1>1, <2>8, FeedAssumption DEF FeedInv, InfoInv
        <3> QED BY <2>2, <3>2, <3>3 DEF Agree, Feeds
    <2>9. /\ ~torn' /\ (todo = {} \/ job = "hvac") =>
                 \A e, g \in Entities : fill'[e] \subseteq live'[g] \cup fill'[g]
          /\ ~torn' /\ todo # {} /\ job = "ref" =>
                 /\ \A e, g \in Entities : fill'[e] \ InRange \subseteq live'[g] \cup fill'[g]
                 /\ \A g \in Entities \ todo : got \subseteq fill'[g]
        BY <1>1, <2>1, <2>6, <2>7, <2>8
    <2>10. todo \in SUBSET todo OBVIOUS
    <2> QED BY <1>1, <1>3, <2>3, <2>4, <2>5, <2>9, <2>10, WrittenStep
<1> QED BY <1>2, <1>3 DEF Insert

LEMMA CrashStep == ASSUME FeedInv, Crash PROVE FeedInv'
<1>1. /\ UNCHANGED <<now, hist, live, fill>>
      /\ upc' = "plan" /\ job' = "ref" /\ ranges' = <<>> /\ info' = {} /\ got' = {} /\ todo' = {} /\ cur' = None
      /\ torn' = (torn \/ (job = "ref" /\ upc \in {"delete", "insert"}))
    BY DEF Crash
<1>2. DataType' /\ OutageVisible' /\ FillKnown' BY <1>1, DataKept
<1>3. JobType' BY <1>1 DEF JobType
<1>4. InfoInv' /\ RangesOld' /\ GotInv' BY <1>1 DEF InfoInv, RangesOld, GotInv
<1>5. TogetherInv'
    <2>1. ~Writing' /\ Resolved' BY <1>1 DEF Writing, Resolved
    <2>2. ~torn' => ~torn /\ ~Writing BY <1>1 DEF Writing
    <2>3. ~torn' => Agree({})' BY <1>1, <2>2, AgreeNow DEF Agree
    <2> QED BY <2>1, <2>3 DEF TogetherInv
<1> QED BY <1>2, <1>3, <1>4, <1>5 DEF FeedInv

-----------------------------------------------------------------------------
(* The invariant, and what follows from it.                                *)

LEMMA FeedInitially == ASSUME Init PROVE FeedInv
<1>1. DataType /\ JobType BY DEF Init, DataType, JobType
<1>2. InfoInv /\ RangesOld /\ GotInv BY DEF Init, InfoInv, RangesOld, GotInv
<1>3. OutageVisible /\ FillKnown /\ Agree({}) BY DEF Init, OutageVisible, FillKnown, Agree, Feeds
<1>4. TogetherInv BY <1>3 DEF Init, TogetherInv, Resolved, Writing
<1> QED BY <1>1, <1>2, <1>3, <1>4 DEF FeedInv

LEMMA FeedStep == ASSUME FeedInv, [Next]_vars PROVE FeedInv'
<1>1. CASE Feeding BY <1>1, FeedingStep
<1>2. CASE WaitOver BY <1>2, WaitOverStep
<1>3. CASE Plan BY <1>3, PlanStep
<1>4. ASSUME NEW es \in SUBSET Entities, Resolve(es) PROVE FeedInv' BY <1>4, ResolveStep
<1>5. CASE FetchMeans BY <1>5, FetchMeansStep
<1>6. CASE FetchHistory BY <1>6, FetchHistoryStep
<1>7. ASSUME NEW f \in Feeds, Delete(f) PROVE FeedInv' BY <1>7, DeleteStep
<1>8. CASE Insert BY <1>8, InsertStep
<1>9. CASE Crash BY <1>9, CrashStep
<1>10. CASE UNCHANGED vars
    <2> USE <1>10 DEF vars, feedVars, jobVars
    <2>1. DataType' /\ OutageVisible' /\ FillKnown' BY DataKept
    <2>2. JobType' BY DEF FeedInv, JobType
    <2>3. InfoInv' /\ RangesOld' BY DEF FeedInv, InfoInv, RangesOld, Old
    <2>4. GotInv' BY DEF FeedInv, GotInv, InRange
    <2>5. TogetherInv' BY DEF FeedInv, TogetherInv, Resolved, Writing, Agree, Unwritten, InRange
    <2> QED BY <2>1, <2>2, <2>3, <2>4, <2>5 DEF FeedInv
<1> QED BY <1>1, <1>2, <1>3, <1>4, <1>5, <1>6, <1>7, <1>8, <1>9, <1>10 DEF Next, Utility, Feeding

(* FeedInv is an invariant.                                                *)
THEOREM FeedInvariant == Spec => []FeedInv
<1>1. Init => FeedInv BY FeedInitially
<1>2. FeedInv /\ [Next]_vars => FeedInv' BY FeedStep
<1> QED BY <1>1, <1>2, PTL DEF Spec

(* However the backfills, their failures, crashes and the live feed        *)
(* interleave, no backfilled row makes a dead feed look alive: it is older *)
(* than two hours, or than a live row of its entity.                       *)
THEOREM FeedOutageVisible == Spec => []OutageVisible
<1>1. FeedInv => OutageVisible BY DEF FeedInv
<1> QED BY <1>1, FeedInvariant, PTL

(* As long as no range was left half written, the rows that were backfilled*)
(* for one monitored entity are there for all of them.                     *)
THEOREM FeedHealedTogether == Spec => []HealedTogether
<1>1. FeedInv => HealedTogether
    <2> SUFFICES ASSUME FeedInv, upc = "wait", ~torn, NEW e \in Entities, NEW f \in Entities
                 PROVE  fill[e] \subseteq Rows({f})
        BY DEF HealedTogether
    <2>1. Agree({}) BY DEF FeedInv, TogetherInv, Writing
    <2> QED BY <2>1 DEF Agree, Rows
<1> QED BY <1>1, FeedInvariant, PTL

(* No step takes a live row away: the DELETE of a backfill spares them, and*)
(* so do a crash and a failed insert.                                      *)
THEOREM FeedLiveRowsKept == Spec => LiveRowsKept
<1>1. ASSUME FeedInv, [Next]_vars PROVE [LiveGrows]_vars
    <2>1. CASE Feeding
        <3>1. DataType BY <1>1 DEF FeedInv
        <3>2. LiveGrows BY <2>1, <3>1, FeedingFrame
        <3> QED BY <3>2
    <2>2. CASE UNCHANGED live BY <2>2 DEF LiveGrows
    <2>3. CASE ~Feeding /\ Next
        <3>1. UNCHANGED live
            BY <2>3 DEF Next, Utility, Feeding, WaitOver, Plan, Resolve, FetchMeans, FetchHistory, Delete, Replaced, Insert, Crash, feedVars
        <3> QED BY <2>2, <3>1
    <2> QED BY <1>1, <2>1, <2>3
<1> QED BY <1>1, FeedInvariant, PTL DEF Spec, LiveRowsKept, LiveGrows
=============================================================================
