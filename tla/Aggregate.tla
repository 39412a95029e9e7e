----------------------------- MODULE Aggregate -----------------------------
(***************************************************************************)
(* The worker's one-time materialisation of readings_1h:                   *)
(* caggBackfillLoop (cmd/worker/main.go), RefreshReadings1h and            *)
(* OldestReadingTS (internal/db/consumption.go).  TimescaleDB's refresh    *)
(* policy, which owns the last 48 hours, is external.                      *)
(*                                                                         *)
(* Time is counted in days, and a day has at most one bucket: Horizon is   *)
(* the policy's 48 hours and Step the loop's range.                        *)
(***************************************************************************)
EXTENDS Integers, FiniteSetsExt

CONSTANTS
    Horizon, Step,
    MaxDay,         \* last day
    MaxTrouble      \* bound on failing calls, crashes and purges

ASSUME AggregateAssumption ==
    /\ Horizon \in Nat /\ Step \in Nat \ {0}
    /\ MaxDay \in Nat /\ MaxTrouble \in Nat

NoMark == 0     \* settings has no watermark

VARIABLES
    day,            \* the clock
    stored,         \* days with readings
    mat,            \* days materialised in readings_1h
    mark,           \* settings[readings_1h_refreshed_to]
    gpc, from, to,  \* the loop and the range in hand
    trouble

gvars == <<day, stored, mat, mark, gpc, from, to, trouble>>

GInit ==
    /\ day = 1 /\ stored = {} /\ mat = {} /\ mark = NoMark
    /\ gpc = "off" /\ from = 0 /\ to = 0 /\ trouble = 0

Trouble == trouble < MaxTrouble /\ trouble' = trouble + 1

-----------------------------------------------------------------------------
(* caggBackfillLoop.                                                       *)

\* The release with the aggregate and the loop is installed, over whatever
\* history there is.
Deploy ==
    /\ gpc = "off" /\ gpc' = "top"
    /\ UNCHANGED <<day, stored, mat, mark, from, to, trouble>>

\* A mutant of NextRange: it writes the watermark before the refresh.
NextRangeMarked ==
    LET start == IF mark # NoMark THEN mark ELSE Min(stored)
        target == day - Horizon
    IN
    /\ gpc = "top"
    /\ \/ /\ mark = NoMark /\ stored = {}
          /\ gpc' = "done" /\ mark' = day /\ UNCHANGED <<from, to>>
       \/ /\ mark # NoMark \/ stored # {}
          /\ start >= target
          /\ gpc' = "done" /\ UNCHANGED <<mark, from, to>>
       \/ /\ mark # NoMark \/ stored # {}
          /\ start < target
          /\ gpc' = "refresh" /\ from' = start /\ to' = Min({start + Step, target})
          /\ mark' = Min({start + Step, target})
    /\ UNCHANGED <<day, stored, mat, trouble>>

\* GetSettings, the start of the range and its end.  With no watermark the
\* history starts at its oldest reading; with no reading there is nothing to
\* do and the watermark is now.  A failing GetSettings tries again.
NextRange ==
    LET start == IF mark # NoMark THEN mark ELSE Min(stored)
        target == day - Horizon
    IN
    /\ gpc = "top"
    /\ \/ /\ mark = NoMark /\ stored = {}
          /\ gpc' = "done" /\ mark' = day /\ UNCHANGED <<from, to>>
       \/ /\ mark # NoMark \/ stored # {}
          /\ start >= target
          /\ gpc' = "done" /\ UNCHANGED <<mark, from, to>>
       \/ /\ mark # NoMark \/ stored # {}
          /\ start < target
          /\ gpc' = "refresh" /\ from' = start /\ to' = Min({start + Step, target})
          /\ UNCHANGED mark
    /\ UNCHANGED <<day, stored, mat, trouble>>

\* refresh_continuous_aggregate over [from, to); its failure is retried.
RefreshReadings1h ==
    /\ gpc = "refresh"
    /\ \/ /\ mat' = (mat \ (from .. to - 1)) \cup (stored \cap (from .. to - 1))
          /\ gpc' = "mark" /\ UNCHANGED trouble
       \/ Trouble /\ gpc' = "top" /\ UNCHANGED mat
    /\ UNCHANGED <<day, stored, mark, from, to>>

\* SetSetting; its failure is logged and the loop goes on.
SetMark ==
    /\ gpc = "mark" /\ gpc' = "top"
    /\ \/ mark' = to /\ UNCHANGED trouble
       \/ Trouble /\ UNCHANGED mark
    /\ UNCHANGED <<day, stored, mat, from, to>>

-----------------------------------------------------------------------------
(* Around it.                                                              *)

\* A day ends, with readings or without.
Day(heardToday) ==
    /\ day < MaxDay /\ day' = day + 1
    /\ stored' = IF heardToday THEN stored \cup {day} ELSE stored
    /\ UNCHANGED <<mat, mark, gpc, from, to, trouble>>

\* The refresh policy runs, now and then.
Policy ==
    /\ gpc # "off"
    /\ LET recent == day - Horizon .. day - 1
       IN  mat' = (mat \ recent) \cup (stored \cap recent)
    /\ UNCHANGED <<day, stored, mark, gpc, from, to, trouble>>

\* PurgeAllReadings truncates readings and leaves readings_1h and settings.
PurgeReadings ==
    /\ Trouble /\ stored' = {}
    /\ UNCHANGED <<day, mat, mark, gpc, from, to>>

\* The worker dies and starts again, or is simply restarted.
Restart ==
    /\ gpc # "off" /\ Trouble
    /\ gpc' = "top" /\ from' = 0 /\ to' = 0
    /\ UNCHANGED <<day, stored, mat, mark>>

GNext ==
    \/ Deploy \/ NextRange \/ RefreshReadings1h \/ SetMark
    \/ \E b \in BOOLEAN : Day(b)
    \/ Policy \/ PurgeReadings \/ Restart

AggregateSpec == GInit /\ [][GNext]_gvars

-----------------------------------------------------------------------------
(* Properties.                                                             *)

\* The watermark tells the truth: every stored day before it is materialised,
\* whatever failed, died or was purged in between; the loop never goes back
\* before it, so a day it skipped would be missing for good.
WatermarkHonest == \A d \in stored : d < mark => d \in mat
=============================================================================
