----------------------------- MODULE AutoWindow -----------------------------
(***************************************************************************)
(* The worker's auto-window detector (autoWindow and autoDecide in         *)
(* cmd/worker/main.go) on the test_windows table it shares with the API's  *)
(* test handlers.                                                          *)
(*                                                                         *)
(* One callback of the Home Assistant subscription handles one power       *)
(* sample: it may adopt a window, decides, and makes the database calls of *)
(* its decision one after the other.  The calls run under the              *)
(* subscription's context, which a configuration change cancels from       *)
(* another goroutine while the callback runs; the API and the clock        *)
(* interleave with it as well.                                             *)
(*                                                                         *)
(* Power is abstracted to what the thresholds tell apart: "rise" (at or    *)
(* above the opening threshold), "mid", and "low" (below the closing one,  *)
(* which is half as far from the baseline).  Time is counted in ticks and  *)
(* kept as saturating ages.                                                *)
(***************************************************************************)
EXTENDS Integers

CONSTANTS
    AutoMinDuration,    \* autoMinDuration, in ticks
    AutoMaxDuration,    \* autoMaxDuration
    AutoCooldown,       \* autoCooldown
    MaxTests,           \* bound: rows ever inserted in test_windows
    Pools,              \* what the physics screen may count as survivors
    NoPool,             \* snoop_k is NULL
    DBErrors            \* calls may fail although their context is live

ASSUME AutoAssumption ==
    /\ AutoMinDuration \in Nat /\ AutoMaxDuration \in Nat /\ AutoCooldown \in Nat
    /\ AutoMinDuration <= AutoMaxDuration
    /\ MaxTests \in Nat
    /\ NoPool \notin Pools
    /\ DBErrors \in BOOLEAN

VARIABLES
    nextId,         \* ids 1..nextId-1 have been handed out
    manual, auto,   \* ids of the rows, by their source column
    running,        \* ids of the rows whose end_ts is NULL
    age,            \* ticks since start_ts, up to AutoMaxDuration
    snoopK,         \* snoop_k of each row
    inited, open, openID,   \* autoState
    openAge,        \* ticks since openedAt
    closedAge,      \* ticks since lastClosedAt
    pc,             \* what the callback does next
    lag,            \* ticks since the callback read the clock
    live,           \* the subscription's context is not cancelled
    on,             \* the auto_window setting this subscription works under
    failed          \* a call of the detector has failed

tableVars == <<nextId, manual, auto, running, age, snoopK>>
awVars == <<inited, open, openID, openAge, closedAge>>
vars == <<tableVars, awVars, pc, lag, live, on, failed>>

Ids == 1..MaxTests
Level == {"rise", "mid", "low"}
PC == {"idle", "adopt", "create", "stop", "freeze", "delete", "switchOff"}

\* Ages saturate where no comparison of the code looks any further.
UpTo(n, cap) == IF n < cap THEN n ELSE cap
LagCap == IF AutoMaxDuration < AutoCooldown THEN AutoCooldown ELSE AutoMaxDuration

TypeOK ==
    /\ nextId \in 1..(MaxTests + 1)
    /\ manual \subseteq 1..(nextId - 1) /\ auto \subseteq 1..(nextId - 1)
    /\ manual \cap auto = {}
    /\ running \subseteq manual \cup auto
    /\ age \in [Ids -> 0..AutoMaxDuration]
    /\ snoopK \in [Ids -> Pools \cup {NoPool}]
    /\ inited \in BOOLEAN /\ open \in BOOLEAN
    /\ openID \in 0..MaxTests
    /\ openAge \in 0..AutoMaxDuration /\ closedAge \in 0..AutoCooldown
    /\ lag \in 0..LagCap
    /\ pc \in PC
    /\ live \in BOOLEAN /\ on \in BOOLEAN /\ failed \in BOOLEAN

\* lastClosedAt is the zero time: the cooldown is long over.
Init ==
    /\ nextId = 1 /\ manual = {} /\ auto = {} /\ running = {}
    /\ age = [i \in Ids |-> 0]
    /\ snoopK = [i \in Ids |-> NoPool]
    /\ inited = FALSE /\ open = FALSE /\ openID = 0
    /\ openAge = 0 /\ closedAge = AutoCooldown
    /\ pc = "idle" /\ lag = 0
    /\ live = TRUE /\ on \in BOOLEAN
    /\ failed = FALSE

-----------------------------------------------------------------------------
(* The decision.                                                           *)

\* Mutant of Decide: an open window waits for the load to fall, however long.
DecideUncapped(level, isOpen, a) ==
    IF ~on THEN IF isOpen THEN "switchOff" ELSE "idle"
    ELSE IF ~isOpen
         THEN IF level = "rise" /\ closedAge >= AutoCooldown THEN "create" ELSE "idle"
         ELSE IF level = "low"
              THEN IF a < AutoMinDuration THEN "delete" ELSE "stop"
              ELSE "idle"

\* What the callback does about a sample while closed, or open for a ticks.
Decide(level, isOpen, a) ==
    IF ~on THEN IF isOpen THEN "switchOff" ELSE "idle"
    ELSE IF ~isOpen
         THEN IF level = "rise" /\ closedAge >= AutoCooldown THEN "create" ELSE "idle"
         ELSE IF level = "low" \/ a >= AutoMaxDuration
              THEN IF a < AutoMinDuration THEN "delete" ELSE "stop"
              ELSE "idle"

\* A sample arrives: now := time.Now().  The first one adopts before it decides.
Sample(level) ==
    /\ pc = "idle" /\ live
    /\ pc' = IF inited THEN Decide(level, open, openAge) ELSE "adopt"
    /\ pc' = "create" => nextId <= MaxTests
    /\ lag' = 0
    /\ UNCHANGED <<tableVars, awVars, live, on, failed>>

-----------------------------------------------------------------------------
(* The calls.  A call whose context is cancelled fails, and so may one on  *)
(* a live context when the database does; a failed statement may have been *)
(* committed all the same.                                                 *)

CallFails == ~live \/ DBErrors

OpenAutos == auto \cap running

\* Mutant of OpenWindow: the source of the window is not looked at.
OpenWindowAny == running

\* The rows OpenWindow("auto") takes the latest of.
OpenWindow == OpenAutos

\* Mutant of Adopt: the first sample starts from a clean slate.
AdoptNone ==
    /\ pc = "adopt"
    /\ inited' = TRUE
    /\ pc' = Decide("low", open, openAge)
    /\ UNCHANGED <<tableVars, open, openID, openAge, closedAge, lag, live, on, failed>>

\* OpenWindow("auto"), then the decision: baseline was just set to this very
\* sample and the noise is zero, so the sample is "low".
Adopt ==
    /\ pc = "adopt"
    /\ \/ /\ live /\ OpenWindow # {}
          /\ open' = TRUE
          /\ openID' \in OpenWindow /\ \A i \in OpenWindow : i <= openID'
          /\ openAge' = age[openID']
          /\ UNCHANGED failed
       \/ /\ live /\ OpenWindow = {}
          /\ UNCHANGED <<open, openID, openAge, failed>>
       \/ /\ CallFails
          /\ failed' = TRUE
          /\ UNCHANGED <<open, openID, openAge>>
    /\ inited' = TRUE
    /\ pc' = Decide("low", open', openAge')
    /\ UNCHANGED <<tableVars, closedAge, lag, live, on>>

Insert(source, a) ==
    /\ nextId' = nextId + 1
    /\ auto' = IF source = "auto" THEN auto \cup {nextId} ELSE auto
    /\ manual' = IF source = "manual" THEN manual \cup {nextId} ELSE manual
    /\ running' = running \cup {nextId}
    /\ age' = [age EXCEPT ![nextId] = UpTo(a, AutoMaxDuration)]
    /\ UNCHANGED snoopK

\* CreateTest(..., now, nil, "auto", ...).
CreateTest ==
    /\ pc = "create"
    /\ \/ /\ live
          /\ Insert("auto", lag)
          /\ open' = TRUE /\ openID' = nextId /\ openAge' = UpTo(lag, AutoMaxDuration)
          /\ UNCHANGED failed
       \/ /\ CallFails
          /\ failed' = TRUE
          /\ Insert("auto", lag) \/ UNCHANGED tableVars
          /\ UNCHANGED <<open, openID, openAge>>
    /\ pc' = "idle"
    /\ UNCHANGED <<inited, closedAge, lag, live, on>>

\* w.aw.open, w.aw.lastClosedAt = false, now
Close ==
    /\ open' = FALSE
    /\ closedAge' = UpTo(lag, AutoCooldown)
    /\ UNCHANGED <<inited, openID, openAge>>

\* UPDATE ... SET end_ts WHERE id AND end_ts IS NULL; its error is dropped.
EndRow ==
    \/ live /\ running' = running \ {openID} /\ UNCHANGED failed
    \/ /\ CallFails /\ failed' = TRUE
       /\ running' \in {running, running \ {openID}}

\* autoClose: StopTest.
StopTest ==
    /\ pc = "stop"
    /\ EndRow
    /\ pc' = "freeze"
    /\ UNCHANGED <<nextId, manual, auto, age, snoopK, awVars, lag, live, on>>

\* FreezeTestSnoopK is best-effort: the screen may fail or find nobody.
Freeze(id) ==
    \/ UNCHANGED snoopK
    \/ id \in auto \cup manual /\ \E k \in Pools : snoopK' = [snoopK EXCEPT ![id] = k]

\* autoClose: FreezeTestSnoopK, and the detector is closed.
FreezeTestSnoopK ==
    /\ pc = "freeze"
    /\ IF live THEN Freeze(openID) ELSE UNCHANGED snoopK
    /\ Close
    /\ pc' = "idle"
    /\ UNCHANGED <<nextId, manual, auto, running, age, lag, live, on, failed>>

\* Mutant of SwitchOff: the detector lets go of the window without ending it.
SwitchOffForgets ==
    /\ pc = "switchOff"
    /\ Close
    /\ pc' = "idle"
    /\ UNCHANGED <<tableVars, lag, live, on, failed>>

\* The feature is off: StopTest, nothing is frozen.
SwitchOff ==
    /\ pc = "switchOff"
    /\ EndRow
    /\ Close
    /\ pc' = "idle"
    /\ UNCHANGED <<nextId, manual, auto, age, snoopK, lag, live, on>>

DeleteRow(id) ==
    /\ running' = running \ {id}
    /\ auto' = auto \ {id}
    /\ manual' = manual \ {id}
    /\ snoopK' = [snoopK EXCEPT ![id] = NoPool]
    /\ UNCHANGED <<nextId, age>>

\* autoDiscard: DeleteTest.
DeleteTest ==
    /\ pc = "delete"
    /\ \/ live /\ DeleteRow(openID) /\ UNCHANGED failed
       \/ /\ CallFails /\ failed' = TRUE
          /\ DeleteRow(openID) \/ UNCHANGED tableVars
    /\ Close
    /\ pc' = "idle"
    /\ UNCHANGED <<lag, live, on>>

-----------------------------------------------------------------------------
(* The rest of the worker, the API, the clock.                             *)

\* A configuration change: haRestart makes the other goroutine cancel subCtx.
HaRestart ==
    /\ live
    /\ live' = FALSE
    /\ UNCHANGED <<tableVars, awVars, pc, lag, on, failed>>

\* StreamStates returns once its callback has; haLoop subscribes again, under
\* the settings it now reads.
Subscribe ==
    /\ pc = "idle" /\ ~live
    /\ live' = TRUE
    /\ on' \in BOOLEAN
    /\ UNCHANGED <<tableVars, awVars, pc, lag, failed>>

\* The worker's process dies, wherever its callback is, and starts again.
Crash ==
    /\ inited \/ pc = "adopt"
    /\ inited' = FALSE /\ open' = FALSE /\ openID' = 0
    /\ openAge' = 0 /\ closedAge' = AutoCooldown
    /\ pc' = "idle" /\ lag' = 0
    /\ live' = TRUE /\ on' \in BOOLEAN
    /\ UNCHANGED <<tableVars, failed>>

\* handleStartTest, and handleCreateTest, which may be given an end as well.
\* The bound leaves room for a CreateTest under way.
ApiCreate(ended) ==
    /\ nextId + (IF pc = "create" THEN 1 ELSE 0) <= MaxTests
    /\ IF ended
       THEN /\ nextId' = nextId + 1
            /\ manual' = manual \cup {nextId}
            /\ UNCHANGED <<auto, running, age, snoopK>>
       ELSE Insert("manual", 0)
    /\ UNCHANGED <<awVars, pc, lag, live, on, failed>>

\* handleStopTest, of any window that exists, running or not.  The UPDATE's
\* error is dropped here too.
ApiStop(id) ==
    /\ id \in auto \cup manual
    /\ running' = running \ {id} \/ (DBErrors /\ UNCHANGED running)
    /\ Freeze(id)
    /\ UNCHANGED <<nextId, manual, auto, age, awVars, pc, lag, live, on, failed>>

\* handleDeleteTest.
ApiDelete(id) ==
    /\ id \in auto \cup manual
    /\ DeleteRow(id)
    /\ UNCHANGED <<awVars, pc, lag, live, on, failed>>

\* handleAdminDelete, mode all_tests: PurgeTests.
ApiPurge ==
    /\ auto \cup manual # {}
    /\ auto' = {} /\ manual' = {} /\ running' = {}
    /\ snoopK' = [i \in Ids |-> NoPool]
    /\ UNCHANGED <<nextId, age, awVars, pc, lag, live, on, failed>>

Tick ==
    /\ age' = [i \in Ids |-> IF i \in OpenAutos THEN UpTo(age[i] + 1, AutoMaxDuration)
                                                ELSE age[i]]
    /\ openAge' = IF open THEN UpTo(openAge + 1, AutoMaxDuration) ELSE openAge
    /\ closedAge' = UpTo(closedAge + 1, AutoCooldown)
    /\ lag' = IF pc = "idle" THEN lag ELSE UpTo(lag + 1, LagCap)
    /\ UNCHANGED <<nextId, manual, auto, running, snoopK,
                   inited, open, openID, pc, live, on, failed>>

Callback ==
    \/ Adopt \/ CreateTest \/ StopTest \/ FreezeTestSnoopK \/ SwitchOff \/ DeleteTest

Next ==
    \/ \E level \in Level : Sample(level)
    \/ Callback
    \/ HaRestart \/ Subscribe \/ Crash
    \/ \E ended \in BOOLEAN : ApiCreate(ended)
    \/ ApiPurge
    \/ \E id \in Ids : ApiStop(id) \/ ApiDelete(id)
    \/ Tick

Spec == Init /\ [][Next]_vars

(***************************************************************************)
(* haLoop re-subscribes, the clock advances, and Home Assistant reports    *)
(* another change of power now and then.  The last is an assumption about  *)
(* the home, not about the code: the detector runs on samples only, so a   *)
(* window is capped when the next one comes.  Fairness is strong where     *)
(* crashes and configuration changes keep interrupting: they come any      *)
(* number of times, but not every time before the next sample or before a  *)
(* callback is through.  No level is promised: where a "mid" sample makes  *)
(* the detector act, so does one of any other level.                       *)
(***************************************************************************)
Fairness ==
    /\ SF_vars(Sample("mid"))
    /\ SF_vars(Adopt) /\ SF_vars(CreateTest) /\ SF_vars(StopTest)
    /\ SF_vars(FreezeTestSnoopK) /\ SF_vars(SwitchOff) /\ SF_vars(DeleteTest)
    /\ WF_vars(Subscribe)
    /\ WF_vars(Tick)

FairSpec == Spec /\ Fairness

-----------------------------------------------------------------------------
(* Properties.                                                             *)

\* As long as no call of the detector has failed, at most one auto window is
\* running, across crashes, feature switches and what the API does to it.
OneAutoWindow == ~failed => \A i, j \in OpenAutos : i = j

\* ... and between callbacks the detector that has adopted governs it: a
\* running auto window is the one it will cap, close or discard.
Governed ==
    ~failed /\ inited /\ pc = "idle" => \A i \in OpenAutos : open /\ openID = i

\* What makes the two above inductive: openID is an id that was handed out and
\* never that of a user's test; the callback's next call agrees with the state
\* it was decided in; and between the calls too, a running auto window is the
\* one in hand.
Detector ==
    /\ openID < nextId /\ openID \notin manual
    /\ pc \in {"stop", "freeze", "switchOff", "delete"} => open
    /\ pc = "create" => ~open /\ nextId <= MaxTests
    /\ pc = "adopt" => ~inited
    /\ ~inited => ~open /\ pc \in {"idle", "adopt"}
    /\ ~failed /\ inited =>
          \A i \in OpenAutos : open /\ pc # "freeze" /\ openID = i

AutoInv == TypeOK /\ OneAutoWindow /\ Detector

\* A user's own test is never ended or deleted by the detector, not even after
\* a crash made it look for a window to adopt.
ManualUntouched ==
    [][Callback => running' \cap manual = running \cap manual /\ manual' = manual]_vars

\* A running auto window ends, unless a call of the detector fails: whatever
\* crashes, feature switches and configuration changes come, the cap gets it.
EndsUnlessCallFails ==
    \A i \in Ids : i \in OpenAutos ~> (i \notin OpenAutos \/ failed)
=============================================================================
