-------------------------- MODULE AutoWindowProofs --------------------------
(***************************************************************************)
(* The auto-window detector for every tuning of its durations and any      *)
(* number of tests: as long as none of its database calls fails it never   *)
(* leaves two auto windows running nor loses sight of one, and it never    *)
(* touches a user's test, failures or not.                                 *)
(***************************************************************************)
EXTENDS AutoWindow, TLAPS

\* A saturated age stays in its range (the ages of Tick, CreateTest, Close).
LEMMA UpToRange ==
    ASSUME NEW n \in Nat, NEW cap \in Nat
    PROVE  UpTo(n, cap) \in 0..cap
BY DEF UpTo

\* The cap on lag covers both durations it is compared with (Close, CreateTest).
LEMMA LagCapNat == LagCap \in Nat
BY AutoAssumption DEF LagCap

\* What a decision can be, and the state it is made in (autoDecide and the
\* feature-off branch of autoWindow).
LEMMA DecideFits ==
    ASSUME NEW level, NEW isOpen \in BOOLEAN, NEW a
    PROVE  /\ Decide(level, isOpen, a) \in PC \ {"adopt", "freeze"}
           /\ Decide(level, isOpen, a) \in {"stop", "switchOff", "delete"} => isOpen
           /\ Decide(level, isOpen, a) = "create" => ~isOpen
BY DEF Decide, PC

\* Every initial state satisfies the invariant (autoState's zero value).
LEMMA AutoInitial == Init => AutoInv
<1> SUFFICES ASSUME Init PROVE AutoInv
  OBVIOUS
<1>a. /\ nextId \in 1..(MaxTests + 1)
      /\ openID \in 0..MaxTests
      /\ openAge \in 0..AutoMaxDuration /\ closedAge \in 0..AutoCooldown
      /\ lag \in 0..LagCap
  BY AutoAssumption, LagCapNat DEF Init
<1>b. age \in [Ids -> 0..AutoMaxDuration] /\ snoopK \in [Ids -> Pools \cup {NoPool}]
  BY AutoAssumption DEF Init
<1>c. /\ inited \in BOOLEAN /\ open \in BOOLEAN /\ live \in BOOLEAN
      /\ on \in BOOLEAN /\ failed \in BOOLEAN
  BY Zenon DEF Init
<1>1. TypeOK
  BY <1>a, <1>b, <1>c DEF Init, TypeOK, PC
<1>2. OneAutoWindow /\ Detector
  BY DEF Init, OneAutoWindow, Detector, OpenAutos
<1> QED BY <1>1, <1>2 DEF AutoInv

\* The start of a callback keeps the invariant (autoWindow up to its first call).
LEMMA SampleInv ==
    ASSUME AutoInv, NEW level \in Level, Sample(level)
    PROVE  AutoInv'
<1> USE DEF AutoInv
<1>1. pc' \in PC
  BY DecideFits DEF Sample, TypeOK, PC
<1>2. TypeOK'
  BY <1>1, LagCapNat DEF Sample, TypeOK, tableVars, awVars
<1>3. OneAutoWindow'
  BY DEF Sample, OneAutoWindow, OpenAutos, tableVars
<1>4. inited \in BOOLEAN /\ open \in BOOLEAN
  BY DEF TypeOK
<1>5. Detector'
  <2>1. CASE inited
    <3>1. pc' = Decide(level, open, openAge)
      BY <2>1 DEF Sample
    <3>2. /\ pc' \in PC \ {"adopt", "freeze"}
          /\ pc' \in {"stop", "switchOff", "delete"} => open
          /\ pc' = "create" => ~open
      BY <3>1, <1>4, DecideFits
    <3> QED BY <2>1, <3>2 DEF Sample, Detector, OpenAutos, tableVars, awVars
  <2>2. CASE ~inited
    BY <2>2 DEF Sample, Detector, OpenAutos, tableVars, awVars
  <2> QED BY <2>1, <2>2
<1> QED BY <1>2, <1>3, <1>5

\* Taking a window over keeps the invariant: with no failure so far there is
\* one to take at most (the adoption branch of autoWindow).
LEMMA AdoptInv == AutoInv /\ Adopt => AutoInv'
<1> SUFFICES ASSUME AutoInv, Adopt PROVE AutoInv'
  OBVIOUS
<1> USE DEF AutoInv
<1>0. ~open /\ ~inited /\ open \in BOOLEAN /\ inited \in BOOLEAN /\ failed \in BOOLEAN
  BY DEF Detector, Adopt, TypeOK
<1>a. inited' = TRUE /\
      \/ /\ OpenAutos # {} /\ open' = TRUE /\ openID' \in OpenAutos
         /\ openAge' = age[openID'] /\ failed' = failed
      \/ /\ OpenAutos = {} /\ open' = open /\ openID' = openID
         /\ openAge' = openAge /\ failed' = failed
      \/ failed' = TRUE /\ open' = open /\ openID' = openID /\ openAge' = openAge
  BY DEF Adopt, OpenWindow
<1>1. /\ open' \in BOOLEAN /\ failed' \in BOOLEAN /\ inited' = TRUE
      /\ open' => openID' \in OpenAutos
      /\ ~failed' => ~failed /\ (open' \/ OpenAutos = {})
  <2>1. CASE OpenAutos # {} /\ open' = TRUE /\ openID' \in OpenAutos /\ failed' = failed
    BY <1>0, <1>a, <2>1
  <2>2. CASE OpenAutos = {} /\ open' = open /\ failed' = failed
    BY <1>0, <1>a, <2>2
  <2>3. CASE failed' = TRUE /\ open' = open
    BY <1>0, <1>a, <2>3
  <2> QED BY <1>a, <2>1, <2>2, <2>3
<1>b. \A i \in OpenAutos : i \in 1..MaxTests /\ i < nextId /\ i \notin manual
  BY AutoAssumption DEF OpenAutos, TypeOK
<1>2. openID' \in 0..MaxTests /\ openID' < nextId /\ openID' \notin manual
  BY <1>a, <1>b DEF TypeOK, Detector
<1>3. openAge' \in 0..AutoMaxDuration
  BY <1>a, <1>b DEF TypeOK, Ids
<1>4. /\ pc' \in PC \ {"adopt", "freeze"}
      /\ pc' \in {"stop", "switchOff", "delete"} => open'
  BY <1>1, DecideFits DEF Adopt
<1>5. pc' # "create"
  BY DEF Adopt, Decide
<1>6. TypeOK'
  BY <1>1, <1>2, <1>3, <1>4 DEF Adopt, TypeOK, tableVars
<1>7. OneAutoWindow' /\ OpenAutos' = OpenAutos
  BY <1>1 DEF Adopt, OneAutoWindow, OpenAutos, tableVars
<1>8. ~failed' => \A i \in OpenAutos' : open' /\ openID' = i
  BY <1>1, <1>7 DEF OneAutoWindow
<1>9. Detector'
  BY <1>1, <1>2, <1>4, <1>5, <1>8 DEF Adopt, Detector, tableVars
<1> QED BY <1>6, <1>7, <1>9

\* Opening keeps the invariant: the detector opens only when nothing runs, and
\* a failed insert counts as a failure whether or not it left a row.
LEMMA CreateInv == AutoInv /\ CreateTest => AutoInv'
<1> SUFFICES ASSUME AutoInv, CreateTest PROVE AutoInv'
  OBVIOUS
<1> USE DEF AutoInv
<1>0. /\ ~open /\ inited /\ nextId \in 1..MaxTests /\ openID < nextId
      /\ openID \notin manual /\ inited' = inited /\ pc' = "idle"
      /\ ~failed => OpenAutos = {}
  BY AutoAssumption DEF Detector, CreateTest, TypeOK, awVars
<1>1. CASE /\ live /\ Insert("auto", lag) /\ open' = TRUE /\ openID' = nextId
           /\ openAge' = UpTo(lag, AutoMaxDuration) /\ UNCHANGED failed
  <2>1. UpTo(lag, AutoMaxDuration) \in 0..AutoMaxDuration
    BY UpToRange, LagCapNat, AutoAssumption DEF TypeOK
  <2>2. TypeOK'
    BY <1>0, <1>1, <2>1, AutoAssumption DEF TypeOK, Insert, CreateTest, PC, Ids
  <2>3. OpenAutos' = OpenAutos \cup {nextId}
    BY <1>0, <1>1 DEF Insert, OpenAutos, TypeOK
  <2>4. OneAutoWindow'
    BY <1>0, <1>1, <2>3 DEF OneAutoWindow
  <2>5. nextId \notin manual
    BY <1>0 DEF TypeOK
  <2>6. Detector'
    BY <1>0, <1>1, <2>3, <2>5 DEF Detector, Insert
  <2> QED BY <2>2, <2>4, <2>6
<1>2. CASE /\ CallFails /\ failed' = TRUE
           /\ Insert("auto", lag) \/ UNCHANGED tableVars
           /\ UNCHANGED <<open, openID, openAge>>
  <2>1. UpTo(lag, AutoMaxDuration) \in 0..AutoMaxDuration
    BY UpToRange, LagCapNat, AutoAssumption DEF TypeOK
  <2>2. TypeOK'
    <3>1. CASE Insert("auto", lag)
      BY <1>0, <1>2, <2>1, <3>1, AutoAssumption DEF TypeOK, Insert, CreateTest, PC, Ids
    <3>2. CASE UNCHANGED tableVars
      BY <1>0, <1>2, <3>2 DEF TypeOK, CreateTest, PC, tableVars
    <3> QED BY <1>2, <3>1, <3>2
  <2>3. OneAutoWindow'
    BY <1>2 DEF OneAutoWindow
  <2>4. openID' < nextId' /\ openID' \notin manual'
    <3>1. CASE Insert("auto", lag)
      BY <1>0, <1>2, <3>1 DEF Insert, TypeOK
    <3>2. CASE UNCHANGED tableVars
      BY <1>0, <1>2, <3>2 DEF tableVars
    <3> QED BY <1>2, <3>1, <3>2
  <2>5. Detector'
    BY <1>0, <1>2, <2>4 DEF Detector
  <2> QED BY <2>2, <2>3, <2>5
<1> QED BY <1>1, <1>2 DEF CreateTest

\* Ending, freezing, switching off and discarding keep the invariant: without
\* a failure the window in hand is no longer running when it is let go.
LEMMA EndingInv ==
    AutoInv /\ (StopTest \/ FreezeTestSnoopK \/ SwitchOff \/ DeleteTest) => AutoInv'
<1> SUFFICES ASSUME AutoInv, StopTest \/ FreezeTestSnoopK \/ SwitchOff \/ DeleteTest
             PROVE  AutoInv'
  OBVIOUS
<1> USE DEF AutoInv
<1>0. /\ open /\ inited
      /\ openID < nextId /\ openID \notin manual
      /\ ~failed => \A i \in OpenAutos : openID = i
  BY DEF Detector, StopTest, FreezeTestSnoopK, SwitchOff, DeleteTest
<1>a. UpTo(lag, AutoCooldown) \in 0..AutoCooldown
  BY UpToRange, LagCapNat, AutoAssumption DEF TypeOK
<1>e. ASSUME EndRow
      PROVE  /\ running' \subseteq running /\ failed' \in BOOLEAN
             /\ ~failed' => ~failed /\ openID \notin running'
  BY <1>e DEF EndRow, TypeOK
<1>1. CASE StopTest
  <2>1. EndRow /\ pc' = "freeze"
    BY <1>1 DEF StopTest
  <2>2. TypeOK'
    BY <1>1, <1>e, <2>1 DEF TypeOK, StopTest, awVars, PC
  <2>3. OneAutoWindow'
    BY <1>1, <1>e, <2>1 DEF StopTest, OneAutoWindow, OpenAutos
  <2>4. ~failed' => OpenAutos' = {}
    BY <1>0, <1>1, <1>e, <2>1 DEF StopTest, OpenAutos
  <2>5. Detector'
    BY <1>0, <1>1, <2>1, <2>4 DEF StopTest, Detector, awVars
  <2> QED BY <2>2, <2>3, <2>5
<1>2. CASE FreezeTestSnoopK
  <2>1. snoopK' \in [Ids -> Pools \cup {NoPool}]
    BY <1>2 DEF FreezeTestSnoopK, Freeze, TypeOK
  <2>2. TypeOK'
    BY <1>2, <1>a, <2>1 DEF TypeOK, FreezeTestSnoopK, Close, PC
  <2>3. OneAutoWindow'
    BY <1>2 DEF FreezeTestSnoopK, OneAutoWindow, OpenAutos
  <2>4. ~failed' => OpenAutos' = {}
    BY <1>0, <1>2 DEF FreezeTestSnoopK, OpenAutos, Detector
  <2>5. Detector'
    BY <1>0, <1>2, <2>4 DEF FreezeTestSnoopK, Close, Detector
  <2> QED BY <2>2, <2>3, <2>5
<1>3. CASE SwitchOff
  <2>1. EndRow
    BY <1>3 DEF SwitchOff
  <2>2. TypeOK'
    BY <1>3, <1>a, <1>e, <2>1 DEF TypeOK, SwitchOff, Close, PC
  <2>3. OneAutoWindow'
    BY <1>3, <1>e, <2>1 DEF SwitchOff, OneAutoWindow, OpenAutos
  <2>4. ~failed' => OpenAutos' = {}
    BY <1>0, <1>3, <1>e, <2>1 DEF SwitchOff, OpenAutos
  <2>5. Detector'
    BY <1>0, <1>3, <2>4 DEF SwitchOff, Close, Detector
  <2> QED BY <2>2, <2>3, <2>5
<1>4. CASE DeleteTest
  <2>a. \/ DeleteRow(openID) /\ failed' = failed
        \/ (DeleteRow(openID) \/ UNCHANGED tableVars) /\ failed' = TRUE
    BY <1>4 DEF DeleteTest
  <2>b. failed' \in BOOLEAN /\ (~failed' => ~failed /\ DeleteRow(openID))
    BY <2>a, Zenon DEF TypeOK
  <2>c. ASSUME DeleteRow(openID)
        PROVE  /\ running' = running \ {openID} /\ auto' = auto \ {openID}
               /\ manual' = manual /\ nextId' = nextId /\ age' = age
    BY <1>0, <2>c DEF DeleteRow
  <2>1. /\ running' \subseteq running /\ auto' \subseteq auto /\ manual' = manual
        /\ running' \subseteq manual' \cup auto'
        /\ nextId' = nextId /\ age' = age
        /\ failed' \in BOOLEAN
        /\ ~failed' => ~failed /\ openID \notin running'
    <3>1. CASE DeleteRow(openID)
      BY <2>b, <2>c, <3>1 DEF TypeOK
    <3>2. CASE UNCHANGED tableVars /\ failed' = TRUE
      BY <3>2 DEF tableVars, TypeOK
    <3> QED BY <2>a, <3>1, <3>2
  <2>2. snoopK' \in [Ids -> Pools \cup {NoPool}]
    BY <1>4 DEF DeleteTest, DeleteRow, tableVars, TypeOK
  <2>3. TypeOK'
    BY <1>4, <1>a, <2>1, <2>2 DEF TypeOK, DeleteTest, Close, PC
  <2>4. OneAutoWindow'
    BY <2>1 DEF OneAutoWindow, OpenAutos
  <2>5. ~failed' => OpenAutos' = {}
    BY <1>0, <2>1 DEF OpenAutos
  <2>6. Detector'
    BY <1>0, <1>4, <2>1, <2>5 DEF DeleteTest, Close, Detector
  <2> QED BY <2>3, <2>4, <2>6
<1> QED BY <1>1, <1>2, <1>3, <1>4

\* What happens around the callback keeps the invariant: cancelled and renewed
\* subscriptions, a crash, the clock.
LEMMA AroundInv ==
    AutoInv /\ (HaRestart \/ Subscribe \/ Crash \/ Tick) => AutoInv'
<1> SUFFICES ASSUME AutoInv, HaRestart \/ Subscribe \/ Crash \/ Tick PROVE AutoInv'
  OBVIOUS
<1> USE DEF AutoInv
<1>1. CASE HaRestart
  BY <1>1 DEF HaRestart, TypeOK, OneAutoWindow, Detector, OpenAutos, tableVars, awVars
<1>2. CASE Subscribe
  BY <1>2 DEF Subscribe, TypeOK, OneAutoWindow, Detector, OpenAutos, tableVars, awVars
<1>3. CASE Crash
  <2>a. /\ inited' \in BOOLEAN /\ open' \in BOOLEAN /\ live' \in BOOLEAN
        /\ on' \in BOOLEAN /\ failed' \in BOOLEAN
    BY <1>3, Zenon DEF Crash, TypeOK
  <2>b. /\ openID' \in 0..MaxTests /\ openAge' \in 0..AutoMaxDuration
        /\ closedAge' \in 0..AutoCooldown /\ lag' \in 0..LagCap
    BY <1>3, AutoAssumption, LagCapNat DEF Crash
  <2>1. TypeOK'
    BY <1>3, <2>a, <2>b DEF Crash, TypeOK, tableVars, PC
  <2>2. OneAutoWindow'
    BY <1>3 DEF Crash, OneAutoWindow, OpenAutos, tableVars
  <2>3. Detector'
    BY <1>3 DEF Crash, Detector, tableVars, TypeOK
  <2> QED BY <2>1, <2>2, <2>3
<1>4. CASE Tick
  <2>1. age' \in [Ids -> 0..AutoMaxDuration]
    <3> SUFFICES ASSUME NEW i \in Ids
                 PROVE  UpTo(age[i] + 1, AutoMaxDuration) \in 0..AutoMaxDuration
      BY <1>4 DEF Tick, TypeOK
    <3>1. age[i] + 1 \in Nat
      BY AutoAssumption DEF TypeOK
    <3> QED BY <3>1, UpToRange, AutoAssumption
  <2>2. /\ UpTo(openAge + 1, AutoMaxDuration) \in 0..AutoMaxDuration
        /\ UpTo(closedAge + 1, AutoCooldown) \in 0..AutoCooldown
        /\ UpTo(lag + 1, LagCap) \in 0..LagCap
    <3>1. openAge + 1 \in Nat /\ closedAge + 1 \in Nat /\ lag + 1 \in Nat
      BY AutoAssumption, LagCapNat DEF TypeOK
    <3> QED BY <3>1, UpToRange, AutoAssumption, LagCapNat
  <2>3. TypeOK'
    BY <1>4, <2>1, <2>2 DEF Tick, TypeOK
  <2>4. OneAutoWindow' /\ Detector'
    BY <1>4 DEF Tick, OneAutoWindow, Detector, OpenAutos
  <2> QED BY <2>3, <2>4
<1> QED BY <1>1, <1>2, <1>3, <1>4

\* A user's new test keeps the invariant: its id is new, so it is not the
\* detector's (handleStartTest, handleCreateTest).
LEMMA ApiCreateInv ==
    ASSUME AutoInv, NEW ended \in BOOLEAN, ApiCreate(ended)
    PROVE  AutoInv'
<1> USE DEF AutoInv
<1>1. nextId \in 1..MaxTests /\ (pc = "create" => nextId + 1 <= MaxTests)
  BY AutoAssumption DEF ApiCreate, TypeOK
<1>2. UpTo(0, AutoMaxDuration) \in 0..AutoMaxDuration
  BY UpToRange, AutoAssumption
<1>3. /\ nextId' = nextId + 1 /\ auto' = auto /\ manual' = manual \cup {nextId}
      /\ running' \in {running, running \cup {nextId}} /\ snoopK' = snoopK
      /\ age' \in {age, [age EXCEPT ![nextId] = UpTo(0, AutoMaxDuration)]}
      /\ UNCHANGED <<awVars, pc, lag, live, on, failed>>
  BY DEF ApiCreate, Insert
<1>4. age' \in [Ids -> 0..AutoMaxDuration]
  BY <1>2, <1>3 DEF TypeOK
<1>5. TypeOK'
  BY <1>1, <1>3, <1>4, AutoAssumption DEF TypeOK, awVars
<1>6. OpenAutos' = OpenAutos
  BY <1>1, <1>3 DEF OpenAutos, TypeOK
<1>7. OneAutoWindow'
  BY <1>3, <1>6 DEF OneAutoWindow
<1>8. Detector'
  BY <1>1, <1>3, <1>6 DEF Detector, awVars, TypeOK
<1> QED BY <1>5, <1>7, <1>8

\* Purging all tests keeps the invariant (PurgeTests).
LEMMA ApiPurgeInv == AutoInv /\ ApiPurge => AutoInv'
<1> SUFFICES ASSUME AutoInv, ApiPurge PROVE AutoInv'
  OBVIOUS
<1> USE DEF AutoInv
<1>1. snoopK' \in [Ids -> Pools \cup {NoPool}]
  BY DEF ApiPurge
<1>2. TypeOK'
  BY <1>1 DEF ApiPurge, TypeOK, awVars
<1>3. OneAutoWindow' /\ Detector'
  BY DEF ApiPurge, OneAutoWindow, Detector, OpenAutos, awVars
<1> QED BY <1>2, <1>3

\* Stopping and deleting keep the invariant, whichever window they are pointed
\* at and wherever the detector is (handleStopTest, handleDeleteTest).
LEMMA ApiInv ==
    ASSUME AutoInv, NEW id \in Ids, ApiStop(id) \/ ApiDelete(id)
    PROVE  AutoInv'
<1> USE DEF AutoInv
<1>2. CASE ApiStop(id)
  <2>1. running' \subseteq running
    BY <1>2 DEF ApiStop
  <2>2. snoopK' \in [Ids -> Pools \cup {NoPool}]
    BY <1>2 DEF ApiStop, Freeze, TypeOK
  <2>3. TypeOK'
    BY <1>2, <2>1, <2>2 DEF ApiStop, TypeOK, awVars
  <2>4. OpenAutos' \subseteq OpenAutos
    BY <1>2, <2>1 DEF ApiStop, OpenAutos
  <2>5. OneAutoWindow' /\ Detector'
    BY <1>2, <2>4 DEF ApiStop, OneAutoWindow, Detector, awVars
  <2> QED BY <2>3, <2>5
<1>3. CASE ApiDelete(id)
  <2>1. /\ running' = running \ {id} /\ auto' = auto \ {id} /\ manual' = manual \ {id}
        /\ nextId' = nextId /\ age' = age
        /\ UNCHANGED <<awVars, pc, lag, live, on, failed>>
    BY <1>3 DEF ApiDelete, DeleteRow
  <2>2. snoopK' \in [Ids -> Pools \cup {NoPool}]
    BY <1>3 DEF ApiDelete, DeleteRow, TypeOK
  <2>3. TypeOK'
    BY <2>1, <2>2 DEF TypeOK, awVars
  <2>4. OpenAutos' \subseteq OpenAutos
    BY <2>1 DEF OpenAutos
  <2>5. OneAutoWindow' /\ Detector'
    BY <2>1, <2>4 DEF OneAutoWindow, Detector, awVars
  <2> QED BY <2>3, <2>5
<1> QED BY <1>2, <1>3

\* The inductive invariant: types, one auto window at most, and a detector
\* whose state always matches the table (autoWindow and the test handlers).
THEOREM AutoInvariant == Spec => []AutoInv
<1>1. AutoInv /\ [Next]_vars => AutoInv'
  <2> SUFFICES ASSUME AutoInv, [Next]_vars PROVE AutoInv'
    OBVIOUS
  <2>1. CASE \E level \in Level : Sample(level)
    BY <2>1, SampleInv
  <2>2. CASE Callback
    BY <2>2, AdoptInv, CreateInv, EndingInv DEF Callback
  <2>3. CASE HaRestart \/ Subscribe \/ Crash \/ Tick
    BY <2>3, AroundInv
  <2>4. CASE (\E ended \in BOOLEAN : ApiCreate(ended)) \/ ApiPurge
    BY <2>4, ApiCreateInv, ApiPurgeInv
  <2>5. CASE \E id \in Ids : ApiStop(id) \/ ApiDelete(id)
    BY <2>5, ApiInv
  <2>6. CASE UNCHANGED vars
    BY <2>6 DEF vars, tableVars, awVars, AutoInv, TypeOK, OneAutoWindow, Detector,
                OpenAutos
  <2> QED BY <2>1, <2>2, <2>3, <2>4, <2>5, <2>6 DEF Next
<1> QED BY <1>1, AutoInitial, PTL DEF Spec

\* As long as no call of the detector fails, two auto windows never run at
\* once, for any durations, crashes and API calls.
THEOREM AutoOneWindow == Spec => []OneAutoWindow
<1>1. AutoInv => OneAutoWindow
  BY DEF AutoInv
<1> QED BY <1>1, AutoInvariant, PTL

\* ... and the detector always governs the one that runs.
THEOREM AutoGoverned == Spec => []Governed
<1>1. AutoInv => Governed
  BY DEF AutoInv, Detector, Governed
<1> QED BY <1>1, AutoInvariant, PTL

\* The detector never ends or deletes a user's test, even when its calls fail.
THEOREM AutoManualUntouched == Spec => ManualUntouched
<1>1. AutoInv /\ [Next]_vars =>
        [Callback => running' \cap manual = running \cap manual /\ manual' = manual]_vars
  <2> SUFFICES ASSUME AutoInv, Callback
               PROVE  running' \cap manual = running \cap manual /\ manual' = manual
    OBVIOUS
  <2>0. openID \notin manual /\ nextId \notin manual
    BY AutoAssumption DEF AutoInv, Detector, TypeOK
  <2>1. CASE Adopt
    BY <2>1 DEF Adopt, tableVars
  <2>2. CASE CreateTest
    BY <2>0, <2>2 DEF CreateTest, Insert, tableVars
  <2>3. CASE StopTest \/ SwitchOff
    <3>1. EndRow /\ manual' = manual
      BY <2>3 DEF StopTest, SwitchOff
    <3>2. running' = running \/ running' = running \ {openID}
      BY <3>1 DEF EndRow
    <3> QED BY <2>0, <3>1, <3>2
  <2>4. CASE FreezeTestSnoopK
    BY <2>4 DEF FreezeTestSnoopK
  <2>5. CASE DeleteTest
    <3>1. DeleteRow(openID) \/ UNCHANGED tableVars
      BY <2>5 DEF DeleteTest
    <3> QED BY <2>0, <3>1 DEF DeleteRow, tableVars
  <2> QED BY <2>1, <2>2, <2>3, <2>4, <2>5 DEF Callback
<1> QED BY <1>1, AutoInvariant, PTL DEF Spec, ManualUntouched
=============================================================================
