---------------------------- MODULE CaptureProofs ----------------------------
(***************************************************************************)
(* Proofs about the capture daemon: UsbGate, for every set of clients and  *)
(* all gate constants; and Capture, for every set of dongles, settings and *)
(* bounds: its inductive invariant, and that it implements the gate's      *)
(* contract.                                                               *)
(***************************************************************************)
EXTENDS Capture, TLAPS

-----------------------------------------------------------------------------
(* UsbGate.                                                                *)

\* A penalty is a positive number of ticks and at most gateMax, whatever the
\* shift in fail() overflowed to (main.go:164-167).
LEMMA PenaltyRange ==
    \A f \in Nat \ {0} : Penalty(f) \in 1..GateMax
<1> SUFFICES ASSUME NEW f \in Nat \ {0}
             PROVE  Penalty(f) \in 1..GateMax
    OBVIOUS
<1>1. 2^(f - 1) \in Int
    OBVIOUS
<1>2. (GateBase * 2^(f - 1)) % WordSize \in Int
    BY <1>1, GateAssumption
<1>3. Shifted(f - 1) \in Int
    BY <1>2, GateAssumption DEF Shifted
<1>4. QED
    BY <1>3, GateAssumption DEF Penalty

\* The failure count fail() leaves, and the penalty that goes with it, are in
\* range, and the penalty is no smaller than any earned before (main.go:159-171).
LEMMA FailRange ==
    ASSUME GateTypeOK, NEW c \in Clients, Fail(c)
    PROVE  /\ fails' \in 1..MaxFails
           /\ fails <= fails'
           /\ backoff' = Penalty(fails')
           /\ backoff' \in 1..GateMax
<1>1. fails' \in 1..MaxFails /\ fails <= fails'
    BY GateAssumption DEF GateTypeOK, Fail
<1>2. QED
    BY <1>1, PenaltyRange, GateAssumption DEF Fail

\* GateTypeOK is inductive: every gate operation keeps the gate's state in
\* range, the backoff fail() computes included.
LEMMA TypePreserved ==
    ASSUME GateTypeOK, [GateNext]_gateVars
    PROVE  GateTypeOK'
<1> USE DEF GateTypeOK, GatePC
<1>1. ASSUME NEW c \in Clients, Enter(c) PROVE GateTypeOK'
    BY <1>1 DEF Enter
<1>2. ASSUME NEW c \in Clients, ReadWait(c) PROVE GateTypeOK'
    BY <1>2 DEF ReadWait
<1>3. ASSUME NEW c \in Clients, Wake(c) PROVE GateTypeOK'
    BY <1>3 DEF Wake
<1>4. ASSUME NEW c \in Clients, Take(c) PROVE GateTypeOK'
    BY <1>4 DEF Take
<1>5. ASSUME NEW c \in Clients, Recheck(c) PROVE GateTypeOK'
    BY <1>5 DEF Recheck
<1>6. ASSUME NEW c \in Clients, Abort(c) PROVE GateTypeOK'
    BY <1>6, GateAssumption DEF Abort
<1>7. ASSUME NEW c \in Clients, End(c) PROVE GateTypeOK'
    BY <1>7 DEF End
<1>8. ASSUME NEW c \in Clients, Ok(c) PROVE GateTypeOK'
    BY <1>8, GateAssumption DEF Ok
<1>9. ASSUME NEW c \in Clients, Fail(c) PROVE GateTypeOK'
    <2>1. fails' \in 1..MaxFails /\ backoff' \in 1..GateMax
        BY <1>9, FailRange
    <2>2. QED
        BY <1>9, <2>1, GateAssumption DEF Fail
<1>10. ASSUME GateTick PROVE GateTypeOK'
    BY <1>10, GateAssumption DEF GateTick, Elapse
<1>11. ASSUME GateRestart PROVE GateTypeOK'
    BY <1>11, GateAssumption DEF GateRestart
<1>12. CASE UNCHANGED gateVars
    BY <1>12 DEF gateVars
<1>13. QED
    BY <1>1, <1>2, <1>3, <1>4, <1>5, <1>6, <1>7, <1>8, <1>9, <1>10, <1>11, <1>12
    DEF GateNext

\* The window token and the clients' positions stay in step: the property
\* only moves with Take, Recheck and End, the three places that touch sem.
LEMMA WindowPreserved ==
    ASSUME GateTypeOK, SerialWindow, [GateNext]_gateVars
    PROVE  SerialWindow'
<1> USE DEF SerialWindow, Holding, GateTypeOK, GatePC
<1>1. ASSUME NEW c \in Clients, Enter(c) PROVE SerialWindow'
    BY <1>1 DEF Enter
<1>2. ASSUME NEW c \in Clients, ReadWait(c) PROVE SerialWindow'
    BY <1>2 DEF ReadWait
<1>3. ASSUME NEW c \in Clients, Wake(c) PROVE SerialWindow'
    BY <1>3 DEF Wake
<1>4. ASSUME NEW c \in Clients, Take(c) PROVE SerialWindow'
    BY <1>4 DEF Take
<1>5. ASSUME NEW c \in Clients, Recheck(c) PROVE SerialWindow'
    BY <1>5 DEF Recheck
<1>6. ASSUME NEW c \in Clients, Abort(c) PROVE SerialWindow'
    BY <1>6 DEF Abort
<1>7. ASSUME NEW c \in Clients, End(c) PROVE SerialWindow'
    BY <1>7 DEF End
<1>8. ASSUME NEW c \in Clients, Ok(c) PROVE SerialWindow'
    BY <1>8 DEF Ok
<1>9. ASSUME NEW c \in Clients, Fail(c) PROVE SerialWindow'
    BY <1>9 DEF Fail
<1>10. ASSUME GateTick PROVE SerialWindow'
    BY <1>10 DEF GateTick
<1>11. ASSUME GateRestart PROVE SerialWindow'
    BY <1>11, GateAssumption DEF GateRestart
<1>12. CASE UNCHANGED gateVars
    BY <1>12 DEF gateVars
<1>13. QED
    BY <1>1, <1>2, <1>3, <1>4, <1>5, <1>6, <1>7, <1>8, <1>9, <1>10, <1>11, <1>12
    DEF GateNext

\* The backoff in force stays within what the counted failures have earned:
\* fail() sets it to exactly that, ok() clears both, and time only drains it.
LEMMA EarnedPreserved ==
    ASSUME GateTypeOK, BackoffEarned, [GateNext]_gateVars
    PROVE  BackoffEarned'
<1>1. CASE UNCHANGED <<fails, backoff>>
    BY <1>1 DEF BackoffEarned
<1>2. ASSUME NEW c \in Clients, Ok(c) PROVE BackoffEarned'
    BY <1>2 DEF Ok, BackoffEarned
<1>3. ASSUME NEW c \in Clients, Fail(c) PROVE BackoffEarned'
    BY <1>3, FailRange, PenaltyRange, GateAssumption DEF BackoffEarned
<1>4. ASSUME GateTick PROVE BackoffEarned'
    <2>1. CASE backoff = 0
        BY <1>4, <2>1 DEF GateTick, Elapse, BackoffEarned
    <2>2. CASE backoff > 0
        <3>1. fails \in 1..MaxFails /\ backoff <= Penalty(fails)
            BY <2>2 DEF BackoffEarned, GateTypeOK
        <3>2. Penalty(fails) \in Int
            BY <3>1, PenaltyRange, GateAssumption
        <3>3. QED
            BY <1>4, <2>2, <3>1, <3>2 DEF GateTick, Elapse, BackoffEarned, GateTypeOK
    <2>3. QED
        BY <2>1, <2>2 DEF GateTypeOK
<1>5. ASSUME GateRestart PROVE BackoffEarned'
    BY <1>5 DEF GateRestart, BackoffEarned
<1>6. QED
    BY <1>1, <1>2, <1>3, <1>4, <1>5
    DEF GateNext, gateVars, Enter, ReadWait, Wake, Take, Recheck, Abort, End

\* GateSpec keeps the gate's inductive invariant: types, the serial window,
\* and the bound on the backoff in force.
THEOREM GateInvariant == GateSpec => []GateInv
<1>1. GateInit => GateInv
    BY GateAssumption
    DEF GateInit, GateInv, GateTypeOK, GatePC, SerialWindow, Holding, BackoffEarned
<1>2. GateInv /\ [GateNext]_gateVars => GateInv'
    BY TypePreserved, WindowPreserved, EarnedPreserved DEF GateInv
<1>3. QED
    BY <1>1, <1>2, PTL DEF GateSpec

\* Two USB opens never overlap, whatever the clients do (main.go:93-101).
THEOREM GateSerialWindow == GateSpec => []SerialWindow
<1>1. GateInv => SerialWindow
    BY DEF GateInv
<1>2. QED
    BY <1>1, GateInvariant, PTL

\* No client is handed the window before the bus-wide backoff is over
\* (main.go:139-145): only the re-check moves a client into the window.
THEOREM GateGrantAfterBackoff == GateSpec => GrantAfterBackoff
<1> DEFINE Step == \A c \in Clients : gpc[c] # "in" /\ gpc'[c] = "in" => backoff = 0
<1>1. GateTypeOK /\ GateNext => Step
    <2> SUFFICES ASSUME GateTypeOK, GateNext, NEW c \in Clients,
                        gpc[c] # "in", gpc'[c] = "in"
                 PROVE  backoff = 0
        OBVIOUS
    <2>1. ASSUME NEW d \in Clients, Recheck(d) PROVE backoff = 0
        BY <2>1 DEF Recheck, GateTypeOK, GatePC
    <2>2. CASE GateTick \/ GateRestart
        BY <2>2 DEF GateTick, GateRestart
    <2>3. ASSUME NEW d \in Clients,
                 Enter(d) \/ ReadWait(d) \/ Wake(d) \/ Take(d)
                 \/ Abort(d) \/ End(d) \/ Ok(d) \/ Fail(d)
          PROVE  FALSE
        BY <2>3 DEF Enter, ReadWait, Wake, Take, Abort, End, Ok, Fail, GateTypeOK, GatePC
    <2>4. QED
        BY <2>1, <2>2, <2>3 DEF GateNext
<1>2. GateInv /\ [GateNext]_gateVars => [Step]_gateVars
    BY <1>1 DEF GateInv
<1>3. QED
    BY <1>2, GateInvariant, PTL DEF GateSpec, GrantAfterBackoff

\* A failure never brings the next open closer (main.go:159-171): the penalty
\* fail() sets is at least the one earned before, which bounds what is left.
THEOREM GateBackoffOnlyDrains == GateSpec => BackoffOnlyDrains
<1> DEFINE Step == backoff' < backoff =>
                      \/ fails' = 0
                      \/ fails' = fails /\ backoff' = backoff - 1
<1>1. GateInv /\ GateNext => Step
    <2> SUFFICES ASSUME GateInv, GateNext PROVE Step
        OBVIOUS
    <2> USE DEF GateInv
    <2>1. CASE UNCHANGED <<fails, backoff>>
        BY <2>1 DEF GateTypeOK
    <2>2. ASSUME NEW c \in Clients, Ok(c) PROVE Step
        BY <2>2 DEF Ok
    <2>3. ASSUME NEW c \in Clients, Fail(c) PROVE ~(backoff' < backoff)
        <3>1. /\ fails' \in 1..MaxFails /\ fails <= fails'
              /\ backoff' = Penalty(fails') /\ backoff' \in 1..GateMax
            BY <2>3, FailRange
        <3>2. CASE backoff = 0
            BY <3>1, <3>2, GateAssumption
        <3>3. CASE backoff > 0
            <4>1. fails \in 1..MaxFails /\ fails' \in fails..MaxFails
                BY <3>1, <3>3, GateAssumption DEF BackoffEarned, GateTypeOK
            <4>2. Penalty(fails) <= Penalty(fails')
                BY <4>1, PenaltyMonotone
            <4>3. Penalty(fails) \in Int /\ Penalty(fails') \in Int
                BY <4>1, <3>1, PenaltyRange, GateAssumption
            <4>4. QED
                BY <3>1, <3>3, <4>2, <4>3 DEF BackoffEarned, GateTypeOK
        <3>4. QED
            BY <3>2, <3>3 DEF GateTypeOK
    <2>4. CASE GateTick
        BY <2>4 DEF GateTick, Elapse, GateTypeOK
    <2>5. CASE GateRestart
        BY <2>5 DEF GateRestart
    <2>6. QED
        BY <2>1, <2>2, <2>3, <2>4, <2>5
        DEF GateNext, Enter, ReadWait, Wake, Take, Recheck, Abort, End
<1>2. GateInv /\ [GateNext]_gateVars => [Step]_gateVars
    BY <1>1
<1>3. QED
    BY <1>2, GateInvariant, PTL DEF GateSpec, BackoffOnlyDrains

-----------------------------------------------------------------------------
(* Capture.                                                                *)


\* Every step of cmd/capture is, for the gate, one of the gate's operations
\* or no step at all: fail() and ok() only outside begin(), end() only by the
\* holder, no end() after a begin() that returned false.
LEMMA StepContract ==
    ASSUME [Next]_vars PROVE [GateNext]_gateVars
<1> USE CaptureAssumption DEF gateVars
<1>1. ASSUME NEW s \in Sources, Supervisor(s) PROVE [GateNext]_gateVars
    BY <1>1 DEF Supervisor, SupTop, SupBegin, SupAbort, StartTcp, StartFailed,
        WaitListening, NotListening, SpawnAmr, IngestCancelled, GateNext
<1>2. ASSUME NEW s \in Sources, NEW st \in BOOLEAN, NEW pk \in BOOLEAN,
             NEW h \in BOOLEAN, RunOver(s, st, pk, h)
      PROVE  [GateNext]_gateVars
    BY <1>2 DEF RunOver, Restart, GateNext
<1>3. CASE ManagerStep
    BY <1>3 DEF ManagerStep, Tick, ConfigChanged, CancelOne, ReapOne, Rescan,
        CheckInventory, EnumBegin, EnumScan, EnumFound, EnumRetry, LoadConfig,
        LoadFailed, StartMissing, GateNext
<1>4. CASE Environment
    BY <1>4 DEF Environment, Listen, EditConfig, BusChange, AgentHello, CoolDown,
        ClockTick, GateNext
<1>5. CASE UNCHANGED vars
    BY <1>5 DEF vars
<1>6. QED
    BY <1>1, <1>2, <1>3, <1>4, <1>5 DEF Next

\* Capture implements the gate's contract (UsbGate's GateSpec), so that every
\* property proved of the gate for arbitrary clients holds of the program.
THEOREM CaptureUsesGate == Spec => GateContract
<1>1. Init => GateInit
    BY DEF Init
<1>2. [Next]_vars => [GateNext]_gateVars
    BY StepContract
<1>3. QED
    BY <1>1, <1>2, PTL DEF Spec, GateContract, GateSpec

\* What the gate guarantees to arbitrary clients it guarantees to capture: two
\* USB opens of the process, by supervisors or by the enumeration, never overlap.
THEOREM CaptureSerialWindow == Spec => []SerialWindow
<1>1. QED
    BY CaptureUsesGate, GateSerialWindow, PTL DEF GateContract

-----------------------------------------------------------------------------
(* The inductive invariant.                                                *)

\* What each gate operation does to the position of a client, and that it
\* leaves the other clients where they are (main.go:123-171).
LEMMA GateMoves ==
    ASSUME GateTypeOK, NEW c \in Clients
    PROVE  /\ Enter(c) => gpc[c] = "out" /\ gpc' = [gpc EXCEPT ![c] = "loop"]
           /\ ReadWait(c) \/ Wake(c) \/ Take(c) =>
                 /\ gpc[c] \in {"loop", "sleep", "queue"}
                 /\ \E q \in {"sleep", "queue", "recheck"} : gpc' = [gpc EXCEPT ![c] = q]
           /\ Recheck(c) =>
                 /\ gpc[c] = "recheck"
                 /\ gpc' = [gpc EXCEPT ![c] = IF backoff = 0 THEN "in" ELSE "loop"]
           /\ Abort(c) => gpc[c] \in {"sleep", "queue"} /\ gpc' = [gpc EXCEPT ![c] = "out"]
           /\ End(c) => gpc[c] = "in" /\ gpc' = [gpc EXCEPT ![c] = "out"]
           /\ Ok(c) \/ Fail(c) => gpc' = gpc
BY DEF GateTypeOK, GatePC, Enter, ReadWait, Wake, Take, Recheck, Abort, End, Ok, Fail

\* The window and the program counters agree after every supervisor step.
LEMMA SupervisorWindow ==
    ASSUME CaptureInv, NEW s \in Sources, Supervisor(s)
    PROVE  WindowHeldByOpener'
<1> USE GateMoves, CaptureAssumption
        DEF CaptureInv, TypeOK, WindowHeldByOpener, Stay, SupPC, GateTypeOK, GatePC,
            mgrVars, gateVars
<1>1. CASE SupTop(s)
    BY <1>1 DEF SupTop
<1>2. CASE SupBegin(s)
    BY <1>2 DEF SupBegin
<1>3. CASE SupAbort(s)
    BY <1>3 DEF SupAbort
<1>4. CASE StartTcp(s)
    BY <1>4 DEF StartTcp
<1>5. CASE StartFailed(s)
    BY <1>5 DEF StartFailed
<1>6. CASE WaitListening(s)
    BY <1>6 DEF WaitListening
<1>7. CASE NotListening(s)
    BY <1>7 DEF NotListening
<1>8. CASE SpawnAmr(s)
    BY <1>8 DEF SpawnAmr
<1>9. CASE IngestCancelled(s)
    BY <1>9 DEF IngestCancelled
<1>10. QED
    BY <1>1, <1>2, <1>3, <1>4, <1>5, <1>6, <1>7, <1>8, <1>9 DEF Supervisor

\* A bus lists dongles, at positions that are positive numbers.
LEMMA BusEntries ==
    ASSUME NEW b \in Buses, NEW i \in DOMAIN b
    PROVE  b[i] \in Sources /\ i \in Nat \ {0}
<1>1. PICK n \in 0..Cardinality(Sources) : b \in [1..n -> Sources]
    BY DEF Buses
<1>2. i \in 1..n
    BY <1>1
<1>3. QED
    BY <1>1, <1>2

\* A supervisor step keeps the types.
LEMMA SupervisorTypes ==
    ASSUME CaptureInv, NEW s \in Sources, Supervisor(s)
    PROVE  TypeOK'
<1>1. GateTypeOK'
    <2>1. Next
        BY DEF Next
    <2>2. QED
        BY <2>1, StepContract, TypePreserved DEF CaptureInv, TypeOK
<1>2. /\ spc' \in [Sources -> SupPC]
      /\ using' \in [Sources -> Sources \cup {Nil}]
      /\ UNCHANGED <<cancelled, deadRuns, envVars, chanVars, mgrVars>>
    <2> USE DEF CaptureInv, TypeOK, Stay, SupPC
    <2>1. Opened(s) \in Sources \cup {Nil}
        BY BusEntries DEF Opened
    <2>2. CASE SupTop(s) \/ SupBegin(s) \/ SupAbort(s) \/ StartFailed(s) \/ WaitListening(s)
        BY <2>2 DEF SupTop, SupBegin, SupAbort, StartFailed, WaitListening
    <2>3. CASE StartTcp(s)
        BY <2>1, <2>3 DEF StartTcp
    <2>4. CASE NotListening(s) \/ SpawnAmr(s) \/ IngestCancelled(s)
        BY <2>4 DEF NotListening, SpawnAmr, IngestCancelled
    <2>5. QED
        BY <2>2, <2>3, <2>4 DEF Supervisor
<1>3. QED
    BY <1>1, <1>2 DEF CaptureInv, TypeOK, envVars, chanVars, mgrVars, Buses

\* A supervisor step keeps the whole invariant: it touches the gate and its
\* own program counter, never the manager's state, and never becomes "none".
LEMMA SupervisorInv ==
    ASSUME CaptureInv, NEW s \in Sources, Supervisor(s)
    PROVE  CaptureInv'
<1>1. UNCHANGED <<cancelled, mpc, inventory, desired, running>>
    BY DEF Supervisor, SupTop, SupBegin, SupAbort, StartTcp, StartFailed,
        WaitListening, NotListening, SpawnAmr, IngestCancelled, mgrVars
<1>2. \E q \in SupPC \ {"none"} : spc[s] # "none" /\ spc' = [spc EXCEPT ![s] = q]
    <2>1. CASE SupBegin(s)
        BY <2>1 DEF SupBegin, Stay, SupPC, CaptureInv, TypeOK
    <2>2. CASE SupTop(s) \/ SupAbort(s) \/ StartTcp(s) \/ StartFailed(s)
        BY <2>2 DEF SupTop, SupAbort, StartTcp, StartFailed, Stay, SupPC
    <2>3. CASE WaitListening(s) \/ NotListening(s) \/ SpawnAmr(s) \/ IngestCancelled(s)
        BY <2>3 DEF WaitListening, NotListening, SpawnAmr, IngestCancelled, Stay, SupPC
    <2>4. QED
        BY <2>1, <2>2, <2>3 DEF Supervisor
<1>3. SupervisorsOwned'
    BY <1>1, <1>2 DEF SupervisorsOwned, CaptureInv, TypeOK
<1>4. EnumerateWhileFree' /\ ManagerDiscipline'
    BY <1>1 DEF EnumerateWhileFree, ManagerDiscipline, ToStop, CaptureInv, NoneRunning, Nowhere
<1>5. QED
    BY <1>3, <1>4, SupervisorTypes, SupervisorWindow DEF CaptureInv

\* The end of a run, judged or by exit(1), keeps the invariant.
LEMMA RunOverInv ==
    ASSUME CaptureInv, NEW s \in Sources, NEW st \in BOOLEAN, NEW pk \in BOOLEAN,
           NEW h \in BOOLEAN, RunOver(s, st, pk, h)
    PROVE  CaptureInv'
<1>1. GateTypeOK'
    <2>1. Next
        BY DEF Next
    <2>2. QED
        BY <2>1, StepContract, TypePreserved DEF CaptureInv, TypeOK
<1>2. CASE Restart
    <2>1. TypeOK'
        <3>1. /\ inventory' \in [Sources -> Nat]
              /\ desired' \in [Sources -> Scan \cup {Nil}]
              /\ running' \in [Sources -> Scan \cup {Nil}]
              /\ using' \in [Sources -> Sources \cup {Nil}]
            BY <1>2 DEF Restart, Nowhere, NoneRunning
        <3>2. /\ downStreak' \in [Sources -> 0..2]
              /\ deadRuns' \in [Sources -> 0 .. MaxDeadRuns - 1]
              /\ spc' \in [Sources -> SupPC]
              /\ mpc' \in MgrPC
            BY <1>2, CaptureAssumption DEF Restart, SupPC, MgrPC
        <3>3. /\ listening' \in BOOLEAN /\ notify' \in BOOLEAN /\ cooled' \in BOOLEAN
              /\ cancelled' \subseteq Sources
              /\ UNCHANGED <<envVars, devRows>>
            BY <1>2 DEF Restart
        <3>4. QED
            BY <1>1, <3>1, <3>2, <3>3 DEF CaptureInv, TypeOK, envVars, Buses, MgrPC, SupPC, Scan
    <2>2. WindowHeldByOpener'
        BY <1>2, CaptureAssumption DEF Restart, GateRestart, WindowHeldByOpener
    <2>3. SupervisorsOwned' /\ EnumerateWhileFree' /\ ManagerDiscipline'
        BY <1>2 DEF Restart, SupervisorsOwned, EnumerateWhileFree, ManagerDiscipline,
                    Nowhere, NoneRunning
    <2>4. QED
        BY <2>1, <2>2, <2>3 DEF CaptureInv
<1>3. CASE ~Restart
    <2> DEFINE n == DeadRuns(s, st /\ ~pk)
    <2>1. /\ n < MaxDeadRuns
          /\ deadRuns' = [deadRuns EXCEPT ![s] = n]
          /\ using' = [using EXCEPT ![s] = Nil]
          /\ spc[s] = "ingest" /\ spc' = [spc EXCEPT ![s] = "top"]
          /\ Ok(s) \/ Fail(s)
          /\ UNCHANGED <<cancelled, envVars, chanVars, mgrVars>>
        BY <1>3 DEF RunOver, Stay
    <2>2. n \in 0 .. MaxDeadRuns - 1
        BY <2>1, CaptureAssumption DEF DeadRuns, CaptureInv, TypeOK
    <2>3. gpc' = gpc
        BY <2>1 DEF Ok, Fail
    <2>4. TypeOK'
        BY <1>1, <2>1, <2>2
        DEF CaptureInv, TypeOK, SupPC, envVars, chanVars, mgrVars, Buses
    <2>5. WindowHeldByOpener'
        BY <2>1, <2>3 DEF CaptureInv, TypeOK, WindowHeldByOpener, SupPC, mgrVars
    <2>6. SupervisorsOwned' /\ EnumerateWhileFree' /\ ManagerDiscipline'
        BY <2>1 DEF CaptureInv, TypeOK, SupervisorsOwned, EnumerateWhileFree,
                    ManagerDiscipline, ToStop, NoneRunning, Nowhere, mgrVars
    <2>7. QED
        BY <2>4, <2>5, <2>6 DEF CaptureInv
<1>4. QED
    BY <1>2, <1>3

\* A manager step keeps the types.
LEMMA ManagerTypes ==
    ASSUME CaptureInv, ManagerStep
    PROVE  TypeOK'
<1> USE DEF CaptureInv, TypeOK, MgrPC, SupPC, Stay, mgrVars, supVars, envVars, chanVars, Buses
<1>0. GateTypeOK'
    <2>1. Next
        BY DEF Next
    <2>2. QED
        BY <2>1, StepContract, TypePreserved
<1>1. CASE Tick
    <2>1. Streaks \in [Sources -> 0..2]
        <3>1. ASSUME NEW s \in Sources
              PROVE  (IF downStreak[s] < 2 THEN downStreak[s] + 1 ELSE 2) \in 0..2
            <4>1. downStreak[s] \in 0..2
                OBVIOUS
            <4>2. QED
                BY <4>1
        <3>2. QED
            BY <3>1 DEF Streaks
    <2>2. QED
        BY <1>0, <1>1, <2>1 DEF Tick
<1>2. CASE ConfigChanged
    BY <1>0, <1>2 DEF ConfigChanged
<1>3. ASSUME NEW s \in Sources, CancelOne(s) PROVE TypeOK'
    BY <1>0, <1>3 DEF CancelOne
<1>4. ASSUME NEW s \in Sources, ReapOne(s) PROVE TypeOK'
    BY <1>0, <1>4 DEF ReapOne
<1>5. CASE Rescan
    BY <1>0, <1>5 DEF Rescan, Nowhere
<1>6. CASE CheckInventory \/ EnumBegin
    BY <1>0, <1>6 DEF CheckInventory, EnumBegin
<1>7. CASE EnumScan
    <2>1. ASSUME NEW s \in Sources PROVE Index(s) \in Nat
        BY BusEntries DEF Index
    <2>2. QED
        BY <1>0, <1>7, <2>1 DEF EnumScan
<1>8. CASE EnumFound \/ EnumRetry
    BY <1>0, <1>8 DEF EnumFound, EnumRetry
<1>9. CASE LoadConfig
    <2>1. Desired(inventory, cfg) \in [Sources -> Scan \cup {Nil}]
        BY DEF Desired, Scan
    <2>2. QED
        BY <1>0, <1>9, <2>1 DEF LoadConfig
<1>10. CASE LoadFailed
    BY <1>0, <1>10 DEF LoadFailed
<1>11. CASE StartMissing
    <2>1. spc' \in [Sources -> SupPC] /\ downStreak' \in [Sources -> 0..2]
        BY <1>11 DEF StartMissing
    <2>2. QED
        BY <1>0, <1>11, <2>1 DEF StartMissing, NoneRunning
<1>12. QED
    BY <1>1, <1>2, <1>3, <1>4, <1>5, <1>6, <1>7, <1>8, <1>9, <1>10, <1>11
    DEF ManagerStep

\* Nothing is left to stop exactly when nothing runs, in the rescan's stop
\* loop, or when what runs is wanted, in reconcile's.
LEMMA NothingToStop ==
    ASSUME CaptureInv, ToStop = {}
    PROVE  /\ mpc = "stopAll" => running = NoneRunning
           /\ mpc = "stop" => \A s \in Sources : running[s] = Nil \/ running[s] = desired[s]
BY DEF ToStop, CaptureInv, TypeOK, NoneRunning

\* A manager step keeps the gate and the program counters in agreement.
LEMMA ManagerWindow ==
    ASSUME CaptureInv, ManagerStep
    PROVE  WindowHeldByOpener'
<1> USE GateMoves, CaptureAssumption
        DEF CaptureInv, TypeOK, WindowHeldByOpener, Stay, SupPC, MgrPC, GateTypeOK, GatePC,
            mgrVars, supVars, gateVars
<1>1. CASE Tick \/ ConfigChanged \/ Rescan \/ LoadConfig \/ LoadFailed
    BY <1>1 DEF Tick, ConfigChanged, Rescan, LoadConfig, LoadFailed
<1>2. ASSUME NEW s \in Sources, CancelOne(s) \/ ReapOne(s) PROVE WindowHeldByOpener'
    BY <1>2 DEF CancelOne, ReapOne
<1>3. CASE CheckInventory
    BY <1>3 DEF CheckInventory
<1>4. CASE EnumBegin
    BY <1>4 DEF EnumBegin
<1>5. CASE EnumScan
    BY <1>5 DEF EnumScan
<1>6. CASE EnumFound \/ EnumRetry
    BY <1>6 DEF EnumFound, EnumRetry
<1>7. CASE StartMissing
    <2>1. ASSUME NEW s \in Sources, running[s] = Nil PROVE spc[s] = "none"
        BY <2>1 DEF SupervisorsOwned
    <2>2. QED
        BY <1>7, <2>1 DEF StartMissing
<1>8. QED
    BY <1>1, <1>2, <1>3, <1>4, <1>5, <1>6, <1>7 DEF ManagerStep

\* A manager step keeps the supervisors owned and the bus free while it is
\* enumerated; each stop loop reaps a supervisor only after it has ended.
LEMMA ManagerOwns ==
    ASSUME CaptureInv, ManagerStep
    PROVE  SupervisorsOwned' /\ EnumerateWhileFree' /\ ManagerDiscipline'
<1> USE DEF CaptureInv, TypeOK, SupervisorsOwned, EnumerateWhileFree, ManagerDiscipline,
            ToStop, MgrPC, SupPC, Stay, mgrVars, supVars
<1>1. CASE Tick \/ ConfigChanged
    BY <1>1 DEF Tick, ConfigChanged, NoneRunning, Nowhere
<1>2. ASSUME NEW s \in Sources, CancelOne(s)
      PROVE  SupervisorsOwned' /\ EnumerateWhileFree' /\ ManagerDiscipline'
    BY <1>2 DEF CancelOne, NoneRunning, Nowhere
<1>3. ASSUME NEW s \in Sources, ReapOne(s)
      PROVE  SupervisorsOwned' /\ EnumerateWhileFree' /\ ManagerDiscipline'
    BY <1>3 DEF ReapOne, NoneRunning, Nowhere
<1>4. CASE Rescan
    BY <1>4, NothingToStop DEF Rescan, NoneRunning, Nowhere
<1>5. CASE CheckInventory \/ EnumBegin \/ EnumFound \/ EnumRetry
    BY <1>5 DEF CheckInventory, EnumBegin, EnumFound, EnumRetry, NoneRunning, Nowhere
<1>6. CASE EnumScan
    BY <1>6 DEF EnumScan, NoneRunning, Nowhere
<1>7. CASE LoadConfig \/ LoadFailed
    <2>1. LoadConfig => \A s \in Sources : desired'[s] # Nil => inventory[s] # 0
        BY DEF LoadConfig, Desired
    <2>2. cancelled = {}
        BY <1>7 DEF LoadConfig, LoadFailed
    <2>3. QED
        BY <1>7, <2>1, <2>2 DEF LoadConfig, LoadFailed, NoneRunning, Nowhere
<1>8. CASE StartMissing
    <2>1. \A s \in Sources : running[s] = Nil \/ running[s] = desired[s]
        BY <1>8, NothingToStop DEF StartMissing
    <2>2. SupervisorsOwned'
        BY <1>8, <2>1 DEF StartMissing
    <2>3. inventory' = Nowhere => running' = NoneRunning
        BY <1>8 DEF StartMissing, NoneRunning, Nowhere
    <2>4. cancelled' = {}
        BY <1>8 DEF StartMissing
    <2>5. QED
        BY <1>8, <2>2, <2>3, <2>4 DEF StartMissing
<1>9. QED
    BY <1>1, <1>2, <1>3, <1>4, <1>5, <1>6, <1>7, <1>8 DEF ManagerStep

\* Neither the bus, nor the API's edits, nor the agents, nor the clock can
\* break the invariant.
LEMMA EnvironmentInv ==
    ASSUME CaptureInv, Environment
    PROVE  CaptureInv'
<1>1. GateTypeOK'
    <2>1. Next
        BY DEF Next
    <2>2. QED
        BY <2>1, StepContract, TypePreserved DEF CaptureInv, TypeOK
<1>2. UNCHANGED <<gpc, spc, mpc, cancelled, running, inventory, desired, downStreak, deadRuns>>
    BY DEF Environment, Listen, EditConfig, BusChange, AgentHello, CoolDown, ClockTick,
           GateTick, gateVars, mgrVars, supVars
<1>3. TypeOK'
    <2> USE DEF CaptureInv, TypeOK, envVars, chanVars, mgrVars, supVars, Buses
    <2>1. ASSUME NEW on \in BOOLEAN, Listen(on) PROVE TypeOK'
        BY <1>1, <2>1 DEF Listen
    <2>2. ASSUME NEW s \in Sources, NEW q \in Par \cup {Off}, EditConfig(s, q) PROVE TypeOK'
        <3>1. notify' \in BOOLEAN
            BY <2>2 DEF EditConfig
        <3>2. edits' \in 0..MaxEdits
            BY <2>2, CaptureAssumption DEF EditConfig
        <3>3. cfg' \in [Sources -> Par \cup {Off}]
            BY <2>2 DEF EditConfig
        <3>4. UNCHANGED <<bus, busChanges, listening, devRows, cooled, using>>
            BY <2>2 DEF EditConfig
        <3>5. QED
            BY <1>1, <1>2, <3>1, <3>2, <3>3, <3>4
    <2>3. CASE BusChange
        <3>1. using' \in [Sources -> Sources \cup {Nil}]
            BY <2>3 DEF BusChange
        <3>2. busChanges' \in 0..MaxBusChanges
            BY <2>3, CaptureAssumption DEF BusChange
        <3>3. bus' \in Buses
            BY <2>3 DEF BusChange
        <3>4. UNCHANGED <<cfg, edits, listening, notify, devRows, cooled>>
            BY <2>3 DEF BusChange
        <3>5. QED
            BY <1>1, <1>2, <3>1, <3>2, <3>3, <3>4
    <2>4. ASSUME NEW r \in Remotes, AgentHello(r) PROVE TypeOK'
        BY <1>1, <2>4 DEF AgentHello
    <2>5. CASE CoolDown
        BY <1>1, <2>5 DEF CoolDown
    <2>6. CASE ClockTick
        BY <1>1, <2>6 DEF ClockTick
    <2>7. QED
        BY <2>1, <2>2, <2>3, <2>4, <2>5, <2>6 DEF Environment
<1>4. WindowHeldByOpener'
    BY <1>2 DEF CaptureInv, WindowHeldByOpener
<1>5. SupervisorsOwned' /\ EnumerateWhileFree' /\ ManagerDiscipline'
    BY <1>2 DEF CaptureInv, SupervisorsOwned, EnumerateWhileFree, ManagerDiscipline,
                ToStop, NoneRunning, Nowhere
<1>6. QED
    BY <1>3, <1>4, <1>5 DEF CaptureInv

\* cmd/capture keeps its invariant for any number of dongles, any settings and
\* any bounds: types, the window held only by whoever is opening, supervisors
\* owned by the manager, and enumeration only of a free bus.
THEOREM CaptureInvariant == Spec => []CaptureInv
<1>1. Init => CaptureInv
    <2> SUFFICES ASSUME Init PROVE CaptureInv
        OBVIOUS
    <2> USE CaptureAssumption, GateAssumption DEF Init, ProcessInit, GateInit
    <2>1. GateTypeOK
        BY DEF GateTypeOK, GatePC
    <2>2. TypeOK
        <3>1. /\ inventory \in [Sources -> Nat]
              /\ desired \in [Sources -> Scan \cup {Nil}]
              /\ running \in [Sources -> Scan \cup {Nil}]
              /\ using \in [Sources -> Sources \cup {Nil}]
            BY DEF Nowhere, NoneRunning
        <3>2. /\ downStreak \in [Sources -> 0..2]
              /\ deadRuns \in [Sources -> 0 .. MaxDeadRuns - 1]
              /\ spc \in [Sources -> SupPC]
              /\ mpc \in MgrPC
              /\ busChanges \in 0..MaxBusChanges /\ edits \in 0..MaxEdits
            BY DEF SupPC, MgrPC
        <3>3. QED
            BY <2>1, <3>1, <3>2 DEF TypeOK
    <2>3. WindowHeldByOpener
        BY DEF WindowHeldByOpener
    <2>4. SupervisorsOwned /\ EnumerateWhileFree /\ ManagerDiscipline
        BY DEF SupervisorsOwned, EnumerateWhileFree, ManagerDiscipline, NoneRunning, Nowhere
    <2>5. QED
        BY <2>2, <2>3, <2>4 DEF CaptureInv
<1>2. CaptureInv /\ [Next]_vars => CaptureInv'
    <2> SUFFICES ASSUME CaptureInv, [Next]_vars PROVE CaptureInv'
        OBVIOUS
    <2>1. CASE ManagerStep
        BY <2>1, ManagerTypes, ManagerWindow, ManagerOwns DEF CaptureInv
    <2>2. CASE UNCHANGED vars
        BY <2>2
        DEF vars, gateVars, envVars, chanVars, mgrVars, supVars, CaptureInv, TypeOK, GateTypeOK,
            WindowHeldByOpener, SupervisorsOwned, EnumerateWhileFree, ManagerDiscipline,
            Buses, ToStop, NoneRunning, Nowhere
    <2>3. QED
        BY <2>1, <2>2, SupervisorInv, RunOverInv, EnvironmentInv DEF Next
<1>3. QED
    BY <1>1, <1>2, PTL DEF Spec

\* No supervisor goroutine is orphaned or doubled (SupervisorsOwned).
THEOREM CaptureOwnsSupervisors == Spec => []SupervisorsOwned
<1>1. CaptureInv => SupervisorsOwned
    BY DEF CaptureInv
<1>2. QED
    BY <1>1, CaptureInvariant, PTL

\* No code path leaves the gate in another state than the caller believes:
\* every begin() that returned true has exactly one end(), on error paths too.
THEOREM CaptureWindowHeld == Spec => []WindowHeldByOpener
<1>1. CaptureInv => WindowHeldByOpener
    BY DEF CaptureInv
<1>2. QED
    BY <1>1, CaptureInvariant, PTL

\* The bus is only enumerated while no supervisor of this process is alive.
THEOREM CaptureFreeBus == Spec => []EnumerateWhileFree
<1>1. CaptureInv => EnumerateWhileFree
    BY DEF CaptureInv
<1>2. QED
    BY <1>1, CaptureInvariant, PTL

\* Every variable of the capture process keeps its type: an inventory entry is
\* a bus index, a running supervisor has the scan it was started with, and no
\* goroutine is at a point that its code does not have.
THEOREM CaptureTypeCorrect == Spec => []TypeOK
<1>1. CaptureInv => TypeOK
    BY DEF CaptureInv
<1>2. QED
    BY <1>1, CaptureInvariant, PTL

\* No step but the end of a run, or the exit it leads to, touches the counts.
LEMMA DeadRunsStay ==
    ASSUME [Next]_vars,
           ~ \E s \in Sources, st, pk, h \in BOOLEAN : RunOver(s, st, pk, h)
    PROVE  UNCHANGED deadRuns
<1>1. ASSUME NEW s \in Sources, Supervisor(s) PROVE UNCHANGED deadRuns
    BY <1>1 DEF Supervisor, SupTop, SupBegin, SupAbort, StartTcp, StartFailed,
        WaitListening, NotListening, SpawnAmr, IngestCancelled
<1>2. CASE ManagerStep
    BY <1>2 DEF ManagerStep, Tick, ConfigChanged, CancelOne, ReapOne, Rescan,
        CheckInventory, EnumBegin, EnumScan, EnumFound, EnumRetry, LoadConfig,
        LoadFailed, StartMissing, supVars
<1>3. CASE Environment
    BY <1>3 DEF Environment, Listen, EditConfig, BusChange, AgentHello, CoolDown,
        ClockTick, supVars
<1>4. CASE UNCHANGED vars
    BY <1>4 DEF vars, supVars
<1>5. QED
    BY <1>1, <1>2, <1>3, <1>4 DEF Next

\* A rescan, a cancel or a restarted supervisor never forgets a dead run: the
\* count of a source goes down only when its own run showed life, or when one
\* supervisor reached the limit and the process exits.
THEOREM CaptureDeadRunsSurvive == Spec => DeadRunsSurviveRescan
<1> DEFINE Kept == \A s \in Sources :
                      deadRuns'[s] < deadRuns[s] =>
                         \/ Up(s)
                         \/ \E t \in Sources :
                               Up(t) /\ deadRuns[t] = MaxDeadRuns - 1 /\ spc'[t] = "none"
<1>1. CaptureInv /\ [Next]_vars => [Kept]_vars
    <2> SUFFICES ASSUME CaptureInv, [Next]_vars PROVE Kept
        OBVIOUS
    <2>1. deadRuns \in [Sources -> 0 .. MaxDeadRuns - 1] /\ MaxDeadRuns \in Nat \ {0}
        BY CaptureAssumption DEF CaptureInv, TypeOK
    <2>2. CASE UNCHANGED deadRuns
        BY <2>1, <2>2
    <2>3. ASSUME NEW s \in Sources, NEW st \in BOOLEAN, NEW pk \in BOOLEAN,
                 NEW h \in BOOLEAN, RunOver(s, st, pk, h)
          PROVE  Kept
        <3> DEFINE n == DeadRuns(s, st /\ ~pk)
        <3>1. Up(s)
            BY <2>3 DEF RunOver, Up
        <3>2. CASE n >= MaxDeadRuns /\ Restart
            <4>1. deadRuns[s] = MaxDeadRuns - 1
                BY <2>1, <3>2 DEF DeadRuns
            <4>2. spc'[s] = "none"
                BY <3>2 DEF Restart
            <4>3. QED
                BY <3>1, <4>1, <4>2
        <3>3. CASE deadRuns' = [deadRuns EXCEPT ![s] = n]
            BY <2>1, <3>1, <3>3
        <3>4. QED
            BY <2>3, <3>2, <3>3 DEF RunOver
    <2>4. QED
        BY <2>2, <2>3, DeadRunsStay
<1>2. QED
    BY <1>1, CaptureInvariant, PTL DEF Spec, DeadRunsSurviveRescan
=============================================================================
