------------------------------- MODULE Capture -------------------------------
(***************************************************************************)
(* cmd/capture in live mode: the manager (run, reconcile, stopAll,         *)
(* enumerateOnce, listenConfig), one superviseSDR goroutine per enabled    *)
(* dongle, and the USB gate they share (UsbGate).                          *)
(*                                                                         *)
(* A dongle is named by its source id (its unique serial) and is opened by *)
(* its current position on the bus, which shifts when dongles come and go. *)
(* Scan settings (freq, gain, ppm, msgtype, filter) are one value of Par.  *)
(* Durations other than the gate's are nondeterministic: a run may end at  *)
(* any time and is judged healthy or not, a rescan cools down eventually.  *)
(***************************************************************************)
EXTENDS UsbGate, Sequences, FiniteSets

CONSTANTS
    Sources,        \* the local dongles
    Remotes,        \* dongles of remote agents, in the same inventory table
    Manager,        \* the manager goroutine as a client of the gate
    Par,            \* scan settings a dongle can be given
    Off,            \* a dongle disabled in the configuration
    Nil,            \* no supervisor
    MaxDeadRuns,    \* captureMaxDeadRuns
    MaxBusChanges,  \* bound: dongles plugged or unplugged
    MaxEdits        \* bound: edits of the configuration

VARIABLES
    bus,            \* the dongles on the USB bus, by librtlsdr index
    cfg,            \* capture settings in the database
    devRows,        \* rows of sdr_devices
    listening,      \* listenConfig's connection is in LISTEN
    notify,         \* the capacity-1 channel listenConfig signals on
    mpc,            \* where the manager is
    inventory,      \* manager.inventory: source -> index, 0 when absent
    desired,        \* reconcile's desired map
    running,        \* manager.running: source -> scanParams, or Nil
    downStreak,     \* runningDev.downStreak
    cooled,         \* more than 5 minutes since lastRescan
    spc,            \* where each superviseSDR is
    cancelled,      \* supervisors whose context is cancelled
    using,          \* the dongle each supervisor's rtl_tcp holds, or Nil
    deadRuns,       \* deadRuns.m
    busChanges, edits

envVars == <<bus, cfg, busChanges, edits>>
chanVars == <<listening, notify>>
mgrVars == <<mpc, inventory, desired, running, downStreak, cooled, devRows>>
supVars == <<spc, cancelled, using, deadRuns>>
vars == <<gateVars, envVars, chanVars, mgrVars, supVars>>

\* scanParams: the index the dongle is opened by, and its settings.
Scan == [devIndex : Nat, par : Par]

ASSUME CaptureAssumption ==
    /\ Clients = Sources \cup {Manager}
    /\ Manager \notin Sources
    /\ Off \notin Par
    /\ Nil \notin Scan \cup Sources
    /\ MaxDeadRuns \in Nat \ {0}
    /\ MaxBusChanges \in Nat /\ MaxEdits \in Nat

\* superviseSDR: none (no goroutine), top (loop head), gate (in begin), start,
\* startFailed, listen, notListening, spawn, ingest, done.
SupPC == {"none", "top", "gate", "start", "startFailed", "listen",
          "notListening", "spawn", "ingest", "done"}

\* manager: select (in run), stopAll, inventory, enum, settle, enumFailed,
\* load, stop.
MgrPC == {"select", "stopAll", "inventory", "enum", "settle", "enumFailed",
          "load", "stop"}

\* Every order the dongles, or some of them, can have on the bus.
Buses ==
    {b \in UNION {[1..n -> Sources] : n \in 0..Cardinality(Sources)} :
        \A i, j \in DOMAIN b : b[i] = b[j] => i = j}

\* The librtlsdr index of a dongle; 0 (never a position here) when it is absent.
Index(s) == IF \E i \in DOMAIN bus : bus[i] = s
            THEN CHOOSE i \in DOMAIN bus : bus[i] = s
            ELSE 0

TypeOK ==
    /\ GateTypeOK
    /\ bus \in Buses
    /\ cfg \in [Sources -> Par \cup {Off}]
    /\ devRows \subseteq Sources \cup Remotes
    /\ listening \in BOOLEAN /\ notify \in BOOLEAN /\ cooled \in BOOLEAN
    /\ mpc \in MgrPC
    /\ inventory \in [Sources -> Nat]
    /\ desired \in [Sources -> Scan \cup {Nil}]
    /\ running \in [Sources -> Scan \cup {Nil}]
    /\ downStreak \in [Sources -> 0..2]
    /\ spc \in [Sources -> SupPC]
    /\ cancelled \subseteq Sources
    /\ using \in [Sources -> Sources \cup {Nil}]
    /\ deadRuns \in [Sources -> 0 .. MaxDeadRuns - 1]
    /\ busChanges \in 0..MaxBusChanges /\ edits \in 0..MaxEdits

Nowhere == [s \in Sources |-> 0]
NoneRunning == [s \in Sources |-> Nil]

ProcessInit ==
    /\ listening = FALSE /\ notify = FALSE
    /\ mpc = "inventory"
    /\ inventory = Nowhere
    /\ desired = NoneRunning
    /\ running = NoneRunning
    /\ downStreak = [s \in Sources |-> 0]
    /\ cooled = TRUE
    /\ spc = [s \in Sources |-> "none"]
    /\ cancelled = {}
    /\ using = NoneRunning
    /\ deadRuns = [s \in Sources |-> 0]

Init ==
    /\ GateInit
    /\ ProcessInit
    /\ bus \in Buses
    /\ cfg \in [Sources -> Par \cup {Off}]
    /\ devRows = {}
    /\ busChanges = 0 /\ edits = 0

-----------------------------------------------------------------------------
(* superviseSDR(ctx, d, source, p, up).                                    *)

Stay(s, pc) == spc' = [spc EXCEPT ![s] = pc]

\* up is true exactly while the pipeline ingests.
Up(s) == spc[s] = "ingest"

\* The loop head: ctx.Err(), up.Store(false), the call of bus.begin.
SupTop(s) ==
    /\ spc[s] = "top"
    /\ \/ s \in cancelled /\ Stay(s, "done") /\ UNCHANGED gateVars
       \/ s \notin cancelled /\ Stay(s, "gate") /\ Enter(s)
    /\ UNCHANGED <<cancelled, using, deadRuns, envVars, chanVars, mgrVars>>

\* Inside bus.begin, up to the grant.
SupBegin(s) ==
    /\ spc[s] = "gate"
    /\ \/ (ReadWait(s) \/ Wake(s) \/ Take(s)) /\ UNCHANGED spc
       \/ Recheck(s) /\ Stay(s, IF backoff = 0 THEN "start" ELSE "gate")
    /\ UNCHANGED <<cancelled, using, deadRuns, envVars, chanVars, mgrVars>>

\* Mutant of SupAbort: end() is called although begin() returned false.
SupAbortEnds(s) ==
    /\ spc[s] = "gate"
    /\ s \in cancelled
    /\ gpc[s] \in {"sleep", "queue"}
    /\ gpc' = [gpc EXCEPT ![s] = "out"]
    /\ asleep' = [asleep EXCEPT ![s] = 0]
    /\ sem' = 0
    /\ Stay(s, "done")
    /\ UNCHANGED <<fails, backoff, cancelled, using, deadRuns,
                   envVars, chanVars, mgrVars>>

\* A select of bus.begin sees ctx.Done: begin returns false, superviseSDR returns.
SupAbort(s) ==
    /\ spc[s] = "gate"
    /\ s \in cancelled
    /\ Abort(s)
    /\ Stay(s, "done")
    /\ UNCHANGED <<cancelled, using, deadRuns, envVars, chanVars, mgrVars>>

\* rtl_tcp opens the dongle that now has the index it was given; it gets none
\* when the index is beyond the bus or another rtl_tcp has that dongle open.
Opened(s) ==
    LET i == running[s].devIndex
    IN  IF i \in DOMAIN bus /\ \A t \in Sources : using[t] # bus[i]
        THEN bus[i] ELSE Nil

\* tcp.Start(); it fails at once when ctx is already cancelled.
StartTcp(s) ==
    /\ spc[s] = "start"
    /\ \/ /\ s \notin cancelled
          /\ using' = [using EXCEPT ![s] = Opened(s)]
          /\ Stay(s, "listen")
          /\ UNCHANGED gateVars
       \/ /\ Fail(s)
          /\ Stay(s, "startFailed")
          /\ UNCHANGED using
    /\ UNCHANGED <<cancelled, deadRuns, envVars, chanVars, mgrVars>>

\* Mutant of StartFailed: the error path forgets bus.end().
StartFailedKeeps(s) ==
    /\ spc[s] = "startFailed"
    /\ Stay(s, "top")
    /\ UNCHANGED <<gateVars, cancelled, using, deadRuns, envVars, chanVars, mgrVars>>

\* bus.end() after the failed start, then continue.
StartFailed(s) ==
    /\ spc[s] = "startFailed"
    /\ End(s)
    /\ Stay(s, "top")
    /\ UNCHANGED <<cancelled, using, deadRuns, envVars, chanVars, mgrVars>>

\* waitListening, then bus.end(): true only if rtl_tcp opened its dongle and
\* bound its port; false on the deadline, on a cancelled ctx, or when it died.
WaitListening(s) ==
    /\ spc[s] = "listen"
    /\ End(s)
    /\ \/ using[s] # Nil /\ Stay(s, "spawn")
       \/ Stay(s, "notListening")
    /\ UNCHANGED <<cancelled, using, deadRuns, envVars, chanVars, mgrVars>>

\* Kill rtl_tcp; a cancelled supervisor leaves, another one counts a failure.
NotListening(s) ==
    /\ spc[s] = "notListening"
    /\ using' = [using EXCEPT ![s] = Nil]
    /\ \/ s \in cancelled /\ Stay(s, "done") /\ UNCHANGED gateVars
       \/ s \notin cancelled /\ Stay(s, "top") /\ Fail(s)
    /\ UNCHANGED <<cancelled, deadRuns, envVars, chanVars, mgrVars>>

\* amr.Start(); like tcp.Start() it fails when ctx is already cancelled.
SpawnAmr(s) ==
    /\ spc[s] = "spawn"
    /\ \/ /\ s \notin cancelled
          /\ Stay(s, "ingest")
          /\ UNCHANGED <<using, gateVars>>
       \/ /\ using' = [using EXCEPT ![s] = Nil]
          /\ Stay(s, "top")
          /\ Fail(s)
    /\ UNCHANGED <<cancelled, deadRuns, envVars, chanVars, mgrVars>>

\* Mutant of IngestCancelled: a blocked read never notices the cancellation.
IngestDeaf(s) ==
    /\ spc[s] = "ingest" /\ s \in cancelled /\ s \notin cancelled
    /\ UNCHANGED vars

\* ingest saw ctx.Done (or the cancel landed before the ctx check that follows
\* the kills): both processes are killed and the supervisor returns.
IngestCancelled(s) ==
    /\ spc[s] = "ingest"
    /\ s \in cancelled
    /\ using' = [using EXCEPT ![s] = Nil]
    /\ Stay(s, "done")
    /\ UNCHANGED <<cancelled, deadRuns, gateVars, envVars, chanVars, mgrVars>>

\* noteDeadRun: only a stall without a single packet counts.
DeadRuns(s, dead) == IF dead THEN deadRuns[s] + 1 ELSE 0

\* exitFn(1): the container is recreated and the whole process starts afresh.
Restart ==
    /\ GateRestart
    /\ listening' = FALSE /\ notify' = FALSE
    /\ mpc' = "inventory"
    /\ inventory' = Nowhere
    /\ desired' = NoneRunning
    /\ running' = NoneRunning
    /\ downStreak' = [s \in Sources |-> 0]
    /\ cooled' = TRUE
    /\ spc' = [s \in Sources |-> "none"]
    /\ cancelled' = {}
    /\ using' = NoneRunning
    /\ deadRuns' = [s \in Sources |-> 0]
    /\ UNCHANGED <<envVars, devRows>>

\* ingest returned (silence, EOF, an insert error), both processes are killed,
\* and the run is judged.  A stall lasts captureSilenceTimeout (5 minutes), so
\* a stalled run counts as healthy for the gate.
RunOver(s, stalled, packets, healthy) ==
    /\ spc[s] = "ingest"
    /\ s \notin cancelled
    /\ stalled => healthy
    /\ LET n == DeadRuns(s, stalled /\ ~packets)
       IN  \/ n >= MaxDeadRuns /\ Restart
           \/ /\ n < MaxDeadRuns
              /\ deadRuns' = [deadRuns EXCEPT ![s] = n]
              /\ using' = [using EXCEPT ![s] = Nil]
              /\ Stay(s, "top")
              /\ IF healthy THEN Ok(s) ELSE Fail(s)
              /\ UNCHANGED <<cancelled, envVars, chanVars, mgrVars>>

-----------------------------------------------------------------------------
(* manager.run and reconcile.                                              *)

\* The ticker: dongleRescanNeeded counts who is down, and a dongle down for
\* two ticks starts a coordinated rescan unless the last one is too recent.
Streaks ==
    [s \in Sources |->
        IF running[s] = Nil \/ Up(s) THEN 0
        ELSE IF downStreak[s] < 2 THEN downStreak[s] + 1 ELSE 2]

\* Mutant of Tick: without an unhealthy dongle the tick does not reconcile.
TickHealthOnly ==
    /\ mpc = "select"
    /\ downStreak' = Streaks
    /\ mpc' = IF cooled /\ \E s \in Sources : Streaks[s] >= 2
              THEN "stopAll" ELSE "select"
    /\ UNCHANGED <<inventory, desired, running, cooled, devRows,
                   supVars, gateVars, envVars, chanVars>>

Tick ==
    /\ mpc = "select"
    /\ downStreak' = Streaks
    /\ mpc' = IF cooled /\ \E s \in Sources : Streaks[s] >= 2
              THEN "stopAll" ELSE "inventory"
    /\ UNCHANGED <<inventory, desired, running, cooled, devRows,
                   supVars, gateVars, envVars, chanVars>>

\* <-notify: reconcile without a health check.
ConfigChanged ==
    /\ mpc = "select"
    /\ notify
    /\ notify' = FALSE
    /\ mpc' = "inventory"
    /\ UNCHANGED <<inventory, desired, running, downStreak, cooled, devRows,
                   supVars, gateVars, envVars, listening>>

\* The supervisors to stop: all of them in stopAll; in reconcile those that
\* vanished, were disabled, or whose parameters changed.
ToStop ==
    {s \in Sources : running[s] # Nil /\ (mpc = "stop" => running[s] # desired[s])}

\* rd.cancel(), one supervisor at a time: the loop waits for each on done.
CancelOne(s) ==
    /\ mpc \in {"stopAll", "stop"}
    /\ cancelled = {}
    /\ s \in ToStop
    /\ cancelled' = {s}
    /\ UNCHANGED <<spc, using, deadRuns, mgrVars, gateVars, envVars, chanVars>>

\* Mutant of ReapOne: delete(m.running, src) without waiting on done.
ReapAtOnce(s) ==
    /\ mpc \in {"stopAll", "stop"}
    /\ s \in cancelled
    /\ cancelled' = {}
    /\ running' = [running EXCEPT ![s] = Nil]
    /\ downStreak' = [downStreak EXCEPT ![s] = 0]
    /\ UNCHANGED <<spc, using, deadRuns, mpc, inventory, desired, cooled, devRows,
                   gateVars, envVars, chanVars>>

\* <-rd.done, delete(m.running, src).
ReapOne(s) ==
    /\ mpc \in {"stopAll", "stop"}
    /\ s \in cancelled
    /\ spc[s] = "done"
    /\ cancelled' = {}
    /\ Stay(s, "none")
    /\ running' = [running EXCEPT ![s] = Nil]
    /\ downStreak' = [downStreak EXCEPT ![s] = 0]
    /\ UNCHANGED <<using, deadRuns, mpc, inventory, desired, cooled, devRows,
                   gateVars, envVars, chanVars>>

\* Mutant of Rescan: the inventory is dropped while receivers still run.
RescanBusy ==
    /\ mpc = "stopAll"
    /\ inventory' = Nowhere
    /\ cooled' = FALSE
    /\ mpc' = "inventory"
    /\ UNCHANGED <<desired, running, downStreak, devRows,
                   supVars, gateVars, envVars, chanVars>>

\* The rest of the rescan branch, once stopAll is through.
Rescan ==
    /\ mpc = "stopAll"
    /\ ToStop = {}
    /\ inventory' = Nowhere
    /\ cooled' = FALSE
    /\ mpc' = "inventory"
    /\ UNCHANGED <<desired, running, downStreak, devRows,
                   supVars, gateVars, envVars, chanVars>>

\* if len(m.inventory) == 0 { enumerateOnce }: enumerateRTL calls bus.begin.
CheckInventory ==
    /\ mpc = "inventory"
    /\ \/ inventory # Nowhere /\ mpc' = "load" /\ UNCHANGED gateVars
       \/ inventory = Nowhere /\ mpc' = "enum" /\ Enter(Manager)
    /\ UNCHANGED <<inventory, desired, running, downStreak, cooled, devRows,
                   supVars, envVars, chanVars>>

EnumBegin ==
    /\ mpc = "enum"
    /\ ReadWait(Manager) \/ Wake(Manager) \/ Take(Manager) \/ Recheck(Manager)
    /\ UNCHANGED <<mgrVars, supVars, envVars, chanVars>>

\* rtl_test lists the bus; an empty list or a failed command is a failure.
EnumScan ==
    /\ mpc = "enum"
    /\ gpc[Manager] = "in"
    /\ \/ /\ bus # <<>>
          /\ inventory' = [s \in Sources |-> Index(s)]
          /\ mpc' = "settle"
          /\ UNCHANGED gateVars
       \/ /\ Fail(Manager)
          /\ mpc' = "enumFailed"
          /\ UNCHANGED inventory
    /\ UNCHANGED <<desired, running, downStreak, cooled, devRows,
                   supVars, envVars, chanVars>>

\* The settle pause is over: bus.end(), UpsertDevice for each dongle found,
\* and PruneDevices for every row that is not one of them.
EnumFound ==
    /\ mpc = "settle"
    /\ End(Manager)
    /\ devRows' = {s \in Sources : inventory[s] # 0}
    /\ mpc' = "load"
    /\ UNCHANGED <<inventory, desired, running, downStreak, cooled,
                   supVars, envVars, chanVars>>

\* bus.end() of a failed enumeration; enumerateOnce tries again.
EnumRetry ==
    /\ mpc = "enumFailed"
    /\ End(Manager)
    /\ mpc' = "inventory"
    /\ UNCHANGED <<inventory, desired, running, downStreak, cooled, devRows,
                   supVars, envVars, chanVars>>

\* The supervisors the inventory and the configuration call for.
Desired(inv, c) ==
    [s \in Sources |->
        IF inv[s] # 0 /\ c[s] # Off
        THEN [devIndex |-> inv[s], par |-> c[s]] ELSE Nil]

LoadConfig ==
    /\ mpc = "load"
    /\ desired' = Desired(inventory, cfg)
    /\ mpc' = "stop"
    /\ UNCHANGED <<inventory, running, downStreak, cooled, devRows,
                   supVars, gateVars, envVars, chanVars>>

\* LoadConfig returned an error: reconcile gives up until the next event.
LoadFailed ==
    /\ mpc = "load"
    /\ mpc' = "select"
    /\ UNCHANGED <<inventory, desired, running, downStreak, cooled, devRows,
                   supVars, gateVars, envVars, chanVars>>

\* Mutant of StartMissing: a fresh supervisor counts dead runs from zero.
StartForgetsDeadRuns ==
    /\ mpc = "stop"
    /\ ToStop = {}
    /\ running' = desired
    /\ spc' = [s \in Sources |->
                  IF running[s] = Nil /\ desired[s] # Nil THEN "top" ELSE spc[s]]
    /\ deadRuns' = [s \in Sources |->
                       IF running[s] = Nil THEN 0 ELSE deadRuns[s]]
    /\ downStreak' = [s \in Sources |->
                         IF running[s] = Nil THEN 0 ELSE downStreak[s]]
    /\ desired' = NoneRunning
    /\ mpc' = "select"
    /\ UNCHANGED <<inventory, cooled, devRows,
                   cancelled, using, gateVars, envVars, chanVars>>

\* Start what should run and does not.
StartMissing ==
    /\ mpc = "stop"
    /\ ToStop = {}
    /\ running' = desired
    /\ spc' = [s \in Sources |->
                  IF running[s] = Nil /\ desired[s] # Nil THEN "top" ELSE spc[s]]
    /\ downStreak' = [s \in Sources |->
                         IF running[s] = Nil THEN 0 ELSE downStreak[s]]
    /\ desired' = NoneRunning       \* a local of reconcile: out of scope
    /\ mpc' = "select"
    /\ UNCHANGED <<inventory, cooled, devRows,
                   cancelled, using, deadRuns, gateVars, envVars, chanVars>>

\* time.Since(m.lastRescan) passes 5 minutes.
CoolDown ==
    /\ ~cooled
    /\ cooled' = TRUE
    /\ UNCHANGED <<mpc, inventory, desired, running, downStreak, devRows,
                   supVars, gateVars, envVars, chanVars>>

-----------------------------------------------------------------------------
(* listenConfig, the API's edits, the bus, the remote agents, the clock.   *)

\* The listener's connection fails, or LISTENs again; nothing is signalled.
\* (Only while an edit may still come: afterwards it makes no difference.)
Listen(on) ==
    /\ edits < MaxEdits
    /\ listening # on
    /\ listening' = on
    /\ UNCHANGED <<notify, supVars, mgrVars, gateVars, envVars>>

\* An edit of the capture settings and its NOTIFY winnow_config, which only a
\* listener that is connected forwards (a non-blocking send on a full channel
\* changes nothing).
EditConfig(s, p) ==
    /\ edits < MaxEdits
    /\ edits' = edits + 1
    /\ p # cfg[s]
    /\ cfg' = [cfg EXCEPT ![s] = p]
    /\ notify' = (notify \/ listening)
    /\ UNCHANGED <<bus, busChanges, listening, supVars, mgrVars, gateVars>>

\* A dongle leaves the bus, taking the handle of whoever had it open, or comes
\* (back) at any position.
BusChange ==
    /\ busChanges < MaxBusChanges
    /\ busChanges' = busChanges + 1
    /\ bus' \in Buses \ {bus}
    /\ \E s \in Sources :
          \/ /\ bus' = SelectSeq(bus, LAMBDA t : t # s)
             /\ using' = [t \in Sources |-> IF using[t] = s THEN Nil ELSE using[t]]
          \/ /\ bus = SelectSeq(bus', LAMBDA t : t # s)
             /\ UNCHANGED using
    /\ UNCHANGED <<cfg, edits, chanVars, spc, cancelled, deadRuns, mgrVars, gateVars>>

\* handleAgentWS (cmd/api): the hello of a remote agent upserts its dongles.
AgentHello(r) ==
    /\ r \notin devRows
    /\ devRows' = devRows \cup {r}
    /\ UNCHANGED <<mpc, inventory, desired, running, downStreak, cooled,
                   supVars, gateVars, envVars, chanVars>>

ClockTick == GateTick /\ UNCHANGED <<envVars, chanVars, mgrVars, supVars>>

Environment ==
    \/ \E on \in BOOLEAN : Listen(on)
    \/ \E s \in Sources, p \in Par \cup {Off} : EditConfig(s, p)
    \/ BusChange
    \/ \E r \in Remotes : AgentHello(r)
    \/ CoolDown
    \/ ClockTick

Supervisor(s) ==
    \/ SupTop(s) \/ SupBegin(s) \/ SupAbort(s) \/ StartTcp(s) \/ StartFailed(s)
    \/ WaitListening(s) \/ NotListening(s) \/ SpawnAmr(s) \/ IngestCancelled(s)

ManagerStep ==
    \/ Tick \/ ConfigChanged
    \/ \E s \in Sources : CancelOne(s) \/ ReapOne(s)
    \/ Rescan \/ CheckInventory \/ EnumBegin \/ EnumScan \/ EnumFound
    \/ EnumRetry \/ LoadConfig \/ LoadFailed \/ StartMissing

Next ==
    \/ \E s \in Sources : Supervisor(s)
    \/ \E s \in Sources, stalled, packets, healthy \in BOOLEAN :
          RunOver(s, stalled, packets, healthy)
    \/ ManagerStep
    \/ Environment

Spec == Init /\ [][Next]_vars

(***************************************************************************)
(* What the scheduler owes.  Goroutines that can step do; the sem channel  *)
(* serves its waiters in order, so one that is let through again and again *)
(* gets the window (strong fairness of the begin loops); a select with     *)
(* several ready cases picks at random, so one that finds ctx.Done ready   *)
(* again and again takes it (strong fairness of SupAbort); the ticker      *)
(* fires; the clock runs; the database does not refuse every LoadConfig    *)
(* for ever.  Nothing is owed about how long a pipeline runs.              *)
(***************************************************************************)
Fairness ==
    /\ \A s \in Sources : /\ WF_vars(Supervisor(s))
                           /\ SF_vars(SupBegin(s)) /\ SF_vars(SupAbort(s))
    /\ WF_vars(ManagerStep) /\ SF_vars(EnumBegin) /\ SF_vars(LoadConfig)
    /\ WF_vars(ClockTick)

FairSpec == Spec /\ Fairness

-----------------------------------------------------------------------------
(* Properties.                                                             *)

\* Who is where in begin() and in the window is exactly what the program
\* counters say: no path out of superviseSDR or enumerateRTL, an error, a
\* cancellation or a retry, leaves with the window or calls the gate twice.
WindowHeldByOpener ==
    /\ \A s \in Sources :
          /\ gpc[s] = "in" <=> spc[s] \in {"start", "startFailed", "listen"}
          /\ gpc[s] \in {"loop", "sleep", "queue", "recheck"} <=> spc[s] = "gate"
    /\ gpc[Manager] # "out" <=> mpc \in {"enum", "settle", "enumFailed"}
    /\ mpc \in {"settle", "enumFailed"} => gpc[Manager] = "in"

\* A supervisor goroutine lives exactly as long as its entry in running: none
\* is forgotten while it still drives a dongle, and none is started beside an
\* old one of the same source (cancel, <-done, delete before the restart).
SupervisorsOwned ==
    \A s \in Sources : spc[s] # "none" <=> running[s] # Nil

\* A rescan frees the bus before it enumerates: rtl_test never opens the bus
\* while a supervisor of this process is alive ("re-enumerate while the
\* devices are free", main.go:177).
EnumerateWhileFree ==
    mpc \in {"enum", "settle", "enumFailed"} => running = NoneRunning

\* What makes the properties above inductive: only the two stop loops cancel,
\* and only supervisors they mean to stop; supervisors are only started, and
\* only run, from a non-empty inventory.
ManagerDiscipline ==
    /\ cancelled # {} => mpc \in {"stopAll", "stop"} /\ cancelled \subseteq ToStop
    /\ mpc = "stop" => \A s \in Sources : desired[s] # Nil => inventory[s] # 0
    /\ inventory = Nowhere => running = NoneRunning

CaptureInv ==
    TypeOK /\ WindowHeldByOpener /\ SupervisorsOwned /\ EnumerateWhileFree
           /\ ManagerDiscipline

\* The dead-run count of a source survives the restarts of its supervisor: it
\* goes down only when that source's own run ends with a sign of life, or
\* with the process (main.go:537-540).
DeadRunsSurviveRescan ==
    [][\A s \in Sources :
          deadRuns'[s] < deadRuns[s] =>
             \/ Up(s)
             \/ \E t \in Sources :
                   Up(t) /\ deadRuns[t] = MaxDeadRuns - 1 /\ spc'[t] = "none"]_vars

\* Capture uses the gate as its contract allows.
GateContract == GateSpec

\* Whatever notifications the listener loses, the running set keeps catching
\* up with the configuration: the periodic tick reconciles too.
ConfigApplied == []<>(running = Desired(inventory, cfg))

\* A cancelled supervisor always ends, mid-backoff, queued, opening or
\* ingesting, so the manager's wait on done ends ("keeping shutdown prompt
\* even mid-backoff", main.go:100-101).
CancelHonoured == \A s \in Sources : s \in cancelled ~> s \notin cancelled

\* "readings are tagged with its stable source id" (main.go:356-357): a
\* pipeline that ingests for a source listens to that source's dongle.
RightDongle ==
    \A s \in Sources : spc[s] = "ingest" => using[s] \in {s, Nil}
=============================================================================
