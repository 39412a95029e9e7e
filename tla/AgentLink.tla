------------------------------ MODULE AgentLink ------------------------------
(***************************************************************************)
(* The channel between a remote capture agent (cmd/capture in agent mode)  *)
(* and the API (cmd/api/agent.go): dial, handshake, approval, hello,       *)
(* configuration pushes driven by LISTEN winnow_config, the agent's        *)
(* supervisors, its health tick, and the ends of sessions.                 *)
(*                                                                         *)
(* One agent.  The API may still hold sessions the agent has given up (a   *)
(* half-open socket), so server-side state is per session slot.  A dongle  *)
(* is a member of Sources, its scan settings one value; indices and the    *)
(* inside of a supervisor are Capture's subject.  Cryptography is left out:*)
(* a handshake succeeds exactly when the key is authorised.  Readings,     *)
(* heartbeats and pings follow the hello on the same socket and change     *)
(* nothing here; what they do to the database is not this module's.        *)
(***************************************************************************)
EXTENDS Naturals, Sequences, FiniteSets

CONSTANTS
    Sources,        \* the agent's dongles, as name/serial
    Settings,       \* scan settings of an enabled dongle
    Off,            \* disabled in the configuration
    Zero,           \* what config.Config{} resolves to: enabled, all empty
    None,           \* absent from a configuration; no supervisor; no session
    Sessions,       \* bound: sessions the API holds at a time
    DBErrors,       \* GetSettings and LoadConfig may fail
    MaxEdits,       \* bound: edits of the configuration
    MaxBreaks,      \* bound: cuts, crashes and restarts
    MaxPlugs,       \* bound: dongles plugged or unplugged
    MaxNotes,       \* bound: notifications buffered on a connection
    MaxDown         \* bound: messages in flight to the agent

VARIABLES
    cfg,            \* the devices' settings in the database
    owed,           \* a handler has written settings and not notified yet
    authorised,     \* the agent's key is in agent_authorized_keys
    pending,        \* the agent's key is in pendingAgents
    devRows,        \* the agent's rows of sdr_devices
    link,           \* each socket: free, open, cut (half-open) or closed
    up, down,       \* the hello on its way to the API, messages to the agent
    hpc,            \* where handleAgentWS is in each session
    sources,        \* the source set its hello announced
    ppc,            \* where pushConfigOnChange is in each session
    notes,          \* notifications buffered on its connection
    missed,         \* history: a change since the last push went unheard
    plugged,        \* the dongles on the agent's bus
    apc,            \* where runAgent and agentSession are
    cur,            \* the session the agent is in
    inv,            \* byIndex
    lastCfg,        \* the last configuration received
    running,        \* the supervisors, by the settings they were started with
    isUp,           \* runningDev.up
    downStreak,     \* runningDev.downStreak
    cooled,         \* more than 5 minutes since lastRescan
    edits, breaks, plugs

dbVars == <<cfg, owed, authorised, pending, devRows>>
wireVars == <<link, up, down>>
srvVars == <<hpc, sources, ppc, notes, missed>>
supVars == <<running, isUp, downStreak>>
agentVars == <<apc, cur, inv, lastCfg, cooled>>
boundVars == <<edits, breaks, plugs>>
vars == <<dbVars, wireVars, srvVars, plugged, supVars, agentVars, boundVars>>

ASSUME AgentLinkAssumption ==
    /\ None \notin Settings \cup {Off, Zero} \cup Sessions
    /\ {Off, Zero} \cap Settings = {} /\ Off # Zero
    /\ DBErrors \in BOOLEAN
    /\ {MaxEdits, MaxBreaks, MaxPlugs, MaxNotes, MaxDown} \subseteq Nat

\* The per-source configuration a "config" message carries.
Configs == [Sources -> Settings \cup {Off, Zero, None}]
NoConfig == [s \in Sources |-> None]

DownMsgs == [type : {"resp", "config"}, config : Configs]
UpMsgs == [type : {"hello"}, devs : SUBSET Sources]

\* handleAgentWS: none, handshake, reject, hello, push, loop.
HandlerPC == {"none", "handshake", "reject", "hello", "push", "loop"}
\* pushConfigOnChange: none, acquire, wait, send.
PusherPC == {"none", "acquire", "wait", "send"}
\* agentSession: sleep (between sessions), handshake, enumerate, hello, loop,
\* reconcile, rescan (stopping all), reenumerate, closing (the deferred reap).
AgentPC == {"sleep", "handshake", "enumerate", "hello", "loop", "reconcile",
            "rescan", "reenumerate", "closing"}

FlagsType ==
    /\ owed \in BOOLEAN /\ authorised \in BOOLEAN /\ pending \in BOOLEAN
    /\ missed \in [Sessions -> BOOLEAN]
    /\ isUp \in [Sources -> BOOLEAN]
    /\ cooled \in BOOLEAN

WireType ==
    /\ link \in [Sessions -> {"free", "open", "cut", "closed"}]
    /\ up \in [Sessions -> Seq(UpMsgs)]
    /\ down \in [Sessions -> Seq(DownMsgs)]

ServerType ==
    /\ cfg \in [Sources -> Settings \cup {Off}]
    /\ devRows \subseteq Sources
    /\ hpc \in [Sessions -> HandlerPC]
    /\ sources \in [Sessions -> SUBSET Sources]
    /\ ppc \in [Sessions -> PusherPC]
    /\ notes \in [Sessions -> 0..MaxNotes]

AgentType ==
    /\ plugged \subseteq Sources
    /\ apc \in AgentPC
    /\ cur \in Sessions \cup {None}
    /\ inv \subseteq Sources
    /\ lastCfg \in Configs
    /\ running \in [Sources -> Settings \cup {Zero, None}]
    /\ downStreak \in [Sources -> 0..2]

BoundsType ==
    edits \in 0..MaxEdits /\ breaks \in 0..MaxBreaks /\ plugs \in 0..MaxPlugs

TypeOK == FlagsType /\ WireType /\ ServerType /\ AgentType /\ BoundsType

Init ==
    /\ cfg \in [Sources -> Settings \cup {Off}]
    /\ owed = FALSE /\ authorised = FALSE /\ pending = FALSE
    /\ devRows = {}
    /\ link = [k \in Sessions |-> "free"]
    /\ up = [k \in Sessions |-> <<>>]
    /\ down = [k \in Sessions |-> <<>>]
    /\ hpc = [k \in Sessions |-> "none"]
    /\ sources = [k \in Sessions |-> {}]
    /\ ppc = [k \in Sessions |-> "none"]
    /\ notes = [k \in Sessions |-> 0]
    /\ missed = [k \in Sessions |-> FALSE]
    /\ plugged \in SUBSET Sources
    /\ apc = "sleep" /\ cur = None
    /\ inv = {} /\ lastCfg = NoConfig
    /\ running = NoConfig
    /\ isUp = [s \in Sources |-> FALSE]
    /\ downStreak = [s \in Sources |-> 0]
    /\ cooled = TRUE
    /\ edits = 0 /\ breaks = 0 /\ plugs = 0

-----------------------------------------------------------------------------
(* The wire.  A message written to a half-open socket is lost; the socket   *)
(* of a session that one side has closed still delivers what was written.   *)

\* The API's half of the handshake; the agent's dongles.
Resp == [type |-> "resp", config |-> NoConfig]
Hello == [type |-> "hello", devs |-> inv]

SendDown(k, m) ==
    down' = IF link[k] = "open" THEN [down EXCEPT ![k] = Append(@, m)] ELSE down

SendUp(k, m) ==
    up' = IF link[k] = "open" THEN [up EXCEPT ![k] = Append(@, m)] ELSE up

Shut(k) == link' = [link EXCEPT ![k] = "closed"]

\* Mutant: a half-open socket is never noticed (no idle bound, no keepalive).
BrokenClosedOnly(k) == link[k] = "closed"

\* The session k is over for its user: the peer has gone or the socket is dead.
Broken(k) == link[k] \in {"cut", "closed"}

-----------------------------------------------------------------------------
(* The configuration, its notifications and the approval.                   *)

\* A settings handler writes the row ...
EditConfig(s, v) ==
    /\ edits < MaxEdits /\ ~owed
    /\ v # cfg[s]
    /\ cfg' = [cfg EXCEPT ![s] = v]
    /\ owed' = TRUE
    /\ edits' = edits + 1
    /\ UNCHANGED <<authorised, pending, devRows, wireVars, srvVars, plugged,
                   supVars, agentVars, breaks, plugs>>

\* The pusher of k has a connection that LISTENs.
Listening(k) == ppc[k] \in {"wait", "send"}

\* ... and then calls NotifyConfig: who listens is told.
NotifyConfig ==
    /\ owed
    /\ \A k \in Sessions : Listening(k) => notes[k] < MaxNotes
    /\ owed' = FALSE
    /\ notes' = [k \in Sessions |-> IF Listening(k) THEN notes[k] + 1 ELSE notes[k]]
    /\ missed' = [k \in Sessions |->
                    missed[k] \/ (hpc[k] = "loop" /\ ~Listening(k))]
    /\ UNCHANGED <<cfg, authorised, pending, devRows, wireVars, hpc,
                   sources, ppc, plugged, supVars, agentVars, boundVars>>

Authorize ==
    /\ ~authorised
    /\ authorised' = TRUE /\ pending' = FALSE
    /\ UNCHANGED <<cfg, owed, devRows, wireVars, srvVars, plugged,
                   supVars, agentVars, boundVars>>

\* handleRevokeAgent leaves the sessions that are open alone.
Revoke ==
    /\ authorised
    /\ authorised' = FALSE
    /\ UNCHANGED <<cfg, owed, pending, devRows, wireVars, srvVars,
                   plugged, supVars, agentVars, boundVars>>

-----------------------------------------------------------------------------
(* handleAgentWS.                                                           *)

\* ServerHandshake asks for the authorised keys; a failed query means none.
ServerHandshake(k) ==
    /\ hpc[k] = "handshake" /\ link[k] # "cut"
    /\ \E ok \in {authorised} \cup (IF DBErrors THEN {FALSE} ELSE {}) :
         IF ok
         THEN /\ pending' = FALSE
              /\ SendDown(k, Resp)
              /\ hpc' = [hpc EXCEPT ![k] = "hello"]
         ELSE /\ hpc' = [hpc EXCEPT ![k] = "reject"]
              /\ UNCHANGED <<pending, down>>
    /\ UNCHANGED <<cfg, owed, authorised, devRows, link, up, sources,
                   ppc, notes, missed, plugged, supVars, agentVars, boundVars>>

\* onUnauthorized, and the rejection that closes the socket.
Reject(k) ==
    /\ hpc[k] = "reject"
    /\ pending' = TRUE
    /\ hpc' = [hpc EXCEPT ![k] = "none"]
    /\ Shut(k)
    /\ UNCHANGED <<cfg, owed, authorised, devRows, up, down, sources,
                   ppc, notes, missed, plugged, supVars, agentVars, boundVars>>

\* The hello's dongles are upserted, errors ignored, and become the source set.
ServerHello(k) ==
    /\ hpc[k] = "hello" /\ link[k] # "cut" /\ up[k] # <<>>
    /\ LET devs == Head(up[k]).devs IN
         /\ \E lost \in (IF DBErrors THEN SUBSET devs ELSE {{}}) :
              devRows' = devRows \cup (devs \ lost)
         /\ sources' = [sources EXCEPT ![k] = devs]
    /\ up' = [up EXCEPT ![k] = Tail(@)]
    /\ hpc' = [hpc EXCEPT ![k] = "push"]
    /\ UNCHANGED <<cfg, owed, authorised, pending, link, down, ppc,
                   notes, missed, plugged, supVars, agentVars, boundVars>>

\* agentConfig: LoadConfig's error is dropped, and the zero Config resolves to
\* every dongle enabled with empty parameters.
agentConfig(k, loaded) ==
    [s \in Sources |-> IF s \notin sources[k] THEN None
                       ELSE IF loaded THEN cfg[s] ELSE Zero]

\* Whether LoadConfig succeeds.
Loads == {TRUE} \cup (IF DBErrors THEN {FALSE} ELSE {})

\* The first push, after which the pusher is spawned.
PushInitial(k) ==
    /\ hpc[k] = "push"
    /\ \E loaded \in Loads :
         /\ SendDown(k, [type |-> "config", config |-> agentConfig(k, loaded)])
         /\ missed' = [missed EXCEPT ![k] = ~loaded]
    /\ hpc' = [hpc EXCEPT ![k] = "loop"]
    /\ ppc' = [ppc EXCEPT ![k] = "acquire"]
    /\ UNCHANGED <<dbVars, link, up, sources, notes, plugged, supVars, agentVars,
                   boundVars>>

\* A read fails (the peer closed, or agentReadIdle passed): cancel and close.
\* What the peer wrote and nobody will read is forgotten.
HandlerEnd(k) ==
    /\ hpc[k] \in {"handshake", "hello", "loop"} /\ Broken(k)
    /\ hpc' = [hpc EXCEPT ![k] = "none"]
    /\ Shut(k)
    /\ up' = [up EXCEPT ![k] = <<>>]
    /\ sources' = [sources EXCEPT ![k] = {}]
    /\ UNCHANGED <<dbVars, down, ppc, notes, missed, plugged,
                   supVars, agentVars, boundVars>>

\* A live agent is silent for agentReadIdle: its enumeration waits in the USB
\* gate, whose backoff is as long, and neither pings nor hello are sent.
IdleClose(k) ==
    /\ hpc[k] \in {"hello", "loop"} /\ cur = k
    /\ apc \in {"enumerate", "reenumerate"} /\ breaks < MaxBreaks
    /\ hpc' = [hpc EXCEPT ![k] = "none"]
    /\ Shut(k)
    /\ up' = [up EXCEPT ![k] = <<>>]
    /\ sources' = [sources EXCEPT ![k] = {}]
    /\ breaks' = breaks + 1
    /\ UNCHANGED <<dbVars, down, ppc, notes, missed, plugged, supVars, agentVars,
                   edits, plugs>>

-----------------------------------------------------------------------------
(* pushConfigOnChange.                                                      *)

\* A pooled connection is acquired and LISTENs.  An earlier pusher may have
\* released it still listening, so it can hold a notification already.
PusherListen(k) ==
    /\ ppc[k] = "acquire" /\ hpc[k] = "loop"
    /\ ppc' = [ppc EXCEPT ![k] = "wait"]
    /\ \E n \in {0, 1} \cap (0..MaxNotes) : notes' = [notes EXCEPT ![k] = n]
    /\ UNCHANGED <<dbVars, wireVars, hpc, sources, missed, plugged, supVars,
                   agentVars, boundVars>>

\* Mutant: a notification is coalesced with a push the agent has not read yet.
PusherWakeCoalesced(k) ==
    /\ ppc[k] = "wait" /\ notes[k] > 0
    /\ notes' = [notes EXCEPT ![k] = @ - 1]
    /\ ppc' = [ppc EXCEPT ![k] = IF down[k] = <<>> THEN "send" ELSE "wait"]
    /\ UNCHANGED <<dbVars, wireVars, hpc, sources, missed, plugged, supVars,
                   agentVars, boundVars>>

PusherWake(k) ==
    /\ ppc[k] = "wait" /\ notes[k] > 0
    /\ notes' = [notes EXCEPT ![k] = @ - 1]
    /\ ppc' = [ppc EXCEPT ![k] = "send"]
    /\ UNCHANGED <<dbVars, wireVars, hpc, sources, missed, plugged, supVars,
                   agentVars, boundVars>>

\* The configuration is read again and sent; a write that fails ends the pusher
\* and, since it is the socket that failed, the session.
PusherSend(k) ==
    /\ ppc[k] = "send" /\ hpc[k] = "loop" /\ Len(down[k]) < MaxDown
    /\ \/ /\ \E loaded \in Loads :
               /\ SendDown(k, [type |-> "config",
                               config |-> agentConfig(k, loaded)])
               /\ missed' = [missed EXCEPT ![k] = ~loaded]
          /\ ppc' = [ppc EXCEPT ![k] = "wait"]
          /\ UNCHANGED <<link, notes>>
       \/ /\ Broken(k)
          /\ Shut(k)
          /\ ppc' = [ppc EXCEPT ![k] = "none"]
          /\ notes' = [notes EXCEPT ![k] = 0]
          /\ UNCHANGED <<down, missed>>
    /\ UNCHANGED <<dbVars, up, hpc, sources, plugged, supVars, agentVars,
                   boundVars>>

\* The database connection fails under WaitForNotification.
PusherLost(k) ==
    /\ ppc[k] = "wait" /\ breaks < MaxBreaks
    /\ ppc' = [ppc EXCEPT ![k] = "acquire"]
    /\ missed' = [missed EXCEPT ![k] = @ \/ notes[k] > 0]
    /\ notes' = [notes EXCEPT ![k] = 0]
    /\ breaks' = breaks + 1
    /\ UNCHANGED <<dbVars, wireVars, hpc, sources, plugged, supVars,
                   agentVars, edits, plugs>>

\* The handler has returned and its context is cancelled.
PusherEnd(k) ==
    /\ ppc[k] # "none" /\ hpc[k] = "none"
    /\ ppc' = [ppc EXCEPT ![k] = "none"]
    /\ notes' = [notes EXCEPT ![k] = 0]
    /\ missed' = [missed EXCEPT ![k] = FALSE]
    /\ UNCHANGED <<dbVars, wireVars, hpc, sources, plugged, supVars,
                   agentVars, boundVars>>

-----------------------------------------------------------------------------
(* The agent.                                                               *)

\* A free slot: nothing of an earlier session is left on either side.
Free(k) == hpc[k] = "none" /\ ppc[k] = "none" /\ cur # k

AgentDial(k) ==
    /\ apc = "sleep" /\ Free(k)
    /\ apc' = "handshake" /\ cur' = k
    /\ link' = [link EXCEPT ![k] = "open"]
    /\ up' = [up EXCEPT ![k] = <<>>]
    /\ down' = [down EXCEPT ![k] = <<>>]
    /\ hpc' = [hpc EXCEPT ![k] = "handshake"]
    /\ sources' = [sources EXCEPT ![k] = {}]
    /\ missed' = [missed EXCEPT ![k] = FALSE]
    /\ UNCHANGED <<dbVars, ppc, notes, plugged, supVars, inv, lastCfg, cooled,
                   boundVars>>

\* The next message the agent can read.
Readable == link[cur] # "cut" /\ down[cur] # <<>>

AgentHandshake ==
    /\ apc = "handshake" /\ Readable /\ Head(down[cur]).type = "resp"
    /\ down' = [down EXCEPT ![cur] = Tail(@)]
    /\ apc' = "enumerate"
    /\ UNCHANGED <<dbVars, link, up, srvVars, plugged, supVars, cur, inv,
                   lastCfg, cooled, boundVars>>

\* What enumerateRTL can return: the dongles there are, or none when it fails.
Enumerated == {plugged, {}}

AgentEnumerate ==
    /\ apc = "enumerate"
    /\ inv' \in Enumerated
    /\ apc' = "hello"
    /\ UNCHANGED <<dbVars, wireVars, srvVars, plugged, supVars, cur, lastCfg,
                   cooled, boundVars>>

AgentHello ==
    /\ apc = "hello"
    /\ SendUp(cur, Hello)
    /\ apc' = "loop"
    /\ UNCHANGED <<dbVars, link, down, srvVars, plugged, supVars, cur, inv,
                   lastCfg, cooled, boundVars>>

AgentConfig ==
    /\ apc = "loop" /\ Readable
    /\ lastCfg' = Head(down[cur]).config
    /\ down' = [down EXCEPT ![cur] = Tail(@)]
    /\ apc' = "reconcile"
    /\ UNCHANGED <<dbVars, link, up, srvVars, plugged, supVars, cur, inv, cooled,
                   boundVars>>

\* Mutant: a running dongle is never retuned.
DesiredUntuned == [s \in Sources |->
    IF s \in inv /\ lastCfg[s] # Off
    THEN IF running[s] # None THEN running[s] ELSE lastCfg[s]
    ELSE None]

\* reconcileAgent's desired map.
Desired == [s \in Sources |-> IF s \in inv /\ lastCfg[s] # Off
                              THEN lastCfg[s] ELSE None]

\* Cancel a supervisor, wait for it and forget it.
Stop(s) ==
    /\ running[s] # None
    /\ running' = [running EXCEPT ![s] = None]
    /\ isUp' = [isUp EXCEPT ![s] = FALSE]
    /\ downStreak' = [downStreak EXCEPT ![s] = 0]

ReconcileStop(s) ==
    /\ apc = "reconcile" /\ running[s] # Desired[s]
    /\ Stop(s)
    /\ UNCHANGED <<dbVars, wireVars, srvVars, plugged, agentVars, boundVars>>

ReconcileStart ==
    /\ apc = "reconcile"
    /\ \A s \in Sources : running[s] \in {None, Desired[s]}
    /\ running' = Desired
    /\ apc' = "loop"
    /\ UNCHANGED <<dbVars, wireVars, srvVars, plugged, isUp, downStreak, cur,
                   inv, lastCfg, cooled, boundVars>>

\* dongleRescanNeeded: streaks of health ticks seen down, and its verdict.
Streaks == [s \in Sources |->
    IF running[s] = None \/ isUp[s] THEN 0
    ELSE IF downStreak[s] < 2 THEN downStreak[s] + 1 ELSE 2]

AgentTick ==
    /\ apc = "loop"
    /\ downStreak' = Streaks
    /\ IF cooled /\ \E s \in Sources : Streaks[s] = 2
       THEN apc' = "rescan" /\ cooled' = FALSE
       ELSE UNCHANGED <<apc, cooled>>
    /\ UNCHANGED <<dbVars, wireVars, srvVars, plugged, running, isUp, cur, inv,
                   lastCfg, boundVars>>

RescanStop(s) ==
    /\ apc = "rescan"
    /\ Stop(s)
    /\ UNCHANGED <<dbVars, wireVars, srvVars, plugged, agentVars, boundVars>>

RescanStopped ==
    /\ apc = "rescan" /\ running = NoConfig
    /\ apc' = "reenumerate"
    /\ UNCHANGED <<dbVars, wireVars, srvVars, plugged, supVars, cur, inv,
                   lastCfg, cooled, boundVars>>

\* A changed set of dongles ends the session so that a new hello announces it.
Reenumerate ==
    /\ apc = "reenumerate"
    /\ \E found \in Enumerated :
         IF found = inv
         THEN apc' = "reconcile" /\ inv' = found
         ELSE apc' = "closing" /\ UNCHANGED inv
    /\ UNCHANGED <<dbVars, wireVars, srvVars, plugged, supVars, cur, lastCfg,
                   cooled, boundVars>>

\* A read or a write of the session fails.
SessionFails ==
    /\ apc \in {"handshake", "hello", "loop"} /\ Broken(cur)
    /\ apc' = "closing"
    /\ UNCHANGED <<dbVars, wireVars, srvVars, plugged, supVars, cur, inv,
                   lastCfg, cooled, boundVars>>

\* The deferred reap, then Close; runAgent sleeps and dials again.
ReapStop(s) ==
    /\ apc = "closing"
    /\ Stop(s)
    /\ UNCHANGED <<dbVars, wireVars, srvVars, plugged, agentVars, boundVars>>

EndAgent ==
    /\ apc' = "sleep" /\ cur' = None
    /\ inv' = {} /\ lastCfg' = NoConfig /\ cooled' = TRUE
    /\ Shut(cur)
    /\ down' = [down EXCEPT ![cur] = <<>>]

\* Mutant: the session returns without reaping its supervisors.
CloseUnreaped ==
    /\ apc = "closing"
    /\ EndAgent
    /\ UNCHANGED <<dbVars, up, srvVars, plugged, supVars, boundVars>>

Close ==
    /\ apc = "closing" /\ running = NoConfig
    /\ EndAgent
    /\ UNCHANGED <<dbVars, up, srvVars, plugged, supVars, boundVars>>

-----------------------------------------------------------------------------
(* Supervisors as the agent sees them, and the environment.                 *)

SupUp(s) ==
    /\ running[s] # None /\ s \in plugged /\ ~isUp[s]
    /\ isUp' = [isUp EXCEPT ![s] = TRUE]
    /\ UNCHANGED <<dbVars, wireVars, srvVars, plugged, running, downStreak,
                   agentVars, boundVars>>

SupDown(s) ==
    /\ isUp[s]
    /\ isUp' = [isUp EXCEPT ![s] = FALSE]
    /\ UNCHANGED <<dbVars, wireVars, srvVars, plugged, running, downStreak,
                   agentVars, boundVars>>

\* The socket goes half-open under both sides.
Cut(k) ==
    /\ link[k] = "open" /\ breaks < MaxBreaks
    /\ link' = [link EXCEPT ![k] = "cut"]
    /\ breaks' = breaks + 1
    /\ UNCHANGED <<dbVars, up, down, srvVars, plugged, supVars, agentVars,
                   edits, plugs>>

\* exitFn, or a crash: the agent's process starts over.
AgentExit ==
    /\ cur # None /\ breaks < MaxBreaks
    /\ EndAgent
    /\ running' = NoConfig
    /\ isUp' = [s \in Sources |-> FALSE]
    /\ downStreak' = [s \in Sources |-> 0]
    /\ breaks' = breaks + 1
    /\ UNCHANGED <<dbVars, up, srvVars, plugged, edits, plugs>>

\* The API's process starts over: sessions, pending list and a notification
\* that was about to be sent are gone.
ApiRestart ==
    /\ breaks < MaxBreaks
    /\ owed' = FALSE /\ pending' = FALSE
    /\ link' = [k \in Sessions |-> IF link[k] = "free" THEN "free" ELSE "closed"]
    /\ hpc' = [k \in Sessions |-> "none"]
    /\ ppc' = [k \in Sessions |-> "none"]
    /\ notes' = [k \in Sessions |-> 0]
    /\ breaks' = breaks + 1
    /\ up' = [k \in Sessions |-> <<>>]
    /\ sources' = [k \in Sessions |-> {}]
    /\ missed' = [k \in Sessions |-> FALSE]
    /\ UNCHANGED <<cfg, authorised, devRows, down, plugged, supVars, agentVars,
                   edits, plugs>>

Plug(s) ==
    /\ plugs < MaxPlugs
    /\ plugged' = IF s \in plugged THEN plugged \ {s} ELSE plugged \cup {s}
    /\ isUp' = [isUp EXCEPT ![s] = FALSE]
    /\ plugs' = plugs + 1
    /\ UNCHANGED <<dbVars, wireVars, srvVars, running, downStreak, agentVars,
                   edits, breaks>>

CoolDown ==
    /\ ~cooled
    /\ cooled' = TRUE
    /\ UNCHANGED <<dbVars, wireVars, srvVars, plugged, supVars, apc, cur, inv,
                   lastCfg, boundVars>>

-----------------------------------------------------------------------------

ServerStep(k) ==
    \/ ServerHandshake(k) \/ Reject(k) \/ ServerHello(k) \/ PushInitial(k)
    \/ HandlerEnd(k)

PusherStep(k) ==
    PusherListen(k) \/ PusherWake(k) \/ PusherSend(k) \/ PusherEnd(k)

AgentStep ==
    \/ \E k \in Sessions : AgentDial(k)
    \/ AgentHandshake \/ AgentEnumerate \/ AgentHello \/ AgentConfig
    \/ \E s \in Sources : ReconcileStop(s) \/ RescanStop(s) \/ ReapStop(s)
    \/ ReconcileStart \/ RescanStopped \/ Reenumerate
    \/ SessionFails \/ Close

UserStep ==
    \/ \E s \in Sources, v \in Settings \cup {Off} : EditConfig(s, v)
    \/ NotifyConfig \/ Authorize \/ Revoke

EnvStep ==
    \/ \E s \in Sources : SupUp(s) \/ SupDown(s) \/ Plug(s)
    \/ \E k \in Sessions : Cut(k) \/ PusherLost(k) \/ IdleClose(k)
    \/ AgentExit \/ ApiRestart \/ CoolDown

Next ==
    \/ \E k \in Sessions : ServerStep(k) \/ PusherStep(k)
    \/ AgentStep \/ AgentTick
    \/ UserStep \/ EnvStep

Spec == Init /\ [][Next]_vars

\* Goroutines that can step do; a select with several ready cases picks any of
\* them, so a message and a dead socket are not passed over for ever;
\* notifications are sent; time passes.
Fairness ==
    /\ \A k \in Sessions : WF_vars(ServerStep(k)) /\ WF_vars(PusherStep(k))
    /\ WF_vars(AgentStep) /\ WF_vars(AgentTick)
    /\ SF_vars(AgentConfig) /\ SF_vars(SessionFails)
    /\ WF_vars(NotifyConfig) /\ WF_vars(CoolDown)

FairSpec == Spec /\ Fairness

-----------------------------------------------------------------------------
(* Properties.                                                              *)

\* Supervisors never outlive their session and never run while the agent
\* enumerates: every way out of agentSession reaps them (the deferred loop)
\* and the rescan stops them before rtl_test opens the bus.
SupervisorsReaped ==
    apc \in {"sleep", "handshake", "enumerate", "hello", "reenumerate"}
        => running = NoConfig

\* Nothing is on its way to the pusher of k.
Quiet(k) == ~owed /\ notes[k] = 0 /\ ppc[k] # "send"

\* The last configuration written to session k.
LastPushed(k) ==
    IF down[k] = <<>> THEN lastCfg ELSE down[k][Len(down[k])].config

\* A live session whose pusher has heard of every change.
UpToDate(k) == hpc[k] = "loop" /\ link[k] = "open" /\ Quiet(k) /\ ~missed[k]

\* Pushes cover changes: on a live session, once nothing is on its way, the
\* last configuration pushed is the one in the database, unless the pusher was
\* not listening (or could not load it) since.
PushesCoverChanges ==
    \A k \in Sessions : UpToDate(k) => LastPushed(k) = agentConfig(k, TRUE)

\* What the agent should run according to the database.
Wanted == [s \in Sources |-> IF s \in inv /\ cfg[s] # Off THEN cfg[s] ELSE None]

\* The agent has reconciled with everything sent to it on a live session.
Settled ==
    /\ apc = "loop" /\ hpc[cur] = "loop" /\ link[cur] = "open"
    /\ down[cur] = <<>> /\ Quiet(cur)

\* End to end: a settled agent runs exactly the enabled dongles it announced,
\* with the current settings, unless a change went unheard.
AgentFollowsConfig == Settled /\ ~missed[cur] => running = Wanted

\* An approved agent keeps coming to a session in which it runs what the
\* configuration says, through cut links, crashes, restarts, changes of its
\* dongles and rescans, unless a change went unheard.
AgentCatchesUp ==
    authorised ~>
        \/ ~authorised
        \/ /\ apc = "loop" /\ hpc[cur] = "loop"
           /\ missed[cur] \/ running = Wanted

-----------------------------------------------------------------------------
(* The strengthening under which the invariants above are inductive.        *)

\* Where the agent is once it has said hello.
Announced == {"loop", "reconcile", "rescan", "reenumerate", "closing"}

\* The agent is in a session exactly when it is not asleep, only its own
\* session's socket is open, and a session starts from nothing.
SessionOwned ==
    /\ apc = "sleep" <=> cur = None
    /\ \A k \in Sessions : link[k] = "open" => cur = k
    /\ apc \in {"sleep", "handshake", "enumerate", "hello"} => lastCfg = NoConfig

\* The two ends of an open socket agree on how far the session has come.
EndsAgree ==
    \A k \in Sessions : link[k] = "open" =>
        /\ hpc[k] \in {"handshake", "reject"} =>
             apc = "handshake" /\ down[k] = <<>> /\ up[k] = <<>>
        /\ hpc[k] = "hello" =>
             /\ down[k] = IF apc = "handshake" THEN <<Resp>> ELSE <<>>
             /\ apc \in Announced => up[k] = <<Hello>>
             /\ apc \notin Announced => up[k] = <<>>
        /\ hpc[k] \in {"push", "loop"} => apc \in Announced /\ sources[k] = inv
        /\ hpc[k] = "push" => down[k] = <<>>

\* A pusher exists only in the loop; only one that listens has notifications.
PusherHeard ==
    \A k \in Sessions :
        /\ hpc[k] \in {"handshake", "reject", "hello", "push"} => ppc[k] = "none"
        /\ ppc[k] \in {"none", "acquire"} => notes[k] = 0

\* Between messages the agent runs what its last configuration says.
Reconciled == apc = "loop" => running = Desired

LinkInv ==
    /\ TypeOK /\ SessionOwned /\ EndsAgree /\ PusherHeard /\ Reconciled
    /\ SupervisorsReaped /\ PushesCoverChanges
=============================================================================
