------------------------------- MODULE Worker -------------------------------
(***************************************************************************)
(* The worker process (cmd/worker/main.go): listenLoop, which reloads the  *)
(* configuration on NOTIFY, the MQTT publisher and the publish set it      *)
(* refreshes, and haLoop, the Home Assistant subscription that follows the *)
(* configuration through the capacity-1 channel haRestart and keeps the    *)
(* thermostat's last action alive.                                         *)
(*                                                                         *)
(* Settings and meters are written by the API's handlers, which NOTIFY     *)
(* after their write; a notification reaches the worker only while its     *)
(* connection LISTENs.  Three hops carry a change (settings to w.cfg, the  *)
(* publish flags to publishSet, w.cfg to the subscription), and each is    *)
(* shown to be a Follower.                                                 *)
(***************************************************************************)
EXTENDS Naturals, Sequences

CONSTANTS
    Entities,       \* entity ids that may be monitored
    Brokers,        \* MQTT settings, <<host and user, port and password>>
    Meters,         \* endpoint ids
    Actions,        \* hvac_action values
    None,           \* nil, an empty setting, no hvac_action
    MaxEdits,       \* bound: writes by the API's handlers, and readings
    MaxBreaks,      \* bound: failures of any kind, crashes included
    MaxQueue        \* bound: notifications or events under way

ASSUME WorkerAssumption ==
    /\ None \notin Brokers \cup Actions
    /\ \A b \in Brokers : b = <<b[1], b[2]>>
    /\ MaxEdits \in Nat /\ MaxBreaks \in Nat /\ MaxQueue \in Nat

VARIABLES
    dbEnts, dbMqtt, dbPub,  \* monitored_entities, mqtt_*, meters.publish
    toNotify,       \* handlers between their write and their NOTIFY
    lpc,            \* listenLoop and the reloadConfig it calls
    inbox,          \* notifications its connection holds
    changed,        \* reloadConfig: host or user differ from the previous ones
    cEnts, cMqtt,   \* w.cfg
    pubSet,         \* w.publishSet
    client,         \* settings of the MQTT client, None before the first
    retained, sent, \* meters with a discovery topic, with a published state
    lostCfg, lostPub,   \* a change of settings, of publish flags, is unheard
    haRestart,      \* the channel holds a token
    hpc, sub,       \* haLoop, and the entities it read from w.cfg
    cache,          \* einfoCache: the entities with known kind and unit
    cancelled,      \* subCtx is done
    old,            \* the watcher of an ended subscription has not exited yet
    stolen,         \* it took a token meant for the subscription after it
    link,           \* the WebSocket works
    thermo,         \* the thermostat's hvac_action
    events,         \* its events under way to onState
    hvac,           \* hvacKA: the action asserted, None when not set
    raced,          \* the thermostat changed between the seed and the subscription,
                    \* or its event could not be stored
    edits, breaks

dbVars == <<dbEnts, dbMqtt, dbPub, toNotify, edits>>
cfgVars == <<lpc, inbox, changed, cEnts, cMqtt, pubSet, client, retained, sent>>
lostVars == <<lostCfg, lostPub>>
subVars == <<hpc, sub, cache, cancelled, old, stolen, link>>
hvacVars == <<thermo, events, hvac, raced>>
vars == <<dbVars, cfgVars, lostVars, haRestart, subVars, hvacVars, breaks>>

\* main calls reloadConfig once before it starts the goroutines.
Started == hpc # "down"
Listening == Started /\ lpc # "acquire"

TypeOK ==
    /\ dbEnts \subseteq Entities /\ dbMqtt \in Brokers \cup {None} /\ dbPub \subseteq Meters
    /\ toNotify \in 0..MaxEdits /\ edits \in 0..MaxEdits /\ breaks \in 0..MaxBreaks
    /\ lpc \in {"load", "connect", "refresh", "acquire", "wait"}
    /\ Len(inbox) <= MaxQueue
    /\ changed \in BOOLEAN
    /\ cEnts \subseteq Entities /\ cMqtt \in Brokers \cup {None}
    /\ pubSet \subseteq Meters /\ client \in Brokers \cup {None}
    /\ retained \subseteq Meters /\ sent \subseteq Meters
    /\ lostCfg \in BOOLEAN /\ lostPub \in BOOLEAN /\ haRestart \in BOOLEAN
    /\ hpc \in {"down", "top", "resolve", "seed", "dial", "live", "pause"}
    /\ sub \subseteq Entities /\ cache \subseteq Entities
    /\ cancelled \in BOOLEAN /\ old \in BOOLEAN /\ stolen \in BOOLEAN /\ link \in BOOLEAN
    /\ thermo \in Actions \cup {None} /\ events \in Seq(Actions \cup {None})
    /\ Len(events) <= MaxQueue
    /\ hvac \in Actions \cup {None} /\ raced \in BOOLEAN

Init ==
    /\ dbEnts \in SUBSET Entities /\ dbMqtt = None /\ dbPub = {}
    /\ toNotify = 0 /\ edits = 0 /\ breaks = 0
    /\ lpc = "load" /\ inbox = <<>> /\ changed = FALSE
    /\ cEnts = {} /\ cMqtt = None /\ pubSet = {}
    /\ client = None /\ retained = {} /\ sent = {}
    /\ lostCfg = FALSE /\ lostPub = FALSE /\ haRestart = FALSE
    /\ hpc = "down" /\ sub = {} /\ cache = {}
    /\ cancelled = FALSE /\ old = FALSE /\ stolen = FALSE /\ link = FALSE
    /\ thermo \in Actions \cup {None} /\ events = <<>>
    /\ hvac = None /\ raced = FALSE

Breaks == breaks < MaxBreaks /\ breaks' = breaks + 1

-----------------------------------------------------------------------------
(* The API's handlers.  A PUT of several settings writes key by key and    *)
(* answers 500 before its NOTIFY when one write fails: what was written    *)
(* stays.                                                                  *)

Write == edits < MaxEdits /\ edits' = edits + 1 /\ toNotify' = toNotify + 1

PutEntities(es) ==
    /\ Write /\ es # dbEnts /\ dbEnts' = es
    /\ UNCHANGED <<dbMqtt, dbPub, cfgVars, lostVars, haRestart, subVars, hvacVars, breaks>>

PutMqtt(b) ==
    /\ Write /\ b # dbMqtt /\ dbMqtt' = b
    /\ UNCHANGED <<dbEnts, dbPub, cfgVars, lostVars, haRestart, subVars, hvacVars, breaks>>

\* handleMeterPatch sets or clears the flag, handleDeleteMeter drops the row.
PatchMeter(m) ==
    /\ Write
    /\ dbPub' = IF m \in dbPub THEN dbPub \ {m} ELSE dbPub \cup {m}
    /\ UNCHANGED <<dbEnts, dbMqtt, cfgVars, lostVars, haRestart, subVars, hvacVars, breaks>>

Deliver(n) == Listening /\ Len(inbox) < MaxQueue /\ inbox' = Append(inbox, n)

NotifyConfig ==
    /\ toNotify > 0 /\ toNotify' = toNotify - 1
    /\ \/ Deliver(<<"config">>) /\ UNCHANGED lostVars
       \/ ~Listening /\ lostCfg' = TRUE /\ lostPub' = TRUE /\ UNCHANGED inbox
    /\ UNCHANGED <<dbEnts, dbMqtt, dbPub, edits, lpc, changed, cEnts, cMqtt, pubSet, client, retained, sent,
                   haRestart, subVars, hvacVars, breaks>>

PutFails ==
    /\ Breaks
    /\ toNotify > 0 /\ toNotify' = toNotify - 1
    /\ lostCfg' = TRUE /\ lostPub' = TRUE
    /\ UNCHANGED <<dbEnts, dbMqtt, dbPub, edits, cfgVars, haRestart, subVars, hvacVars>>

\* What InsertReading notifies: the endpoint id, a separator and the source.
Payload(m) == <<m, "sep", "source">>

InsertReading(m) ==
    /\ edits < MaxEdits /\ edits' = edits + 1
    /\ Deliver(<<"reading", Payload(m)>>)
    /\ UNCHANGED <<dbEnts, dbMqtt, dbPub, toNotify, lpc, changed, cEnts, cMqtt, pubSet, client, retained, sent, lostVars,
                   haRestart, subVars, hvacVars, breaks>>

-----------------------------------------------------------------------------
(* listenLoop.                                                             *)

Acquire ==
    /\ Started /\ lpc = "acquire" /\ lpc' = "wait"
    /\ UNCHANGED <<dbVars, inbox, changed, cEnts, cMqtt, pubSet, client, retained, sent, lostVars,
                   haRestart, subVars, hvacVars, breaks>>

ConfigIn(q) == \E i \in 1..Len(q) : q[i] = <<"config">>

\* WaitForNotification fails; the loop sleeps and LISTENs on another connection.
ListenerLost ==
    /\ Breaks
    /\ lpc = "wait" /\ lpc' = "acquire" /\ inbox' = <<>>
    /\ lostCfg' = (lostCfg \/ ConfigIn(inbox)) /\ lostPub' = (lostPub \/ ConfigIn(inbox))
    /\ UNCHANGED <<dbVars, changed, cEnts, cMqtt, pubSet, client, retained, sent, haRestart, subVars, hvacVars>>

\* Mutant of OnConfig: one reload answers for everything that is queued.
OnConfigDrains ==
    /\ lpc = "wait" /\ inbox # <<>> /\ Head(inbox) = <<"config">>
    /\ inbox' = <<>> /\ lpc' = "refresh"
    /\ UNCHANGED <<dbVars, changed, cEnts, cMqtt, pubSet, client, retained, sent, lostVars,
                   haRestart, subVars, hvacVars, breaks>>

OnConfig ==
    /\ lpc = "wait" /\ inbox # <<>> /\ Head(inbox) = <<"config">>
    /\ inbox' = Tail(inbox) /\ lpc' = "load"
    /\ UNCHANGED <<dbVars, changed, cEnts, cMqtt, pubSet, client, retained, sent, lostVars,
                   haRestart, subVars, hvacVars, breaks>>

\* strconv.ParseInt accepts a bare number only.
ParseInt(p) == Len(p) = 1

\* paho's IsConnected holds while a client connects or reconnects by itself.
Connected == client # None

\* Discovery, unless it is known already, then the state.
PublishState(m) == retained' = retained \cup {m} /\ sent' = sent \cup {m}

OnReading(p) ==
    IF ParseInt(p) /\ p[1] \in pubSet /\ Connected THEN PublishState(p[1])
    ELSE UNCHANGED <<retained, sent>>

DispatchReading ==
    /\ lpc = "wait" /\ inbox # <<>> /\ Head(inbox)[1] = "reading"
    /\ inbox' = Tail(inbox)
    /\ OnReading(Head(inbox)[2])
    /\ UNCHANGED <<dbVars, lpc, changed, cEnts, cMqtt, pubSet, client, lostVars, haRestart, subVars, hvacVars, breaks>>

-----------------------------------------------------------------------------
(* reloadConfig.                                                           *)

\* Where the first, and every other, reload returns to.
AfterReload == lpc' = (IF Started THEN "wait" ELSE "acquire") /\ hpc' = (IF Started THEN hpc ELSE "top")

Load ==
    /\ lpc = "load" /\ lpc' = "connect"
    /\ cEnts' = dbEnts /\ cMqtt' = dbMqtt
    /\ changed' = (cMqtt = None \/ dbMqtt = None \/ cMqtt[1] # dbMqtt[1])
    /\ lostCfg' = FALSE
    /\ UNCHANGED <<dbVars, inbox, pubSet, client, retained, sent, lostPub, haRestart, subVars, hvacVars, breaks>>

\* LoadConfig fails: reloadConfig returns, and nothing tries again.
LoadFails ==
    /\ Breaks /\ lpc = "load" /\ AfterReload
    /\ lostCfg' = TRUE /\ lostPub' = TRUE
    /\ UNCHANGED <<dbVars, inbox, changed, cEnts, cMqtt, pubSet, client, retained, sent,
                   haRestart, sub, cache, cancelled, old, stolen, link, hvacVars>>

\* Mutant of Connect: a client that works is kept whatever the settings say.
ConnectOnce ==
    /\ lpc = "connect" /\ lpc' = "refresh"
    /\ client' = IF cMqtt # None /\ ~Connected THEN cMqtt ELSE client
    /\ UNCHANGED <<dbVars, inbox, changed, cEnts, cMqtt, pubSet, retained, sent, lostVars,
                   haRestart, subVars, hvacVars, breaks>>

\* Publisher.Connect.  One that fails leaves a client that keeps retrying with
\* these settings.
NewClient(b) == client' = b

Connect ==
    /\ lpc = "connect" /\ lpc' = "refresh"
    /\ IF cMqtt # None /\ (~Connected \/ changed) THEN NewClient(cMqtt) ELSE UNCHANGED client
    /\ UNCHANGED <<dbVars, inbox, changed, cEnts, cMqtt, pubSet, retained, sent, lostVars,
                   haRestart, subVars, hvacVars, breaks>>

\* Mutant of Refresh: meters are added to the set and never leave it.
RefreshAdds ==
    /\ lpc = "refresh" /\ AfterReload /\ haRestart' = TRUE
    /\ pubSet' = pubSet \cup dbPub /\ lostPub' = FALSE
    /\ UNCHANGED <<dbVars, inbox, changed, cEnts, cMqtt, client, retained, sent, lostCfg,
                   sub, cache, cancelled, old, stolen, link, hvacVars, breaks>>

\* Publisher.Remove of each of them; nothing without a client.
Removed(ms) == IF client = None THEN retained ELSE retained \ ms

\* refreshPublishSet, which removes the discovery of the meters that left, and
\* the nudge to haLoop: a send that finds the channel full is dropped.
Refresh ==
    /\ lpc = "refresh" /\ AfterReload /\ haRestart' = TRUE
    /\ pubSet' = dbPub /\ lostPub' = FALSE
    /\ retained' = Removed(pubSet \ dbPub)
    /\ UNCHANGED <<dbVars, inbox, changed, cEnts, cMqtt, client, sent, lostCfg,
                   sub, cache, cancelled, old, stolen, link, hvacVars, breaks>>

RefreshFails ==
    /\ Breaks /\ lpc = "refresh" /\ AfterReload /\ haRestart' = TRUE /\ lostPub' = TRUE
    /\ UNCHANGED <<dbVars, inbox, changed, cEnts, cMqtt, pubSet, client, retained, sent, lostCfg,
                   sub, cache, cancelled, old, stolen, link, hvacVars>>

-----------------------------------------------------------------------------
(* haLoop.                                                                 *)

loopElse == <<dbVars, cfgVars, lostVars, breaks>>

Top ==
    /\ hpc = "top" /\ sub' = cEnts /\ stolen' = FALSE
    /\ hpc' = IF cEnts = {} THEN "pause" ELSE "resolve"
    /\ UNCHANGED <<loopElse, haRestart, cache, cancelled, old, link, hvacVars>>

\* waitOrRestart: the time is up, or a token is there.
PauseOver ==
    /\ hpc = "pause" /\ hpc' = "top"
    /\ haRestart' \in {FALSE, haRestart}
    /\ UNCHANGED <<loopElse, sub, cache, cancelled, old, stolen, link, hvacVars>>

\* resolveEntityInfo: fresh wins, the cache fills the misses.
Resolved(fresh) == sub \cap (fresh \cup cache)

\* The new subscription's context, watcher and hvacKA.
Resolve(fresh) ==
    /\ hpc = "resolve"
    /\ IF fresh = sub THEN UNCHANGED breaks ELSE Breaks
    /\ IF Resolved(fresh) = {}
       THEN hpc' = "pause" /\ UNCHANGED <<cache, cancelled, hvac, raced>>
       ELSE /\ hpc' = "seed" /\ cache' = Resolved(fresh)
            /\ cancelled' = FALSE /\ hvac' = None /\ raced' = FALSE
    /\ UNCHANGED <<dbVars, cfgVars, lostVars, haRestart, sub, old, stolen, link, thermo, events>>

\* Mutant of WatcherFires: a token that comes while the subscription is being
\* set up is taken for the one that started it.
WatcherFiresLate ==
    /\ hpc \in {"seed", "dial", "live"} /\ ~cancelled
    /\ haRestart /\ haRestart' = FALSE /\ cancelled' = (hpc = "live")
    /\ UNCHANGED <<loopElse, hpc, sub, cache, old, stolen, link, hvacVars>>

\* The watcher of the subscription takes the token and cancels it.
WatcherFires ==
    /\ hpc \in {"seed", "dial", "live"} /\ ~cancelled
    /\ haRestart /\ haRestart' = FALSE /\ cancelled' = TRUE
    /\ UNCHANGED <<loopElse, hpc, sub, cache, old, stolen, link, hvacVars>>

\* Both cases of an ended subscription's watcher are ready; select picks one.
OldWatcher ==
    /\ old /\ old' = FALSE
    /\ \/ UNCHANGED <<haRestart, stolen>>
       \/ haRestart /\ haRestart' = FALSE /\ stolen' = TRUE
    /\ UNCHANGED <<loopElse, hpc, sub, cache, cancelled, link, hvacVars>>

\* ClimateEntities under subCtx, then InsertHVACSample; best effort.
Seed ==
    /\ hpc = "seed" /\ hpc' = "dial"
    /\ \/ ~cancelled /\ thermo # None /\ hvac' = thermo /\ UNCHANGED breaks
       \/ (cancelled \/ thermo = None) /\ UNCHANGED <<hvac, breaks>>
       \/ ~cancelled /\ thermo # None /\ Breaks /\ UNCHANGED hvac
    /\ UNCHANGED <<dbVars, cfgVars, lostVars, haRestart, sub, cache, cancelled, old, stolen, link,
                   thermo, events, raced>>

Dial ==
    /\ hpc = "dial" /\ ~cancelled
    /\ hpc' = "live" /\ link' = TRUE
    /\ UNCHANGED <<loopElse, haRestart, sub, cache, cancelled, old, stolen, hvacVars>>

DialFails ==
    /\ Breaks /\ hpc = "dial" /\ ~cancelled /\ hpc' = "pause"
    /\ cancelled' = TRUE /\ old' = TRUE /\ hvac' = None
    /\ UNCHANGED <<dbVars, cfgVars, lostVars, haRestart, sub, cache, stolen, link, thermo, events, raced>>

\* Mutant of StreamEnds: no heartbeat and no idle deadline.
StreamEndsOnCancel ==
    /\ hpc \in {"dial", "live"} /\ cancelled
    /\ hpc' = "pause" /\ cancelled' = TRUE /\ link' = FALSE
    /\ events' = <<>> /\ hvac' = None
    /\ UNCHANGED <<loopElse, haRestart, old, sub, cache, stolen, thermo, raced>>

\* StreamStates returns: the context is done, or the heartbeat or the idle
\* deadline has found the link dead.
StreamEnds ==
    /\ \/ hpc \in {"dial", "live"} /\ cancelled /\ UNCHANGED old
       \/ hpc = "live" /\ ~cancelled /\ ~link /\ old' = TRUE
    /\ hpc' = "pause" /\ cancelled' = TRUE /\ link' = FALSE
    /\ events' = <<>> /\ hvac' = None
    /\ UNCHANGED <<loopElse, haRestart, sub, cache, stolen, thermo, raced>>

LinkDies ==
    /\ Breaks /\ hpc = "live" /\ link /\ link' = FALSE /\ events' = <<>>
    /\ UNCHANGED <<dbVars, cfgVars, lostVars, haRestart, hpc, sub, cache, cancelled, old, stolen,
                   thermo, hvac, raced>>

-----------------------------------------------------------------------------
(* The thermostat.                                                         *)

ThermoChanges(a) ==
    /\ a # thermo /\ thermo' = a
    /\ hpc = "live" /\ link => Len(events) < MaxQueue
    /\ events' = IF hpc = "live" /\ link THEN Append(events, a) ELSE events
    /\ raced' = (raced \/ hpc = "dial")
    /\ UNCHANGED <<loopElse, haRestart, subVars, hvac>>

\* Mutant of hvacTransition: an empty action is not a change.
hvacTransitionKeeps(a) == IF a = None THEN hvac ELSE a

hvacTransition(a) == a

\* onState; when the row cannot be written, the old action stays asserted.
OnState ==
    /\ hpc = "live" /\ events # <<>> /\ events' = Tail(events)
    /\ \/ hvac' = hvacTransition(Head(events)) /\ raced' = FALSE /\ UNCHANGED breaks
       \/ /\ Head(events) # None
          /\ IF cancelled THEN UNCHANGED breaks ELSE Breaks
          /\ raced' = TRUE /\ UNCHANGED hvac
    /\ UNCHANGED <<dbVars, cfgVars, lostVars, haRestart, subVars, thermo>>

\* The process dies; its rows and the broker's retained topics stay.
Crash ==
    /\ Breaks
    /\ lpc' = "load" /\ inbox' = <<>> /\ changed' = FALSE /\ cEnts' = {} /\ cMqtt' = None
    /\ pubSet' = {} /\ client' = None /\ haRestart' = FALSE
    /\ hpc' = "down" /\ sub' = {} /\ cache' = {} /\ cancelled' = FALSE
    /\ old' = FALSE /\ stolen' = FALSE /\ link' = FALSE /\ events' = <<>> /\ hvac' = None /\ raced' = FALSE
    /\ UNCHANGED <<dbVars, retained, sent, lostVars, thermo>>

-----------------------------------------------------------------------------
Reload == Load \/ LoadFails \/ Connect \/ Refresh \/ RefreshFails
Dispatch == Acquire \/ ListenerLost \/ OnConfig \/ DispatchReading
Api ==
    \/ \E es \in SUBSET Entities : PutEntities(es)
    \/ \E b \in Brokers : PutMqtt(b)
    \/ \E m \in Meters : PatchMeter(m) \/ InsertReading(m)
    \/ NotifyConfig \/ PutFails
HaLoop ==
    \/ Top \/ PauseOver \/ (\E fresh \in SUBSET sub : Resolve(fresh))
    \/ WatcherFires \/ OldWatcher
    \/ Seed \/ Dial \/ DialFails \/ StreamEnds \/ LinkDies
Hvac == (\E a \in Actions \cup {None} : ThermoChanges(a)) \/ OnState

Next == Api \/ Dispatch \/ Reload \/ HaLoop \/ Hvac \/ Crash

(* Goroutines that can step do, and a handler goes on to its NOTIFY.       *)
Fairness ==
    /\ WF_vars(NotifyConfig) /\ WF_vars(Dispatch) /\ WF_vars(Reload)
    /\ WF_vars(Top) /\ WF_vars(PauseOver) /\ WF_vars(\E fresh \in SUBSET sub : Resolve(fresh))
    /\ WF_vars(WatcherFires) /\ WF_vars(Seed) /\ WF_vars(Dial) /\ WF_vars(StreamEnds)

Spec == Init /\ [][Next]_vars /\ Fairness

-----------------------------------------------------------------------------
(* The three hops as Followers.                                            *)

Settings == INSTANCE Follower WITH
    Nothing <- <<{}, None>>, want <- <<dbEnts, dbMqtt>>, have <- <<cEnts, cMqtt>>,
    owed <- toNotify > 0 \/ ConfigIn(inbox) \/ lpc = "load", unheard <- lostCfg

PublishFlags == INSTANCE Follower WITH
    Nothing <- {}, want <- dbPub, have <- pubSet,
    owed <- toNotify > 0 \/ ConfigIn(inbox) \/ lpc \in {"load", "connect", "refresh"}, unheard <- lostPub

Subscription == INSTANCE Follower WITH
    Nothing <- {}, want <- cEnts, have <- sub,
    owed <- \/ lpc \in {"connect", "refresh"} \/ haRestart \/ cancelled
            \/ hpc \in {"down", "top", "pause"},
    unheard <- stolen

(* reloadConfig: w.cfg only ever becomes what the settings are, and a      *)
(* change of them stays owed until it does, unless its NOTIFY was lost or  *)
(* a query failed.                                                         *)
SettingsFollowed == Settings!FSpec

(* refreshPublishSet: the same of the publish set and the meters' flags.   *)
PublishSetFollowed == PublishFlags!FSpec

(* haLoop: a change of the monitored entities cancels the subscription made*)
(* for the old ones, however often the configuration is nudged meanwhile,  *)
(* unless the watcher of an older subscription steals the token.           *)
SubscriptionFollowed == Subscription!FSpec

(* After a reload the MQTT client talks to the configured host, whatever   *)
(* hosts it had before.                                                    *)
MqttFollows == lpc = "wait" /\ cMqtt # None => client # None /\ client[1] = cMqtt[1]

(* The action the keepalive keeps asserting is the thermostat's own once   *)
(* its events are handled, and nothing when the thermostat is gone, unless *)
(* a change fell between the seed and the subscription or was not stored.  *)
HvacHonest ==
    hpc = "live" /\ link /\ ~cancelled /\ events = <<>> /\ ~raced => hvac \in {thermo, None}

(* Once edits and failures stop, the feed is live on the entities the      *)
(* settings name and stays so, unless a change was lost.                   *)
FeedRecovers ==
    <>[](\/ dbEnts = {} \/ lostCfg \/ stolen
         \/ hpc = "live" /\ link /\ ~cancelled /\ sub = dbEnts)

(* Command worker's header: "publish meter state to Home Assistant the     *)
(* instant a reading lands".                                               *)
ReadingPublished ==
    [][\A m \in pubSet : Connected /\ DispatchReading /\ Head(inbox)[2][1] = m => m \in sent']_vars
=============================================================================
