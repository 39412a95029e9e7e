---------------------------- MODULE WorkerProofs ----------------------------
(***************************************************************************)
(* Proofs about Worker, for every set of entities, MQTT settings, meters   *)
(* and actions and for every bound: each of the three hops implements      *)
(* Follower, what that means for the copies, and that the MQTT client and  *)
(* the keepalive follow what they are about.                               *)
(***************************************************************************)
EXTENDS Follower, Worker, TLAPS

\* What a NOTIFY brings.
Notifications == {<<"config">>} \cup {<<"reading", Payload(m)>> : m \in Meters}

\* TypeOK, the contents of the inbox, and the handlers still to NOTIFY among
\* the writes.
Flags ==
    /\ changed \in BOOLEAN /\ lostCfg \in BOOLEAN /\ lostPub \in BOOLEAN /\ haRestart \in BOOLEAN
    /\ cancelled \in BOOLEAN /\ old \in BOOLEAN /\ stolen \in BOOLEAN /\ link \in BOOLEAN
    /\ raced \in BOOLEAN
Counts ==
    /\ toNotify \in 0..MaxEdits /\ edits \in 0..MaxEdits /\ breaks \in 0..MaxBreaks
    /\ toNotify <= edits
    /\ inbox \in Seq(Notifications) /\ Len(inbox) <= MaxQueue
    /\ events \in Seq(Actions \cup {None}) /\ Len(events) <= MaxQueue
Values ==
    /\ dbEnts \subseteq Entities /\ dbMqtt \in Brokers \cup {None} /\ dbPub \subseteq Meters
    /\ lpc \in {"load", "connect", "refresh", "acquire", "wait"}
    /\ cEnts \subseteq Entities /\ cMqtt \in Brokers \cup {None}
    /\ pubSet \subseteq Meters /\ client \in Brokers \cup {None}
    /\ retained \subseteq Meters /\ sent \subseteq Meters
    /\ hpc \in {"down", "top", "resolve", "seed", "dial", "live", "pause"}
    /\ sub \subseteq Entities /\ cache \subseteq Entities
    /\ thermo \in Actions \cup {None} /\ hvac \in Actions \cup {None}
TypeInv == Flags /\ Counts /\ Values

-----------------------------------------------------------------------------
(* Type correctness.                                                       *)

\* The flags are Booleans after every step.
LEMMA FlagsStep == ASSUME TypeInv, Next PROVE Flags'
<1> USE DEF TypeInv, Flags, Breaks, dbVars, cfgVars, lostVars, subVars, hvacVars, loopElse
<1>1. ASSUME NEW es \in SUBSET Entities, PutEntities(es) PROVE Flags'
    BY <1>1, Zenon DEF PutEntities
<1>2. ASSUME NEW b \in Brokers, PutMqtt(b) PROVE Flags'
    BY <1>2, Zenon DEF PutMqtt
<1>3. ASSUME NEW m \in Meters, PatchMeter(m) PROVE Flags'
    BY <1>3, Zenon DEF PatchMeter
<1>4. ASSUME NEW m \in Meters, InsertReading(m) PROVE Flags'
    BY <1>4, Zenon DEF InsertReading
<1>5. CASE NotifyConfig BY <1>5, Zenon DEF NotifyConfig
<1>6. CASE PutFails BY <1>6, Zenon DEF PutFails
<1>7. CASE Acquire BY <1>7, Zenon DEF Acquire
<1>8. CASE ListenerLost BY <1>8, Zenon DEF ListenerLost
<1>9. CASE OnConfig BY <1>9, Zenon DEF OnConfig
<1>10. CASE DispatchReading BY <1>10, Zenon DEF DispatchReading
<1>11. CASE Load BY <1>11, Zenon DEF Load
<1>12. CASE LoadFails BY <1>12, Zenon DEF LoadFails
<1>13. CASE Connect BY <1>13, Zenon DEF Connect
<1>14. CASE Refresh BY <1>14, Zenon DEF Refresh
<1>15. CASE RefreshFails BY <1>15, Zenon DEF RefreshFails
<1>16. CASE Top BY <1>16, Zenon DEF Top
<1>17. CASE PauseOver BY <1>17, Zenon DEF PauseOver
<1>18. ASSUME NEW fresh \in SUBSET sub, Resolve(fresh) PROVE Flags'
    BY <1>18, Zenon DEF Resolve
<1>19. CASE WatcherFires BY <1>19, Zenon DEF WatcherFires
<1>20. CASE OldWatcher BY <1>20, Zenon DEF OldWatcher
<1>21. CASE Seed BY <1>21, Zenon DEF Seed
<1>22. CASE Dial BY <1>22, Zenon DEF Dial
<1>23. CASE DialFails BY <1>23, Zenon DEF DialFails
<1>24. CASE StreamEnds BY <1>24, Zenon DEF StreamEnds
<1>25. CASE LinkDies BY <1>25, Zenon DEF LinkDies
<1>26. ASSUME NEW a \in Actions \cup {None}, ThermoChanges(a) PROVE Flags'
    BY <1>26, Zenon DEF ThermoChanges
<1>27. CASE OnState BY <1>27, Zenon DEF OnState
<1>28. CASE Crash BY <1>28, Zenon DEF Crash
<1> QED BY <1>1, <1>2, <1>3, <1>4, <1>5, <1>6, <1>7, <1>8, <1>9, <1>10, <1>11, <1>12, <1>13, <1>14,
           <1>15, <1>16, <1>17, <1>18, <1>19, <1>20, <1>21, <1>22, <1>23, <1>24, <1>25, <1>26, <1>27, <1>28
        DEF Next, Api, Dispatch, Reload, HaLoop, Hvac

\* The counters keep their bounds, and the queues what may be in them.
LEMMA CountsStep == ASSUME TypeInv, Next PROVE Counts'
<1> USE WorkerAssumption DEF TypeInv, Counts, Breaks, dbVars, cfgVars, lostVars, subVars, hvacVars, loopElse
<1>1. ASSUME NEW es \in SUBSET Entities, PutEntities(es) PROVE Counts'
    BY <1>1 DEF PutEntities, Write
<1>2. ASSUME NEW b \in Brokers, PutMqtt(b) PROVE Counts'
    BY <1>2 DEF PutMqtt, Write
<1>3. ASSUME NEW m \in Meters, PatchMeter(m) PROVE Counts'
    BY <1>3 DEF PatchMeter, Write
<1>4. ASSUME NEW m \in Meters, InsertReading(m) PROVE Counts'
    <2>1. <<"reading", Payload(m)>> \in Notifications BY DEF Notifications
    <2> QED BY <1>4, <2>1 DEF InsertReading, Deliver
<1>5. CASE NotifyConfig
    <2>1. <<"config">> \in Notifications BY DEF Notifications
    <2>2. CASE UNCHANGED inbox BY <1>5, <2>2 DEF NotifyConfig
    <2>3. CASE inbox' = Append(inbox, <<"config">>) /\ Len(inbox) < MaxQueue
        <3>1. inbox' \in Seq(Notifications) /\ Len(inbox') <= MaxQueue BY <2>1, <2>3
        <3> QED BY <1>5, <3>1 DEF NotifyConfig
    <2> QED BY <1>5, <2>2, <2>3 DEF NotifyConfig, Deliver
<1>6. CASE PutFails BY <1>6 DEF PutFails
<1>7. CASE Acquire BY <1>7 DEF Acquire
<1>8. CASE ListenerLost BY <1>8 DEF ListenerLost
<1>9. CASE OnConfig BY <1>9 DEF OnConfig
<1>10. CASE DispatchReading BY <1>10 DEF DispatchReading
<1>11. CASE Load BY <1>11 DEF Load
<1>12. CASE LoadFails BY <1>12 DEF LoadFails
<1>13. CASE Connect BY <1>13 DEF Connect
<1>14. CASE Refresh BY <1>14 DEF Refresh
<1>15. CASE RefreshFails BY <1>15 DEF RefreshFails
<1>16. CASE Top BY <1>16 DEF Top
<1>17. CASE PauseOver BY <1>17 DEF PauseOver
<1>18. ASSUME NEW fresh \in SUBSET sub, Resolve(fresh) PROVE Counts'
    BY <1>18 DEF Resolve
<1>19. CASE WatcherFires BY <1>19 DEF WatcherFires
<1>20. CASE OldWatcher BY <1>20 DEF OldWatcher
<1>21. CASE Seed BY <1>21 DEF Seed
<1>22. CASE Dial BY <1>22 DEF Dial
<1>23. CASE DialFails BY <1>23 DEF DialFails
<1>24. CASE StreamEnds BY <1>24 DEF StreamEnds
<1>25. CASE LinkDies BY <1>25 DEF LinkDies
<1>26. ASSUME NEW a \in Actions \cup {None}, ThermoChanges(a) PROVE Counts'
    BY <1>26 DEF ThermoChanges
<1>27. CASE OnState BY <1>27 DEF OnState
<1>28. CASE Crash BY <1>28 DEF Crash
<1> QED BY <1>1, <1>2, <1>3, <1>4, <1>5, <1>6, <1>7, <1>8, <1>9, <1>10, <1>11, <1>12, <1>13, <1>14,
           <1>15, <1>16, <1>17, <1>18, <1>19, <1>20, <1>21, <1>22, <1>23, <1>24, <1>25, <1>26, <1>27, <1>28
        DEF Next, Api, Dispatch, Reload, HaLoop, Hvac

\* Every other variable keeps its type.
LEMMA ValuesStep == ASSUME TypeInv, Next PROVE Values'
<1> USE DEF TypeInv, Values, Breaks, dbVars, cfgVars, lostVars, subVars, hvacVars, loopElse
<1>1. ASSUME NEW es \in SUBSET Entities, PutEntities(es) PROVE Values'
    BY <1>1 DEF PutEntities
<1>2. ASSUME NEW b \in Brokers, PutMqtt(b) PROVE Values'
    BY <1>2 DEF PutMqtt
<1>3. ASSUME NEW m \in Meters, PatchMeter(m) PROVE Values'
    BY <1>3 DEF PatchMeter
<1>4. ASSUME NEW m \in Meters, InsertReading(m) PROVE Values'
    BY <1>4 DEF InsertReading
<1>5. CASE NotifyConfig BY <1>5 DEF NotifyConfig
<1>6. CASE PutFails BY <1>6 DEF PutFails
<1>7. CASE Acquire BY <1>7 DEF Acquire
<1>8. CASE ListenerLost BY <1>8 DEF ListenerLost
<1>9. CASE OnConfig BY <1>9 DEF OnConfig
<1>10. CASE DispatchReading BY <1>10 DEF DispatchReading, OnReading, PublishState
<1>11. CASE Load BY <1>11 DEF Load
<1>12. CASE LoadFails BY <1>12 DEF LoadFails, AfterReload
<1>13. CASE Connect BY <1>13 DEF Connect, NewClient
<1>14. CASE Refresh BY <1>14 DEF Refresh, AfterReload, Removed
<1>15. CASE RefreshFails BY <1>15 DEF RefreshFails, AfterReload
<1>16. CASE Top BY <1>16 DEF Top
<1>17. CASE PauseOver BY <1>17 DEF PauseOver
<1>18. ASSUME NEW fresh \in SUBSET sub, Resolve(fresh) PROVE Values'
    BY <1>18 DEF Resolve, Resolved
<1>19. CASE WatcherFires BY <1>19 DEF WatcherFires
<1>20. CASE OldWatcher BY <1>20 DEF OldWatcher
<1>21. CASE Seed BY <1>21 DEF Seed
<1>22. CASE Dial BY <1>22 DEF Dial
<1>23. CASE DialFails BY <1>23 DEF DialFails
<1>24. CASE StreamEnds BY <1>24 DEF StreamEnds
<1>25. CASE LinkDies BY <1>25 DEF LinkDies
<1>26. ASSUME NEW a \in Actions \cup {None}, ThermoChanges(a) PROVE Values'
    BY <1>26 DEF ThermoChanges
<1>27. CASE OnState
    <2>1. Head(events) \in Actions \cup {None} BY <1>27 DEF OnState, Counts
    <2> QED BY <1>27, <2>1 DEF OnState, hvacTransition
<1>28. CASE Crash BY <1>28 DEF Crash
<1> QED BY <1>1, <1>2, <1>3, <1>4, <1>5, <1>6, <1>7, <1>8, <1>9, <1>10, <1>11, <1>12, <1>13, <1>14,
           <1>15, <1>16, <1>17, <1>18, <1>19, <1>20, <1>21, <1>22, <1>23, <1>24, <1>25, <1>26, <1>27, <1>28
        DEF Next, Api, Dispatch, Reload, HaLoop, Hvac
\* TypeInv is inductive.
LEMMA TypeInvariant == Spec => []TypeInv
<1>1. Init => Flags BY Zenon DEF Init, Flags
<1>2. Init => Counts BY WorkerAssumption DEF Init, Counts
<1>3. Init => Values BY DEF Init, Values
<1>4. TypeInv /\ [Next]_vars => TypeInv'
    <2> SUFFICES ASSUME TypeInv, [Next]_vars PROVE TypeInv' OBVIOUS
    <2>1. CASE Next BY <2>1, FlagsStep, CountsStep, ValuesStep DEF TypeInv
    <2>2. CASE UNCHANGED vars
        BY <2>2 DEF vars, TypeInv, Flags, Counts, Values, dbVars, cfgVars, lostVars, subVars, hvacVars
    <2> QED BY <2>1, <2>2
<1> QED BY <1>1, <1>2, <1>3, <1>4, PTL DEF Spec, TypeInv

\* Every variable of the worker keeps its type and every bound holds.
THEOREM WorkerTypeCorrect == Spec => []TypeOK
<1>1. TypeInv => TypeOK BY DEF TypeInv, Flags, Counts, Values, TypeOK
<1> QED BY <1>1, TypeInvariant, PTL

-----------------------------------------------------------------------------
(* What the parts of Next leave alone.                                     *)

\* A handler touches the database and the connection only.
LEMMA ApiFrame ==
    Api => UNCHANGED <<lpc, changed, cEnts, cMqtt, pubSet, client, retained, sent, haRestart, subVars, hvacVars>>
<1> SUFFICES ASSUME Api
             PROVE  UNCHANGED <<lpc, changed, cEnts, cMqtt, pubSet, client, retained, sent, haRestart, subVars, hvacVars>>
    OBVIOUS
<1> USE DEF cfgVars
<1>1. ASSUME NEW es \in SUBSET Entities, PutEntities(es) PROVE UNCHANGED <<cfgVars, haRestart, subVars, hvacVars>>
    BY <1>1 DEF PutEntities
<1>2. ASSUME NEW b \in Brokers, PutMqtt(b) PROVE UNCHANGED <<cfgVars, haRestart, subVars, hvacVars>>
    BY <1>2 DEF PutMqtt
<1>3. ASSUME NEW m \in Meters, PatchMeter(m) PROVE UNCHANGED <<cfgVars, haRestart, subVars, hvacVars>>
    BY <1>3 DEF PatchMeter
<1>4. ASSUME PutFails PROVE UNCHANGED <<cfgVars, haRestart, subVars, hvacVars>>
    BY <1>4 DEF PutFails
<1> QED BY <1>1, <1>2, <1>3, <1>4 DEF Api, NotifyConfig, InsertReading

\* The dispatch of a notification touches the connection and what is published.
LEMMA DispatchFrame ==
    Dispatch => /\ UNCHANGED <<dbVars, changed, cEnts, cMqtt, pubSet, client, haRestart, subVars, hvacVars>>
                /\ lpc' \in {"acquire", "wait", "load"} /\ lpc \in {"acquire", "wait"}
BY DEF Dispatch, Acquire, ListenerLost, OnConfig, DispatchReading

\* haLoop and the thermostat leave the configuration alone.
LEMMA LoopFrame == HaLoop \/ Hvac => UNCHANGED <<dbVars, cfgVars, lostVars>>
<1> SUFFICES ASSUME HaLoop \/ Hvac PROVE UNCHANGED <<dbVars, cfgVars, lostVars>> OBVIOUS
<1> USE DEF loopElse
<1>1. ASSUME NEW fresh \in SUBSET sub, Resolve(fresh) PROVE UNCHANGED <<dbVars, cfgVars, lostVars>>
    BY <1>1 DEF Resolve
<1>2. ASSUME NEW a \in Actions \cup {None}, ThermoChanges(a) PROVE UNCHANGED <<dbVars, cfgVars, lostVars>>
    BY <1>2 DEF ThermoChanges
<1>3. CASE Top \/ PauseOver \/ WatcherFires \/ OldWatcher
    BY <1>3 DEF Top, PauseOver, WatcherFires, OldWatcher
<1>4. CASE Seed \/ Dial \/ DialFails \/ StreamEnds \/ LinkDies \/ OnState
    BY <1>4 DEF Seed, Dial, DialFails, StreamEnds, LinkDies, OnState
<1> QED BY <1>1, <1>2, <1>3, <1>4 DEF HaLoop, Hvac

\* A reload leaves the database, the queue and the thermostat alone.
LEMMA ReloadFrame ==
    Reload => UNCHANGED <<dbVars, inbox, sub, cache, cancelled, old, stolen, link, hvacVars>>
BY DEF Reload, Load, LoadFails, Connect, Refresh, RefreshFails, subVars

-----------------------------------------------------------------------------
(* The MQTT client.                                                        *)

\* The client is for the configured host, but between Load and Connect of a
\* reload that found another one.
Matched == cMqtt # None => client # None /\ client[1] = cMqtt[1]
ClientInv == lpc # "connect" \/ changed = FALSE => Matched

\* After a reload the client talks to the configured host (reloadConfig,
\* Publisher.Connect), whatever hosts, failed loads and restarts came before.
THEOREM WorkerMqttFollows == Spec => []MqttFollows
<1>1. Init => ClientInv BY DEF Init, ClientInv, Matched
<1>2. TypeInv /\ ClientInv /\ [Next]_vars => ClientInv'
    <2> SUFFICES ASSUME TypeInv, ClientInv, [Next]_vars PROVE ClientInv' OBVIOUS
    <2> USE DEF ClientInv, Matched
    <2>1. CASE Load
        <3>1. CASE changed' = FALSE
            <4>1. cMqtt # None /\ cMqtt' # None /\ cMqtt[1] = cMqtt'[1] /\ UNCHANGED client
                BY <2>1, <3>1, Zenon DEF Load
            <4> QED BY <2>1, <4>1 DEF Load
        <3> QED BY <2>1, <3>1 DEF Load
    <2>2. CASE Connect
        <3>1. CASE cMqtt # None /\ (client = None \/ changed) BY <2>2, <3>1 DEF Connect, Connected, NewClient
        <3>2. CASE ~(cMqtt # None /\ (client = None \/ changed))
            <4>1. UNCHANGED <<cMqtt, client>> BY <2>2, <3>2 DEF Connect, Connected
            <4>2. cMqtt = None \/ changed = FALSE BY <3>2 DEF TypeInv, Flags
            <4> QED BY <3>2, <4>1, <4>2
        <3> QED BY <3>1, <3>2
    <2>3. CASE Crash BY <2>3 DEF Crash
    <2>4. CASE UNCHANGED <<cMqtt, client>> /\ ((lpc' # "connect" /\ lpc # "connect") \/ UNCHANGED <<lpc, changed>>)
        BY <2>4
    <2>5. CASE Api BY <2>4, <2>5, ApiFrame
    <2>6. CASE Dispatch BY <2>4, <2>6, DispatchFrame
    <2>7. CASE LoadFails \/ Refresh \/ RefreshFails
        BY <2>4, <2>7 DEF LoadFails, Refresh, RefreshFails, AfterReload
    <2>8. CASE HaLoop \/ Hvac BY <2>4, <2>8, LoopFrame DEF cfgVars
    <2>9. CASE UNCHANGED vars BY <2>4, <2>9 DEF vars, cfgVars
    <2> QED BY <2>1, <2>2, <2>3, <2>5, <2>6, <2>7, <2>8, <2>9 DEF Next, Reload
<1>3. ClientInv => MqttFollows BY DEF ClientInv, Matched, MqttFollows
<1> QED BY <1>1, <1>2, <1>3, TypeInvariant, PTL DEF Spec
-----------------------------------------------------------------------------
(* The keepalive.                                                          *)

\* The last event under way is what the thermostat does; a subscription starts
\* with nothing asserted, and from its seed on what is asserted is right once
\* no event is under way.
EventsInv == events # <<>> => hpc = "live" /\ link /\ events[Len(events)] = thermo
SeedInv == hpc = "seed" => hvac = None
AssertInv ==
    (hpc = "dial" \/ (hpc = "live" /\ link)) /\ events = <<>> /\ ~raced => hvac \in {thermo, None}
HvacInv == EventsInv /\ SeedInv /\ AssertInv

\* HvacInv is kept by haLoop.
LEMMA HvacLoop == ASSUME TypeInv, HvacInv, HaLoop PROVE HvacInv'
<1> USE DEF HvacInv, EventsInv, SeedInv, AssertInv, hvacVars
<1>1. CASE Top BY <1>1 DEF Top
<1>2. CASE PauseOver BY <1>2 DEF PauseOver
<1>3. ASSUME NEW fresh \in SUBSET sub, Resolve(fresh) PROVE HvacInv'
    BY <1>3 DEF Resolve
<1>4. CASE WatcherFires BY <1>4 DEF WatcherFires
<1>5. CASE OldWatcher BY <1>5 DEF OldWatcher
<1>6. CASE Seed BY <1>6 DEF Seed
<1>7. CASE Dial
    <2>1. hpc = "dial" /\ hpc' = "live" /\ UNCHANGED <<thermo, events, hvac, raced>> BY <1>7 DEF Dial
    <2>2. events = <<>> BY <2>1
    <2>3. ~raced => hvac \in {thermo, None} BY <2>1, <2>2
    <2> QED BY <2>1, <2>2, <2>3
<1>8. CASE DialFails BY <1>8 DEF DialFails
<1>9. CASE StreamEnds BY <1>9 DEF StreamEnds
<1>10. CASE LinkDies BY <1>10 DEF LinkDies
<1> QED BY <1>1, <1>2, <1>3, <1>4, <1>5, <1>6, <1>7, <1>8, <1>9, <1>10 DEF HaLoop

\* HvacInv is kept by the thermostat's changes and by onState.
LEMMA HvacEvents == ASSUME TypeInv, HvacInv, Hvac PROVE HvacInv'
<1> USE DEF HvacInv, EventsInv, SeedInv, AssertInv
<1>1. ASSUME NEW a \in Actions \cup {None}, ThermoChanges(a) PROVE HvacInv'
    <2>1. CASE hpc = "live" /\ link
        <3>1. events' = Append(events, a) /\ thermo' = a BY <1>1, <2>1 DEF ThermoChanges
        <3>2. events \in Seq(Actions \cup {None}) BY DEF TypeInv, Counts
        <3>3. events' # <<>> /\ events'[Len(events')] = a BY <3>1, <3>2
        <3> QED BY <1>1, <2>1, <3>1, <3>3 DEF ThermoChanges, subVars
    <2>2. CASE ~(hpc = "live" /\ link)
        BY <1>1, <2>2 DEF ThermoChanges, subVars
    <2> QED BY <2>1, <2>2
<1>2. CASE OnState
    <2>1. events \in Seq(Actions \cup {None}) BY DEF TypeInv, Counts
    <2>2. /\ events # <<>> /\ hpc = "live" /\ link /\ events' = Tail(events)
          /\ UNCHANGED <<hpc, link, thermo>>
        BY <1>2 DEF OnState, subVars
    <2>3. EventsInv' BY <2>1, <2>2
    <2>4. ASSUME events' = <<>> PROVE Head(events) = thermo
        <3>1. Len(Tail(events)) = Len(events) - 1 /\ Len(events) \in Nat BY <2>1, <2>2
        <3>2. Tail(events) = <<>> BY <2>2, <2>4, Zenon
        <3>3. Len(<<>>) = 0 OBVIOUS
        <3>4. Len(Tail(events)) = 0 BY <3>2, <3>3, Zenon
        <3>5. Len(events) = 1 BY <3>1, <3>4
        <3> QED BY <2>1, <2>2, <3>5
    <2>5. (hvac' = Head(events) /\ raced' = FALSE) \/ raced' = TRUE
        BY <1>2 DEF OnState, hvacTransition
    <2> QED BY <2>2, <2>3, <2>4, <2>5
<1> QED BY <1>1, <1>2 DEF Hvac

\* The action the keepalive asserts is the thermostat's own or none, once its
\* events are handled (onState, hvacTransition, the seed), for any number of
\* actions, events under way and failures.
THEOREM WorkerHvacHonest == Spec => []HvacHonest
<1>1. Init => HvacInv BY DEF Init, HvacInv, EventsInv, SeedInv, AssertInv
<1>2. TypeInv /\ HvacInv /\ [Next]_vars => HvacInv'
    <2> SUFFICES ASSUME TypeInv, HvacInv, [Next]_vars PROVE HvacInv' OBVIOUS
    <2> USE DEF HvacInv, EventsInv, SeedInv, AssertInv
    <2>1. CASE UNCHANGED <<hpc, link, hvacVars>> BY <2>1 DEF hvacVars
    <2>2. CASE Api BY <2>1, <2>2, ApiFrame DEF subVars
    <2>3. CASE Dispatch BY <2>1, <2>3, DispatchFrame DEF subVars
    <2>4. CASE Reload
        <3>1. hpc' = hpc \/ (hpc = "down" /\ hpc' = "top")
            <4>1. CASE Load \/ Connect BY <4>1 DEF Load, Connect, subVars
            <4>2. CASE AfterReload BY <4>2 DEF AfterReload, Started
            <4> QED BY <2>4, <4>1, <4>2 DEF Reload, LoadFails, Refresh, RefreshFails
        <3> QED BY <2>4, <3>1, ReloadFrame DEF hvacVars
    <2>5. CASE HaLoop BY <2>5, HvacLoop
    <2>6. CASE Hvac BY <2>6, HvacEvents
    <2>7. CASE Crash BY <2>7 DEF Crash
    <2>8. CASE UNCHANGED vars BY <2>1, <2>8 DEF vars, subVars
    <2> QED BY <2>2, <2>3, <2>4, <2>5, <2>6, <2>7, <2>8 DEF Next
<1>3. HvacInv => HvacHonest BY DEF HvacInv, AssertInv, HvacHonest
<1> QED BY <1>1, <1>2, <1>3, TypeInvariant, PTL DEF Spec

-----------------------------------------------------------------------------
(* What every Follower guarantees.                                         *)

(* A step keeps a copy current: it leaves an update owed, loses the news   *)
(* for the record, or copies the original as it then is.                   *)
LEMMA CurrentStep == Current /\ [FNext]_fvars => Current'
<1> SUFFICES ASSUME Current, [FNext]_fvars PROVE Current' OBVIOUS
<1>1. CASE Change BY <1>1 DEF Change, Current
<1>2. CASE Lose BY <1>2 DEF Lose, Current
<1>3. CASE Copy BY <1>3 DEF Copy, Current
<1>4. CASE Forget BY <1>4 DEF Forget, Current
<1>5. CASE UNCHANGED fvars BY <1>5 DEF fvars, Current
<1> QED BY <1>1, <1>2, <1>3, <1>4, <1>5 DEF FNext

(* A copy that differs from its original is owed an update, or the change  *)
(* went unheard: no order of edits, copies, restarts and lost news leaves  *)
(* the worker (reloadConfig, refreshPublishSet, haLoop) silently behind.   *)
THEOREM FollowerCurrent == FSpec => []Current
<1>1. FInit => Current BY DEF FInit, Current
<1> QED BY <1>1, CurrentStep, PTL DEF FSpec

-----------------------------------------------------------------------------
(* The three hops implement Follower.                                      *)

\* A queue keeps a config notification when something is added, and when a
\* notification of another channel is taken off it.
LEMMA ConfigKept ==
    ASSUME NEW S, NEW q \in Seq(S), NEW n
    PROVE  /\ ConfigIn(q) => ConfigIn(Append(q, n))
           /\ ConfigIn(Append(q, <<"config">>))
           /\ q # <<>> /\ ConfigIn(q) /\ Head(q)[1] = "reading" => ConfigIn(Tail(q))
           /\ ~ConfigIn(<<>>)
<1>1. ASSUME ConfigIn(q) PROVE ConfigIn(Append(q, n))
    <2>1. PICK i \in 1..Len(q) : q[i] = <<"config">> BY <1>1 DEF ConfigIn
    <2>2. Len(q) \in Nat /\ Len(Append(q, n)) = Len(q) + 1 /\ Append(q, n)[i] = q[i] OBVIOUS
    <2>3. i \in 1..Len(Append(q, n)) BY <2>2
    <2> QED BY <2>1, <2>2, <2>3 DEF ConfigIn
<1>2. ConfigIn(Append(q, <<"config">>))
    <2> DEFINE c == <<"config">>
    <2> HIDE DEF c
    <2>1. Len(q) \in Nat /\ Len(Append(q, c)) = Len(q) + 1 /\ Append(q, c)[Len(q) + 1] = c OBVIOUS
    <2>2. Len(q) + 1 \in 1..Len(Append(q, c)) BY <2>1
    <2> QED BY <2>1, <2>2 DEF ConfigIn, c
<1>3. ASSUME q # <<>>, ConfigIn(q), Head(q)[1] = "reading" PROVE ConfigIn(Tail(q))
    <2>1. PICK i \in 1..Len(q) : q[i] = <<"config">> BY <1>3 DEF ConfigIn
    <2>2. q[1] # <<"config">> BY <1>3
    <2>3. i # 1 BY <2>1, <2>2
    <2>4. Tail(q)[i - 1] = q[i] /\ i - 1 \in 1..Len(Tail(q)) BY <1>3, <2>3
    <2> QED BY <2>1, <2>4 DEF ConfigIn
<1>4. ~ConfigIn(<<>>) BY DEF ConfigIn
<1> QED BY <1>1, <1>2, <1>3, <1>4
\* A step that touches neither side and leaves owed what was owed is a step of
\* the Follower, or none.
LEMMA SettingsQuiet ==
    ASSUME UNCHANGED <<dbEnts, dbMqtt, cEnts, cMqtt, lostCfg>>,
           toNotify > 0 \/ ConfigIn(inbox) \/ lpc = "load" =>
               (toNotify > 0 \/ ConfigIn(inbox) \/ lpc = "load")'
    PROVE  [Settings!FNext]_(Settings!fvars)
BY DEF Settings!FNext, Settings!Change, Settings!fvars

\* Every step of the worker is one of the Follower of the settings, or none:
\* Load copies, and nothing else writes w.cfg but a restart.
LEMMA SettingsStep == ASSUME TypeInv, [Next]_vars PROVE [Settings!FNext]_(Settings!fvars)
<1> USE DEF Settings!FNext, dbVars, cfgVars, lostVars, subVars, hvacVars
<1>1. inbox \in Seq(Notifications) /\ toNotify \in Nat BY WorkerAssumption DEF TypeInv, Counts
<1>2. ASSUME NEW es \in SUBSET Entities, PutEntities(es) PROVE Settings!Change
    BY <1>1, <1>2 DEF PutEntities, Write, Settings!Change
<1>3. ASSUME NEW b \in Brokers, PutMqtt(b) PROVE Settings!Change
    BY <1>1, <1>3 DEF PutMqtt, Write, Settings!Change
<1>4. ASSUME NEW m \in Meters, PatchMeter(m) PROVE Settings!Change
    BY <1>1, <1>4 DEF PatchMeter, Write, Settings!Change
<1>5. ASSUME NEW m \in Meters, InsertReading(m) PROVE [Settings!FNext]_(Settings!fvars)
    <2>1. ConfigIn(inbox) => ConfigIn(inbox') BY <1>1, <1>5, ConfigKept DEF InsertReading, Deliver
    <2> QED BY <1>5, <2>1, SettingsQuiet DEF InsertReading
<1>6. CASE NotifyConfig
    <2>1. CASE inbox' = Append(inbox, <<"config">>) /\ UNCHANGED lostVars
        <3>1. ConfigIn(inbox') BY <1>1, <2>1, ConfigKept
        <3> QED BY <1>6, <2>1, <3>1 DEF NotifyConfig, Settings!Change
    <2>2. CASE lostCfg' = TRUE BY <1>6, <2>2 DEF NotifyConfig, Settings!Lose
    <2> QED BY <1>6, <2>1, <2>2 DEF NotifyConfig, Deliver
<1>7. CASE PutFails BY <1>7 DEF PutFails, Settings!Lose
<1>8. CASE Acquire BY <1>8, SettingsQuiet DEF Acquire
<1>9. CASE ListenerLost
    <2>1. CASE ConfigIn(inbox) BY <1>9, <2>1 DEF ListenerLost, Settings!Lose
    <2>2. CASE ~ConfigIn(inbox)
        <3>1. UNCHANGED lostCfg BY <1>9, <2>2, Zenon DEF ListenerLost, TypeInv, Flags
        <3> QED BY <1>9, <2>2, <3>1, SettingsQuiet DEF ListenerLost
    <2> QED BY <2>1, <2>2
<1>10. CASE OnConfig BY <1>10 DEF OnConfig, Settings!Change
<1>11. CASE DispatchReading
    <2>1. ConfigIn(inbox) => ConfigIn(inbox') BY <1>1, <1>11, ConfigKept DEF DispatchReading
    <2> QED BY <1>11, <2>1, SettingsQuiet DEF DispatchReading
<1>12. CASE Load BY <1>12 DEF Load, Settings!Copy
<1>13. CASE LoadFails BY <1>13 DEF LoadFails, Settings!Lose
<1>14. CASE Connect BY <1>14, SettingsQuiet DEF Connect
<1>15. CASE Refresh BY <1>15, SettingsQuiet DEF Refresh
<1>16. CASE RefreshFails BY <1>16, SettingsQuiet DEF RefreshFails
<1>17. CASE HaLoop \/ Hvac BY <1>17, LoopFrame, SettingsQuiet
<1>18. CASE Crash BY <1>18 DEF Crash, Settings!Forget
<1>19. CASE UNCHANGED vars BY <1>19, SettingsQuiet DEF vars
<1> QED BY <1>2, <1>3, <1>4, <1>5, <1>6, <1>7, <1>8, <1>9, <1>10, <1>11, <1>12, <1>13, <1>14, <1>15,
           <1>16, <1>17, <1>18, <1>19 DEF Next, Api, Dispatch, Reload
\* The same of the publish flags.
LEMMA PublishQuiet ==
    ASSUME UNCHANGED <<dbPub, pubSet, lostPub>>,
           toNotify > 0 \/ ConfigIn(inbox) \/ lpc \in {"load", "connect", "refresh"} =>
               (toNotify > 0 \/ ConfigIn(inbox) \/ lpc \in {"load", "connect", "refresh"})'
    PROVE  [PublishFlags!FNext]_(PublishFlags!fvars)
BY DEF PublishFlags!FNext, PublishFlags!Change, PublishFlags!fvars

\* Every step of the workeris one of the Follower of the publish flags, or
\* none: Refresh copies, and nothing else writes publishSet but a restart.
LEMMA PublishStep == ASSUME TypeInv, [Next]_vars PROVE [PublishFlags!FNext]_(PublishFlags!fvars)
<1> USE DEF PublishFlags!FNext, dbVars, cfgVars, lostVars, subVars, hvacVars
<1>1. inbox \in Seq(Notifications) /\ toNotify \in Nat BY WorkerAssumption DEF TypeInv, Counts
<1>2. ASSUME NEW es \in SUBSET Entities, PutEntities(es) PROVE PublishFlags!Change
    BY <1>1, <1>2 DEF PutEntities, Write, PublishFlags!Change
<1>3. ASSUME NEW b \in Brokers, PutMqtt(b) PROVE PublishFlags!Change
    BY <1>1, <1>3 DEF PutMqtt, Write, PublishFlags!Change
<1>4. ASSUME NEW m \in Meters, PatchMeter(m) PROVE PublishFlags!Change
    BY <1>1, <1>4 DEF PatchMeter, Write, PublishFlags!Change
<1>5. ASSUME NEW m \in Meters, InsertReading(m) PROVE [PublishFlags!FNext]_(PublishFlags!fvars)
    <2>1. ConfigIn(inbox) => ConfigIn(inbox') BY <1>1, <1>5, ConfigKept DEF InsertReading, Deliver
    <2> QED BY <1>5, <2>1, PublishQuiet DEF InsertReading
<1>6. CASE NotifyConfig
    <2>1. CASE inbox' = Append(inbox, <<"config">>) /\ UNCHANGED lostVars
        <3>1. ConfigIn(inbox') BY <1>1, <2>1, ConfigKept
        <3> QED BY <1>6, <2>1, <3>1 DEF NotifyConfig, PublishFlags!Change
    <2>2. CASE lostPub' = TRUE BY <1>6, <2>2 DEF NotifyConfig, PublishFlags!Lose
    <2> QED BY <1>6, <2>1, <2>2 DEF NotifyConfig, Deliver
<1>7. CASE PutFails BY <1>7 DEF PutFails, PublishFlags!Lose
<1>8. CASE Acquire BY <1>8, PublishQuiet DEF Acquire
<1>9. CASE ListenerLost
    <2>1. CASE ConfigIn(inbox) BY <1>9, <2>1 DEF ListenerLost, PublishFlags!Lose
    <2>2. CASE ~ConfigIn(inbox)
        <3>1. UNCHANGED lostPub BY <1>9, <2>2, Zenon DEF ListenerLost, TypeInv, Flags
        <3> QED BY <1>9, <2>2, <3>1, PublishQuiet DEF ListenerLost
    <2> QED BY <2>1, <2>2
<1>10. CASE OnConfig BY <1>10 DEF OnConfig, PublishFlags!Change
<1>11. CASE DispatchReading
    <2>1. ConfigIn(inbox) => ConfigIn(inbox') BY <1>1, <1>11, ConfigKept DEF DispatchReading
    <2> QED BY <1>11, <2>1, PublishQuiet DEF DispatchReading
<1>12. CASE Load BY <1>12, PublishQuiet DEF Load
<1>13. CASE LoadFails BY <1>13 DEF LoadFails, PublishFlags!Lose
<1>14. CASE Connect BY <1>14, PublishQuiet DEF Connect
<1>15. CASE Refresh BY <1>15 DEF Refresh, PublishFlags!Copy
<1>16. CASE RefreshFails BY <1>16 DEF RefreshFails, PublishFlags!Lose
<1>17. CASE HaLoop \/ Hvac BY <1>17, LoopFrame, PublishQuiet
<1>18. CASE Crash BY <1>18 DEF Crash, PublishFlags!Forget
<1>19. CASE UNCHANGED vars BY <1>19, PublishQuiet DEF vars
<1> QED BY <1>2, <1>3, <1>4, <1>5, <1>6, <1>7, <1>8, <1>9, <1>10, <1>11, <1>12, <1>13, <1>14, <1>15,
           <1>16, <1>17, <1>18, <1>19 DEF Next, Api, Dispatch, Reload

\* What haLoop reads at Top is what w.cfg held, or a token is on its way, was
\* dropped into the channel, or was stolen.
ReadInv ==
    hpc = "resolve" => sub = cEnts \/ lpc \in {"connect", "refresh"} \/ haRestart \/ stolen

\* The same of the subscription.
LEMMA SubscriptionQuiet ==
    ASSUME UNCHANGED <<cEnts, sub, stolen>>,
           \/ lpc \in {"connect", "refresh"} \/ haRestart \/ cancelled \/ hpc \in {"down", "top", "pause"}
           => (lpc \in {"connect", "refresh"} \/ haRestart \/ cancelled \/ hpc \in {"down", "top", "pause"})'
    PROVE  [Subscription!FNext]_(Subscription!fvars)
BY DEF Subscription!FNext, Subscription!Change, Subscription!fvars

\* Every step of the worker is one of the Follower of the subscription, or none.
\* Resolve may let go of the last token that is owed: the subscription was then
\* made for the entities w.cfg holds.
LEMMA SubscriptionStep ==
    ASSUME TypeInv, ReadInv, [Next]_vars PROVE [Subscription!FNext]_(Subscription!fvars)
<1> USE DEF Subscription!FNext, dbVars, cfgVars, subVars, loopElse
<1>1. CASE Api BY <1>1, ApiFrame, SubscriptionQuiet
<1>2. CASE Dispatch BY <1>2, DispatchFrame, SubscriptionQuiet
<1>3. CASE Load BY <1>3 DEF Load, Subscription!Change
<1>4. CASE LoadFails BY <1>4, SubscriptionQuiet DEF LoadFails, AfterReload, Started
<1>5. CASE Connect BY <1>5, SubscriptionQuiet DEF Connect
<1>6. CASE Refresh \/ RefreshFails
    <2>1. haRestart' = TRUE /\ UNCHANGED <<sub, stolen>> BY <1>6 DEF Refresh, RefreshFails
    <2> QED BY <2>1 DEF Subscription!Change
<1>7. CASE Top BY <1>7 DEF Top, Subscription!Copy
<1>8. CASE PauseOver BY <1>8 DEF PauseOver, Subscription!Change
<1>9. ASSUME NEW fresh \in SUBSET sub, Resolve(fresh) PROVE [Subscription!FNext]_(Subscription!fvars)
    <2>1. hpc = "resolve" /\ UNCHANGED <<lpc, haRestart, cEnts, sub, stolen>> BY <1>9 DEF Resolve
    <2>2. CASE lpc \in {"connect", "refresh"} \/ haRestart BY <2>1, <2>2 DEF Subscription!Change
    <2>3. CASE stolen
        <3>1. stolen' = TRUE BY <2>1, <2>3, Zenon DEF TypeInv, Flags
        <3> QED BY <2>1, <3>1 DEF Subscription!Lose
    <2>4. CASE sub = cEnts BY <2>1, <2>4 DEF Subscription!Copy
    <2> QED BY <2>1, <2>2, <2>3, <2>4 DEF ReadInv
<1>10. CASE WatcherFires BY <1>10 DEF WatcherFires, Subscription!Change
<1>11. CASE OldWatcher
    <2>1. CASE UNCHANGED <<haRestart, stolen>> BY <1>11, <2>1, SubscriptionQuiet DEF OldWatcher
    <2>2. CASE stolen' = TRUE BY <1>11, <2>2 DEF OldWatcher, Subscription!Lose
    <2> QED BY <1>11, <2>1, <2>2 DEF OldWatcher
<1>12. CASE Seed BY <1>12, SubscriptionQuiet DEF Seed
<1>13. CASE Dial BY <1>13, SubscriptionQuiet DEF Dial
<1>14. CASE DialFails BY <1>14, SubscriptionQuiet DEF DialFails
<1>15. CASE StreamEnds BY <1>15, SubscriptionQuiet DEF StreamEnds
<1>16. CASE LinkDies BY <1>16, SubscriptionQuiet DEF LinkDies
<1>17. ASSUME NEW a \in Actions \cup {None}, ThermoChanges(a) PROVE [Subscription!FNext]_(Subscription!fvars)
    BY <1>17, SubscriptionQuiet DEF ThermoChanges
<1>18. CASE OnState BY <1>18, SubscriptionQuiet DEF OnState
<1>19. CASE Crash BY <1>19 DEF Crash, Subscription!Forget
<1>20. CASE UNCHANGED vars BY <1>20, SubscriptionQuiet DEF vars
<1> QED BY <1>1, <1>2, <1>3, <1>4, <1>5, <1>6, <1>7, <1>8, <1>9, <1>10, <1>11, <1>12, <1>13, <1>14, <1>15,
           <1>16, <1>17, <1>18, <1>19, <1>20 DEF Next, Reload, HaLoop, Hvac

\* ReadInv holds throughout: a load between Top and Resolve ends in a token, and
\* only the watcher of an older subscription takes one there.
LEMMA ReadInvariant == Spec => []ReadInv
<1>1. Init => ReadInv BY DEF Init, ReadInv
<1>2. TypeInv /\ ReadInv /\ [Next]_vars => ReadInv'
    <2> SUFFICES ASSUME TypeInv, ReadInv, [Next]_vars PROVE ReadInv' OBVIOUS
    <2> USE DEF ReadInv, cfgVars, subVars, loopElse
    <2>1. CASE Api BY <2>1, ApiFrame
    <2>2. CASE Dispatch BY <2>2, DispatchFrame
    <2>3. CASE Load BY <2>3 DEF Load
    <2>4. CASE LoadFails BY <2>4 DEF LoadFails, AfterReload, Started
    <2>5. CASE Connect BY <2>5 DEF Connect
    <2>6. CASE Refresh \/ RefreshFails
        <3>1. haRestart' = TRUE BY <2>6 DEF Refresh, RefreshFails
        <3> QED BY <3>1
    <2>7. CASE Top BY <2>7 DEF Top
    <2>8. ASSUME NEW fresh \in SUBSET sub, Resolve(fresh) PROVE ReadInv' BY <2>8 DEF Resolve
    <2>9. CASE OldWatcher
        <3>1. CASE UNCHANGED <<haRestart, stolen>> BY <2>9, <3>1 DEF OldWatcher
        <3>2. CASE stolen' = TRUE BY <3>2
        <3> QED BY <2>9, <3>1, <3>2 DEF OldWatcher
    <2>10. CASE PauseOver BY <2>10 DEF PauseOver
    <2>11. CASE WatcherFires BY <2>11 DEF WatcherFires
    <2>12. CASE Seed \/ Dial \/ DialFails \/ StreamEnds \/ LinkDies
        BY <2>12 DEF Seed, Dial, DialFails, StreamEnds, LinkDies
    <2>13. ASSUME NEW a \in Actions \cup {None}, ThermoChanges(a) PROVE ReadInv'
        BY <2>13 DEF ThermoChanges
    <2>14. CASE OnState BY <2>14 DEF OnState
    <2>15. CASE Crash BY <2>15 DEF Crash
    <2>16. CASE UNCHANGED vars BY <2>16 DEF vars
    <2> QED BY <2>1, <2>2, <2>3, <2>4, <2>5, <2>6, <2>7, <2>8, <2>9, <2>10, <2>11, <2>12, <2>13, <2>14, <2>15,
               <2>16 DEF Next, Reload, HaLoop, Hvac
<1> QED BY <1>1, <1>2, TypeInvariant, PTL DEF Spec

\* reloadConfig implements Follower from the settings to w.cfg.
THEOREM WorkerSettingsFollowed == Spec => SettingsFollowed
<1>1. Init => Settings!FInit BY DEF Init, Settings!FInit
<1> QED BY <1>1, SettingsStep, TypeInvariant, PTL DEF Spec, SettingsFollowed, Settings!FSpec

\* refreshPublishSet implements Follower from the meters' flags to publishSet.
THEOREM WorkerPublishSetFollowed == Spec => PublishSetFollowed
<1>1. Init => PublishFlags!FInit BY DEF Init, PublishFlags!FInit
<1> QED BY <1>1, PublishStep, TypeInvariant, PTL DEF Spec, PublishSetFollowed, PublishFlags!FSpec

\* haLoop implements Follower from w.cfg to the subscription.
THEOREM WorkerSubscriptionFollowed == Spec => SubscriptionFollowed
<1>1. Init => Subscription!FInit BY DEF Init, Subscription!FInit
<1> QED BY <1>1, SubscriptionStep, TypeInvariant, ReadInvariant, PTL
        DEF Spec, SubscriptionFollowed, Subscription!FSpec

\* Hence no order of edits, reloads, lost notifications and restarts leaves one
\* of the three copies behind its original with nobody bound to bring it up to
\* date, but for a change that went unheard: FollowerCurrent of each hop.
THEOREM WorkerCurrent == Spec => [](Settings!Current /\ PublishFlags!Current /\ Subscription!Current)
<1>1. SettingsFollowed => []Settings!Current
    <2>1. Settings!FInit => Settings!Current BY DEF Settings!FInit, Settings!Current
    <2>2. Settings!Current /\ [Settings!FNext]_(Settings!fvars) => Settings!Current'
        BY DEF Settings!FNext, Settings!Change, Settings!Lose, Settings!Copy, Settings!Forget, Settings!Current, Settings!fvars
    <2> QED BY <2>1, <2>2, PTL DEF SettingsFollowed, Settings!FSpec
<1>2. PublishSetFollowed => []PublishFlags!Current
    <2>1. PublishFlags!FInit => PublishFlags!Current BY DEF PublishFlags!FInit, PublishFlags!Current
    <2>2. PublishFlags!Current /\ [PublishFlags!FNext]_(PublishFlags!fvars) => PublishFlags!Current'
        BY DEF PublishFlags!FNext, PublishFlags!Change, PublishFlags!Lose, PublishFlags!Copy, PublishFlags!Forget, PublishFlags!Current, PublishFlags!fvars
    <2> QED BY <2>1, <2>2, PTL DEF PublishSetFollowed, PublishFlags!FSpec
<1>3. SubscriptionFollowed => []Subscription!Current
    <2>1. Subscription!FInit => Subscription!Current BY DEF Subscription!FInit, Subscription!Current
    <2>2. Subscription!Current /\ [Subscription!FNext]_(Subscription!fvars) => Subscription!Current'
        BY DEF Subscription!FNext, Subscription!Change, Subscription!Lose, Subscription!Copy, Subscription!Forget, Subscription!Current, Subscription!fvars
    <2> QED BY <2>1, <2>2, PTL DEF SubscriptionFollowed, Subscription!FSpec
<1> QED BY <1>1, <1>2, <1>3, WorkerSettingsFollowed, WorkerPublishSetFollowed, WorkerSubscriptionFollowed, PTL
=============================================================================
