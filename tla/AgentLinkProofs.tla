--------------------------- MODULE AgentLinkProofs ---------------------------
(***************************************************************************)
(* Invariants of AgentLink for every set of dongles and sessions and every *)
(* bound.  LinkInv is inductive: one lemma per action, in each the types,  *)
(* the agreement of the two ends, and the pushes.                          *)
(***************************************************************************)
EXTENDS AgentLink, SequenceTheorems, TLAPS

\* The tuples in which UNCHANGED lists variables.
USE DEF dbVars, wireVars, srvVars, supVars, agentVars, boundVars

\* The empty configuration, and no supervisor at all.
LEMMA NoConfigType ==
    /\ NoConfig \in Configs
    /\ NoConfig \in [Sources -> Settings \cup {Zero, None}]
BY DEF NoConfig, Configs

\* What agentConfig resolves to is a configuration.
LEMMA AgentConfigType ==
    ASSUME TypeOK, NEW k \in Sessions, NEW loaded \in BOOLEAN
    PROVE  [type |-> "config", config |-> agentConfig(k, loaded)] \in DownMsgs
<1>1. agentConfig(k, loaded) \in Configs
  BY DEF TypeOK, ServerType, agentConfig, Configs
<1> QED
  BY <1>1 DEF DownMsgs

\* Writing to a session keeps the types of the wire.
LEMMA SendDownType ==
    ASSUME WireType, NEW k \in Sessions, NEW m \in DownMsgs, SendDown(k, m)
    PROVE  down' \in [Sessions -> Seq(DownMsgs)]
<1>1. Append(down[k], m) \in Seq(DownMsgs)
  BY DEF WireType
<1> QED
  BY <1>1 DEF WireType, SendDown

\* Reading a message keeps the types of the wire.
LEMMA TailType ==
    ASSUME NEW M, NEW q \in [Sessions -> Seq(M)], NEW k \in Sessions, q[k] # <<>>
    PROVE  /\ [q EXCEPT ![k] = Tail(@)] \in [Sessions -> Seq(M)]
           /\ Head(q[k]) \in M
<1>1. Tail(q[k]) \in Seq(M) /\ Head(q[k]) \in M
  OBVIOUS
<1> QED
  BY <1>1

\* One message written to, and read from, an empty queue.
LEMMA OneMessage ==
    ASSUME NEW m PROVE Append(<<>>, m) = <<m>> /\ Tail(<<m>>) = <<>>
OBVIOUS

\* After a push on an open socket, what was pushed last is that.
LEMMA PushedLast ==
    ASSUME WireType, NEW k \in Sessions, link[k] = "open",
           NEW c, SendDown(k, [type |-> "config", config |-> c]),
           [type |-> "config", config |-> c] \in DownMsgs
    PROVE  LastPushed(k)' = c
<1> DEFINE m == [type |-> "config", config |-> c]
<1>1. down'[k] = Append(down[k], m)
  BY DEF SendDown, WireType
<1>2. down'[k] # <<>> /\ down'[k][Len(down'[k])] = m
  <2>1. down[k] \in Seq(DownMsgs) /\ m \in DownMsgs
    BY DEF WireType
  <2>2. /\ Append(down[k], m) \in Seq(DownMsgs)
        /\ Len(Append(down[k], m)) = Len(down[k]) + 1
        /\ Append(down[k], m)[Len(down[k]) + 1] = m
    BY <2>1, AppendProperties
  <2>3. Len(down[k]) \in Nat /\ Len(<<>>) = 0
    BY <2>1
  <2> HIDE DEF m
  <2> QED
    BY <1>1, <2>2, <2>3
<1> QED
  BY <1>2 DEF LastPushed

\* Taking the first message leaves the last one last, unless it was the last.
LEMMA ReadKeepsLast ==
    ASSUME NEW M, NEW q \in Seq(M), q # <<>>
    PROVE  IF Tail(q) = <<>> THEN q[Len(q)] = Head(q)
           ELSE Tail(q)[Len(Tail(q))] = q[Len(q)]
<1>1. /\ Len(q) \in Nat \ {0} /\ Len(Tail(q)) = Len(q) - 1 /\ Tail(q) \in Seq(M)
      /\ \A i \in 1..Len(Tail(q)) : Tail(q)[i] = q[i + 1]
      /\ Head(q) = q[1]
  BY HeadTailProperties, EmptySeq
<1>2. CASE Tail(q) = <<>>
  <2>1. Len(q) = 1
    BY <1>1, <1>2, EmptySeq
  <2> QED
    BY <1>1, <1>2, <2>1
<1>3. CASE Tail(q) # <<>>
  <2>1. Len(Tail(q)) # 0
    BY <1>1, <1>3, EmptySeq
  <2> QED
    BY <1>1, <1>3, <2>1
<1> QED
  BY <1>2, <1>3

\* Only a push of a configuration that could be loaded counts as heard.
LEMMA LoadedOnly ==
    ASSUME FlagsType, NEW k \in Sessions, NEW loaded \in Loads, ~missed'[k],
           missed' = [missed EXCEPT ![k] = ~loaded]
    PROVE  loaded = TRUE
<1>1. missed'[k] = ~loaded
  BY Zenon DEF FlagsType
<1> QED
  BY <1>1, Zenon DEF Loads

\* A step that leaves the configuration, what is up to date and what was sent
\* there alone keeps PushesCoverChanges.
LEMMA PushFrame ==
    ASSUME PushesCoverChanges, cfg' = cfg, lastCfg' = lastCfg,
           \A j \in Sessions : UpToDate(j)' =>
              UpToDate(j) /\ down'[j] = down[j] /\ sources'[j] = sources[j]
    PROVE  PushesCoverChanges'
BY DEF PushesCoverChanges, LastPushed, agentConfig

\* LinkInv without the parts whose proofs need no case analysis.
CoreInv ==
    /\ WireType /\ ServerType /\ AgentType
    /\ SessionOwned /\ EndsAgree /\ PusherHeard /\ Reconciled
    /\ SupervisorsReaped /\ PushesCoverChanges

\* A fresh API and a fresh agent are well typed ...
LEMMA TypeInit == Init => TypeOK
<1> SUFFICES ASSUME Init PROVE TypeOK
  OBVIOUS
<1>1. FlagsType
  BY Zenon DEF Init, FlagsType
<1>2. WireType
  BY DEF Init, WireType
<1>3. ServerType
  BY AgentLinkAssumption DEF Init, ServerType, HandlerPC, PusherPC
<1>4. AgentType
  BY NoConfigType DEF Init, AgentType, AgentPC
<1>5. BoundsType
  BY AgentLinkAssumption DEF Init, BoundsType
<1> QED
  BY <1>1, <1>2, <1>3, <1>4, <1>5 DEF TypeOK

\* ... and satisfy the invariant.
LEMMA InitLinkInv == Init => LinkInv
<1> SUFFICES ASSUME Init PROVE LinkInv
  OBVIOUS
<1>1. TypeOK
  BY TypeInit
<1>2. SupervisorsReaped /\ Reconciled
  BY DEF Init, SupervisorsReaped, Reconciled
<1>3. PushesCoverChanges /\ EndsAgree /\ PusherHeard /\ SessionOwned
  BY DEF Init, SessionOwned, EndsAgree, PusherHeard, PushesCoverChanges,
     UpToDate
<1> QED
  BY <1>1, <1>2, <1>3 DEF LinkInv

\* The Boolean variables stay Boolean.
LEMMA FlagsStep ==
    ASSUME FlagsType, Next
    PROVE  FlagsType'
<1>1. ASSUME NEW k \in Sessions, ServerStep(k) PROVE FlagsType'
  BY <1>1, Zenon DEF FlagsType, ServerStep, ServerHandshake, Reject,
     ServerHello, PushInitial, HandlerEnd
<1>2. ASSUME NEW k \in Sessions, PusherStep(k) PROVE FlagsType'
  BY <1>2, Zenon DEF FlagsType, PusherStep, PusherListen, PusherWake,
     PusherSend, PusherEnd
<1>3. CASE AgentStep
  BY <1>3, Zenon DEF FlagsType, AgentStep, AgentDial, AgentHandshake,
     AgentEnumerate, AgentHello, AgentConfig, ReconcileStop, RescanStop,
     ReapStop, Stop, ReconcileStart, RescanStopped, Reenumerate, SessionFails,
     Close, EndAgent
<1>4. CASE AgentTick
  BY <1>4, Zenon DEF FlagsType, AgentTick
<1>5. CASE UserStep
  BY <1>5, Zenon DEF FlagsType, UserStep, EditConfig, NotifyConfig, Authorize,
     Revoke
<1>6. CASE EnvStep
  BY <1>6, Zenon DEF FlagsType, EnvStep, SupUp, SupDown, Plug, Cut, PusherLost,
     IdleClose, AgentExit, EndAgent, ApiRestart, CoolDown
<1> QED
  BY <1>1, <1>2, <1>3, <1>4, <1>5, <1>6 DEF Next

\* The named bounds are kept by the guards.
LEMMA BoundsStep ==
    ASSUME BoundsType, Next
    PROVE  BoundsType'
<1>1. ASSUME NEW k \in Sessions, ServerStep(k) PROVE BoundsType'
  BY <1>1, AgentLinkAssumption DEF BoundsType, ServerStep, ServerHandshake,
     Reject, ServerHello, PushInitial, HandlerEnd
<1>2. ASSUME NEW k \in Sessions, PusherStep(k) PROVE BoundsType'
  BY <1>2, AgentLinkAssumption DEF BoundsType, PusherStep, PusherListen,
     PusherWake, PusherSend, PusherEnd
<1>3. CASE AgentStep
  BY <1>3, AgentLinkAssumption DEF BoundsType, AgentStep, AgentDial,
     AgentHandshake, AgentEnumerate, AgentHello, AgentConfig, ReconcileStop,
     RescanStop, ReapStop, Stop, ReconcileStart, RescanStopped, Reenumerate,
     SessionFails, Close, EndAgent
<1>4. CASE AgentTick
  BY <1>4, AgentLinkAssumption DEF BoundsType, AgentTick
<1>5. CASE UserStep
  BY <1>5, AgentLinkAssumption DEF BoundsType, UserStep, EditConfig,
     NotifyConfig, Authorize, Revoke
<1>6. CASE EnvStep
  BY <1>6, AgentLinkAssumption DEF BoundsType, EnvStep, SupUp, SupDown, Plug,
     Cut, PusherLost, IdleClose, AgentExit, EndAgent, ApiRestart, CoolDown
<1> QED
  BY <1>1, <1>2, <1>3, <1>4, <1>5, <1>6 DEF Next

\* EditConfig preserves the invariant.
LEMMA EditConfigStep ==
    ASSUME LinkInv, NEW s \in Sources, NEW v \in Settings \cup {Off}, EditConfig(s, v)
    PROVE  CoreInv'
<1>1. WireType' /\ ServerType' /\ AgentType'
  BY NoConfigType, AgentLinkAssumption DEF LinkInv, TypeOK, WireType,
     ServerType, AgentType, HandlerPC, PusherPC, AgentPC, SessionOwned,
     EditConfig
<1>2. SessionOwned' /\ EndsAgree' /\ PusherHeard' /\ Reconciled' /\ SupervisorsReaped'
  BY AgentLinkAssumption DEF LinkInv, TypeOK, WireType, ServerType, AgentType,
     SessionOwned, EndsAgree, Announced, Hello, Resp, PusherHeard, Reconciled,
     Desired, SupervisorsReaped, EditConfig
<1>3. PushesCoverChanges'
  BY Zenon DEF PushesCoverChanges, UpToDate, Quiet, EditConfig
<1> QED
  BY <1>1, <1>2, <1>3 DEF CoreInv

\* NotifyConfig preserves the invariant.
LEMMA NotifyConfigStep ==
    ASSUME LinkInv, NotifyConfig
    PROVE  CoreInv'
<1>1. WireType' /\ ServerType' /\ AgentType'
  <2>1. WireType'
    BY NoConfigType DEF LinkInv, TypeOK, WireType, SessionOwned, AgentType,
       NotifyConfig, Listening
  <2>2. ServerType'
    BY AgentLinkAssumption DEF LinkInv, TypeOK, ServerType, HandlerPC, PusherPC,
       NotifyConfig, Listening
  <2>3. AgentType'
    BY NoConfigType DEF LinkInv, TypeOK, WireType, AgentType, AgentPC,
       NotifyConfig, Listening
  <2> QED
    BY <2>1, <2>2, <2>3
<1>2. SessionOwned' /\ EndsAgree' /\ PusherHeard' /\ Reconciled' /\ SupervisorsReaped'
  BY AgentLinkAssumption DEF LinkInv, TypeOK, WireType, ServerType, AgentType,
     SessionOwned, EndsAgree, Announced, Hello, Resp, PusherHeard, Reconciled,
     Desired, SupervisorsReaped, NotifyConfig, Listening
<1>3. PushesCoverChanges'
  <2>1. ASSUME NEW j \in Sessions, UpToDate(j)'
        PROVE  UpToDate(j) /\ down'[j] = down[j] /\ sources'[j] = sources[j]
    <3>1. hpc[j] = "loop" /\ link[j] = "open" /\ ppc[j] # "send"
      BY <2>1 DEF UpToDate, Quiet, NotifyConfig
    <3>2. ~missed'[j]
      BY <2>1 DEF UpToDate
    <3>3. Listening(j)
      BY <3>1, <3>2, Zenon DEF NotifyConfig
    <3>4. notes'[j] = notes[j] + 1 /\ notes[j] \in Nat
      BY <3>3 DEF NotifyConfig, LinkInv, TypeOK, ServerType
    <3>5. notes'[j] = 0
      BY <2>1 DEF UpToDate, Quiet
    <3> QED
      BY <3>4, <3>5
  <2> QED
    BY <2>1, PushFrame DEF LinkInv, NotifyConfig, Listening
<1> QED
  BY <1>1, <1>2, <1>3 DEF CoreInv

\* Authorize preserves the invariant.
LEMMA AuthorizeStep ==
    ASSUME LinkInv, Authorize
    PROVE  CoreInv'
<1>1. WireType' /\ ServerType' /\ AgentType'
  BY NoConfigType, AgentLinkAssumption DEF LinkInv, TypeOK, WireType,
     ServerType, AgentType, HandlerPC, PusherPC, AgentPC, SessionOwned,
     Authorize
<1>2. SessionOwned' /\ EndsAgree' /\ PusherHeard' /\ Reconciled' /\ SupervisorsReaped'
  BY AgentLinkAssumption DEF LinkInv, TypeOK, WireType, ServerType, AgentType,
     SessionOwned, EndsAgree, Announced, Hello, Resp, PusherHeard, Reconciled,
     Desired, SupervisorsReaped, Authorize
<1>3. PushesCoverChanges'
  <2>1. ASSUME NEW j \in Sessions, UpToDate(j)'
        PROVE  UpToDate(j) /\ down'[j] = down[j] /\ sources'[j] = sources[j]
    BY <2>1 DEF LinkInv, TypeOK, FlagsType, WireType, ServerType, AgentType,
       SessionOwned, PusherHeard, UpToDate, Quiet, Authorize
  <2> QED
    BY <2>1, PushFrame DEF LinkInv, Authorize
<1> QED
  BY <1>1, <1>2, <1>3 DEF CoreInv

\* Revoke preserves the invariant.
LEMMA RevokeStep ==
    ASSUME LinkInv, Revoke
    PROVE  CoreInv'
<1>1. WireType' /\ ServerType' /\ AgentType'
  BY NoConfigType, AgentLinkAssumption DEF LinkInv, TypeOK, WireType,
     ServerType, AgentType, HandlerPC, PusherPC, AgentPC, SessionOwned, Revoke
<1>2. SessionOwned' /\ EndsAgree' /\ PusherHeard' /\ Reconciled' /\ SupervisorsReaped'
  BY AgentLinkAssumption DEF LinkInv, TypeOK, WireType, ServerType, AgentType,
     SessionOwned, EndsAgree, Announced, Hello, Resp, PusherHeard, Reconciled,
     Desired, SupervisorsReaped, Revoke
<1>3. PushesCoverChanges'
  <2>1. ASSUME NEW j \in Sessions, UpToDate(j)'
        PROVE  UpToDate(j) /\ down'[j] = down[j] /\ sources'[j] = sources[j]
    BY <2>1 DEF LinkInv, TypeOK, FlagsType, WireType, ServerType, AgentType,
       SessionOwned, PusherHeard, UpToDate, Quiet, Revoke
  <2> QED
    BY <2>1, PushFrame DEF LinkInv, Revoke
<1> QED
  BY <1>1, <1>2, <1>3 DEF CoreInv

\* ServerHandshake preserves the invariant.
LEMMA ServerHandshakeStep ==
    ASSUME LinkInv, NEW k \in Sessions, ServerHandshake(k)
    PROVE  CoreInv'
<1>1. WireType' /\ ServerType' /\ AgentType'
  <2>1. WireType'
    <3>1. Resp \in DownMsgs
      BY NoConfigType DEF Resp, DownMsgs
    <3>2. down' = down \/ SendDown(k, Resp)
      BY DEF ServerHandshake
    <3> QED
      BY <3>1, <3>2, SendDownType DEF LinkInv, TypeOK, WireType, ServerHandshake
  <2>2. ServerType'
    BY AgentLinkAssumption DEF LinkInv, TypeOK, ServerType, HandlerPC, PusherPC,
       ServerHandshake, SendDown
  <2>3. AgentType'
    BY NoConfigType DEF LinkInv, TypeOK, WireType, AgentType, AgentPC,
       ServerHandshake, SendDown
  <2> QED
    BY <2>1, <2>2, <2>3
<1>2. SessionOwned' /\ EndsAgree' /\ PusherHeard' /\ Reconciled' /\ SupervisorsReaped'
  <2>1. SessionOwned'
    BY AgentLinkAssumption DEF LinkInv, TypeOK, WireType, AgentType,
       SessionOwned, ServerHandshake, SendDown
  <2>2. EndsAgree'
    <3>1. CASE hpc' = [hpc EXCEPT ![k] = "reject"] /\ down' = down
      BY <3>1 DEF LinkInv, TypeOK, ServerType, EndsAgree, Announced, Hello,
         ServerHandshake
    <3>2. CASE hpc' = [hpc EXCEPT ![k] = "hello"] /\ SendDown(k, Resp)
      <4>1. link[k] = "open" => down'[k] = <<Resp>> /\ apc = "handshake"
        BY <3>2, OneMessage DEF LinkInv, TypeOK, WireType, EndsAgree,
           ServerHandshake, SendDown
      <4>2. \A j \in Sessions : j # k => down'[j] = down[j] /\ hpc'[j] = hpc[j]
        BY <3>2 DEF LinkInv, TypeOK, WireType, ServerType, SendDown
      <4>3. hpc'[k] = "hello"
        BY <3>2 DEF LinkInv, TypeOK, ServerType
      <4>4. link[k] = "open" => up[k] = <<>>
        BY DEF LinkInv, EndsAgree, ServerHandshake
      <4> QED
        BY <4>1, <4>2, <4>3, <4>4 DEF LinkInv, EndsAgree, Announced, Hello,
           Resp, ServerHandshake
    <3> QED
      BY <3>1, <3>2 DEF ServerHandshake
  <2>3. PusherHeard'
    BY DEF LinkInv, TypeOK, ServerType, PusherHeard, ServerHandshake, SendDown
  <2>4. Reconciled'
    BY DEF LinkInv, TypeOK, AgentType, Reconciled, Desired, ServerHandshake,
       SendDown
  <2>5. SupervisorsReaped'
    BY DEF LinkInv, TypeOK, AgentType, SupervisorsReaped, ServerHandshake,
       SendDown
  <2> QED
    BY <2>1, <2>2, <2>3, <2>4, <2>5
<1>3. PushesCoverChanges'
  <2>1. ASSUME NEW j \in Sessions, UpToDate(j)'
        PROVE  UpToDate(j) /\ down'[j] = down[j] /\ sources'[j] = sources[j]
    <3>1. hpc'[j] = "loop"
      BY <2>1 DEF UpToDate
    <3>2. j # k
      BY <3>1 DEF ServerHandshake, LinkInv, TypeOK, ServerType
    <3>3. down'[j] = down[j] /\ hpc'[j] = hpc[j]
      BY <3>2 DEF ServerHandshake, SendDown, LinkInv, TypeOK, ServerType,
         WireType
    <3> QED
      BY <2>1, <3>3 DEF UpToDate, Quiet, ServerHandshake
  <2> QED
    BY <2>1, PushFrame DEF LinkInv, ServerHandshake, SendDown, Resp
<1> QED
  BY <1>1, <1>2, <1>3 DEF CoreInv

\* Reject preserves the invariant.
LEMMA RejectStep ==
    ASSUME LinkInv, NEW k \in Sessions, Reject(k)
    PROVE  CoreInv'
<1>1. WireType' /\ ServerType' /\ AgentType'
  BY NoConfigType, AgentLinkAssumption DEF LinkInv, TypeOK, WireType,
     ServerType, AgentType, HandlerPC, PusherPC, AgentPC, SessionOwned, Reject,
     Shut
<1>2. SessionOwned' /\ EndsAgree' /\ PusherHeard' /\ Reconciled' /\ SupervisorsReaped'
  BY AgentLinkAssumption DEF LinkInv, TypeOK, WireType, ServerType, AgentType,
     SessionOwned, EndsAgree, Announced, Hello, Resp, PusherHeard, Reconciled,
     Desired, SupervisorsReaped, Reject, Shut
<1>3. PushesCoverChanges'
  <2>1. ASSUME NEW j \in Sessions, UpToDate(j)'
        PROVE  UpToDate(j) /\ down'[j] = down[j] /\ sources'[j] = sources[j]
    BY <2>1 DEF LinkInv, TypeOK, FlagsType, WireType, ServerType, AgentType,
       SessionOwned, PusherHeard, UpToDate, Quiet, Reject, Shut
  <2> QED
    BY <2>1, PushFrame DEF LinkInv, Reject, Shut
<1> QED
  BY <1>1, <1>2, <1>3 DEF CoreInv

\* ServerHello preserves the invariant.
LEMMA ServerHelloStep ==
    ASSUME LinkInv, NEW k \in Sessions, ServerHello(k)
    PROVE  CoreInv'
<1>1. WireType' /\ ServerType' /\ AgentType'
  <2>1. WireType'
    BY TailType DEF LinkInv, TypeOK, WireType, ServerHello
  <2>2. ServerType'
    <3>1. Head(up[k]) \in UpMsgs
      BY TailType DEF LinkInv, TypeOK, WireType, ServerHello
    <3>2. Head(up[k]).devs \in SUBSET Sources
      BY <3>1 DEF UpMsgs
    <3>3. devRows' \subseteq Sources
      BY <3>2 DEF LinkInv, TypeOK, ServerType, ServerHello
    <3> QED
      BY <3>2, <3>3 DEF LinkInv, TypeOK, ServerType, HandlerPC, ServerHello
  <2>3. AgentType'
    BY NoConfigType DEF LinkInv, TypeOK, WireType, AgentType, AgentPC,
       ServerHello
  <2> QED
    BY <2>1, <2>2, <2>3
<1>2. SessionOwned' /\ EndsAgree' /\ PusherHeard' /\ Reconciled' /\ SupervisorsReaped'
  BY AgentLinkAssumption DEF LinkInv, TypeOK, WireType, ServerType, AgentType,
     SessionOwned, EndsAgree, Announced, Hello, Resp, PusherHeard, Reconciled,
     Desired, SupervisorsReaped, ServerHello
<1>3. PushesCoverChanges'
  <2>1. ASSUME NEW j \in Sessions, UpToDate(j)'
        PROVE  UpToDate(j) /\ down'[j] = down[j] /\ sources'[j] = sources[j]
    BY <2>1 DEF LinkInv, TypeOK, FlagsType, WireType, ServerType, AgentType,
       SessionOwned, PusherHeard, UpToDate, Quiet, ServerHello
  <2> QED
    BY <2>1, PushFrame DEF LinkInv, ServerHello
<1> QED
  BY <1>1, <1>2, <1>3 DEF CoreInv

\* PushInitial preserves the invariant.
LEMMA PushInitialStep ==
    ASSUME LinkInv, NEW k \in Sessions, PushInitial(k)
    PROVE  CoreInv'
<1>1. WireType' /\ ServerType' /\ AgentType'
  <2>1. WireType'
    BY AgentConfigType, SendDownType DEF LinkInv, TypeOK, WireType, Loads,
       PushInitial
  <2>2. ServerType'
    BY AgentLinkAssumption DEF LinkInv, TypeOK, ServerType, HandlerPC, PusherPC,
       PushInitial, SendDown, Loads
  <2>3. AgentType'
    BY NoConfigType DEF LinkInv, TypeOK, WireType, AgentType, AgentPC,
       PushInitial, SendDown, Loads
  <2> QED
    BY <2>1, <2>2, <2>3
<1>2. SessionOwned' /\ EndsAgree' /\ PusherHeard' /\ Reconciled' /\ SupervisorsReaped'
  BY AgentLinkAssumption DEF LinkInv, TypeOK, WireType, ServerType, AgentType,
     SessionOwned, EndsAgree, Announced, Hello, Resp, PusherHeard, Reconciled,
     Desired, SupervisorsReaped, PushInitial, SendDown, Loads, agentConfig
<1>3. PushesCoverChanges'
  <2> SUFFICES ASSUME NEW j \in Sessions, UpToDate(j)'
               PROVE  LastPushed(j)' = agentConfig(j, TRUE)'
    BY DEF PushesCoverChanges
  <2>1. PICK loaded \in Loads :
          /\ SendDown(k, [type |-> "config", config |-> agentConfig(k, loaded)])
          /\ missed' = [missed EXCEPT ![k] = ~loaded]
    BY DEF PushInitial
  <2>2. CASE j = k
    <3>1. loaded = TRUE /\ link[k] = "open"
      BY <2>1, <2>2, LoadedOnly DEF LinkInv, TypeOK, UpToDate, PushInitial
    <3>2. LastPushed(k)' = agentConfig(k, TRUE)
      BY <2>1, <3>1, PushedLast, AgentConfigType DEF LinkInv, TypeOK
    <3>3. agentConfig(k, TRUE)' = agentConfig(k, TRUE)
      BY DEF agentConfig, PushInitial
    <3> QED
      BY <2>2, <3>2, <3>3
  <2>3. CASE j # k
    BY <2>1, <2>3 DEF LinkInv, TypeOK, WireType, ServerType, FlagsType,
       UpToDate, Quiet, SendDown, PushesCoverChanges, LastPushed, agentConfig,
       PushInitial
  <2> QED
    BY <2>2, <2>3
<1> QED
  BY <1>1, <1>2, <1>3 DEF CoreInv

\* HandlerEnd preserves the invariant.
LEMMA HandlerEndStep ==
    ASSUME LinkInv, NEW k \in Sessions, HandlerEnd(k)
    PROVE  CoreInv'
<1>1. WireType' /\ ServerType' /\ AgentType'
  BY NoConfigType, AgentLinkAssumption DEF LinkInv, TypeOK, WireType,
     ServerType, AgentType, HandlerPC, PusherPC, AgentPC, SessionOwned,
     HandlerEnd, Shut, Broken
<1>2. SessionOwned' /\ EndsAgree' /\ PusherHeard' /\ Reconciled' /\ SupervisorsReaped'
  BY AgentLinkAssumption DEF LinkInv, TypeOK, WireType, ServerType, AgentType,
     SessionOwned, EndsAgree, Announced, Hello, Resp, PusherHeard, Reconciled,
     Desired, SupervisorsReaped, HandlerEnd, Shut, Broken
<1>3. PushesCoverChanges'
  <2>1. ASSUME NEW j \in Sessions, UpToDate(j)'
        PROVE  UpToDate(j) /\ down'[j] = down[j] /\ sources'[j] = sources[j]
    BY <2>1 DEF LinkInv, TypeOK, FlagsType, WireType, ServerType, AgentType,
       SessionOwned, PusherHeard, UpToDate, Quiet, HandlerEnd, Shut, Broken
  <2> QED
    BY <2>1, PushFrame DEF LinkInv, HandlerEnd, Shut, Broken
<1> QED
  BY <1>1, <1>2, <1>3 DEF CoreInv

\* IdleClose preserves the invariant.
LEMMA IdleCloseStep ==
    ASSUME LinkInv, NEW k \in Sessions, IdleClose(k)
    PROVE  CoreInv'
<1>1. WireType' /\ ServerType' /\ AgentType'
  BY NoConfigType, AgentLinkAssumption DEF LinkInv, TypeOK, WireType,
     ServerType, AgentType, HandlerPC, PusherPC, AgentPC, SessionOwned,
     IdleClose, Shut
<1>2. SessionOwned' /\ EndsAgree' /\ PusherHeard' /\ Reconciled' /\ SupervisorsReaped'
  BY AgentLinkAssumption DEF LinkInv, TypeOK, WireType, ServerType, AgentType,
     SessionOwned, EndsAgree, Announced, Hello, Resp, PusherHeard, Reconciled,
     Desired, SupervisorsReaped, IdleClose, Shut
<1>3. PushesCoverChanges'
  <2>1. ASSUME NEW j \in Sessions, UpToDate(j)'
        PROVE  UpToDate(j) /\ down'[j] = down[j] /\ sources'[j] = sources[j]
    BY <2>1 DEF LinkInv, TypeOK, FlagsType, WireType, ServerType, AgentType,
       SessionOwned, PusherHeard, UpToDate, Quiet, IdleClose, Shut
  <2> QED
    BY <2>1, PushFrame DEF LinkInv, IdleClose, Shut
<1> QED
  BY <1>1, <1>2, <1>3 DEF CoreInv

\* PusherListen preserves the invariant.
LEMMA PusherListenStep ==
    ASSUME LinkInv, NEW k \in Sessions, PusherListen(k)
    PROVE  CoreInv'
<1>1. WireType' /\ ServerType' /\ AgentType'
  BY NoConfigType, AgentLinkAssumption DEF LinkInv, TypeOK, WireType,
     ServerType, AgentType, HandlerPC, PusherPC, AgentPC, SessionOwned,
     PusherListen
<1>2. SessionOwned' /\ EndsAgree' /\ PusherHeard' /\ Reconciled' /\ SupervisorsReaped'
  BY AgentLinkAssumption DEF LinkInv, TypeOK, WireType, ServerType, AgentType,
     SessionOwned, EndsAgree, Announced, Hello, Resp, PusherHeard, Reconciled,
     Desired, SupervisorsReaped, PusherListen
<1>3. PushesCoverChanges'
  <2>1. ASSUME NEW j \in Sessions, UpToDate(j)'
        PROVE  UpToDate(j) /\ down'[j] = down[j] /\ sources'[j] = sources[j]
    BY <2>1 DEF LinkInv, TypeOK, FlagsType, WireType, ServerType, AgentType,
       SessionOwned, PusherHeard, UpToDate, Quiet, PusherListen
  <2> QED
    BY <2>1, PushFrame DEF LinkInv, PusherListen
<1> QED
  BY <1>1, <1>2, <1>3 DEF CoreInv

\* PusherWake preserves the invariant.
LEMMA PusherWakeStep ==
    ASSUME LinkInv, NEW k \in Sessions, PusherWake(k)
    PROVE  CoreInv'
<1>1. WireType' /\ ServerType' /\ AgentType'
  BY NoConfigType, AgentLinkAssumption DEF LinkInv, TypeOK, WireType,
     ServerType, AgentType, HandlerPC, PusherPC, AgentPC, SessionOwned,
     PusherWake
<1>2. SessionOwned' /\ EndsAgree' /\ PusherHeard' /\ Reconciled' /\ SupervisorsReaped'
  BY AgentLinkAssumption DEF LinkInv, TypeOK, WireType, ServerType, AgentType,
     SessionOwned, EndsAgree, Announced, Hello, Resp, PusherHeard, Reconciled,
     Desired, SupervisorsReaped, PusherWake
<1>3. PushesCoverChanges'
  <2>1. ASSUME NEW j \in Sessions, UpToDate(j)'
        PROVE  UpToDate(j) /\ down'[j] = down[j] /\ sources'[j] = sources[j]
    BY <2>1 DEF LinkInv, TypeOK, FlagsType, WireType, ServerType, AgentType,
       SessionOwned, PusherHeard, UpToDate, Quiet, PusherWake
  <2> QED
    BY <2>1, PushFrame DEF LinkInv, PusherWake
<1> QED
  BY <1>1, <1>2, <1>3 DEF CoreInv

\* PusherSend preserves the invariant.
LEMMA PusherSendStep ==
    ASSUME LinkInv, NEW k \in Sessions, PusherSend(k)
    PROVE  CoreInv'
<1>1. WireType' /\ ServerType' /\ AgentType'
  <2>1. CASE ppc' = [ppc EXCEPT ![k] = "wait"] /\ UNCHANGED <<link, notes>>
    <3>1. PICK loaded \in Loads :
            SendDown(k, [type |-> "config", config |-> agentConfig(k, loaded)])
      BY <2>1 DEF PusherSend, LinkInv, TypeOK, ServerType, Shut
    <3>2. down' \in [Sessions -> Seq(DownMsgs)]
      BY <3>1, AgentConfigType, SendDownType DEF LinkInv, TypeOK, Loads
    <3> QED
      BY <2>1, <3>2 DEF LinkInv, TypeOK, WireType, ServerType, AgentType,
         PusherPC, PusherSend
  <2>2. CASE Shut(k) /\ ppc' = [ppc EXCEPT ![k] = "none"] /\ down' = down
               /\ notes' = [notes EXCEPT ![k] = 0]
    BY <2>2, AgentLinkAssumption DEF LinkInv, TypeOK, WireType, ServerType,
       AgentType, PusherPC, PusherSend, Shut
  <2> QED
    BY <2>1, <2>2 DEF PusherSend
<1>2. SessionOwned' /\ EndsAgree' /\ PusherHeard' /\ Reconciled' /\ SupervisorsReaped'
  <2>1. SessionOwned' /\ Reconciled' /\ SupervisorsReaped'
    BY DEF LinkInv, TypeOK, WireType, SessionOwned, Reconciled, Desired,
       SupervisorsReaped, PusherSend, Shut
  <2>2. PusherHeard'
    BY DEF LinkInv, TypeOK, ServerType, PusherHeard, PusherSend
  <2>3. EndsAgree'
    <3>1. \A j \in Sessions : link'[j] = "open" => link[j] = "open"
      BY DEF LinkInv, TypeOK, WireType, PusherSend, Shut
    <3>2. \A j \in Sessions : j # k => down'[j] = down[j]
      BY DEF LinkInv, TypeOK, WireType, PusherSend, SendDown
    <3> QED
      BY <3>1, <3>2 DEF LinkInv, EndsAgree, Announced, Hello, Resp, PusherSend
  <2> QED
    BY <2>1, <2>2, <2>3
<1>3. PushesCoverChanges'
  <2> SUFFICES ASSUME NEW j \in Sessions, UpToDate(j)'
               PROVE  LastPushed(j)' = agentConfig(j, TRUE)'
    BY DEF PushesCoverChanges
  <2>0. \A i \in Sessions : agentConfig(i, TRUE)' = agentConfig(i, TRUE)
    BY DEF agentConfig, PusherSend
  <2>1. CASE j = k
    <3>1. PICK loaded \in Loads :
            /\ SendDown(k, [type |-> "config", config |-> agentConfig(k, loaded)])
            /\ missed' = [missed EXCEPT ![k] = ~loaded]
            /\ link' = link
      BY <2>1 DEF UpToDate, PusherSend, Shut, LinkInv, TypeOK, WireType
    <3>2. loaded = TRUE /\ link[k] = "open"
      BY <2>1, <3>1, LoadedOnly DEF LinkInv, TypeOK, UpToDate
    <3> QED
      BY <2>0, <2>1, <3>1, <3>2, PushedLast, AgentConfigType DEF LinkInv, TypeOK
  <2>2. CASE j # k
    <3>1. down'[j] = down[j] /\ lastCfg' = lastCfg
      BY <2>2 DEF PusherSend, SendDown, LinkInv, TypeOK, WireType
    <3>2. missed'[j] = missed[j]
      BY <2>2 DEF PusherSend, LinkInv, TypeOK, FlagsType
    <3>3. UpToDate(j)
      BY <2>2, <3>2 DEF UpToDate, Quiet, PusherSend, Shut, LinkInv, TypeOK,
         WireType, ServerType
    <3> QED
      BY <2>0, <3>1, <3>3 DEF LinkInv, PushesCoverChanges, LastPushed
  <2> QED
    BY <2>1, <2>2
<1> QED
  BY <1>1, <1>2, <1>3 DEF CoreInv

\* PusherEnd preserves the invariant.
LEMMA PusherEndStep ==
    ASSUME LinkInv, NEW k \in Sessions, PusherEnd(k)
    PROVE  CoreInv'
<1>1. WireType' /\ ServerType' /\ AgentType'
  BY NoConfigType, AgentLinkAssumption DEF LinkInv, TypeOK, WireType,
     ServerType, AgentType, HandlerPC, PusherPC, AgentPC, SessionOwned,
     PusherEnd
<1>2. SessionOwned' /\ EndsAgree' /\ PusherHeard' /\ Reconciled' /\ SupervisorsReaped'
  BY AgentLinkAssumption DEF LinkInv, TypeOK, WireType, ServerType, AgentType,
     SessionOwned, EndsAgree, Announced, Hello, Resp, PusherHeard, Reconciled,
     Desired, SupervisorsReaped, PusherEnd
<1>3. PushesCoverChanges'
  <2>1. ASSUME NEW j \in Sessions, UpToDate(j)'
        PROVE  UpToDate(j) /\ down'[j] = down[j] /\ sources'[j] = sources[j]
    BY <2>1 DEF LinkInv, TypeOK, FlagsType, WireType, ServerType, AgentType,
       SessionOwned, PusherHeard, UpToDate, Quiet, PusherEnd
  <2> QED
    BY <2>1, PushFrame DEF LinkInv, PusherEnd
<1> QED
  BY <1>1, <1>2, <1>3 DEF CoreInv

\* PusherLost preserves the invariant.
LEMMA PusherLostStep ==
    ASSUME LinkInv, NEW k \in Sessions, PusherLost(k)
    PROVE  CoreInv'
<1>1. WireType' /\ ServerType' /\ AgentType'
  BY NoConfigType, AgentLinkAssumption DEF LinkInv, TypeOK, WireType,
     ServerType, AgentType, HandlerPC, PusherPC, AgentPC, SessionOwned,
     PusherLost
<1>2. SessionOwned' /\ EndsAgree' /\ PusherHeard' /\ Reconciled' /\ SupervisorsReaped'
  BY AgentLinkAssumption DEF LinkInv, TypeOK, WireType, ServerType, AgentType,
     SessionOwned, EndsAgree, Announced, Hello, Resp, PusherHeard, Reconciled,
     Desired, SupervisorsReaped, PusherLost
<1>3. PushesCoverChanges'
  <2>1. ASSUME NEW j \in Sessions, UpToDate(j)'
        PROVE  UpToDate(j) /\ down'[j] = down[j] /\ sources'[j] = sources[j]
    <3>1. ~missed'[j]
      BY <2>1 DEF UpToDate
    <3>2. ~missed[j] /\ (j = k => ~(notes[k] > 0))
      BY <3>1, Zenon DEF PusherLost, LinkInv, TypeOK, FlagsType
    <3>3. notes[j] = 0
      BY <2>1, <3>2 DEF UpToDate, Quiet, PusherLost, LinkInv, TypeOK, ServerType
    <3>4. ppc[j] # "send" /\ ~owed /\ hpc[j] = "loop" /\ link[j] = "open"
      BY <2>1 DEF UpToDate, Quiet, PusherLost, LinkInv, TypeOK, ServerType
    <3> QED
      BY <3>2, <3>3, <3>4 DEF UpToDate, Quiet, PusherLost
  <2> QED
    BY <2>1, PushFrame DEF LinkInv, PusherLost
<1> QED
  BY <1>1, <1>2, <1>3 DEF CoreInv

\* AgentDial preserves the invariant.
LEMMA AgentDialStep ==
    ASSUME LinkInv, NEW k \in Sessions, AgentDial(k)
    PROVE  CoreInv'
<1>1. WireType' /\ ServerType' /\ AgentType'
  BY NoConfigType, AgentLinkAssumption DEF LinkInv, TypeOK, WireType,
     ServerType, AgentType, HandlerPC, PusherPC, AgentPC, SessionOwned,
     AgentDial
<1>2. SessionOwned' /\ EndsAgree' /\ PusherHeard' /\ Reconciled' /\ SupervisorsReaped'
  <2>1. SessionOwned'
    BY AgentLinkAssumption DEF LinkInv, TypeOK, WireType, AgentType,
       SessionOwned, AgentDial
  <2>2. EndsAgree'
    <3>1. \A j \in Sessions : link[j] # "open"
      BY AgentLinkAssumption DEF LinkInv, SessionOwned, AgentDial
    <3>2. \A j \in Sessions : link'[j] = "open" => j = k
      BY <3>1 DEF LinkInv, TypeOK, WireType, AgentDial
    <3>3. apc' = "handshake" /\ hpc'[k] = "handshake" /\ down'[k] = <<>> /\ up'[k] = <<>>
      BY DEF LinkInv, TypeOK, WireType, ServerType, AgentDial
    <3> QED
      BY <3>2, <3>3 DEF EndsAgree
  <2>3. PusherHeard'
    BY DEF LinkInv, TypeOK, ServerType, PusherHeard, AgentDial, Free
  <2>4. Reconciled'
    BY DEF LinkInv, TypeOK, AgentType, Reconciled, Desired, AgentDial
  <2>5. SupervisorsReaped'
    BY DEF LinkInv, TypeOK, AgentType, SupervisorsReaped, AgentDial
  <2> QED
    BY <2>1, <2>2, <2>3, <2>4, <2>5
<1>3. PushesCoverChanges'
  <2>1. ASSUME NEW j \in Sessions, UpToDate(j)'
        PROVE  UpToDate(j) /\ down'[j] = down[j] /\ sources'[j] = sources[j]
    BY <2>1 DEF LinkInv, TypeOK, FlagsType, WireType, ServerType, AgentType,
       SessionOwned, PusherHeard, UpToDate, Quiet, AgentDial
  <2> QED
    BY <2>1, PushFrame DEF LinkInv, AgentDial
<1> QED
  BY <1>1, <1>2, <1>3 DEF CoreInv

\* AgentHandshake preserves the invariant.
LEMMA AgentHandshakeStep ==
    ASSUME LinkInv, AgentHandshake
    PROVE  CoreInv'
<1>0. cur \in Sessions
  BY DEF LinkInv, TypeOK, AgentType, SessionOwned, AgentHandshake
<1>1. WireType' /\ ServerType' /\ AgentType'
  <2>1. WireType'
    BY <1>0, TailType DEF LinkInv, TypeOK, WireType, AgentHandshake, Readable
  <2>2. ServerType'
    BY AgentLinkAssumption DEF LinkInv, TypeOK, ServerType, HandlerPC, PusherPC,
       AgentHandshake
  <2>3. AgentType'
    BY NoConfigType DEF LinkInv, TypeOK, WireType, AgentType, AgentPC,
       AgentHandshake
  <2> QED
    BY <2>1, <2>2, <2>3
<1>2. SessionOwned' /\ EndsAgree' /\ PusherHeard' /\ Reconciled' /\ SupervisorsReaped'
  <2>1. SessionOwned'
    BY AgentLinkAssumption DEF LinkInv, TypeOK, WireType, AgentType,
       SessionOwned, AgentHandshake, Readable
  <2>2. EndsAgree'
    <3>1. ASSUME NEW j \in Sessions, link[j] = "open", hpc[j] # "none"
          PROVE  j = cur /\ hpc[j] = "hello" /\ down[j] = <<Resp>> /\ up[j] = <<>>
      <4>1. j = cur
        BY <3>1 DEF LinkInv, SessionOwned
      <4> QED
        BY <3>1, <4>1 DEF LinkInv, TypeOK, ServerType, HandlerPC, EndsAgree,
           Announced, AgentHandshake, Readable
    <3>2. \A j \in Sessions : link[j] = "open" /\ hpc[j] # "none" => down'[j] = <<>>
      BY <3>1, <1>0, OneMessage DEF LinkInv, TypeOK, WireType, AgentHandshake
    <3> QED
      BY <3>1, <3>2 DEF EndsAgree, Announced, AgentHandshake
  <2>3. PusherHeard'
    BY DEF LinkInv, TypeOK, ServerType, PusherHeard, AgentHandshake, Readable
  <2>4. Reconciled'
    BY DEF LinkInv, TypeOK, AgentType, Reconciled, Desired, AgentHandshake,
       Readable
  <2>5. SupervisorsReaped'
    BY DEF LinkInv, TypeOK, AgentType, SupervisorsReaped, AgentHandshake,
       Readable
  <2> QED
    BY <2>1, <2>2, <2>3, <2>4, <2>5
<1>3. PushesCoverChanges'
  <2>1. ASSUME NEW j \in Sessions, UpToDate(j)'
        PROVE  UpToDate(j) /\ down'[j] = down[j] /\ sources'[j] = sources[j]
    <3>1. hpc[j] = "loop" /\ link[j] = "open"
      BY <2>1 DEF UpToDate, AgentHandshake
    <3> QED
      BY <3>1 DEF LinkInv, EndsAgree, Announced, AgentHandshake
  <2> QED
    BY <2>1, PushFrame DEF LinkInv, AgentHandshake, Readable
<1> QED
  BY <1>1, <1>2, <1>3 DEF CoreInv

\* AgentEnumerate preserves the invariant.
LEMMA AgentEnumerateStep ==
    ASSUME LinkInv, AgentEnumerate
    PROVE  CoreInv'
<1>1. WireType' /\ ServerType' /\ AgentType'
  BY NoConfigType, AgentLinkAssumption DEF LinkInv, TypeOK, WireType,
     ServerType, AgentType, HandlerPC, PusherPC, AgentPC, SessionOwned,
     AgentEnumerate, Enumerated
<1>2. SessionOwned' /\ EndsAgree' /\ PusherHeard' /\ Reconciled' /\ SupervisorsReaped'
  BY AgentLinkAssumption DEF LinkInv, TypeOK, WireType, ServerType, AgentType,
     SessionOwned, EndsAgree, Announced, Hello, Resp, PusherHeard, Reconciled,
     Desired, SupervisorsReaped, AgentEnumerate, Enumerated
<1>3. PushesCoverChanges'
  <2>1. ASSUME NEW j \in Sessions, UpToDate(j)'
        PROVE  UpToDate(j) /\ down'[j] = down[j] /\ sources'[j] = sources[j]
    BY <2>1 DEF LinkInv, TypeOK, FlagsType, WireType, ServerType, AgentType,
       SessionOwned, PusherHeard, UpToDate, Quiet, AgentEnumerate, Enumerated
  <2> QED
    BY <2>1, PushFrame DEF LinkInv, AgentEnumerate, Enumerated
<1> QED
  BY <1>1, <1>2, <1>3 DEF CoreInv

\* AgentHello preserves the invariant.
LEMMA AgentHelloStep ==
    ASSUME LinkInv, AgentHello
    PROVE  CoreInv'
<1>0. cur \in Sessions
  BY DEF LinkInv, TypeOK, AgentType, SessionOwned, AgentHello
<1>1. WireType' /\ ServerType' /\ AgentType'
  <2>1. WireType'
    <3>1. Hello \in UpMsgs
      BY DEF LinkInv, TypeOK, AgentType, Hello, UpMsgs
    <3>2. Append(up[cur], Hello) \in Seq(UpMsgs)
      BY <1>0, <3>1 DEF LinkInv, TypeOK, WireType
    <3> QED
      BY <1>0, <3>2 DEF LinkInv, TypeOK, WireType, AgentHello, SendUp
  <2>2. ServerType'
    BY AgentLinkAssumption DEF LinkInv, TypeOK, ServerType, HandlerPC, PusherPC,
       AgentHello, SendUp
  <2>3. AgentType'
    BY NoConfigType DEF LinkInv, TypeOK, WireType, AgentType, AgentPC,
       AgentHello, SendUp
  <2> QED
    BY <2>1, <2>2, <2>3
<1>2. SessionOwned' /\ EndsAgree' /\ PusherHeard' /\ Reconciled' /\ SupervisorsReaped'
  <2>1. SessionOwned'
    BY AgentLinkAssumption DEF LinkInv, TypeOK, WireType, AgentType,
       SessionOwned, AgentHello, SendUp
  <2>2. EndsAgree'
    <3>1. ASSUME NEW j \in Sessions, link[j] = "open", hpc[j] # "none"
          PROVE  j = cur /\ hpc[j] = "hello" /\ down[j] = <<>> /\ up[j] = <<>>
      <4>1. j = cur
        BY <3>1 DEF LinkInv, SessionOwned
      <4> QED
        BY <3>1, <4>1 DEF LinkInv, TypeOK, ServerType, HandlerPC, EndsAgree,
           Announced, AgentHello
    <3>2. \A j \in Sessions : link[j] = "open" /\ hpc[j] # "none" => up'[j] = <<Hello>>
      BY <3>1, <1>0, OneMessage DEF LinkInv, TypeOK, WireType, AgentHello,
         SendUp
    <3>3. Hello' = Hello
      BY DEF Hello, AgentHello
    <3> QED
      BY <3>1, <3>2, <3>3 DEF EndsAgree, Announced, AgentHello
  <2>3. PusherHeard'
    BY DEF LinkInv, TypeOK, ServerType, PusherHeard, AgentHello, SendUp
  <2>4. Reconciled'
    BY DEF LinkInv, SessionOwned, SupervisorsReaped, Reconciled, Desired,
       NoConfig, AgentHello
  <2>5. SupervisorsReaped'
    BY DEF LinkInv, TypeOK, AgentType, SupervisorsReaped, AgentHello, SendUp
  <2> QED
    BY <2>1, <2>2, <2>3, <2>4, <2>5
<1>3. PushesCoverChanges'
  <2>1. ASSUME NEW j \in Sessions, UpToDate(j)'
        PROVE  UpToDate(j) /\ down'[j] = down[j] /\ sources'[j] = sources[j]
    BY <2>1 DEF LinkInv, TypeOK, FlagsType, WireType, ServerType, AgentType,
       SessionOwned, PusherHeard, UpToDate, Quiet, AgentHello, SendUp, Hello
  <2> QED
    BY <2>1, PushFrame DEF LinkInv, AgentHello, SendUp, Hello
<1> QED
  BY <1>1, <1>2, <1>3 DEF CoreInv

\* AgentConfig preserves the invariant.
LEMMA AgentConfigStep ==
    ASSUME LinkInv, AgentConfig
    PROVE  CoreInv'
<1>0. cur \in Sessions
  BY DEF LinkInv, TypeOK, AgentType, SessionOwned, AgentConfig
<1>1. WireType' /\ ServerType' /\ AgentType'
  <2>1. WireType'
    BY <1>0, TailType DEF LinkInv, TypeOK, WireType, AgentConfig, Readable
  <2>2. ServerType'
    BY AgentLinkAssumption DEF LinkInv, TypeOK, ServerType, HandlerPC, PusherPC,
       AgentConfig
  <2>3. AgentType'
    <3>1. Head(down[cur]) \in DownMsgs
      BY <1>0, TailType DEF LinkInv, TypeOK, WireType, AgentConfig, Readable
    <3>2. lastCfg' \in Configs
      BY <3>1 DEF DownMsgs, AgentConfig
    <3> QED
      BY <3>2 DEF LinkInv, TypeOK, AgentType, AgentPC, AgentConfig
  <2> QED
    BY <2>1, <2>2, <2>3
<1>2. SessionOwned' /\ EndsAgree' /\ PusherHeard' /\ Reconciled' /\ SupervisorsReaped'
  BY AgentLinkAssumption DEF LinkInv, TypeOK, WireType, ServerType, AgentType,
     SessionOwned, EndsAgree, Announced, Hello, Resp, PusherHeard, Reconciled,
     Desired, SupervisorsReaped, AgentConfig, Readable
<1>3. PushesCoverChanges'
  <2> SUFFICES ASSUME NEW j \in Sessions, UpToDate(j)'
               PROVE  LastPushed(j)' = agentConfig(j, TRUE)'
    BY DEF PushesCoverChanges
  <2>1. UpToDate(j) /\ j = cur
    BY DEF UpToDate, Quiet, AgentConfig, LinkInv, SessionOwned
  <2>2. agentConfig(j, TRUE)' = agentConfig(j, TRUE)
    BY DEF agentConfig, AgentConfig
  <2>3. LastPushed(j)' = LastPushed(j)
    BY <2>1, ReadKeepsLast DEF LinkInv, TypeOK, WireType, LastPushed,
       AgentConfig, Readable
  <2> QED
    BY <2>1, <2>2, <2>3 DEF LinkInv, PushesCoverChanges
<1> QED
  BY <1>1, <1>2, <1>3 DEF CoreInv

\* ReconcileStop preserves the invariant.
LEMMA ReconcileStopStep ==
    ASSUME LinkInv, NEW s \in Sources, ReconcileStop(s)
    PROVE  CoreInv'
<1>1. WireType' /\ ServerType' /\ AgentType'
  BY NoConfigType, AgentLinkAssumption DEF LinkInv, TypeOK, WireType,
     ServerType, AgentType, HandlerPC, PusherPC, AgentPC, SessionOwned,
     ReconcileStop, Stop
<1>2. SessionOwned' /\ EndsAgree' /\ PusherHeard' /\ Reconciled' /\ SupervisorsReaped'
  BY AgentLinkAssumption DEF LinkInv, TypeOK, WireType, ServerType, AgentType,
     SessionOwned, EndsAgree, Announced, Hello, Resp, PusherHeard, Reconciled,
     Desired, SupervisorsReaped, ReconcileStop, Stop
<1>3. PushesCoverChanges'
  <2>1. ASSUME NEW j \in Sessions, UpToDate(j)'
        PROVE  UpToDate(j) /\ down'[j] = down[j] /\ sources'[j] = sources[j]
    BY <2>1 DEF LinkInv, TypeOK, FlagsType, WireType, ServerType, AgentType,
       SessionOwned, PusherHeard, UpToDate, Quiet, ReconcileStop, Stop
  <2> QED
    BY <2>1, PushFrame DEF LinkInv, ReconcileStop, Stop
<1> QED
  BY <1>1, <1>2, <1>3 DEF CoreInv

\* ReconcileStart preserves the invariant.
LEMMA ReconcileStartStep ==
    ASSUME LinkInv, ReconcileStart
    PROVE  CoreInv'
<1>1. WireType' /\ ServerType' /\ AgentType'
  <2>1. WireType'
    BY NoConfigType DEF LinkInv, TypeOK, WireType, SessionOwned, AgentType,
       ReconcileStart, Desired
  <2>2. ServerType'
    BY AgentLinkAssumption DEF LinkInv, TypeOK, ServerType, HandlerPC, PusherPC,
       ReconcileStart, Desired
  <2>3. AgentType'
    <3>1. Desired \in [Sources -> Settings \cup {Zero, None}]
      BY DEF LinkInv, TypeOK, AgentType, Configs, Desired
    <3> QED
      BY <3>1 DEF LinkInv, TypeOK, AgentType, AgentPC, ReconcileStart
  <2> QED
    BY <2>1, <2>2, <2>3
<1>2. SessionOwned' /\ EndsAgree' /\ PusherHeard' /\ Reconciled' /\ SupervisorsReaped'
  BY AgentLinkAssumption DEF LinkInv, TypeOK, WireType, ServerType, AgentType,
     SessionOwned, EndsAgree, Announced, Hello, Resp, PusherHeard, Reconciled,
     Desired, SupervisorsReaped, ReconcileStart
<1>3. PushesCoverChanges'
  <2>1. ASSUME NEW j \in Sessions, UpToDate(j)'
        PROVE  UpToDate(j) /\ down'[j] = down[j] /\ sources'[j] = sources[j]
    BY <2>1 DEF LinkInv, TypeOK, FlagsType, WireType, ServerType, AgentType,
       SessionOwned, PusherHeard, UpToDate, Quiet, ReconcileStart, Desired
  <2> QED
    BY <2>1, PushFrame DEF LinkInv, ReconcileStart, Desired
<1> QED
  BY <1>1, <1>2, <1>3 DEF CoreInv

\* AgentTick preserves the invariant.
LEMMA AgentTickStep ==
    ASSUME LinkInv, AgentTick
    PROVE  CoreInv'
<1>1. WireType' /\ ServerType' /\ AgentType'
  <2>1. WireType'
    BY NoConfigType DEF LinkInv, TypeOK, WireType, SessionOwned, AgentType,
       AgentTick, Streaks
  <2>2. ServerType'
    BY AgentLinkAssumption DEF LinkInv, TypeOK, ServerType, HandlerPC, PusherPC,
       AgentTick, Streaks
  <2>3. AgentType'
    <3>1. downStreak' \in [Sources -> 0..2]
      BY DEF LinkInv, TypeOK, AgentType, AgentTick, Streaks
    <3>2. apc' \in AgentPC
      BY Zenon DEF LinkInv, TypeOK, AgentType, AgentPC, AgentTick
    <3> QED
      BY <3>1, <3>2 DEF LinkInv, TypeOK, AgentType, AgentTick
  <2> QED
    BY <2>1, <2>2, <2>3
<1>2. SessionOwned' /\ EndsAgree' /\ PusherHeard' /\ Reconciled' /\ SupervisorsReaped'
  BY AgentLinkAssumption DEF LinkInv, TypeOK, WireType, ServerType, AgentType,
     SessionOwned, EndsAgree, Announced, Hello, Resp, PusherHeard, Reconciled,
     Desired, SupervisorsReaped, AgentTick, Streaks
<1>3. PushesCoverChanges'
  <2>1. ASSUME NEW j \in Sessions, UpToDate(j)'
        PROVE  UpToDate(j) /\ down'[j] = down[j] /\ sources'[j] = sources[j]
    BY <2>1 DEF LinkInv, TypeOK, FlagsType, WireType, ServerType, AgentType,
       SessionOwned, PusherHeard, UpToDate, Quiet, AgentTick, Streaks
  <2> QED
    BY <2>1, PushFrame DEF LinkInv, AgentTick, Streaks
<1> QED
  BY <1>1, <1>2, <1>3 DEF CoreInv

\* RescanStop preserves the invariant.
LEMMA RescanStopStep ==
    ASSUME LinkInv, NEW s \in Sources, RescanStop(s)
    PROVE  CoreInv'
<1>1. WireType' /\ ServerType' /\ AgentType'
  BY NoConfigType, AgentLinkAssumption DEF LinkInv, TypeOK, WireType,
     ServerType, AgentType, HandlerPC, PusherPC, AgentPC, SessionOwned,
     RescanStop, Stop
<1>2. SessionOwned' /\ EndsAgree' /\ PusherHeard' /\ Reconciled' /\ SupervisorsReaped'
  BY AgentLinkAssumption DEF LinkInv, TypeOK, WireType, ServerType, AgentType,
     SessionOwned, EndsAgree, Announced, Hello, Resp, PusherHeard, Reconciled,
     Desired, SupervisorsReaped, RescanStop, Stop
<1>3. PushesCoverChanges'
  <2>1. ASSUME NEW j \in Sessions, UpToDate(j)'
        PROVE  UpToDate(j) /\ down'[j] = down[j] /\ sources'[j] = sources[j]
    BY <2>1 DEF LinkInv, TypeOK, FlagsType, WireType, ServerType, AgentType,
       SessionOwned, PusherHeard, UpToDate, Quiet, RescanStop, Stop
  <2> QED
    BY <2>1, PushFrame DEF LinkInv, RescanStop, Stop
<1> QED
  BY <1>1, <1>2, <1>3 DEF CoreInv

\* RescanStopped preserves the invariant.
LEMMA RescanStoppedStep ==
    ASSUME LinkInv, RescanStopped
    PROVE  CoreInv'
<1>1. WireType' /\ ServerType' /\ AgentType'
  BY NoConfigType, AgentLinkAssumption DEF LinkInv, TypeOK, WireType,
     ServerType, AgentType, HandlerPC, PusherPC, AgentPC, SessionOwned,
     RescanStopped
<1>2. SessionOwned' /\ EndsAgree' /\ PusherHeard' /\ Reconciled' /\ SupervisorsReaped'
  BY AgentLinkAssumption DEF LinkInv, TypeOK, WireType, ServerType, AgentType,
     SessionOwned, EndsAgree, Announced, Hello, Resp, PusherHeard, Reconciled,
     Desired, SupervisorsReaped, RescanStopped
<1>3. PushesCoverChanges'
  <2>1. ASSUME NEW j \in Sessions, UpToDate(j)'
        PROVE  UpToDate(j) /\ down'[j] = down[j] /\ sources'[j] = sources[j]
    BY <2>1 DEF LinkInv, TypeOK, FlagsType, WireType, ServerType, AgentType,
       SessionOwned, PusherHeard, UpToDate, Quiet, RescanStopped
  <2> QED
    BY <2>1, PushFrame DEF LinkInv, RescanStopped
<1> QED
  BY <1>1, <1>2, <1>3 DEF CoreInv

\* Reenumerate preserves the invariant.
LEMMA ReenumerateStep ==
    ASSUME LinkInv, Reenumerate
    PROVE  CoreInv'
<1>1. WireType' /\ ServerType' /\ AgentType'
  BY NoConfigType, AgentLinkAssumption DEF LinkInv, TypeOK, WireType,
     ServerType, AgentType, HandlerPC, PusherPC, AgentPC, SessionOwned,
     Reenumerate, Enumerated
<1>2. SessionOwned' /\ EndsAgree' /\ PusherHeard' /\ Reconciled' /\ SupervisorsReaped'
  BY AgentLinkAssumption DEF LinkInv, TypeOK, WireType, ServerType, AgentType,
     SessionOwned, EndsAgree, Announced, Hello, Resp, PusherHeard, Reconciled,
     Desired, SupervisorsReaped, Reenumerate, Enumerated
<1>3. PushesCoverChanges'
  <2>1. ASSUME NEW j \in Sessions, UpToDate(j)'
        PROVE  UpToDate(j) /\ down'[j] = down[j] /\ sources'[j] = sources[j]
    BY <2>1 DEF LinkInv, TypeOK, FlagsType, WireType, ServerType, AgentType,
       SessionOwned, PusherHeard, UpToDate, Quiet, Reenumerate, Enumerated
  <2> QED
    BY <2>1, PushFrame DEF LinkInv, Reenumerate, Enumerated
<1> QED
  BY <1>1, <1>2, <1>3 DEF CoreInv

\* SessionFails preserves the invariant.
LEMMA SessionFailsStep ==
    ASSUME LinkInv, SessionFails
    PROVE  CoreInv'
<1>1. WireType' /\ ServerType' /\ AgentType'
  BY NoConfigType, AgentLinkAssumption DEF LinkInv, TypeOK, WireType,
     ServerType, AgentType, HandlerPC, PusherPC, AgentPC, SessionOwned,
     SessionFails, Broken
<1>2. SessionOwned' /\ EndsAgree' /\ PusherHeard' /\ Reconciled' /\ SupervisorsReaped'
  BY AgentLinkAssumption DEF LinkInv, TypeOK, WireType, ServerType, AgentType,
     SessionOwned, EndsAgree, Announced, Hello, Resp, PusherHeard, Reconciled,
     Desired, SupervisorsReaped, SessionFails, Broken
<1>3. PushesCoverChanges'
  <2>1. ASSUME NEW j \in Sessions, UpToDate(j)'
        PROVE  UpToDate(j) /\ down'[j] = down[j] /\ sources'[j] = sources[j]
    BY <2>1 DEF LinkInv, TypeOK, FlagsType, WireType, ServerType, AgentType,
       SessionOwned, PusherHeard, UpToDate, Quiet, SessionFails, Broken
  <2> QED
    BY <2>1, PushFrame DEF LinkInv, SessionFails, Broken
<1> QED
  BY <1>1, <1>2, <1>3 DEF CoreInv

\* ReapStop preserves the invariant.
LEMMA ReapStopStep ==
    ASSUME LinkInv, NEW s \in Sources, ReapStop(s)
    PROVE  CoreInv'
<1>1. WireType' /\ ServerType' /\ AgentType'
  BY NoConfigType, AgentLinkAssumption DEF LinkInv, TypeOK, WireType,
     ServerType, AgentType, HandlerPC, PusherPC, AgentPC, SessionOwned,
     ReapStop, Stop
<1>2. SessionOwned' /\ EndsAgree' /\ PusherHeard' /\ Reconciled' /\ SupervisorsReaped'
  BY AgentLinkAssumption DEF LinkInv, TypeOK, WireType, ServerType, AgentType,
     SessionOwned, EndsAgree, Announced, Hello, Resp, PusherHeard, Reconciled,
     Desired, SupervisorsReaped, ReapStop, Stop
<1>3. PushesCoverChanges'
  <2>1. ASSUME NEW j \in Sessions, UpToDate(j)'
        PROVE  UpToDate(j) /\ down'[j] = down[j] /\ sources'[j] = sources[j]
    BY <2>1 DEF LinkInv, TypeOK, FlagsType, WireType, ServerType, AgentType,
       SessionOwned, PusherHeard, UpToDate, Quiet, ReapStop, Stop
  <2> QED
    BY <2>1, PushFrame DEF LinkInv, ReapStop, Stop
<1> QED
  BY <1>1, <1>2, <1>3 DEF CoreInv

\* Close preserves the invariant.
LEMMA CloseStep ==
    ASSUME LinkInv, Close
    PROVE  CoreInv'
<1>1. WireType' /\ ServerType' /\ AgentType'
  BY NoConfigType, AgentLinkAssumption DEF LinkInv, TypeOK, WireType,
     ServerType, AgentType, HandlerPC, PusherPC, AgentPC, SessionOwned, Close,
     EndAgent, Shut
<1>2. SessionOwned' /\ EndsAgree' /\ PusherHeard' /\ Reconciled' /\ SupervisorsReaped'
  BY AgentLinkAssumption DEF LinkInv, TypeOK, WireType, ServerType, AgentType,
     SessionOwned, EndsAgree, Announced, Hello, Resp, PusherHeard, Reconciled,
     Desired, SupervisorsReaped, Close, EndAgent, Shut
<1>3. PushesCoverChanges'
  <2>1. \A j \in Sessions : link'[j] # "open"
    BY AgentLinkAssumption DEF LinkInv, TypeOK, WireType, AgentType,
       SessionOwned, Close, EndAgent, Shut
  <2> QED
    BY <2>1 DEF PushesCoverChanges, UpToDate
<1> QED
  BY <1>1, <1>2, <1>3 DEF CoreInv

\* SupUp preserves the invariant.
LEMMA SupUpStep ==
    ASSUME LinkInv, NEW s \in Sources, SupUp(s)
    PROVE  CoreInv'
<1>1. WireType' /\ ServerType' /\ AgentType'
  BY NoConfigType, AgentLinkAssumption DEF LinkInv, TypeOK, WireType,
     ServerType, AgentType, HandlerPC, PusherPC, AgentPC, SessionOwned, SupUp
<1>2. SessionOwned' /\ EndsAgree' /\ PusherHeard' /\ Reconciled' /\ SupervisorsReaped'
  BY AgentLinkAssumption DEF LinkInv, TypeOK, WireType, ServerType, AgentType,
     SessionOwned, EndsAgree, Announced, Hello, Resp, PusherHeard, Reconciled,
     Desired, SupervisorsReaped, SupUp
<1>3. PushesCoverChanges'
  <2>1. ASSUME NEW j \in Sessions, UpToDate(j)'
        PROVE  UpToDate(j) /\ down'[j] = down[j] /\ sources'[j] = sources[j]
    BY <2>1 DEF LinkInv, TypeOK, FlagsType, WireType, ServerType, AgentType,
       SessionOwned, PusherHeard, UpToDate, Quiet, SupUp
  <2> QED
    BY <2>1, PushFrame DEF LinkInv, SupUp
<1> QED
  BY <1>1, <1>2, <1>3 DEF CoreInv

\* SupDown preserves the invariant.
LEMMA SupDownStep ==
    ASSUME LinkInv, NEW s \in Sources, SupDown(s)
    PROVE  CoreInv'
<1>1. WireType' /\ ServerType' /\ AgentType'
  BY NoConfigType, AgentLinkAssumption DEF LinkInv, TypeOK, WireType,
     ServerType, AgentType, HandlerPC, PusherPC, AgentPC, SessionOwned, SupDown
<1>2. SessionOwned' /\ EndsAgree' /\ PusherHeard' /\ Reconciled' /\ SupervisorsReaped'
  BY AgentLinkAssumption DEF LinkInv, TypeOK, WireType, ServerType, AgentType,
     SessionOwned, EndsAgree, Announced, Hello, Resp, PusherHeard, Reconciled,
     Desired, SupervisorsReaped, SupDown
<1>3. PushesCoverChanges'
  <2>1. ASSUME NEW j \in Sessions, UpToDate(j)'
        PROVE  UpToDate(j) /\ down'[j] = down[j] /\ sources'[j] = sources[j]
    BY <2>1 DEF LinkInv, TypeOK, FlagsType, WireType, ServerType, AgentType,
       SessionOwned, PusherHeard, UpToDate, Quiet, SupDown
  <2> QED
    BY <2>1, PushFrame DEF LinkInv, SupDown
<1> QED
  BY <1>1, <1>2, <1>3 DEF CoreInv

\* Cut preserves the invariant.
LEMMA CutStep ==
    ASSUME LinkInv, NEW k \in Sessions, Cut(k)
    PROVE  CoreInv'
<1>1. WireType' /\ ServerType' /\ AgentType'
  BY NoConfigType, AgentLinkAssumption DEF LinkInv, TypeOK, WireType,
     ServerType, AgentType, HandlerPC, PusherPC, AgentPC, SessionOwned, Cut
<1>2. SessionOwned' /\ EndsAgree' /\ PusherHeard' /\ Reconciled' /\ SupervisorsReaped'
  BY AgentLinkAssumption DEF LinkInv, TypeOK, WireType, ServerType, AgentType,
     SessionOwned, EndsAgree, Announced, Hello, Resp, PusherHeard, Reconciled,
     Desired, SupervisorsReaped, Cut
<1>3. PushesCoverChanges'
  <2>1. ASSUME NEW j \in Sessions, UpToDate(j)'
        PROVE  UpToDate(j) /\ down'[j] = down[j] /\ sources'[j] = sources[j]
    BY <2>1 DEF LinkInv, TypeOK, FlagsType, WireType, ServerType, AgentType,
       SessionOwned, PusherHeard, UpToDate, Quiet, Cut
  <2> QED
    BY <2>1, PushFrame DEF LinkInv, Cut
<1> QED
  BY <1>1, <1>2, <1>3 DEF CoreInv

\* AgentExit preserves the invariant.
LEMMA AgentExitStep ==
    ASSUME LinkInv, AgentExit
    PROVE  CoreInv'
<1>1. WireType' /\ ServerType' /\ AgentType'
  BY NoConfigType, AgentLinkAssumption DEF LinkInv, TypeOK, WireType,
     ServerType, AgentType, HandlerPC, PusherPC, AgentPC, SessionOwned,
     AgentExit, EndAgent, Shut
<1>2. SessionOwned' /\ EndsAgree' /\ PusherHeard' /\ Reconciled' /\ SupervisorsReaped'
  BY AgentLinkAssumption DEF LinkInv, TypeOK, WireType, ServerType, AgentType,
     SessionOwned, EndsAgree, Announced, Hello, Resp, PusherHeard, Reconciled,
     Desired, SupervisorsReaped, AgentExit, EndAgent, Shut
<1>3. PushesCoverChanges'
  <2>1. \A j \in Sessions : link'[j] # "open"
    BY AgentLinkAssumption DEF LinkInv, TypeOK, WireType, AgentType,
       SessionOwned, AgentExit, EndAgent, Shut
  <2> QED
    BY <2>1 DEF PushesCoverChanges, UpToDate
<1> QED
  BY <1>1, <1>2, <1>3 DEF CoreInv

\* ApiRestart preserves the invariant.
LEMMA ApiRestartStep ==
    ASSUME LinkInv, ApiRestart
    PROVE  CoreInv'
<1>1. WireType' /\ ServerType' /\ AgentType'
  <2>1. WireType'
    BY NoConfigType DEF LinkInv, TypeOK, WireType, SessionOwned, AgentType,
       ApiRestart
  <2>2. ServerType'
    BY AgentLinkAssumption DEF LinkInv, TypeOK, ServerType, HandlerPC, PusherPC,
       ApiRestart
  <2>3. AgentType'
    BY NoConfigType DEF LinkInv, TypeOK, WireType, AgentType, AgentPC,
       ApiRestart
  <2> QED
    BY <2>1, <2>2, <2>3
<1>2. SessionOwned' /\ EndsAgree' /\ PusherHeard' /\ Reconciled' /\ SupervisorsReaped'
  BY AgentLinkAssumption DEF LinkInv, TypeOK, WireType, ServerType, AgentType,
     SessionOwned, EndsAgree, Announced, Hello, Resp, PusherHeard, Reconciled,
     Desired, SupervisorsReaped, ApiRestart
<1>3. PushesCoverChanges'
  <2>1. ASSUME NEW j \in Sessions, UpToDate(j)'
        PROVE  UpToDate(j) /\ down'[j] = down[j] /\ sources'[j] = sources[j]
    BY <2>1 DEF LinkInv, TypeOK, FlagsType, WireType, ServerType, AgentType,
       SessionOwned, PusherHeard, UpToDate, Quiet, ApiRestart
  <2> QED
    BY <2>1, PushFrame DEF LinkInv, ApiRestart
<1> QED
  BY <1>1, <1>2, <1>3 DEF CoreInv

\* Plug preserves the invariant.
LEMMA PlugStep ==
    ASSUME LinkInv, NEW s \in Sources, Plug(s)
    PROVE  CoreInv'
<1>1. WireType' /\ ServerType' /\ AgentType'
  BY NoConfigType, AgentLinkAssumption DEF LinkInv, TypeOK, WireType,
     ServerType, AgentType, HandlerPC, PusherPC, AgentPC, SessionOwned, Plug
<1>2. SessionOwned' /\ EndsAgree' /\ PusherHeard' /\ Reconciled' /\ SupervisorsReaped'
  BY AgentLinkAssumption DEF LinkInv, TypeOK, WireType, ServerType, AgentType,
     SessionOwned, EndsAgree, Announced, Hello, Resp, PusherHeard, Reconciled,
     Desired, SupervisorsReaped, Plug
<1>3. PushesCoverChanges'
  <2>1. ASSUME NEW j \in Sessions, UpToDate(j)'
        PROVE  UpToDate(j) /\ down'[j] = down[j] /\ sources'[j] = sources[j]
    BY <2>1 DEF LinkInv, TypeOK, FlagsType, WireType, ServerType, AgentType,
       SessionOwned, PusherHeard, UpToDate, Quiet, Plug
  <2> QED
    BY <2>1, PushFrame DEF LinkInv, Plug
<1> QED
  BY <1>1, <1>2, <1>3 DEF CoreInv

\* CoolDown preserves the invariant.
LEMMA CoolDownStep ==
    ASSUME LinkInv, CoolDown
    PROVE  CoreInv'
<1>1. WireType' /\ ServerType' /\ AgentType'
  BY NoConfigType, AgentLinkAssumption DEF LinkInv, TypeOK, WireType,
     ServerType, AgentType, HandlerPC, PusherPC, AgentPC, SessionOwned, CoolDown
<1>2. SessionOwned' /\ EndsAgree' /\ PusherHeard' /\ Reconciled' /\ SupervisorsReaped'
  BY AgentLinkAssumption DEF LinkInv, TypeOK, WireType, ServerType, AgentType,
     SessionOwned, EndsAgree, Announced, Hello, Resp, PusherHeard, Reconciled,
     Desired, SupervisorsReaped, CoolDown
<1>3. PushesCoverChanges'
  <2>1. ASSUME NEW j \in Sessions, UpToDate(j)'
        PROVE  UpToDate(j) /\ down'[j] = down[j] /\ sources'[j] = sources[j]
    BY <2>1 DEF LinkInv, TypeOK, FlagsType, WireType, ServerType, AgentType,
       SessionOwned, PusherHeard, UpToDate, Quiet, CoolDown
  <2> QED
    BY <2>1, PushFrame DEF LinkInv, CoolDown
<1> QED
  BY <1>1, <1>2, <1>3 DEF CoreInv

\* Every action of Next, from the lemmas above.
THEOREM LinkInvariant == Spec => []LinkInv
<1>1. Init => LinkInv
  BY InitLinkInv
<1>2. LinkInv /\ [Next]_vars => LinkInv'
  <2> SUFFICES ASSUME LinkInv, [Next]_vars PROVE LinkInv'
    OBVIOUS
  <2>1. CASE Next
    <3> SUFFICES CoreInv'
      BY <2>1, FlagsStep, BoundsStep DEF LinkInv, TypeOK, CoreInv
    <3>1. ASSUME NEW k \in Sessions, ServerStep(k) PROVE CoreInv'
      BY <3>1, ServerHandshakeStep, RejectStep, ServerHelloStep,
         PushInitialStep, HandlerEndStep DEF ServerStep
    <3>2. ASSUME NEW k \in Sessions, PusherStep(k) PROVE CoreInv'
      BY <3>2, PusherListenStep, PusherWakeStep, PusherSendStep, PusherEndStep
         DEF PusherStep
    <3>3. CASE AgentStep
      BY <3>3, AgentDialStep, AgentHandshakeStep, AgentEnumerateStep,
         AgentHelloStep, AgentConfigStep, ReconcileStopStep, RescanStopStep,
         ReapStopStep, ReconcileStartStep, RescanStoppedStep, ReenumerateStep,
         SessionFailsStep, CloseStep DEF AgentStep
    <3>4. CASE AgentTick
      BY <3>4, AgentTickStep
    <3>5. CASE UserStep
      BY <3>5, EditConfigStep, NotifyConfigStep, AuthorizeStep, RevokeStep DEF
         UserStep
    <3>6. CASE EnvStep
      BY <3>6, SupUpStep, SupDownStep, PlugStep, CutStep, PusherLostStep,
         IdleCloseStep, AgentExitStep, ApiRestartStep, CoolDownStep DEF EnvStep
    <3> QED
      BY <2>1, <3>1, <3>2, <3>3, <3>4, <3>5, <3>6 DEF Next
  <2>2. CASE UNCHANGED vars
    <3>1. TypeOK' /\ SessionOwned' /\ PusherHeard' /\ SupervisorsReaped'
      BY <2>2 DEF vars, LinkInv, TypeOK, FlagsType, WireType, ServerType,
         AgentType, BoundsType, SessionOwned, PusherHeard, SupervisorsReaped
    <3>2. EndsAgree' /\ Reconciled'
      BY <2>2 DEF vars, LinkInv, EndsAgree, Hello, Resp, Reconciled, Desired
    <3>3. PushesCoverChanges'
      BY <2>2, PushFrame DEF vars, LinkInv, UpToDate, Quiet
    <3> QED
      BY <3>1, <3>2, <3>3 DEF LinkInv
  <2> QED
    BY <2>1, <2>2
<1> QED
  BY <1>1, <1>2, PTL DEF Spec

\* No supervisor outlives its session or runs while rtl_test does.
THEOREM LinkReaped == Spec => []SupervisorsReaped
<1>1. LinkInv => SupervisorsReaped
  BY DEF LinkInv
<1> QED
  BY <1>1, LinkInvariant, PTL

\* The last configuration pushed is the database's unless a change went unheard.
THEOREM LinkPushes == Spec => []PushesCoverChanges
<1>1. LinkInv => PushesCoverChanges
  BY DEF LinkInv
<1> QED
  BY <1>1, LinkInvariant, PTL

\* A settled agent runs what the configuration says unless a change went
\* unheard: what was pushed is current, what was received is what was pushed,
\* and what runs is what was received.
THEOREM LinkFollows == Spec => []AgentFollowsConfig
<1>1. LinkInv => AgentFollowsConfig
  <2> SUFFICES ASSUME LinkInv, Settled, ~missed[cur] PROVE running = Wanted
    BY DEF AgentFollowsConfig
  <2>1. cur \in Sessions
    BY DEF LinkInv, TypeOK, AgentType, SessionOwned, Settled
  <2>2. lastCfg = agentConfig(cur, TRUE)
    BY <2>1 DEF LinkInv, PushesCoverChanges, UpToDate, Settled, LastPushed
  <2>3. sources[cur] = inv
    BY <2>1 DEF LinkInv, EndsAgree, Settled
  <2>4. running = Desired
    BY DEF LinkInv, Reconciled, Settled
  <2> QED
    BY <2>2, <2>3, <2>4 DEF Desired, Wanted, agentConfig
<1> QED
  BY <1>1, LinkInvariant, PTL
=============================================================================
