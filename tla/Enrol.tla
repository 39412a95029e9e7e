------------------------------- MODULE Enrol -------------------------------
(***************************************************************************)
(* The identities behind the agent channel and the list of approved keys:  *)
(* ensureAgentCrypto, handleAgentServerKey, handleAuthorizeAgent and       *)
(* handleRevokeAgent (cmd/api/agent.go); resolveServerKey, fetchServerKey  *)
(* and loadAgentKey (cmd/capture/agent.go).                                *)
(*                                                                         *)
(* A key pair is known by a number, 0 when there is none: the pair that    *)
(* public key 3 and private key 3 make is whole.  The server's identity is *)
(* two settings written one after the other; an agent's is a file.  The    *)
(* list of approved keys is one setting, read and written back by each     *)
(* edit without a lock.                                                    *)
(***************************************************************************)
EXTENDS Naturals, FiniteSets

CONSTANTS
    Agents,
    Edits,          \* requests that edit the list
    MaxPairs,       \* bound on key pairs generated, of each party
    MaxStarts,      \* bound on starts of a process, the first ones included
    MaxErrors       \* bound on failing queries and file writes

ASSUME EnrolAssumption ==
    MaxPairs \in Nat /\ MaxStarts \in Nat /\ MaxErrors \in Nat

VARIABLES
    dbKeyPub, dbKeyPriv,    \* settings agent_server_pub and agent_server_priv
    dbList,         \* setting agent_authorized
    apc, srvPub, srvPriv,   \* ensureAgentCrypto, and s.agent
    pairs,          \* pairs the server generated
    pinFile, keyFile,   \* each agent's server.key and agent.key
    up, pin, own,   \* an agent that runs, and the keys it runs with
    made,           \* pairs each agent generated
    ed,             \* the edits under way
    starts, errors,
    entered,        \* agents that had a session since their last revocation
    unsaved,        \* pairs of which a half could not be saved
    unkept,         \* agents whose key file could not be written
    crossed         \* an edit overlapped another, or read nothing

srvVars == <<dbKeyPub, dbKeyPriv, apc, srvPub, srvPriv, pairs>>
agentVars == <<pinFile, keyFile, up, pin, own, made, unkept>>
listVars == <<dbList, ed, crossed>>
nvars == <<srvVars, agentVars, listVars, starts, errors, entered, unsaved>>

Idle == [pc |-> "new"]

NInit ==
    /\ dbKeyPub = 0 /\ dbKeyPriv = 0 /\ dbList = {}
    /\ apc = "down" /\ srvPub = 0 /\ srvPriv = 0 /\ pairs = 0
    /\ pinFile = [a \in Agents |-> 0] /\ keyFile = [a \in Agents |-> 0]
    /\ up = {} /\ pin = [a \in Agents |-> 0] /\ own = [a \in Agents |-> 0]
    /\ made = [a \in Agents |-> 0]
    /\ ed = [e \in Edits |-> Idle]
    /\ starts = 0 /\ errors = 0
    /\ entered = {} /\ unsaved = {} /\ unkept = {} /\ crossed = FALSE

Erring == errors < MaxErrors /\ errors' = errors + 1
Starting == starts < MaxStarts /\ starts' = starts + 1

Key(a) == <<a, own[a]>>

-----------------------------------------------------------------------------
(* The API.                                                                *)

\* The settings have no whole identity.
Missing == dbKeyPub = 0 \/ dbKeyPriv = 0

\* ensureAgentCrypto reads the settings and takes the pair, or generates one.
\* Without the settings the agent channel stays off.
Boot ==
    /\ apc = "down" /\ Starting
    /\ \/ /\ ~Missing /\ srvPub' = dbKeyPub /\ srvPriv' = dbKeyPriv
          /\ apc' = "up" /\ UNCHANGED <<pairs, errors>>
       \/ /\ Missing /\ pairs < MaxPairs /\ pairs' = pairs + 1
          /\ srvPub' = pairs + 1 /\ srvPriv' = pairs + 1
          /\ apc' = "pub" /\ UNCHANGED errors
       \/ Erring /\ apc' = "off" /\ UNCHANGED <<srvPub, srvPriv, pairs>>
    /\ UNCHANGED <<dbKeyPub, dbKeyPriv, agentVars, listVars, entered, unsaved>>

\* The two writes, whose errors are dropped.
WritePub ==
    /\ apc = "pub" /\ apc' = "priv"
    /\ \/ dbKeyPub' = srvPub /\ UNCHANGED <<errors, unsaved>>
       \/ Erring /\ unsaved' = unsaved \cup {srvPub} /\ UNCHANGED dbKeyPub
    /\ UNCHANGED <<dbKeyPriv, srvPub, srvPriv, pairs, agentVars, listVars, starts, entered>>

WritePriv ==
    /\ apc = "priv" /\ apc' = "up"
    /\ \/ dbKeyPriv' = srvPriv /\ UNCHANGED <<errors, unsaved>>
       \/ Erring /\ unsaved' = unsaved \cup {srvPub} /\ UNCHANGED dbKeyPriv
    /\ UNCHANGED <<dbKeyPub, srvPub, srvPriv, pairs, agentVars, listVars, starts, entered>>

\* The API dies, at any step; the edits under way die with it.
ApiDies ==
    /\ apc # "down" /\ apc' = "down" /\ srvPub' = 0 /\ srvPriv' = 0
    /\ ed' = [e \in Edits |-> IF ed[e].pc = "write" THEN [pc |-> "done"] ELSE ed[e]]
    /\ unsaved' = IF apc = "priv" THEN unsaved \cup {srvPub} ELSE unsaved
    /\ UNCHANGED <<dbKeyPub, dbKeyPriv, pairs, agentVars, dbList, crossed, starts, errors, entered>>

-----------------------------------------------------------------------------
(* An agent.                                                               *)

\* Mutant of KeyOf: the key file is not read.
KeyOfNew(a) == made[a] + 1

\* loadAgentKey: the pair of the file, else a new one.
KeyOf(a) == IF keyFile[a] # 0 THEN keyFile[a] ELSE made[a] + 1

\* fetchServerKey: handleAgentServerKey's answer, or none.
Fetched == IF apc = "up" THEN srvPub ELSE 0

\* resolveServerKey: the pinned key, else the one it fetches.
PinOf(a) == IF pinFile[a] # 0 THEN pinFile[a] ELSE Fetched

\* runAgent, which exits when there is no server key.  The write of either file
\* may fail.
AgentStart(a) ==
    LET p == PinOf(a)
        k == KeyOf(a)
    IN
    /\ a \notin up /\ Starting /\ p # 0
    /\ k <= MaxPairs
    /\ up' = up \cup {a} /\ pin' = [pin EXCEPT ![a] = p] /\ own' = [own EXCEPT ![a] = k]
    /\ made' = IF k > made[a] THEN [made EXCEPT ![a] = k] ELSE made
    /\ \/ /\ pinFile' = [pinFile EXCEPT ![a] = p] /\ keyFile' = [keyFile EXCEPT ![a] = k]
          /\ UNCHANGED <<unkept, errors>>
       \/ /\ Erring /\ pinFile[a] = 0
          /\ keyFile' = [keyFile EXCEPT ![a] = k] /\ UNCHANGED <<pinFile, unkept>>
       \/ /\ Erring /\ keyFile[a] = 0
          /\ pinFile' = [pinFile EXCEPT ![a] = p] /\ unkept' = unkept \cup {a}
          /\ UNCHANGED keyFile
    /\ UNCHANGED <<srvVars, listVars, entered, unsaved>>

AgentDies(a) ==
    /\ a \in up /\ up' = up \ {a}
    /\ UNCHANGED <<srvVars, pinFile, keyFile, pin, own, made, unkept, listVars, starts, errors,
                   entered, unsaved>>

\* Both handshakes open what was sealed for the pinned key, which takes the
\* private key of the same pair; srvPub is never looked at.
Admits(a) == apc = "up" /\ Key(a) \in dbList /\ pin[a] = srvPriv

Enter(a) ==
    /\ a \in up /\ Admits(a) /\ entered' = entered \cup {a}
    /\ UNCHANGED <<srvVars, agentVars, listVars, starts, errors, unsaved>>

-----------------------------------------------------------------------------
(* The list.                                                               *)

Editing == \E e \in Edits : ed[e].pc = "write"

\* The list, which is empty when GetSettings fails.
Read(e, add, k) ==
    /\ ed[e].pc = "new" /\ apc \in {"up", "off"}
    /\ \/ ed' = [ed EXCEPT ![e] = [pc |-> "write", add |-> add, key |-> k, list |-> dbList]]
          /\ crossed' = (crossed \/ Editing) /\ UNCHANGED errors
       \/ Erring /\ ed' = [ed EXCEPT ![e] = [pc |-> "write", add |-> add, key |-> k, list |-> {}]]
          /\ crossed' = TRUE
    /\ entered' = IF add THEN entered ELSE entered \ {k[1]}
    /\ UNCHANGED <<srvVars, agentVars, dbList, starts, unsaved>>

\* A key the user knows: the agent logs it, or the pending list shows it.
Authorize(e, a) == own[a] # 0 /\ Read(e, TRUE, Key(a))
Revoke(e, a) == Key(a) \in dbList /\ Read(e, FALSE, Key(a))

\* SetSetting; an error is answered with 500.
WriteList(e) ==
    /\ ed[e].pc = "write" /\ ed' = [ed EXCEPT ![e] = [pc |-> "done"]]
    /\ \/ /\ dbList' = IF ed[e].add THEN ed[e].list \cup {ed[e].key} ELSE ed[e].list \ {ed[e].key}
          /\ entered' = IF ed[e].add THEN entered ELSE entered \ {ed[e].key[1]}
          /\ UNCHANGED errors
       \/ Erring /\ UNCHANGED <<dbList, entered>>
    /\ UNCHANGED <<srvVars, agentVars, crossed, starts, unsaved>>

NNext ==
    \/ Boot \/ WritePub \/ WritePriv \/ ApiDies
    \/ \E a \in Agents : AgentStart(a) \/ AgentDies(a) \/ Enter(a)
    \/ \E e \in Edits : WriteList(e) \/ \E a \in Agents : Authorize(e, a) \/ Revoke(e, a)

EnrolSpec == NInit /\ [][NNext]_nvars

-----------------------------------------------------------------------------
(* Properties.                                                             *)

\* An approval survives every restart of either side: an agent that once had a
\* session, and was not revoked, is admitted again whenever both run.  What may
\* break it is named: an identity or a key file that could not be saved when it
\* was made, and edits of the list that overlapped or read nothing.  A server
\* that offers its key has the private half of it, unless two boots each
\* saved one half only.
EnrolmentKept ==
    /\ \A a \in up \ unkept :
         apc = "up" /\ a \in entered /\ pin[a] \notin unsaved /\ ~crossed => Admits(a)
    /\ apc = "up" /\ Cardinality(unsaved) < 2 => srvPub = srvPriv
=============================================================================
