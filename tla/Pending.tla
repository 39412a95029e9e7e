------------------------------- MODULE Pending -------------------------------
(***************************************************************************)
(* The agents that wait for approval: pendingAgents, the two callbacks     *)
(* handleAgentWS gives to ServerHandshake, and the list handleAgents shows *)
(* (cmd/api/agent.go).                                                     *)
(*                                                                         *)
(* An agent that is turned away knocks again every five seconds.  A knock  *)
(* reads the authorized list first and the table later, so an approval may *)
(* come in between.  The clock is in units of a few minutes.               *)
(***************************************************************************)
EXTENDS Integers, FiniteSets

CONSTANTS
    Keys,           \* public keys that knock
    PendingMax,     \* pendingMax (32)
    PendingTTL,     \* pendingTTL (10 minutes)
    MaxClock,       \* bound on time
    MaxApprovals,   \* bound on approvals and revocations
    MaxMisses       \* bound on GetSettings that fail, and restarts

ASSUME PendingAssumption ==
    /\ PendingMax \in Nat \ {0} /\ PendingTTL \in Nat
    /\ MaxClock \in Nat /\ MaxApprovals \in Nat /\ MaxMisses \in Nat

VARIABLES
    pclock,
    table,          \* p.m: key to LastSeen
    approved,       \* the authorized list
    refused,        \* knocks between authorized and onUnauthorized
    toDrop,         \* handleAuthorizeAgent between its write and remove
    last,           \* time of each key's last refused knock, or -1
    dropped,        \* keys the API removed since, on an approval
    approvals, misses

pvars == <<pclock, table, approved, refused, toDrop, last, dropped, approvals, misses>>

PInit ==
    /\ pclock = 0 /\ table = << >> /\ approved = {} /\ refused = {} /\ toDrop = {}
    /\ last = [k \in Keys |-> -1] /\ dropped = {} /\ approvals = 0 /\ misses = 0

Miss == misses < MaxMisses /\ misses' = misses + 1

Only(ks) == [k \in ks |-> table[k]]

\* gcLocked.
Fresh == {k \in DOMAIN table : pclock - table[k] <= PendingTTL}

-----------------------------------------------------------------------------
\* authorized: a hit is removed from the table.  A failing GetSettings looks
\* like an empty list.
Knock(k) ==
    /\ k \notin refused
    /\ \/ /\ k \in approved /\ table' = Only(DOMAIN table \ {k}) /\ dropped' = dropped \cup {k}
          /\ UNCHANGED <<refused, misses>>
       \/ /\ refused' = refused \cup {k}
          /\ IF k \in approved THEN Miss ELSE UNCHANGED misses
          /\ UNCHANGED <<table, dropped>>
    /\ UNCHANGED <<pclock, approved, toDrop, last, approvals>>

\* The tables without the least recently seen key, whichever of equals.
Evictions(ks) ==
    IF Cardinality(ks) < PendingMax THEN {ks}
    ELSE {ks \ {k} : k \in {j \in ks : \A i \in ks : table[j] <= table[i]}}

\* Mutant of Refreshed: the entry keeps the time it was made at.
RefreshedNot(k) == table

\* The entry of a key that knocks again.
Refreshed(k) == [table EXCEPT ![k] = pclock]

\* add.
Refuse(k) ==
    /\ k \in refused /\ refused' = refused \ {k}
    /\ IF k \in DOMAIN table THEN table' = Refreshed(k)
       ELSE \E ks \in Evictions(Fresh) :
              table' = [j \in ks \cup {k} |-> IF j = k THEN pclock ELSE table[j]]
    /\ last' = [last EXCEPT ![k] = pclock] /\ dropped' = dropped \ {k}
    /\ UNCHANGED <<pclock, approved, toDrop, approvals, misses>>

\* handleAuthorizeAgent, then its remove.
Approve(k) ==
    /\ approvals < MaxApprovals /\ approvals' = approvals + 1
    /\ approved' = approved \cup {k} /\ toDrop' = toDrop \cup {k}
    /\ UNCHANGED <<pclock, table, refused, last, dropped, misses>>

DropApproved(k) ==
    /\ k \in toDrop /\ toDrop' = toDrop \ {k}
    /\ table' = Only(DOMAIN table \ {k}) /\ dropped' = dropped \cup {k}
    /\ UNCHANGED <<pclock, approved, refused, last, approvals, misses>>

\* handleRevokeAgent leaves the table alone.
Disapprove(k) ==
    /\ k \in approved /\ approvals < MaxApprovals /\ approvals' = approvals + 1
    /\ approved' = approved \ {k}
    /\ UNCHANGED <<pclock, table, refused, toDrop, last, dropped, misses>>

\* list, which collects first; handleAgents leaves out the approved.
List ==
    /\ Fresh # DOMAIN table /\ table' = Only(Fresh)
    /\ UNCHANGED <<pclock, approved, refused, toDrop, last, dropped, approvals, misses>>
Listed == Fresh \ approved

\* The API dies; its table is in memory.
PRestart ==
    /\ Miss
    /\ table' = << >> /\ refused' = {} /\ toDrop' = {}
    /\ last' = [k \in Keys |-> -1] /\ dropped' = {}
    /\ UNCHANGED <<pclock, approved, approvals>>

Minutes ==
    /\ pclock < MaxClock /\ pclock' = pclock + 1
    /\ UNCHANGED <<table, approved, refused, toDrop, last, dropped, approvals, misses>>

PNext ==
    \/ \E k \in Keys : Knock(k) \/ Refuse(k) \/ Approve(k) \/ DropApproved(k) \/ Disapprove(k)
    \/ List \/ PRestart \/ Minutes

PendingSpec == PInit /\ [][PNext]_pvars

-----------------------------------------------------------------------------
(* Properties.                                                             *)

\* An agent that was refused within the last ten minutes is on the list the
\* user approves from, however approvals and knocks interleave, unless as many
\* others as the table holds were refused since; and the table is bounded.
KnocksListed ==
    /\ Cardinality(DOMAIN table) <= PendingMax
    /\ \A k \in Keys \ (approved \cup dropped) :
         last[k] >= 0 /\ pclock - last[k] <= PendingTTL
         => k \in Listed \/ Cardinality({j \in Keys \ {k} : last[j] >= last[k]}) >= PendingMax
=============================================================================
