------------------------------ MODULE Registry ------------------------------
(***************************************************************************)
(* The readings and the two registries kept beside them: InsertReading     *)
(* (internal/db/db.go), called by one capture supervisor per dongle and by *)
(* the agents' sessions, against the API's deletions and maintenance       *)
(* (handleDeleteMeter, handleAdminDelete, handleMaintenance in             *)
(* cmd/api/handlers.go; internal/db/meters.go, admin.go).                  *)
(*                                                                         *)
(* None of these runs in a transaction: a call is a row of statements, and *)
(* the calls of two clients interleave between them.  A reading is its     *)
(* meter, dongle, counter and time; an index row keeps the columns that    *)
(* are computed from them.                                                 *)
(***************************************************************************)
EXTENDS Integers, Sequences, FiniteSets, FiniteSetsExt

CONSTANTS
    Meters, Sources,
    Counters,       \* values of a packet's consumption
    Nil,            \* SQL NULL, and no row
    MaxTS,          \* last packet time
    MaxInserts,     \* bound on packets
    MaxCalls,       \* bound on the API's calls
    MaxFaults       \* bound on statements that fail

\* The columns of meter_index that InsertReading computes.
IndexRows == [min : Counters \cup {Nil}, max : Counters \cup {Nil}, last : Counters \cup {Nil},
              ts : 1 .. MaxTS]

ASSUME RegistryAssumption ==
    /\ Counters \subseteq Nat /\ Nil \notin Counters \cup IndexRows
    /\ MaxTS \in Nat /\ MaxInserts \in Nat /\ MaxCalls \in Nat /\ MaxFaults \in Nat

VARIABLES
    readings,       \* table readings
    index,          \* table meter_index
    heard,          \* table meter_source, its keys
    ipc, pkt,       \* InsertReading of each dongle and the packet in hand
    script,         \* statements left of the API's call
    sure,           \* packets in hand whose registry rows nobody removes
    shown,          \* <<meter, dongle>> pairs stored since the last removal
    inserts, calls, faults

rvars == <<readings, index, heard, ipc, pkt, script, sure, shown,
           inserts, calls, faults>>

Packets == [m : Meters, s : Sources, c : Counters \cup {Nil}, ts : 1 .. MaxTS]

RInit ==
    /\ readings = {} /\ index = [m \in Meters |-> Nil] /\ heard = {}
    /\ ipc = [s \in Sources |-> "idle"] /\ pkt = [s \in Sources |-> Nil]
    /\ script = <<>> /\ sure = {} /\ shown = {}
    /\ inserts = 0 /\ calls = 0 /\ faults = 0

Faulty == faults < MaxFaults /\ faults' = faults + 1

-----------------------------------------------------------------------------
(* InsertReading.                                                          *)

\* LEAST and GREATEST of SQL, which skip NULL.
Least(a, b) == IF Nil \in {a, b} THEN (IF a = Nil THEN b ELSE a) ELSE Min({a, b})
Greatest(a, b) == IF Nil \in {a, b} THEN (IF a = Nil THEN b ELSE a) ELSE Max({a, b})

\* ON CONFLICT DO UPDATE of meter_index; packets, first_seen, last_seen and
\* the type columns are left out.
Upsert(row, p) ==
    IF row = Nil THEN [min |-> p.c, max |-> p.c, last |-> p.c, ts |-> p.ts]
    ELSE [min |-> Least(row.min, p.c), max |-> Greatest(row.max, p.c),
          last |-> IF p.c # Nil /\ p.ts >= row.ts THEN p.c ELSE row.last,
          ts |-> Greatest(row.ts, p.ts)]

\* Statements of the running call that remove registry rows of <<m, s>>.
Removes(st, m, s) ==
    \/ st.on \in {"index", "heard"} /\ st.of \in {m, Nil}
    \/ st.on = "heard" /\ st.of = s
Threatened(m, s) == \E k \in 1 .. Len(script) : Removes(script[k], m, s)

\* The packet is stored; an error ends the call.
InsertReading(s, p) ==
    /\ ipc[s] = "idle" /\ p.s = s /\ inserts < MaxInserts
    /\ inserts' = inserts + 1
    /\ \/ /\ readings' = readings \cup {p}
          /\ ipc' = [ipc EXCEPT ![s] = "index"] /\ pkt' = [pkt EXCEPT ![s] = p]
          /\ sure' = IF Threatened(p.m, s) THEN sure ELSE sure \cup {s}
          /\ UNCHANGED faults
       \/ Faulty /\ UNCHANGED <<readings, ipc, pkt, sure>>
    /\ UNCHANGED <<index, heard, script, shown, calls>>

\* meter_index; the error is dropped and the call goes on.
UpsertIndex(s) ==
    /\ ipc[s] = "index" /\ ipc' = [ipc EXCEPT ![s] = "source"]
    /\ \/ /\ index' = [index EXCEPT ![pkt[s].m] = Upsert(@, pkt[s])]
          /\ UNCHANGED <<sure, faults>>
       \/ Faulty /\ sure' = sure \ {s} /\ UNCHANGED index
    /\ UNCHANGED <<readings, heard, pkt, script, shown, inserts, calls>>

\* meter_source, then the NOTIFY (module Broker) and the return.
UpsertSource(s) ==
    /\ ipc[s] = "source"
    /\ ipc' = [ipc EXCEPT ![s] = "idle"] /\ pkt' = [pkt EXCEPT ![s] = Nil]
    /\ sure' = sure \ {s}
    /\ \/ /\ heard' = heard \cup {<<pkt[s].m, s>>}
          /\ shown' = IF s \in sure THEN shown \cup {<<pkt[s].m, s>>} ELSE shown
          /\ UNCHANGED faults
       \/ Faulty /\ UNCHANGED <<heard, shown>>
    /\ UNCHANGED <<readings, index, script, inserts, calls>>

-----------------------------------------------------------------------------
(* The API's calls: statements with the table they are on, what they are   *)
(* of, and whether an error ends the call.                                 *)

Stmt(on, of, must) == [on |-> on, of |-> of, must |-> must]

\* DeleteMeter with purge; the row of meters is the user's annotation.
DeleteMeter(m) == <<Stmt("readings", m, TRUE), Stmt("index", m, TRUE), Stmt("heard", m, TRUE)>>
DeleteReadingsBySource(s) == <<Stmt("readings", s, TRUE), Stmt("heard", s, FALSE)>>
DeleteReadingsOlderThan(t) == <<Stmt("chunks", t, FALSE), Stmt("older", t, TRUE)>>
PurgeAllReadings ==
    <<Stmt("readings", Nil, TRUE), Stmt("index", Nil, FALSE), Stmt("heard", Nil, FALSE)>>
ScrubZeros == <<Stmt("zeros", Nil, TRUE), Stmt("rollups", Nil, TRUE)>>

Scripts ==
    {DeleteMeter(m) : m \in Meters} \cup {DeleteReadingsBySource(s) : s \in Sources}
    \cup {DeleteReadingsOlderThan(t) : t \in 2 .. MaxTS} \cup {PurgeAllReadings, ScrubZeros}

\* The rows a DELETE or TRUNCATE leaves.
LeftReadings(st) ==
    CASE st.on = "readings" -> {r \in readings : st.of # Nil /\ st.of \notin {r.m, r.s}}
      [] st.on \in {"older", "chunks"} -> {r \in readings : r.ts >= st.of}
      [] st.on = "zeros" -> {r \in readings : r.c = Nil \/ r.c > 0}
      [] OTHER -> readings
LeftHeard(st) ==
    IF st.on = "heard" THEN {h \in heard : st.of # Nil /\ st.of \notin {h[1], h[2]}} ELSE heard

\* A mutant of Rollups: it recomputes the two columns the chart reads, only.
RollupsMinMax(m) ==
    LET rs == {r \in readings : r.m = m /\ r.c # Nil}
    IN  IF index[m] = Nil \/ rs = {} THEN {index[m]}
        ELSE {[index[m] EXCEPT !.min = Min({r.c : r \in rs}), !.max = Max({r.c : r \in rs})]}

\* The rollups of a meter recomputed from the readings that have a counter; a
\* meter without one is not in the subquery and keeps its row.
Rollups(m) ==
    LET rs == {r \in readings : r.m = m /\ r.c # Nil}
        ts == Max({r.ts : r \in rs})
    IN  IF index[m] = Nil \/ rs = {} THEN {index[m]}
        ELSE {[min |-> Min({r.c : r \in rs}), max |-> Max({r.c : r \in rs}),
               last |-> c, ts |-> ts] : c \in {r.c : r \in {q \in rs : q.ts = ts}}}

LeftIndex(st) ==
    CASE st.on = "index" -> {[m \in Meters |-> IF st.of \in {m, Nil} THEN Nil ELSE index[m]]}
      [] st.on = "rollups" -> {f \in [Meters -> UNION {Rollups(m) : m \in Meters}] :
                                   \A m \in Meters : f[m] \in Rollups(m)}
      [] OTHER -> {index}

\* handleDeleteMeter, handleAdminDelete, handleMaintenance: the call starts.
Call(sc) ==
    /\ script = <<>> /\ calls < MaxCalls /\ calls' = calls + 1
    /\ script' = sc
    /\ sure' = {s \in sure : \A k \in 1 .. Len(sc) : ~Removes(sc[k], pkt[s].m, s)}
    /\ shown' = {h \in shown : \A k \in 1 .. Len(sc) : ~Removes(sc[k], h[1], h[2])}
    /\ UNCHANGED <<readings, index, heard, ipc, pkt, inserts, faults>>

\* Its next statement; NotifyConfig and the answer follow the last.
Statement ==
    /\ script # <<>>
    /\ LET st == Head(script) IN
       \/ /\ readings' = LeftReadings(st) /\ heard' = LeftHeard(st)
          /\ index' \in LeftIndex(st)
          /\ script' = Tail(script) /\ UNCHANGED faults
       \/ /\ Faulty /\ script' = IF st.must THEN <<>> ELSE Tail(script)
          /\ UNCHANGED <<readings, heard, index>>
    /\ UNCHANGED <<ipc, pkt, sure, shown, inserts, calls>>

RNext ==
    \/ \E s \in Sources : \/ \E p \in Packets : InsertReading(s, p)
                          \/ UpsertIndex(s) \/ UpsertSource(s)
    \/ \E sc \in Scripts : Call(sc)
    \/ Statement

RegistrySpec == RInit /\ [][RNext]_rvars

-----------------------------------------------------------------------------
(* Properties.                                                             *)

\* A meter the dashboard lists, and the dongles it says hear it, are the ones
\* that were stored: whatever a purge did to the calls it overlapped, a packet
\* stored after it makes its meter and dongle appear ("it reappears only if it
\* broadcasts again", DeleteMeter), and the latest counter of a row lies
\* between its smallest and its largest.
RegistryHonest ==
    /\ \A h \in shown : index[h[1]] # Nil /\ h \in heard
    /\ \A m \in Meters : index[m] # Nil =>
         LET row == index[m] IN
         IF row.min = Nil THEN row.max = Nil /\ row.last = Nil
         ELSE row.last = Nil \/ (row.min <= row.last /\ row.last <= row.max)
=============================================================================
