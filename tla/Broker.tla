------------------------------- MODULE Broker -------------------------------
(***************************************************************************)
(* The API's fan-out of Postgres notifications to server-sent-event        *)
(* streams: broker (cmd/api/broker.go) and handleStream                    *)
(* (cmd/api/handlers.go).                                                  *)
(*                                                                         *)
(* publish walks the clients under the mutex and never blocks on one: a    *)
(* client reads its channel between two of its sends.  An event is its     *)
(* place in the order of the NOTIFYs.                                      *)
(***************************************************************************)
EXTENDS Naturals, Sequences

CONSTANTS
    Streams,        \* requests for /api/stream
    ChanCap,        \* capacity of a client's channel (16)
    MaxEvents,      \* bound on NOTIFYs
    MaxLosses       \* bound on losses of the listening connection

ASSUME BrokerAssumption ==
    ChanCap \in Nat \ {0} /\ MaxEvents \in Nat /\ MaxLosses \in Nat

VARIABLES
    clients,        \* broker.clients
    chan,           \* what each channel holds
    closed,         \* channels closed by remove
    spc,            \* handleStream of each request
    lpc,            \* run
    wire,           \* notifications on its connection
    msg, left,      \* publish: the event and the clients it has still to reach
    events, losses,
    got, due, full  \* received; published while a client; its channel was full

bvars == <<clients, chan, closed, spc, lpc, wire, msg, left, events, losses,
           got, due, full>>

BInit ==
    /\ clients = {} /\ closed = {} /\ chan = [c \in Streams |-> <<>>]
    /\ spc = [c \in Streams |-> "new"]
    /\ lpc = "acquire" /\ wire = <<>> /\ msg = 0 /\ left = {}
    /\ events = 0 /\ losses = 0
    /\ got = [c \in Streams |-> <<>>] /\ due = [c \in Streams |-> <<>>] /\ full = {}

\* The mutex is publish's while it has a client to reach.
Free == left = {}

-----------------------------------------------------------------------------
(* handleStream.                                                           *)

\* add.
Add(c) ==
    /\ spc[c] = "new" /\ Free
    /\ spc' = [spc EXCEPT ![c] = "streaming"] /\ clients' = clients \cup {c}
    /\ UNCHANGED <<chan, closed, lpc, wire, msg, left, events, losses, got, due, full>>

\* The select's message case; its ok is never false while c is a client.
Receive(c) ==
    /\ spc[c] = "streaming" /\ chan[c] # <<>>
    /\ got' = [got EXCEPT ![c] = Append(@, Head(chan[c]))]
    /\ chan' = [chan EXCEPT ![c] = Tail(@)]
    /\ UNCHANGED <<clients, closed, spc, lpc, wire, msg, left, events, losses, due, full>>

\* The request's context is done: the select may take this case with messages
\* waiting, and remove runs when the mutex is free.
Leave(c) ==
    /\ spc[c] = "streaming" /\ spc' = [spc EXCEPT ![c] = "leaving"]
    /\ UNCHANGED <<clients, chan, closed, lpc, wire, msg, left, events, losses, got, due, full>>

Remove(c) ==
    /\ spc[c] = "leaving" /\ Free
    /\ spc' = [spc EXCEPT ![c] = "gone"]
    /\ IF c \in clients
       THEN clients' = clients \ {c} /\ closed' = closed \cup {c}
       ELSE UNCHANGED <<clients, closed>>
    /\ UNCHANGED <<chan, lpc, wire, msg, left, events, losses, got, due, full>>

-----------------------------------------------------------------------------
(* run and publish.                                                        *)

\* Acquire and LISTEN.
Listen ==
    /\ lpc = "acquire" /\ lpc' = "wait" /\ wire' = <<>>
    /\ UNCHANGED <<clients, chan, closed, spc, msg, left, events, losses, got, due, full>>

\* A NOTIFY of a writer: InsertReading, NotifyConfig, NotifyTests,
\* NotifyReference.  Nobody hears one sent while the listener is away.
Notify ==
    /\ events < MaxEvents /\ events' = events + 1
    /\ wire' = IF lpc = "wait" THEN Append(wire, events + 1) ELSE wire
    /\ UNCHANGED <<clients, chan, closed, spc, lpc, msg, left, losses, got, due, full>>

\* WaitForNotification returns one, and publish takes the mutex.
Publish ==
    /\ lpc = "wait" /\ wire # <<>> /\ Free
    /\ msg' = Head(wire) /\ wire' = Tail(wire) /\ left' = clients
    /\ due' = [c \in Streams |-> IF c \in clients THEN Append(due[c], Head(wire)) ELSE due[c]]
    /\ UNCHANGED <<clients, chan, closed, spc, lpc, events, losses, got, full>>

\* A mutant of Send: it gives up the loop at the first full channel.
SendOrStop(c) ==
    /\ c \in left
    /\ IF Len(chan[c]) < ChanCap
       THEN chan' = [chan EXCEPT ![c] = Append(@, msg)] /\ left' = left \ {c} /\ UNCHANGED full
       ELSE full' = full \cup {c} /\ left' = {} /\ UNCHANGED chan
    /\ UNCHANGED <<clients, closed, spc, lpc, wire, msg, events, losses, got, due>>

\* The loop's select: sent if there is room, dropped for this client if not.
Send(c) ==
    /\ c \in left /\ left' = left \ {c}
    /\ IF Len(chan[c]) < ChanCap
       THEN chan' = [chan EXCEPT ![c] = Append(@, msg)] /\ UNCHANGED full
       ELSE full' = full \cup {c} /\ UNCHANGED chan
    /\ UNCHANGED <<clients, closed, spc, lpc, wire, msg, events, losses, got, due>>

\* The connection fails: what was on it is lost, and run acquires another.
Lose ==
    /\ lpc = "wait" /\ Free /\ losses < MaxLosses
    /\ losses' = losses + 1 /\ lpc' = "acquire" /\ wire' = <<>>
    /\ UNCHANGED <<clients, chan, closed, spc, msg, left, events, got, due, full>>

BNext ==
    \/ \E c \in Streams : Add(c) \/ Receive(c) \/ Leave(c) \/ Remove(c) \/ Send(c)
    \/ Listen \/ Notify \/ Publish \/ Lose

BrokerSpec == BInit /\ [][BNext]_bvars

-----------------------------------------------------------------------------
(* Properties.                                                             *)

\* s is what is left of t after dropping events: at says where they were.
Thinned(s, t) ==
    \E at \in [1 .. Len(s) -> 1 .. Len(t)] :
        /\ \A i, j \in 1 .. Len(s) : i < j => at[i] < at[j]
        /\ \A i \in 1 .. Len(s) : s[i] = t[at[i]]

\* A slow stream loses its own events and nobody else's: between two sends a
\* stream holds, received or waiting, exactly the events published while it
\* was a client, in their order, unless its own channel was full; then it
\* holds some of them, still in order.  No send goes to a closed channel,
\* which would end the process.
OnlySlowLose ==
    /\ \A c \in left : c \notin closed
    /\ \A c \in Streams \ left :
         LET held == got[c] \o chan[c] IN
         IF c \in full THEN Thinned(held, due[c]) ELSE held = due[c]
=============================================================================
