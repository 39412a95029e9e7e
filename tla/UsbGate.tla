------------------------------- MODULE UsbGate -------------------------------
(***************************************************************************)
(* The USB-open governor of cmd/capture/main.go (type usbGate, var bus).   *)
(*                                                                         *)
(* Every USB open (rtl_tcp by a supervisor, rtl_test by the manager) goes  *)
(* through one gate: a capacity-1 channel sem that serialises the open and *)
(* settle window, and a bus-wide escalating backoff (fails, nextOK).       *)
(*                                                                         *)
(* Time is counted in ticks.  The instant nextOK is kept as the number of  *)
(* ticks left until it (backoff), and a client asleep in sleepCtx as the   *)
(* ticks it still has to sleep, so the model needs no absolute clock.      *)
(*                                                                         *)
(* GateSpec lets the clients call the gate in any order its contract       *)
(* allows; Capture restricts them to what cmd/capture really does and is   *)
(* shown to implement GateSpec.                                            *)
(***************************************************************************)
EXTENDS Integers

CONSTANTS
    Clients,    \* whoever opens the bus: the supervisors and the enumerator
    GateBase,   \* gateBase, in ticks
    GateMax,    \* gateMax, in ticks
    WordSize,   \* 2^64 for the code's time.Duration; small in a model
    MaxFails    \* bound: the failure count saturates here

VARIABLES
    gpc,        \* where each client is inside begin() (or the window)
    sem,        \* how many tokens the sem channel holds
    fails,      \* consecutive fast failures
    backoff,    \* ticks until nextOK, 0 once it has passed
    asleep      \* ticks each client still sleeps in begin()

gateVars == <<gpc, sem, fails, backoff, asleep>>

(***************************************************************************)
(* gateBase << k in a signed machine word: the product wraps, and the      *)
(* upper half of the words are negative.                                   *)
(***************************************************************************)
Shifted(k) ==
    LET word == (GateBase * 2^k) % WordSize
    IN  IF 2 * word >= WordSize THEN word - WordSize ELSE word

\* The penalty fail() computes once it has counted its f-th failure.
Penalty(f) ==
    LET d == Shifted(f - 1)
    IN  IF d <= 0 \/ d > GateMax THEN GateMax ELSE d

ASSUME GateAssumption ==
    /\ GateBase \in Nat \ {0}
    /\ GateMax \in Nat
    /\ GateBase <= GateMax
    /\ WordSize \in Nat \ {0}
    /\ MaxFails \in Nat \ {0}

(***************************************************************************)
(* Penalties never shrink as failures accumulate.  For the code's values   *)
(* this holds: gateBase is 30e9 ns, an odd number times 2^10, so a wrapped *)
(* product is 0 or a nonzero multiple of 2^39 ns, beyond gateMax, and the  *)
(* guard in fail() turns both into gateMax.                                *)
(***************************************************************************)
ASSUME PenaltyMonotone ==
    \A f \in 1..MaxFails : \A g \in f..MaxFails : Penalty(f) <= Penalty(g)

GatePC == {"out", "loop", "sleep", "queue", "recheck", "in"}

GateTypeOK ==
    /\ gpc \in [Clients -> GatePC]
    /\ sem \in {0, 1}
    /\ fails \in 0..MaxFails
    /\ backoff \in 0..GateMax
    /\ asleep \in [Clients -> 0..GateMax]

GateInit ==
    /\ gpc = [c \in Clients |-> "out"]
    /\ sem = 0
    /\ fails = 0
    /\ backoff = 0
    /\ asleep = [c \in Clients |-> 0]

-----------------------------------------------------------------------------
(* begin(ctx): wait out the backoff, take the window, re-check.            *)

\* The call itself.
Enter(c) ==
    /\ gpc[c] = "out"
    /\ gpc' = [gpc EXCEPT ![c] = "loop"]
    /\ UNCHANGED <<sem, fails, backoff, asleep>>

\* Top of the loop: wait := time.Until(nextOK), under bmu.
ReadWait(c) ==
    /\ gpc[c] = "loop"
    /\ IF backoff > 0
       THEN /\ gpc' = [gpc EXCEPT ![c] = "sleep"]
            /\ asleep' = [asleep EXCEPT ![c] = backoff]
       ELSE /\ gpc' = [gpc EXCEPT ![c] = "queue"]
            /\ UNCHANGED asleep
    /\ UNCHANGED <<sem, fails, backoff>>

\* sleepCtx ran its full time.
Wake(c) ==
    /\ gpc[c] = "sleep"
    /\ asleep[c] = 0
    /\ gpc' = [gpc EXCEPT ![c] = "queue"]
    /\ UNCHANGED <<sem, fails, backoff, asleep>>

\* g.sem <- struct{}{}
Take(c) ==
    /\ gpc[c] = "queue"
    /\ sem = 0
    /\ sem' = 1
    /\ gpc' = [gpc EXCEPT ![c] = "recheck"]
    /\ UNCHANGED <<fails, backoff, asleep>>

\* Mutant of Recheck: the window is kept without a second look at nextOK.
RecheckBlind(c) ==
    /\ gpc[c] = "recheck"
    /\ gpc' = [gpc EXCEPT ![c] = "in"]
    /\ UNCHANGED <<sem, fails, backoff, asleep>>

\* ready := !time.Now().Before(g.nextOK): keep the window, or give it back.
Recheck(c) ==
    /\ gpc[c] = "recheck"
    /\ IF backoff = 0
       THEN /\ gpc' = [gpc EXCEPT ![c] = "in"]
            /\ UNCHANGED sem
       ELSE /\ gpc' = [gpc EXCEPT ![c] = "loop"]
            /\ sem' = 0
    /\ UNCHANGED <<fails, backoff, asleep>>

\* Mutant of Abort: a begin() that was cancelled releases the window it never took.
AbortReleases(c) ==
    /\ gpc[c] \in {"sleep", "queue"}
    /\ gpc' = [gpc EXCEPT ![c] = "out"]
    /\ asleep' = [asleep EXCEPT ![c] = 0]
    /\ sem' = 0
    /\ UNCHANGED <<fails, backoff>>

\* ctx was cancelled in one of the two selects: begin() returns false.
Abort(c) ==
    /\ gpc[c] \in {"sleep", "queue"}
    /\ gpc' = [gpc EXCEPT ![c] = "out"]
    /\ asleep' = [asleep EXCEPT ![c] = 0]
    /\ UNCHANGED <<sem, fails, backoff>>

-----------------------------------------------------------------------------
(* What the holder, and the judge of a finished run, do to the gate.       *)

\* end(): release the window.
End(c) ==
    /\ gpc[c] = "in"
    /\ sem = 1
    /\ sem' = 0
    /\ gpc' = [gpc EXCEPT ![c] = "out"]
    /\ UNCHANGED <<fails, backoff, asleep>>

\* Mutant of Fail: no guard against a wrapped shift, nextOK lands in the past.
FailUnguarded(c) ==
    /\ gpc[c] \in {"in", "out"}
    /\ fails' = IF fails < MaxFails THEN fails + 1 ELSE fails
    /\ LET d == Shifted(fails' - 1)
       IN  backoff' = IF d > GateMax THEN GateMax ELSE IF d < 0 THEN 0 ELSE d
    /\ UNCHANGED <<gpc, sem, asleep>>

\* ok() and fail() are called inside the window or after it, never from begin().
Ok(c) ==
    /\ gpc[c] \in {"in", "out"}
    /\ fails' = 0
    /\ backoff' = 0
    /\ UNCHANGED <<gpc, sem, asleep>>

Fail(c) ==
    /\ gpc[c] \in {"in", "out"}
    /\ fails' = IF fails < MaxFails THEN fails + 1 ELSE fails
    /\ backoff' = Penalty(fails')
    /\ UNCHANGED <<gpc, sem, asleep>>

\* Mutant of Elapse: a deadline already in the past keeps counting down.
ElapsePast(n) == n - 1

\* One tick of the wall clock; only ticks somebody can notice are modelled.
Elapse(n) == IF n > 0 THEN n - 1 ELSE 0

GateTick ==
    /\ backoff > 0 \/ \E c \in Clients : asleep[c] > 0
    /\ backoff' = Elapse(backoff)
    /\ asleep' = [c \in Clients |-> Elapse(asleep[c])]
    /\ UNCHANGED <<gpc, sem, fails>>

\* exitFn(1) ends the process: bus is a process global and starts afresh.
GateRestart ==
    /\ gpc' = [c \in Clients |-> "out"]
    /\ sem' = 0
    /\ fails' = 0
    /\ backoff' = 0
    /\ asleep' = [c \in Clients |-> 0]

GateNext ==
    \/ \E c \in Clients :
          \/ Enter(c) \/ ReadWait(c) \/ Wake(c) \/ Take(c) \/ Recheck(c)
          \/ Abort(c) \/ End(c) \/ Ok(c) \/ Fail(c)
    \/ GateTick
    \/ GateRestart

GateSpec == GateInit /\ [][GateNext]_gateVars

-----------------------------------------------------------------------------
(* Properties.                                                             *)

Holding(c) == gpc[c] \in {"recheck", "in"}

\* The serial window is real: the sem token is out exactly when one client is
\* between taking it and giving it back, and no two clients ever are, so two
\* opens never overlap (comment of var bus, main.go:93-101).
SerialWindow ==
    /\ \A c, d \in Clients : Holding(c) /\ Holding(d) => c = d
    /\ sem = 1 <=> \E c \in Clients : Holding(c)

\* begin() hands the window to a client only once the bus-wide backoff is
\* over, even when another client's fail() pushed nextOK out while it queued
\* (the re-check of main.go:139-145).
GrantAfterBackoff ==
    [][\A c \in Clients : gpc[c] # "in" /\ gpc'[c] = "in" => backoff = 0]_gateVars

\* The backoff gets shorter only as time passes or through ok(): a fail(),
\* whoever calls it and however far its shift overflowed (main.go:164-167),
\* never brings the next open closer.
BackoffOnlyDrains ==
    [][backoff' < backoff =>
          \/ fails' = 0
          \/ fails' = fails /\ backoff' = backoff - 1]_gateVars

\* The backoff in force is one the failures counted since the last ok() have
\* earned; it is what makes BackoffOnlyDrains inductive.
BackoffEarned ==
    backoff > 0 => fails > 0 /\ backoff <= Penalty(fails)

GateInv == GateTypeOK /\ SerialWindow /\ BackoffEarned
=============================================================================
