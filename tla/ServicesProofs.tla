--------------------------- MODULE ServicesProofs ---------------------------
(***************************************************************************)
(* Proofs about the services beside the radio: Aggregate, Broker, Pending, *)
(* Registry and Enrol, each for every value of its constants.  They share  *)
(* no state, so each has an invariant and a theorem of its own.            *)
(***************************************************************************)
EXTENDS Registry, Broker, Aggregate, Pending, Enrol,
        FiniteSetTheorems, SequenceTheorems, WellFoundedInduction, TLAPS

-----------------------------------------------------------------------------
(* Smallest and largest elements.                                          *)

\* A set of naturals that is not empty has a smallest element, which is Min.
LEMMA MinOfNaturals ==
    ASSUME NEW S \in SUBSET Nat, S # {}
    PROVE  Min(S) \in S /\ \A x \in S : Min(S) <= x
<1>1. IsWellFoundedOn(OpToRel(<, Nat), Nat) BY NatLessThanWellFounded
<1>2. PICK x \in S : \A y \in S : ~ (<<y, x>> \in OpToRel(<, Nat)) BY <1>1, WFMin
<1>3. \A y \in S : <<y, x>> \in OpToRel(<, Nat) <=> y < x BY DEF OpToRel
<1>4. \A y \in S : ~ (y < x) BY <1>2, <1>3, Zenon
<1>5. \A y \in S : x <= y BY <1>4
<1> QED BY <1>5 DEF Min

\* The smaller of two numbers.
LEMMA MinOfTwo ==
    ASSUME NEW a \in Int, NEW b \in Int
    PROVE  Min({a, b}) \in {a, b} /\ Min({a, b}) <= a /\ Min({a, b}) <= b
<1>1. \E x \in {a, b} : \A y \in {a, b} : x <= y OBVIOUS
<1> QED BY <1>1 DEF Min

\* A bounded set of naturals that is not empty has a largest element, Max.
LEMMA MaxOfNaturals ==
    ASSUME NEW S \in SUBSET Nat, S # {}, NEW n \in Nat, \A x \in S : x <= n
    PROVE  Max(S) \in S /\ \A x \in S : x <= Max(S)
<1> DEFINE T == {n - x : x \in S}
<1>1. T \in SUBSET Nat /\ T # {}
    <2>1. \A x \in S : n - x \in Nat OBVIOUS
    <2> QED BY <2>1
<1>2. Min(T) \in T /\ \A y \in T : Min(T) <= y BY <1>1, MinOfNaturals
<1>3. PICK m \in S : Min(T) = n - m BY <1>2
<1>4. ASSUME NEW x \in S PROVE x <= m
    <2>1. n - x \in T OBVIOUS
    <2>2. n - m <= n - x BY <1>2, <1>3, <2>1
    <2> QED BY <2>2
<1> QED BY <1>4 DEF Max

LEMMA MaxOfTwo ==
    ASSUME NEW a \in Int, NEW b \in Int
    PROVE  Max({a, b}) \in {a, b} /\ Max({a, b}) >= a /\ Max({a, b}) >= b
<1>1. \E x \in {a, b} : \A y \in {a, b} : x >= y OBVIOUS
<1> QED BY <1>1 DEF Max

-----------------------------------------------------------------------------
(* Aggregate.                                                              *)

AggregateType ==
    /\ day \in Nat \ {0} /\ stored \subseteq 1..(day - 1)
    /\ mark \in Int /\ mark <= day
    /\ gpc \in {"off", "top", "refresh", "mark", "done"} /\ from \in Int /\ to \in Int

\* The range in hand starts at the watermark, or no later than the history, and
\* ends in the past; once it is refreshed there is no hole before its end.
RangeInv ==
    /\ gpc \in {"refresh", "mark"} =>
         from <= day /\ to <= day /\ \A d \in stored : d < from => d < mark
    /\ gpc = "mark" => \A d \in stored : d < to => d \in mat

AggregateInv == AggregateType /\ WatermarkHonest /\ RangeInv

LEMMA AggregateStep == ASSUME AggregateInv, [GNext]_gvars PROVE AggregateInv'
<1> USE AggregateAssumption DEF AggregateInv, AggregateType, RangeInv, WatermarkHonest
<1>1. CASE Deploy BY <1>1 DEF Deploy
<1>2. CASE NextRange
    <2> DEFINE start == IF mark # NoMark THEN mark ELSE Min(stored)
               target == day - Horizon
               end == Min({start + Step, target})
    <2>1. CASE gpc' = "done" /\ mark' = day /\ stored = {} /\ UNCHANGED <<day, stored, mat, from, to>>
        BY <2>1
    <2>2. CASE gpc' = "done" /\ UNCHANGED <<day, stored, mat, mark, from, to>>
        BY <2>2
    <2>3. CASE /\ mark # NoMark \/ stored # {}
               /\ start < target
               /\ gpc' = "refresh" /\ from' = start /\ to' = end
               /\ UNCHANGED <<day, stored, mat, mark>>
        <3>1. start \in Int /\ \A d \in stored : d < start => d < mark
            <4>1. CASE mark # NoMark BY <4>1
            <4>2. CASE mark = NoMark
                <5>0. stored # {} BY <2>3, <4>2, Zenon
                <5>1. stored \in SUBSET Nat /\ stored # {} BY <5>0
                <5>2. Min(stored) \in stored /\ \A x \in stored : Min(stored) <= x
                    BY <5>1, MinOfNaturals
                <5> DEFINE oldest == Min(stored)
                <5>3. start = oldest BY <4>2
                <5>4. oldest \in stored /\ \A x \in stored : oldest <= x BY <5>2
                <5> HIDE DEF oldest, start
                <5> QED BY <5>1, <5>3, <5>4
            <4> QED BY <4>1, <4>2
        <3> HIDE DEF start
        <3>2. target \in Int /\ target <= day /\ start + Step \in Int BY <3>1
        <3> HIDE DEF target
        <3>3. end \in Int /\ end <= target BY <3>1, <3>2, MinOfTwo
        <3> HIDE DEF end
        <3> QED BY <2>3, <3>1, <3>2, <3>3
    <2> HIDE DEF AggregateInv, AggregateType, RangeInv, WatermarkHonest
    <2> QED BY <1>2, <2>1, <2>2, <2>3 DEF NextRange
<1>3. CASE RefreshReadings1h
    <2>1. CASE UNCHANGED mat BY <1>3, <2>1 DEF RefreshReadings1h
    <2>2. CASE mat' = (mat \ (from .. to - 1)) \cup (stored \cap (from .. to - 1))
        <3>1. \A d \in stored : d \in Int BY DEF AggregateType
        <3>2. \A d \in stored : d \in mat => d \in mat' BY <2>2
        <3>3. \A d \in stored : d >= from /\ d < to => d \in mat' BY <2>2, <3>1
        <3> QED BY <1>3, <3>1, <3>2, <3>3 DEF RefreshReadings1h
    <2> QED BY <1>3, <2>1, <2>2 DEF RefreshReadings1h
<1>4. CASE SetMark BY <1>4 DEF SetMark
<1>5. ASSUME NEW b \in BOOLEAN, Day(b) PROVE AggregateInv'
    <2>1. day' = day + 1 /\ UNCHANGED <<mat, mark, gpc, from, to>> /\ stored' \in {stored, stored \cup {day}}
        BY <1>5 DEF Day
    <2>2. \A d \in stored' : d \in stored \/ d = day BY <2>1
    <2>3. stored' \subseteq 1..(day' - 1) BY <2>1
    <2> QED BY <2>1, <2>2, <2>3
<1>6. CASE Policy
    <2>1. \A d \in stored : d \in mat => d \in mat' BY <1>6 DEF Policy
    <2> QED BY <1>6, <2>1 DEF Policy
<1>7. CASE PurgeReadings BY <1>7 DEF PurgeReadings
<1>8. CASE Restart BY <1>8 DEF Restart
<1>9. CASE UNCHANGED gvars BY <1>9 DEF gvars
<1> QED BY <1>1, <1>2, <1>3, <1>4, <1>5, <1>6, <1>7, <1>8, <1>9 DEF GNext

(* Whatever fails, dies, or is purged, and however the policy and the loop *)
(* interleave, no stored day before the watermark is missing from          *)
(* readings_1h.                                                            *)
THEOREM AggregateWatermarkHonest == AggregateSpec => []WatermarkHonest
<1>1. GInit => AggregateInv
    BY DEF GInit, NoMark, AggregateInv, AggregateType, RangeInv, WatermarkHonest
<1>2. AggregateInv /\ [GNext]_gvars => AggregateInv' BY AggregateStep
<1>3. AggregateInv => WatermarkHonest BY DEF AggregateInv
<1> QED BY <1>1, <1>2, <1>3, PTL DEF AggregateSpec

-----------------------------------------------------------------------------
(* Broker.                                                                 *)

\* A sequence is left of itself, and of itself with one more event; so is what
\* was left of it, whether the event is kept or not.
LEMMA ThinnedSame == ASSUME NEW s \in Seq(Nat) PROVE Thinned(s, s)
<1> DEFINE at == [i \in 1..Len(s) |-> i]
<1>1. /\ at \in [1..Len(s) -> 1..Len(s)]
      /\ \A i, j \in 1..Len(s) : i < j => at[i] < at[j]
      /\ \A i \in 1..Len(s) : s[i] = s[at[i]]
    OBVIOUS
<1> QED BY <1>1, Zenon DEF Thinned

LEMMA ThinnedDrop ==
    ASSUME NEW s \in Seq(Nat), NEW t \in Seq(Nat), NEW e \in Nat, Thinned(s, t)
    PROVE  Thinned(s, Append(t, e))
<1>1. PICK at \in [1..Len(s) -> 1..Len(t)] :
          /\ \A i, j \in 1..Len(s) : i < j => at[i] < at[j]
          /\ \A i \in 1..Len(s) : s[i] = t[at[i]]
    BY DEF Thinned
<1> DEFINE u == Append(t, e)
<1>2. Len(t) \in Nat /\ Len(u) = Len(t) + 1 /\ \A i \in 1..Len(t) : u[i] = t[i] OBVIOUS
<1> HIDE DEF u
<1>3. at \in [1..Len(s) -> 1..Len(u)] BY <1>2
<1>4. \A i \in 1..Len(s) : s[i] = u[at[i]] BY <1>1, <1>2
<1> QED BY <1>1, <1>3, <1>4 DEF Thinned, u

LEMMA ThinnedKeep ==
    ASSUME NEW s \in Seq(Nat), NEW t \in Seq(Nat), NEW e \in Nat, Thinned(s, t)
    PROVE  Thinned(Append(s, e), Append(t, e))
<1>1. PICK at \in [1..Len(s) -> 1..Len(t)] :
          /\ \A i, j \in 1..Len(s) : i < j => at[i] < at[j]
          /\ \A i \in 1..Len(s) : s[i] = t[at[i]]
    BY DEF Thinned
<1> DEFINE r == Append(s, e)
           u == Append(t, e)
           n == Len(s)
           m == Len(t)
           to2 == [i \in 1..(n + 1) |-> IF i = n + 1 THEN m + 1 ELSE at[i]]
<1>2. n \in Nat /\ m \in Nat /\ Len(r) = n + 1 /\ Len(u) = m + 1 OBVIOUS
<1>3. /\ \A i \in 1..n : r[i] = s[i]
      /\ \A i \in 1..m : u[i] = t[i]
      /\ r[n + 1] = e /\ u[m + 1] = e
    OBVIOUS
<1> HIDE DEF r, u, n, m
<1>4. at \in [1..n -> 1..m] BY <1>1 DEF n, m
<1>5. \A i, j \in 1..n : i < j => at[i] < at[j] BY <1>1 DEF n
<1>6. \A i \in 1..n : s[i] = t[at[i]] BY <1>1 DEF n
<1>7. to2 \in [1..(n + 1) -> 1..(m + 1)]
    <2>1. \A i \in 1..(n + 1) : i # n + 1 => i \in 1..n BY <1>2
    <2>2. \A i \in 1..n : at[i] \in 1..(m + 1) BY <1>2, <1>4
    <2>3. m + 1 \in 1..(m + 1) BY <1>2
    <2> QED BY <2>1, <2>2, <2>3
<1>8. ASSUME NEW i \in 1..(n + 1), NEW j \in 1..(n + 1), i < j PROVE to2[i] < to2[j]
    <2>1. i \in 1..n /\ at[i] \in 1..m /\ to2[i] = at[i] BY <1>2, <1>4, <1>8
    <2>2. CASE j = n + 1 BY <1>2, <2>1, <2>2
    <2>3. CASE j \in 1..n
        <3>1. to2[j] = at[j] BY <1>2, <2>3
        <3> HIDE DEF to2
        <3> QED BY <1>5, <1>8, <2>1, <2>3, <3>1
    <2> QED BY <1>2, <2>2, <2>3
<1>9. ASSUME NEW i \in 1..(n + 1) PROVE r[i] = u[to2[i]]
    <2>1. CASE i = n + 1 BY <1>2, <1>3, <2>1
    <2>2. CASE i \in 1..n
        <3>1. to2[i] = at[i] /\ at[i] \in 1..m BY <1>2, <1>4, <2>2
        <3> HIDE DEF to2
        <3> QED BY <1>3, <1>6, <2>2, <3>1
    <2> QED BY <1>2, <2>1, <2>2
<1> HIDE DEF to2
<1>10. Thinned(r, u) BY <1>2, <1>7, <1>8, <1>9 DEF Thinned
<1> QED BY <1>10 DEF r, u

\* What a stream holds is the same when it receives, and longer by the event it
\* is sent.
LEMMA HeldOnReceive ==
    ASSUME NEW g \in Seq(Nat), NEW q \in Seq(Nat), q # <<>>
    PROVE  /\ Append(g, Head(q)) \in Seq(Nat) /\ Tail(q) \in Seq(Nat)
           /\ Append(g, Head(q)) \o Tail(q) = g \o q
<1> DEFINE h == Append(g, Head(q))
           t == Tail(q)
<1>1. h \in Seq(Nat) /\ t \in Seq(Nat) /\ Len(h) = Len(g) + 1 /\ Len(t) = Len(q) - 1
    BY EmptySeq
<1>2. /\ \A i \in 1..Len(g) : h[i] = g[i]
      /\ h[Len(g) + 1] = q[1] /\ \A i \in 1..Len(t) : t[i] = q[i + 1]
    BY EmptySeq
<1>3. Len(q) \in Nat \ {0} /\ Len(g) \in Nat BY EmptySeq
<1> HIDE DEF h, t
<1> DEFINE a == h \o t
           b == g \o q
<1>4. /\ a \in Seq(Nat) /\ Len(a) = Len(h) + Len(t)
      /\ \A i \in 1..(Len(h) + Len(t)) : a[i] = IF i <= Len(h) THEN h[i] ELSE t[i - Len(h)]
    BY <1>1, ConcatProperties, Zenon
<1>5. /\ b \in Seq(Nat) /\ Len(b) = Len(g) + Len(q)
      /\ \A i \in 1..(Len(g) + Len(q)) : b[i] = IF i <= Len(g) THEN g[i] ELSE q[i - Len(g)]
    BY ConcatProperties, Zenon
<1> HIDE DEF a, b
<1>6. Len(a) = Len(b) BY <1>1, <1>3, <1>4, <1>5
<1>7. ASSUME NEW i \in 1..Len(a) PROVE a[i] = b[i]
    <2> DEFINE n == Len(g)
               k == Len(q)
    <2>1. n \in Nat /\ k \in Nat \ {0} /\ i \in 1..(n + k) BY <1>3, <1>5, <1>6
    <2>2. a[i] = IF i <= n + 1 THEN h[i] ELSE t[i - (n + 1)] BY <1>1, <1>3, <1>4
    <2>3. b[i] = IF i <= n THEN g[i] ELSE q[i - n] BY <1>5, <1>6
    <2>4. /\ \A j \in 1..n : h[j] = g[j]
          /\ h[n + 1] = q[1] /\ \A j \in 1..(k - 1) : t[j] = q[j + 1]
        BY <1>1, <1>2
    <2> HIDE DEF n, k
    <2>5. CASE i <= n BY <2>1, <2>2, <2>3, <2>4, <2>5
    <2>6. CASE i = n + 1
        <3>1. i - n = 1 BY <2>1, <2>6
        <3> QED BY <2>1, <2>2, <2>3, <2>4, <2>6, <3>1
    <2>7. CASE i > n + 1
        <3>1. i - (n + 1) \in 1..(k - 1) /\ i - n = i - (n + 1) + 1 BY <2>1, <2>7
        <3>2. t[i - (n + 1)] = q[i - n] BY <2>4, <3>1
        <3> QED BY <2>1, <2>2, <2>3, <2>7, <3>2
    <2> QED BY <2>1, <2>5, <2>6, <2>7
<1>8. a = b BY <1>4, <1>5, <1>6, <1>7, SeqEqual
<1> QED BY <1>1, <1>8 DEF h, t, a, b

LEMMA HeldOnSend ==
    ASSUME NEW g \in Seq(Nat), NEW q \in Seq(Nat), NEW e \in Nat
    PROVE  g \o Append(q, e) = Append(g \o q, e)
OBVIOUS

\* Who may be reached: publish still has clients to reach only, and a channel
\* is closed when its request is gone.
ReachInv ==
    /\ left \subseteq clients /\ clients \subseteq Streams
    /\ closed \subseteq Streams /\ spc \in [Streams -> {"new", "streaming", "leaving", "gone"}]
    /\ \A c \in clients : spc[c] \in {"streaming", "leaving"}
    /\ \A c \in closed : spc[c] = "gone"

BrokerType ==
    /\ chan \in [Streams -> Seq(Nat)] /\ got \in [Streams -> Seq(Nat)] /\ due \in [Streams -> Seq(Nat)]
    /\ wire \in Seq(Nat) /\ msg \in Nat /\ events \in Nat /\ full \subseteq Streams

\* What a stream holds, and that it is what is due to it, but for the event
\* that is being published and, with a full channel, for the dropped ones.
Held(c) == got[c] \o chan[c]
HoldsOf(c, past) == IF c \in full THEN Thinned(Held(c), past) ELSE Held(c) = past
DueInv ==
    \A c \in Streams : \E past \in Seq(Nat) :
        /\ due[c] = IF c \in left THEN Append(past, msg) ELSE past
        /\ HoldsOf(c, past)

BrokerInv == ReachInv /\ BrokerType /\ DueInv

LEMMA ReachStep == ASSUME ReachInv, [BNext]_bvars PROVE ReachInv'
<1> USE DEF ReachInv
<1>1. ASSUME NEW c \in Streams, Add(c) PROVE ReachInv' BY <1>1 DEF Add, Free
<1>2. ASSUME NEW c \in Streams, Receive(c) PROVE ReachInv' BY <1>2 DEF Receive
<1>3. ASSUME NEW c \in Streams, Leave(c) PROVE ReachInv' BY <1>3 DEF Leave
<1>4. ASSUME NEW c \in Streams, Remove(c) PROVE ReachInv' BY <1>4 DEF Remove, Free
<1>5. ASSUME NEW c \in Streams, Send(c) PROVE ReachInv' BY <1>5 DEF Send
<1>6. CASE Listen BY <1>6 DEF Listen
<1>7. CASE Notify BY <1>7 DEF Notify
<1>8. CASE Publish BY <1>8 DEF Publish
<1>9. CASE Lose BY <1>9 DEF Lose
<1>10. CASE UNCHANGED bvars BY <1>10 DEF bvars
<1> QED BY <1>1, <1>2, <1>3, <1>4, <1>5, <1>6, <1>7, <1>8, <1>9, <1>10 DEF BNext

\* Steps that neither publish, send nor receive.
Quiet == UNCHANGED <<chan, msg, left, got, due, full>> /\ wire' \in Seq(Nat) /\ events' \in Nat

LEMMA QuietStep == ASSUME BrokerType, DueInv, Quiet PROVE BrokerType' /\ DueInv'
<1>1. BrokerType' BY DEF Quiet, BrokerType
<1>2. \A c : Held(c)' = Held(c) BY DEF Quiet, Held
<1>3. DueInv'
    <2> SUFFICES ASSUME NEW c \in Streams
                 PROVE  \E past \in Seq(Nat) : /\ due'[c] = IF c \in left' THEN Append(past, msg') ELSE past
                                               /\ HoldsOf(c, past)'
        BY DEF DueInv
    <2>1. PICK past \in Seq(Nat) : /\ due[c] = IF c \in left THEN Append(past, msg) ELSE past
                                   /\ HoldsOf(c, past)
        BY DEF DueInv
    <2>2. HoldsOf(c, past)' BY <1>2, <2>1 DEF Quiet, HoldsOf
    <2> QED BY <2>1, <2>2 DEF Quiet
<1> QED BY <1>1, <1>3

LEMMA ReceiveStep == ASSUME BrokerInv, NEW c \in Streams, Receive(c) PROVE BrokerType' /\ DueInv'
<1>1. /\ chan[c] # <<>> /\ UNCHANGED <<msg, left, due, full, wire, events>>
      /\ got' = [got EXCEPT ![c] = Append(@, Head(chan[c]))]
      /\ chan' = [chan EXCEPT ![c] = Tail(@)]
    BY DEF Receive
<1>2. /\ chan \in [Streams -> Seq(Nat)] /\ got \in [Streams -> Seq(Nat)]
      /\ chan[c] \in Seq(Nat) /\ got[c] \in Seq(Nat)
    BY DEF BrokerInv, BrokerType
<1>3. /\ Append(got[c], Head(chan[c])) \in Seq(Nat) /\ Tail(chan[c]) \in Seq(Nat)
      /\ Append(got[c], Head(chan[c])) \o Tail(chan[c]) = got[c] \o chan[c]
    BY <1>1, <1>2, HeldOnReceive
<1>4. /\ got' \in [Streams -> Seq(Nat)] /\ got'[c] = Append(got[c], Head(chan[c]))
      /\ \A d \in Streams \ {c} : got'[d] = got[d]
    BY <1>1, <1>2, <1>3
<1>5. /\ chan' \in [Streams -> Seq(Nat)] /\ chan'[c] = Tail(chan[c])
      /\ \A d \in Streams \ {c} : chan'[d] = chan[d]
    BY <1>1, <1>2, <1>3
<1>6. \A d \in Streams : Held(d)' = Held(d)
    <2>1. got'[c] \o chan'[c] = got[c] \o chan[c] BY <1>3, <1>4, <1>5, Zenon
    <2>2. \A d \in Streams \ {c} : got'[d] \o chan'[d] = got[d] \o chan[d] BY <1>4, <1>5, Zenon
    <2> QED BY <2>1, <2>2, Zenon DEF Held
<1>7. BrokerType' BY <1>1, <1>4, <1>5 DEF BrokerInv, BrokerType
<1>8. DueInv'
    <2> SUFFICES ASSUME NEW d \in Streams
                 PROVE  \E past \in Seq(Nat) : /\ due'[d] = IF d \in left' THEN Append(past, msg') ELSE past
                                               /\ HoldsOf(d, past)'
        BY DEF DueInv
    <2>1. PICK past \in Seq(Nat) : /\ due[d] = IF d \in left THEN Append(past, msg) ELSE past
                                   /\ HoldsOf(d, past)
        BY DEF BrokerInv, DueInv
    <2>2. HoldsOf(d, past)' BY <1>1, <1>6, <2>1 DEF HoldsOf
    <2> QED BY <1>1, <2>1, <2>2
<1> QED BY <1>7, <1>8

LEMMA PublishStep == ASSUME BrokerInv, Publish PROVE BrokerType' /\ DueInv'
<1>1. /\ wire # <<>> /\ left = {} /\ msg' = Head(wire) /\ wire' = Tail(wire) /\ left' = clients
      /\ due' = [c \in Streams |-> IF c \in clients THEN Append(due[c], Head(wire)) ELSE due[c]]
      /\ UNCHANGED <<chan, events, got, full>>
    BY DEF Publish, Free
<1>2. wire \in Seq(Nat) /\ due \in [Streams -> Seq(Nat)] BY DEF BrokerInv, BrokerType
<1>3. Head(wire) \in Nat /\ Tail(wire) \in Seq(Nat) BY <1>1, <1>2, EmptySeq
<1>4. msg' \in Nat /\ due' \in [Streams -> Seq(Nat)]
    <2>1. \A c \in Streams : Append(due[c], Head(wire)) \in Seq(Nat) BY <1>2, <1>3
    <2> QED BY <1>1, <1>2, <1>3, <2>1
<1>5. BrokerType' BY <1>1, <1>3, <1>4 DEF BrokerInv, BrokerType
<1>6. DueInv'
    <2> SUFFICES ASSUME NEW c \in Streams
                 PROVE  \E past \in Seq(Nat) : /\ due'[c] = IF c \in left' THEN Append(past, msg') ELSE past
                                               /\ HoldsOf(c, past)'
        BY DEF DueInv
    <2>1. due[c] \in Seq(Nat) /\ HoldsOf(c, due[c]) BY <1>1 DEF BrokerInv, DueInv
    <2>3. Held(c)' = Held(c) BY <1>1 DEF Held
    <2> DEFINE past == due[c]
    <2>4. IF c \in full' THEN Thinned(Held(c)', past) ELSE Held(c)' = past
        BY <1>1, <2>1, <2>3 DEF HoldsOf
    <2>5. due'[c] = IF c \in left' THEN Append(past, msg') ELSE past BY <1>1
    <2>6. past \in Seq(Nat) BY <2>1
    <2> HIDE DEF past
    <2> QED BY <2>4, <2>5, <2>6 DEF HoldsOf
<1> QED BY <1>5, <1>6

\* A client is reached: its event is in what is due to it from now on.
LEMMA ReachedStep ==
    ASSUME DueInv, NEW c \in left, NEW all \in Seq(Nat), due[c] = all, HoldsOf(c, all)',
           left' = left \ {c}, UNCHANGED <<msg, due>>,
           \A d \in Streams \ {c} : Held(d)' = Held(d) /\ (d \in full' <=> d \in full)
    PROVE  DueInv'
<1> SUFFICES ASSUME NEW d \in Streams
             PROVE  \E p \in Seq(Nat) : /\ due'[d] = IF d \in left' THEN Append(p, msg') ELSE p
                                        /\ HoldsOf(d, p)'
    BY DEF DueInv
<1>1. CASE d = c
    <2>1. due'[d] = all /\ d \notin left' BY <1>1
    <2>2. HoldsOf(d, all)' BY <1>1
    <2> QED BY <2>1, <2>2
<1>2. CASE d # c
    <2>1. PICK p \in Seq(Nat) : /\ due[d] = IF d \in left THEN Append(p, msg) ELSE p
                                /\ HoldsOf(d, p)
        BY DEF DueInv
    <2>2. Held(d)' = Held(d) /\ (d \in full' <=> d \in full) BY <1>2
    <2>3. HoldsOf(d, p)' BY <2>1, <2>2 DEF HoldsOf
    <2> QED BY <1>2, <2>1, <2>3
<1> QED BY <1>1, <1>2

LEMMA SendStep == ASSUME BrokerInv, NEW c \in Streams, Send(c) PROVE BrokerType' /\ DueInv'
<1>1. /\ c \in left /\ left' = left \ {c} /\ UNCHANGED <<msg, wire, events, got, due>>
    BY DEF Send
<1>2. /\ chan \in [Streams -> Seq(Nat)] /\ got \in [Streams -> Seq(Nat)] /\ msg \in Nat
      /\ chan[c] \in Seq(Nat) /\ got[c] \in Seq(Nat) /\ Held(c) \in Seq(Nat)
    BY DEF BrokerInv, BrokerType, Held
<1>3. PICK past \in Seq(Nat) : due[c] = Append(past, msg) /\ HoldsOf(c, past)
    BY <1>1 DEF BrokerInv, DueInv
<1>4. PICK all \in Seq(Nat) : all = Append(past, msg)
    <2>1. Append(past, msg) \in Seq(Nat) BY <1>2
    <2> QED BY <2>1, Zenon
<1>5. CASE chan' = [chan EXCEPT ![c] = Append(@, msg)] /\ UNCHANGED full
    <2>1. Append(chan[c], msg) \in Seq(Nat) BY <1>2
    <2>2. /\ chan' \in [Streams -> Seq(Nat)] /\ chan'[c] = Append(chan[c], msg)
          /\ \A d \in Streams \ {c} : chan'[d] = chan[d]
        BY <1>2, <1>5, <2>1
    <2>3. BrokerType' BY <1>1, <1>5, <2>2 DEF BrokerInv, BrokerType
    <2>4. Held(c)' = Append(Held(c), msg)
        <3>1. got[c] \o Append(chan[c], msg) = Append(got[c] \o chan[c], msg) BY <1>2, HeldOnSend
        <3>2. got'[c] = got[c] BY <1>1
        <3> QED BY <2>2, <3>1, <3>2, Zenon DEF Held
    <2>5. HoldsOf(c, all)'
        <3>1. CASE c \in full
            <4>1. Thinned(Held(c), past) BY <1>3, <3>1 DEF HoldsOf
            <4>2. Thinned(Append(Held(c), msg), Append(past, msg)) BY <1>2, <4>1, ThinnedKeep
            <4>3. c \in full' /\ Thinned(Held(c)', all) BY <1>4, <1>5, <2>4, <3>1, <4>2
            <4> QED BY <4>3 DEF HoldsOf
        <3>2. CASE c \notin full
            <4>1. Held(c) = past BY <1>3, <3>2 DEF HoldsOf
            <4>2. c \notin full' /\ Held(c)' = all BY <1>4, <1>5, <2>4, <3>2, <4>1, Zenon
            <4> QED BY <4>2 DEF HoldsOf
        <3> QED BY <3>1, <3>2
    <2>6. \A d \in Streams \ {c} : Held(d)' = Held(d) /\ (d \in full' <=> d \in full)
        <3>1. \A d \in Streams \ {c} : got'[d] \o chan'[d] = got[d] \o chan[d] BY <1>1, <2>2, Zenon
        <3> QED BY <1>5, <3>1, Zenon DEF Held
    <2>7. due[c] = all BY <1>3, <1>4
    <2>8. DueInv BY DEF BrokerInv
    <2>9. DueInv' BY <1>1, <2>5, <2>6, <2>7, <2>8, ReachedStep
    <2> QED BY <2>3, <2>9
<1>6. CASE full' = full \cup {c} /\ UNCHANGED chan
    <2>1. BrokerType' BY <1>1, <1>6 DEF BrokerInv, BrokerType
    <2>2. \A d \in Streams : Held(d)' = Held(d) BY <1>1, <1>6, Zenon DEF Held
    <2>3. Thinned(Held(c), past)
        <3>1. CASE c \in full BY <1>3, <3>1 DEF HoldsOf
        <3>2. CASE c \notin full
            <4>1. Held(c) = past BY <1>3, <3>2 DEF HoldsOf
            <4> QED BY <4>1, ThinnedSame
        <3> QED BY <3>1, <3>2
    <2>4. HoldsOf(c, all)'
        <3>1. Thinned(Held(c), Append(past, msg)) BY <1>2, <2>3, ThinnedDrop
        <3>2. c \in full' /\ Thinned(Held(c)', all) BY <1>4, <1>6, <2>2, <3>1
        <3> QED BY <3>2 DEF HoldsOf
    <2>5. \A d \in Streams \ {c} : Held(d)' = Held(d) /\ (d \in full' <=> d \in full)
        BY <1>6, <2>2
    <2>6. due[c] = all BY <1>3, <1>4
    <2>7. DueInv BY DEF BrokerInv
    <2>8. DueInv' BY <1>1, <2>4, <2>5, <2>6, <2>7, ReachedStep
    <2> QED BY <2>1, <2>8
<1> QED BY <1>5, <1>6 DEF Send

LEMMA BrokerStep == ASSUME BrokerInv, [BNext]_bvars PROVE BrokerInv'
<1>1. ReachInv' BY ReachStep DEF BrokerInv
<1>2. BrokerType /\ DueInv BY DEF BrokerInv
<1>3. ASSUME NEW c \in Streams, Add(c) \/ Leave(c) \/ Remove(c) PROVE Quiet
    BY <1>2, <1>3 DEF Add, Leave, Remove, Quiet, BrokerType
<1>4. CASE Listen \/ Lose
    <2>1. wire' = <<>> /\ UNCHANGED <<chan, msg, left, got, due, full, events>>
        BY <1>4 DEF Listen, Lose
    <2>2. wire' \in Seq(Nat) /\ events' \in Nat BY <1>2, <2>1 DEF BrokerType
    <2>3. Quiet BY <2>1, <2>2 DEF Quiet
    <2> QED BY <1>1, <1>2, <2>3, QuietStep DEF BrokerInv
<1>5. CASE Notify
    <2>1. events' \in Nat /\ wire' \in Seq(Nat)
        <3>1. events \in Nat /\ wire \in Seq(Nat) BY <1>2 DEF BrokerType
        <3> QED BY <1>5, <3>1 DEF Notify
    <2>2. Quiet BY <1>5, <2>1 DEF Notify, Quiet
    <2> QED BY <1>1, <1>2, <2>2, QuietStep DEF BrokerInv
<1>6. CASE UNCHANGED bvars
    <2>1. Quiet BY <1>2, <1>6 DEF bvars, Quiet, BrokerType
    <2> QED BY <1>1, <1>2, <2>1, QuietStep DEF BrokerInv
<1>7. ASSUME NEW c \in Streams, Add(c) \/ Leave(c) \/ Remove(c) PROVE BrokerInv'
    BY <1>1, <1>2, <1>3, <1>7, QuietStep DEF BrokerInv
<1>8. ASSUME NEW c \in Streams, Receive(c) PROVE BrokerInv' BY <1>1, <1>8, ReceiveStep DEF BrokerInv
<1>9. ASSUME NEW c \in Streams, Send(c) PROVE BrokerInv' BY <1>1, <1>9, SendStep DEF BrokerInv
<1>10. CASE Publish BY <1>1, <1>10, PublishStep DEF BrokerInv
<1> QED BY <1>4, <1>5, <1>6, <1>7, <1>8, <1>9, <1>10 DEF BNext

(* However slow streams come, read and go, publish sends to no closed      *)
(* channel, a stream whose channel was never full gets every event that was*)
(* published while it was a client, and the others get some of them, in    *)
(* their order.                                                            *)
THEOREM BrokerOnlySlowLose == BrokerSpec => []OnlySlowLose
<1>1. BInit => BrokerInv
    <2> SUFFICES ASSUME BInit PROVE BrokerInv OBVIOUS
    <2>1. ReachInv /\ BrokerType BY DEF BInit, ReachInv, BrokerType
    <2>2. \A c \in Streams : Held(c) = <<>> BY DEF BInit, Held
    <2>3. DueInv
        <3> SUFFICES ASSUME NEW c \in Streams
                     PROVE  \E past \in Seq(Nat) : /\ due[c] = IF c \in left THEN Append(past, msg) ELSE past
                                                   /\ HoldsOf(c, past)
            BY DEF DueInv
        <3>1. <<>> \in Seq(Nat) /\ due[c] = <<>> /\ c \notin left /\ c \notin full /\ Held(c) = <<>>
            BY <2>2 DEF BInit
        <3> QED BY <3>1 DEF HoldsOf
    <2> QED BY <2>1, <2>3 DEF BrokerInv
<1>2. BrokerInv /\ [BNext]_bvars => BrokerInv' BY BrokerStep
<1>3. BrokerInv => OnlySlowLose
    <2> SUFFICES ASSUME BrokerInv PROVE OnlySlowLose OBVIOUS
    <2>1. \A c \in left : c \notin closed BY DEF BrokerInv, ReachInv
    <2>2. ASSUME NEW c \in Streams \ left PROVE HoldsOf(c, due[c])
        BY DEF BrokerInv, DueInv
    <2> QED BY <2>1, <2>2 DEF OnlySlowLose, HoldsOf, Held
<1> QED BY <1>1, <1>2, <1>3, PTL DEF BrokerSpec

-----------------------------------------------------------------------------
(* Pending.                                                                *)

PendingType ==
    /\ pclock \in Nat
    /\ last \in [Keys -> Int] /\ \A k \in Keys : last[k] = -1 \/ (last[k] \in Nat /\ last[k] <= pclock)
    /\ refused \subseteq Keys /\ toDrop \subseteq Keys

\* The table keeps the time of the last refused knock of each of its keys.
TableInv ==
    /\ table \in [DOMAIN table -> Int] /\ DOMAIN table \subseteq Keys
    /\ \A k \in DOMAIN table : table[k] = last[k] /\ last[k] \in Nat
    /\ IsFiniteSet(DOMAIN table) /\ Cardinality(DOMAIN table) <= PendingMax

\* Keys that were refused at all, and those refused as late as k or later.
Knocked == {j \in Keys : last[j] >= 0}
Later(k) == {j \in Keys \ {k} : last[j] >= last[k]}
Expired(k) == pclock - last[k] > PendingTTL

\* A refused key is missing from the table for one of three reasons, each of
\* which lasts until it knocks again.
MissingInv ==
    /\ IsFiniteSet(Knocked)
    /\ \A k \in Keys : last[k] >= 0 /\ k \notin dropped /\ k \notin DOMAIN table =>
           Expired(k) \/ Cardinality(Later(k)) >= PendingMax

PendingInv == PendingType /\ TableInv /\ MissingInv

\* Those refused as late as a refused key are finitely many.
LEMMA LaterFinite ==
    ASSUME PendingType, IsFiniteSet(Knocked), NEW k \in Keys, last[k] >= 0
    PROVE  IsFiniteSet(Later(k)) /\ Cardinality(Later(k)) \in Nat
<1>1. Later(k) \subseteq Knocked BY DEF Later, Knocked, PendingType
<1> QED BY <1>1, FS_Subset, FS_CardinalityType

\* A table of some of the keys.
LEMMA OnlySome ==
    ASSUME TableInv, NEW ks \in SUBSET (DOMAIN table), table' = Only(ks), UNCHANGED last
    PROVE  TableInv' /\ DOMAIN table' = ks
<1>1. DOMAIN table' = ks /\ \A k \in ks : table'[k] = table[k] BY DEF Only
<1>2. table' \in [DOMAIN table' -> Int] BY <1>1 DEF TableInv, Only
<1>3. IsFiniteSet(ks) /\ Cardinality(ks) <= Cardinality(DOMAIN table) BY FS_Subset DEF TableInv
<1>4. Cardinality(ks) \in Nat /\ Cardinality(DOMAIN table) \in Nat BY <1>3, FS_CardinalityType DEF TableInv
<1>5. Cardinality(ks) <= PendingMax BY <1>3, <1>4, PendingAssumption DEF TableInv
<1> QED BY <1>1, <1>2, <1>3, <1>5 DEF TableInv

\* Steps that leave the knocks alone, and take keys out of the table that are
\* dropped or expired.
LEMMA TakenOut ==
    ASSUME PendingInv, UNCHANGED last, refused' \subseteq Keys, toDrop' \subseteq Keys,
           pclock' \in Nat, pclock <= pclock', dropped \subseteq dropped', TableInv',
           \A k \in DOMAIN table \ DOMAIN table' : k \in dropped' \/ Expired(k)'
    PROVE  PendingInv'
<1>1. PendingType' BY DEF PendingInv, PendingType
<1>2. Knocked' = Knocked /\ \A k \in Keys : Later(k)' = Later(k) BY DEF Knocked, Later
<1>3. \A k \in Keys : Expired(k) => Expired(k)'
    BY PendingAssumption DEF Expired, PendingInv, PendingType
<1>4. MissingInv' BY <1>2, <1>3 DEF PendingInv, MissingInv
<1> QED BY <1>1, <1>4 DEF PendingInv

\* A knock that is refused makes k the latest, and no other key later.
LEMMA KnockedAgain ==
    ASSUME PendingType, IsFiniteSet(Knocked), NEW k \in Keys, last' = [last EXCEPT ![k] = pclock]
    PROVE  /\ IsFiniteSet(Knocked') /\ last'[k] = pclock
           /\ \A j \in Keys \ {k} :
                /\ last'[j] = last[j]
                /\ last[j] >= 0 => /\ Later(j) \cup {k} \subseteq Later(j)'
                                   /\ IsFiniteSet(Later(j)') /\ Cardinality(Later(j)') \in Nat
                                   /\ Cardinality(Later(j)) <= Cardinality(Later(j)')
<1>1. last'[k] = pclock /\ \A j \in Keys \ {k} : last'[j] = last[j] BY DEF PendingType
<1>2. IsFiniteSet(Knocked')
    <2>1. Knocked' \subseteq Knocked \cup {k} BY <1>1 DEF Knocked
    <2> QED BY <2>1, FS_AddElement, FS_Subset
<1>3. ASSUME NEW j \in Keys \ {k}, last[j] >= 0
      PROVE  /\ Later(j) \cup {k} \subseteq Later(j)'
             /\ IsFiniteSet(Later(j)') /\ Cardinality(Later(j)') \in Nat
             /\ Cardinality(Later(j)) <= Cardinality(Later(j)')
    <2>1. pclock >= last[j] BY DEF PendingType
    <2>2. Later(j) \cup {k} \subseteq Later(j)'
        <3>1. k \in Later(j)' BY <1>1, <2>1 DEF Later
        <3>2. ASSUME NEW i \in Later(j) PROVE i \in Later(j)'
            <4>1. CASE i = k BY <3>1, <4>1
            <4>2. CASE i # k BY <1>1, <4>2 DEF Later
            <4> QED BY <4>1, <4>2
        <3> QED BY <3>1, <3>2
    <2>3. Later(j)' \subseteq Knocked'
        <3>1. \A i \in Keys : last'[i] \in Int BY <1>1 DEF PendingType
        <3> QED BY <1>1, <1>3, <3>1 DEF Later, Knocked
    <2>4. IsFiniteSet(Later(j)') BY <1>2, <2>3, FS_Subset
    <2>5. Cardinality(Later(j)) <= Cardinality(Later(j)') BY <2>2, <2>4, FS_Subset
    <2> QED BY <2>2, <2>4, <2>5, FS_CardinalityType
<1> QED BY <1>1, <1>2, <1>3

LEMMA RefuseStep == ASSUME PendingInv, NEW k \in Keys, Refuse(k) PROVE PendingInv'
<1>1. /\ refused' = refused \ {k} /\ last' = [last EXCEPT ![k] = pclock] /\ dropped' = dropped \ {k}
      /\ UNCHANGED <<pclock, toDrop>>
    BY DEF Refuse
<1>2. PendingType /\ TableInv /\ MissingInv /\ IsFiniteSet(Knocked) BY DEF PendingInv, MissingInv
<1>3. /\ IsFiniteSet(Knocked') /\ last'[k] = pclock
      /\ \A j \in Keys \ {k} :
           /\ last'[j] = last[j]
           /\ last[j] >= 0 => /\ Later(j) \cup {k} \subseteq Later(j)'
                              /\ IsFiniteSet(Later(j)') /\ Cardinality(Later(j)') \in Nat
                              /\ Cardinality(Later(j)) <= Cardinality(Later(j)')
    BY <1>1, <1>2, KnockedAgain
<1>4. PendingType' BY <1>1, <1>2 DEF PendingType
<1>5. ASSUME NEW j \in Keys \ {k}, last[j] >= 0, j \notin dropped, j \notin DOMAIN table
      PROVE  Expired(j)' \/ Cardinality(Later(j)') >= PendingMax
    <2>1. CASE Expired(j) BY <1>1, <1>3, <2>1 DEF Expired
    <2>2. CASE Cardinality(Later(j)) >= PendingMax
        <3>1. Cardinality(Later(j)) \in Nat BY <1>2, <1>5, LaterFinite
        <3> QED BY <1>3, <1>5, <2>2, <3>1, PendingAssumption
    <2> QED BY <1>2, <1>5, <2>1, <2>2 DEF MissingInv
<1>6. CASE k \in DOMAIN table
    <2>1. table' = [table EXCEPT ![k] = pclock] BY <1>6 DEF Refuse, Refreshed
    <2>2. pclock \in Nat BY <1>2 DEF PendingType
    <2>3. DOMAIN table' = DOMAIN table BY <2>1
    <2>4. TableInv'
        <3> DEFINE D == DOMAIN table
        <3>1. table \in [D -> Int] BY <1>2 DEF TableInv
        <3> HIDE DEF D
        <3>2. pclock \in Int BY <2>2
        <3>3. \A j \in D : [table EXCEPT ![k] = pclock][j] \in Int BY <3>1, <3>2
        <3>4. table' \in [D -> Int] BY <2>1, <3>1, <3>3, Zenon
        <3>5. ASSUME NEW j \in DOMAIN table PROVE table'[j] = last'[j] /\ last'[j] \in Nat
            BY <1>2, <1>3, <2>1, <2>2 DEF TableInv
        <3> QED BY <1>2, <2>3, <3>4, <3>5 DEF TableInv, D
    <2>5. MissingInv' BY <1>1, <1>3, <1>5, <1>6, <2>3 DEF MissingInv
    <2> QED BY <1>4, <2>4, <2>5 DEF PendingInv
<1>7. CASE k \notin DOMAIN table
    <2>1. PICK ks \in Evictions(Fresh) : table' = [j \in ks \cup {k} |-> IF j = k THEN pclock ELSE table[j]]
        BY <1>7 DEF Refuse
    <2>2. Fresh \subseteq DOMAIN table /\ k \notin Fresh BY <1>7 DEF Fresh
    <2>3. IsFiniteSet(Fresh) /\ Cardinality(Fresh) \in Nat
        BY <1>2, <2>2, FS_Subset, FS_CardinalityType DEF TableInv
    <2>4. Cardinality(Fresh) <= PendingMax
        <3>1. Cardinality(Fresh) <= Cardinality(DOMAIN table) BY <1>2, <2>2, FS_Subset DEF TableInv
        <3>2. Cardinality(DOMAIN table) \in Nat BY <1>2, FS_CardinalityType DEF TableInv
        <3> QED BY <1>2, <2>3, <3>1, <3>2, PendingAssumption DEF TableInv
    <2>5. \/ Cardinality(Fresh) < PendingMax /\ ks = Fresh
          \/ /\ Cardinality(Fresh) >= PendingMax
             /\ \E j \in Fresh : ks = Fresh \ {j} /\ \A i \in Fresh : table[j] <= table[i]
        BY <2>1, <2>3, PendingAssumption DEF Evictions
    <2>6. ks \subseteq Fresh BY <2>5
    <2>7. IsFiniteSet(ks) /\ Cardinality(ks) \in Nat BY <2>3, <2>6, FS_Subset, FS_CardinalityType
    <2>8. Cardinality(ks) < PendingMax
        <3>1. CASE Cardinality(Fresh) < PendingMax /\ ks = Fresh BY <3>1
        <3>2. ASSUME NEW j \in Fresh, ks = Fresh \ {j} PROVE Cardinality(ks) < PendingMax
            <4>1. Cardinality(ks) = Cardinality(Fresh) - 1 BY <2>3, <3>2, FS_RemoveElement
            <4> QED BY <2>3, <2>4, <4>1, PendingAssumption
        <3> QED BY <2>5, <3>1, <3>2
    <2>9. IsFiniteSet(ks \cup {k}) /\ Cardinality(ks \cup {k}) = Cardinality(ks) + 1
        BY <2>2, <2>6, <2>7, FS_AddElement
    <2>10. TableInv'
        <3>1. pclock \in Nat BY <1>2 DEF PendingType
        <3>2. DOMAIN table' = ks \cup {k} /\ ks \subseteq DOMAIN table BY <2>1, <2>2, <2>6
        <3>3. table' \in [ks \cup {k} -> Int] BY <1>2, <2>1, <3>1, <3>2 DEF TableInv
        <3>4. Cardinality(ks \cup {k}) <= PendingMax BY <2>7, <2>8, <2>9, PendingAssumption
        <3>5. ASSUME NEW j \in ks \cup {k} PROVE table'[j] = last'[j] /\ last'[j] \in Nat
            <4>1. CASE j = k BY <1>3, <2>1, <3>1, <4>1
            <4>2. CASE j # k
                <5>1. j \in DOMAIN table /\ j \in Keys \ {k} BY <1>2, <3>2, <4>2 DEF TableInv
                <5> QED BY <1>2, <1>3, <2>1, <4>2, <5>1 DEF TableInv
            <4> QED BY <4>1, <4>2
        <3>6. ks \cup {k} \subseteq Keys BY <1>2, <3>2 DEF TableInv
        <3> QED BY <2>9, <3>2, <3>3, <3>4, <3>5, <3>6 DEF TableInv
    <2>11. MissingInv'
        <3> SUFFICES ASSUME NEW j \in Keys, last'[j] >= 0, j \notin dropped', j \notin DOMAIN table'
                     PROVE  Expired(j)' \/ Cardinality(Later(j)') >= PendingMax
            BY <1>3 DEF MissingInv
        <3>1. DOMAIN table' = ks \cup {k} BY <2>1
        <3>2. j \in Keys \ {k} /\ j \notin ks /\ last[j] >= 0 /\ j \notin dropped BY <1>1, <1>3, <3>1
        <3>3. CASE j \notin DOMAIN table BY <1>5, <3>2, <3>3
        <3>4. CASE j \in DOMAIN table \ Fresh
            BY <1>1, <1>2, <1>3, <3>2, <3>4, PendingAssumption DEF Fresh, Expired, TableInv, PendingType
        <3>5. CASE j \in Fresh
            <4>1. /\ Cardinality(Fresh) >= PendingMax /\ ks = Fresh \ {j}
                  /\ \A i \in Fresh : table[j] <= table[i]
                BY <2>5, <3>2, <3>5
            <4>2. ks \subseteq Later(j)
                <5> SUFFICES ASSUME NEW i \in ks PROVE i \in Keys \ {j} /\ last[i] >= last[j]
                    BY DEF Later
                <5>1. i \in DOMAIN table /\ j \in DOMAIN table /\ i # j /\ table[j] <= table[i]
                    BY <2>2, <3>5, <4>1
                <5>2. table[i] = last[i] /\ table[j] = last[j] /\ last[i] \in Nat /\ last[j] \in Nat /\ i \in Keys
                    BY <1>2, <5>1 DEF TableInv
                <5> QED BY <5>1, <5>2
            <4>3. ks \cup {k} \subseteq Later(j)' BY <1>3, <3>2, <4>2
            <4>4. Cardinality(ks \cup {k}) <= Cardinality(Later(j)') BY <1>3, <3>2, <4>3, FS_Subset
            <4>5. Cardinality(ks) = Cardinality(Fresh) - 1 BY <2>3, <3>5, <4>1, FS_RemoveElement
            <4>6. Cardinality(Later(j)') \in Nat BY <1>3, <3>2
            <4> QED BY <2>3, <2>7, <2>9, <4>1, <4>4, <4>5, <4>6, PendingAssumption
        <3> QED BY <3>3, <3>4, <3>5
    <2> QED BY <1>4, <2>10, <2>11 DEF PendingInv
<1> QED BY <1>6, <1>7

LEMMA PendingStep == ASSUME PendingInv, [PNext]_pvars PROVE PendingInv'
<1>1. PendingType /\ TableInv BY DEF PendingInv
<1>2. ASSUME UNCHANGED <<table, last, dropped>>, refused' \subseteq Keys, toDrop' \subseteq Keys,
             pclock' \in Nat, pclock <= pclock'
      PROVE  PendingInv'
    <2>1. TableInv' BY <1>1, <1>2 DEF TableInv
    <2> QED BY <1>2, <2>1, TakenOut
<1>3. ASSUME NEW k \in Keys, table' = Only(DOMAIN table \ {k}), dropped' = dropped \cup {k},
             UNCHANGED <<last, refused, pclock>>, toDrop' \subseteq Keys
      PROVE  PendingInv'
    <2>1. TableInv' /\ DOMAIN table' = DOMAIN table \ {k} BY <1>1, <1>3, OnlySome
    <2>2. pclock \in Nat /\ refused \subseteq Keys BY <1>1 DEF PendingType
    <2> QED BY <1>3, <2>1, <2>2, TakenOut
<1>4. pclock \in Nat /\ pclock <= pclock /\ refused \subseteq Keys /\ toDrop \subseteq Keys
    BY <1>1 DEF PendingType
<1>5. ASSUME NEW k \in Keys, Knock(k) PROVE PendingInv' BY <1>2, <1>3, <1>4, <1>5 DEF Knock
<1>6. ASSUME NEW k \in Keys, Refuse(k) PROVE PendingInv' BY <1>6, RefuseStep
<1>7. ASSUME NEW k \in Keys, Approve(k) PROVE PendingInv' BY <1>2, <1>4, <1>7 DEF Approve
<1>8. ASSUME NEW k \in Keys, DropApproved(k) PROVE PendingInv' BY <1>3, <1>4, <1>8 DEF DropApproved
<1>9. ASSUME NEW k \in Keys, Disapprove(k) PROVE PendingInv' BY <1>2, <1>4, <1>9 DEF Disapprove
<1>10. CASE List
    <2>1. table' = Only(Fresh) /\ UNCHANGED <<pclock, refused, toDrop, last, dropped>> BY <1>10 DEF List
    <2>2. Fresh \subseteq DOMAIN table BY DEF Fresh
    <2>3. TableInv' /\ DOMAIN table' = Fresh BY <1>1, <2>1, <2>2, OnlySome
    <2>4. ASSUME NEW k \in DOMAIN table \ DOMAIN table' PROVE Expired(k)'
        <3>1. table[k] = last[k] /\ last[k] \in Nat BY <1>1 DEF TableInv
        <3>2. ~(pclock - table[k] <= PendingTTL) BY <2>3 DEF Fresh
        <3> QED BY <1>4, <2>1, <3>1, <3>2, PendingAssumption DEF Expired
    <2> QED BY <1>4, <2>1, <2>3, <2>4, TakenOut
<1>11. CASE PRestart
    <2>1. /\ table' = <<>> /\ refused' = {} /\ toDrop' = {} /\ UNCHANGED pclock
          /\ last' = [k \in Keys |-> -1]
        BY <1>11 DEF PRestart
    <2>2. PendingType' BY <1>4, <2>1 DEF PendingType
    <2>3. DOMAIN table' = {} BY <2>1
    <2>4. TableInv' BY <2>1, <2>3, FS_EmptySet, PendingAssumption DEF TableInv
    <2>5. Knocked' = {} /\ \A k \in Keys : ~(last'[k] >= 0) BY <2>1 DEF Knocked
    <2>6. MissingInv' BY <2>5, FS_EmptySet DEF MissingInv
    <2> QED BY <2>2, <2>4, <2>6 DEF PendingInv
<1>12. CASE Minutes BY <1>2, <1>4, <1>12 DEF Minutes
<1>13. CASE UNCHANGED pvars BY <1>2, <1>4, <1>13 DEF pvars
<1> QED BY <1>5, <1>6, <1>7, <1>8, <1>9, <1>10, <1>11, <1>12, <1>13 DEF PNext

(* However knocks, approvals and revocations interleave, and whatever      *)
(* GetSettings answers: an agent refused in the last ten minutes is on the *)
(* list, unless the table was filled with others that knocked as late; and *)
(* the table never outgrows pendingMax.                                    *)
THEOREM PendingKnocksListed == PendingSpec => []KnocksListed
<1>1. PInit => PendingInv
    <2> SUFFICES ASSUME PInit PROVE PendingInv OBVIOUS
    <2>1. PendingType BY DEF PInit, PendingType
    <2>2. DOMAIN table = {} BY DEF PInit
    <2>3. TableInv BY <2>2, FS_EmptySet, PendingAssumption DEF PInit, TableInv
    <2>4. Knocked = {} /\ \A k \in Keys : ~(last[k] >= 0) BY DEF PInit, Knocked
    <2>5. MissingInv BY <2>4, FS_EmptySet DEF MissingInv
    <2> QED BY <2>1, <2>3, <2>5 DEF PendingInv
<1>2. PendingInv /\ [PNext]_pvars => PendingInv' BY PendingStep
<1>3. PendingInv => KnocksListed
    <2> SUFFICES ASSUME PendingInv, NEW k \in Keys \ (approved \cup dropped),
                        last[k] >= 0, pclock - last[k] <= PendingTTL
                 PROVE  k \in Listed \/ Cardinality(Later(k)) >= PendingMax
        BY DEF KnocksListed, Later, PendingInv, TableInv
    <2>1. CASE k \in DOMAIN table BY <2>1 DEF Listed, Fresh, PendingInv, TableInv
    <2>2. CASE k \notin DOMAIN table
        <3>1. ~Expired(k) BY PendingAssumption DEF Expired, PendingInv, PendingType
        <3> QED BY <2>2, <3>1 DEF PendingInv, MissingInv
    <2> QED BY <2>1, <2>2
<1> QED BY <1>1, <1>2, <1>3, PTL DEF PendingSpec

-----------------------------------------------------------------------------
(* Registry.                                                               *)

\* The latest counter of a row lies between its smallest and its largest, and
\* they are there together.
RowOrder(row) ==
    IF row.min = Nil THEN row.max = Nil /\ row.last = Nil
    ELSE row.max # Nil /\ (row.last = Nil \/ (row.min <= row.last /\ row.last <= row.max))

Stmts == [on : {"readings", "index", "heard", "chunks", "older", "zeros", "rollups"},
          of : Meters \cup Sources \cup Nat \cup {Nil}, must : BOOLEAN]

StoreInv ==
    /\ readings \subseteq Packets
    /\ \E n \in Nat : \A r \in readings : r.c # Nil => r.c <= n
IndexInv == index \in [Meters -> IndexRows \cup {Nil}] /\ \A m \in Meters : index[m] # Nil => RowOrder(index[m])
CallInv ==
    /\ ipc \in [Sources -> {"idle", "index", "source"}] /\ pkt \in [Sources -> Packets \cup {Nil}]
    /\ \A s \in Sources : ipc[s] # "idle" => pkt[s] \in Packets
    /\ script \in Seq(Stmts)

\* A packet in hand that is sure, and a pair that is shown: the running call
\* removes no row of theirs, and what is written of them is there.
SureInv ==
    /\ sure \subseteq Sources
    /\ \A s \in sure : /\ ipc[s] # "idle" /\ ~Threatened(pkt[s].m, s)
                       /\ ipc[s] = "source" => index[pkt[s].m] # Nil
ShownInv ==
    /\ shown \subseteq Meters \X Sources
    /\ \A h \in shown : ~Threatened(h[1], h[2]) /\ index[h[1]] # Nil /\ h \in heard

RegistryInv == StoreInv /\ IndexInv /\ CallInv /\ SureInv /\ ShownInv

\* A row that is written.
LEMMA RowMade ==
    ASSUME NEW lo \in Counters \cup {Nil}, NEW hi \in Counters \cup {Nil}, NEW l \in Counters \cup {Nil},
           NEW t \in 1..MaxTS,
           IF lo = Nil THEN hi = Nil /\ l = Nil ELSE hi # Nil /\ (l = Nil \/ (lo <= l /\ l <= hi)),
           NEW row, row = [min |-> lo, max |-> hi, last |-> l, ts |-> t]
    PROVE  row \in IndexRows /\ RowOrder(row)
<1>1. row.min = lo /\ row.max = hi /\ row.last = l OBVIOUS
<1>2. row \in IndexRows BY DEF IndexRows
<1> QED BY <1>1, <1>2 DEF RowOrder

\* What the upsert makes of a row, or of none, is a row in order.
LEMMA UpsertRow ==
    ASSUME NEW row \in IndexRows \cup {Nil}, row # Nil => RowOrder(row), NEW p \in Packets
    PROVE  Upsert(row, p) \in IndexRows /\ RowOrder(Upsert(row, p))
<1>1. p.c \in Counters \cup {Nil} /\ p.ts \in 1..MaxTS BY DEF Packets
<1>4. p.c # Nil => p.c \in Nat BY <1>1, RegistryAssumption
<1>2. CASE row = Nil
    <2>1. Upsert(row, p) = [min |-> p.c, max |-> p.c, last |-> p.c, ts |-> p.ts] BY <1>2 DEF Upsert
    <2>2. p.c # Nil => p.c <= p.c BY <1>4
    <2>3. IF p.c = Nil THEN p.c = Nil /\ p.c = Nil ELSE p.c # Nil /\ (p.c = Nil \/ (p.c <= p.c /\ p.c <= p.c))
        BY <2>2
    <2> QED BY <1>1, <2>1, <2>3, RowMade, Zenon
<1>3. CASE row # Nil
    <2> DEFINE lo == Least(row.min, p.c)
               hi == Greatest(row.max, p.c)
               l == IF p.c # Nil /\ p.ts >= row.ts THEN p.c ELSE row.last
               t == Greatest(row.ts, p.ts)
    <2>1. Upsert(row, p) = [min |-> lo, max |-> hi, last |-> l, ts |-> t] BY <1>3 DEF Upsert
    <2>2. /\ row.min \in Counters \cup {Nil} /\ row.max \in Counters \cup {Nil}
          /\ row.last \in Counters \cup {Nil} /\ row.ts \in 1..MaxTS
        BY <1>3 DEF IndexRows
    <2>3. t \in 1..MaxTS
        <3>1. row.ts \in Int /\ p.ts \in Int BY <1>1, <2>2, RegistryAssumption
        <3>2. Max({row.ts, p.ts}) \in {row.ts, p.ts} BY <3>1, MaxOfTwo, Zenon
        <3>3. t \in {row.ts, p.ts} BY <3>2 DEF Greatest
        <3> HIDE DEF t
        <3> QED BY <1>1, <2>2, <3>3
    <2>4. l \in Counters \cup {Nil} BY <1>1, <2>2
    <2>8. IF row.min = Nil THEN row.max = Nil /\ row.last = Nil
          ELSE row.max # Nil /\ (row.last = Nil \/ (row.min <= row.last /\ row.last <= row.max))
        BY <1>3 DEF RowOrder
    <2>5. CASE p.c = Nil
        <3>1. lo = row.min /\ hi = row.max /\ l = row.last BY <2>5 DEF Least, Greatest
        <3> HIDE DEF lo, hi, l, t
        <3>2. lo \in Counters \cup {Nil} /\ hi \in Counters \cup {Nil} BY <2>2, <3>1
        <3>3. IF lo = Nil THEN hi = Nil /\ l = Nil ELSE hi # Nil /\ (l = Nil \/ (lo <= l /\ l <= hi))
            BY <2>8, <3>1
        <3> QED BY <2>1, <2>3, <2>4, <3>2, <3>3, RowMade, Zenon
    <2>6. CASE p.c # Nil /\ row.min = Nil
        <3>1. row.max = Nil /\ row.last = Nil BY <2>8, <2>6
        <3>2. lo = p.c /\ hi = p.c /\ l \in {p.c, Nil} BY <2>6, <3>1 DEF Least, Greatest
        <3>3. p.c <= p.c BY <1>4, <2>6
        <3> HIDE DEF lo, hi, l, t
        <3>4. lo \in Counters \cup {Nil} /\ hi \in Counters \cup {Nil} BY <1>1, <3>2
        <3>5. IF lo = Nil THEN hi = Nil /\ l = Nil ELSE hi # Nil /\ (l = Nil \/ (lo <= l /\ l <= hi))
            BY <2>6, <3>2, <3>3
        <3> QED BY <2>1, <2>3, <2>4, <3>4, <3>5, RowMade, Zenon
    <2>7. CASE p.c # Nil /\ row.min # Nil
        <3>1. row.max # Nil /\ (row.last = Nil \/ (row.min <= row.last /\ row.last <= row.max))
            BY <2>8, <2>7
        <3>2. p.c \in Nat /\ row.min \in Nat /\ row.max \in Nat BY <1>1, <2>2, <2>7, <3>1, RegistryAssumption
        <3>3. lo = Min({row.min, p.c}) /\ hi = Max({row.max, p.c}) BY <2>7, <3>1 DEF Least, Greatest
        <3>4. lo \in {row.min, p.c} /\ lo <= row.min /\ lo <= p.c
            <4>1. row.min \in Int /\ p.c \in Int BY <3>2
            <4> QED BY <3>3, <4>1, MinOfTwo, Zenon
        <3>5. hi \in {row.max, p.c} /\ hi >= row.max /\ hi >= p.c
            <4>1. row.max \in Int /\ p.c \in Int BY <3>2
            <4> QED BY <3>3, <4>1, MaxOfTwo, Zenon
        <3>6. l \in {p.c, row.last} OBVIOUS
        <3> HIDE DEF lo, hi, l, t
        <3>7. lo \in Counters /\ hi \in Counters BY <1>1, <2>2, <2>7, <3>1, <3>4, <3>5
        <3>8. l = Nil \/ (lo <= l /\ l <= hi)
            <4>1. CASE l = p.c BY <3>2, <3>4, <3>5, <4>1
            <4>2. CASE l = row.last /\ l # Nil
                <5>1. l \in Nat BY <2>4, <4>2, RegistryAssumption
                <5> QED BY <3>1, <3>2, <3>4, <3>5, <4>2, <5>1
            <4> QED BY <3>6, <4>1, <4>2
        <3>9. lo # Nil /\ hi # Nil BY <3>7, RegistryAssumption
        <3> QED BY <2>1, <2>3, <2>4, <3>7, <3>8, <3>9, RowMade
    <2> QED BY <2>5, <2>6, <2>7
<1> QED BY <1>2, <1>3

\* What the rollups make of a row is a row in order, and none stays none.
LEMMA RollupRow ==
    ASSUME StoreInv, IndexInv, NEW m \in Meters, NEW row \in Rollups(m)
    PROVE  /\ row \in IndexRows \cup {Nil} /\ (row # Nil => RowOrder(row))
           /\ index[m] # Nil => row # Nil
<1> DEFINE rs == {r \in readings : r.m = m /\ r.c # Nil}
           cs == {r.c : r \in rs}
           tss == {r.ts : r \in rs}
<1>1. CASE index[m] = Nil \/ rs = {}
    <2>1. row = index[m] BY <1>1 DEF Rollups
    <2> QED BY <2>1 DEF IndexInv
<1>2. CASE ~(index[m] = Nil \/ rs = {})
    <2>1. PICK r \in {q \in rs : q.ts = Max(tss)} :
              row = [min |-> Min(cs), max |-> Max(cs), last |-> r.c, ts |-> Max(tss)]
        BY <1>2 DEF Rollups
    <2>2. \A q \in rs : q.c \in Counters /\ q.ts \in 1..MaxTS BY DEF StoreInv, Packets
    <2>3. cs \in SUBSET Nat /\ cs \subseteq Counters /\ cs # {} /\ tss \in SUBSET Nat /\ tss \subseteq 1..MaxTS /\ tss # {}
        <3>1. Counters \subseteq Nat /\ 1..MaxTS \subseteq Nat BY RegistryAssumption
        <3>2. cs \subseteq Counters /\ tss \subseteq 1..MaxTS BY <2>2, Zenon
        <3>3. cs # {} /\ tss # {} BY <1>2, Zenon
        <3> HIDE DEF cs, tss
        <3> QED BY <3>1, <3>2, <3>3
    <2>4. PICK n \in Nat : \A x \in cs : x <= n BY DEF StoreInv
    <2>5. MaxTS \in Nat /\ \A x \in tss : x <= MaxTS BY <2>3, RegistryAssumption
    <2>6. r.c \in cs BY <2>1
    <2> HIDE DEF cs, tss
    <2>7. Min(cs) \in cs /\ \A x \in cs : Min(cs) <= x BY <2>3, MinOfNaturals
    <2>8. Max(cs) \in cs /\ \A x \in cs : x <= Max(cs) BY <2>3, <2>4, MaxOfNaturals
    <2>9. Max(tss) \in 1..MaxTS
        <3>1. Max(tss) \in tss BY <2>3, <2>5, MaxOfNaturals
        <3> QED BY <2>3, <3>1
    <2> DEFINE lo == Min(cs)
               hi == Max(cs)
               t == Max(tss)
    <2>10. lo \in Counters /\ hi \in Counters /\ r.c \in Counters /\ lo <= r.c /\ r.c <= hi
        BY <2>3, <2>6, <2>7, <2>8
    <2>11. lo # Nil /\ hi # Nil BY <2>10, RegistryAssumption
    <2>12. t \in 1..MaxTS /\ row = [min |-> lo, max |-> hi, last |-> r.c, ts |-> t] BY <2>1, <2>9
    <2> HIDE DEF lo, hi, t
    <2>13. IF lo = Nil THEN hi = Nil /\ r.c = Nil ELSE hi # Nil /\ (r.c = Nil \/ (lo <= r.c /\ r.c <= hi))
        BY <2>10, <2>11
    <2>14. row \in IndexRows /\ RowOrder(row) BY <2>10, <2>12, <2>13, RowMade, Zenon
    <2> QED BY <2>14, RegistryAssumption
<1> QED BY <1>1, <1>2

\* InsertReading, its three statements.
LEMMA InsertReadingStep ==
    ASSUME RegistryInv, NEW s \in Sources, NEW p \in Packets, InsertReading(s, p) PROVE RegistryInv'
<1> USE DEF RegistryInv
<1>1. ipc[s] = "idle" /\ UNCHANGED <<index, heard, script, shown>> BY DEF InsertReading
<1>2. IndexInv' BY <1>1 DEF IndexInv
<1>3. ShownInv' BY <1>1 DEF ShownInv, Threatened
<1>4. CASE UNCHANGED <<readings, ipc, pkt, sure>>
    BY <1>1, <1>2, <1>3, <1>4 DEF StoreInv, CallInv, SureInv, Threatened
<1>5. CASE /\ readings' = readings \cup {p}
           /\ ipc' = [ipc EXCEPT ![s] = "index"] /\ pkt' = [pkt EXCEPT ![s] = p]
           /\ sure' = IF Threatened(p.m, s) THEN sure ELSE sure \cup {s}
    <2>1. StoreInv'
        <3>1. PICK n \in Nat : \A r \in readings : r.c # Nil => r.c <= n BY DEF StoreInv
        <3>2. \A r \in readings : r.c # Nil => r.c \in Nat BY RegistryAssumption DEF StoreInv, Packets
        <3>3. p.c # Nil => p.c \in Nat BY RegistryAssumption DEF Packets
        <3> DEFINE k == IF p.c # Nil THEN n + p.c ELSE n
        <3>4. k \in Nat /\ \A r \in readings \cup {p} : r.c # Nil => r.c <= k BY <3>1, <3>2, <3>3
        <3> QED BY <1>5, <3>4 DEF StoreInv
    <2>2. CallInv' BY <1>1, <1>5 DEF CallInv
    <2>3. SureInv'
        <3>1. s \notin sure BY <1>1 DEF SureInv
        <3>2. \A m, x : Threatened(m, x)' = Threatened(m, x) BY <1>1 DEF Threatened
        <3>3. ipc'[s] = "index" /\ pkt'[s] = p /\ \A x \in Sources \ {s} : ipc'[x] = ipc[x] /\ pkt'[x] = pkt[x]
            BY <1>5 DEF CallInv
        <3> QED BY <1>1, <1>5, <3>1, <3>2, <3>3 DEF SureInv
    <2> QED BY <1>2, <1>3, <2>1, <2>2, <2>3
<1> QED BY <1>4, <1>5 DEF InsertReading

LEMMA UpsertIndexStep == ASSUME RegistryInv, NEW s \in Sources, UpsertIndex(s) PROVE RegistryInv'
<1> USE DEF RegistryInv
<1>1. /\ ipc[s] = "index" /\ ipc' = [ipc EXCEPT ![s] = "source"]
      /\ UNCHANGED <<readings, heard, pkt, script, shown>>
    BY DEF UpsertIndex
<1>2. StoreInv' BY <1>1 DEF StoreInv
<1>3. CallInv' BY <1>1 DEF CallInv
<1>4. pkt[s] \in Packets /\ pkt[s].m \in Meters BY <1>1 DEF CallInv, Packets
<1>5. \A m, x : Threatened(m, x)' = Threatened(m, x) BY <1>1 DEF Threatened
<1>6. ipc'[s] = "source" /\ \A x \in Sources \ {s} : ipc'[x] = ipc[x] BY <1>1 DEF CallInv
<1>7. CASE sure' = sure \ {s} /\ UNCHANGED index
    <2>1. IndexInv' BY <1>7 DEF IndexInv
    <2>2. SureInv' BY <1>1, <1>5, <1>6, <1>7 DEF SureInv
    <2>3. ShownInv' BY <1>1, <1>5, <1>7 DEF ShownInv
    <2> QED BY <1>2, <1>3, <2>1, <2>2, <2>3
<1>8. CASE index' = [index EXCEPT ![pkt[s].m] = Upsert(@, pkt[s])] /\ UNCHANGED sure
    <2> DEFINE m == pkt[s].m
               row == Upsert(index[m], pkt[s])
    <2>1. row \in IndexRows /\ RowOrder(row) BY <1>4, UpsertRow DEF IndexInv
    <2>2. row # Nil BY <2>1, RegistryAssumption
    <2>3. index' = [index EXCEPT ![m] = row] /\ m \in Meters BY <1>4, <1>8 DEF IndexInv
    <2> HIDE DEF row
    <2>4. index'[m] = row /\ \A x \in Meters \ {m} : index'[x] = index[x] BY <2>3 DEF IndexInv
    <2>5. IndexInv' BY <2>1, <2>3, <2>4 DEF IndexInv
    <2>6. \A x \in Meters : index[x] # Nil => index'[x] # Nil BY <2>2, <2>4
    <2>7. SureInv'
        <3>1. \A x \in sure : pkt[x].m \in Meters BY DEF SureInv, CallInv, Packets
        <3>2. index'[pkt[s].m] # Nil BY <2>2, <2>4
        <3> HIDE DEF m
        <3> QED BY <1>1, <1>5, <1>6, <1>8, <2>6, <3>1, <3>2 DEF SureInv
    <2>8. ShownInv'
        <3>1. \A h \in shown : h[1] \in Meters BY DEF ShownInv
        <3> QED BY <1>1, <1>5, <2>6, <3>1 DEF ShownInv
    <2> QED BY <1>2, <1>3, <2>5, <2>7, <2>8
<1> QED BY <1>7, <1>8 DEF UpsertIndex

LEMMA UpsertSourceStep == ASSUME RegistryInv, NEW s \in Sources, UpsertSource(s) PROVE RegistryInv'
<1> USE DEF RegistryInv
<1>1. /\ ipc[s] = "source" /\ ipc' = [ipc EXCEPT ![s] = "idle"] /\ pkt' = [pkt EXCEPT ![s] = Nil]
      /\ sure' = sure \ {s} /\ UNCHANGED <<readings, index, script>>
    BY DEF UpsertSource
<1>2. StoreInv' BY <1>1 DEF StoreInv
<1>3. IndexInv' BY <1>1 DEF IndexInv
<1>4. CallInv' BY <1>1 DEF CallInv
<1>5. \A m, x : Threatened(m, x)' = Threatened(m, x) BY <1>1 DEF Threatened
<1>6. \A x \in Sources \ {s} : ipc'[x] = ipc[x] /\ pkt'[x] = pkt[x] BY <1>1 DEF CallInv
<1>7. SureInv' BY <1>1, <1>5, <1>6 DEF SureInv
<1>8. CASE UNCHANGED <<heard, shown>>
    <2>1. ShownInv' BY <1>1, <1>5, <1>8 DEF ShownInv
    <2> QED BY <1>2, <1>3, <1>4, <1>7, <2>1
<1>9. CASE /\ heard' = heard \cup {<<pkt[s].m, s>>}
           /\ shown' = IF s \in sure THEN shown \cup {<<pkt[s].m, s>>} ELSE shown
    <2>1. pkt[s].m \in Meters BY <1>1 DEF CallInv, Packets
    <2>2. s \in sure => ~Threatened(pkt[s].m, s) /\ index[pkt[s].m] # Nil BY <1>1 DEF SureInv
    <2>3. ShownInv' BY <1>1, <1>5, <1>9, <2>1, <2>2 DEF ShownInv
    <2> QED BY <1>2, <1>3, <1>4, <1>7, <2>3
<1> QED BY <1>8, <1>9 DEF UpsertSource

\* The API's call and its statements.
LEMMA CallStep == ASSUME RegistryInv, NEW sc \in Scripts, Call(sc) PROVE RegistryInv'
<1> USE DEF RegistryInv
<1>1. /\ script' = sc /\ UNCHANGED <<readings, index, heard, ipc, pkt>>
      /\ sure' = {s \in sure : \A k \in 1..Len(sc) : ~Removes(sc[k], pkt[s].m, s)}
      /\ shown' = {h \in shown : \A k \in 1..Len(sc) : ~Removes(sc[k], h[1], h[2])}
    BY DEF Call
<1>2. StoreInv' /\ IndexInv' BY <1>1 DEF StoreInv, IndexInv
<1>3. sc \in Seq(Stmts)
    <2>1. \A m \in Meters : DeleteMeter(m) \in Seq(Stmts) BY DEF DeleteMeter, Stmt, Stmts
    <2>2. \A s \in Sources : DeleteReadingsBySource(s) \in Seq(Stmts) BY DEF DeleteReadingsBySource, Stmt, Stmts
    <2>3. \A t \in 2..MaxTS : DeleteReadingsOlderThan(t) \in Seq(Stmts)
        BY RegistryAssumption DEF DeleteReadingsOlderThan, Stmt, Stmts
    <2>4. PurgeAllReadings \in Seq(Stmts) /\ ScrubZeros \in Seq(Stmts)
        BY DEF PurgeAllReadings, ScrubZeros, Stmt, Stmts
    <2> QED BY <2>1, <2>2, <2>3, <2>4 DEF Scripts
<1>4. CallInv' BY <1>1, <1>3 DEF CallInv
<1>5. SureInv' BY <1>1 DEF SureInv, Threatened
<1>6. ShownInv' BY <1>1 DEF ShownInv, Threatened
<1> QED BY <1>2, <1>4, <1>5, <1>6

\* The rest of a call threatens no more than the call.
LEMMA RestOfCall ==
    ASSUME script \in Seq(Stmts), script # <<>>, script' \in {<<>>, Tail(script)}
    PROVE  /\ Head(script) \in Stmts /\ script' \in Seq(Stmts)
           /\ \A m, s : ~Threatened(m, s) => ~Removes(Head(script), m, s) /\ ~Threatened(m, s)'
<1> DEFINE t == Tail(script)
<1>1. Len(script) \in Nat \ {0} BY EmptySeq
<1>2. Head(script) = script[1] /\ 1 \in 1..Len(script) BY <1>1
<1>3. Head(script) \in Stmts BY <1>1, <1>2, ElementOfSeq
<1>4. t \in Seq(Stmts) /\ Len(t) = Len(script) - 1 /\ \A i \in 1..Len(t) : t[i] = script[i + 1]
    BY HeadTailProperties
<1> HIDE DEF t
<1>5. script' \in Seq(Stmts)
    <2>1. CASE script' = <<>> BY <2>1, EmptySeq
    <2>2. CASE script' = t BY <1>4, <2>2
    <2> QED BY <2>1, <2>2 DEF t
<1>6. ASSUME NEW m, NEW s, ~Threatened(m, s)
      PROVE  ~Removes(Head(script), m, s) /\ ~Threatened(m, s)'
    <2>1. \A k \in 1..Len(script) : ~Removes(script[k], m, s) BY <1>6 DEF Threatened
    <2>2. ~Removes(Head(script), m, s) BY <1>2, <2>1
    <2>3. CASE script' = <<>>
        <3>1. 1..Len(script') = {} BY <2>3, EmptySeq
        <3> QED BY <2>2, <3>1 DEF Threatened
    <2>4. CASE script' = t
        <3>1. ASSUME NEW k \in 1..Len(t) PROVE ~Removes(t[k], m, s)
            <4>1. k + 1 \in 1..Len(script) BY <1>1, <1>4
            <4> QED BY <1>4, <2>1, <4>1
        <3>2. \A k \in 1..Len(script') : ~Removes(script'[k], m, s) BY <2>4, <3>1
        <3> QED BY <2>2, <3>2 DEF Threatened
    <2> QED BY <2>3, <2>4 DEF t
<1> QED BY <1>3, <1>5, <1>6

LEMMA StatementStep == ASSUME RegistryInv, Statement PROVE RegistryInv'
<1> USE DEF RegistryInv
<1> DEFINE st == Head(script)
<1>1. script # <<>> /\ script' \in {<<>>, Tail(script)} /\ UNCHANGED <<ipc, pkt, sure, shown>>
    BY DEF Statement
<1>2. script \in Seq(Stmts) BY DEF CallInv
<1>3. /\ st \in Stmts /\ script' \in Seq(Stmts)
      /\ \A m, s : ~Threatened(m, s) => ~Removes(st, m, s) /\ ~Threatened(m, s)'
    BY <1>1, <1>2, RestOfCall
<1>4. CallInv' BY <1>1, <1>3 DEF CallInv
<1>5. ASSUME StoreInv', IndexInv',
             \A m \in Meters : \A s : ~Removes(st, m, s) /\ index[m] # Nil => index'[m] # Nil,
             \A h \in heard : ~Removes(st, h[1], h[2]) => h \in heard'
      PROVE  RegistryInv'
    <2>1. \A s \in sure : pkt[s].m \in Meters BY DEF SureInv, CallInv, Packets
    <2>2. SureInv' BY <1>1, <1>3, <1>5, <2>1 DEF SureInv
    <2>3. \A h \in shown : h[1] \in Meters BY DEF ShownInv
    <2>4. ShownInv' BY <1>1, <1>3, <1>5, <2>3 DEF ShownInv
    <2> QED BY <1>4, <1>5, <2>2, <2>4
<1>6. CASE UNCHANGED <<readings, heard, index>>
    <2>1. StoreInv' /\ IndexInv' BY <1>6 DEF StoreInv, IndexInv
    <2> HIDE DEF st
    <2> QED BY <1>5, <1>6, <2>1
<1>7. CASE readings' = LeftReadings(st) /\ heard' = LeftHeard(st) /\ index' \in LeftIndex(st)
    <2>1. StoreInv'
        <3>1. readings' \subseteq readings BY <1>7 DEF LeftReadings
        <3> QED BY <3>1 DEF StoreInv
    <2>2. \A h \in heard : ~Removes(st, h[1], h[2]) => h \in heard'
        BY <1>7 DEF LeftHeard, Removes
    <2>3. IndexInv' /\ \A m \in Meters : \A s : ~Removes(st, m, s) /\ index[m] # Nil => index'[m] # Nil
        <3>1. CASE st.on = "index"
            <4>1. index' = [m \in Meters |-> IF st.of \in {m, Nil} THEN Nil ELSE index[m]]
                BY <1>7, <3>1 DEF LeftIndex
            <4>2. IndexInv' BY <4>1 DEF IndexInv
            <4> QED BY <3>1, <4>1, <4>2 DEF Removes
        <3>2. CASE st.on = "rollups"
            <4>1. index' \in [Meters -> UNION {Rollups(m) : m \in Meters}] /\ \A m \in Meters : index'[m] \in Rollups(m)
                BY <1>7, <3>2 DEF LeftIndex
            <4>2. \A m \in Meters : /\ index'[m] \in IndexRows \cup {Nil} /\ (index'[m] # Nil => RowOrder(index'[m]))
                                    /\ index[m] # Nil => index'[m] # Nil
                BY <4>1, RollupRow
            <4>3. index' \in [Meters -> IndexRows \cup {Nil}] BY <4>1, <4>2, Zenon
            <4> QED BY <4>2, <4>3 DEF IndexInv
        <3>3. CASE st.on \notin {"index", "rollups"}
            <4>1. index' = index BY <1>7, <3>3 DEF LeftIndex
            <4> QED BY <4>1 DEF IndexInv
        <3> QED BY <3>1, <3>2, <3>3
    <2> HIDE DEF st
    <2> QED BY <1>5, <2>1, <2>2, <2>3
<1> QED BY <1>6, <1>7 DEF Statement

LEMMA RegistryStep == ASSUME RegistryInv, [RNext]_rvars PROVE RegistryInv'
<1>1. ASSUME NEW s \in Sources, NEW p \in Packets, InsertReading(s, p) PROVE RegistryInv'
    BY <1>1, InsertReadingStep
<1>2. ASSUME NEW s \in Sources, UpsertIndex(s) PROVE RegistryInv' BY <1>2, UpsertIndexStep
<1>3. ASSUME NEW s \in Sources, UpsertSource(s) PROVE RegistryInv' BY <1>3, UpsertSourceStep
<1>4. ASSUME NEW sc \in Scripts, Call(sc) PROVE RegistryInv' BY <1>4, CallStep
<1>5. CASE Statement BY <1>5, StatementStep
<1>6. CASE UNCHANGED rvars
    BY <1>6 DEF rvars, RegistryInv, StoreInv, IndexInv, CallInv, SureInv, ShownInv, Threatened
<1> QED BY <1>1, <1>2, <1>3, <1>4, <1>5, <1>6 DEF RNext

(* However the statements of inserts, purges and maintenance interleave    *)
(* and fail: a packet stored after the last removal of its rows has its    *)
(* meter and dongle listed, and every row of meter_index is in order.      *)
THEOREM RegistryIsHonest == RegistrySpec => []RegistryHonest
<1>1. RInit => RegistryInv
    BY EmptySeq DEF RInit, RegistryInv, StoreInv, IndexInv, CallInv, SureInv, ShownInv
<1>2. RegistryInv /\ [RNext]_rvars => RegistryInv' BY RegistryStep
<1>3. RegistryInv => RegistryHonest
    BY DEF RegistryInv, IndexInv, ShownInv, RowOrder, RegistryHonest
<1> QED BY <1>1, <1>2, <1>3, PTL DEF RegistrySpec

-----------------------------------------------------------------------------
(* Enrol.                                                                  *)

\* The two settings hold the halves of one pair.
Whole == dbKeyPub = dbKeyPriv /\ dbKeyPub # 0
Saving == apc \in {"pub", "priv"}

\* The server's identity while it is made: the newest pair, of which the
\* settings have no private half yet.
SavingInv ==
    /\ dbKeyPub \in Nat /\ dbKeyPriv \in Nat /\ srvPub \in Nat /\ srvPriv \in Nat /\ pairs \in Nat
    /\ dbKeyPub <= pairs /\ dbKeyPriv <= pairs
    /\ apc \in {"down", "pub", "priv", "up", "off"} /\ IsFiniteSet(unsaved)
    /\ Saving => srvPub = pairs /\ srvPriv = pairs /\ pairs # 0 /\ dbKeyPriv # pairs /\ ~Whole
    /\ apc = "pub" => Missing
    /\ apc = "priv" => dbKeyPub = srvPub \/ srvPub \in unsaved

\* A half in the settings without its other half is of a pair that could not be
\* saved.
HalfInv ==
    /\ dbKeyPub # 0 /\ dbKeyPub # dbKeyPriv => dbKeyPub \in unsaved \/ (apc = "priv" /\ dbKeyPub = srvPub)
    /\ dbKeyPriv # 0 /\ dbKeyPriv # dbKeyPub => dbKeyPriv \in unsaved

\* What the server runs with.
OfferInv ==
    apc = "up" => /\ srvPub # 0
                  /\ srvPub # srvPriv => srvPub \in unsaved /\ srvPriv \in unsaved
                  /\ srvPub \notin unsaved => Whole
                  /\ Whole => srvPub = dbKeyPub /\ srvPriv = dbKeyPriv

ServerInv == SavingInv /\ HalfInv /\ OfferInv

\* A key an agent has pinned is the one in the settings, unless its pair could
\* not be saved.
Kept(x) == x # 0 /\ x \notin unsaved => Whole /\ x = dbKeyPub
PinInv ==
    /\ pin \in [Agents -> Nat] /\ pinFile \in [Agents -> Nat]
    /\ \A a \in Agents : Kept(pin[a]) /\ Kept(pinFile[a])

\* An agent runs with keys, and has its own in its file.
OwnInv ==
    /\ own \in [Agents -> Nat] /\ keyFile \in [Agents -> Nat] /\ made \in [Agents -> Nat]
    /\ up \subseteq Agents /\ entered \subseteq Agents
    /\ \A a \in up : pin[a] # 0 /\ own[a] # 0
    /\ \A a \in entered : own[a] # 0
    /\ \A a \in Agents \ unkept : own[a] = keyFile[a]

\* While no two edits overlap, the one under way knows the list, and the list
\* has every agent that entered.
EditType ==
    /\ crossed \in BOOLEAN /\ DOMAIN ed = Edits
    /\ \A e \in Edits : ed[e].pc = "write" => ed[e].add \in BOOLEAN /\ ed[e].key \in Agents \X Nat
AloneInv ==
    ~crossed => /\ \A e, f \in Edits : ed[e].pc = "write" /\ ed[f].pc = "write" => e = f
                /\ \A e \in Edits : ed[e].pc = "write" => ed[e].list = dbList
ListedInv == ~crossed => \A a \in entered \ unkept : Key(a) \in dbList

EnrolInv == ServerInv /\ PinInv /\ OwnInv /\ EditType /\ AloneInv /\ ListedInv

-----------------------------------------------------------------------------
\* The API's own steps keep what is said of its identity.
LEMMA ServerStep ==
    ASSUME ServerInv, Boot \/ WritePub \/ WritePriv \/ ApiDies
    PROVE  ServerInv' /\ unsaved \subseteq unsaved' /\ (Whole => Whole' /\ dbKeyPub' = dbKeyPub)
<1> DEFINE G == ServerInv' /\ unsaved \subseteq unsaved' /\ (Whole => Whole' /\ dbKeyPub' = dbKeyPub)
<1> SUFFICES G OBVIOUS
<1> USE DEF ServerInv, SavingInv, HalfInv, OfferInv, Saving, Whole
<1>1. CASE Boot
    <2>1. UNCHANGED <<dbKeyPub, dbKeyPriv, unsaved>> /\ apc = "down" BY <1>1 DEF Boot
    <2>2. CASE /\ ~Missing /\ srvPub' = dbKeyPub /\ srvPriv' = dbKeyPriv /\ apc' = "up" /\ UNCHANGED pairs
        BY <2>1, <2>2 DEF Missing
    <2>3. CASE /\ Missing /\ pairs' = pairs + 1 /\ srvPub' = pairs + 1 /\ srvPriv' = pairs + 1 /\ apc' = "pub"
        BY <2>1, <2>3 DEF Missing
    <2>4. CASE apc' = "off" /\ UNCHANGED <<srvPub, srvPriv, pairs>> BY <2>1, <2>4
    <2> QED BY <1>1, <2>2, <2>3, <2>4 DEF Boot
<1>2. CASE WritePub
    <2>1. apc = "pub" /\ apc' = "priv" /\ UNCHANGED <<dbKeyPriv, srvPub, srvPriv, pairs>> BY <1>2 DEF WritePub
    <2>2. CASE dbKeyPub' = srvPub /\ UNCHANGED unsaved BY <2>1, <2>2 DEF Missing
    <2>3. CASE unsaved' = unsaved \cup {srvPub} /\ UNCHANGED dbKeyPub
        BY <2>1, <2>3, FS_AddElement DEF Missing
    <2> QED BY <1>2, <2>2, <2>3 DEF WritePub
<1>3. CASE WritePriv
    <2>1. apc = "priv" /\ apc' = "up" /\ UNCHANGED <<dbKeyPub, srvPub, srvPriv, pairs>> BY <1>3 DEF WritePriv
    <2>2. CASE dbKeyPriv' = srvPriv /\ UNCHANGED unsaved BY <2>1, <2>2
    <2>3. CASE unsaved' = unsaved \cup {srvPub} /\ UNCHANGED dbKeyPriv BY <2>1, <2>3, FS_AddElement
    <2> QED BY <1>3, <2>2, <2>3 DEF WritePriv
<1>4. CASE ApiDies
    <2>1. apc' = "down" /\ srvPub' = 0 /\ srvPriv' = 0 /\ UNCHANGED <<dbKeyPub, dbKeyPriv, pairs>>
        BY <1>4 DEF ApiDies
    <2>2. CASE apc # "priv" /\ UNCHANGED unsaved BY <2>1, <2>2
    <2>3. CASE apc = "priv" /\ unsaved' = unsaved \cup {srvPub} BY <2>1, <2>3, FS_AddElement
    <2> QED BY <1>4, <2>2, <2>3 DEF ApiDies
<1> QED BY <1>1, <1>2, <1>3, <1>4

\* What an API step leaves of the agents and the list.
LEMMA ApiKeepsAgents ==
    ASSUME EnrolInv, Boot \/ WritePub \/ WritePriv \/ ApiDies
    PROVE  EnrolInv'
<1>1. ServerInv' /\ unsaved \subseteq unsaved' /\ (Whole => Whole' /\ dbKeyPub' = dbKeyPub)
    BY ServerStep DEF EnrolInv
<1>2. UNCHANGED <<pinFile, keyFile, up, pin, own, made, unkept, dbList, crossed, entered>>
    BY DEF Boot, WritePub, WritePriv, ApiDies, agentVars, listVars
<1>3. PinInv' BY <1>1, <1>2 DEF EnrolInv, PinInv, Kept
<1>4. OwnInv' BY <1>2 DEF EnrolInv, OwnInv
<1>5. ListedInv' BY <1>2 DEF EnrolInv, ListedInv, Key
<1>6. EditType' /\ AloneInv'
    <2>1. CASE UNCHANGED ed BY <1>2, <2>1 DEF EnrolInv, EditType, AloneInv
    <2>2. CASE ed' = [e \in Edits |-> IF ed[e].pc = "write" THEN [pc |-> "done"] ELSE ed[e]]
        <3>1. \A e \in Edits : ed'[e].pc # "write"
            <4> SUFFICES ASSUME NEW e \in Edits PROVE ed'[e].pc # "write" OBVIOUS
            <4>1. CASE ed[e].pc = "write"
                <5>1. ed'[e] = [pc |-> "done"] BY <2>2, <4>1
                <5> QED BY <5>1
            <4>2. CASE ed[e].pc # "write"
                <5>1. ed'[e] = ed[e] BY <2>2, <4>2
                <5> QED BY <4>2, <5>1
            <4> QED BY <4>1, <4>2
        <3>2. DOMAIN ed' = Edits BY <2>2
        <3> QED BY <1>2, <3>1, <3>2 DEF EnrolInv, EditType, AloneInv
    <2> QED BY <2>1, <2>2 DEF Boot, WritePub, WritePriv, ApiDies, listVars
<1> QED BY <1>1, <1>3, <1>4, <1>5, <1>6 DEF EnrolInv

\* What leaves the API and its settings alone.
LEMMA ServerAlone ==
    ASSUME ServerInv, UNCHANGED <<srvVars, unsaved>>
    PROVE  ServerInv' /\ Whole' = Whole
BY DEF ServerInv, SavingInv, HalfInv, OfferInv, Saving, Whole, Missing, srvVars

LEMMA AgentStartStep == ASSUME EnrolInv, NEW a \in Agents, AgentStart(a) PROVE EnrolInv'
<1> DEFINE p == PinOf(a)
           k == KeyOf(a)
<1>1. /\ p # 0 /\ up' = up \cup {a} /\ pin' = [pin EXCEPT ![a] = p] /\ own' = [own EXCEPT ![a] = k]
      /\ made' = IF k > made[a] THEN [made EXCEPT ![a] = k] ELSE made
      /\ UNCHANGED <<srvVars, dbList, ed, crossed, entered, unsaved>>
    BY DEF AgentStart, listVars
<1>2. /\ pin \in [Agents -> Nat] /\ pinFile \in [Agents -> Nat] /\ own \in [Agents -> Nat]
      /\ keyFile \in [Agents -> Nat] /\ made \in [Agents -> Nat]
    BY DEF EnrolInv, PinInv, OwnInv
<1>3. k \in Nat \ {0} BY <1>2 DEF KeyOf
<1>4. p \in Nat /\ Kept(p)
    <2>1. CASE pinFile[a] # 0 BY <1>2, <2>1 DEF PinOf, EnrolInv, PinInv
    <2>2. CASE pinFile[a] = 0
        <3>1. p = srvPub /\ apc = "up" BY <1>1, <2>2 DEF PinOf, Fetched
        <3>2. srvPub \in Nat BY DEF EnrolInv, ServerInv, SavingInv
        <3>3. Kept(srvPub) BY <3>1 DEF EnrolInv, ServerInv, OfferInv, Kept
        <3> QED BY <3>1, <3>2, <3>3
    <2> QED BY <2>1, <2>2
<1>5. /\ pinFile' \in {pinFile, [pinFile EXCEPT ![a] = p]}
      /\ \/ keyFile' = [keyFile EXCEPT ![a] = k] /\ UNCHANGED unkept
         \/ keyFile[a] = 0 /\ keyFile' = keyFile /\ unkept' = unkept \cup {a}
    BY DEF AgentStart
<1>6. k = IF keyFile[a] # 0 THEN keyFile[a] ELSE made[a] + 1 BY DEF KeyOf
<1> HIDE DEF p, k
<1>7. ServerInv' /\ Whole' = Whole BY <1>1, ServerAlone DEF EnrolInv
<1>8. PinInv'
    <2>1. pin' \in [Agents -> Nat] /\ pinFile' \in [Agents -> Nat] BY <1>1, <1>2, <1>4, <1>5
    <2>2. \A b \in Agents : pin'[b] \in {pin[b], p} /\ pinFile'[b] \in {pinFile[b], p}
        BY <1>1, <1>2, <1>5
    <2>3. \A x : Kept(x) => Kept(x)' BY <1>1, <1>7 DEF Kept, srvVars
    <2> QED BY <1>4, <2>1, <2>2, <2>3 DEF EnrolInv, PinInv, Kept
<1>9. /\ own'[a] = k /\ \A b \in Agents \ {a} : own'[b] = own[b]
      /\ pin'[a] = p /\ \A b \in Agents \ {a} : pin'[b] = pin[b]
    BY <1>1, <1>2
<1>10. OwnInv'
    <2>1. own' \in [Agents -> Nat] /\ keyFile' \in [Agents -> Nat] /\ made' \in [Agents -> Nat]
        BY <1>1, <1>2, <1>3, <1>5
    <2>2. up' \subseteq Agents /\ entered' \subseteq Agents BY <1>1 DEF EnrolInv, OwnInv
    <2>3. \A b \in up' : pin'[b] # 0 /\ own'[b] # 0 BY <1>1, <1>3, <1>9 DEF EnrolInv, OwnInv
    <2>4. \A b \in entered' : own'[b] # 0 BY <1>1, <1>3, <1>9 DEF EnrolInv, OwnInv
    <2>5. \A b \in Agents \ unkept' : own'[b] = keyFile'[b] BY <1>2, <1>5, <1>9 DEF EnrolInv, OwnInv
    <2> QED BY <2>1, <2>2, <2>3, <2>4, <2>5 DEF OwnInv
<1>11. ListedInv'
    <2> SUFFICES ASSUME ~crossed, NEW b \in entered \ unkept' PROVE Key(b)' \in dbList
        BY <1>1 DEF ListedInv
    <2>1. b \in Agents /\ b \notin unkept /\ own[b] # 0 /\ own[b] = keyFile[b]
        BY <1>5 DEF EnrolInv, OwnInv
    <2>2. own'[b] = own[b] BY <1>5, <1>6, <1>9, <2>1
    <2>3. Key(b) \in dbList BY <2>1 DEF EnrolInv, ListedInv
    <2> QED BY <2>2, <2>3 DEF Key
<1>12. EditType' /\ AloneInv' BY <1>1 DEF EnrolInv, EditType, AloneInv
<1> QED BY <1>7, <1>8, <1>10, <1>11, <1>12 DEF EnrolInv

\* What leaves everything alone but who runs and who entered.
LEMMA AgentsAlone ==
    ASSUME EnrolInv, UNCHANGED <<srvVars, unsaved, pinFile, keyFile, pin, own, made, unkept>>,
           up' \subseteq up, entered' \subseteq Agents, \A a \in entered' : own[a] # 0,
           EditType', AloneInv', ListedInv'
    PROVE  EnrolInv'
<1>1. ServerInv' /\ Whole' = Whole BY ServerAlone DEF EnrolInv
<1>2. PinInv' BY <1>1 DEF EnrolInv, PinInv, Kept, srvVars
<1>3. OwnInv' BY DEF EnrolInv, OwnInv
<1> QED BY <1>1, <1>2, <1>3 DEF EnrolInv

LEMMA ReadStep ==
    ASSUME EnrolInv, NEW e \in Edits, NEW add \in BOOLEAN, NEW a \in Agents, Read(e, add, Key(a))
    PROVE  EnrolInv'
<1> DEFINE r(l) == [pc |-> "write", add |-> add, key |-> Key(a), list |-> l]
<1>1. /\ entered' \subseteq entered /\ UNCHANGED <<srvVars, agentVars, dbList, unsaved>>
      /\ ed[e].pc = "new"
    BY DEF Read
<1>2. PICK l : /\ ed' = [ed EXCEPT ![e] = r(l)]
               /\ \/ l = dbList /\ crossed' = (crossed \/ Editing)
                  \/ crossed' = TRUE
    BY DEF Read
<1>3. crossed \in BOOLEAN /\ DOMAIN ed = Edits BY DEF EnrolInv, EditType
<1>4. /\ DOMAIN ed' = Edits /\ ed'[e] = r(l) /\ \A f \in Edits \ {e} : ed'[f] = ed[f]
    BY <1>2, <1>3
<1>5. ed'[e].pc = "write" /\ ed'[e].add = add /\ ed'[e].key = Key(a) /\ ed'[e].list = l BY <1>4
<1>6. Key(a) \in Agents \X Nat BY DEF Key, EnrolInv, OwnInv
<1>7. crossed' \in BOOLEAN
    <2>1. Editing \in BOOLEAN BY DEF Editing
    <2> QED BY <1>2, <1>3, <2>1, Zenon
<1>8. EditType' BY <1>4, <1>5, <1>6, <1>7 DEF EnrolInv, EditType
<1>9. ~crossed' => ~crossed /\ ~Editing /\ l = dbList BY <1>2, <1>3, Zenon
<1>10. AloneInv'
    <2> SUFFICES ASSUME ~crossed' PROVE AloneInv' BY DEF AloneInv
    <2>1. \A f \in Edits \ {e} : ed'[f].pc # "write" BY <1>4, <1>9 DEF Editing
    <2> QED BY <1>1, <1>4, <1>5, <1>9, <2>1 DEF AloneInv
<1>11. UNCHANGED <<pinFile, keyFile, up, pin, own, made, unkept>> BY <1>1 DEF agentVars
<1>12. ListedInv' BY <1>1, <1>9, <1>11 DEF EnrolInv, ListedInv, Key
<1>13. entered' \subseteq Agents /\ (\A b \in entered' : own[b] # 0) BY <1>1 DEF EnrolInv, OwnInv
<1> QED BY <1>1, <1>8, <1>10, <1>11, <1>12, <1>13, AgentsAlone

LEMMA WriteListStep == ASSUME EnrolInv, NEW e \in Edits, WriteList(e) PROVE EnrolInv'
<1>1. /\ ed[e].pc = "write" /\ ed' = [ed EXCEPT ![e] = [pc |-> "done"]]
      /\ entered' \subseteq entered /\ UNCHANGED <<srvVars, agentVars, crossed, unsaved>>
    BY DEF WriteList
<1>2. UNCHANGED <<pinFile, keyFile, up, pin, own, made, unkept>> BY <1>1 DEF agentVars
<1>3. /\ DOMAIN ed = Edits /\ ed[e].add \in BOOLEAN /\ ed[e].key \in Agents \X Nat
    BY <1>1 DEF EnrolInv, EditType
<1>4. /\ DOMAIN ed' = Edits /\ ed'[e].pc = "done" /\ \A f \in Edits \ {e} : ed'[f] = ed[f]
    BY <1>1, <1>3
<1>5. EditType' BY <1>1, <1>4 DEF EnrolInv, EditType
<1>6. AloneInv'
    <2> SUFFICES ASSUME ~crossed PROVE AloneInv' BY <1>1 DEF AloneInv
    <2>1. \A f \in Edits : ed[f].pc = "write" => f = e BY <1>1 DEF EnrolInv, AloneInv
    <2>2. \A f \in Edits : ed'[f].pc # "write" BY <1>4, <2>1
    <2> QED BY <2>2 DEF AloneInv
<1>7. ListedInv'
    <2> SUFFICES ASSUME ~crossed, NEW a \in entered' \ unkept PROVE Key(a) \in dbList'
        BY <1>1, <1>2 DEF ListedInv, Key
    <2>1. Key(a) \in dbList /\ ed[e].list = dbList BY <1>1 DEF EnrolInv, ListedInv, AloneInv
    <2>2. CASE UNCHANGED dbList BY <2>1, <2>2
    <2>3. CASE /\ dbList' = IF ed[e].add THEN ed[e].list \cup {ed[e].key} ELSE ed[e].list \ {ed[e].key}
               /\ entered' = IF ed[e].add THEN entered ELSE entered \ {ed[e].key[1]}
        <3>1. CASE ed[e].add BY <2>1, <2>3, <3>1
        <3>2. CASE ~ed[e].add
            <4>1. a # ed[e].key[1] BY <2>3, <3>2
            <4>2. Key(a)[1] = a BY DEF Key
            <4>3. Key(a) # ed[e].key BY <4>1, <4>2
            <4> QED BY <2>1, <2>3, <3>2, <4>3
        <3> QED BY <3>1, <3>2
    <2> QED BY <2>2, <2>3 DEF WriteList
<1>8. entered' \subseteq Agents /\ (\A b \in entered' : own[b] # 0) BY <1>1 DEF EnrolInv, OwnInv
<1> QED BY <1>1, <1>2, <1>5, <1>6, <1>7, <1>8, AgentsAlone

LEMMA EnrolStep == ASSUME EnrolInv, [NNext]_nvars PROVE EnrolInv'
<1>1. CASE Boot \/ WritePub \/ WritePriv \/ ApiDies BY <1>1, ApiKeepsAgents
<1>2. ASSUME NEW a \in Agents, AgentStart(a) PROVE EnrolInv' BY <1>2, AgentStartStep
<1>3. ASSUME UNCHANGED <<srvVars, unsaved, pinFile, keyFile, pin, own, made, unkept, dbList, ed, crossed, entered>>,
             up' \subseteq up
      PROVE  EnrolInv'
    <2>1. EditType' /\ AloneInv' /\ ListedInv'
        BY <1>3 DEF EnrolInv, EditType, AloneInv, ListedInv, Key
    <2>2. entered' \subseteq Agents /\ (\A b \in entered' : own[b] # 0) BY <1>3 DEF EnrolInv, OwnInv
    <2> QED BY <1>3, <2>1, <2>2, AgentsAlone
<1>4. ASSUME NEW a \in Agents, AgentDies(a) PROVE EnrolInv' BY <1>3, <1>4 DEF AgentDies, listVars
<1>5. ASSUME NEW a \in Agents, Enter(a) PROVE EnrolInv'
    <2>1. /\ a \in up /\ Key(a) \in dbList /\ entered' = entered \cup {a}
          /\ UNCHANGED <<srvVars, unsaved, pinFile, keyFile, up, pin, own, made, unkept, dbList, ed, crossed>>
        BY <1>5 DEF Enter, Admits, agentVars, listVars
    <2>2. EditType' /\ AloneInv' BY <2>1 DEF EnrolInv, EditType, AloneInv
    <2>3. ListedInv' BY <2>1 DEF EnrolInv, ListedInv, Key
    <2>4. entered' \subseteq Agents /\ (\A b \in entered' : own[b] # 0) BY <2>1 DEF EnrolInv, OwnInv
    <2> QED BY <2>1, <2>2, <2>3, <2>4, AgentsAlone
<1>6. ASSUME NEW e \in Edits, WriteList(e) PROVE EnrolInv' BY <1>6, WriteListStep
<1>7. ASSUME NEW e \in Edits, NEW a \in Agents, Authorize(e, a) \/ Revoke(e, a) PROVE EnrolInv'
    BY <1>7, ReadStep DEF Authorize, Revoke
<1>8. CASE UNCHANGED nvars BY <1>3, <1>8 DEF nvars, agentVars, listVars
<1> QED BY <1>1, <1>2, <1>4, <1>5, <1>6, <1>7, <1>8 DEF NNext

(* Whatever restarts and fails on either side: an agent that once had a    *)
(* session and was not revoked is admitted again, unless one of the        *)
(* failures EnrolmentKept names came in between; and a server offers the   *)
(* public half of the private key it has, unless two pairs were half saved.*)
THEOREM EnrolEnrolmentKept == EnrolSpec => []EnrolmentKept
<1>1. NInit => EnrolInv
    <2> SUFFICES ASSUME NInit PROVE EnrolInv OBVIOUS
    <2>1. ServerInv BY FS_EmptySet DEF NInit, ServerInv, SavingInv, HalfInv, OfferInv, Saving, Whole
    <2>2. PinInv /\ OwnInv BY DEF NInit, PinInv, OwnInv, Kept
    <2>3. EditType /\ AloneInv /\ ListedInv BY DEF NInit, Idle, EditType, AloneInv, ListedInv
    <2> QED BY <2>1, <2>2, <2>3 DEF EnrolInv
<1>2. EnrolInv /\ [NNext]_nvars => EnrolInv' BY EnrolStep
<1>3. EnrolInv => EnrolmentKept
    <2> SUFFICES ASSUME EnrolInv, apc = "up" PROVE EnrolmentKept BY DEF EnrolmentKept
    <2>1. ASSUME NEW a \in up \ unkept, a \in entered, pin[a] \notin unsaved, ~crossed PROVE Admits(a)
        <3>1. a \in Agents /\ pin[a] # 0 BY DEF EnrolInv, OwnInv
        <3>2. Whole /\ pin[a] = dbKeyPub BY <2>1, <3>1 DEF EnrolInv, PinInv, Kept
        <3>3. srvPriv = dbKeyPriv BY <3>2 DEF EnrolInv, ServerInv, OfferInv
        <3>4. Key(a) \in dbList BY <2>1 DEF EnrolInv, ListedInv
        <3> QED BY <3>2, <3>3, <3>4 DEF Admits, Whole
    <2>2. ASSUME srvPub # srvPriv PROVE ~(Cardinality(unsaved) < 2)
        <3>1. srvPub \in unsaved /\ srvPriv \in unsaved /\ IsFiniteSet(unsaved)
            BY <2>2 DEF EnrolInv, ServerInv, OfferInv, SavingInv
        <3>2. IsFiniteSet({srvPub}) /\ Cardinality({srvPub}) = 1 BY FS_Singleton
        <3>3. Cardinality({srvPub} \cup {srvPriv}) = 2 BY <2>2, <3>2, FS_AddElement
        <3>4. {srvPub} \cup {srvPriv} \in SUBSET unsaved BY <3>1
        <3>5. Cardinality({srvPub} \cup {srvPriv}) <= Cardinality(unsaved) BY <3>1, <3>4, FS_Subset
        <3>6. Cardinality(unsaved) \in Nat BY <3>1, FS_CardinalityType
        <3> QED BY <3>3, <3>5, <3>6
    <2> QED BY <2>1, <2>2 DEF EnrolmentKept
<1> QED BY <1>1, <1>2, <1>3, PTL DEF EnrolSpec
=============================================================================
