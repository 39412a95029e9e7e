\* Two dongles of one meter; two streams; eight days; three keys at a table of
\* two; two agents, two edits of the list and five starts.
INIT Init
NEXT Next
CONSTANTS
    Meters = {m}
    Sources = {s1, s2}
    Counters = {0, 1, 2}
    Nil = Nil
    MaxTS = 2
    MaxInserts = 2
    MaxCalls = 1
    MaxFaults = 1
    Streams = {c1, c2}
    ChanCap = 2
    MaxEvents = 4
    MaxLosses = 1
    Horizon = 2
    Step = 2
    MaxDay = 8
    MaxTrouble = 2
    Keys = {k1, k2, k3}
    PendingMax = 2
    PendingTTL = 1
    MaxClock = 3
    MaxApprovals = 2
    MaxMisses = 1
    Agents = {a1, a2}
    Edits = {e1, e2}
    MaxPairs = 2
    MaxStarts = 5
    MaxErrors = 2
INVARIANTS RegistryHonest OnlySlowLose  KnocksListed EnrolmentKept
CHECK_DEADLOCK FALSE
