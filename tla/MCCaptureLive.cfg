\* One dongle that comes and goes, two settings, two edits.
CONSTANTS
    Sources = {a}
    Remotes = {}
    Manager = mgr
    Par = {p, q}
    Off = off
    Nil = nil
    Clients <- MCClients
    GateBase = 1
    GateMax = 1
    WordSize = 8
    MaxFails = 1
    MaxDeadRuns = 2
    MaxBusChanges = 1
    MaxEdits = 2
SPECIFICATION FairSpec
PROPERTIES
    ConfigApplied
    CancelHonoured
