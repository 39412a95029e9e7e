CONSTANTS
    Sources = {a, b}
    Remotes = {r}
    Manager = mgr
    Par = {p}
    Off = off
    Nil = nil
    Clients <- MCClients
    GateBase = 1
    GateMax = 1
    WordSize = 8
    MaxFails = 1
    MaxDeadRuns = 2
    MaxBusChanges = 1
    MaxEdits = 0
SPECIFICATION Spec
INVARIANTS
    
    WindowHeldByOpener
    SupervisorsOwned
    EnumerateWhileFree

    
    
