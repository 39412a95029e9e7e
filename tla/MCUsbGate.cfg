CONSTANTS
    Clients = {c1, c2, c3}
    GateBase = 1
    GateMax = 5
    WordSize = 256
    MaxFails = 10
SPECIFICATION GateSpec
INVARIANTS
    SerialWindow
PROPERTIES
    GrantAfterBackoff
    BackoffOnlyDrains
