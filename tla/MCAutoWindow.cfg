CONSTANTS
    AutoMinDuration = 1
    AutoMaxDuration = 2
    AutoCooldown = 1
    MaxTests = 2
    Pools = {p}
    NoPool = none
    DBErrors = TRUE
SPECIFICATION FairSpec
INVARIANTS
    OneAutoWindow
    Governed
PROPERTIES
    ManualUntouched
    EndsUnlessCallFails
