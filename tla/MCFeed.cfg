SPECIFICATION Spec
CONSTANTS
    Entities = {a, b}
    Thermostat = t
    None = None
    MaxNow = 3
    MaxBreaks = 1
INVARIANTS OutageVisible 
PROPERTIES LiveRowsKept HolesHeal
CHECK_DEADLOCK FALSE
