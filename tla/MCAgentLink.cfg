\* Safety: one dongle, two sessions, queries that fail, a cut or a crash.
SPECIFICATION Spec
CONSTANTS
    Sources = {d1}
    Settings = {p}
    Off = Off
    Zero = Zero
    None = None
    Sessions = {k1, k2}
    DBErrors = TRUE
    MaxEdits = 1
    MaxBreaks = 1
    MaxPlugs = 0
    MaxNotes = 1
    MaxDown = 2
SYMMETRY Symmetry
INVARIANTS
    SupervisorsReaped
    
    
