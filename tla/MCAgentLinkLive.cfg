\* Catching up: one dongle that may come or go, two edits, a cut or a crash.
SPECIFICATION FairSpec
CONSTANTS
    Sources = {d1}
    Settings = {p}
    Off = Off
    Zero = Zero
    None = None
    Sessions = {k1}
    DBErrors = FALSE
    MaxEdits = 2
    MaxBreaks = 1
    MaxPlugs = 1
    MaxNotes = 1
    MaxDown = 2
PROPERTIES
    AgentCatchesUp
