SPECIFICATION Spec
CONSTANTS
    Entities = {a}
    h1 = h1
    h2 = h2
    Brokers <- MCBrokers
    Meters = {m}
    Actions = {heating}
    None = None
    MaxEdits = 3
    MaxBreaks = 0
    MaxQueue = 2
PROPERTY ReadingPublished
CHECK_DEADLOCK FALSE
