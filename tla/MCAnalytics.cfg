\* Five hours of a 5-bit counter; four days of a home; two requests of the
\* screen; four hours of a bill; two
\* years of two months of bills.
INIT Init
NEXT Next
CONSTANTS
    Width = 5
    Floor = 3
    Factor = 2
    Lookback = 2
    DayLen = 2
    WeekLen = 2
    FirstCounts = {27}
    Uses = {0, 2}
    MaxHours = 5
    Monitored = {100, 137}
    Rests = {0, 95}
    BillSets <- MCBillSets
    Month = "jan"
    MinDays = 3
    MaxDays = 4
    Requests = {r1, r2}
    KWs = {1, 2}
    BillSettings = {1, 2}
    NoScreen = NoScreen
    MaxEdits = 2
    MaxErrors = 1
    MaxClock = 2
    TTL = 2
    Stats = {"opower", "paper"}
    Exposes <- MCExposes
    Periods <- MCPeriods
    PeriodLen <- MCPeriodLen
    NoRun = NoRun
    MaxTime = 4
    MaxSwitches = 1
    MaxFailures = 1
    MonthDays <- MCMonthDays
    Years = 2
    Scale = 60
    UnitFactor = 2
    Amounts = {0, 6}
    DayKwhs = {0, 2}
    MaxMonitored = 3
INVARIANTS  PagesTile  EditSeen  EstimateTiles
CHECK_DEADLOCK FALSE
