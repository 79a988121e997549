SPECIFICATION FairSpec
CONSTANTS
    Loop = "loop"
    Posted = {"post"}
    Figures <- TheFigures
    LastMonth = 3
    MonthDays = 2
    RECHECK_DAY = 1
    WARNING_DAYS = 1
    Patched = {"open", "closed"}
    MaxSaves = 2
    None = None
    Credits = {0, 1}
INVARIANTS
    CreditIsCarried
PROPERTIES
    DueReturnIsChased
    WatcherKeepsGoing
CHECK_DEADLOCK FALSE
