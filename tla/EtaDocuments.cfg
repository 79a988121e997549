SPECIFICATION FairSpec
CONSTANTS
    Docs = {"sale"}
    Direction <- TheDirection
    Day <- TheDay
    Issued <- IssueMonth
    Received <- ReceiptMonth
    Months = {"july", "august"}
    InPlay = {"july"}
    Lifecycle <- TheLifecycle
    Loop = "loop"
    Posted = {"post"}
    DaysInMonth = 31
    WINDOW_DAYS = 30
    Shapes <- TheShapes
    RinKnown = TRUE
    MaxReads = 1
PROPERTIES
    KnownStaysKnown
    PullIsFresh
    CacheConverges
CHECK_DEADLOCK FALSE
