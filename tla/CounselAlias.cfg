SPECIFICATION Spec
CONSTANTS
    Running = {"counsel"}
    Walks = {"one", "two"}
    Lists <- TheLists
    Requested = {9}
    MOST_PAGES = 2
    MaxMoves = 1
    Listeners = {"a", "b"}
    Lookers = {"p"}
    Numbers = 3
    MaxLooks = 1
    MaxFailures = 1
    Clients = {"c", "d", "e"}
    Limits = {0, 2}
    TableLimit = 1
    MaxWindows = 2
    MaxRequests = 3
    Keys = {"api", "agent"}
    Comment = "comment"
    KeepBackups = 2
    MaxSaves = 3
    MaxCrashes = 2
    MaxSeconds = 2
    Ids = {1, 2, 3}
    Heads <- TheHeads
    Prices <- ThePrices
    Payments = {0, 5}
    Rounding <- TheRounding
    TOLERANCE = 1
    PartyType = "Customer"
    GuardMonth = 5
    MaxEdits = 2
    Users <- TheUsers
    Invoices <- TheInvoices
    Requests = {1, 2}
    MaxRows = 7
    MaxDeaths = 1
    Slots <- TheSlots
    Files <- TheFiles
    Locked = Locked
    Missing = Missing
    NotLoaded = NotLoaded
    Aliases <- TheAliases
    Texts <- TheTexts
    Questions = {"madani", "amal"}
    AHEAD = 2
    BEHIND = 3
    TopK = 3
    PerSection = 1
    MaxFileChanges = 2
INVARIANTS
    ExplicitFormWins
CHECK_DEADLOCK FALSE
