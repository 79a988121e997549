SPECIFICATION FairSpec
CONSTANTS
    Docs = {1, 2, 3, 4, 5, 6, 7}
    Refused = {2, 4, 6}
    FirstBooks <- SmallBooks
    PageSize = 2
    MaxPages = 3
    Retries = 1
    MaxInserts = 2
    MaxDeletes = 2
INVARIANTS
    NoLossWithoutDeletion
    StillBooksExact
PROPERTY
    Terminates
CHECK_DEADLOCK FALSE
