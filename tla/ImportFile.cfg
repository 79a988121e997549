SPECIFICATION Spec
CONSTANTS
    None = None
    Unread = Unread
    ValidAcids = {"acid"}
    OtherAcids = {"short"}
    Syncs = {one, two}
    Codes = {"SH1"}
    NamaFields = {"eta", "currency", "value_fob"}
    NamaRecords <- TheRecords
    Openings <- TheOpenings
    Edits <- TheEdits
    Papers <- ThePapers
    Costs <- TheCosts
    Boxes <- TheBoxes
    BoxEdits <- TheBoxEdits
    StepEdits <- TheStepEdits
    Checks <- TheChecks
    LastDay = 2
    MaxEdits = 3
INVARIANTS
    LandedIsWhatWasPaid
    TicksAgreeWithAlerts
PROPERTIES
    CountdownRuns
    QuietSyncIsExact
SYMMETRY Same
CHECK_DEADLOCK FALSE
