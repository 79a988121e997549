SPECIFICATION Spec
CONSTANTS
    Loop = loop
    Posts = {}
    Checks = {check1}
    Readers = {reader1}
    DefaultSource = "live"
    GuardReady = TRUE
    MayDiffer = {"SalesInvoice"}
    MayRefuse = {"PurchaseInvoice"}
    MaxRev = 2
INVARIANT
    DefaultLiveNeverDrift
PROPERTY
    DivertRestsOnEvidence
