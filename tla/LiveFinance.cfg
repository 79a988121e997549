SPECIFICATION FairSpec
CONSTANTS
    Loop = loop
    Posts = {post1}
    Checks = {check1}
    Readers = {}
    DefaultSource = "live"
    GuardReady = TRUE
    MayDiffer = {"SalesInvoice"}
    MayRefuse = {"PurchaseInvoice"}
    MaxRev = 1
INVARIANTS
    VerdictIsEvidence
PROPERTIES
    SnapshotNeverRegresses
    VerdictNeverRegresses
    SnapshotConverges
    VerdictConverges
