SPECIFICATION FairSpec
CONSTANTS
    Recorders <- TheRecorders
    Analog = {"r1"}
    SnapEvery = 2
    StaleAfter = 3
    SlowTicks = 1
    TailLimit = 2
    PushLimit = 3
    MAX_EVENTS = 3
    MaxHappen = 2
    MaxChanges = 2
PROPERTIES
    Relayed
    WallConverges
CHECK_DEADLOCK FALSE
