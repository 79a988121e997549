SPECIFICATION Spec
CONSTANTS
    Users = {mo, sara}
    Addresses = {here}
    NoAddress = noaddress
    Nobody = nobody
    TTL = 1
    Hour = 2
    MaxPerAccountHour = 1
    MaxPerIpHour = 2
    MaxRows = 3
    MaxTime = 2
    MaxCrashes = 1
CONSTRAINT OneOrigin
SYMMETRY Interchangeable
INVARIANTS
    AtMostOneLive
    BurntOnlyWhenSet
    ThrottleHolds
    SingleUseButForCrashes
PROPERTY
    DeadStaysDead
CHECK_DEADLOCK FALSE
