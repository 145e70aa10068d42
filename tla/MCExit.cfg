\* Passive and taker closes, full and partial, replaced and stood down, and the
\* sell-down after the venue closed contracts; no request of unknown outcome.
SPECIFICATION ExitSpec
CONSTANTS
    Size = 3
    Modes = {"passive", "now"}
    Floors = {0, 1}
    MinHedge = 1
    MinNotional = 2
    Attempts = 2
    Callers = {"operator"}
    MaxRequests = 3
    MaxTasks = 3
    MaxOrders = 2
    MaxAdl = 1
    ExitFaults = {}
INVARIANTS
    OneTask
    SpotCoversPerp
    NoOrderOutlivesExit
    RowsMatchAtRest
    ClosedMeansFlat
PROPERTY ImplementsLegsDown
CHECK_DEADLOCK FALSE
