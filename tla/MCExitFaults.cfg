\* Every fault of an exit run: whatever happens, the runs and their callers end.
SPECIFICATION ExitFairSpec
CONSTANTS
    Size = 2
    Modes = {"passive", "now"}
    Floors = {0}
    MinHedge = 1
    MinNotional = 1
    Attempts = 1
    Callers = {"operator"}
    MaxRequests = 2
    MaxTasks = 2
    MaxOrders = 1
    MaxAdl = 0
    ExitFaults = {"slow_stops", "stops_stay", "cut_request", "place_ambiguous", "sale_ambiguous", "leg_ambiguous", "poll_fails", "cancel_fails", "adl_midway"}
PROPERTIES
    CancelSettles
    TakerEnds
CHECK_DEADLOCK FALSE
