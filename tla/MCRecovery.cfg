\* An entry or an add cut short by up to two crashes.
SPECIFICATION RecoverySpec
CONSTANTS
    Target = 2
    Pre = 1
    MinHedge = 2
    SpotStep = 1
    Attempts = 2
    MaxOrders = 2
    MaxRuns = 1
    Faults = {"spot_ambiguous", "poll_fails"}
    MaxCrashes = 2
    RecoveryFaults = {}
INVARIANTS
    SpotNeverLeads
    NothingRestsAfterSweep
PROPERTIES
    ImplementsTwoLegs
CHECK_DEADLOCK FALSE
