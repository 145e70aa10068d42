\* Every fault of a run that does not end its task, and of a restart.
SPECIFICATION RecoveryFairSpec
CONSTANTS
    Target = 2
    Pre = 1
    MinHedge = 1
    SpotStep = 1
    Attempts = 1
    MaxOrders = 2
    MaxRuns = 1
    Faults = {"place_ambiguous", "cancel_fails", "spot_ambiguous", "unwind_ambiguous"}
    MaxCrashes = 1
    RecoveryFaults = {"listing_fails", "sweep_fails", "lookup_fails", "risk_fails"}
INVARIANTS
    NoDoubleBooking
PROPERTIES
    EntrySettles
CHECK_DEADLOCK FALSE
