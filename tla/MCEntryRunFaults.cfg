\* Two runs in a row under every fault.
SPECIFICATION EntryFairSpec
CONSTANTS
    Target = 2
    Pre = 1
    MinHedge = 1
    SpotStep = 1
    Attempts = 2
    MaxOrders = 2
    MaxRuns = 2
    Faults = {"place_ambiguous", "cancel_fails", "poll_fails", "spot_ambiguous", "unwind_ambiguous"}
PROPERTIES
    RunEnds
CHECK_DEADLOCK FALSE
