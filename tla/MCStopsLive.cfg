\* The loop by itself: two reductions, stops that fire, no command.
SPECIFICATION StopFairSpec
CONSTANTS
    Held = 2
    ExitFloors = {0}
    MaxStops = 4
    MaxReduced = 2
    MaxOps = 0
    MaxRenewals = 0
    MaxRestarts = 0
    StopFaults = {}
PROPERTIES
    NakedSpotIsMet
