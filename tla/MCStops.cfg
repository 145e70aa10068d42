\* A position under its stops: two reductions by the venue, one close, stand-down or add
\* (which makes it two contracts), one /stops, one restart, and runs that may reach their deadline.
SPECIFICATION StopSpec
CONSTANTS
    Held = 1
    ExitFloors = {0}
    MaxStops = 4
    MaxReduced = 2
    MaxOps = 1
    MaxRenewals = 1
    MaxRestarts = 1
    StopFaults = {"deadline"}
INVARIANTS
    SpotNotForgotten
    PerpNotForgotten
    ExitNotLocked
    StopsDoNotStack
