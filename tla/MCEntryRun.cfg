\* A run with nothing worse than rejections, thin books and late buy-backs.
SPECIFICATION EntrySpec
CONSTANTS
    Target = 3
    Pre = 2
    MinHedge = 2
    SpotStep = 1
    Attempts = 2
    MaxOrders = 3
    MaxRuns = 1
    Faults = {}
INVARIANTS
    NeverOversold
    RowsMatchVenues
    LegsMatchOrWarned
CHECK_DEADLOCK FALSE
