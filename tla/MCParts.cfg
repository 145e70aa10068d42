\* One part at a time: four fills of a position; three funding settlements; four signed
\* requests; four updates and two deaths of the bot; seven scans of a score, in which
\* there is time for an alert, an absence longer than the re-arm time, and the next alert;
\* four sweeps of the scam screen; every book of three levels.
SPECIFICATION PartsSpec
CONSTANTS
    Qty = {1, 2}
    Price = {1, 3}
    MaxFills = 4
    LedgerFaults = {}
    Payment <- PaymentUsed
    Estimate = {0, 1}
    MaxPayments = 3
    FundingFaults = {}
    Wanted = 2
    Steps <- StepsUsed
    Remembered = 2
    MaxSigned = 4
    RequestFaults = {}
    MaxUpdates = 4
    MaxKills = 2
    BotFaults = {"dies"}
    Score = {0, 1}
    Levels = {1}
    Gaps = {1}
    Every = 2
    Sustain = 1
    Rearm = 2
    PerDay = 1
    MaxScans = 7
    MaxChanges = 1
    SignalFaults = {}
    SweepGaps = {1, 2}
    AlertAge = 2
    AlertScore = 7
    MaxSweeps = 4
    MaxDeaths = 2
    ScamFaults = {"dies_unsent"}
    Scale = 10
    Px = {2, 3, 4, 5}
    Lots = {0, 1, 3}
    Depth = 3
    Bounds <- BoundsUsed
    Slip = 1
INVARIANTS
    RowIsDerived
    RealisedIsCash
    ValueIsCash
    FundingIsPaid
    RequestsHold
    ConfirmedIsRun
    AlertsHold
    PingsOncePerWindow
    FiguresAgree
CHECK_DEADLOCK FALSE
