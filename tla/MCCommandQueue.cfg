\* Two crashes, three commands, a clock that outruns the TTL twice over.
\* The model stops at its horizon: no deadlock check.
CONSTANTS
    MaxCommands = 3
    MaxTime = 3
    MaxCrashes = 2
    TTL = 1
    Wait = 2
SPECIFICATION FairSpec
INVARIANTS
    AtMostOnce
    ReplyIsFinal
PROPERTIES
    NoExecutionAfterOutage
    ImplementsLifecycle
    EveryCommandSettles
CHECK_DEADLOCK FALSE
