\* One symbol, three commands at any await of the loop, one restart.
SPECIFICATION DeskSpec
CONSTANTS
    Symbol = {"x"}
    Kinds = {"spike"}
    ExitModes = {"now", "passive"}
    MaxPerDay = 2
    MaxOpenAuto = 1
    MaxOps = 3
    MaxRestarts = 1
    DeskFaults = {}
INVARIANTS
    ExposureIsBounded
    FiresOnce
    OnlyWorkingStatesTrade
PROPERTIES
    OperatorExitStands
