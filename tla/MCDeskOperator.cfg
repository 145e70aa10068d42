\* The operator's passive exit follows an automatic passive one.
SPECIFICATION DeskSpec
CONSTANTS
    Symbol = {"x"}
    Kinds = {"convergence"}
    ExitModes = {"passive"}
    MaxPerDay = 1
    MaxOpenAuto = 1
    MaxOps = 3
    MaxRestarts = 0
    DeskFaults = {"passive_again"}
PROPERTIES
    OperatorExitStands
