CONSTANTS
    NumTasks = 1
    ProcessMax = 1
    MaxFails = 0
    Outcomes = {"pass"}
    Modes = {"regress"}
SPECIFICATION Spec
INVARIANT
    SummaryTakesAllResults
