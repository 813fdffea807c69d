CONSTANTS
    NumTasks = 3
    ProcessMax = 2
    MaxFails = 2
    \* a pass is a fail that is not counted: a first fail stands for it
    Outcomes = {"fail", "error", "raise"}
    Modes = {"regress", "count"}
SPECIFICATION Spec
INVARIANTS
    DequeueFindsItem
    EachTaskOnce
    DoneMeansAllRun
PROPERTY
    RunEnds
