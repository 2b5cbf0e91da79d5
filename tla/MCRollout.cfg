CONSTANTS
    ThresholdNum = 1
    ThresholdDen = 2
    Old = i1
    New = i2
    Instances = {i1, i2}
    Resources = {r1}
    Upnesses <- MCUpnesses
    SliceEnabled = TRUE
    LeaderWorkerSetEnabled = FALSE
    MaxTime = 0
    Bound <- MCBound
    Observable = {"node-pools", "jobsets"}
    Changes = 2
    Failures = 1
    Restarts = 4
    MaxFaults = 1
SPECIFICATION ScenarioSpec
INVARIANTS
    RolloutTypeOK
    HistoriesWellFormed
PROPERTIES
    LeaderWritesAlone
    RolloutLogCatchesUp
    RolloutCompletes
