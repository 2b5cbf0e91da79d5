CONSTANTS
    ThresholdNum = 1
    ThresholdDen = 2
    Old = i1
    New = i2
    Instances = {i1, i2}
    Resources = {r1}
    Upnesses <- MCUpnesses
    SliceEnabled = TRUE
    LeaderWorkerSetEnabled = FALSE
    MaxTime = 0
    Bound <- MCBound
    Observable = {"node-pools"}
    Changes = 0
    Failures = 0
    Restarts = 2
    MaxFaults = 0
SPECIFICATION ScenarioSpec
PROPERTY StartedBecomesReady
