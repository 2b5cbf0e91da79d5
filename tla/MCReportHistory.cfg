CONSTANTS
    ThresholdNum = 1
    ThresholdDen = 2
    Self = i1
    Instances = {i1}
    Resources = {r1}
    Jobs = {j1}
    Upnesses <- MCUpnesses
    SliceEnabled = FALSE
    LeaderWorkerSetEnabled = FALSE
    MaxTime = 1
    Bound <- MCBound
    Observable = {"node-pools", "jobsets", "jobset-nodes"}
    Changes = 3
    Failures = 1
    Restarts = 1
SPECIFICATION ScenarioSpec
INVARIANTS
    AggregatorTypeOK
    EmitsOnlyWhenObserved
PROPERTIES
    ReportsNeverGoBack
    MetricsCatchUp
    DeadPoolsForgotten
