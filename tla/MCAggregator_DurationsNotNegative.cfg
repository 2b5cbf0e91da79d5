CONSTANTS
    ThresholdNum = 1
    ThresholdDen = 2
    Self = i1
    Instances = {i1}
    Resources = {r1}
    Jobs = {}
    Upnesses <- MCUpnesses
    SliceEnabled = TRUE
    LeaderWorkerSetEnabled = FALSE
    MaxTime = 1
    Bound <- MCBound
    Observable = {"slices"}
    Changes = 2
    Failures = 0
    Restarts = 0
SPECIFICATION AggregatorFairSpec
INVARIANT DurationsNotNegative
