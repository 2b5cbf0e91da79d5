CONSTANTS
    ThresholdNum = 1
    ThresholdDen = 2
    Instances = {i1}
    Resources = {r1}
    Upnesses <- MCUpnesses
    SliceEnabled = TRUE
    LeaderWorkerSetEnabled = FALSE
    MaxTime = 1
    Bound <- MCBound
    Observable = {"node-pools", "jobsets", "slices"}
    Changes = 2
    Failures = 0
    Restarts = 1
SPECIFICATION FairSpec
INVARIANT RestingLogIsCurrent
