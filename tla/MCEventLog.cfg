CONSTANTS
    ThresholdNum = 1
    ThresholdDen = 2
    Instances = {i1}
    Resources = {r1}
    Upnesses <- MCUpnesses
    SliceEnabled = FALSE
    LeaderWorkerSetEnabled = FALSE
    MaxTime = 2
    Bound <- MCBound
    Observable = {"node-pools", "jobsets", "jobset-nodes"}
    Changes = 2
    Failures = 1
    Restarts = 1
SPECIFICATION FairSpec
INVARIANTS
    TypeOK
    HistoriesWellFormed
    TimesOrdered
    PendingFresh
    RestingLogIsCurrent
    RestingViewIsCurrent
PROPERTIES
    HistoriesOnlyGrow
    ImplementsLog
    LogCatchesUp
