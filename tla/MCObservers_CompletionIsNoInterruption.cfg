CONSTANTS
    ThresholdNum = 1
    ThresholdDen = 1
    Nodes = {"a", "c", "d"}
    NodePools = {"p", "q", "r"}
    JobSets = {"u1", "u2"}
    LeaderWorkerSets = {}
    NodeLabels <- MCNodeLabels
    PoolSpec <- MCPoolSpec
    JobSetSpec <- MCJobSetSpec
    Running = {"u1"}
    NodeStatuses = {"True", "False", "Unknown", "LongUnknown"}
    LWSReplicas = {}
    Nil = Nil
    Bound <- MCBound
    Changes = 2
    Failures = 0
SPECIFICATION FairSpec
INVARIANT CompletionIsNoInterruption
