CONSTANTS
    ThresholdNum = 1
    ThresholdDen = 1
    Nodes = {"a"}
    NodePools = {"p"}
    JobSets = {"u2", "u3"}
    LeaderWorkerSets = {"w"}
    NodeLabels <- MCNodeLabels
    PoolSpec <- MCPoolSpec
    JobSetSpec <- MCJobSetSpec
    Running = {"u2"}
    NodeStatuses = {"True", "Unknown", "LongUnknown"}
    LWSReplicas = {0}
    Nil = Nil
    Bound <- MCBound
    Changes = 3
    Failures = 1
SPECIFICATION FairSpec
INVARIANTS
    TypeOK
    InterruptionsWereReal
PROPERTIES
    ObservationsCatchUp
    OnlyTheGoneAreForgotten
