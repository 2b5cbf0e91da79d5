CONSTANTS
    ThresholdNum = 1
    ThresholdDen = 2
    Observed <- MCObserved
    MaxTime = 5
    MaxEvents = 5
SPECIFICATION Spec
INVARIANTS
    TypeOK
    TimeAccounted
    ExactWhenAlternating
    TotalsMatchCounts
PROPERTIES
    ProvisioningOutcomeFinal
    CountsNeverDecrease
CHECK_DEADLOCK FALSE
