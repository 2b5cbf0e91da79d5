CONSTANTS
    ThresholdNum = 1
    ThresholdDen = 2
    Observed <- MCObserved
    MaxTime = 5
    MaxEvents = 5
SPECIFICATION Spec
CHECK_DEADLOCK FALSE
INVARIANT InterruptionsAreReal
