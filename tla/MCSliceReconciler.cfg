CONSTANTS
    ThresholdNum = 1
    ThresholdDen = 2
    Slices = {s1}
    Owners = {o1}
    OwnerOf <- MCOwnerOf
    Conditions = {"True", "Unknown"}
    Bound <- MCBound
    Changes = 4
    Lookups = 1
    Saves = 1
    Appends = 1
    Lags = 1
    Restarts = 1
SPECIFICATION FairSpec
CHECK_DEADLOCK FALSE
INVARIANT TypeOK
PROPERTIES
    KeepsHistoryUnlessFaulty
    SlicesCatchUp
    OwnerMapForgets
