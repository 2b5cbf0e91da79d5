CONSTANTS
    ThresholdNum = 1
    ThresholdDen = 2
    Slices = {s1}
    Owners = {o1}
    OwnerOf <- MCOwnerOf
    Conditions = {"True", "Unknown"}
    Bound <- MCBound
    Changes = 2
    Lookups = 0
    Saves = 0
    Appends = 0
    Lags = 1
    Restarts = 0
SPECIFICATION FairSpec
CHECK_DEADLOCK FALSE
PROPERTY ActiveOwnersKeepHistory
