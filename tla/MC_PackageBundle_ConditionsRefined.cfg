CONSTANTS
    i1 = i1
    i2 = i2
    NoImage = NoImage
    Images <- MCImages
    MaxAttempts = 3
    MaxFaults = 2
    MaxCrashes = 0
    MaxResets = 0
    MaxOutages = 0
SPECIFICATION BSpec
PROPERTIES
    ConditionsRefined
CHECK_DEADLOCK FALSE
