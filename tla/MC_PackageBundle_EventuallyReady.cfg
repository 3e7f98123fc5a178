CONSTANTS
    i1 = i1
    i2 = i2
    NoImage = NoImage
    Images <- MCImages
    MaxAttempts = 3
    MaxFaults = 0
    MaxCrashes = 1
    MaxResets = 0
    MaxOutages = 0
SPECIFICATION BSpec
PROPERTIES
    EventuallyReady
CHECK_DEADLOCK FALSE
