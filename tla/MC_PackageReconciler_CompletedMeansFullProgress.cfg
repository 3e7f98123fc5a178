CONSTANTS
    i1 = i1
    i2 = i2
    NoImage = NoImage
    Images <- MCImages
    MaxAttempts = 3
    MaxFaults = 3
    MaxCrashes = 1
    MaxResets = 1
    MaxOutages = 1
SPECIFICATION Spec
INVARIANTS
    CompletedMeansFullProgress
CHECK_DEADLOCK FALSE
