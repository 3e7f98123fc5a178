CONSTANTS
    i1 = i1
    i2 = i2
    NoImage = NoImage
    Images <- MCImages
    MaxAttempts = 3
    MaxFaults = 2
    MaxCrashes = 1
    MaxResets = 1
    MaxOutages = 0
SPECIFICATION BSpec
SYMMETRY MCSymmetry
INVARIANTS
    StagesMatchFiles
    InstalledImagesPresent
CHECK_DEADLOCK FALSE
