SPECIFICATION FairSpec
CONSTANTS
    Near = 2
    Level = 2
    MaxDelay = 15
    Id = {1, 2}
    MaxDiff = 2
INVARIANTS WellPlaced
PROPERTIES OnTime EventuallyGone
