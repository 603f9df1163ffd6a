\* One tick of Lost mode, one reset at any moment.
CONSTANTS
    LostMax = 1
    MaxReboots = 1
    MaxFailures = 1
SPECIFICATION FairSpec
INVARIANTS LostBounded ModesAgree FlashCurrent
PROPERTY LostEnds
