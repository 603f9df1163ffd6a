\* Two cloud commands, one console command, one reset; blocks of two numbers.
CONSTANTS
    Profiles <- MCProfiles
    Threshold <- MCThreshold
    Initial = "normal"
    Fallback = "normal"
    Block = 2
    LostMax = 2
    MaxPolls = 1
    MaxCommands = 2
    MaxChanges = 1
    MaxReboots = 1
SPECIFICATION FairSpec
INVARIANTS NumberOnce OneRadio
PROPERTIES AckedInForce LostEnds
CHECK_DEADLOCK FALSE
