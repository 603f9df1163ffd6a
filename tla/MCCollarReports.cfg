\* Three packets, one command, one reset; every second number is a checkpoint.
CONSTANTS
    Profiles <- MCProfiles
    Threshold <- MCThreshold
    CheckpointEvery = 2
    MaxSeq = 3
    MaxCommands = 1
    MaxReboots = 1
    MaxFailures = 1
SPECIFICATION FairSpec
INVARIANT WindowKeepsReport
PROPERTIES FallbackPaced RequestServed
CHECK_DEADLOCK FALSE
