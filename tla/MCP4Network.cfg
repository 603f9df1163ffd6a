\* One change of settings, one scan, one network lost, one failure.
CONSTANTS
    Choices <- MCChoices
    MaxQueue = 1
    MaxApplies = 1
    MaxScans = 1
    MaxMoves = 1
    MaxFailures = 1
SPECIFICATION WifiFairSpec
INVARIANTS NoLostRequest
PROPERTIES UplinkReturns
CHECK_DEADLOCK FALSE
