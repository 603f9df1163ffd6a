\* No faults: one local and one cloud profile command for one collar, a queue of two.
CONSTANTS
    c1 = c1
    web = web
    Collars = {c1}
    Locals = {web}
    Cloud = cloudTask
    CloudSeqs = {9}
    Kinds = {"profile"}
    MaxLocal = 1
    NumSlots = 2
    QueueLen = 2
    MaxRetries = 1
    Interval = 1
    AckTimeout = 1
    Window = 1
    CommandTTL = 3
    FeedbackTTL = 4
    Faults = {}
SPECIFICATION CommandsFairSpec
INVARIANTS CloudDeadlineKept NotStranded
PROPERTIES NoStaleProfile EveryCommandEnds
