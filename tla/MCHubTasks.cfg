\* Two tasks ask for modes at once; both networks configured, a budget of two
\* ticks, a clock that wraps at three.  Every fault of the command delivery; two
\* kinds of command to two collars, numbered alike by hub and cloud; a queue of one, and no
\* time that has to pass between transmissions.
CONSTANTS
    c1 = c1
    c2 = c2
    web = web
    page = page
    console = console
    Requesters = {page, console}
    HasPrimary = TRUE
    HasSecondary = TRUE
    RecoveryTicks = 2
    ClockMod = 3
    Provisioning = FALSE
    Collars = {c1, c2}
    Locals = {web}
    Cloud = cloudTask
    CloudSeqs = {1}
    Kinds = {"profile", "find"}
    MaxLocal = 1
    NumSlots = 2
    QueueLen = 1
    MaxRetries = 0
    Interval = 0
    AckTimeout = 1
    Window = 1
    CommandTTL = 2
    FeedbackTTL = 3
    Faults = {"radio", "loraMutex", "pendingMutex"}
SPECIFICATION TasksSpec
VIEW TasksView
SYMMETRY TasksSymmetry
INVARIANTS BeaconMeansHome FlagHasOneOwner OneProfilePerCollar AckMeansSent
PROPERTIES LatchSpec NoResurrection
