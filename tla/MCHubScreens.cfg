CONSTANTS
    Boards = {"p4", "s3"}
    MinZoom = 0
    MaxZoom = 1
    TopRows = 3
    Scale <- MCScale
    Landscape = 2
    Portrait = 3
    Slots <- MCSlots
    Readable <- MCReadable
    Flaky <- MCFlaky
    CatAt = {4}
    Hubs = {"p4", "s3"}
    Names = {"cafe"}
    Modes = {"home", "portable"}
    Requires <- MCRequires
    Cats = {"cat"}
    Workers = {w1, w2}
    Codes = {"wifi", "collar"}
SPECIFICATION ScreensSpec
VIEW MCView
INVARIANTS ShownIsRight VisibleShown PairIntact Durable OneOverlay OneWorker CodeAnnounced
