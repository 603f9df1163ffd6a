\* One collar whose file wraps, one power loss, every fault; the journal drains.
CONSTANTS
    c1 = c1
    c2 = c2
    Collars = {c1}
    PerDevice = 2
    MaxDevices = 2
    StorageLen = 1
    CloudLen = 1
    BatchLen = 2
    Kinds = {"good", "malformed"}
    MaxPackets = 3
    MaxCrashes = 1
    Faults = {"number", "append", "update", "auth"}
SPECIFICATION FairSpec
INVARIANTS VerdictIsTheClouds IdNamesOnePacket
PROPERTY PendingResolved
