\* Two collars, three packets: a collar with two slots has sent two packets.
CONSTANTS
    c1 = c1
    c2 = c2
    Collars = {c1, c2}
    PerDevice = 2
    MaxDevices = 2
    StorageLen = 1
    CloudLen = 1
    BatchLen = 2
    Kinds = {"good"}
    MaxPackets = 3
    MaxCrashes = 0
    Faults = {}
SPECIFICATION Spec
INVARIANT HistoryKept
