SPECIFICATION Spec
CONSTANTS
    k1 = k1
    k2 = k2
    Keys = {k1, k2}
    Bucket <- OneBucket
    Prefix <- NoPrefix
    LBA_SIZE = 4
    META_SZ = 1
    Lens = {2}
    MAX_LBA_NUM = 6
    MaxReadBlks = 2
    VersionMod = 8
    Junk = {0}
    Window = 2
    FaultTimers = 0
    MaxPuts = 2
    MaxTimers = 1
    MaxFaults = 0
    MaxCrashes = 0
INVARIANTS IndexedIsOnDevice
