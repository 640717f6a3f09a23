SPECIFICATION Spec
CONSTANTS
    k1 = k1
    k2 = k2
    Keys = {k1, k2}
    Bucket <- OneBucket
    Prefix <- NoPrefix
    LBA_SIZE = 4
    META_SZ = 1
    Lens = {2, 5}
    MAX_LBA_NUM = 5
    MaxReadBlks = 1
    VersionMod = 8
    Junk = {0}
    Window = 1
    FaultTimers = 0
    MaxPuts = 3
    MaxTimers = 2
    MaxFaults = 1
    MaxCrashes = 2
INVARIANTS IndexSafe
PROPERTIES LeaksAreReflushes ScanNeverDies ImplementsKV
