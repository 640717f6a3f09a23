SPECIFICATION FairSpec
CONSTANTS
    k1 = k1
    k2 = k2
    Keys = {k1, k2}
    Bucket <- OneBucket
    Prefix <- NoPrefix
    LBA_SIZE = 4
    META_SZ = 1
    Lens = {2, 5, 7}
    MAX_LBA_NUM = 12
    MaxReadBlks = 2
    VersionMod = 8
    Junk = {0}
    Window = 2
    FaultTimers = 0
    MaxPuts = 3
    MaxTimers = 2
    MaxFaults = 0
    MaxCrashes = 0
PROPERTIES LaterPutWins PutsAreAcked ScanEnds
