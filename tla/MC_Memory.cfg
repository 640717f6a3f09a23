SPECIFICATION MCSpec
CONSTANTS
    c1 = c1
    c2 = c2
    t1 = t1
    t2 = t2
    p1 = p1
    p2 = p2
    p3 = p3
    NONE = NONE
    MAX_LBA_NUM = 7
    MaxBlks = 3
SYMMETRY Symm
INVARIANTS FreeListExact PagesSafe AddressSpaceSafe LayoutSafe PbufsSafe ChecksumsAgree
PROPERTIES LowestFit DiesOnlyAtTheTop
CHECK_DEADLOCK FALSE
