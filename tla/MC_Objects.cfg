SPECIFICATION MCSpec
CONSTANTS
    CPUs = {c1, c2}
    c1 = c1
    c2 = c2
    p1 = p1
    p2 = p2
    p3 = p3
    NONE = NONE
    chunk_size = 2
    num_chunks = 3
    ResetsNumFree = TRUE
    MaxDrift = 1
INVARIANTS PoolSafe ListsSafe PortsSafe
PROPERTIES NullMeansNone LockIsReleased TwReaped
CHECK_DEADLOCK FALSE
