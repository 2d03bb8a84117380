SPECIFICATION Spec
CONSTANTS
    t1 = t1
    t2 = t2
    t3 = t3
    t4 = t4
    v1 = v1
    v2 = v2
    Threads <- FourThreads
    Values <- TwoValues
    BufSize = 2
    NULL = NULL
SYMMETRY Symmetry
INVARIANTS
    TypeOK
    LockOwner
    BufferPacked
    QueueDiscipline
    QueuedFramesLive
    WokenHasData
PROPERTIES
    Refinement
\* Every thread may be waiting in send or recv at once.
CHECK_DEADLOCK FALSE
