SPECIFICATION FairSpec
CONSTANTS
    t1 = t1
    t2 = t2
    t3 = t3
    t4 = t4
    v1 = v1
    v2 = v2
    Threads <- ThreeThreads
    Values <- OneValue
    BufSize = 0
    NULL = NULL
PROPERTIES
    LockReleased
    QueuedSenderServed
\* Every thread may be waiting in send or recv at once.
CHECK_DEADLOCK FALSE
