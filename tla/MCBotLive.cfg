SPECIFICATION FairSpec
CONSTANTS
    c1 = c1
    c2 = c2
    w1 = w1
    w2 = w2
    e1 = e1
    e2 = e2
    e3 = e3
    e4 = e4
    Conns <- TwoConns
    Workers <- TwoWorkers
    Echoes <- TwoEchoes
    NULL = NULL
    MaxTasks = 1
    MaxFaults = 0
PROPERTIES
    TasksEnd
    ReadersReturn
\* Without events nothing happens.
CHECK_DEADLOCK FALSE
