SPECIFICATION Spec
CONSTANTS
    c1 = c1
    c2 = c2
    w1 = w1
    w2 = w2
    e1 = e1
    e2 = e2
    e3 = e3
    e4 = e4
    Conns <- TwoConns
    Workers <- TwoWorkers
    Echoes <- FourEchoes
    NULL = NULL
    MaxTasks = 1
    MaxFaults = 1
SYMMETRY Symmetry
INVARIANTS
    Balance
    OwnAnswer
\* With a reply lost every worker may wait for ever.
CHECK_DEADLOCK FALSE
