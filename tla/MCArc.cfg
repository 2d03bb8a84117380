SPECIFICATION Spec
CONSTANTS
    h1 = h1
    h2 = h2
    h3 = h3
    h4 = h4
    h5 = h5
    Handles <- FiveHandles
SYMMETRY Symmetry
INVARIANTS
    Counted
    LiveWhileReferenced
    TakenOnce
    WeakCountPositive
    CyclicAssert
PROPERTIES
    NoResurrection
    Refinement
\* Once the memory is freed nothing more can happen.
CHECK_DEADLOCK FALSE
