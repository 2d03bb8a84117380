SPECIFICATION Spec
CONSTANTS
    f1 = f1
    f2 = f2
    f3 = f3
    Ids <- TwoFrames
    Inputs <- SomeInputs
    Regular <- RegularFrames
    NULL = NULL
SYMMETRY Symmetry
INVARIANTS
    RegularFramesSurvive
\* A frame that kills the process is the last step, and every frame may be done.
CHECK_DEADLOCK FALSE
