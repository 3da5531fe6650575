CONSTANTS
    MaxCorr = 3
    Rows = {x, y}
    Offsets = {0, 1, 2, 3}
    NoiseBound = 3
    Unit = 4
    MaxIterations = 2
    NumInliersThreshold = 2
    MaxCalls = 3
    MaxStamp = 2
    MaxNow = 2
SPECIFICATION Spec
INVARIANTS
    AcceptedIsOfThisCall
    TranslationSupported
PROPERTY
    AlignedOnce
CHECK_DEADLOCK FALSE
