CONSTANTS
    ScanLines = 2
    Stride = 2
    MaxDuration = 2
    GroupSize = 2
    Messages <- MCMessages
SPECIFICATION Spec
INVARIANTS EmittedFromThisScan DominantWindow PointTimesMatchScan
PROPERTY SurfaceThinned
CHECK_DEADLOCK FALSE
