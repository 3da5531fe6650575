CONSTANTS
    ImuCapacity = 2
    LidarCapacity = 1
    MaxGap = 2
    MaxSpan = 1
    MaxTime = 5
    MaxResets = 1
SPECIFICATION FairSpec
INVARIANTS
    PredictionCurrent
    CorrectionAfterItsPredictions
PROPERTIES
    PropagationContiguous
    StepWithinGapUnlessRolledBack
    PredictionsForward
    ScanServed
