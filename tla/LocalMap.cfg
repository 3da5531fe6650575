CONSTANTS
    Axes = {x, y}
    Coordinates = {0, 1, 2, 4, 5}
    SideLength = 4
    DetectionRange = 2
    MaxPoints = 1
    MaxFeatures = 2
    MaxIterations = 2
SPECIFICATION Spec
INVARIANTS
    LeftPointsRemoved
    EvidenceOfThisFrame
PROPERTY
    SurroundingsKept
