CONSTANTS
    AlignEnabled = TRUE
    QualityGate = TRUE
    MovingThreshold = 1
    DirectionsNeeded = 2
    MaxResets = 3
SPECIFICATION LifeSpec
INVARIANTS
    WarmAfterFlight
    CounterNamesWorld
    PathInOneWorld
    AlignmentShownIsKept
