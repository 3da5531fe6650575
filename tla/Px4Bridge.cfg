SPECIFICATION Spec
CONSTANTS
    Interval = 4
    Counters = 3
    MaxTime = 14
    MaxFrames = 3
    MaxBoots = 1
INVARIANTS
    RateBounded
    NoRateLoss
PROPERTIES
    JumpsAnnounced
    MovesForward
CHECK_DEADLOCK FALSE
