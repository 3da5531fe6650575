CONSTANTS
    Clouds <- MCClouds
    Workers = {w1, w2}
    Descriptors = {0, 1, 3}
    ThrDist = 1
    MaxCorr = 2
SPECIFICATION Spec
SYMMETRY Threads
INVARIANT MatchesMutual
PROPERTY KeypointsOfThisCloud
CHECK_DEADLOCK FALSE
