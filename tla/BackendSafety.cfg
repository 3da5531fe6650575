SPECIFICATION Spec
CONSTANTS
  Capacity = 2
  MaxCandidates = 3
  DetectorBatches <- ManyPairs
  MaxKeyframes = 3
  MaxCorrections = 2
INVARIANTS
  CandidatesOnCurrentTrajectory
  QueueDisciplined
  OneWaitingSearch
  CorrectionComplete
  DeltaMatchesAnchor
  KeysFollowKeyframes
PROPERTIES
  CorrectionReachesAll
  ImplementsLoopCorrection
