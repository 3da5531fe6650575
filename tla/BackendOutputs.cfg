SPECIFICATION SpecOutputs
CONSTANTS
  Capacity = 1
  MaxCandidates = 1
  DetectorBatches <- StubDetector
  MaxKeyframes = 3
  MaxCorrections = 2
INVARIANTS
  StaleMapMarked
  StalePathMarked
  PathCoversKeyframes
