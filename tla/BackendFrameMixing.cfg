SPECIFICATION Spec
CONSTANTS
  Capacity = 1
  MaxCandidates = 3
  DetectorBatches <- StubDetector
  MaxKeyframes = 3
  MaxCorrections = 1
INVARIANT KeyframesShareFrame
