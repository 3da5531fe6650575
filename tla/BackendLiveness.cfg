SPECIFICATION FairSpec
CONSTANTS
  Capacity = 1
  MaxCandidates = 1
  DetectorBatches <- OnePair
  MaxKeyframes = 2
  MaxCorrections = 2
PROPERTIES
  CorrectionEnds
  WaitingSearchResolved
