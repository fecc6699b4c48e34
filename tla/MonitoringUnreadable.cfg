SPECIFICATION Spec
CONSTANTS
  Threshold = 2
  Signals <- MixedSignals
  MaxRuns = 0
  MaxModelRuns = 1
  MaxMoves = 2
PROPERTY ClosesOnlyOnReading
