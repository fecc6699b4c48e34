SPECIFICATION Spec
CONSTANTS
  Threshold = 2
  Signals <- MixedSignals
  MaxRuns = 2
  MaxModelRuns = 2
  MaxMoves = 4
INVARIANTS
  NoDuplicates
  DispatchedIssuesExist
PROPERTIES
  TickClosesForCause
  PagesOnlyPersistentOutage
  FailureReported
  LastingConcernsTracked
