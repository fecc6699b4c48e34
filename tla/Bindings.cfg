SPECIFICATION Spec
CONSTANTS
  Project = {p1, p2}
  Job = {j1, j2}
  App = {a1}
  CmlProject = {c1, c2}
  Request = {r1, r2}
  Levels = {"custom"}
  MaxCalls = 4
  MaxVersions = 1
  Missing = Missing
  Gone = Gone
SYMMETRY Symmetry
INVARIANTS PolledWhereMeant CacheIsWhole
CHECK_DEADLOCK FALSE
