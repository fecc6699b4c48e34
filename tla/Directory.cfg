SPECIFICATION Spec
CONSTANTS
  User = {u1, u2, u3}
  Administrator = u1
  PlatformOwners = {}
  Request = {r1, r2}
  MaxCalls = 4
  Missing = Missing
INVARIANTS RolesKept SessionsCurrent
PROPERTIES StartRepairsOrKeeps
CHECK_DEADLOCK FALSE
SYMMETRY Symmetry
