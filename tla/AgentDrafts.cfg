SPECIFICATION Spec
CONSTANTS
  Drafts = {d1, d2}
  Assets = {a1, a2}
  Flawed = {a2}
  Values = {v1}
  Blank = blank
  Tokens = {t1}
  Workers = {k1, k2}
  Requests = {r1, r2}
  MaxSteps = 4
SYMMETRY MCSymmetry
CHECK_DEADLOCK FALSE
INVARIANTS  NothingTwice InFlightIsWorkedOn
PROPERTY ReviewedKept
