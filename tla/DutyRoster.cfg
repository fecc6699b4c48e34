SPECIFICATION Spec
CONSTANTS
  Members = {m1, m2}
  Slots = {s1, s2}
  Horizon = 2
  Editors = {e1, e2}
  Controllers = {c1}
  NoShift = NoShift
  MaxEdits = 3
INVARIANT ClashesWereRaced
PROPERTY AnnouncedExactlyOnce
CHECK_DEADLOCK FALSE
