SPECIFICATION Spec
CONSTANTS
  Members = {lead, mate}
  Lead = lead
  Boss = boss
  Owner = owner
  Nobody = Nobody
  Issues = {i1, i2}
  Clerks = {c1, c2}
  Horizon = 1
  Sla = 0
  MaxSteps = 3
INVARIANTS AssigneeTold SaidIsMailed
PROPERTY WarnedExactlyOnce
CHECK_DEADLOCK FALSE
