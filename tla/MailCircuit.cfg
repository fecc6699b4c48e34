SPECIFICATION MailSpec
CONSTANTS
  Mails = {m1, m2, m3}
  Threads = 3
  Workers = 2
  Threshold = 2
  Addresses = 2
  Outlasts = TRUE
INVARIANTS
  ProbeAccounted
  RepeatsAreBroken
PROPERTY SelfHeals
