\* One row, one driver that dies.
SPECIFICATION Spec
CONSTANTS
  d1 = d1
  s1 = s1
  c1 = c1
  NRow = 1
  Driver = {d1}
  Sweeper = {s1}
  Caller = {c1}
  Emails = {TRUE}
  Moves = {}
  MirrorsLate = FALSE
  MaxResumes = 0
  MaxMishaps = 1
INVARIANTS
  CompletedHasReport
\* The operator may stop asking, the engine may never end.
CHECK_DEADLOCK FALSE
