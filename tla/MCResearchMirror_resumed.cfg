\* One row, resumed once; nothing dies and nothing fails.
SPECIFICATION Spec
CONSTANTS
  d1 = d1
  d2 = d2
  s1 = s1
  c1 = c1
  NRow = 1
  Driver = {d1, d2}
  Sweeper = {s1}
  Caller = {c1}
  Emails = {TRUE}
  Moves = {}
  MirrorsLate = FALSE
  MaxResumes = 1
  MaxMishaps = 0
INVARIANTS
  FinalisedOncePerResume
\* The operator may stop asking, the engine may never end.
CHECK_DEADLOCK FALSE
