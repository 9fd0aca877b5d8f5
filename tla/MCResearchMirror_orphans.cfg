\* One row, a driver, two sweeps whose mirror may land late, a resume and one
\* mishap; the liveness of the sweep under Fairness.
SPECIFICATION FairSpec
CONSTANTS
  d1 = d1
  s1 = s1
  s2 = s2
  c1 = c1
  NRow = 1
  Driver = {d1}
  Sweeper = {s1, s2}
  Caller = {c1}
  Emails = {TRUE}
  Moves = {}
  MirrorsLate = TRUE
  MaxResumes = 1
  MaxMishaps = 1
PROPERTIES
  OrphanRecovered
\* The operator may stop asking, the engine may never end.
CHECK_DEADLOCK FALSE
