\* Two rows of an intake, a driver and two sweeps at once, operators with
\* and without an email, cancels, reruns and two mishaps.
SPECIFICATION Spec
CONSTANTS
  d1 = d1
  s1 = s1
  s2 = s2
  c1 = c1
  NRow = 2
  Driver = {d1}
  Sweeper = {s1, s2}
  Caller = {c1}
  Emails = {TRUE, FALSE}
  Moves = {"decomposed"}
  MirrorsLate = FALSE
  MaxResumes = 0
  MaxMishaps = 2
SYMMETRY Symmetry
INVARIANTS
  FinalisedOnce
  CompletionMailTrue
  DeliveredNotFailed
  OneInFlight
\* The operator may stop asking, the engine may never end.
CHECK_DEADLOCK FALSE
