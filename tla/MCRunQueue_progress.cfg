\* Two runs, two processes of one slot each, which they run out of; crashes and
\* one database fault; the liveness of the queue under Fairness.
SPECIFICATION FairSpec
CONSTANTS
  None = None
  p1 = p1
  p2 = p2
  c1 = c1
  k1 = k1
  k2 = k2
  NRun = 2
  Key = {k1, k2}
  Proc = {p1, p2}
  Caller = {c1}
  Verbs = {"create"}
  K = 1
  MaxReclaims = 1
  Streams = 2
  HeartbeatsLand = TRUE
  MaxRequeues = 0
  MaxFaults = 1
INVARIANTS
  SingleExecution
  SlotsAccounted
PROPERTIES
  QueuedIsClaimed
  RunningEnds
