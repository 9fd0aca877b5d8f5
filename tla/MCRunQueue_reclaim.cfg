\* One run, three processes of one slot, two concurrent callers; heartbeats that
\* may be starved, crashes, one database fault, and the verbs that move a run.
SPECIFICATION Spec
CONSTANTS
  None = None
  p1 = p1
  p2 = p2
  p3 = p3
  c1 = c1
  c2 = c2
  k1 = k1
  NRun = 1
  Key = {k1}
  Proc = {p1, p2, p3}
  Caller = {c1, c2}
  Verbs = {"create", "report_spec", "resume", "cancel"}
  K = 1
  MaxReclaims = 1
  Streams = 2
  HeartbeatsLand = FALSE
  MaxRequeues = 1
  MaxFaults = 1
SYMMETRY Symmetry
INVARIANTS
  SpendBounded
  ReportsBounded
PROPERTIES
  DisplacedWritesNothing
  LifecycleSpec
