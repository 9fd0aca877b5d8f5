\* One process of two slots that reclaims the run it is executing.
SPECIFICATION Spec
CONSTANTS
  None = None
  p1 = p1
  c1 = c1
  k1 = k1
  NRun = 1
  Key = {k1}
  Proc = {p1}
  Caller = {c1}
  Verbs = {"create"}
  K = 2
  MaxReclaims = 1
  Streams = 2
  HeartbeatsLand = FALSE
  MaxRequeues = 1
  MaxFaults = 0
PROPERTIES
  DisplacedWritesNothing
