\* A cancel whose run ends between its read and its write.
SPECIFICATION Spec
CONSTANTS
  None = None
  p1 = p1
  c1 = c1
  k1 = k1
  NRun = 1
  Key = {k1}
  Proc = {p1}
  Caller = {c1}
  Verbs = {"create", "cancel"}
  K = 1
  MaxReclaims = 0
  Streams = 2
  HeartbeatsLand = TRUE
  MaxRequeues = 1
  MaxFaults = 0
PROPERTIES
  CancelIsNoOpOnceEnded
