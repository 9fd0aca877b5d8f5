\* Three calls of any kind by two clients of one process with one permit,
\* with a crash, provider errors and aborts.
SPECIFICATION FairSpec
CONSTANTS
  None = None
  p1 = p1
  m1 = m1
  m2 = m2
  c1 = c1
  c2 = c2
  c3 = c3
  Proc = {p1}
  Client = {m1, m2}
  Call = {c1, c2, c3}
  Slots = 1
INVARIANTS
  ChainVerifies
  LockKeepsCallsApart
  PermitsAccounted
PROPERTIES
  CallsEnd
\* A run makes finitely many calls and then none.
CHECK_DEADLOCK FALSE
