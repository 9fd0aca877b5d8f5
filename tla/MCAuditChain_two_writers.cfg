\* Two calls by two clients, a worker's and an API instance's.
SPECIFICATION Spec
CONSTANTS
  None = None
  p1 = p1
  p2 = p2
  m1 = m1
  m2 = m2
  c1 = c1
  c2 = c2
  Proc = {p1, p2}
  Client = {m1, m2}
  Call = {c1, c2}
  Slots = 1
INVARIANTS
  SingleWriter
CHECK_DEADLOCK FALSE
