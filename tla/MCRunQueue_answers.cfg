\* Two concurrent callers with every verb but resume (run reclaim has it);
\* room for a run and two replacements of it.
SPECIFICATION Spec
CONSTANTS
  None = None
  p1 = p1
  c1 = c1
  c2 = c2
  k1 = k1
  NRun = 3
  Key = {k1}
  Proc = {p1}
  Caller = {c1, c2}
  Verbs = {"create", "answer", "report_spec", "rewrite", "cancel"}
  K = 1
  MaxReclaims = 0
  Streams = 2
  HeartbeatsLand = TRUE
  MaxRequeues = 1
  MaxFaults = 0
SYMMETRY Symmetry
INVARIANTS
  AnsweredOnce
  OneRunPerKey
