SPECIFICATION Spec
CONSTANTS
  Tasks = {t1, t2, t3}
  Callers = {c1, c2}
  Abandoning = {}
  QueueCapacity = 1
  MaxConcurrency = 2
SYMMETRY Symmetry
INVARIANTS
  Accounted
  CountersMatch
  ReturnedMeansStopped
  OneReport
