SPECIFICATION Spec
CONSTANTS
  Tasks = {t1, t2}
  Callers = {c1}
  Abandoning = {}
  QueueCapacity = 1
  MaxConcurrency = 1
INVARIANT
  NoSilentLoss
