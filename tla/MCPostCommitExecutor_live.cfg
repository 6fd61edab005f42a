SPECIFICATION FairSpec
CONSTANTS
  Tasks = {t1, t2}
  Callers = {c1}
  Abandoning = {c1}
  QueueCapacity = 1
  MaxConcurrency = 1
PROPERTIES
  ImplementsLossyWork
  QueuedSettles
  DroppedStops
  ShutdownReturns
