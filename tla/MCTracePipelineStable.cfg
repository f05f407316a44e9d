SPECIFICATION FairSpec
CONSTANTS
  t1 = t1
  t2 = t2
  p1 = p1
  p2 = p2
  p3 = p3
  Traces <- MCTraces
  Pods = {p1}
  Replicas = 1
  Owner <- MCOwner
  Baseline <- MCBaseline
  ReqMax = 1
  SlowAfter = 1
  BatchDelay = 1
  LbDelay = 0
  DecisionWait = 3
  QueueCap = 6
  NumTraces = 2
  Faults = {"retry"}
  LastStart = 0
  MaxTime = 5
INVARIANTS
  OnlyFaultsHarm
PROPERTIES
  EventuallyJudged
  PromiseKept
CHECK_DEADLOCK FALSE
