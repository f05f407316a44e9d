SPECIFICATION Spec
CONSTANTS
  t1 = t1
  t2 = t2
  p1 = p1
  p2 = p2
  p3 = p3
  Traces = {t1}
  Pods = {p1}
  Replicas = 1
  Owner <- MCOwner
  Baseline = {}
  ReqMax = 1
  SlowAfter = 1
  BatchDelay = 1
  LbDelay = 1
  DecisionWait = 4
  QueueCap = 3
  NumTraces = 1
  Faults = {"kill"}
  LastStart = 0
  MaxTime = 5
INVARIANTS
  FailuresStored
CHECK_DEADLOCK FALSE
