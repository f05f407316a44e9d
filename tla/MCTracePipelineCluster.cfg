SPECIFICATION Spec
CONSTANTS
  t1 = t1
  t2 = t2
  p1 = p1
  p2 = p2
  p3 = p3
  Traces = {t1}
  Pods = {p1, p2, p3}
  Replicas = 2
  Owner <- MCOwner
  Baseline = {}
  ReqMax = 1
  SlowAfter = 1
  BatchDelay = 1
  LbDelay = 1
  DecisionWait = 4
  QueueCap = 3
  NumTraces = 1
  Faults = {"pod", "retry", "kill", "outage", "reject"}
  LastStart = 0
  MaxTime = 7
INVARIANTS
  TypeOK
  IInv
  OneJudge
PROPERTIES
  ShrinkingRingCutsNothing
CHECK_DEADLOCK FALSE
