SPECIFICATION Spec
CONSTANTS
  t1 = t1
  t2 = t2
  p1 = p1
  p2 = p2
  p3 = p3
  Traces = {t1, t2}
  Pods = {p1}
  Replicas = 1
  Owner <- MCOwner
  Baseline = {}
  ReqMax = 1
  SlowAfter = 1
  BatchDelay = 1
  LbDelay = 1
  DecisionWait = 4
  QueueCap = 2
  NumTraces = 1
  Faults = {"kill", "outage", "reject"}
  LastStart = 0
  MaxTime = 7
INVARIANTS
  RightlyStored
  FailuresAndSlowStored
  AllOrNothing
PROPERTIES
  WholeDecisions
  GroupsInOrder
CHECK_DEADLOCK FALSE
