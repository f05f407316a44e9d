SPECIFICATION FairSpec
CONSTANTS
  r1 = r1
  r2 = r2
  Offered <- MCOffered
  Requests = {r1, r2}
  Kinds <- ScriptKinds
  SpansOf <- ScriptSpans
  Inside <- ScriptInside
  Above <- ScriptAbove
  Before <- ScriptBefore
  Sleep <- ScriptSleep
  Total <- ScriptTotal
  Fails <- ScriptFails
  Group <- ScriptGroup
  Slow = {"latency"}
  Jitter = 50
  SlowAfter = 1000
  QueueCap = 2
  BatchSize = 1
  MaxLost = 2
  Faults = {"outage", "kill"}
INVARIANTS
  IInv
  NoOvertaking
  FailureSurvives
  SlowAreSlow
PROPERTIES
  EveryRequestEnds
  GroupsInOrder
CHECK_DEADLOCK FALSE
