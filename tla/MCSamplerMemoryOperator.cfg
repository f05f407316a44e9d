SPECIFICATION Spec
CONSTANTS
  Rate = 2
  DecisionWait = 3
  NumTraces = 2
INVARIANTS
  NothingLost
