SPECIFICATION Spec
CONSTANTS
  Rate = 3
  DecisionWait = 4
  NumTraces = 12
INVARIANTS
  NothingLost
  IInv
