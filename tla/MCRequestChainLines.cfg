SPECIFICATION Spec
CONSTANTS
  BodyCap = 1
  MaxLength = 2
  Requests <- MCRequests
INVARIANTS
  LinesCorrelate
CHECK_DEADLOCK FALSE
