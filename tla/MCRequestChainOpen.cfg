SPECIFICATION Spec
CONSTANTS
  BodyCap = 1
  MaxLength = 2
  Requests <- MCRequests
INVARIANTS
  OpenWithoutOidc
CHECK_DEADLOCK FALSE
