SPECIFICATION Spec
CONSTANTS
  BodyCap = 1
  MaxLength = 2
  Requests <- MCRequests
INVARIANTS
  IInv
  StatusAgree
  ErrorsVisible
  PanicsAnswered
  UsersProtected
PROPERTIES
  IsAHandler
CHECK_DEADLOCK FALSE
