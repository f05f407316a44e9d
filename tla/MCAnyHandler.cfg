SPECIFICATION Spec
CONSTANTS
  BodyCap = 3
  Codes = {200, 404, 500}
  MaxWrite = 4
  MaxBody = 8
INVARIANTS
  IInv
  TracedIsSent
  LoggedIsSent
  OneHeader
  KeptIsPrefix
  Transparent
CHECK_DEADLOCK FALSE
