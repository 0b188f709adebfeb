SPECIFICATION SpecCapturedOp
CONSTANTS
  NameOrder <- MCNameOrder
  MaxReg = 24
INVARIANTS
  RunsAsWritten
CHECK_DEADLOCK FALSE
