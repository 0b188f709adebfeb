SPECIFICATION Spec
CONSTANTS
  Places = {0, 3, 6}
  SetSize = 2
  MaxScopes = 2
  MaxHandles = 3
INVARIANT
  ScansHandles
CHECK_DEADLOCK FALSE
