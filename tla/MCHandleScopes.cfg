SPECIFICATION Spec
CONSTANTS
  Places = {0, 3, 6}
  SetSize = 2
  MaxScopes = 4
  MaxHandles = 3
INVARIANTS
  HandlesSound
  HandlesAreRoots
CHECK_DEADLOCK FALSE
