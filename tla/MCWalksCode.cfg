SPECIFICATION TraceSpec
CONSTANTS
  Objects = {1, 2, 3, 4}
  Null = 0
  Kinds = {"Dictionary"}
  Stores = {"table"}
  RootPlaces = {"register"}
  MaxDepth = 2
INVARIANT OnlyMeetsObjects
CHECK_DEADLOCK FALSE
