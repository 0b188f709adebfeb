SPECIFICATION TraceSpec
CONSTANTS
  Objects = {1, 2, 3, 4, 5, 6}
  Null = 0
  Kinds = {"Dictionary", "LongReturn"}
  Stores = {"table"}
  RootPlaces = {"register"}
  MaxDepth = 2
PROPERTIES KeepsWhatItSees CollectionEnds
CHECK_DEADLOCK FALSE
