SPECIFICATION Answers
CONSTANTS
  Names = {"a", "b"}
  Dirs = 2
  Garbled <- MCGarbled
  MaxCalls <- MCCalls
  Loaded <- MCLoaded
  MaxModules = 3
  MaxChanges = 1
INVARIANTS BodiesUnderWay OneModulePerName
PROPERTIES ImplementsImports QuietFilesAreFound Ends
