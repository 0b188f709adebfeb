SPECIFICATION Spec
CONSTANTS
  NameOrder <- MCNameOrder
  MaxReg = 32
INVARIANTS
  RunsAsWritten
  CompilesToWellFormed
  ReadsWhatWasWritten
  HandlersMatchPlace
  LineOfSend
\* A program ends, and one that loops stops when the world is asked no more.
CHECK_DEADLOCK FALSE
