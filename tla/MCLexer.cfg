SPECIFICATION Spec
CONSTANTS
  Sizes = {8, 9, 10, 11, 12, 40}
  Samples <- MCSamples
INVARIANTS GivesTheTokens LinesAreTrue
PROPERTIES Ends
