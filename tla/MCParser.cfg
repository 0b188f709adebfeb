SPECIFICATION Spec
CONSTANTS
  YYSTACKDEPTH = 100
  ActionTable <- MCActionTable
  GotoTable <- MCGotoTable
  Samples <- MCSamples
  Items <- MCItems
INVARIANTS ParsesBack CompilesWhatIsWritten StacksBalance ReducesItsHandle SendsHaveTheLineOfTheirReceiver
PROPERTY Ends
