SPECIFICATION FairSpec
CONSTANTS
  Handlers = {h1}
  Values = {v}
  MaxDepth = 5
  MaxClosures = 4
  MaxHandlers = 1
INVARIANT SoundControl
PROPERTIES ImplementsControl ReturnsSeekHome UnwindEnds
\* A program ends, and then nothing runs any more.
CHECK_DEADLOCK FALSE
