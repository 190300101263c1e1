CONSTANTS
  MaxObjects = 2
  Blocks = {b1, b2, b3, b4}
  WordCounts <- MCWordCounts
  Null = Null
  Wild = Wild
  Lengths <- MCLengths
  FirstData <- MCFirstData
  MaxChanges = 1
  DeblockDims <- MCDeblockDims
  ScanDims <- MCScanDims
  Samplings <- MCSamplings
  MaxBlocks = 10
  MaxSuspends = 2
  N = 4
  Step = 4
  One = 4
  IntSpan = 256
  Curves <- MCCurves
  Scales <- MCScales
  MaxImages = 3
  Heights <- MCHeights
SPECIFICATION Spec
INVARIANTS OwnMemoryOnly NoteOfThisFrame PixelsInPlace BlocksInPlace OneColourPerBlock ReversesCamera CallsAreAccepted StreamIsWhole
PROPERTIES OneFieldPerBit Ends
CHECK_DEADLOCK FALSE
