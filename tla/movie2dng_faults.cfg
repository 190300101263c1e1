CONSTANTS
  MaxFrames = 3
  MaxIndex = 3
  MaxRuns = 2
  Faults <- MCFaults
  StartArgs <- MCStartArgs
  FramesArgs <- MCFramesArgs
  CountArgs <- MCCountArgs
  FormatSets <- MCFormatSets
SPECIFICATION FaultySpec
INVARIANTS TypeOK OutputsMatchIndex InStepInv NoTemporaryLeft LeftoversBounded
CHECK_DEADLOCK FALSE
