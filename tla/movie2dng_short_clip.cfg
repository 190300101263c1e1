CONSTANTS
  MaxFrames = 3
  MaxIndex = 5
  MaxRuns = 1
  Faults <- MCNoFaults
  StartArgs <- MCStartArgs4
  FramesArgs <- MCFramesArgs5
  CountArgs <- MCCountArgs4
  FormatSets <- MCFormatSets4
SPECIFICATION Spec
INVARIANT OnlyNFrames
CHECK_DEADLOCK FALSE
