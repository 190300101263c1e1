CONSTANTS
  MaxFrames = 2
  MaxIndex = 3
  MaxRuns = 2
  Faults <- MCNoFaults
  StartArgs <- MCStartArgs2
  FramesArgs <- MCFramesArgs2
  CountArgs <- MCCountArgs4
  FormatSets <- MCFormatSets5
SPECIFICATION IntactSpec
INVARIANT KeptSurvive
CHECK_DEADLOCK FALSE
