CONSTANTS
  MaxFrames = 4
  MaxIndex = 5
  MaxRuns = 1
  Faults <- MCNoFaults
  StartArgs <- MCStartArgs5
  FramesArgs <- MCFramesArgs4
  CountArgs <- MCCountArgs4
  FormatSets <- MCFormatSets4
SPECIFICATION IntactSpec
INVARIANT AnnouncedIsConverted
CHECK_DEADLOCK FALSE
