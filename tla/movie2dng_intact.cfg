CONSTANTS
  MaxFrames = 2
  MaxIndex = 3
  MaxRuns = 2
  Faults <- MCFaults3
  StartArgs <- MCStartArgs3
  FramesArgs <- MCFramesArgs3
  CountArgs <- MCCountArgs3
  FormatSets <- MCFormatSets3
SPECIFICATION IntactSpec
INVARIANTS AnnouncedIsConverted
PROPERTIES ImplementsFrameExport Termination
CHECK_DEADLOCK FALSE
