CONSTANTS
  Arguments <- MCArguments
  MaxArguments = 4
  Sources <- MCSources
  Directories <- MCDirectories
  FieldTexts <- MCFieldTexts
  Boxes = {"dng", "pgm"}
  Shifts <- MCShifts
  Image = 5
  Header = 2
  Trailing <- MCTrailing
  OutSizes <- MCOutSizes
  Capacity = 3
  Stocks <- MCStocks
  Frames = {"1", "2"}
  MaxRuns = 2
SPECIFICATION Spec
INVARIANTS ReadAsGiven CommandMeansSettings AnswerIsComplete LastClipKept FramesKept
PROPERTIES RequestEnds
CHECK_DEADLOCK FALSE
