CONSTANTS
  MaxConversions = 2
  Frames = 1
  LinesPerTurn = 2
  PipeCapacity = 1
  Outputs = {"frames"}
SPECIFICATION FairSpec
PROPERTIES OldReadersEnd
