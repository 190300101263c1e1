CONSTANTS
  MaxConversions = 2
  Frames = 1
  LinesPerTurn = 2
  PipeCapacity = 2
  Outputs = {"frames"}
SPECIFICATION FairSpec
PROPERTIES ConversionNoticed
