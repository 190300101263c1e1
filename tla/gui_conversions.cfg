CONSTANTS
  MaxConversions = 2
  Frames = 2
  LinesPerTurn = 2
  PipeCapacity = 2
  Outputs = {"frames", "failed", "text", "nothing"}
SPECIFICATION Spec
INVARIANTS TypeOK OneConversion ProgressIsCurrent
PROPERTIES ProgressGoesOn
