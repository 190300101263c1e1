CONSTANTS
  Sizes <- MCSizes
  Shifts <- MCShifts
  MaxTurns = 3
  Bytes = {1, 2}
  Counts = {1, 3}
  MaxLength = 4
  BufferSizes = {1, 2}
  Alignment = 2
  MaxEntries = 5
  OtherCodes = {254, 700}
  Lengths = {4}
  MaxAdds = 3
  Heights = {3}
  BufferRows = {0, 2}
  RowBytes <- MCRowBytes
  Limit = 210
  Areas <- MCAreas
  Repeats <- MCRepeats
  Units <- MCUnits
  MaxTiles <- MCMaxTiles
  MD5Block = 8
  WordBits = 8
  ImageHeights <- MCImageHeights
  ImageWidths <- MCImageWidths
  PixelSizes = {1, 2, 4}
  kBufferRows = 2
SPECIFICATION Spec
INVARIANTS SensorColours TagKeepsTurns LinksHold RowsInPlace NothingOverlaps EachPixelOnce TilesFit DigestOfImage
PROPERTIES IsByteStream
CHECK_DEADLOCK FALSE
