SPECIFICATION MCSpec
CONSTANTS
  Size = 2
  Modulus = 8
  Channels = 2
  Samples = {x, y}
  None = none
  Rates = {1, 2, 4}
  EmuRate = 2
  One = 4
  Cushion = 1
  Capacity = 18
  CardBlocks = {1, 3}
  Block = 2
  CushionBlocks = 3
  Limit = 9
INVARIANTS NoDataRace FirstBlockPlays NoDrift
PROPERTIES ImplementsQueue PlayResumes CushionPlays
