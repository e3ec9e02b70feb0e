SPECIFICATION MCSpec
CONSTANTS
  MaxIn = 4
  MaxOut = 3
  MaxTx = 3
  Messages <- MCMessages
  Limit = 3
  Pace = 2
  MaxTurns = 2
  Moves <- MCMoves
  Gap = 1
  Channels = 2
  Values = {v1, v2}
  MaxCycles = 3
  Grid = 4
  SciPeriod = 3
  Periods = {3, 5}
  MaxClock = 24
INVARIANTS InOrder PanelTrue KeepsTime
PROPERTIES WholeMessages BytesRead
