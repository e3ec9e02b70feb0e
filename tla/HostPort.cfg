SPECIFICATION FairSpec
CONSTANTS
  Words = {x, y}
  None = none
  Clamp = 2
  IsrClamp = 1
  Quantum = 1
  MaxDepth = 3
  MaxTx = 1
  MaxIrqs = 1
INVARIANTS NoWordStranded StatusTrue
PROPERTIES WordsArrive AccessReturns
