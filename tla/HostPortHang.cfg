SPECIFICATION FairSpec
CONSTANTS
  Words = {x}
  None = none
  Clamp = 2
  IsrClamp = 1
  Quantum = 1
  MaxDepth = 1
  MaxTx = 1
  MaxIrqs = 1

PROPERTY CommandReturns
