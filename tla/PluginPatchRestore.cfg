SPECIFICATION Spec
CONSTANTS
  Last = 1
  Alias = 0
  Values = {0, 1}
  Versions = {0, 1}
  Source <- MCSource
  None = none
  Gap = 1
  Message = 1
  Blocks = {1}
  MaxGen = 3
PROPERTY RestoreIsNoAutomation
