SPECIFICATION FairSpec
CONSTANTS
  Last = 1
  Alias = 0
  Values = {0, 1}
  Versions = {0, 1}
  Source <- MCSource
  None = none
  Gap = 2
  Message = 2
  Blocks = {1}
  MaxGen = 3
INVARIANTS ModelMatchesMachine NoStaleEdit NoBacklog
PROPERTIES LoadIsNoAutomation RestoredAsSaved EditsDelivered
