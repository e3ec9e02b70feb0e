SPECIFICATION MCSpec
CONSTANTS
  Threads = {t1, t2, t3}
  Audio = audio
  Nobody = nobody
  MaxOps = 2
  Inits = 1
  Lengths = {1, 2}
  MaxAsked = 9
INVARIANTS NoBlockInPause SuspensionRestored OwnPid
PROPERTY OperationsEnd
