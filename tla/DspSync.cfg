SPECIFICATION FairSpec
CONSTANTS
  Workers = {w1, w2}
  Main = d0
  NoOne = none
  SpinLimit = 2
  MaxClock = 1
  MaxRounds = 2
INVARIANTS DspsStopped NoLostWakeup
PROPERTIES SyncCompletes DestructorTerminates ImplementsBarrier
