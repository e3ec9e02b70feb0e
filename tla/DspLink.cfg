SPECIFICATION MCSpec
CONSTANTS
  BlockTime = 2
  Latency = 3
  Steps = {1, 10}
  StepTime = 10
  Quantum = 3
  WaitClamp = 12
  MaxIn = 3
  MaxTime = 5
  MaxSwitches = 2
  Period = 2
  OutputStep = 2
  OutputQuantum = 3
  OutputWait = 3
  OutputTime = 6
  OutputSwitches = 1
  MaxSent = 1
  MaxWav = 2
INVARIANTS LinkOrdered ArrivedWithinMargin OutputWhole
