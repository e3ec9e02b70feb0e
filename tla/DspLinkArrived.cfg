SPECIFICATION Spec
CONSTANTS
  BlockTime = 2
  Latency = 3
  Steps = {1}
  StepTime = 1
  Quantum = 2
  WaitClamp = 8
  MaxIn = 4
  MaxTime = 10
  MaxSwitches = 0
INVARIANT SurelyArrived
