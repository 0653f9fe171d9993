SPECIFICATION Spec
CONSTANTS
  shell = shell
  prime = prime
  idle1 = idle1
  idle0 = idle0
  NoTask = NoTask
  Tasks = {shell, prime, idle1}
  MaxPriorities = 2
  Priority <- Priority2
  CreatedBy <- CreatedBy2
  SuspendCalls <- Idle1Suspends
  ResumeCalls <- NoCalls
  Yielders = {shell}
  Lockers = {shell}
  MaxSuspendAll = 1
CHECK_DEADLOCK FALSE
INVARIANT SuspendedStops
