SPECIFICATION Spec
CONSTANTS
  shell = shell
  prime = prime
  idle1 = idle1
  idle0 = idle0
  NoTask = NoTask
  Tasks = {shell, prime, idle1}
  MaxPriorities = 2
  Priority <- Priority2
  CreatedBy <- CreatedBy2
  SuspendCalls <- NoCalls
  ResumeCalls <- NoCalls
  Yielders = {prime, idle1}
  Lockers = {shell, prime}
  MaxSuspendAll = 2
CHECK_DEADLOCK FALSE
INVARIANT LockedRuns
