SPECIFICATION Spec
CONSTANTS
  shell = shell
  prime = prime
  idle1 = idle1
  idle0 = idle0
  NoTask = NoTask
  Tasks = {shell, prime, idle1, idle0}
  MaxPriorities = 4
  Priority <- PriorityOne
  CreatedBy <- CreatedByOne
  SuspendCalls <- Core0Suspend
  ResumeCalls <- Core0Resume
  Yielders = {idle1, shell, prime}
  Lockers = {}
  MaxSuspendAll = 0
CHECK_DEADLOCK FALSE
INVARIANTS NoHalt SuspendedStops HighestRuns
