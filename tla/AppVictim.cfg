SPECIFICATION Spec
CONSTANTS
  shell = shell
  prime = prime
  idle1 = idle1
  idle0 = idle0
  NoTask = NoTask
  Tasks = {shell, prime, idle1, idle0}
  MaxPriorities = 4
  Priority <- Priority4
  CreatedBy <- CreatedBy4
  SuspendCalls <- AppSuspend
  ResumeCalls <- AppResume
  Yielders = {}
  Lockers = {}
  MaxSuspendAll = 0
CHECK_DEADLOCK FALSE
INVARIANT OnlyNamed
