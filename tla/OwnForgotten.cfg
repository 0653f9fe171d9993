SPECIFICATION Spec
CONSTANTS
  shell = shell
  prime = prime
  idle1 = idle1
  idle0 = idle0
  NoTask = NoTask
  Tasks = {shell, prime, idle1, idle0}
  MaxPriorities = 3
  Priority <- Priority3
  CreatedBy <- CreatedBy3
  SuspendCalls <- OwnSuspend
  ResumeCalls <- OwnResume
  Yielders = {}
  Lockers = {}
  MaxSuspendAll = 0
CHECK_DEADLOCK FALSE
INVARIANT NoForgotten
