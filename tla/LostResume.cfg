SPECIFICATION OnceSpec
CONSTANTS
  shell = shell
  prime = prime
  idle1 = idle1
  idle0 = idle0
  NoTask = NoTask
  Tasks = {shell, prime, idle1}
  MaxPriorities = 2
  Priority <- Priority2
  CreatedBy <- CreatedBy2
  SuspendCalls <- ShellSuspends
  ResumeCalls <- NoCalls
  Yielders = {}
  Lockers = {}
  MaxSuspendAll = 0
CHECK_DEADLOCK FALSE
INVARIANTS ResumeTakes
