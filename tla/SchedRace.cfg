SPECIFICATION FairSpec
CONSTANTS
  shell = shell
  prime = prime
  idle1 = idle1
  idle0 = idle0
  NoTask = NoTask
  Tasks = {shell, prime, idle1}
  MaxPriorities = 2
  Priority <- Priority2
  CreatedBy <- CreatedBy2
  SuspendCalls <- RaceSuspend
  ResumeCalls <- RaceResume
  Yielders = {idle1}
  Lockers = {prime}
  MaxSuspendAll = 1
CHECK_DEADLOCK FALSE
INVARIANTS TypeOK NoSharedTask ContextIntact LockOwner CriticalPinned OneHome LockedRuns
PROPERTIES ScanEnds
