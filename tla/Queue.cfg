SPECIFICATION Spec
CONSTANTS
  high = high  low = low  other = other  NoTask = NoTask
  channel = channel  mutex = mutex  a = a  b = b
  Tasks <- QueueTasks
  MaxPriorities = 4
  Priority <- QueuePriority
  Queues = {channel}
  Kind <- QueueKind
  Capacity <- QueueCapacity
  Items = {a, b}
  Calls <- QueueCalls
  IsrSends = {channel}
  IsrReceives = {channel}
  PrioritySets <- QueuePrioritySets
  AltTasks = {other}
  Suspends <- QueueSuspends
  IsrResumes = {high}
  Deletes <- None
  MaxLock = 2
  MaxNesting = 0
INVARIANTS NoLostWakeup LockedAlone OneWait HighestRuns
PROPERTIES PromiseKept
