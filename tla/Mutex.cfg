SPECIFICATION Spec
CONSTANTS
  high = high  low = low  other = other  NoTask = NoTask
  channel = channel  mutex = mutex  a = a  b = b
  Tasks <- QueueTasks
  MaxPriorities = 4
  Priority <- MutexPriority
  Queues = {channel, mutex}
  Kind <- MutexKind
  Capacity <- MutexCapacity
  Items = {a}
  Calls <- MutexCalls
  IsrSends = {channel}
  IsrReceives <- None
  PrioritySets <- None
  AltTasks = {other}
  Suspends <- None
  IsrResumes = {}
  Deletes <- MutexDeletes
  MaxLock = 2
  MaxNesting = 2
INVARIANTS NoInversion Restored
