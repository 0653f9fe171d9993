SPECIFICATION Spec
CONSTANTS
  slow = slow  fast = fast  NoTask = NoTask
  Tasks <- TickTasks
  Width = 4
  Calls <- TickCalls
  MaxInterrupts = 4
  MaxAhead = 3
CHECK_DEADLOCK FALSE
INVARIANT NoneLeftBehind
