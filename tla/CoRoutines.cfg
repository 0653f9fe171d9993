SPECIFICATION Spec
CONSTANTS
  high = high  low = low  other = other  None = None
  CoRoutines <- Three
  MaxPriorities = 2
  Asked <- AskedFor
  Width = 4
  Capacity = 1
  Calls <- SomeCalls
  MaxTicks = 5
  MaxLag = 3
INVARIANTS OneHome NoLostWakeup
PROPERTIES OnTime
