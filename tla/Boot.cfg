SPECIFICATION BootSpec
CONSTANTS
  primeM0 = primeM0 primeU0 = primeU0 shell = shell
  primeM1 = primeM1 idle1 = idle1 idle0 = idle0 NoTask = NoTask
  MainTasks <- Main
  SecondTasks <- Secondary
  Priority <- Priorities
  MaxPriorities = 6
  Vectors = {1, 2, 29, 30, 31}
  MaxTicks = 3
CHECK_DEADLOCK FALSE
INVARIANT HandsOver
PROPERTY BothRun
