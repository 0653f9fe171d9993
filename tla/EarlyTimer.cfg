SPECIFICATION Spec
CONSTANTS
  once = once often = often NoTimer = NoTimer
  Timers <- TwoTimers
  Width = 5
  Period <- Periods
  AutoReload = {often}
  QueueLength = 2
  Commands <- SomeCommands
  MaxTicks = 6
  MaxLate = 2
CHECK_DEADLOCK FALSE
PROPERTY NotBeforeItsTime
