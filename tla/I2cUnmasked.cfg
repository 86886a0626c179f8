\* The kernel configuration of FreeRTOSConfig.h: critical sections mask nothing.
CONSTANTS
  Drivers = {"monitor", "schedular"}
  MaxTriggers = 2
  QueueMax = 2
  DelayPeriods = 1
  UpdatePeriods = 1
  BusFails = FALSE
  MaxSyscall = 80
  PrioBits = 4
SPECIFICATION Spec
PROPERTY OneOutputStored
