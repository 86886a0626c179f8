\* The kernel configuration of FreeRTOSConfig.h.  Two queue entries are
\* few enough to be full when the interrupt, the timer or a task posts, and three
\* triggers are one more than the monitor registers.
CONSTANTS
  Drivers = {"schedular"}
  MaxTriggers = 3
  QueueMax = 2
  DelayPeriods = 2
  UpdatePeriods = 1
  BusFails = TRUE
  MaxSyscall = 80
  PrioBits = 4
SPECIFICATION FairSpec
INVARIANTS TypeOK OneRead OneTriggerPerEvent WritePending DelayKept
PROPERTY Rearmed
