\* The bus never fails, no other task drives an output, and the queue has room
\* for all events: what is lost is lost by the order of the steps.
CONSTANTS
  Drivers = {}
  MaxTriggers = 2
  QueueMax = 3
  DelayPeriods = 1
  UpdatePeriods = 2
  BusFails = FALSE
  MaxSyscall = 80
  PrioBits = 4
SPECIFICATION FairSpec
PROPERTY ReadCatchesUp
