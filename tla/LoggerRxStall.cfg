\* A ring of two bytes is enough to lose an increment of the count.
CONSTANTS
  Tasks = {}
  Idle = idle
  NoThread = nobody
  LineMax = 2
  LineLens = {}
  TxSize = 1
  RxSize = 2
  RxKinds = {"newline"}
  CommandMax = 2
  InitMultiThread = {FALSE}
  MonitorOn = FALSE
SPECIFICATION FairSpec
PROPERTY RxEventuallyTaken
CHECK_DEADLOCK FALSE
