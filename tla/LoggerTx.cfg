\* Two tasks log in multi-thread mode and a three byte line wraps in a four byte
\* ring: one line and a printf character fill it, a second line is refused.
CONSTANTS
  Tasks = {t1, t2}
  Idle = idle
  NoThread = nobody
  LineMax = 3
  LineLens = {3}
  TxSize = 4
  RxSize = 1
  RxKinds = {}
  CommandMax = 2
  InitMultiThread = {TRUE}
  MonitorOn = TRUE
SPECIFICATION FairSpec
INVARIANTS TypeOK LineWhole TransmitArmed NoForeignGive
PROPERTY TransmitIsPipe
