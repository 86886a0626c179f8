\* The idle task reads commands while the interrupt receives; a command of one
\* or two characters ends by length or by its newline, and may log.
CONSTANTS
  Tasks = {}
  Idle = idle
  NoThread = nobody
  LineMax = 2
  LineLens = {2}
  TxSize = 2
  RxSize = 2
  RxKinds = {"char", "newline"}
  CommandMax = 2
  InitMultiThread = {FALSE}
  MonitorOn = TRUE
SPECIFICATION Spec
INVARIANTS TypeOK RxInOrder RxCountBehind
