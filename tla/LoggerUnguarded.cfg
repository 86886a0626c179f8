\* The configuration of product_config.h: MONITOR_MODULE_STATE is MODULE_OFF, so
\* nothing calls logger_set_multi_thread_run and two tasks log without a mutex.
CONSTANTS
  Tasks = {t1, t2}
  Idle = idle
  NoThread = nobody
  LineMax = 2
  LineLens = {2}
  TxSize = 2
  RxSize = 1
  RxKinds = {}
  CommandMax = 2
  InitMultiThread = {FALSE}
  MonitorOn = FALSE
SPECIFICATION Spec
INVARIANT LineWhole
