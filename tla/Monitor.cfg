SPECIFICATION Spec
CONSTANTS
  DebounceTicks = 2
  ShortTicks = 2
  LongTicks = 3
  Started <- BothButtons
  Keys = {"tpad"}
  AntiShakeTick = 4
  Times <- TwoTimes
INVARIANTS
  TypeOK
  ExclusivePress
  AlarmKept
  AlarmOnTime
PROPERTIES
  EdgesReported
  KeysDebounced
