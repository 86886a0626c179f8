\* Two pages of two blocks: every third write moves to the other page, and power
\* may fail at every step of it.  An interrupted erase has cleared the whole page
\* or nothing of it.
CONSTANTS
  Values = {v1, v2, v3}
  BlockNum = 2
  Erased = erased
  Torn = torn
  Other = other
  NoValue = novalue
  ErasePrefixes = {2}
  \* Two blocks of two sectors tell a sector from its block and a block from the
  \* chip, and three bytes of address reach one of them; the two timeouts are told
  \* apart.
  SerialBlocks = {b1, b2}
  LowBlocks = {b1}
  PerBlock = 2
  SerialValues = {"data"}
  ShortTimeout = 2
  LongTimeout = 3
  \* Words of three bits: two of address and the direction.
  W = 3
  Device <- OneDevice
  Addrs <- TwoAddrs
  Mems <- TwoMems
  Payloads <- ShortPayloads
  ReadMax = 2
INIT MCInit
NEXT MCNext
INVARIANTS
  TypeOK WrittenIsRead OnePageValid ReadIsRecent ValueKept WrittenUpwards
  OkIsDone NothingElse
  Delivered BusReleased
PROPERTY BusRules
