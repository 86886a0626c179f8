\* A buffer of two messages is full within the records of a behaviour, and a
\* sync comes after every third record.
CONSTANTS
  Writers = {"writer"}
  MsgMax = 2
  SyncMax = 2
  RecordMax = 5
  DiskFails = TRUE
  \* Two blocks of the card with two contents, transfers of one and two blocks.
  Blocks = {b1, b2}
  Data = {d1, d2}
  MaxBlocks = 2
  Timeout = 2
INIT MCInit
NEXT MCNext
INVARIANTS TypeOK OneInFatFs FileInOrder UnsyncedBounded OpenKeepsReported SdTruthful CardComesBack
PROPERTIES SyncedIsKept BufferOwned
