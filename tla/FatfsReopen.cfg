\* No call of FatFs fails.
CONSTANTS
  Writers = {"writer"}
  MsgMax = 2
  SyncMax = 2
  RecordMax = 3
  DiskFails = FALSE
SPECIFICATION Spec
INVARIANT ReportedIsKept
