CONSTANTS
  Uuids = {"ta", "tee"}
  IndexMax = 3
  SlotMax = 1
  Limit = 1
  MaxRecords <- MCMaxRecords
  MaxFailures = 1
  NoFile = NoFile
  CrashAt <- CrashAnywhere
SPECIFICATION Spec
INVARIANTS HistoryOrdered KeepsNewest SizeBounded
CHECK_DEADLOCK FALSE
