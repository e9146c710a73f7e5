CONSTANTS
  MaxAsked = 4
  MaxGhosts = 1
  EarlyAsk = FALSE
  Components <- MCComponents
  Requests <- MCRequests
  Inodes = {1, 2, 3}
  MaxFd = 2
  Pieces = {"p"}
  LongUsers = {"2"}
  CloseFails = FALSE
  Kinds = {"open", "create", "close", "read", "info", "write", "seek", "remove", "truncate", "rename", "access", "access2", "diskusage", "fsync", "cp", "deleteall", "invalid"}
SPECIFICATION Spec
INVARIANTS FdExact ConfirmedInKernel SyncedOnDisk
PROPERTY UsersSeparate
CHECK_DEADLOCK FALSE
