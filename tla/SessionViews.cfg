SPECIFICATION Spec
CONSTANTS
  User = {u}
  Ip = {ip}
  None = none
  SessionTtls = {0, 1}
  HistoryTtl = 1
  CacheTtl = 2
  ExplorerTtl = 2
  MaxTail = 1
  MaxNow = 3
  MaxRecords = 2
  MaxChanges = 2
INVARIANTS ResetHides ActiveIsRecent ExplorerActiveIsRecent NothingMissing
