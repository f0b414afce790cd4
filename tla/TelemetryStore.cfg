SPECIFICATION Spec
CONSTANTS
  Key = {a, b}
  HistoryTtl = 1
  SessionTtls = {0, 2}
  Limit = 1
  None = none
  MaxNow = 2
  MaxRecords = 3
  MaxBytes = 1
  MaxFailures = 1
INVARIANTS TypeOK EveryByteOnce ListsWhoWasSeen SnapshotAgreesWithTable FreshIsLast
PROPERTY Retention
