SPECIFICATION Spec
CONSTANTS
  Payload = {empty, p1, p2, dup}
  Empty = empty
  Rejected = {dup}
  None = none
  Torn = torn
  Down = down
  Unsettled = unsettled
  Protocol = "naive"
  Durable = TRUE
  FaultKinds = {"db", "write", "validate", "activate", "record"}
  MaxVersion = 2
INVARIANTS TypeOK SettledServesRecorded Inv
PROPERTIES RecordOnlyServed VersionNeverGoesBack DriverRestores ContractSpec
