SPECIFICATION Spec
CONSTANTS
  Payload = {empty, p1, p2}
  Empty = empty
  Rejected = {}
  None = none
  Torn = torn
  Down = down
  Unsettled = unsettled
  Protocol = "mieru"
  Durable = FALSE
  FaultKinds = {"write", "perms", "quiesce", "activate", "record"}
  MaxVersion = 2
INVARIANT SettledServesRecorded
PROPERTIES RecordOnlyServed DriverRestores ContractSpec
