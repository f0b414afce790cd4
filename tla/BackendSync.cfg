SPECIFICATION BackendSpec
CONSTANTS
  Payload = {empty, p1, p2}
  Empty = empty
  Rejected = {}
  None = none
  Torn = torn
  Down = down
  Unsettled = unsettled
  Protocol = "naive"
  Durable = TRUE
  FaultKinds = {"db", "write", "validate", "activate", "record"}
  MaxVersion = 2
  MaxMishaps = 3
INVARIANTS BackendInv AckedStays
PROPERTY Converges
